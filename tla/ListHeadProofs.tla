--------------------------- MODULE ListHeadProofs ---------------------------
(****************************************************************************)
(* The operations of include/list.h on pointers are the operations on       *)
(* sequences the other modules use in their place, for lists of any length. *)
(****************************************************************************)
EXTENDS ListHead, Integers, SequenceTheorems, WellFoundedInduction, TLAPS

\* list_add_tail appends.
THEOREM AddTailCorrect ==
  ASSUME NEW Nodes, NEW l \in Stores(Nodes), NEW head \in Nodes, NEW s \in Seq(Nodes),
         NEW new \in Nodes, new # head, \A i \in 1 .. Len(s) : s[i] # new,
         Represents(l, head, s)
  PROVE  Represents(AddTail(l, new, head), head, Append(s, new))
<1> DEFINE m == AddTail(l, new, head)
           t == Append(s, new)
           n == Len(s)
           last == Node(head, s, n)
<1>1. /\ n \in Nat /\ Len(t) = n + 1
      /\ \A i \in 1 .. n : t[i] = s[i] /\ s[i] \in Nodes
      /\ t[n + 1] = new
  OBVIOUS
<1>2. l.prev[head] = last /\ last \in Nodes /\ last # new
  BY <1>1 DEF Represents, Node
<1>3. /\ l.next \in [Nodes -> Nodes \cup {Poison}]
      /\ l.prev \in [Nodes -> Nodes \cup {Poison}]
  BY DEF Stores
<1>4. /\ m.next = [l.next EXCEPT ![new] = head, ![last] = new]
      /\ m.prev = [l.prev EXCEPT ![head] = new, ![new] = last]
  BY <1>2 DEF AddTail, Insert
<1>5. /\ m.next[new] = head /\ m.next[last] = new
      /\ \A x \in Nodes \ {new, last} : m.next[x] = l.next[x]
      /\ m.prev[head] = new /\ m.prev[new] = last
      /\ \A x \in Nodes \ {new, head} : m.prev[x] = l.prev[x]
  BY <1>2, <1>3, <1>4
<1> HIDE DEF m
<1>6. \A i \in 0 .. n : Node(head, t, i) = Node(head, s, i)
  BY <1>1 DEF Node
<1>7. Node(head, t, n + 1) = new /\ Node(head, t, n + 2) = head
  BY <1>1 DEF Node
<1> HIDE DEF t
<1>8. \A i \in 0 .. (n - 1) :
         /\ Node(head, s, i) \in Nodes \ {new, last}
         /\ Node(head, s, i + 1) \in Nodes \ {new, head}
  BY <1>1 DEF Represents, Node
<1>9. \A i \in 0 .. (n - 1) :
         /\ m.next[Node(head, t, i)] = Node(head, t, i + 1)
         /\ m.prev[Node(head, t, i + 1)] = Node(head, t, i)
  <2> SUFFICES ASSUME NEW i \in 0 .. (n - 1)
               PROVE  /\ m.next[Node(head, t, i)] = Node(head, t, i + 1)
                      /\ m.prev[Node(head, t, i + 1)] = Node(head, t, i)
    OBVIOUS
  <2>1. i \in 0 .. n /\ i + 1 \in 0 .. n
    BY <1>1
  <2>2. /\ l.next[Node(head, s, i)] = Node(head, s, i + 1)
        /\ l.prev[Node(head, s, i + 1)] = Node(head, s, i)
    BY <2>1 DEF Represents
  <2>3. QED
    BY <1>5, <1>6, <1>8, <2>1, <2>2
<1>10. \A i \in n .. (n + 1) :
         /\ m.next[Node(head, t, i)] = Node(head, t, i + 1)
         /\ m.prev[Node(head, t, i + 1)] = Node(head, t, i)
  BY <1>1, <1>5, <1>6, <1>7
<1>11. /\ \A i \in 1 .. (n + 1) : t[i] # head
       /\ \A i, j \in 1 .. (n + 1) : t[i] = t[j] => i = j
  BY <1>1 DEF Represents
<1>12. \A i \in 0 .. (n + 1) :
          /\ m.next[Node(head, t, i)] = Node(head, t, i + 1)
          /\ m.prev[Node(head, t, i + 1)] = Node(head, t, i)
  BY <1>1, <1>9, <1>10
<1>13. Represents(m, head, t)
  BY <1>1, <1>11, <1>12 DEF Represents
<1>14. QED
  BY <1>13 DEF m, t

\* list_add puts the new entry in front.
THEOREM AddCorrect ==
  ASSUME NEW Nodes, NEW l \in Stores(Nodes), NEW head \in Nodes, NEW s \in Seq(Nodes),
         NEW new \in Nodes, new # head, \A i \in 1 .. Len(s) : s[i] # new,
         Represents(l, head, s)
  PROVE  Represents(Add(l, new, head), head, <<new>> \o s)
<1> DEFINE m == Add(l, new, head)
           t == <<new>> \o s
           n == Len(s)
           first == Node(head, s, 1)
<1>1. /\ n \in Nat /\ Len(t) = n + 1
      /\ \A i \in 1 .. n : t[i + 1] = s[i] /\ s[i] \in Nodes
      /\ t[1] = new
  OBVIOUS
<1>2. l.next[head] = first /\ first \in Nodes /\ first # new
  <2>1. Node(head, s, 0) = head
    BY DEF Node
  <2>2. QED
    BY <1>1, <2>1 DEF Represents, Node
<1>3. /\ l.next \in [Nodes -> Nodes \cup {Poison}]
      /\ l.prev \in [Nodes -> Nodes \cup {Poison}]
  BY DEF Stores
<1>4. /\ m.next = [l.next EXCEPT ![new] = first, ![head] = new]
      /\ m.prev = [l.prev EXCEPT ![first] = new, ![new] = head]
  BY <1>2 DEF Add, Insert
<1>5. /\ m.next[head] = new /\ m.next[new] = first
      /\ \A x \in Nodes \ {new, head} : m.next[x] = l.next[x]
      /\ m.prev[first] = new /\ m.prev[new] = head
      /\ \A x \in Nodes \ {new, first} : m.prev[x] = l.prev[x]
  BY <1>2, <1>3, <1>4
<1> HIDE DEF m
<1>6. /\ Node(head, t, 0) = head /\ Node(head, t, 1) = new
      /\ \A i \in 1 .. (n + 1) : Node(head, t, i + 1) = Node(head, s, i)
  BY <1>1 DEF Node
<1> HIDE DEF t
<1>7. \A i \in 1 .. n : /\ Node(head, s, i) \in Nodes \ {new, head}
                        /\ Node(head, s, i + 1) \in Nodes \ {new, first}
  BY <1>1 DEF Represents, Node
<1>8. \A i \in 2 .. (n + 1) :
         /\ m.next[Node(head, t, i)] = Node(head, t, i + 1)
         /\ m.prev[Node(head, t, i + 1)] = Node(head, t, i)
  <2> SUFFICES ASSUME NEW i \in 1 .. n
               PROVE  /\ m.next[Node(head, t, i + 1)] = Node(head, t, i + 2)
                      /\ m.prev[Node(head, t, i + 2)] = Node(head, t, i + 1)
    <3>1. \A j \in 2 .. (n + 1) : j - 1 \in 1 .. n /\ (j - 1) + 1 = j /\ (j - 1) + 2 = j + 1
      BY <1>1
    <3>2. QED
      BY <3>1
  <2>1. i \in 0 .. n /\ i + 1 \in 1 .. (n + 1) /\ i \in 1 .. (n + 1) /\ (i + 1) + 1 = i + 2
    BY <1>1
  <2>2. /\ l.next[Node(head, s, i)] = Node(head, s, i + 1)
        /\ l.prev[Node(head, s, i + 1)] = Node(head, s, i)
    BY <2>1 DEF Represents
  <2>3. Node(head, t, i + 1) = Node(head, s, i) /\ Node(head, t, i + 2) = Node(head, s, i + 1)
    BY <1>6, <2>1
  <2>4. QED
    BY <1>5, <1>7, <2>2, <2>3
<1>9. /\ \A i \in 1 .. (n + 1) : t[i] # head
      /\ \A i, j \in 1 .. (n + 1) : t[i] = t[j] => i = j
  <2>1. \A i \in 1 .. (n + 1) : i = 1 \/ (i - 1 \in 1 .. n /\ t[i] = s[i - 1])
    <3>1. \A i \in 1 .. (n + 1) : i = 1 \/ (i - 1 \in 1 .. n /\ (i - 1) + 1 = i)
      BY <1>1
    <3>2. QED
      BY <1>1, <3>1
  <2>2. /\ \A i \in 1 .. n : s[i] # head /\ s[i] # new
        /\ \A i, j \in 1 .. n : s[i] = s[j] => i = j
    BY DEF Represents
  <2>3. \A i \in 1 .. (n + 1) : t[i] # head
    BY <1>1, <2>1, <2>2
  <2>4. ASSUME NEW i \in 1 .. (n + 1), NEW j \in 1 .. (n + 1), t[i] = t[j] PROVE i = j
    <3>1. CASE i = 1 \/ j = 1
      BY <1>1, <2>1, <2>2, <2>4, <3>1
    <3>2. CASE i # 1 /\ j # 1
      <4>1. i - 1 = j - 1
        BY <2>1, <2>2, <2>4, <3>2
      <4>2. QED
        BY <1>1, <4>1
    <3>3. QED
      BY <3>1, <3>2
  <2>5. QED
    BY <2>3, <2>4
<1>10. \A i \in 0 .. (n + 1) :
          /\ m.next[Node(head, t, i)] = Node(head, t, i + 1)
          /\ m.prev[Node(head, t, i + 1)] = Node(head, t, i)
  <2>1. \A i \in 0 .. (n + 1) : i = 0 \/ i = 1 \/ i \in 2 .. (n + 1)
    BY <1>1
  <2>2. Node(head, t, 2) = first
    BY <1>1, <1>6
  <2>3. QED
    BY <1>5, <1>6, <1>8, <2>1, <2>2
<1>11. Represents(m, head, t)
  BY <1>1, <1>9, <1>10 DEF Represents
<1>12. QED
  BY <1>11 DEF m, t

\* The sequence s without its k-th element.
Without(s, k) == [i \in 1 .. (Len(s) - 1) |-> IF i < k THEN s[i] ELSE s[i + 1]]

\* list_del takes the entry it is given out, wherever it stands.
THEOREM DeleteCorrect ==
  ASSUME NEW Nodes, NEW l \in Stores(Nodes), NEW head \in Nodes, NEW s \in Seq(Nodes),
         NEW k \in 1 .. Len(s), Represents(l, head, s)
  PROVE  Represents(Delete(l, s[k]), head, Without(s, k))
<1> DEFINE m == Delete(l, s[k])
           t == Without(s, k)
           n == Len(s)
           p == Node(head, s, k - 1)
           q == Node(head, s, k + 1)
<1>1. /\ n \in Nat /\ k \in 1 .. n /\ Len(t) = n - 1
      /\ \A i \in 1 .. n : s[i] \in Nodes
      /\ \A i \in 1 .. (n - 1) : t[i] = IF i < k THEN s[i] ELSE s[i + 1]
  BY DEF Without
<1>2. \A i \in 0 .. (n + 1) : Node(head, s, i) \in Nodes
  BY <1>1 DEF Node
<1>3. \A i, j \in 0 .. n : Node(head, s, i) = Node(head, s, j) => i = j
  BY <1>1 DEF Node, Represents
<1>4. \A i, j \in 1 .. (n + 1) : Node(head, s, i) = Node(head, s, j) => i = j
  BY <1>1 DEF Node, Represents
<1>5. \A i \in 0 .. n : /\ l.next[Node(head, s, i)] = Node(head, s, i + 1)
                       /\ l.prev[Node(head, s, i + 1)] = Node(head, s, i)
  BY <1>1 DEF Represents
<1>6. s[k] = Node(head, s, k) /\ l.prev[s[k]] = p /\ l.next[s[k]] = q
  <2>1. s[k] = Node(head, s, k)
    BY <1>1 DEF Node
  <2>2. k - 1 \in 0 .. n /\ k \in 0 .. n /\ (k - 1) + 1 = k
    BY <1>1
  <2>3. QED
    BY <1>5, <2>1, <2>2
<1>7. /\ l.next \in [Nodes -> Nodes \cup {Poison}]
      /\ l.prev \in [Nodes -> Nodes \cup {Poison}]
  BY DEF Stores
<1>8. /\ m.next = [l.next EXCEPT ![p] = q, ![s[k]] = Poison]
      /\ m.prev = [l.prev EXCEPT ![q] = p, ![s[k]] = Poison]
  BY <1>6 DEF Delete
<1>9. k - 1 \in 0 .. n /\ k \in 0 .. n /\ k \in 1 .. (n + 1) /\ k + 1 \in 1 .. (n + 1)
  BY <1>1
<1>10. p \in Nodes /\ q \in Nodes /\ s[k] \in Nodes /\ p # s[k] /\ q # s[k]
  <2>1. k - 1 # k /\ k + 1 # k /\ k - 1 \in 0 .. (n + 1) /\ k + 1 \in 0 .. (n + 1)
    BY <1>1
  <2>2. QED
    BY <1>1, <1>2, <1>3, <1>4, <1>6, <1>9, <2>1
<1>11. /\ m.next[p] = q /\ m.prev[q] = p
       /\ \A x \in Nodes \ {p, s[k]} : m.next[x] = l.next[x]
       /\ \A x \in Nodes \ {q, s[k]} : m.prev[x] = l.prev[x]
  BY <1>7, <1>8, <1>10
<1> HIDE DEF m
<1>12. /\ \A i \in 0 .. (k - 1) : Node(head, t, i) = Node(head, s, i)
       /\ \A i \in k .. n : Node(head, t, i) = Node(head, s, i + 1)
  BY <1>1 DEF Node
<1> HIDE DEF t, p, q
<1>13. \A i \in 0 .. (n - 1) :
          /\ m.next[Node(head, t, i)] = Node(head, t, i + 1)
          /\ m.prev[Node(head, t, i + 1)] = Node(head, t, i)
  <2> SUFFICES ASSUME NEW i \in 0 .. (n - 1)
               PROVE  /\ m.next[Node(head, t, i)] = Node(head, t, i + 1)
                      /\ m.prev[Node(head, t, i + 1)] = Node(head, t, i)
    OBVIOUS
  <2>1. CASE i < k - 1
    <3>1. /\ i \in 0 .. n /\ i + 1 \in 1 .. (n + 1) /\ i + 1 \in 0 .. (n + 1)
          /\ i \in 0 .. (k - 1) /\ i + 1 \in 0 .. (k - 1) /\ i \in 0 .. (n + 1)
          /\ i # k - 1 /\ i # k /\ i + 1 # k + 1 /\ i + 1 # k
      BY <1>1, <2>1
    <3>2. Node(head, s, i) \in Nodes \ {p, s[k]} /\ Node(head, s, i + 1) \in Nodes \ {q, s[k]}
      BY <1>2, <1>3, <1>4, <1>6, <1>9, <3>1 DEF p, q
    <3>3. QED
      BY <1>5, <1>11, <1>12, <3>1, <3>2
  <2>2. CASE i = k - 1
    <3>1. i \in 0 .. (k - 1) /\ i + 1 = k /\ k \in k .. n
      BY <1>1, <2>2
    <3>2. Node(head, t, i) = p /\ Node(head, t, i + 1) = q
      BY <1>12, <2>2, <3>1 DEF p, q
    <3>3. QED
      BY <1>11, <3>2
  <2>3. CASE i >= k
    <3>1. /\ i + 1 \in 0 .. n /\ i + 1 \in 0 .. (n + 1) /\ (i + 1) + 1 \in 1 .. (n + 1)
          /\ i \in k .. n /\ i + 1 \in k .. n /\ (i + 1) + 1 \in 0 .. (n + 1)
          /\ i + 1 # k - 1 /\ i + 1 # k /\ (i + 1) + 1 # k + 1 /\ (i + 1) + 1 # k
      BY <1>1, <2>3
    <3>2. /\ Node(head, s, i + 1) \in Nodes \ {p, s[k]}
          /\ Node(head, s, (i + 1) + 1) \in Nodes \ {q, s[k]}
      BY <1>2, <1>3, <1>4, <1>6, <1>9, <3>1 DEF p, q
    <3>3. QED
      BY <1>5, <1>11, <1>12, <3>1, <3>2
  <2>4. QED
    BY <1>1, <2>1, <2>2, <2>3
<1>14. /\ \A i \in 1 .. (n - 1) : t[i] # head
       /\ \A i, j \in 1 .. (n - 1) : t[i] = t[j] => i = j
  <2> DEFINE from(i) == IF i < k THEN i ELSE i + 1
  <2>1. \A i \in 1 .. (n - 1) : from(i) \in 1 .. n /\ t[i] = s[from(i)]
    BY <1>1
  <2>2. \A i, j \in 1 .. (n - 1) : from(i) = from(j) => i = j
    BY <1>1
  <2>3. /\ \A i \in 1 .. n : s[i] # head
        /\ \A i, j \in 1 .. n : s[i] = s[j] => i = j
    BY DEF Represents
  <2> HIDE DEF from
  <2>4. QED
    BY <2>1, <2>2, <2>3
<1>15. Represents(m, head, t)
  BY <1>1, <1>13, <1>14 DEF Represents
<1>16. QED
  BY <1>15 DEF m, t

\* The sequence t with s put in behind its j-th element.
Spliced(s, t, j) ==
    [i \in 1 .. (Len(s) + Len(t)) |->
        IF i <= j THEN t[i] ELSE IF i <= j + Len(s) THEN s[i - j] ELSE t[i - Len(s)]]

\* __list_splice and the INIT_LIST_HEAD behind it move the entries of one list
\* between two neighbours of another.
LEMMA SpliceBetween ==
  ASSUME NEW Nodes, NEW l \in Stores(Nodes), NEW a \in Nodes, NEW b \in Nodes, a # b,
         NEW s \in Seq(Nodes), NEW t \in Seq(Nodes), NEW j \in 0 .. Len(t), s # <<>>,
         \A x \in 1 .. Len(s) : s[x] # b, \A y \in 1 .. Len(t) : t[y] # a,
         \A x \in 1 .. Len(s), y \in 1 .. Len(t) : s[x] # t[y],
         Represents(l, a, s), Represents(l, b, t)
  PROVE  LET m == InitHead(Splice(l, a, Node(b, t, j), Node(b, t, j + 1)), a) IN
         Represents(m, a, <<>>) /\ Represents(m, b, Spliced(s, t, j))
<1> DEFINE p == Node(b, t, j)
           q == Node(b, t, j + 1)
           m == InitHead(Splice(l, a, p, q), a)
           u == Spliced(s, t, j)
           k == Len(s)
           n == Len(t)
<1>1. /\ k \in Nat /\ k > 0 /\ n \in Nat /\ j \in 0 .. n /\ Len(u) = k + n
      /\ \A i \in 1 .. k : s[i] \in Nodes
      /\ \A i \in 1 .. n : t[i] \in Nodes
      /\ \A i \in 1 .. (k + n) : u[i] = IF i <= j THEN t[i]
                                       ELSE IF i <= j + k THEN s[i - j] ELSE t[i - k]
  BY DEF Spliced
<1>2. /\ \A i \in 1 .. k : s[i] # a /\ s[i] # b
      /\ \A i \in 1 .. n : t[i] # a /\ t[i] # b
      /\ \A x \in 1 .. k, y \in 1 .. n : s[x] # t[y]
      /\ \A x, y \in 1 .. k : s[x] = s[y] => x = y
      /\ \A x, y \in 1 .. n : t[x] = t[y] => x = y
  BY DEF Represents
<1>3. /\ l.next[a] = s[1] /\ l.prev[a] = s[k]
      /\ \A i \in 1 .. (k - 1) : l.next[s[i]] = s[i + 1] /\ l.prev[s[i + 1]] = s[i]
  <2>1. \A i \in 0 .. k : /\ l.next[Node(a, s, i)] = Node(a, s, i + 1)
                          /\ l.prev[Node(a, s, i + 1)] = Node(a, s, i)
    BY DEF Represents
  <2>2. /\ Node(a, s, 0) = a /\ Node(a, s, k + 1) = a
        /\ \A i \in 1 .. k : Node(a, s, i) = s[i]
    BY <1>1 DEF Node
  <2>3. 0 \in 0 .. k /\ k \in 0 .. k /\ 1 \in 1 .. k /\ k \in 1 .. k /\ 0 + 1 = 1
    BY <1>1
  <2>4. \A i \in 1 .. (k - 1) : i \in 1 .. k /\ i + 1 \in 1 .. k /\ i \in 0 .. k
    BY <1>1
  <2>5. QED
    BY <2>1, <2>2, <2>3, <2>4
<1>4. /\ p \in Nodes \ {a} /\ q \in Nodes \ {a}
      /\ \A i \in 1 .. k : s[i] # p /\ s[i] # q
      /\ s[1] \in Nodes \ {a} /\ s[k] \in Nodes \ {a}
  BY <1>1, <1>2 DEF Node
<1>5. /\ l.next \in [Nodes -> Nodes \cup {Poison}]
      /\ l.prev \in [Nodes -> Nodes \cup {Poison}]
  BY DEF Stores
<1>6. /\ m.next = [l.next EXCEPT ![p] = s[1], ![s[k]] = q, ![a] = a]
      /\ m.prev = [l.prev EXCEPT ![s[1]] = p, ![q] = s[k], ![a] = a]
  BY <1>3 DEF InitHead, Splice
<1>7. /\ m.next[a] = a /\ m.next[p] = s[1] /\ m.next[s[k]] = q
      /\ \A x \in Nodes \ {a, p, s[k]} : m.next[x] = l.next[x]
      /\ m.prev[a] = a /\ m.prev[s[1]] = p /\ m.prev[q] = s[k]
      /\ \A x \in Nodes \ {a, q, s[1]} : m.prev[x] = l.prev[x]
  BY <1>4, <1>5, <1>6
<1> HIDE DEF m
<1>8. /\ \A i \in 0 .. j : Node(b, u, i) = Node(b, t, i)
      /\ \A i \in (j + 1) .. (j + k) : Node(b, u, i) = s[i - j]
      /\ \A i \in (j + k + 1) .. (k + n + 1) : Node(b, u, i) = Node(b, t, i - k)
  BY <1>1 DEF Node
<1> HIDE DEF u, p, q
<1>9. \A i \in 0 .. (k + n) :
         /\ m.next[Node(b, u, i)] = Node(b, u, i + 1)
         /\ m.prev[Node(b, u, i + 1)] = Node(b, u, i)
  <2> SUFFICES ASSUME NEW i \in 0 .. (k + n)
               PROVE  /\ m.next[Node(b, u, i)] = Node(b, u, i + 1)
                      /\ m.prev[Node(b, u, i + 1)] = Node(b, u, i)
    OBVIOUS
  <2>1. \A x \in 0 .. n : /\ l.next[Node(b, t, x)] = Node(b, t, x + 1)
                          /\ l.prev[Node(b, t, x + 1)] = Node(b, t, x)
    BY DEF Represents
  <2>2. \A x \in 0 .. n : x # j => /\ Node(b, t, x) \in Nodes \ {a, p, s[k]}
                                   /\ Node(b, t, x + 1) \in Nodes \ {a, q, s[1]}
    BY <1>1, <1>2 DEF Node, p, q
  <2>3. \A x \in 0 .. n : x # j => /\ m.next[Node(b, t, x)] = Node(b, t, x + 1)
                                   /\ m.prev[Node(b, t, x + 1)] = Node(b, t, x)
    BY <1>7, <2>1, <2>2
  <2>4. CASE i < j
    <3>1. i \in 0 .. n /\ i # j /\ i \in 0 .. j /\ i + 1 \in 0 .. j
      BY <1>1, <2>4
    <3>2. QED
      BY <1>8, <2>3, <3>1
  <2>5. CASE i = j
    <3>1. i \in 0 .. j /\ i + 1 \in (j + 1) .. (j + k) /\ (i + 1) - j = 1
      BY <1>1, <2>5
    <3>2. Node(b, u, i) = p /\ Node(b, u, i + 1) = s[1]
      BY <1>8, <2>5, <3>1 DEF p
    <3>3. QED
      BY <1>7, <3>2
  <2>6. CASE i > j /\ i < j + k
    <3>1. /\ i \in (j + 1) .. (j + k) /\ i + 1 \in (j + 1) .. (j + k) /\ (i + 1) - j = (i - j) + 1
          /\ i - j \in 1 .. (k - 1) /\ i - j \in 1 .. k /\ (i - j) + 1 \in 1 .. k
          /\ i - j # k /\ (i - j) + 1 # 1 /\ 1 \in 1 .. k /\ k \in 1 .. k
      BY <1>1, <2>6
    <3>2. s[i - j] \in Nodes \ {a, p, s[k]} /\ s[(i - j) + 1] \in Nodes \ {a, q, s[1]}
      BY <1>1, <1>2, <1>4, <3>1
    <3>3. Node(b, u, i) = s[i - j] /\ Node(b, u, i + 1) = s[(i - j) + 1]
      BY <1>8, <3>1
    <3>4. l.next[s[i - j]] = s[(i - j) + 1] /\ l.prev[s[(i - j) + 1]] = s[i - j]
      BY <1>3, <3>1
    <3>5. QED
      BY <1>7, <3>2, <3>3, <3>4
  <2>7. CASE i = j + k
    <3>1. /\ i \in (j + 1) .. (j + k) /\ i - j = k
          /\ i + 1 \in (j + k + 1) .. (k + n + 1) /\ (i + 1) - k = j + 1
      BY <1>1, <2>7
    <3>2. Node(b, u, i) = s[k] /\ Node(b, u, i + 1) = q
      BY <1>8, <3>1 DEF q
    <3>3. QED
      BY <1>7, <3>2
  <2>8. CASE i > j + k
    <3>1. /\ i \in (j + k + 1) .. (k + n + 1) /\ i + 1 \in (j + k + 1) .. (k + n + 1)
          /\ (i + 1) - k = (i - k) + 1 /\ i - k \in 0 .. n /\ i - k # j
      BY <1>1, <2>8
    <3>2. QED
      BY <1>8, <2>3, <3>1
  <2>9. i < j \/ i = j \/ (i > j /\ i < j + k) \/ i = j + k \/ i > j + k
    <3>1. i \in Int /\ j \in Int /\ k \in Int
      BY <1>1
    <3>2. QED
      BY ONLY <3>1
  <2>10. QED
    BY ONLY <2>4, <2>5, <2>6, <2>7, <2>8, <2>9
<1>10. /\ \A i \in 1 .. (k + n) : u[i] # b
       /\ \A x, y \in 1 .. (k + n) : u[x] = u[y] => x = y
  <2>1. \A i \in 1 .. (k + n) :
           \/ i <= j /\ i \in 1 .. n /\ u[i] = t[i]
           \/ i > j /\ i <= j + k /\ i - j \in 1 .. k /\ u[i] = s[i - j]
           \/ i > j + k /\ i - k \in 1 .. n /\ u[i] = t[i - k]
    BY <1>1
  <2>2. \A i \in 1 .. (k + n) : u[i] # b
    BY <1>2, <2>1
  <2>3. ASSUME NEW x \in 1 .. (k + n), NEW y \in 1 .. (k + n), u[x] = u[y] PROVE x = y
    <3>1. \/ x <= j /\ y <= j /\ x = y
          \/ x > j /\ y > j /\ x - j = y - j
          \/ x > j + k /\ y > j + k /\ x - k = y - k
          \/ x <= j /\ y > j + k /\ x = y - k
          \/ y <= j /\ x > j + k /\ y = x - k
      <4>1. CASE x <= j
        BY <1>2, <2>1, <2>3, <4>1
      <4>2. CASE x > j /\ x <= j + k
        BY <1>2, <2>1, <2>3, <4>2
      <4>3. CASE x > j + k
        <5>1. x - k \in 1 .. n /\ u[x] = t[x - k]
          BY <1>1, <2>1, <4>3
        <5>2. CASE y <= j
          <6>1. y \in 1 .. n /\ u[y] = t[y]
            BY <1>1, <2>1, <5>2
          <6>2. QED
            BY ONLY <1>2, <2>3, <4>3, <5>1, <5>2, <6>1
        <5>3. CASE y > j /\ y <= j + k
          <6>1. y - j \in 1 .. k /\ u[y] = s[y - j]
            BY <1>1, <2>1, <5>3
          <6>2. QED
            BY ONLY <1>2, <2>3, <5>1, <6>1
        <5>4. CASE y > j + k
          <6>1. y - k \in 1 .. n /\ u[y] = t[y - k]
            BY <1>1, <2>1, <5>4
          <6>2. QED
            BY ONLY <1>2, <2>3, <4>3, <5>1, <5>4, <6>1
        <5>5. QED
          BY <1>1, <5>2, <5>3, <5>4
      <4>4. QED
        BY <1>1, <4>1, <4>2, <4>3
    <3>2. QED
      BY <1>1, <3>1
  <2>4. QED
    BY <2>2, <2>3
<1>11. Represents(m, b, u)
  BY <1>1, <1>9, <1>10 DEF Represents
<1>12. Represents(m, a, <<>>)
  BY <1>7 DEF Represents, Node
<1>13. QED
  BY <1>11, <1>12 DEF m, u, p, q

\* A list that is empty has no entries.
LEMMA EmptyList ==
  ASSUME NEW Nodes, NEW l, NEW a \in Nodes, NEW s \in Seq(Nodes), Represents(l, a, s)
  PROVE  IsEmpty(l, a) <=> s = <<>>
<1>1. l.next[a] = Node(a, s, 1)
  <2>1. Len(s) \in Nat /\ 0 \in 0 .. Len(s) /\ Node(a, s, 0) = a
    BY DEF Node
  <2>2. QED
    BY <2>1 DEF Represents
<1>2. CASE s = <<>>
  BY <1>1, <1>2 DEF Node, IsEmpty
<1>3. CASE s # <<>>
  <2>1. 1 \in 1 .. Len(s)
    BY <1>3
  <2>2. QED
    BY <1>1, <1>3, <2>1 DEF Node, IsEmpty, Represents
<1>4. QED
  BY <1>2, <1>3

\* list_splice_init puts one list in front of another and empties it.
THEOREM SpliceInitCorrect ==
  ASSUME NEW Nodes, NEW l \in Stores(Nodes), NEW a \in Nodes, NEW b \in Nodes, a # b,
         NEW s \in Seq(Nodes), NEW t \in Seq(Nodes),
         \A x \in 1 .. Len(s) : s[x] # b, \A y \in 1 .. Len(t) : t[y] # a,
         \A x \in 1 .. Len(s), y \in 1 .. Len(t) : s[x] # t[y],
         Represents(l, a, s), Represents(l, b, t)
  PROVE  LET m == SpliceInit(l, a, b) IN Represents(m, a, <<>>) /\ Represents(m, b, s \o t)
<1>1. CASE s = <<>>
  <2>1. SpliceInit(l, a, b) = l
    BY <1>1, EmptyList DEF SpliceInit
  <2>2. s \o t = t
    BY <1>1
  <2>3. QED
    BY <1>1, <2>1, <2>2
<1>2. CASE s # <<>>
  <2>1. 0 \in 0 .. Len(t) /\ 0 + 1 = 1
    OBVIOUS
  <2>2. b = Node(b, t, 0) /\ l.next[b] = Node(b, t, 1)
    BY <2>1 DEF Represents, Node
  <2>3. SpliceInit(l, a, b) = InitHead(Splice(l, a, Node(b, t, 0), Node(b, t, 0 + 1)), a)
    BY <1>2, <2>1, <2>2, EmptyList DEF SpliceInit
  <2>4. Spliced(s, t, 0) = s \o t
    <3>1. /\ Spliced(s, t, 0) \in Seq(Nodes)
          /\ Len(Spliced(s, t, 0)) = Len(s \o t)
          /\ s \o t \in Seq(Nodes)
      BY DEF Spliced
    <3>2. \A i \in 1 .. Len(s \o t) : Spliced(s, t, 0)[i] = (s \o t)[i]
      BY DEF Spliced
    <3>3. QED
      BY <3>1, <3>2, SeqEqual
  <2>5. QED
    BY <1>2, <2>1, <2>3, <2>4, SpliceBetween
<1>3. QED
  BY <1>1, <1>2

\* list_splice_tail_init puts it behind the other.
THEOREM SpliceTailInitCorrect ==
  ASSUME NEW Nodes, NEW l \in Stores(Nodes), NEW a \in Nodes, NEW b \in Nodes, a # b,
         NEW s \in Seq(Nodes), NEW t \in Seq(Nodes),
         \A x \in 1 .. Len(s) : s[x] # b, \A y \in 1 .. Len(t) : t[y] # a,
         \A x \in 1 .. Len(s), y \in 1 .. Len(t) : s[x] # t[y],
         Represents(l, a, s), Represents(l, b, t)
  PROVE  LET m == SpliceTailInit(l, a, b) IN Represents(m, a, <<>>) /\ Represents(m, b, t \o s)
<1>1. CASE s = <<>>
  <2>1. SpliceTailInit(l, a, b) = l
    BY <1>1, EmptyList DEF SpliceTailInit
  <2>2. t \o s = t
    BY <1>1
  <2>3. QED
    BY <1>1, <2>1, <2>2
<1>2. CASE s # <<>>
  <2>1. Len(t) \in 0 .. Len(t)
    OBVIOUS
  <2>2. b = Node(b, t, Len(t) + 1) /\ l.prev[b] = Node(b, t, Len(t))
    BY <2>1 DEF Represents, Node
  <2>3. SpliceTailInit(l, a, b)
           = InitHead(Splice(l, a, Node(b, t, Len(t)), Node(b, t, Len(t) + 1)), a)
    BY <1>2, <2>2, EmptyList DEF SpliceTailInit
  <2>4. Spliced(s, t, Len(t)) = t \o s
    <3>1. /\ Spliced(s, t, Len(t)) \in Seq(Nodes)
          /\ Len(Spliced(s, t, Len(t))) = Len(t \o s)
          /\ t \o s \in Seq(Nodes)
      BY DEF Spliced
    <3>2. \A i \in 1 .. Len(t \o s) : Spliced(s, t, Len(t))[i] = (t \o s)[i]
      BY DEF Spliced
    <3>3. QED
      BY <3>1, <3>2, SeqEqual
  <2>5. QED
    BY <1>2, <2>1, <2>3, <2>4, SpliceBetween
<1>3. QED
  BY <1>1, <1>2

-----------------------------------------------------------------------------
(* list_for_each_entry over a list of any length. *)

\* Induction over the naturals, for the set of those with a property.
LEMMA SetInduction ==
  ASSUME NEW S, 0 \in S, \A n \in Nat : n \in S => n + 1 \in S
  PROVE  \A n \in Nat : n \in S
<1>1. IsWellFoundedOn(OpToRel(<,Nat), Nat)
  BY NatLessThanWellFounded
<1>2. ASSUME Nat \ S # {} PROVE FALSE
  <2>1. PICK x \in Nat \ S : \A y \in Nat \ S : ~(<<y,x>> \in OpToRel(<,Nat))
    BY <1>1, <1>2, WFMin
  <2>2. \A y \in Nat \ S : ~(y < x)
    BY <2>1 DEF OpToRel
  <2>3. QED
    <3>1. x # 0 /\ x - 1 \in Nat /\ x - 1 < x /\ (x - 1) + 1 = x
      OBVIOUS
    <3>2. x - 1 \in S
      BY <2>2, <3>1
    <3>3. QED
      BY <3>1, <3>2
<1>3. QED
  BY <1>2

\* The i-th node of a walk, from the one before it in f.
StepFrom(l, head, f, i) == LET n == IF i = 0 THEN head ELSE f[i - 1] IN
                           IF (i > 0 /\ n = head) \/ n = Poison THEN n ELSE l.next[n]

\* The equation of the walk has a solution of every length.
LEMMA StepsExist ==
  ASSUME NEW l, NEW head
  PROVE  \A k \in Nat : \E f : f = [i \in 0 .. k |-> StepFrom(l, head, f, i)]
<1> DEFINE S == {k \in Nat : \E f : f = [i \in 0 .. k |-> StepFrom(l, head, f, i)]}
<1>1. 0 \in S
  <2> DEFINE f == [i \in 0 .. 0 |-> StepFrom(l, head, <<>>, i)]
  <2>1. \A i \in 0 .. 0 : i = 0 
    OBVIOUS
  <2>2. \A g, h : StepFrom(l, head, g, 0) = StepFrom(l, head, h, 0)
    BY DEF StepFrom
  <2>3. f = [i \in 0 .. 0 |-> StepFrom(l, head, f, i)]
    BY <2>1, <2>2
  <2>4. QED
    BY <2>3
<1>2. ASSUME NEW n \in Nat, n \in S PROVE n + 1 \in S
  <2>1. PICK f : f = [i \in 0 .. n |-> StepFrom(l, head, f, i)]
    BY <1>2
  <2> DEFINE g == [i \in 0 .. (n + 1) |-> IF i = n + 1 THEN StepFrom(l, head, f, i) ELSE f[i]]
  <2>2. \A i \in 0 .. (n+1) : StepFrom(l, head, g, i) = StepFrom(l, head, f, i)
    <3> TAKE i \in 0 .. (n+1)
    <3>1. CASE i = 0
      BY <3>1 DEF StepFrom
    <3>2. CASE i # 0
      <4>1. i - 1 \in 0 .. n /\ i - 1 \in 0 .. (n + 1) /\ i - 1 # n + 1
        BY <3>2
      <4>2. g[i - 1] = f[i - 1]
        BY <4>1
      <4>3. QED
        BY <3>2, <4>2 DEF StepFrom
    <3>3. QED
      BY <3>1, <3>2
  <2>3. \A i \in 0 .. (n + 1) : g[i] = StepFrom(l, head, g, i)
    <3> TAKE i \in 0 .. (n+1)
    <3>1. CASE i = n + 1
      BY <2>2, <3>1
    <3>2. CASE i # n + 1
      <4>1. i \in 0 .. n
        BY <3>2
      <4>2. g[i] = f[i]
        BY <3>2
      <4>3. f[i] = StepFrom(l, head, f, i)
        BY <2>1, <4>1
      <4>4. QED
        BY <2>2, <4>2, <4>3
    <3>3. QED
      BY <3>1, <3>2
  <2>4. g = [i \in 0 .. (n + 1) |-> StepFrom(l, head, g, i)]
    <3> HIDE DEF g
    <3>1. g = [i \in 0 .. (n + 1) |-> g[i]]
      BY DEF g
    <3>2. QED
      BY <2>3, <3>1
  <2>5. QED
    <3> HIDE DEF g
    <3> QED BY <2>4
<1>3. QED
  <2> HIDE DEF S
  <2>1. \A k \in Nat : k \in S
    BY <1>1, <1>2, SetInduction
  <2>2. QED
    BY <2>1 DEF S

\* So the walk is one.
LEMMA StepsIs ==
  ASSUME NEW l, NEW head, NEW k \in Nat
  PROVE  Steps(l, head, k) = [i \in 0 .. k |-> StepFrom(l, head, Steps(l, head, k), i)]
<1>1. \E f : f = [i \in 0 .. k |-> StepFrom(l, head, f, i)]
  BY StepsExist
<1>2. Steps(l, head, k) = CHOOSE f : f = [i \in 0 .. k |-> StepFrom(l, head, f, i)]
  BY DEF Steps, StepFrom
<1>3. QED
  BY <1>1, <1>2

\* A walk over a list meets its entries and no other node, and comes back to the
\* head.
THEOREM WalkCorrect ==
  ASSUME NEW Nodes, NEW l \in Stores(Nodes), NEW head \in Nodes, NEW s \in Seq(Nodes),
         Poison \notin Nodes, Represents(l, head, s), NEW k \in Nat, Len(s) <= k
  PROVE  Walk(l, head, k) = {s[i] : i \in 1 .. Len(s)} /\ WalkEnds(l, head, k)
<1> DEFINE f == Steps(l, head, k)
           n == Len(s)
           S == {j \in Nat : j <= k => f[j] = Node(head, s, j + 1)}
<1>1. /\ n \in Nat /\ head # Poison
      /\ \A i \in 1 .. n : s[i] \in Nodes /\ s[i] # head /\ s[i] # Poison
      /\ \A i \in 0 .. n : l.next[Node(head, s, i)] = Node(head, s, i + 1)
  BY DEF Represents
<1>2. \A i \in 0 .. k : f[i] = StepFrom(l, head, f, i)
  <2> HIDE DEF f
  <2>1. f = [i \in 0 .. k |-> StepFrom(l, head, f, i)]
    BY StepsIs DEF f
  <2> DEFINE g == [i \in 0 .. k |-> StepFrom(l, head, f, i)]
  <2>2. \A i \in 0 .. k : g[i] = StepFrom(l, head, f, i)
    OBVIOUS
  <2>3. f = g
    BY <2>1
  <2>4. QED
    BY <2>2, <2>3
<1> HIDE DEF f
<1>3. 0 \in S
  <2>1. f[0] = l.next[head]
    BY <1>1, <1>2 DEF StepFrom
  <2>2. Node(head, s, 0) = head
    BY DEF Node
  <2>3. QED
    BY <1>1, <2>1, <2>2
<1>4. ASSUME NEW j \in Nat, j \in S PROVE j + 1 \in S
  <2> SUFFICES ASSUME j + 1 <= k PROVE f[j + 1] = Node(head, s, j + 2)
    OBVIOUS
  <2>1. j + 1 \in 0 .. k /\ f[j] = Node(head, s, j + 1)
    BY <1>4
  <2>2. f[j + 1] = IF f[j] = head \/ f[j] = Poison THEN f[j] ELSE l.next[f[j]]
    BY <1>2, <2>1 DEF StepFrom
  <2>3. CASE j + 1 <= n
    <3>1. j + 1 \in 1 .. n /\ j + 1 \in 0 .. n /\ f[j] = s[j + 1]
      BY <1>1, <2>1, <2>3 DEF Node
    <3>2. QED
      BY <1>1, <2>1, <2>2, <3>1
  <2>4. CASE ~(j + 1 <= n)
    BY <1>1, <2>1, <2>2, <2>4 DEF Node
  <2>5. QED
    BY <2>3, <2>4
<1>5. \A j \in 0 .. k : f[j] = Node(head, s, j + 1)
  <2> HIDE DEF S
  <2>1. \A j \in Nat : j \in S
    BY <1>3, <1>4, SetInduction
  <2>2. QED
    BY <2>1 DEF S
<1>6. f[k] = head
  BY <1>1, <1>5 DEF Node
<1>7. \A j \in 0 .. k : f[j] = head \/ \E i \in 1 .. n : f[j] = s[i]
  <2> TAKE j \in 0 .. k
  <2>1. CASE j + 1 \in 1 .. n
    BY <1>5, <2>1 DEF Node
  <2>2. CASE j + 1 \notin 1 .. n
    BY <1>5, <2>2 DEF Node
  <2>3. QED
    BY <2>1, <2>2
<1>8. \A i \in 1 .. n : \E j \in 0 .. k : f[j] = s[i]
  <2> TAKE i \in 1 .. n
  <2>1. i - 1 \in 0 .. k /\ (i - 1) + 1 = i
    BY <1>1
  <2>2. f[i - 1] = s[i]
    BY <1>5, <2>1 DEF Node
  <2>3. QED
    BY <2>1, <2>2
<1>9. {f[j] : j \in 0 .. k} \ {head, Poison} = {s[i] : i \in 1 .. n}
  <2> DEFINE F == {f[j] : j \in 0 .. k} \ {head, Poison}
             E == {s[i] : i \in 1 .. n}
  <2>1. \A x : x \in F => x \in E
    BY <1>7
  <2>2. \A x : x \in E => x \in F
    <3> SUFFICES ASSUME NEW i \in 1 .. n PROVE s[i] \in F
      OBVIOUS
    <3>1. s[i] \in {f[j] : j \in 0 .. k}
      BY <1>8
    <3>2. QED
      BY <1>1, <3>1
  <2>3. QED
    BY <2>1, <2>2
<1>10. QED
  BY <1>6, <1>9 DEF Walk, WalkEnds, f
=============================================================================
