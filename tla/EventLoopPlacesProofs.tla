----------------------- MODULE EventLoopPlacesProofs ------------------------
(***************************************************************************)
(* Every step of the loop keeps PlacesInv, in every instance whose callers *)
(* keep the discipline: a live request is in one container, and the lists  *)
(* the loop thread has detached are not overwritten. The second half says  *)
(* what each step does to the nodes and to those who hold references to    *)
(* them.                                                                   *)
(***************************************************************************)
EXTENDS EventLoopInv, EventLoopProofs, FiniteSetTheorems

----------------------------------------------------------------------------
(* Partitions. *)

\* A part moved from one place to another leaves a partition.
LEMMA PartitionMove ==
    ASSUME NEW P, NEW Q, NEW L, Partition(P, L), NEW from \in Places,
           NEW to \in Places, from # to, NEW S \in SUBSET P[from],
           Q[from] = P[from] \ S, Q[to] = P[to] \cup S,
           \A p \in Places : p # from /\ p # to => Q[p] = P[p]
    PROVE  Partition(Q, L)
<1>1. \A p \in Places : Q[p] \subseteq L
  BY DEF Partition
<1>2. \A r \in L : \E p \in Places : r \in Q[p]
  BY DEF Partition
<1>3. \A p, q \in Places : p # q => Q[p] \cap Q[q] = {}
  BY DEF Partition
<1> QED
  BY <1>1, <1>2, <1>3 DEF Partition

\* A newcomer may be put anywhere.
LEMMA PartitionEnter ==
    ASSUME NEW P, NEW Q, NEW L, Partition(P, L), NEW r, r \notin L,
           NEW to \in Places, Q[to] = P[to] \cup {r},
           \A p \in Places : p # to => Q[p] = P[p]
    PROVE  Partition(Q, L \cup {r})
BY DEF Partition

\* Who leaves, leaves its only place.
LEMMA PartitionLeave ==
    ASSUME NEW P, NEW Q, NEW L, Partition(P, L), NEW from \in Places,
           NEW r \in P[from], Q[from] = P[from] \ {r},
           \A p \in Places : p # from => Q[p] = P[p]
    PROVE  Partition(Q, L \ {r})
BY DEF Partition

\* The places, and what is in each.
LEMMA SpreadAt ==
    ASSUME NEW m, NEW l, NEW t
    PROVE  /\ \A k \in Maps : <<"map", k>> \in Places /\ Spread(m, l, t)[<<"map", k>>] = m[k]
           /\ \A x \in Lists : <<"list", x>> \in Places /\ Spread(m, l, t)[<<"list", x>>] = l[x]
           /\ \A id \in Resources :
                  /\ <<"node", id>> \in Places
                  /\ Spread(m, l, t)[<<"node", id>>] = Elements(t[id].blocked)
           /\ \A p \in Places : \/ \E k \in Maps : p = <<"map", k>>
                                \/ \E x \in Lists : p = <<"list", x>>
                                \/ \E id \in Resources : p = <<"node", id>>
BY DEF Spread, Places

\* A part moved from one map to another.
LEMMA MapToMap ==
    ASSUME NEW m, NEW l, NEW t, NEW n, NEW L, Partition(Spread(m, l, t), L),
           NEW a \in Maps, NEW b \in Maps, a # b, NEW S \in SUBSET m[a],
           n[a] = m[a] \ S, n[b] = m[b] \cup S,
           \A x \in Maps : x # a /\ x # b => n[x] = m[x]
    PROVE  Partition(Spread(n, l, t), L)
<1> DEFINE P == Spread(m, l, t)
           Q == Spread(n, l, t)
           from == <<"map", a>>
           to == <<"map", b>>
<1>1. from \in Places /\ to \in Places /\ from # to
  BY SpreadAt
<1>2. /\ \A x \in Maps : P[<<"map", x>>] = m[x] /\ Q[<<"map", x>>] = n[x]
      /\ \A x \in Lists : P[<<"list", x>>] = l[x] /\ Q[<<"list", x>>] = l[x]
      /\ \A x \in Resources : /\ P[<<"node", x>>] = Elements(t[x].blocked)
                             /\ Q[<<"node", x>>] = Elements(t[x].blocked)
  BY SpreadAt
<1> HIDE DEF P, Q
<1>3. P[from] = m[a] /\ Q[from] = n[a] /\ P[to] = m[b] /\ Q[to] = n[b]
  BY <1>2
<1>4. \A p \in Places : p # from /\ p # to => Q[p] = P[p]
  BY <1>2, SpreadAt
<1> HIDE DEF from, to
<1>5. Partition(Q, L)
  BY <1>1, <1>3, <1>4, PartitionMove DEF P
<1> QED
  BY <1>5 DEF Q

\* From a map to a list.
LEMMA MapToList ==
    ASSUME NEW m, NEW l, NEW t, NEW n, NEW k, NEW L, Partition(Spread(m, l, t), L),
           NEW a \in Maps, NEW b \in Lists, NEW S \in SUBSET m[a],
           n[a] = m[a] \ S, k[b] = l[b] \cup S,
           \A x \in Maps : x # a => n[x] = m[x],
           \A x \in Lists : x # b => k[x] = l[x]
    PROVE  Partition(Spread(n, k, t), L)
<1> DEFINE P == Spread(m, l, t)
           Q == Spread(n, k, t)
           from == <<"map", a>>
           to == <<"list", b>>
<1>1. from \in Places /\ to \in Places /\ from # to
  BY SpreadAt
<1>2. /\ \A x \in Maps : P[<<"map", x>>] = m[x] /\ Q[<<"map", x>>] = n[x]
      /\ \A x \in Lists : P[<<"list", x>>] = l[x] /\ Q[<<"list", x>>] = k[x]
      /\ \A x \in Resources : /\ P[<<"node", x>>] = Elements(t[x].blocked)
                             /\ Q[<<"node", x>>] = Elements(t[x].blocked)
  BY SpreadAt
<1> HIDE DEF P, Q
<1>3. P[from] = m[a] /\ Q[from] = n[a] /\ P[to] = l[b] /\ Q[to] = k[b]
  BY <1>2
<1>4. \A p \in Places : p # from /\ p # to => Q[p] = P[p]
  BY <1>2, SpreadAt
<1> HIDE DEF from, to
<1>5. Partition(Q, L)
  BY <1>1, <1>3, <1>4, PartitionMove DEF P
<1> QED
  BY <1>5 DEF Q

\* From a list to a map.
LEMMA ListToMap ==
    ASSUME NEW m, NEW l, NEW t, NEW k, NEW n, NEW L, Partition(Spread(m, l, t), L),
           NEW a \in Lists, NEW b \in Maps, NEW S \in SUBSET l[a],
           k[a] = l[a] \ S, n[b] = m[b] \cup S,
           \A x \in Lists : x # a => k[x] = l[x],
           \A x \in Maps : x # b => n[x] = m[x]
    PROVE  Partition(Spread(n, k, t), L)
<1> DEFINE P == Spread(m, l, t)
           Q == Spread(n, k, t)
           from == <<"list", a>>
           to == <<"map", b>>
<1>1. from \in Places /\ to \in Places /\ from # to
  BY SpreadAt
<1>2. /\ \A x \in Maps : P[<<"map", x>>] = m[x] /\ Q[<<"map", x>>] = n[x]
      /\ \A x \in Lists : P[<<"list", x>>] = l[x] /\ Q[<<"list", x>>] = k[x]
      /\ \A x \in Resources : /\ P[<<"node", x>>] = Elements(t[x].blocked)
                             /\ Q[<<"node", x>>] = Elements(t[x].blocked)
  BY SpreadAt
<1> HIDE DEF P, Q
<1>3. P[from] = l[a] /\ Q[from] = k[a] /\ P[to] = m[b] /\ Q[to] = n[b]
  BY <1>2
<1>4. \A p \in Places : p # from /\ p # to => Q[p] = P[p]
  BY <1>2, SpreadAt
<1> HIDE DEF from, to
<1>5. Partition(Q, L)
  BY <1>1, <1>3, <1>4, PartitionMove DEF P
<1> QED
  BY <1>5 DEF Q

\* From one list to another.
LEMMA ListToList ==
    ASSUME NEW m, NEW l, NEW t, NEW k, NEW L, Partition(Spread(m, l, t), L),
           NEW a \in Lists, NEW b \in Lists, a # b, NEW S \in SUBSET l[a],
           k[a] = l[a] \ S, k[b] = l[b] \cup S,
           \A x \in Lists : x # a /\ x # b => k[x] = l[x]
    PROVE  Partition(Spread(m, k, t), L)
<1> DEFINE P == Spread(m, l, t)
           Q == Spread(m, k, t)
           from == <<"list", a>>
           to == <<"list", b>>
<1>1. from \in Places /\ to \in Places /\ from # to
  BY SpreadAt
<1>2. /\ \A x \in Maps : P[<<"map", x>>] = m[x] /\ Q[<<"map", x>>] = m[x]
      /\ \A x \in Lists : P[<<"list", x>>] = l[x] /\ Q[<<"list", x>>] = k[x]
      /\ \A x \in Resources : /\ P[<<"node", x>>] = Elements(t[x].blocked)
                             /\ Q[<<"node", x>>] = Elements(t[x].blocked)
  BY SpreadAt
<1> HIDE DEF P, Q
<1>3. P[from] = l[a] /\ Q[from] = k[a] /\ P[to] = l[b] /\ Q[to] = k[b]
  BY <1>2
<1>4. \A p \in Places : p # from /\ p # to => Q[p] = P[p]
  BY <1>2, SpreadAt
<1> HIDE DEF from, to
<1>5. Partition(Q, L)
  BY <1>1, <1>3, <1>4, PartitionMove DEF P
<1> QED
  BY <1>5 DEF Q

\* From the waiters of a resource to a list.
LEMMA NodeToList ==
    ASSUME NEW m, NEW l, NEW t, NEW u, NEW k, NEW L, Partition(Spread(m, l, t), L),
           NEW a \in Resources, NEW b \in Lists, NEW S \in SUBSET Elements(t[a].blocked),
           Elements(u[a].blocked) = Elements(t[a].blocked) \ S, k[b] = l[b] \cup S,
           \A x \in Resources : x # a => Elements(u[x].blocked) = Elements(t[x].blocked),
           \A x \in Lists : x # b => k[x] = l[x]
    PROVE  Partition(Spread(m, k, u), L)
<1> DEFINE P == Spread(m, l, t)
           Q == Spread(m, k, u)
           from == <<"node", a>>
           to == <<"list", b>>
<1>1. from \in Places /\ to \in Places /\ from # to
  BY SpreadAt
<1>2. /\ \A x \in Maps : P[<<"map", x>>] = m[x] /\ Q[<<"map", x>>] = m[x]
      /\ \A x \in Lists : P[<<"list", x>>] = l[x] /\ Q[<<"list", x>>] = k[x]
      /\ \A x \in Resources : /\ P[<<"node", x>>] = Elements(t[x].blocked)
                             /\ Q[<<"node", x>>] = Elements(u[x].blocked)
  BY SpreadAt
<1> HIDE DEF P, Q
<1>3. P[from] = Elements(t[a].blocked) /\ Q[from] = Elements(u[a].blocked) /\ P[to] = l[b] /\ Q[to] = k[b]
  BY <1>2
<1>4. \A p \in Places : p # from /\ p # to => Q[p] = P[p]
  BY <1>2, SpreadAt
<1> HIDE DEF from, to
<1>5. Partition(Q, L)
  BY <1>1, <1>3, <1>4, PartitionMove DEF P
<1> QED
  BY <1>5 DEF Q

\* From a list to the waiters of a resource.
LEMMA ListToNode ==
    ASSUME NEW m, NEW l, NEW t, NEW k, NEW u, NEW L, Partition(Spread(m, l, t), L),
           NEW a \in Lists, NEW b \in Resources, NEW S \in SUBSET l[a],
           k[a] = l[a] \ S, Elements(u[b].blocked) = Elements(t[b].blocked) \cup S,
           \A x \in Lists : x # a => k[x] = l[x],
           \A x \in Resources : x # b => Elements(u[x].blocked) = Elements(t[x].blocked)
    PROVE  Partition(Spread(m, k, u), L)
<1> DEFINE P == Spread(m, l, t)
           Q == Spread(m, k, u)
           from == <<"list", a>>
           to == <<"node", b>>
<1>1. from \in Places /\ to \in Places /\ from # to
  BY SpreadAt
<1>2. /\ \A x \in Maps : P[<<"map", x>>] = m[x] /\ Q[<<"map", x>>] = m[x]
      /\ \A x \in Lists : P[<<"list", x>>] = l[x] /\ Q[<<"list", x>>] = k[x]
      /\ \A x \in Resources : /\ P[<<"node", x>>] = Elements(t[x].blocked)
                             /\ Q[<<"node", x>>] = Elements(u[x].blocked)
  BY SpreadAt
<1> HIDE DEF P, Q
<1>3. P[from] = l[a] /\ Q[from] = k[a] /\ P[to] = Elements(t[b].blocked) /\ Q[to] = Elements(u[b].blocked)
  BY <1>2
<1>4. \A p \in Places : p # from /\ p # to => Q[p] = P[p]
  BY <1>2, SpreadAt
<1> HIDE DEF from, to
<1>5. Partition(Q, L)
  BY <1>1, <1>3, <1>4, PartitionMove DEF P
<1> QED
  BY <1>5 DEF Q

\* A newcomer is put in a list.
LEMMA EnterList ==
    ASSUME NEW m, NEW l, NEW t, NEW k, NEW L, Partition(Spread(m, l, t), L),
           NEW a \in Lists, NEW r, r \notin L, k[a] = l[a] \cup {r},
           \A x \in Lists : x # a => k[x] = l[x]
    PROVE  Partition(Spread(m, k, t), L \cup {r})
<1> DEFINE P == Spread(m, l, t)
           Q == Spread(m, k, t)
           at == <<"list", a>>
<1>1. at \in Places
  BY SpreadAt
<1>2. /\ \A x \in Maps : P[<<"map", x>>] = m[x] /\ Q[<<"map", x>>] = m[x]
      /\ \A x \in Lists : P[<<"list", x>>] = l[x] /\ Q[<<"list", x>>] = k[x]
      /\ \A x \in Resources : /\ P[<<"node", x>>] = Elements(t[x].blocked)
                             /\ Q[<<"node", x>>] = Elements(t[x].blocked)
  BY SpreadAt
<1> HIDE DEF P, Q
<1>3. P[at] = l[a] /\ Q[at] = k[a]
  BY <1>2
<1>4. \A p \in Places : p # at => Q[p] = P[p]
  BY <1>2, SpreadAt
<1> HIDE DEF at
<1>5. Partition(Q, L \cup {r})
  BY <1>1, <1>3, <1>4, PartitionEnter DEF P
<1> QED
  BY <1>5 DEF Q

\* A newcomer is put in a map.
LEMMA EnterMap ==
    ASSUME NEW m, NEW l, NEW t, NEW n, NEW L, Partition(Spread(m, l, t), L),
           NEW a \in Maps, NEW r, r \notin L, n[a] = m[a] \cup {r},
           \A x \in Maps : x # a => n[x] = m[x]
    PROVE  Partition(Spread(n, l, t), L \cup {r})
<1> DEFINE P == Spread(m, l, t)
           Q == Spread(n, l, t)
           at == <<"map", a>>
<1>1. at \in Places
  BY SpreadAt
<1>2. /\ \A x \in Maps : P[<<"map", x>>] = m[x] /\ Q[<<"map", x>>] = n[x]
      /\ \A x \in Lists : P[<<"list", x>>] = l[x] /\ Q[<<"list", x>>] = l[x]
      /\ \A x \in Resources : /\ P[<<"node", x>>] = Elements(t[x].blocked)
                             /\ Q[<<"node", x>>] = Elements(t[x].blocked)
  BY SpreadAt
<1> HIDE DEF P, Q
<1>3. P[at] = m[a] /\ Q[at] = n[a]
  BY <1>2
<1>4. \A p \in Places : p # at => Q[p] = P[p]
  BY <1>2, SpreadAt
<1> HIDE DEF at
<1>5. Partition(Q, L \cup {r})
  BY <1>1, <1>3, <1>4, PartitionEnter DEF P
<1> QED
  BY <1>5 DEF Q

\* Out of a map.
LEMMA LeaveMap ==
    ASSUME NEW m, NEW l, NEW t, NEW n, NEW L, Partition(Spread(m, l, t), L),
           NEW a \in Maps, NEW r \in m[a], n[a] = m[a] \ {r},
           \A x \in Maps : x # a => n[x] = m[x]
    PROVE  Partition(Spread(n, l, t), L \ {r})
<1> DEFINE P == Spread(m, l, t)
           Q == Spread(n, l, t)
           at == <<"map", a>>
<1>1. at \in Places
  BY SpreadAt
<1>2. /\ \A x \in Maps : P[<<"map", x>>] = m[x] /\ Q[<<"map", x>>] = n[x]
      /\ \A x \in Lists : P[<<"list", x>>] = l[x] /\ Q[<<"list", x>>] = l[x]
      /\ \A x \in Resources : /\ P[<<"node", x>>] = Elements(t[x].blocked)
                             /\ Q[<<"node", x>>] = Elements(t[x].blocked)
  BY SpreadAt
<1> HIDE DEF P, Q
<1>3. P[at] = m[a] /\ Q[at] = n[a]
  BY <1>2
<1>4. \A p \in Places : p # at => Q[p] = P[p]
  BY <1>2, SpreadAt
<1> HIDE DEF at
<1>5. Partition(Q, L \ {r})
  BY <1>1, <1>3, <1>4, PartitionLeave DEF P
<1> QED
  BY <1>5 DEF Q

\* Out of a list.
LEMMA LeaveList ==
    ASSUME NEW m, NEW l, NEW t, NEW k, NEW L, Partition(Spread(m, l, t), L),
           NEW a \in Lists, NEW r \in l[a], k[a] = l[a] \ {r},
           \A x \in Lists : x # a => k[x] = l[x]
    PROVE  Partition(Spread(m, k, t), L \ {r})
<1> DEFINE P == Spread(m, l, t)
           Q == Spread(m, k, t)
           at == <<"list", a>>
<1>1. at \in Places
  BY SpreadAt
<1>2. /\ \A x \in Maps : P[<<"map", x>>] = m[x] /\ Q[<<"map", x>>] = m[x]
      /\ \A x \in Lists : P[<<"list", x>>] = l[x] /\ Q[<<"list", x>>] = k[x]
      /\ \A x \in Resources : /\ P[<<"node", x>>] = Elements(t[x].blocked)
                             /\ Q[<<"node", x>>] = Elements(t[x].blocked)
  BY SpreadAt
<1> HIDE DEF P, Q
<1>3. P[at] = l[a] /\ Q[at] = k[a]
  BY <1>2
<1>4. \A p \in Places : p # at => Q[p] = P[p]
  BY <1>2, SpreadAt
<1> HIDE DEF at
<1>5. Partition(Q, L \ {r})
  BY <1>1, <1>3, <1>4, PartitionLeave DEF P
<1> QED
  BY <1>5 DEF Q

\* Only the waiters of the nodes matter.
LEMMA SpreadNodes ==
    ASSUME NEW m, NEW l, NEW t, NEW u,
           \A id \in Resources : Elements(u[id].blocked) = Elements(t[id].blocked)
    PROVE  Spread(m, l, u) = Spread(m, l, t)
<1>1. \A p \in Places : Spread(m, l, u)[p] = Spread(m, l, t)[p]
  BY SpreadAt
<1> QED
  BY <1>1 DEF Spread

\* What a partition says of two of its places.
LEMMA Apart ==
    ASSUME NEW m, NEW l, NEW t, NEW L, Partition(Spread(m, l, t), L)
    PROVE  /\ \A a \in Maps : m[a] \subseteq L
           /\ \A a \in Lists : l[a] \subseteq L
           /\ \A a \in Resources : Elements(t[a].blocked) \subseteq L
           /\ \A a, b \in Maps : a # b => m[a] \cap m[b] = {}
           /\ \A a, b \in Lists : a # b => l[a] \cap l[b] = {}
           /\ \A a, b \in Resources :
                  a # b => Elements(t[a].blocked) \cap Elements(t[b].blocked) = {}
           /\ \A a \in Maps, b \in Lists : m[a] \cap l[b] = {}
           /\ \A a \in Maps, b \in Resources : m[a] \cap Elements(t[b].blocked) = {}
           /\ \A a \in Lists, b \in Resources : l[a] \cap Elements(t[b].blocked) = {}
           /\ \A r \in L : \/ \E a \in Maps : r \in m[a]
                           \/ \E a \in Lists : r \in l[a]
                           \/ \E a \in Resources : r \in Elements(t[a].blocked)
<1> DEFINE P == Spread(m, l, t)
<1>1. /\ \A x \in Maps : P[<<"map", x>>] = m[x] /\ <<"map", x>> \in Places
      /\ \A x \in Lists : P[<<"list", x>>] = l[x] /\ <<"list", x>> \in Places
      /\ \A x \in Resources : /\ P[<<"node", x>>] = Elements(t[x].blocked)
                             /\ <<"node", x>> \in Places
  BY SpreadAt
<1>2. \A p \in Places : \/ \E k \in Maps : p = <<"map", k>>
                        \/ \E x \in Lists : p = <<"list", x>>
                        \/ \E id \in Resources : p = <<"node", id>>
  BY SpreadAt
<1> HIDE DEF P
<1>3. /\ \A p \in Places : P[p] \subseteq L
      /\ \A r \in L : \E p \in Places : r \in P[p]
      /\ \A p, q \in Places : p # q => P[p] \cap P[q] = {}
  BY DEF Partition, P
<1>a. \A p, q \in Places : \A A, B : P[p] = A /\ P[q] = B => A \subseteq L /\ (p # q => A \cap B = {})
  BY <1>3
<1>4. /\ \A a \in Maps : m[a] \subseteq L
      /\ \A a \in Lists : l[a] \subseteq L
      /\ \A a \in Resources : Elements(t[a].blocked) \subseteq L
  <2>1. ASSUME NEW a \in Maps PROVE m[a] \subseteq L
    <3> DEFINE p == <<"map", a>>
    <3>1. p \in Places /\ P[p] = m[a]
      BY <1>1
    <3> HIDE DEF p
    <3> QED
      BY <1>a, <3>1
  <2>2. ASSUME NEW a \in Lists PROVE l[a] \subseteq L
    <3> DEFINE p == <<"list", a>>
    <3>1. p \in Places /\ P[p] = l[a]
      BY <1>1
    <3> HIDE DEF p
    <3> QED
      BY <1>a, <3>1
  <2>3. ASSUME NEW a \in Resources PROVE Elements(t[a].blocked) \subseteq L
    <3> DEFINE p == <<"node", a>>
    <3>1. p \in Places /\ P[p] = Elements(t[a].blocked)
      BY <1>1
    <3> HIDE DEF p
    <3> QED
      BY <1>a, <3>1
  <2> QED
    BY <2>1, <2>2, <2>3
<1>5. /\ \A a, b \in Maps : a # b => m[a] \cap m[b] = {}
      /\ \A a, b \in Lists : a # b => l[a] \cap l[b] = {}
      /\ \A a, b \in Resources :
             a # b => Elements(t[a].blocked) \cap Elements(t[b].blocked) = {}
  <2>1. ASSUME NEW a \in Maps, NEW b \in Maps, a # b
        PROVE  m[a] \cap m[b] = {}
    <3> DEFINE p == <<"map", a>>
               q == <<"map", b>>
    <3>1. p \in Places /\ q \in Places /\ p # q
      BY <1>1, <2>1
    <3>2. P[p] = m[a] /\ P[q] = m[b]
      BY <1>1
    <3> HIDE DEF p, q
    <3> QED
      BY <1>a, <3>1, <3>2
  <2>2. ASSUME NEW a \in Lists, NEW b \in Lists, a # b
        PROVE  l[a] \cap l[b] = {}
    <3> DEFINE p == <<"list", a>>
               q == <<"list", b>>
    <3>1. p \in Places /\ q \in Places /\ p # q
      BY <1>1, <2>2
    <3>2. P[p] = l[a] /\ P[q] = l[b]
      BY <1>1
    <3> HIDE DEF p, q
    <3> QED
      BY <1>a, <3>1, <3>2
  <2>3. ASSUME NEW a \in Resources, NEW b \in Resources, a # b
        PROVE  Elements(t[a].blocked) \cap Elements(t[b].blocked) = {}
    <3> DEFINE p == <<"node", a>>
               q == <<"node", b>>
    <3>1. p \in Places /\ q \in Places /\ p # q
      BY <1>1, <2>3
    <3>2. P[p] = Elements(t[a].blocked) /\ P[q] = Elements(t[b].blocked)
      BY <1>1
    <3> HIDE DEF p, q
    <3> QED
      BY <1>a, <3>1, <3>2
  <2> QED
    BY <2>1, <2>2, <2>3
<1>6. /\ \A a \in Maps, b \in Lists : m[a] \cap l[b] = {}
      /\ \A a \in Maps, b \in Resources : m[a] \cap Elements(t[b].blocked) = {}
      /\ \A a \in Lists, b \in Resources : l[a] \cap Elements(t[b].blocked) = {}
  <2>1. ASSUME NEW a \in Maps, NEW b \in Lists
        PROVE  m[a] \cap l[b] = {}
    <3> DEFINE p == <<"map", a>>
               q == <<"list", b>>
    <3>1. p \in Places /\ q \in Places /\ p # q
      BY <1>1
    <3>2. P[p] = m[a] /\ P[q] = l[b]
      BY <1>1
    <3> HIDE DEF p, q
    <3> QED
      BY <1>a, <3>1, <3>2
  <2>2. ASSUME NEW a \in Maps, NEW b \in Resources
        PROVE  m[a] \cap Elements(t[b].blocked) = {}
    <3> DEFINE p == <<"map", a>>
               q == <<"node", b>>
    <3>1. p \in Places /\ q \in Places /\ p # q
      BY <1>1
    <3>2. P[p] = m[a] /\ P[q] = Elements(t[b].blocked)
      BY <1>1
    <3> HIDE DEF p, q
    <3> QED
      BY <1>a, <3>1, <3>2
  <2>3. ASSUME NEW a \in Lists, NEW b \in Resources
        PROVE  l[a] \cap Elements(t[b].blocked) = {}
    <3> DEFINE p == <<"list", a>>
               q == <<"node", b>>
    <3>1. p \in Places /\ q \in Places /\ p # q
      BY <1>1
    <3>2. P[p] = l[a] /\ P[q] = Elements(t[b].blocked)
      BY <1>1
    <3> HIDE DEF p, q
    <3> QED
      BY <1>a, <3>1, <3>2
  <2> QED
    BY <2>1, <2>2, <2>3
<1>7. ASSUME NEW r \in L
      PROVE  \/ \E a \in Maps : r \in m[a]
             \/ \E a \in Lists : r \in l[a]
             \/ \E a \in Resources : r \in Elements(t[a].blocked)
  <2>1. PICK p \in Places : r \in P[p]
    BY <1>3
  <2> QED
    BY <1>1, <1>2, <2>1
<1> QED
  BY <1>4, <1>5, <1>6, <1>7

----------------------------------------------------------------------------
(* Lists. *)

\* What is in a list after an element is added at its end.
LEMMA ElementsAppend ==
    ASSUME NEW S, NEW s \in Seq(S), NEW x \in S
    PROVE  Elements(Append(s, x)) = {x} \cup Elements(s)
<1>1. \A i \in 1..Len(s) : Append(s, x)[i] = s[i]
  OBVIOUS
<1>2. /\ Append(s, x)[Len(s) + 1] = x /\ Len(s) \in Nat /\ DOMAIN s = 1..Len(s)
      /\ DOMAIN Append(s, x) = 1..(Len(s) + 1)
  OBVIOUS
<1>3. 1..(Len(s) + 1) = 1..Len(s) \cup {Len(s) + 1}
  BY <1>2
<1> QED
  BY <1>1, <1>2, <1>3 DEF Elements

\* What is in a list after the loop has added or taken an element.
LEMMA ElementsOf ==
    ASSUME NEW S, NEW s \in Seq(S)
    PROVE  /\ \A x \in S : /\ Elements(<<x>> \o s) = {x} \cup Elements(s)
                           /\ Elements(Append(s, x)) = {x} \cup Elements(s)
           /\ s # << >> => /\ Head(s) \in S /\ Tail(s) \in Seq(S)
                           /\ Head(s) \in Elements(s)
                           /\ Elements(s) = {Head(s)} \cup Elements(Tail(s))
           /\ Elements(s) \subseteq S
           /\ s # << >> <=> Elements(s) # {}
<1>1. ASSUME NEW x \in S PROVE Elements(<<x>> \o s) = {x} \cup Elements(s)
  <2> DEFINE e == <<x>> \o s
  <2>1. e \in Seq(S) /\ Len(e) = Len(s) + 1 /\ e[1] = x
    OBVIOUS
  <2>2. \A i \in 1..Len(s) : e[i + 1] = s[i]
    OBVIOUS
  <2>3. \A i \in 1..Len(e) : i = 1 \/ (i - 1 \in 1..Len(s) /\ e[i] = s[i - 1])
    OBVIOUS
  <2>4. DOMAIN e = 1..Len(e) /\ DOMAIN s = 1..Len(s) /\ Len(s) \in Nat
    BY <2>1
  <2> HIDE DEF e
  <2>5. \A i \in DOMAIN s : i + 1 \in DOMAIN e /\ e[i + 1] = s[i]
    BY <2>1, <2>2, <2>4
  <2>6. 1 \in DOMAIN e
    BY <2>1, <2>4
  <2>7. Elements(e) \subseteq {x} \cup Elements(s)
    BY <2>1, <2>3, <2>4 DEF Elements
  <2>8. {x} \cup Elements(s) \subseteq Elements(e)
    BY <2>1, <2>5, <2>6 DEF Elements
  <2> QED
    BY <2>7, <2>8 DEF e
<1>2. ASSUME NEW x \in S PROVE Elements(Append(s, x)) = {x} \cup Elements(s)
  BY <1>2, ElementsAppend
<1>3. ASSUME s # << >>
      PROVE  /\ Head(s) \in S /\ Tail(s) \in Seq(S) /\ Head(s) \in Elements(s)
             /\ Elements(s) = {Head(s)} \cup Elements(Tail(s))
  <2>1. Head(s) \in S /\ Tail(s) \in Seq(S) /\ Head(s) = s[1] /\ 1 \in DOMAIN s
    BY <1>3
  <2>2. /\ DOMAIN s = 1..Len(s) /\ DOMAIN Tail(s) = 1..(Len(s) - 1) /\ Len(s) \in Nat
        /\ \A i \in 1..(Len(s) - 1) : Tail(s)[i] = s[i + 1]
    BY <1>3
  <2>3. \A i \in DOMAIN s : i = 1 \/ (i - 1 \in DOMAIN Tail(s) /\ s[i] = Tail(s)[i - 1])
    BY <2>2
  <2>4. \A i \in DOMAIN Tail(s) : i + 1 \in DOMAIN s /\ Tail(s)[i] = s[i + 1]
    BY <2>2
  <2>5. Elements(s) \subseteq {Head(s)} \cup Elements(Tail(s))
    BY <2>1, <2>3 DEF Elements
  <2>6. {Head(s)} \cup Elements(Tail(s)) \subseteq Elements(s)
    BY <2>1, <2>4 DEF Elements
  <2> QED
    BY <2>1, <2>5, <2>6
<1>4. Elements(s) \subseteq S
  BY DEF Elements
<1>5. s # << >> <=> Elements(s) # {}
  <2>1. s # << >> => 1 \in DOMAIN s
    OBVIOUS
  <2>2. s = << >> => DOMAIN s = {}
    OBVIOUS
  <2> QED
    BY <2>1, <2>2 DEF Elements
<1> QED
  BY <1>1, <1>2, <1>3, <1>4, <1>5

\* A list stays without duplicates when a stranger is added or its head taken.
LEMMA DistinctOf ==
    ASSUME NEW S, NEW s \in Seq(S), Distinct(s)
    PROVE  /\ \A x \in S : x \notin Elements(s) => /\ Distinct(<<x>> \o s)
                                                   /\ Distinct(Append(s, x))
           /\ s # << >> => /\ Distinct(Tail(s))
                           /\ Elements(Tail(s)) = Elements(s) \ {Head(s)}
<1>1. ASSUME NEW x \in S, x \notin Elements(s) PROVE Distinct(<<x>> \o s)
  <2> DEFINE e == <<x>> \o s
  <2>1. /\ e[1] = x /\ DOMAIN e = 1..(Len(s) + 1) /\ Len(s) \in Nat
        /\ DOMAIN s = 1..Len(s)
    OBVIOUS
  <2>2. \A i \in 1..(Len(s) + 1) : i # 1 => i - 1 \in 1..Len(s) /\ e[i] = s[i - 1]
    OBVIOUS
  <2> HIDE DEF e
  <2>3. \A i \in DOMAIN e : i # 1 => i - 1 \in DOMAIN s /\ e[i] = s[i - 1] /\ e[i] # x
    BY <1>1, <2>1, <2>2 DEF Elements
  <2> SUFFICES ASSUME NEW i \in DOMAIN e, NEW j \in DOMAIN e, e[i] = e[j]
               PROVE  i = j
    BY DEF Distinct, e
  <2>4. i = 1 <=> j = 1
    BY <2>1, <2>3
  <2>5. i \in Int /\ j \in Int
    BY <2>1
  <2>6. CASE i # 1 /\ j # 1
    <3>1. s[i - 1] = s[j - 1] /\ i - 1 \in DOMAIN s /\ j - 1 \in DOMAIN s
      BY <2>3, <2>6
    <3>2. i - 1 = j - 1
      BY <3>1 DEF Distinct
    <3> QED
      BY <2>5, <3>2
  <2> QED
    BY <2>4, <2>6
<1>2. ASSUME NEW x \in S, x \notin Elements(s) PROVE Distinct(Append(s, x))
  <2>1. \A i \in 1..Len(s) : Append(s, x)[i] = s[i]
    OBVIOUS
  <2>2. /\ Append(s, x)[Len(s) + 1] = x /\ Len(s) \in Nat /\ DOMAIN s = 1..Len(s)
        /\ DOMAIN Append(s, x) = 1..(Len(s) + 1)
    OBVIOUS
  <2>3. 1..(Len(s) + 1) = 1..Len(s) \cup {Len(s) + 1}
    BY <2>2
  <2> QED
    BY <1>2, <2>1, <2>2, <2>3 DEF Elements, Distinct
<1>3. ASSUME s # << >>
      PROVE  Distinct(Tail(s)) /\ Elements(Tail(s)) = Elements(s) \ {Head(s)}
  <2>1. /\ DOMAIN s = 1..Len(s) /\ DOMAIN Tail(s) = 1..(Len(s) - 1) /\ Len(s) \in Nat
        /\ Len(s) # 0
        /\ Head(s) = s[1] /\ \A i \in 1..(Len(s) - 1) : Tail(s)[i] = s[i + 1]
    BY <1>3
  <2>2. \A i \in DOMAIN Tail(s) : /\ i \in Int /\ i + 1 \in DOMAIN s /\ i + 1 # 1
                                  /\ Tail(s)[i] = s[i + 1]
    BY <2>1
  <2>3. Distinct(Tail(s))
    <3> SUFFICES ASSUME NEW i \in DOMAIN Tail(s), NEW j \in DOMAIN Tail(s),
                        Tail(s)[i] = Tail(s)[j]
                 PROVE  i = j
      BY DEF Distinct
    <3>1. i + 1 = j + 1
      BY <2>2 DEF Distinct
    <3> QED
      BY <2>2, <3>1
  <2>4. Head(s) \notin Elements(Tail(s))
    <3>1. 1 \in DOMAIN s
      BY <2>1
    <3> QED
      BY <2>1, <2>2, <3>1 DEF Elements, Distinct
  <2>5. Elements(s) = {Head(s)} \cup Elements(Tail(s))
    BY <1>3, ElementsOf
  <2> QED
    BY <2>3, <2>4, <2>5
<1> QED
  BY <1>1, <1>2, <1>3

----------------------------------------------------------------------------
(* What the operators of the loop do to places. *)

\* The whole invariant.
EInv == IInv /\ Unstranded(table) /\ PlacesInv /\ RefsInv

SameWaiters == \A id \in Resources : table'[id].blocked = table[id].blocked

\* A change of one request.
LEMMA OneLife ==
    ASSUME SchedTypes, NEW r \in Requests, NEW q, req' = [req EXCEPT ![r] = q]
    PROVE  LiveOnes' = IF q.life = "live" THEN LiveOnes \cup {r} ELSE LiveOnes \ {r}
<1>1. \A s \in Requests : req'[s] = IF s = r THEN q ELSE req[s]
  BY DEF SchedTypes
<1> QED
  BY <1>1 DEF LiveOnes, Live

\* A change of one request that leaves its life alone.
LEMMA SameLife ==
    ASSUME SchedTypes, NEW r \in Requests, NEW q, req' = [req EXCEPT ![r] = q],
           q.life = req[r].life
    PROVE  LiveOnes' = LiveOnes
<1>1. \A s \in Requests : req'[s] = IF s = r THEN q ELSE req[s]
  BY DEF SchedTypes
<1> QED
  BY <1>1 DEF LiveOnes, Live

\* The waiters of a node after an operation on it.
LEMMA NodeBlocked ==
    ASSUME NEW n \in NodeRec, NoStrandedWaiter(n)
    PROVE  /\ GetOrCreate(n).blocked = n.blocked /\ AddRefNode(n).blocked = n.blocked
           /\ AutoNode(n).blocked = n.blocked    /\ RetainNode(n).blocked = n.blocked
           /\ DropDep(n).blocked = n.blocked
           /\ n.refcnt # 1 \/ n.blocked = << >> => ReleaseNode(n).blocked = n.blocked
           /\ \A r \in Requests : BlockNode(n, r).blocked = Append(n.blocked, r)
           /\ \A ok, own \in BOOLEAN : PublishNode(n, ok, own).blocked = << >>
<1> DEFINE m == GetOrCreate(n)
<1>1. m \in NodeRec
  BY NodeOps
<1>2. NoNode.blocked = << >>
  BY DEF NoNode
<1>3. m.blocked = n.blocked
  BY DEF GetOrCreate, NoNode, NoStrandedWaiter
<1> HIDE DEF m
<1>4. AddRefNode(n).blocked = n.blocked
  BY <1>1, <1>3 DEF AddRefNode, m, NodeRec
<1>5. AutoNode(n).blocked = n.blocked
  BY <1>1, <1>3 DEF AutoNode, m, NodeRec
<1>6. RetainNode(n).blocked = n.blocked
  BY <1>1, <1>3 DEF RetainNode, m, NodeRec
<1>7. \A k \in NodeRec : k.refcnt # 1 \/ k.blocked = << >> =>
                             ReleaseNode(k).blocked = k.blocked
  BY <1>2 DEF ReleaseNode, NodeRec
<1>8. DropDep(n).blocked = n.blocked
  <2> DEFINE i == IF n.refcnt > 0 THEN n.refcnt - 1 ELSE 0
             k == [n EXCEPT !.refcnt = i]
  <2>1. i \in Int
    BY DEF NodeRec
  <2> HIDE DEF i
  <2>2. k \in NodeRec /\ k.blocked = n.blocked
    BY <2>1, NodeFields DEF NodeRec
  <2>3. DropDep(n) = IF n.st = "none" THEN n ELSE MaybeAutorelease(k)
    BY DEF DropDep, i
  <2> HIDE DEF k
  <2>4. MaybeAutorelease(k).blocked = k.blocked
    BY <1>7, <2>2 DEF MaybeAutorelease
  <2> QED
    BY <2>2, <2>3, <2>4
<1>9. ASSUME NEW r \in Requests PROVE BlockNode(n, r).blocked = Append(n.blocked, r)
  BY <1>1, <1>3 DEF BlockNode, m, NodeRec
<1>10. ASSUME NEW ok \in BOOLEAN, NEW own \in BOOLEAN
       PROVE  PublishNode(n, ok, own).blocked = << >>
  BY <1>1 DEF PublishNode, m, NodeRec
<1> QED
  BY <1>3, <1>4, <1>5, <1>6, <1>7, <1>8, <1>9, <1>10 DEF m

\* Retaining and releasing dependencies moves no waiter.
LEMMA DepsBlocked ==
    ASSUME NEW t \in [Resources -> NodeRec], Unstranded(t), NEW r \in Requests
    PROVE  \A id \in Resources : /\ RetainDeps(t, r)[id].blocked = t[id].blocked
                                 /\ ReleaseDeps(t, r)[id].blocked = t[id].blocked
<1>1. ASSUME NEW id \in Resources
      PROVE  /\ RetainNode(t[id]).blocked = t[id].blocked
             /\ DropDep(t[id]).blocked = t[id].blocked
  BY NodeBlocked DEF Unstranded
<1> QED
  BY <1>1 DEF RetainDeps, ReleaseDeps

\* Destroying a request.
LEMMA DestroyEffect ==
    ASSUME IInv, Unstranded(table), NEW r \in Requests, NEW how \in Ended, NEW n,
           Destroy(r, how, n)
    PROVE  SameWaiters /\ LiveOnes' = LiveOnes \ {r}
<1>1. SchedTypes /\ table \in [Resources -> NodeRec] /\ req[r] \in RequestRec
  BY DEF IInv, TypeOK, SchedTypes
<1>2. SameWaiters
  BY <1>1, DepsBlocked DEF Destroy, SameWaiters
<1>3. [req[r] EXCEPT !.life = how, !.handle = FALSE, !.retained = FALSE].life # "live"
  BY <1>1 DEF RequestRec, Ended
<1> QED
  BY <1>1, <1>2, <1>3, OneLife DEF Destroy

\* Starting a request that is live.
LEMMA StartEffect ==
    ASSUME IInv, Unstranded(table), NEW r \in Requests, NEW m, NEW n, Start(r, m, n)
    PROVE  /\ SameWaiters
           /\ \/ LiveOnes' = LiveOnes /\ \E k \in {"rated", "queued"} : map' = Put(m, k, r)
              \/ LiveOnes' = LiveOnes \ {r} /\ map' = m
<1>1. SchedTypes /\ table \in [Resources -> NodeRec] /\ req[r] \in RequestRec
  BY DEF IInv, TypeOK, SchedTypes
<1>2. CASE StartRated(r, m, n)
  <2>1. PICK at : req' = [req EXCEPT ![r].due = at]
    BY <1>2 DEF StartRated
  <2>2. [req[r] EXCEPT !.due = at].life = req[r].life
    BY <1>1 DEF RequestRec
  <2>3. table' = table /\ map' = Put(m, "rated", r)
    BY <1>2 DEF StartRated
  <2> QED
    BY <1>1, <2>1, <2>2, <2>3, SameLife DEF SameWaiters
<1>3. CASE StartUnprepared(r, m, n)
  <2>1. [req[r] EXCEPT !.life = "unprepared", !.handle = FALSE,
                       !.retained = FALSE].life # "live"
    BY <1>1 DEF RequestRec
  <2>2. SameWaiters
    BY <1>1, <1>3, DepsBlocked DEF StartUnprepared, SameWaiters
  <2> QED
    BY <1>1, <1>3, <2>1, <2>2, OneLife DEF StartUnprepared
<1>4. CASE StartTransfer(r, m, n)
  <2>1. [req[r] EXCEPT !.handle = TRUE].life = req[r].life
    BY <1>1 DEF RequestRec
  <2> QED
    BY <1>1, <1>4, <2>1, SameLife DEF StartTransfer, SameWaiters
<1> QED
  BY <1>2, <1>3, <1>4 DEF Start

\* A released node that requests wait for keeps the references of its waiters.
LEMMA ReleaseEffect ==
    ASSUME EInv, NEW id \in Resources, table[id].held > 0 \/ table[id].st = "none"
    PROVE  ReleaseNode(table[id]).blocked = table[id].blocked
<1>1. /\ table[id] \in NodeRec /\ NoStrandedWaiter(table[id])
      /\ req \in [Requests -> RequestRec]
  BY DEF EInv, IInv, TypeOK, SchedTypes, Unstranded
<1>2. CASE table[id].refcnt # 1 \/ table[id].blocked = << >>
  BY <1>1, <1>2, NodeBlocked
<1>3. CASE table[id].refcnt = 1 /\ table[id].blocked # << >>
  <2>1. PICK r \in Elements(table[id].blocked) : TRUE
    BY <1>1, <1>3, ElementsOf DEF NodeRec
  <2>2. r \in LiveOnes
    BY Apart DEF EInv, PlacesInv, PlacesOK, Contents
  <2>3. req[r].retained /\ id \in Deps[r]
    BY DEF EInv, RefsInv, WaitersPin
  <2>4. r \in Users(id)
    BY <2>2, <2>3 DEF Users, LiveOnes
  <2>5. IsFiniteSet(Users(id)) /\ Cardinality(Users(id)) \in Nat /\ Cardinality(Users(id)) # 0
    <3>1. Users(id) \subseteq Requests /\ IsFiniteSet(Requests)
      BY SetsAssumption DEF Users
    <3> QED
      BY <2>4, <3>1, FS_Subset, FS_CardinalityType, FS_EmptySet
  <2>6. table[id].st # "none"
    BY <1>1, <1>3 DEF NoStrandedWaiter
  <2>7. table[id].refcnt = table[id].held + Cardinality(Users(id))
    BY <2>6 DEF EInv, RefsInv, RefcountExact
  <2>8. table[id].held \in Nat /\ table[id].held > 0
    BY <1>1, <2>6 DEF NodeRec
  <2> QED
    BY <1>3, <2>5, <2>7, <2>8
<1> QED
  BY <1>2, <1>3

\* The sets of the lists.
LEMMA ListedAt ==
    /\ Listed["pending"] = Elements(pending) /\ Listed["taken"] = Elements(work.pending)
    /\ Listed["injected"] = Elements(injected)
    /\ Listed["detached"] = Elements(work.injected)
    /\ Listed["woken"] = Elements(pub.waiters) /\ Listed["hand"] = {cur.req} \ {None}
BY DEF Listed, Lists

\* A step that moves nobody.
LEMMA NobodyMoves ==
    ASSUME PlacesOK, map' = map, SameWaiters, LiveOnes' = LiveOnes,
           UNCHANGED <<pending, injected, work.pending, work.injected, pub.waiters,
                       cur.req>>
    PROVE  PlacesOK'
<1>1. Listed' = Listed
  BY DEF Listed
<1>2. Spread(map', Listed', table') = Spread(map, Listed, table)
  <2>1. \A id \in Resources : Elements(table'[id].blocked) = Elements(table[id].blocked)
    BY DEF SameWaiters
  <2> QED
    BY <1>1, <2>1, SpreadNodes
<1> QED
  BY <1>2 DEF PlacesOK, Contents

\* The same, before anybody moves in a step that only changes nodes otherwise.
LEMMA KeptPartition ==
    ASSUME PlacesOK, SameWaiters
    PROVE  Partition(Spread(map, Listed, table'), LiveOnes)
<1>1. \A id \in Resources : Elements(table'[id].blocked) = Elements(table[id].blocked)
  BY DEF SameWaiters
<1>2. Spread(map, Listed, table') = Spread(map, Listed, table)
  BY <1>1, SpreadNodes
<1> QED
  BY <1>2 DEF PlacesOK, Contents

\* A publication wakes the waiters of its resource.
LEMMA Woken ==
    ASSUME SchedTypes, Unstranded(table), NEW id \in Resources, NEW ok \in BOOLEAN,
           NEW own \in BOOLEAN, NEW back, BeginPublish(id, ok, own, back),
           NEW m, NEW l, NEW L, Partition(Spread(m, l, table), L), l["woken"] = {},
           NEW k, k["woken"] = Elements(pub'.waiters),
           \A x \in Lists : x # "woken" => k[x] = l[x]
    PROVE  Partition(Spread(m, k, table'), L)
<1> DEFINE S == Elements(table[id].blocked)
<1>1. table \in [Resources -> NodeRec] /\ table[id] \in NodeRec /\ NoStrandedWaiter(table[id])
  BY DEF SchedTypes, Unstranded
<1>2. PublishNode(table[id], ok, own).blocked = << >>
  BY <1>1, NodeBlocked
<1>3. /\ table'[id].blocked = << >> /\ pub'.waiters = table[id].blocked
      /\ \A x \in Resources : x # id => table'[x].blocked = table[x].blocked
  BY <1>1, <1>2 DEF BeginPublish
<1>4. Elements(table'[id].blocked) = S \ S /\ k["woken"] = l["woken"] \cup S
  BY <1>3 DEF Elements
<1>5. \A x \in Resources : x # id => Elements(table'[x].blocked) = Elements(table[x].blocked)
  BY <1>3
<1>6. "woken" \in Lists /\ S \in SUBSET S
  BY DEF Lists
<1> HIDE DEF S
<1> QED
  BY <1>4, <1>5, <1>6, NodeToList DEF S

----------------------------------------------------------------------------
(* Every step keeps each request in one place. *)

\* The calls of the application.
LEMMA CallPlaces ==
    ASSUME EInv, Disciplined, NEW c \in Calls, Call(c)
    PROVE  PlacesOK'
<1>0. /\ SchedTypes /\ ListTypes /\ PlacesOK /\ HoldsOK /\ FreshOK /\ IInv
      /\ Unstranded(table) /\ table \in [Resources -> NodeRec]
      /\ Partition(Spread(map, Listed, table), LiveOnes)
  BY DEF EInv, IInv, TypeOK, SchedTypes, PlacesInv, PlacesOK, Contents
<1>1. ASSUME NEW r \in Requests, NEW q \in RequestRec, Enlist(r, q), req[r].life = "new"
      PROVE  PlacesOK'
  <2>1. r \notin LiveOnes
    BY <1>1 DEF LiveOnes, Live
  <2>2. [q EXCEPT !.life = "live", !.isPending = TRUE].life = "live"
    BY DEF RequestRec
  <2>3. LiveOnes' = LiveOnes \cup {r}
    BY <1>0, <1>1, <2>2, OneLife DEF Enlist
  <2>4. Elements(pending') = {r} \cup Elements(pending)
    BY <1>0, <1>1, ElementsOf DEF Enlist, ListTypes
  <2>5. /\ Listed'["pending"] = Listed["pending"] \cup {r} /\ "pending" \in Lists
        /\ \A x \in Lists : x # "pending" => Listed'[x] = Listed[x]
    BY <1>1, <2>4 DEF Listed, Lists, Enlist, local
  <2>6. Partition(Spread(map, Listed', table), LiveOnes \cup {r})
    BY <1>0, <2>1, <2>5, EnterList
  <2> QED
    BY <1>1, <2>3, <2>6 DEF PlacesOK, Contents, Enlist
<1>2. c \in todo /\ c.op \in Submits => c.on \in Requests /\ req[c.on].life = "new"
  BY <1>0, CallsAssumption DEF FreshOK, Submits
<1>3. CASE RequestSubmit(c)
  <2> DEFINE r == c.on
             x == Floor(IF Priority[r] > 0 THEN -Priority[r] ELSE 0)
             b == req[r].onRetry \/ MaxRetries[r] # 0
             q == [req[r] EXCEPT !.due = x, !.onRetry = b]
  <2>1. r \in Requests /\ req[r].life = "new"
    BY <1>2, <1>3 DEF RequestSubmit, Makes, Submits
  <2>2. x \in Int /\ b \in BOOLEAN /\ req[r] \in RequestRec
    BY <1>0, <2>1, BoundsAssumption, RequestsAssumption DEF Floor, SchedTypes, RequestRec
  <2> HIDE DEF x, b
  <2>3. q \in RequestRec
    BY <2>2, RequestFields
  <2>4. CASE Refused(r)
    <3>1. UNCHANGED <<pc, keepRunning, lists, sched, local>>
      BY <1>3, <2>4 DEF RequestSubmit
    <3> QED
      BY <1>0, <3>1, NobodyMoves DEF lists, sched, local, SameWaiters, LiveOnes, Live
  <2>5. CASE ~Refused(r)
    <3>1. Enlist(r, q)
      BY <1>3, <2>5 DEF RequestSubmit, x, b
    <3> QED
      BY <1>1, <2>1, <2>3, <3>1
  <2> QED
    BY <2>4, <2>5
<1>4. CASE LoopSubmit(c)
  <2> DEFINE q == [req[c.on] EXCEPT !.due = Floor(-Priority[c.on])]
  <2>1. c.on \in Requests /\ req[c.on].life = "new"
    BY <1>2, <1>4 DEF LoopSubmit, Makes, Submits
  <2>2. Floor(-Priority[c.on]) \in Int
    BY <2>1, BoundsAssumption, RequestsAssumption DEF Floor
  <2>3. q \in RequestRec
    BY <1>0, <2>1, <2>2, RequestFields DEF SchedTypes
  <2>4. Enlist(c.on, q)
    BY <1>4 DEF LoopSubmit
  <2> HIDE DEF q
  <2> QED
    BY <1>1, <2>1, <2>3, <2>4
<1>5. CASE Cancel(c)
  <2>1. c.on \in Requests
    BY <1>5, CallsAssumption DEF Cancel, Makes
  <2>2. [req[c.on] EXCEPT !.isCancelled = TRUE].life = req[c.on].life
    BY <1>0, <2>1 DEF SchedTypes, RequestRec
  <2>3. LiveOnes' = LiveOnes
    <3>1. CASE req' = [req EXCEPT ![c.on] = [req[c.on] EXCEPT !.isCancelled = TRUE]]
      BY <1>0, <2>1, <2>2, <3>1, SameLife
    <3>2. CASE req' = req
      BY <3>2 DEF LiveOnes, Live
    <3> QED
      BY <1>5, <3>1, <3>2 DEF Cancel
  <2> QED
    BY <1>0, <1>5, <2>3, NobodyMoves DEF Cancel, local, SameWaiters
<1>6. CASE Inject(c)
  <2> DEFINE r == c.on
  <2>1. r \in Requests /\ r \notin LiveOnes
    BY <1>6, CallsAssumption DEF Inject, Makes, LiveOnes, Live
  <2>2. [req[r] EXCEPT !.life = "live"].life = "live"
    BY <1>0, <2>1 DEF SchedTypes, RequestRec
  <2>3. LiveOnes' = LiveOnes \cup {r}
    BY <1>0, <1>6, <2>1, <2>2, OneLife DEF Inject
  <2>4. Elements(injected') = {r} \cup Elements(injected)
    BY <1>0, <1>6, <2>1, ElementsOf DEF Inject, ListTypes
  <2>5. /\ Listed'["injected"] = Listed["injected"] \cup {r} /\ "injected" \in Lists
        /\ \A x \in Lists : x # "injected" => Listed'[x] = Listed[x]
    BY <1>6, <2>4 DEF Listed, Lists, Inject, local
  <2>6. Partition(Spread(map, Listed', table), LiveOnes \cup {r})
    BY <1>0, <2>1, <2>5, EnterList
  <2> QED
    BY <1>6, <2>3, <2>6 DEF PlacesOK, Contents, Inject
<1>7. CASE Stop(c) \/ Post(c) \/ Run(c)
  <2>1. LiveOnes' = LiveOnes
    BY <1>7 DEF Stop, Post, Run, sched, LiveOnes, Live
  <2> QED
    BY <1>0, <1>7, <2>1, NobodyMoves DEF Stop, Post, Run, lists, sched, local, SameWaiters
<1>8. CASE NodeCall(c)
  <2>1. c.on \in Resources /\ c \in todo /\ pc # "destroyed"
    BY <1>8, CallsAssumption DEF NodeCall, Makes, LoopThread
  <2>2. c.op = "release" => table[c.on].held > 0
    BY <2>1 DEF EInv, RefsInv, OwedOK, Due, GivesBack
  <2>3. c.op = "release" => ReleaseNode(table[c.on]).blocked = table[c.on].blocked
    BY <2>1, <2>2, ReleaseEffect
  <2>4. /\ AddRefNode(table[c.on]).blocked = table[c.on].blocked
        /\ AutoNode(table[c.on]).blocked = table[c.on].blocked
    BY <1>0, <2>1, NodeBlocked DEF Unstranded
  <2>5. c.op \in {"release", "addref", "autorelease"}
    BY <1>8 DEF NodeCall, Makes
  <2>6. SameWaiters
    BY <1>0, <1>8, <2>1, <2>3, <2>4, <2>5 DEF NodeCall, SameWaiters
  <2>7. LiveOnes' = LiveOnes
    BY <1>8 DEF NodeCall, LiveOnes, Live
  <2> QED
    BY <1>0, <1>8, <2>6, <2>7, NobodyMoves DEF NodeCall, lists, local
<1>9. CASE PublishCall(c)
  <2>1. /\ c.on \in Resources /\ c.ok \in BOOLEAN /\ (c.op = "register") \in BOOLEAN
        /\ pc \in {"idle", "onloop", "finish"}
        /\ BeginPublish(c.on, c.ok, c.op = "register", pc)
    BY <1>9, CallsAssumption DEF PublishCall, Makes, LoopThread
  <2>2. Listed["woken"] = {}
    BY <1>0, <2>1, ListedAt DEF HoldsOK, Elements
  <2>3. /\ Listed'["woken"] = Elements(pub'.waiters)
        /\ \A x \in Lists : x # "woken" => Listed'[x] = Listed[x]
    BY <1>9 DEF Listed, Lists, PublishCall, lists
  <2>4. Partition(Spread(map, Listed', table'), LiveOnes)
    BY <1>0, <2>1, <2>2, <2>3, Woken
  <2>5. LiveOnes' = LiveOnes /\ map' = map
    BY <1>9 DEF PublishCall, LiveOnes, Live
  <2> QED
    BY <2>4, <2>5 DEF PlacesOK, Contents
<1>10. CASE DestroyLoop(c)
  <2>1. CASE Crash
    <3>1. LiveOnes' = LiveOnes
      BY <2>1 DEF Crash, sched, LiveOnes, Live
    <3> QED
      BY <1>0, <2>1, <3>1, NobodyMoves DEF Crash, lists, sched, local, SameWaiters
  <2>2. CASE Teardown
    <3>1. pc = "idle"
      BY <1>10 DEF DestroyLoop
    <3>2. \A r \in LiveOnes : r \in Reached \cup UNION {Blocked(id) : id \in Resources}
      <4> SUFFICES ASSUME NEW r \in LiveOnes
                   PROVE  r \in Reached \cup UNION {Blocked(id) : id \in Resources}
        OBVIOUS
      <4>1. \/ \E a \in Maps : r \in map[a]
            \/ \E a \in Lists : r \in Listed[a]
            \/ \E a \in Resources : r \in Elements(table[a].blocked)
        BY <1>0, Apart
      <4>2. ASSUME NEW a \in Lists, r \in Listed[a] PROVE r \in Reached
        <5>1. /\ Listed["taken"] = {} /\ Listed["detached"] = {} /\ Listed["woken"] = {}
              /\ Listed["hand"] = {}
          BY <1>0, <3>1, ListedAt DEF HoldsOK, Publishing, Elements
        <5>2. a \in {"pending", "injected"}
          BY <4>2, <5>1 DEF Lists
        <5>3. r \in Elements(pending) \/ r \in Elements(injected)
          BY <4>2, <5>2, ListedAt
        <5> QED
          BY <5>3 DEF Reached, Elements
      <4> QED
        BY <4>1, <4>2 DEF Reached, Blocked, Elements
    <3> DEFINE dead == Reached \cup UNION {Blocked(id) : id \in Resources}
               t(r) == [req[r] EXCEPT !.life = "torn", !.handle = FALSE,
                                      !.retained = FALSE]
    <3>3. \A r \in Requests : t(r).life # "live"
      BY <1>0 DEF SchedTypes, RequestRec
    <3>4. req' = [r \in Requests |-> IF r \in dead THEN t(r) ELSE req[r]]
      BY <2>2 DEF Teardown
    <3>5. \A r \in LiveOnes : r \in dead
      BY <3>2
    <3> HIDE DEF dead, t
    <3>6. LiveOnes' = {}
      BY <3>3, <3>4, <3>5 DEF LiveOnes, Live
    <3>7. /\ map' = [k \in Maps |-> {}] /\ table' = [id \in Resources |-> NoNode]
          /\ pending' = << >> /\ injected' = << >> /\ UNCHANGED <<work, cur, pub>>
      BY <2>2, Zenon DEF Teardown, local
    <3>8. /\ work.pending = << >> /\ work.injected = << >> /\ pub.waiters = << >>
          /\ cur.req = None
      BY <1>0, <3>1 DEF HoldsOK, Publishing
    <3>9. \A x \in Lists : Listed'[x] = {}
      BY <3>7, <3>8 DEF Listed, Lists, Elements
    <3>10. \A id \in Resources : Elements(table'[id].blocked) = {}
      BY <3>7 DEF NoNode, Elements
    <3> DEFINE Q == Spread(map', Listed', table')
    <3>11. /\ \A x \in Maps : Q[<<"map", x>>] = map'[x]
           /\ \A x \in Lists : Q[<<"list", x>>] = Listed'[x]
           /\ \A x \in Resources : Q[<<"node", x>>] = Elements(table'[x].blocked)
      BY SpreadAt
    <3> HIDE DEF Q
    <3>12. \A x \in Maps : map'[x] = {}
      BY <3>7
    <3>13. \A p \in Places : Q[p] = {}
      BY <3>9, <3>10, <3>11, <3>12, SpreadAt
    <3>14. Partition(Q, {})
      BY <3>13 DEF Partition
    <3> QED
      BY <3>6, <3>14 DEF PlacesOK, Contents, Q
  <2> QED
    BY <1>10, <2>1, <2>2 DEF DestroyLoop
<1> QED
  BY <1>3, <1>4, <1>5, <1>6, <1>7, <1>8, <1>9, <1>10 DEF Call

\* What the lemmas on places are applied to.
LEMMA Given ==
    EInv => /\ SchedTypes /\ ListTypes /\ LocalTypes /\ PlacesOK /\ ListsOK /\ HoldsOK
            /\ MsgsOK /\ FreshOK /\ IInv /\ HandsOK
            /\ Unstranded(table) /\ table \in [Resources -> NodeRec]
            /\ map \in [Maps -> SUBSET Requests] /\ req \in [Requests -> RequestRec]
            /\ LiveOnes \subseteq Requests
            /\ Partition(Spread(map, Listed, table), LiveOnes)
BY DEF EInv, IInv, TypeOK, SchedTypes, PlacesInv, PlacesOK, Contents, LiveOnes

\* The loop thread lets go of the request in its hand.
LEMMA HandFreed ==
    ASSUME EInv, cur.req \in Requests, cur'.req = None,
           UNCHANGED <<pending, injected, work.pending, work.injected, pub.waiters>>
    PROVE  /\ cur.req \in LiveOnes
           /\ Partition(Spread(map, Listed', table), LiveOnes \ {cur.req})
<1>1. /\ cur.req \in Listed["hand"] /\ Listed'["hand"] = Listed["hand"] \ {cur.req}
      /\ "hand" \in Lists
  BY SetsAssumption DEF Listed, Lists
<1>2. \A x \in Lists : x # "hand" => Listed'[x] = Listed[x]
  BY DEF Listed, Lists
<1>3. Partition(Spread(map, Listed, table), LiveOnes)
  BY Given
<1>4. cur.req \in LiveOnes
  BY <1>1, <1>3, Apart
<1>5. Partition(Spread(map, Listed', table), LiveOnes \ {cur.req})
  BY <1>1, <1>2, <1>3, LeaveList
<1> QED
  BY <1>4, <1>5

\* A request is taken out of a map.
LEMMA MapLeft ==
    ASSUME EInv, NEW k \in Maps, NEW r \in map[k], Listed' = Listed
    PROVE  /\ r \in LiveOnes /\ Take(map, k, r)[k] = map[k] \ {r}
           /\ Partition(Spread(Take(map, k, r), Listed', table), LiveOnes \ {r})
<1>1. Partition(Spread(map, Listed, table), LiveOnes) /\ map \in [Maps -> SUBSET Requests]
  BY Given
<1> DEFINE n == Take(map, k, r)
<1>2. n[k] = map[k] \ {r} /\ \A x \in Maps : x # k => n[x] = map[x]
  BY <1>1 DEF Take
<1>3. r \in LiveOnes
  BY <1>1, Apart
<1> HIDE DEF n
<1>4. Partition(Spread(n, Listed, table), LiveOnes \ {r})
  BY <1>1, <1>2, LeaveMap
<1> QED
  BY <1>2, <1>3, <1>4 DEF n

\* A request that is in no place is put in a map.
LEMMA MapEntered ==
    ASSUME NEW m \in [Maps -> SUBSET Requests], NEW l, NEW t, NEW r \in LiveOnes,
           Partition(Spread(m, l, t), LiveOnes \ {r}), NEW k \in Maps
    PROVE  Partition(Spread(Put(m, k, r), l, t), LiveOnes)
<1> DEFINE n == Put(m, k, r)
<1>1. n[k] = m[k] \cup {r} /\ \A x \in Maps : x # k => n[x] = m[x]
  BY DEF Put
<1>2. r \notin LiveOnes \ {r} /\ (LiveOnes \ {r}) \cup {r} = LiveOnes
  OBVIOUS
<1> HIDE DEF n
<1>3. Partition(Spread(n, l, t), (LiveOnes \ {r}) \cup {r})
  BY <1>1, <1>2, EnterMap
<1> QED
  BY <1>2, <1>3 DEF n

\* A request that is in no place is started, or destroyed because it cannot be.
LEMMA StartPlaces ==
    ASSUME EInv, NEW r \in LiveOnes, NEW m \in [Maps -> SUBSET Requests], NEW n,
           Partition(Spread(m, Listed', table), LiveOnes \ {r}), Start(r, m, n)
    PROVE  PlacesOK'
<1>1. r \in Requests
  BY Given
<1>2. /\ SameWaiters
      /\ \/ LiveOnes' = LiveOnes /\ \E k \in {"rated", "queued"} : map' = Put(m, k, r)
         \/ LiveOnes' = LiveOnes \ {r} /\ map' = m
  BY <1>1, Given, StartEffect
<1>3. \A x : Spread(x, Listed', table') = Spread(x, Listed', table)
  BY <1>2, SpreadNodes DEF SameWaiters
<1>4. \A k \in Maps : Partition(Spread(Put(m, k, r), Listed', table), LiveOnes)
  BY MapEntered
<1>5. Partition(Spread(map', Listed', table), LiveOnes')
  BY <1>2, <1>4 DEF Maps
<1> QED
  BY <1>3, <1>5 DEF PlacesOK, Contents

\* The steps that handle cancellations and new requests.
LEMMA PendingPlaces ==
    ASSUME EInv, \/ Detach \/ CancelOne \/ CancelsDone \/ TakePending
                 \/ DropCancelled \/ Admit \/ Launch
    PROVE  PlacesOK'
<1>0. /\ SchedTypes /\ ListTypes /\ LocalTypes /\ PlacesOK /\ ListsOK /\ HoldsOK
      /\ IInv /\ HandsOK
      /\ Unstranded(table) /\ table \in [Resources -> NodeRec]
      /\ map \in [Maps -> SUBSET Requests] /\ req \in [Requests -> RequestRec]
      /\ Partition(Spread(map, Listed, table), LiveOnes)
  BY Given
<1>1. CASE Detach
  <2>1. work.pending = << >>
    BY <1>0, <1>1 DEF Detach, HoldsOK
  <2>2. /\ work'.pending = pending /\ work'.injected = work.injected
        /\ pending' = << >>
    BY <1>0, <1>1 DEF Detach, LocalTypes, WorkRec
  <2>3. /\ Listed'["pending"] = Listed["pending"] \ Listed["pending"]
        /\ Listed'["taken"] = Listed["taken"] \cup Listed["pending"]
        /\ "pending" \in Lists /\ "taken" \in Lists
    BY <2>1, <2>2 DEF Listed, Lists, Elements
  <2>4. \A x \in Lists : x # "pending" /\ x # "taken" => Listed'[x] = Listed[x]
    BY <1>1, <2>2 DEF Listed, Lists, Detach
  <2>5. Partition(Spread(map, Listed', table), LiveOnes)
    BY <1>0, <2>3, <2>4, ListToList
  <2>6. LiveOnes' = LiveOnes
    BY <1>1 DEF Detach, sched, LiveOnes, Live
  <2> QED
    BY <1>1, <2>5, <2>6 DEF PlacesOK, Contents, Detach, sched
<1>2. CASE CancelOne
  <2> DEFINE r == Head(work.cancelled)
             k == CancelledFrom(r)
  <2>1. CASE Crash
    <3>1. LiveOnes' = LiveOnes
      BY <2>1 DEF Crash, sched, LiveOnes, Live
    <3> QED
      BY <1>0, <2>1, <3>1, NobodyMoves DEF Crash, lists, sched, local, SameWaiters
  <2>2. CASE /\ r \in map[k] /\ Destroy(r, "cancelled", [num EXCEPT ![k] = @ - 1])
             /\ map' = Take(map, k, r)
             /\ work' = [work EXCEPT !.cancelled = Tail(@)]
             /\ UNCHANGED <<pc, keepRunning, lists, metrics, running, cur, pub, todo>>
    <3>1. k \in Maps /\ r \in Requests /\ "cancelled" \in Ended
      BY <1>0, <1>2, <2>2 DEF CancelledFrom, Home, Maps, Ended, CancelOne, LocalTypes, WorkRec
    <3>2. Listed' = Listed
      BY <1>0, <2>2 DEF Listed, LocalTypes, WorkRec, lists
    <3>3. Partition(Spread(map', Listed', table), LiveOnes \ {r})
      BY <2>2, <3>1, <3>2, MapLeft
    <3>4. SameWaiters /\ LiveOnes' = LiveOnes \ {r}
      BY <1>0, <2>2, <3>1, DestroyEffect
    <3>5. Spread(map', Listed', table') = Spread(map', Listed', table)
      BY <3>4, SpreadNodes DEF SameWaiters
    <3> QED
      BY <3>3, <3>4, <3>5 DEF PlacesOK, Contents
  <2> QED
    BY <1>2, <2>1, <2>2 DEF CancelOne
<1>3. CASE CancelsDone
  <2>1. LiveOnes' = LiveOnes
    BY <1>3 DEF CancelsDone, sched, LiveOnes, Live
  <2> QED
    BY <1>0, <1>3, <2>1, NobodyMoves DEF CancelsDone, lists, sched, local, SameWaiters
<1>4. CASE TakePending
  <2> DEFINE r == Head(work.pending)
  <2>1. /\ r \in Requests /\ Elements(Tail(work.pending)) = Elements(work.pending) \ {r}
        /\ r \in Elements(work.pending) /\ Distinct(work.pending)
    BY <1>0, <1>4, DistinctOf, ElementsOf DEF TakePending, LocalTypes, WorkRec, ListsOK
  <2>2. /\ work'.pending = Tail(work.pending) /\ work'.injected = work.injected
        /\ cur'.req = r /\ cur.req = None
    BY <1>0, <1>4 DEF TakePending, LocalTypes, WorkRec, NoCur, HoldsOK, Publishing
  <2> HIDE DEF r
  <2> DEFINE S == {r}
  <2>3. /\ Listed'["taken"] = Listed["taken"] \ S /\ S \in SUBSET Listed["taken"]
        /\ Listed'["hand"] = Listed["hand"] \cup S
        /\ "hand" \in Lists /\ "taken" \in Lists /\ "hand" # "taken"
    BY <2>1, <2>2, SetsAssumption DEF Listed, Lists
  <2> HIDE DEF S
  <2>4. \A x \in Lists : x # "hand" /\ x # "taken" => Listed'[x] = Listed[x]
    BY <1>4, <2>2 DEF Listed, Lists, TakePending, lists
  <2>5. Partition(Spread(map, Listed', table), LiveOnes)
    BY <1>0, <2>3, <2>4, ListToList
  <2>6. LiveOnes' = LiveOnes
    <3>1. [req[r] EXCEPT !.isPending = FALSE].life = req[r].life
      BY <1>0, <2>1 DEF RequestRec
    <3> QED
      BY <1>0, <1>4, <2>1, <3>1, SameLife DEF TakePending, r
  <2> QED
    BY <1>4, <2>5, <2>6 DEF PlacesOK, Contents, TakePending
<1>5. CASE DropCancelled
  <2>1. cur.req \in Requests /\ "cancelled" \in Ended /\ cur'.req = None
    BY <1>0, <1>5 DEF DropCancelled, HandsOK, Handling, Ended, NoCur
  <2>2. Partition(Spread(map, Listed', table), LiveOnes \ {cur.req})
    BY <1>5, <2>1, HandFreed DEF DropCancelled, lists
  <2>3. SameWaiters /\ LiveOnes' = LiveOnes \ {cur.req}
    BY <1>0, <1>5, <2>1, DestroyEffect DEF DropCancelled
  <2>4. Spread(map, Listed', table') = Spread(map, Listed', table)
    BY <2>3, SpreadNodes DEF SameWaiters
  <2> QED
    BY <1>5, <2>2, <2>3, <2>4 DEF PlacesOK, Contents, DropCancelled
<1>6. CASE Admit
  <2> DEFINE r == cur.req
             t == Pinned(r)
  <2>1. r \in Requests
    BY <1>0, <1>6 DEF Admit, HandsOK, Handling
  <2>2. /\ t \in [Resources -> NodeRec] /\ Unstranded(t)
        /\ \A id \in Resources : t[id].blocked = table[id].blocked
    BY <1>0, <2>1, DepsTypes, DepsWaiters, DepsBlocked DEF Pinned
  <2>3. LiveOnes' = LiveOnes
    <3>1. \A b \in BOOLEAN : [req[r] EXCEPT !.retained = b].life = req[r].life
      BY <1>0, <2>1 DEF RequestRec
    <3>2. (req[r].retained \/ Deps[r] # {}) \in BOOLEAN
      OBVIOUS
    <3> QED
      BY <1>0, <1>6, <2>1, <3>1, <3>2, SameLife DEF Admit
  <2>4. CASE Unmet(t, r) = {}
    <3>1. table' = t /\ cur' = cur
      BY <1>6, <2>4 DEF Admit
    <3>2. SameWaiters
      BY <2>2, <3>1 DEF SameWaiters
    <3> QED
      BY <1>0, <1>6, <2>3, <3>1, <3>2, NobodyMoves DEF Admit, lists
  <2>5. CASE Unmet(t, r) # {}
    <3>1. PICK id \in Unmet(t, r) : table' = [t EXCEPT ![id] = BlockNode(t[id], r)]
      BY <1>6, <2>5 DEF Admit
    <3>2. cur' = NoCur
      BY <1>6, <2>5 DEF Admit
    <3>3. id \in Resources
      BY <2>1, <3>1, RequestsAssumption DEF Unmet
    <3> HIDE DEF t
    <3>4. BlockNode(t[id], r).blocked = Append(table[id].blocked, r)
      BY <2>1, <2>2, <3>3, NodeBlocked DEF Unstranded
    <3>5. \A x \in Resources : table'[x].blocked =
              IF x = id THEN Append(table[id].blocked, r) ELSE table[x].blocked
      BY <2>2, <3>1, <3>3, <3>4
    <3>6. Elements(table'[id].blocked) = Elements(table[id].blocked) \cup {r}
      <4>1. table[id].blocked \in Seq(Requests)
        BY <1>0, <3>3 DEF NodeRec
      <4> DEFINE q == table[id].blocked
      <4> HIDE DEF q
      <4>a. q \in Seq(Requests)
        BY <4>1 DEF q
      <4>b. Elements(Append(q, r)) = {r} \cup Elements(q)
        BY <2>1, <4>a, ElementsAppend
      <4>2. Elements(Append(table[id].blocked, r)) = {r} \cup Elements(table[id].blocked)
        BY <4>b DEF q
      <4>3. table'[id].blocked = Append(table[id].blocked, r)
        BY <3>3, <3>5
      <4> QED
        BY <4>2, <4>3
    <3>7. \A x \in Resources : x # id => Elements(table'[x].blocked) = Elements(table[x].blocked)
      BY <3>5
    <3> DEFINE S == {r}
    <3>8. /\ Listed'["hand"] = Listed["hand"] \ S /\ S \in SUBSET Listed["hand"]
          /\ "hand" \in Lists
      BY <2>1, <3>2, SetsAssumption DEF Listed, Lists, NoCur
    <3>9. \A x \in Lists : x # "hand" => Listed'[x] = Listed[x]
      BY <1>6 DEF Listed, Lists, Admit, lists
    <3>a. Elements(table'[id].blocked) = Elements(table[id].blocked) \cup S
      BY <3>6
    <3> HIDE DEF S
    <3>10. Partition(Spread(map, Listed', table'), LiveOnes)
      <4>1. Partition(Spread(map, Listed, table), LiveOnes)
        BY <1>0
      <4> QED
        BY <4>1, <3>a, <3>3, <3>7, <3>8, <3>9, ListToNode
    <3> QED
      BY <1>6, <2>3, <3>10 DEF PlacesOK, Contents, Admit
  <2> QED
    BY <2>4, <2>5
<1>7. CASE Launch
  <2> DEFINE r == cur.req
  <2>1. r \in Requests /\ cur'.req = None
    BY <1>0, <1>7 DEF Launch, HandsOK, Handling, NoCur
  <2>2. r \in LiveOnes /\ Partition(Spread(map, Listed', table), LiveOnes \ {r})
    BY <1>7, <2>1, HandFreed DEF Launch, lists
  <2>3. CASE Start(r, map, num)
    BY <1>0, <2>2, <2>3, StartPlaces
  <2>4. CASE map' = Put(map, Home(r), r) /\ UNCHANGED <<req, table>>
    <3>1. Home(r) \in Maps
      BY DEF Home, Maps
    <3>2. Partition(Spread(map', Listed', table), LiveOnes)
      BY <1>0, <2>2, <2>4, <3>1, MapEntered
    <3>3. LiveOnes' = LiveOnes
      BY <2>4 DEF LiveOnes, Live
    <3> QED
      BY <2>4, <3>2, <3>3 DEF PlacesOK, Contents
  <2> QED
    BY <1>7, <2>3, <2>4 DEF Launch
<1> QED
  BY <1>1, <1>2, <1>3, <1>4, <1>5, <1>6, <1>7

\* A request goes to the rate limited map.
LEMMA LimitPlaces ==
    ASSUME EInv, NEW k \in Maps, NEW r \in map[k], NEW n, Limit(r, k, n),
           Listed' = Listed
    PROVE  PlacesOK'
<1>1. r \in LiveOnes /\ Partition(Spread(Take(map, k, r), Listed', table), LiveOnes \ {r})
  BY MapLeft
<1>2. Take(map, k, r) \in [Maps -> SUBSET Requests] /\ r \in Requests /\ SchedTypes
      /\ "rated" \in Maps /\ req[r] \in RequestRec
  BY <1>1, Given DEF Take, Maps
<1>3. map' = Put(Take(map, k, r), "rated", r) /\ table' = table
      /\ \E wait : req' = [req EXCEPT ![r].due = wait]
  BY DEF Limit
<1>4. Partition(Spread(map', Listed', table'), LiveOnes)
  BY <1>1, <1>2, <1>3, MapEntered
<1>5. \A wait : [req[r] EXCEPT !.due = wait].life = req[r].life
  BY <1>2 DEF RequestRec
<1>6. LiveOnes' = LiveOnes
  BY <1>2, <1>3, <1>5, SameLife
<1> QED
  BY <1>4, <1>6 DEF PlacesOK, Contents

\* The steps that start requests from the maps, and the transfers.
LEMMA QueuePlaces ==
    ASSUME EInv, \/ EnterRated \/ MoveRated \/ MergeRated
                 \/ \E k \in {"refresh", "inactive"} : MoveWaiting(k)
                 \/ \E k \in {"refresh", "inactive"}, x \in Points : LeaveWaiting(k, x)
                 \/ PerformEnd \/ \E r \in Requests : TransferDone(r)
    PROVE  PlacesOK'
<1>0. /\ SchedTypes /\ PlacesOK /\ HoldsOK
      /\ map \in [Maps -> SUBSET Requests] /\ LiveOnes \subseteq Requests
      /\ Partition(Spread(map, Listed, table), LiveOnes)
  BY Given
<1>1. CASE EnterRated
  <2> DEFINE S == map["rated"]
  <2>1. /\ map["root"] = {} /\ "rated" \in Maps /\ "root" \in Maps
        /\ map' = [map EXCEPT !["root"] = map["rated"], !["rated"] = {}]
    BY <1>0, <1>1 DEF EnterRated, HoldsOK, Maps
  <2>2. /\ map'["rated"] = map["rated"] \ S /\ map'["root"] = map["root"] \cup S
        /\ \A x \in Maps : x # "rated" /\ x # "root" => map'[x] = map[x]
    BY <1>0, <2>1
  <2>3. S \in SUBSET map["rated"] /\ "rated" # "root"
    OBVIOUS
  <2> HIDE DEF S
  <2> DEFINE n == map'
  <2>a. Partition(Spread(map, Listed, table), LiveOnes) /\ "rated" \in Maps /\ "root" \in Maps
    BY <1>0, <2>1
  <2> HIDE DEF n
  <2>4. Partition(Spread(n, Listed, table), LiveOnes)
    BY <2>a, <2>2, <2>3, MapToMap DEF n
  <2>5. LiveOnes' = LiveOnes /\ Listed' = Listed /\ table' = table
    BY <1>1 DEF EnterRated, LiveOnes, Live, Listed, lists, local
  <2> QED
    BY <2>4, <2>5 DEF PlacesOK, Contents, n
<1>2. CASE MergeRated
  <2> DEFINE S == map["root"]
  <2>1. /\ "rated" \in Maps /\ "root" \in Maps
        /\ map' = [map EXCEPT !["rated"] = @ \cup map["root"], !["root"] = {}]
    BY <1>2 DEF MergeRated, Maps
  <2>2. /\ map'["root"] = map["root"] \ S /\ map'["rated"] = map["rated"] \cup S
        /\ \A x \in Maps : x # "root" /\ x # "rated" => map'[x] = map[x]
    BY <1>0, <2>1
  <2>3. S \in SUBSET map["root"] /\ "root" # "rated"
    OBVIOUS
  <2> HIDE DEF S
  <2> DEFINE n == map'
  <2>a. Partition(Spread(map, Listed, table), LiveOnes) /\ "rated" \in Maps /\ "root" \in Maps
    BY <1>0, <2>1
  <2> HIDE DEF n
  <2>4. Partition(Spread(n, Listed, table), LiveOnes)
    BY <2>a, <2>2, <2>3, MapToMap DEF n
  <2>5. LiveOnes' = LiveOnes /\ Listed' = Listed /\ table' = table
    BY <1>2 DEF MergeRated, LiveOnes, Live, Listed, lists, local
  <2> QED
    BY <2>4, <2>5 DEF PlacesOK, Contents, n
<1>3. ASSUME NEW k \in Maps, NEW r \in Firsts(k), NEW n, Listed' = Listed,
             Limit(r, k, n) \/ Start(r, Take(map, k, r), n)
      PROVE  PlacesOK'
  <2>1. r \in map[k]
    BY DEF Firsts
  <2>2. /\ r \in LiveOnes
        /\ Partition(Spread(Take(map, k, r), Listed', table), LiveOnes \ {r})
    BY <1>3, <2>1, MapLeft
  <2>3. Take(map, k, r) \in [Maps -> SUBSET Requests]
    BY <1>0 DEF Take, Maps
  <2>4. CASE Limit(r, k, n)
    BY <1>3, <2>1, <2>4, LimitPlaces
  <2>5. CASE Start(r, Take(map, k, r), n)
    BY <2>2, <2>3, <2>5, StartPlaces
  <2> QED
    BY <1>3, <2>4, <2>5
<1>4. CASE MoveRated
  <2>1. Listed' = Listed /\ "root" \in Maps
    BY <1>4 DEF MoveRated, Listed, lists, local, Maps
  <2>2. \E r \in Firsts("root") :
            Limit(r, "root", num) \/ Start(r, Take(map, "root", r), num)
    BY <1>4 DEF MoveRated
  <2> QED
    BY <1>3, <2>1, <2>2
<1>5. CASE \E k \in {"refresh", "inactive"} : MoveWaiting(k)
  <2>1. PICK k \in {"refresh", "inactive"} : MoveWaiting(k)
    BY <1>5
  <2>2. Listed' = Listed /\ k \in Maps
    BY <2>1 DEF MoveWaiting, Listed, lists, local, Maps
  <2>3. \E r \in Firsts(k) : \E n : Limit(r, k, n) \/ Start(r, Take(map, k, r), n)
    BY <2>1 DEF MoveWaiting
  <2> QED
    BY <1>3, <2>2, <2>3
<1>6. CASE \/ \E k \in {"refresh", "inactive"}, x \in Points : LeaveWaiting(k, x)
           \/ PerformEnd \/ \E r \in Requests : TransferDone(r)
  <2>1. UNCHANGED <<req, map, table, work, cur, pub, pending, injected>>
    BY <1>6 DEF LeaveWaiting, PerformEnd, TransferDone, lists, sched, local
  <2>2. LiveOnes' = LiveOnes
    BY <2>1 DEF LiveOnes, Live
  <2> QED
    BY <1>0, <2>1, <2>2, NobodyMoves DEF SameWaiters
<1> QED
  BY <1>1, <1>2, <1>4, <1>5, <1>6

\* The hand-over from a finished transfer to its next place.
LEMMA RequeuePlaces ==
    ASSUME EInv, cur.req \in Requests, cur'.req = None,
           UNCHANGED <<pending, injected, work, pub, table>>,
           NEW k \in Maps, map' = Put(map, k, cur.req),
           NEW q, req' = [req EXCEPT ![cur.req] = q], q.life = req[cur.req].life
    PROVE  PlacesOK'
<1>1. /\ cur.req \in LiveOnes
      /\ Partition(Spread(map, Listed', table), LiveOnes \ {cur.req})
  BY HandFreed
<1>2. map \in [Maps -> SUBSET Requests] /\ SchedTypes
  BY Given
<1>3. Partition(Spread(map', Listed', table), LiveOnes)
  BY <1>1, <1>2, MapEntered
<1>4. LiveOnes' = LiveOnes
  BY <1>2, SameLife
<1> QED
  BY <1>3, <1>4 DEF PlacesOK, Contents

\* The steps that handle completed transfers and injected requests.
LEMMA CompletionPlaces ==
    ASSUME EInv, Completions
    PROVE  PlacesOK'
<1>0. /\ SchedTypes /\ ListTypes /\ LocalTypes /\ PlacesOK /\ ListsOK /\ HoldsOK
      /\ MsgsOK /\ IInv /\ HandsOK /\ LiveOnes \subseteq Requests
      /\ Unstranded(table) /\ req \in [Requests -> RequestRec]
      /\ map \in [Maps -> SUBSET Requests]
      /\ Partition(Spread(map, Listed, table), LiveOnes)
  BY Given
<1>1. CASE CompleteOne
  <2> DEFINE r == Head(msgs).req
             S == {r}
             l1 == [x \in Lists |-> IF x = "hand" THEN S ELSE Listed[x]]
  <2>1. r \in map["queued"]
    <3>1. 1 \in DOMAIN msgs /\ Head(msgs) = msgs[1]
      BY <1>0, <1>1 DEF CompleteOne, SchedTypes
    <3> QED
      BY <1>0, <3>1 DEF MsgsOK
  <2>2. r \in Requests /\ "queued" \in Maps /\ r # None
    BY <1>0, <2>1, SetsAssumption DEF Maps
  <2>3. cur.req = None /\ pub.waiters = << >>
    BY <1>0, <1>1 DEF CompleteOne, HoldsOK, Publishing
  <2>4. /\ map'["queued"] = map["queued"] \ S
        /\ \A x \in Maps : x # "queued" => map'[x] = map[x]
    BY <1>0, <1>1, <2>2 DEF CompleteOne, Take
  <2>5. /\ S \in SUBSET map["queued"] /\ "hand" \in Lists /\ l1["hand"] = Listed["hand"] \cup S
        /\ \A x \in Lists : x # "hand" => l1[x] = Listed[x]
    BY <2>1, <2>3 DEF Lists, Listed
  <2>6. cur'.req = r
    BY <1>1 DEF CompleteOne
  <2>7. /\ Listed'["hand"] = S
        /\ \A x \in Lists : x # "hand" /\ x # "woken" => Listed'[x] = Listed[x]
        /\ Listed'["woken"] = Elements(pub'.waiters)
    BY <1>1, <2>2, <2>6 DEF Listed, Lists, CompleteOne, lists
  <2>8. LiveOnes' = LiveOnes
    BY <1>1 DEF CompleteOne, LiveOnes, Live
  <2> DEFINE l2 == Listed'
  <2>9. /\ l1["woken"] = {} /\ l2["woken"] = Elements(pub'.waiters)
        /\ \A x \in Lists : x # "woken" => l2[x] = l1[x]
    <3>1. Listed["woken"] = {} /\ "woken" \in Lists
      BY <2>3 DEF Listed, Lists, Elements
    <3> QED
      BY <2>5, <2>7, <3>1
  <2> HIDE DEF S, l1
  <2>10. Partition(Spread(map', l1, table), LiveOnes)
    BY <1>0, <2>2, <2>4, <2>5, MapToList
  <2> HIDE DEF l2
  <2>11. CASE \E id, ok : BeginPublish(id, ok, FALSE, "finish") /\ id \in Resources
                          /\ ok \in BOOLEAN
    <3>1. PICK id \in Resources, ok \in BOOLEAN : BeginPublish(id, ok, FALSE, "finish")
      BY <2>11
    <3>2. Partition(Spread(map', l2, table'), LiveOnes)
      BY <1>0, <2>9, <2>10, <3>1, Woken
    <3> QED
      BY <2>8, <3>2 DEF PlacesOK, Contents, l2
  <2>12. CASE UNCHANGED <<table, pub>>
    <3>1. \A x \in Lists : l2[x] = l1[x]
      <4>1. l2["woken"] = {}
        BY <2>3, <2>9, <2>12 DEF Elements
      <4> QED
        BY <2>9, <4>1
    <3>2. Spread(map', l2, table) = Spread(map', l1, table)
      BY <3>1 DEF Spread, Places
    <3> QED
      BY <2>8, <2>10, <2>12, <3>2 DEF PlacesOK, Contents, l2
  <2>13. Signals(r, Head(msgs).result, 0) \in BOOLEAN
    BY DEF Signals
  <2>14. Publishes[r] # None => Publishes[r] \in Resources
    BY <2>2, RequestsAssumption
  <2>15. \A res, ret : Signals(r, res, ret) => Publishes[r] # None
    BY DEF Signals
  <2> QED
    BY <1>1, <2>11, <2>12, <2>14, <2>15 DEF CompleteOne
<1>2. CASE CompletionsDone
  <2>1. /\ work.injected = << >> /\ work'.injected = injected
        /\ work'.pending = work.pending /\ injected' = << >>
    BY <1>0, <1>2 DEF CompletionsDone, HoldsOK, Publishing, LocalTypes, WorkRec
  <2> DEFINE S == Elements(injected)
  <2>2. /\ Listed'["injected"] = Listed["injected"] \ S
        /\ Listed'["detached"] = Listed["detached"] \cup S
        /\ S \in SUBSET Listed["injected"]
        /\ "injected" \in Lists /\ "detached" \in Lists /\ "injected" # "detached"
    BY <2>1 DEF Listed, Lists, Elements
  <2>3. \A x \in Lists : x # "injected" /\ x # "detached" => Listed'[x] = Listed[x]
    BY <1>2, <2>1 DEF Listed, Lists, CompletionsDone
  <2> HIDE DEF S
  <2>4. Partition(Spread(map, Listed', table), LiveOnes)
    BY <1>0, <2>2, <2>3, ListToList
  <2>5. LiveOnes' = LiveOnes
    BY <1>2 DEF CompletionsDone, sched, LiveOnes, Live
  <2> QED
    BY <1>2, <2>4, <2>5 DEF PlacesOK, Contents, CompletionsDone, sched
<1>3. pc = "finish" => cur.req \in Requests /\ req[cur.req] \in RequestRec
  BY <1>0 DEF HandsOK, Handling
<1>4. \A next : Finishes(next) => /\ pc = "finish" /\ cur'.req = None
                                  /\ UNCHANGED <<pending, injected, work, pub>>
  BY DEF Finishes, NoCur, lists
<1>5. CASE Finish429
  <2> DEFINE r == cur.req
  <2>1. /\ r \in Requests /\ cur'.req = None /\ req[r] \in RequestRec
        /\ UNCHANGED <<pending, injected, work, pub, table>>
        /\ map' = Put(map, "rated", r) /\ "rated" \in Maps
    BY <1>3, <1>4, <1>5 DEF Finish429, Maps
  <2>2. PICK wait : req' = [req EXCEPT ![r].due = wait]
    BY <1>5 DEF Finish429
  <2> DEFINE q == [req[r] EXCEPT !.due = wait]
  <2>3. q.life = req[r].life /\ req' = [req EXCEPT ![r] = q]
    BY <2>1, <2>2 DEF RequestRec
  <2> HIDE DEF q
  <2> QED
    BY <2>1, <2>3, RequeuePlaces
<1>6. ASSUME NEW q \in RequestRec, pc = "finish", cur'.req = None,
             UNCHANGED <<pending, injected, work, pub>>, Requeue(cur.req, q),
             q.life = req[cur.req].life
      PROVE  PlacesOK'
  <2> DEFINE p == [q EXCEPT !.handle = FALSE]
             k == Home(cur.req)
  <2>1. p.life = req[cur.req].life
    BY <1>6 DEF RequestRec
  <2>2. k \in Maps
    BY DEF Home, Maps
  <2>3. req' = [req EXCEPT ![cur.req] = p] /\ map' = Put(map, k, cur.req) /\ table' = table
    BY <1>6 DEF Requeue
  <2> HIDE DEF p, k
  <2> QED
    BY <1>3, <1>6, <2>1, <2>2, <2>3, RequeuePlaces
<1>7. CASE FinishDelay
  <2> DEFINE d == IF cur.ret > MaxDelay THEN MaxDelay ELSE cur.ret
             q == [req[cur.req] EXCEPT !.due = d]
  <2>1. pc = "finish" /\ Requeue(cur.req, q)
    BY <1>7 DEF FinishDelay, Finishes
  <2>2. d \in Int
    BY <1>0, BoundsAssumption DEF LocalTypes, CurRec
  <2> HIDE DEF d
  <2>3. q \in RequestRec
    BY <1>3, <2>1, <2>2, RequestFields
  <2>5. q.life = req[cur.req].life
    BY <1>3, <2>1 DEF RequestRec
  <2> HIDE DEF q
  <2>4. cur'.req = None /\ UNCHANGED <<pending, injected, work, pub>>
    BY <1>4, <1>7 DEF FinishDelay
  <2> QED
    BY <1>6, <2>1, <2>3, <2>4, <2>5
<1>8. CASE FinishRetry
  <2>1. CASE Crash
    <3>1. LiveOnes' = LiveOnes
      BY <2>1 DEF Crash, sched, LiveOnes, Live
    <3> QED
      BY <1>0, <2>1, <3>1, NobodyMoves DEF Crash, lists, sched, local, SameWaiters
  <2>2. CASE Finishes("completions") /\ RetryLater(cur.req)
    <3> DEFINE r == cur.req
               c == CountRetry(r)
    <3>1. PICK wait \in 0..MaxDelay :
              Requeue(r, [req[r] EXCEPT !.due = IF r \in OwnRetry THEN @ ELSE wait,
                                        !.retries = c])
      BY <2>2 DEF RetryLater
    <3> DEFINE d == IF r \in OwnRetry THEN req[r].due ELSE wait
               q == [req[r] EXCEPT !.due = d, !.retries = c]
    <3>2. pc = "finish" /\ cur'.req = None /\ UNCHANGED <<pending, injected, work, pub>>
      BY <1>4, <2>2
    <3>3. d \in Int /\ c \in Nat
      BY <1>3, <3>2, BoundsAssumption DEF CountRetry, RequestRec
    <3>4. Requeue(r, q)
      BY <3>1
    <3> HIDE DEF c, d
    <3>5. q \in RequestRec
      BY <1>3, <3>2, <3>3, RequestFields
    <3>6. q.life = req[r].life
      BY <1>3, <3>2 DEF RequestRec
    <3> HIDE DEF q
    <3> QED
      BY <1>6, <3>2, <3>4, <3>5, <3>6
  <2> QED
    BY <1>8, <2>1, <2>2 DEF FinishRetry
<1>9. CASE FinishFinal
  <2> DEFINE r == cur.req
  <2>0. pc = "finish" /\ cur'.req = None /\ UNCHANGED <<pending, injected, work, pub>>
    BY <1>4, <1>9 DEF FinishFinal
  <2>1. CASE r \in Refreshing
    <3> DEFINE zero == 0
               q == [req[r] EXCEPT !.retries = zero]
    <3>1. Requeue(r, q) /\ zero \in Nat
      BY <1>9, <2>1 DEF FinishFinal
    <3> HIDE DEF zero
    <3>2. q \in RequestRec
      BY <1>3, <2>0, <3>1, RequestFields
    <3>3. q.life = req[r].life
      BY <1>3, <2>0 DEF RequestRec
    <3> HIDE DEF q
    <3> QED
      BY <1>6, <2>0, <3>1, <3>2, <3>3
  <2>2. CASE r \notin Refreshing
    <3> DEFINE how == IF cur.result = "ok" THEN "completed" ELSE "failed"
    <3>1. Destroy(r, how, num) /\ map' = map /\ how \in Ended
      BY <1>9, <2>2 DEF FinishFinal, Ended
    <3> HIDE DEF how
    <3>2. SameWaiters /\ LiveOnes' = LiveOnes \ {r}
      BY <1>0, <1>3, <2>0, <3>1, DestroyEffect
    <3>3. Partition(Spread(map, Listed', table), LiveOnes \ {r})
      BY <1>3, <2>0, HandFreed
    <3>4. Spread(map, Listed', table') = Spread(map, Listed', table)
      BY <3>2, SpreadNodes DEF SameWaiters
    <3> QED
      BY <3>1, <3>2, <3>3, <3>4 DEF PlacesOK, Contents
  <2> QED
    BY <2>1, <2>2
<1>10. CASE InjectedOne
  <2> DEFINE r == Head(work.injected)
             S == {r}
             l1 == [x \in Lists |-> IF x = "detached" THEN Listed[x] \ S ELSE Listed[x]]
  <2>1. /\ r \in Requests /\ Elements(Tail(work.injected)) = Elements(work.injected) \ S
        /\ r \in Elements(work.injected) /\ Distinct(work.injected)
    BY <1>0, <1>10, DistinctOf, ElementsOf DEF InjectedOne, LocalTypes, WorkRec, ListsOK
  <2>2. /\ work'.injected = Tail(work.injected) /\ work'.pending = work.pending
        /\ pub.waiters = << >>
    BY <1>0, <1>10 DEF InjectedOne, LocalTypes, WorkRec, HoldsOK
  <2>3. /\ r \in Listed["detached"] /\ "detached" \in Lists
        /\ l1["detached"] = Listed["detached"] \ {r}
        /\ \A x \in Lists : x # "detached" => l1[x] = Listed[x]
    BY <2>1 DEF Listed, Lists
  <2>4. /\ Listed'["detached"] = Listed["detached"] \ S
        /\ \A x \in Lists : x # "detached" /\ x # "woken" => Listed'[x] = Listed[x]
        /\ Listed'["woken"] = Elements(pub'.waiters)
    BY <1>10, <2>1, <2>2 DEF Listed, Lists, InjectedOne, lists
  <2>5. LiveOnes' = LiveOnes \ {r}
    <3>1. [req[r] EXCEPT !.life = "completed"].life # "live"
      BY <1>0, <2>1 DEF RequestRec
    <3> QED
      BY <1>0, <1>10, <2>1, <3>1, OneLife DEF InjectedOne
  <2> DEFINE l2 == Listed'
  <2>6. /\ l1["woken"] = {} /\ l2["woken"] = Elements(pub'.waiters)
        /\ \A x \in Lists : x # "woken" => l2[x] = l1[x]
    <3>1. Listed["woken"] = {} /\ "woken" \in Lists
      BY <2>2 DEF Listed, Lists, Elements
    <3> QED
      BY <2>3, <2>4, <3>1
  <2> HIDE DEF S, l1
  <2>7. Partition(Spread(map, l1, table), LiveOnes \ {r})
    BY <1>0, <2>3, LeaveList
  <2> HIDE DEF l2
  <2>8. CASE BeginPublish(Publishes[r], TRUE, FALSE, "injected") /\ Publishes[r] # None
    <3>1. Publishes[r] \in Resources
      BY <2>1, <2>8, RequestsAssumption
    <3>2. Partition(Spread(map, l2, table'), LiveOnes \ {r})
      BY <1>0, <2>6, <2>7, <2>8, <3>1, Woken
    <3> QED
      BY <1>10, <2>5, <3>2 DEF PlacesOK, Contents, l2, InjectedOne
  <2>9. CASE UNCHANGED <<table, pub>>
    <3>1. \A x \in Lists : l2[x] = l1[x]
      <4>1. l2["woken"] = {}
        BY <2>2, <2>6, <2>9 DEF Elements
      <4> QED
        BY <2>6, <4>1
    <3>2. Spread(map, l2, table) = Spread(map, l1, table)
      BY <3>1 DEF Spread, Places
    <3> QED
      BY <1>10, <2>5, <2>7, <2>9, <3>2 DEF PlacesOK, Contents, l2, InjectedOne
  <2> QED
    BY <1>10, <2>8, <2>9 DEF InjectedOne
<1>11. CASE InjectedDone
  <2>1. LiveOnes' = LiveOnes
    BY <1>11 DEF InjectedDone, sched, LiveOnes, Live
  <2> QED
    BY <1>0, <1>11, <2>1, NobodyMoves DEF InjectedDone, lists, sched, local, SameWaiters
<1> QED
  BY <1>1, <1>2, <1>5, <1>7, <1>8, <1>9, <1>10, <1>11 DEF Completions

\* The steps that apply resource operations and wake waiters, and time.
LEMMA ResourcePlaces ==
    ASSUME EInv, ResourceOps \/ Tick
    PROVE  PlacesOK'
<1>0. /\ SchedTypes /\ ListTypes /\ LocalTypes /\ PlacesOK /\ ListsOK /\ HoldsOK
      /\ IInv /\ HandsOK /\ LiveOnes \subseteq Requests
      /\ Unstranded(table) /\ table \in [Resources -> NodeRec]
      /\ req \in [Requests -> RequestRec]
      /\ Partition(Spread(map, Listed, table), LiveOnes)
  BY Given
<1>1. ASSUME UNCHANGED <<req, map, table, pending, injected, cur>>,
             work'.pending = work.pending, work'.injected = work.injected,
             pub'.waiters = pub.waiters
      PROVE  PlacesOK'
  <2>1. LiveOnes' = LiveOnes
    BY <1>1 DEF LiveOnes, Live
  <2> QED
    BY <1>0, <1>1, <2>1, NobodyMoves DEF SameWaiters
<1>2. CASE Drain \/ OpsDone
  <2>1. work'.pending = work.pending /\ work'.injected = work.injected
    BY <1>0, <1>2 DEF Drain, OpsDone, local, LocalTypes, WorkRec
  <2> QED
    BY <1>1, <1>2, <2>1 DEF Drain, OpsDone, lists, sched, local
<1>3. CASE RequeueRead
  <2>1. pub'.waiters = pub.waiters
    BY <1>0, <1>3 DEF RequeueRead, LocalTypes, PubRec
  <2> QED
    BY <1>1, <1>3, <2>1 DEF RequeueRead, lists, sched
<1>4. CASE PublishEnd
  <2>1. pub'.waiters = pub.waiters
    BY <1>0, <1>4 DEF PublishEnd, NoPub
  <2> QED
    BY <1>1, <1>4, <2>1 DEF PublishEnd, lists, sched
<1>5. CASE ApplyOp
  <2> DEFINE c == Head(work.ops)
  <2>1. c \in OpRec /\ c \in Elements(work.ops)
    <3>1. work.ops \in Seq(OpRec) /\ work.ops # << >>
      BY <1>0, <1>5 DEF LocalTypes, WorkRec, ApplyOp
    <3> QED
      BY <3>1, ElementsOf
  <2>2. c.on \in Resources /\ c.ok \in BOOLEAN /\ (c.op = "register_async") \in BOOLEAN
    BY <2>1 DEF OpRec
  <2>3. work'.pending = work.pending /\ work'.injected = work.injected
    BY <1>0, <1>5 DEF ApplyOp, LocalTypes, WorkRec
  <2>4. LiveOnes' = LiveOnes
    BY <1>5 DEF ApplyOp, LiveOnes, Live
  <2>5. CASE c.op = "release_async"
    <3>1. table[c.on].held > 0
      <4>1. pc # "destroyed" /\ c \in Due /\ c.op \in GivesBack
        BY <1>5, <2>1, <2>5 DEF ApplyOp, Due, GivesBack
      <4> QED
        BY <4>1 DEF EInv, RefsInv, OwedOK
    <3>2. ReleaseNode(table[c.on]).blocked = table[c.on].blocked
      BY <2>2, <3>1, ReleaseEffect
    <3>3. table' = [table EXCEPT ![c.on] = ReleaseNode(table[c.on])] /\ pub' = pub
      BY <1>5, <2>5 DEF ApplyOp
    <3>4. SameWaiters
      BY <1>0, <2>2, <3>2, <3>3 DEF SameWaiters
    <3> QED
      BY <1>0, <1>5, <2>3, <2>4, <3>3, <3>4, NobodyMoves DEF ApplyOp, lists
  <2>6. CASE c.op # "release_async"
    <3>1. BeginPublish(c.on, c.ok, c.op = "register_async", "ops")
      BY <1>5, <2>6 DEF ApplyOp
    <3>2. Listed["woken"] = {}
      <4>1. pub.waiters = << >>
        BY <1>0, <1>5 DEF ApplyOp, HoldsOK
      <4> QED
        BY <4>1, ListedAt DEF Elements
    <3>3. /\ Listed'["woken"] = Elements(pub'.waiters)
          /\ \A x \in Lists : x # "woken" => Listed'[x] = Listed[x]
      BY <1>5, <2>3 DEF Listed, Lists, ApplyOp, lists
    <3>4. Partition(Spread(map, Listed', table'), LiveOnes)
      BY <1>0, <2>2, <3>1, <3>2, <3>3, Woken
    <3> QED
      BY <1>5, <2>4, <3>4 DEF PlacesOK, Contents, ApplyOp
  <2> QED
    BY <2>5, <2>6
<1>6. CASE RequeueWrite
  <2> DEFINE r == Waiter
             S == {r}
  <2>1. pub.waiters # << >> /\ pub.waiters \in Seq(Requests) /\ Distinct(pub.waiters)
    BY <1>0, <1>6 DEF RequeueWrite, HandsOK, LocalTypes, PubRec, ListsOK
  <2>2. /\ r \in Requests /\ Elements(Tail(pub.waiters)) = Elements(pub.waiters) \ S
        /\ r \in Elements(pub.waiters)
    BY <2>1, DistinctOf, ElementsOf DEF Waiter
  <2>3. /\ pending' = <<r>> \o pending /\ pub'.waiters = Tail(pub.waiters)
    BY <1>0, <1>6 DEF RequeueWrite, HoldsOK, LocalTypes, PubRec
  <2>4. Elements(pending') = {r} \cup Elements(pending)
    BY <1>0, <2>2, <2>3, ElementsOf DEF ListTypes
  <2>5. /\ Listed'["woken"] = Listed["woken"] \ S /\ S \in SUBSET Listed["woken"]
        /\ Listed'["pending"] = Listed["pending"] \cup S
        /\ "woken" \in Lists /\ "pending" \in Lists /\ "woken" # "pending"
    BY <2>2, <2>3, <2>4 DEF Listed, Lists
  <2>6. \A x \in Lists : x # "woken" /\ x # "pending" => Listed'[x] = Listed[x]
    BY <1>6 DEF Listed, Lists, RequeueWrite
  <2> HIDE DEF S
  <2>7. Partition(Spread(map, Listed', table), LiveOnes)
    BY <1>0, <2>5, <2>6, ListToList
  <2>8. LiveOnes' = LiveOnes
    BY <1>6 DEF RequeueWrite, sched, LiveOnes, Live
  <2> QED
    BY <1>6, <2>7, <2>8 DEF PlacesOK, Contents, RequeueWrite, sched
<1>7. CASE FailWaiter
  <2>1. CASE Crash
    <3>1. LiveOnes' = LiveOnes
      BY <2>1 DEF Crash, sched, LiveOnes, Live
    <3> QED
      BY <1>0, <2>1, <3>1, NobodyMoves DEF Crash, lists, sched, local, SameWaiters
  <2>2. CASE Destroy(Waiter, "failed", num) /\ pub' = [pub EXCEPT !.waiters = Tail(@)]
             /\ UNCHANGED <<pc, keepRunning, lists, map, metrics, running, work, cur, todo>>
    <3> DEFINE r == Waiter
    <3>1. /\ r \in Requests /\ Elements(Tail(pub.waiters)) = Elements(pub.waiters) \ {r}
          /\ r \in Elements(pub.waiters) /\ "failed" \in Ended
      BY <1>0, <1>7, DistinctOf, ElementsOf
      DEF FailWaiter, Waiter, LocalTypes, PubRec, ListsOK, Ended
    <3>2. pub'.waiters = Tail(pub.waiters)
      BY <1>0, <2>2 DEF LocalTypes, PubRec
    <3>3. /\ Listed'["woken"] = Listed["woken"] \ {r} /\ r \in Listed["woken"]
          /\ "woken" \in Lists
      BY <3>1, <3>2 DEF Listed, Lists
    <3>4. \A x \in Lists : x # "woken" => Listed'[x] = Listed[x]
      BY <2>2 DEF Listed, Lists, lists
    <3>5. SameWaiters /\ LiveOnes' = LiveOnes \ {r}
      BY <1>0, <2>2, <3>1, DestroyEffect
    <3>6. Partition(Spread(map, Listed', table), LiveOnes \ {r})
      BY <1>0, <3>3, <3>4, LeaveList
    <3>7. Spread(map, Listed', table') = Spread(map, Listed', table)
      BY <3>5, SpreadNodes DEF SameWaiters
    <3> QED
      BY <2>2, <3>5, <3>6, <3>7 DEF PlacesOK, Contents
  <2> QED
    BY <1>7, <2>1, <2>2 DEF FailWaiter
<1>8. CASE Tick
  <2>1. \A r \in Requests : Later(req[r]).life = req[r].life
    BY <1>0 DEF Later, RequestRec
  <2>2. LiveOnes' = LiveOnes
    BY <1>8, <2>1 DEF Tick, LiveOnes, Live
  <2> QED
    BY <1>0, <1>8, <2>2, NobodyMoves DEF Tick, lists, local, SameWaiters
<1> QED
  BY <1>2, <1>3, <1>4, <1>5, <1>6, <1>7, <1>8 DEF ResourceOps

\* Every step keeps each live request in one place.
LEMMA NextPlaces ==
    ASSUME EInv, Disciplined, [Next]_vars
    PROVE  PlacesOK'
<1>1. CASE UNCHANGED vars \/ Top \/ OnLoop \/ ExitTest \/ Wait
  <2>1. UNCHANGED <<req, map, table, pending, injected, work, pub, cur>>
    BY <1>1 DEF vars, lists, sched, local, Top, OnLoop, ExitTest, Wait
  <2>2. LiveOnes' = LiveOnes
    BY <2>1 DEF LiveOnes, Live
  <2> QED
    BY <2>1, <2>2, NobodyMoves, Given DEF SameWaiters
<1>2. CASE Scheduler \/ PerformEnd
  <2>1. {"inactive", "perform"} \subseteq Points /\ {"refresh", "inactive"} = {"refresh"} \cup {"inactive"}
    BY DEF Points
  <2> QED
    BY <1>2, <2>1, PendingPlaces, QueuePlaces DEF Scheduler
<1>3. CASE \E r \in Requests : TransferDone(r)
  BY <1>3, QueuePlaces
<1>4. CASE Completions
  BY <1>4, CompletionPlaces
<1>5. CASE ResourceOps \/ Tick
  BY <1>5, ResourcePlaces
<1>6. CASE \E c \in Calls : Call(c)
  BY <1>6, CallPlaces
<1> QED
  BY <1>1, <1>2, <1>3, <1>4, <1>5, <1>6 DEF Next, LoopStep, Over

----------------------------------------------------------------------------
(* What a step may do to the nodes and to those who hold them. *)

\* Nobody takes or drops the references of a request, and it is new until it is
\* submitted or injected.
Submitted(s) == \E c \in todo : c \notin todo' /\ c.op \in Submits /\ c.on = s
Quiet == \A s \in Requests :
    /\ req'[s].retained = req[s].retained
    /\ req[s].retained => req'[s].life = req[s].life
    /\ req'[s].life = "new" => req[s].life = "new"
    /\ req[s].life = "new" => req'[s].life = "new" \/ Submitted(s)
\* One operation on one node, and what the discipline says of it.
GivenBack(id) == \E c \in Due : c \notin Due' /\ c.on = id
                                /\ c.op \in {"release", "release_async"}
NodeStep(id) == \E n : /\ table' = [table EXCEPT ![id] = n]
    /\ \/ n = ReleaseNode(table[id]) /\ GivenBack(id)
       \/ n = AddRefNode(table[id])
       \/ n = AutoNode(table[id])
          /\ \E c \in todo : c \notin todo' /\ c.op = "autorelease" /\ c.on = id
       \/ \E ok, own \in BOOLEAN : /\ n = PublishNode(table[id], ok, own)
                                   /\ own => Users(id) = {}
\* A request dies and drops its references.
Dies(r) == /\ req[r].life = "live" /\ req'[r].life \in Ended /\ req'[r].retained = FALSE
           /\ \A s \in Requests : s # r => req'[s] = req[s]
           /\ table' = IF req[r].retained THEN ReleaseDeps(table, r) ELSE table
\* A request takes its references, and may wait.
Admits(r) == /\ pc = "admit" /\ cur.req = r /\ req[r].life = "live"
             /\ req' = [req EXCEPT ![r].retained = @ \/ Deps[r] # {}]
             /\ \/ table' = Pinned(r)
                \/ \E id \in Unmet(Pinned(r), r) :
                       table' = [Pinned(r) EXCEPT ![id] = BlockNode(@, r)]
\* The loop is destroyed.
Gone == /\ pc' = "destroyed" /\ table' = [id \in Resources |-> NoNode]
        /\ \A s \in Requests : \/ req'[s].life \in Ended /\ req[s].life = "live"
                               \/ req'[s] = req[s] /\ req[s].life # "live"

\* A step that changes one request, not in what counts here.
LEMMA QuietOne ==
    ASSUME EInv, NEW r \in Requests, NEW q, req' = [req EXCEPT ![r] = q],
           q.retained = req[r].retained, q.life # "new",
           q.life = req[r].life \/ ~req[r].retained,
           req[r].life = "new" => Submitted(r)
    PROVE  Quiet
<1>1. \A s \in Requests : req'[s] = IF s = r THEN q ELSE req[s]
  BY Given
<1> QED
  BY <1>1 DEF Quiet

\* The same when the life of the request goes on.
LEMMA QuietField ==
    ASSUME EInv, NEW r \in Requests, NEW q, req' = [req EXCEPT ![r] = q],
           q.retained = req[r].retained, q.life = req[r].life
    PROVE  Quiet
<1>1. \A s \in Requests : req'[s] = IF s = r THEN q ELSE req[s]
  BY Given
<1> QED
  BY <1>1 DEF Quiet

\* Destroying a live request.
LEMMA DestroyDies ==
    ASSUME EInv, NEW r \in LiveOnes, NEW how \in Ended, NEW n, Destroy(r, how, n)
    PROVE  Dies(r)
<1>1. r \in Requests /\ req \in [Requests -> RequestRec] /\ req[r] \in RequestRec
  BY Given
<1> DEFINE q == [req[r] EXCEPT !.life = how, !.handle = FALSE, !.retained = FALSE]
<1>2. req' = [req EXCEPT ![r] = q]
  BY DEF Destroy
<1>3. q.life = how /\ q.retained = FALSE
  BY <1>1 DEF RequestRec
<1> HIDE DEF q
<1>4. req'[r] = q /\ \A s \in Requests : s # r => req'[s] = req[s]
  BY <1>1, <1>2
<1> QED
  BY <1>3, <1>4 DEF Dies, Destroy, LiveOnes, Live

\* Starting a live request.
LEMMA StartEffects ==
    ASSUME EInv, NEW r \in LiveOnes, NEW m, NEW n, Start(r, m, n)
    PROVE  (Quiet /\ table' = table) \/ Dies(r)
<1>1. r \in Requests /\ req \in [Requests -> RequestRec] /\ req[r] \in RequestRec
  BY Given
<1>2. CASE StartRated(r, m, n)
  <2>0. PICK at : req' = [req EXCEPT ![r].due = at]
    BY <1>2 DEF StartRated
  <2> DEFINE q == [req[r] EXCEPT !.due = at]
  <2>1. q.retained = req[r].retained /\ q.life = req[r].life
    BY <1>1 DEF RequestRec
  <2>2. req' = [req EXCEPT ![r] = q] /\ table' = table
    BY <1>2, <2>0 DEF StartRated
  <2> HIDE DEF q
  <2> QED
    BY <1>1, <2>1, <2>2, QuietField
<1>3. CASE StartTransfer(r, m, n)
  <2> DEFINE q == [req[r] EXCEPT !.handle = TRUE]
  <2>1. q.retained = req[r].retained /\ q.life = req[r].life
    BY <1>1 DEF RequestRec
  <2>2. req' = [req EXCEPT ![r] = q] /\ table' = table
    BY <1>3 DEF StartTransfer
  <2> HIDE DEF q
  <2> QED
    BY <1>1, <2>1, <2>2, QuietField
<1>4. CASE StartUnprepared(r, m, n)
  <2> DEFINE q == [req[r] EXCEPT !.life = "unprepared", !.handle = FALSE, !.retained = FALSE]
  <2>1. req' = [req EXCEPT ![r] = q]
    BY <1>4 DEF StartUnprepared
  <2>2. q.life = "unprepared" /\ q.retained = FALSE /\ "unprepared" \in Ended
    BY <1>1 DEF RequestRec, Ended
  <2> HIDE DEF q
  <2>3. req'[r] = q /\ \A s \in Requests : s # r => req'[s] = req[s]
    BY <1>1, <2>1
  <2> QED
    BY <1>4, <2>2, <2>3 DEF Dies, StartUnprepared, LiveOnes, Live
<1> QED
  BY <1>2, <1>3, <1>4 DEF Start

\* What every step does.
Effect == \/ Quiet /\ table' = table
          \/ Quiet /\ \E id \in Resources : NodeStep(id)
          \/ \E r \in Requests : Dies(r) \/ Admits(r)
          \/ Gone

\* A publication is an operation on one node.
LEMMA PublishStep ==
    ASSUME NEW id \in Resources, NEW ok \in BOOLEAN, NEW own \in BOOLEAN, NEW back,
           BeginPublish(id, ok, own, back), own => Users(id) = {}
    PROVE  NodeStep(id)
BY DEF BeginPublish, NodeStep

\* Nothing happens to any request.
LEMMA QuietStep == req' = req => Quiet
BY DEF Quiet

\* The calls of the application.
LEMMA CallEffect ==
    ASSUME EInv, Disciplined, NEW c \in Calls, Call(c)
    PROVE  Effect
<1>0. /\ SchedTypes /\ PlacesOK /\ HoldsOK /\ FreshOK
      /\ table \in [Resources -> NodeRec] /\ req \in [Requests -> RequestRec]
      /\ map \in [Maps -> SUBSET Requests] /\ LiveOnes \subseteq Requests
      /\ Partition(Spread(map, Listed, table), LiveOnes)
  BY Given
<1>1. ASSUME NEW r \in Requests, NEW q \in RequestRec, Enlist(r, q),
             req[r].life = "new", q.retained = req[r].retained, Submitted(r)
      PROVE  Effect
  <2> DEFINE p == [q EXCEPT !.life = "live", !.isPending = TRUE]
  <2>1. p.life = "live" /\ p.retained = req[r].retained
    BY <1>1 DEF RequestRec
  <2>2. req' = [req EXCEPT ![r] = p] /\ table' = table
    BY <1>1 DEF Enlist
  <2>3. ~req[r].retained
    BY <1>0, <1>1 DEF FreshOK
  <2> HIDE DEF p
  <2> QED
    BY <1>1, <2>1, <2>2, <2>3, QuietOne DEF Effect
<1>2. c \in todo /\ c.op \in Submits => c.on \in Requests /\ req[c.on].life = "new"
  BY <1>0, CallsAssumption DEF FreshOK, Submits
<1>3. CASE RequestSubmit(c)
  <2> DEFINE r == c.on
             x == Floor(IF Priority[r] > 0 THEN -Priority[r] ELSE 0)
             b == req[r].onRetry \/ MaxRetries[r] # 0
             q == [req[r] EXCEPT !.due = x, !.onRetry = b]
  <2>1. r \in Requests /\ req[r].life = "new"
    BY <1>2, <1>3 DEF RequestSubmit, Makes, Submits
  <2>s. Submitted(r)
    BY <1>3 DEF RequestSubmit, Makes, Submits, Submitted
  <2>2. x \in Int /\ b \in BOOLEAN /\ req[r] \in RequestRec
    BY <1>0, <2>1, BoundsAssumption, RequestsAssumption DEF Floor, RequestRec
  <2>3. CASE Refused(r)
    <3>1. req' = req /\ table' = table
      BY <1>3, <2>3 DEF RequestSubmit, sched
    <3> QED
      BY <3>1, QuietStep DEF Effect
  <2>4. CASE ~Refused(r)
    <3>1. Enlist(r, q)
      BY <1>3, <2>4 DEF RequestSubmit
    <3> HIDE DEF x, b
    <3>2. q \in RequestRec
      BY <2>2, RequestFields
    <3>3. q.retained = req[r].retained
      BY <2>2 DEF RequestRec
    <3> HIDE DEF q
    <3> QED
      BY <1>1, <2>1, <2>s, <3>1, <3>2, <3>3
  <2> QED
    BY <2>3, <2>4
<1>4. CASE LoopSubmit(c)
  <2> DEFINE x == Floor(-Priority[c.on])
             q == [req[c.on] EXCEPT !.due = x]
  <2>1. c.on \in Requests /\ req[c.on].life = "new"
    BY <1>2, <1>4 DEF LoopSubmit, Makes, Submits
  <2>s. Submitted(c.on)
    BY <1>4 DEF LoopSubmit, Makes, Submits, Submitted
  <2>2. x \in Int /\ req[c.on] \in RequestRec
    BY <1>0, <2>1, BoundsAssumption, RequestsAssumption DEF Floor
  <2>3. Enlist(c.on, q)
    BY <1>4 DEF LoopSubmit
  <2> HIDE DEF x
  <2>4. q \in RequestRec
    BY <2>2, RequestFields
  <2>5. q.retained = req[c.on].retained
    BY <2>2 DEF RequestRec
  <2> HIDE DEF q
  <2> QED
    BY <1>1, <2>1, <2>s, <2>3, <2>4, <2>5
<1>5. CASE Cancel(c)
  <2> DEFINE q == [req[c.on] EXCEPT !.isCancelled = TRUE]
  <2>1. c.on \in Requests
    BY <1>5, CallsAssumption DEF Cancel, Makes
  <2>2. q.retained = req[c.on].retained /\ q.life = req[c.on].life
    BY <1>0, <2>1 DEF RequestRec
  <2>3. table' = table /\ (req' = req \/ req' = [req EXCEPT ![c.on] = q])
    BY <1>5 DEF Cancel
  <2> HIDE DEF q
  <2> QED
    BY <2>1, <2>2, <2>3, QuietField, QuietStep DEF Effect
<1>6. CASE Inject(c)
  <2> DEFINE q == [req[c.on] EXCEPT !.life = "live"]
  <2>1. c.on \in Requests /\ req[c.on].life = "new"
    BY <1>6, CallsAssumption DEF Inject, Makes
  <2>2. q.retained = req[c.on].retained /\ q.life = "live"
    BY <1>0, <2>1 DEF RequestRec
  <2>3. table' = table /\ req' = [req EXCEPT ![c.on] = q]
    BY <1>6 DEF Inject
  <2>4. ~req[c.on].retained
    BY <1>0, <2>1 DEF FreshOK
  <2>5. Submitted(c.on)
    BY <1>6 DEF Inject, Makes, Submits, Submitted
  <2> HIDE DEF q
  <2> QED
    BY <2>1, <2>2, <2>3, <2>4, <2>5, QuietOne DEF Effect
<1>7. CASE Stop(c) \/ Post(c) \/ Run(c)
  <2>1. req' = req /\ table' = table
    BY <1>7 DEF Stop, Post, Run, sched
  <2> QED
    BY <2>1, QuietStep DEF Effect
<1>8. CASE NodeCall(c)
  <2>1. /\ c.on \in Resources /\ c \in todo /\ todo' = todo \ {c} /\ req' = req
        /\ UNCHANGED <<inbox, work>>
    BY <1>8, CallsAssumption DEF NodeCall, Makes, LoopThread, lists, local
  <2>2. c.op \in {"release", "addref", "autorelease"}
    BY <1>8 DEF NodeCall, Makes
  <2>3. c.op = "release" => GivenBack(c.on)
    <3>1. c \in Due
      BY <2>1 DEF Due
    <3>2. c.op = "release" => c \notin Elements(inbox) \cup Elements(work.ops)
      BY <2>1 DEF EInv, RefsInv, OpsOK
    <3>3. Due' = todo' \cup Elements(inbox) \cup Elements(work.ops)
      BY <2>1 DEF Due
    <3>4. c.op = "release" => c \notin Due'
      BY <2>1, <3>2, <3>3
    <3> QED
      BY <3>1, <3>4 DEF GivenBack
  <2>4. NodeStep(c.on)
    <3>1. CASE c.op = "release"
      BY <1>8, <2>3, <3>1 DEF NodeCall, NodeStep
    <3>2. CASE c.op = "addref"
      BY <1>8, <3>2 DEF NodeCall, NodeStep
    <3>3. CASE c.op = "autorelease"
      BY <1>8, <2>1, <3>3 DEF NodeCall, NodeStep
    <3> QED
      BY <2>2, <3>1, <3>2, <3>3
  <2> QED
    BY <2>1, <2>4, QuietStep DEF Effect
<1>9. CASE PublishCall(c)
  <2>1. /\ c.on \in Resources /\ c.ok \in BOOLEAN /\ (c.op = "register") \in BOOLEAN
        /\ BeginPublish(c.on, c.ok, c.op = "register", pc) /\ req' = req
        /\ (c.op = "register" => table[c.on].st = "none")
    BY <1>9, CallsAssumption DEF PublishCall, Makes, LoopThread
  <2>2. c.op = "register" => Users(c.on) = {}
    BY <2>1 DEF EInv, RefsInv, PinsOK
  <2> QED
    BY <2>1, <2>2, PublishStep, QuietStep DEF Effect
<1>10. CASE DestroyLoop(c)
  <2>1. CASE Crash
    <3>1. req' = req /\ table' = table
      BY <2>1 DEF Crash, sched
    <3> QED
      BY <3>1, QuietStep DEF Effect
  <2>2. CASE Teardown
    <3> DEFINE B == UNION {Blocked(id) : id \in Resources}
               dead == Reached \cup B
               t(r) == [req[r] EXCEPT !.life = "torn", !.handle = FALSE,
                                      !.retained = FALSE]
    <3>1. LiveOnes' = {}
      <4>1. PlacesOK' /\ pc' = "destroyed"
        BY <1>10, <2>2, CallPlaces DEF Call, Teardown, Goto
      <4>2. /\ map' = [k \in Maps |-> {}] /\ table' = [id \in Resources |-> NoNode]
            /\ pending' = << >> /\ injected' = << >> /\ UNCHANGED <<work, cur, pub>>
        BY <2>2, Zenon DEF Teardown, local
      <4>3. /\ work.pending = << >> /\ work.injected = << >> /\ pub.waiters = << >>
            /\ cur.req = None
        BY <1>0, <1>10 DEF HoldsOK, Publishing, DestroyLoop
      <4>4. \A x \in Lists : Listed'[x] = {}
        BY <4>2, <4>3 DEF Listed, Lists, Elements
      <4>5. \A id \in Resources : Elements(table'[id].blocked) = {}
        BY <4>2 DEF NoNode, Elements
      <4>6. \A x \in Maps : map'[x] = {}
        BY <4>2
      <4>7. Partition(Spread(map', Listed', table'), LiveOnes')
        BY <4>1 DEF PlacesOK, Contents
      <4> QED
        BY <4>4, <4>5, <4>6, <4>7, Apart
    <3>2. \A s \in Requests : req'[s].life # "live"
      BY <3>1 DEF LiveOnes, Live
    <3>3. dead \subseteq LiveOnes
      <4>1. /\ \A a \in Maps : map[a] \subseteq LiveOnes
            /\ \A a \in Lists : Listed[a] \subseteq LiveOnes
            /\ \A a \in Resources : Elements(table[a].blocked) \subseteq LiveOnes
        BY <1>0, Apart
      <4>2. Elements(pending) \subseteq LiveOnes /\ Elements(injected) \subseteq LiveOnes
        BY <4>1, ListedAt DEF Lists
      <4>3. Reached \subseteq LiveOnes
        BY <4>1, <4>2 DEF Reached, Elements
      <4>4. B \subseteq LiveOnes
        BY <4>1 DEF Blocked, Elements
      <4> QED
        BY <4>3, <4>4
    <3>4. req' = [r \in Requests |-> IF r \in dead THEN t(r) ELSE req[r]]
      BY <2>2 DEF Teardown
    <3>5. \A r \in Requests : t(r).life = "torn"
      BY <1>0 DEF RequestRec
    <3>6. table' = [id \in Resources |-> NoNode] /\ pc' = "destroyed"
      BY <2>2 DEF Teardown, Goto
    <3> HIDE DEF dead, t
    <3>7. \A s \in Requests : \/ req'[s].life \in Ended /\ req[s].life = "live"
                              \/ req'[s] = req[s] /\ req[s].life # "live"
      <4> TAKE s \in Requests
      <4>1. CASE s \in dead
        BY <3>3, <3>4, <3>5, <4>1 DEF LiveOnes, Live, Ended
      <4>2. CASE s \notin dead
        BY <3>2, <3>4, <4>2
      <4> QED
        BY <4>1, <4>2
    <3> QED
      BY <3>6, <3>7 DEF Effect, Gone
  <2> QED
    BY <1>10, <2>1, <2>2 DEF DestroyLoop
<1> QED
  BY <1>3, <1>4, <1>5, <1>6, <1>7, <1>8, <1>9, <1>10 DEF Call

\* The steps of the scheduler and of the transfers.
LEMMA SchedulerEffect ==
    ASSUME EInv, Scheduler \/ PerformEnd \/ \E r \in Requests : TransferDone(r)
    PROVE  Effect
<1>0. /\ SchedTypes /\ LocalTypes /\ PlacesOK /\ HoldsOK /\ HandsOK
      /\ table \in [Resources -> NodeRec] /\ req \in [Requests -> RequestRec]
      /\ map \in [Maps -> SUBSET Requests] /\ LiveOnes \subseteq Requests
      /\ Partition(Spread(map, Listed, table), LiveOnes)
  BY Given
<1>1. CASE \/ Detach \/ CancelsDone \/ EnterRated \/ MergeRated \/ PerformEnd
           \/ LeaveWaiting("refresh", "inactive") \/ LeaveWaiting("inactive", "perform")
           \/ \E r \in Requests : TransferDone(r)
  <2>1. req' = req /\ table' = table
    BY <1>1 DEF Detach, CancelsDone, EnterRated, MergeRated, PerformEnd, LeaveWaiting,
          TransferDone, sched
  <2> QED
    BY <2>1, QuietStep DEF Effect
<1>2. CASE CancelOne
  <2> DEFINE r == Head(work.cancelled)
  <2>1. CASE Crash
    <3>1. req' = req /\ table' = table
      BY <2>1 DEF Crash, sched
    <3> QED
      BY <3>1, QuietStep DEF Effect
  <2>2. CASE Live(r) /\ \E n : Destroy(r, "cancelled", n)
    <3>1. r \in LiveOnes /\ r \in Requests /\ "cancelled" \in Ended
      BY <1>0, <1>2, <2>2 DEF CancelOne, LocalTypes, WorkRec, LiveOnes, Ended
    <3> QED
      BY <2>2, <3>1, DestroyDies DEF Effect
  <2> QED
    BY <1>2, <2>1, <2>2 DEF CancelOne
<1>3. CASE TakePending
  <2> DEFINE r == Head(work.pending)
             q == [req[r] EXCEPT !.isPending = FALSE]
  <2>1. r \in Requests
    BY <1>0, <1>3 DEF TakePending, LocalTypes, WorkRec
  <2>2. q.retained = req[r].retained /\ q.life = req[r].life
    BY <1>0, <2>1 DEF RequestRec
  <2>3. table' = table /\ req' = [req EXCEPT ![r] = q]
    BY <1>3 DEF TakePending
  <2> HIDE DEF q
  <2> QED
    BY <2>1, <2>2, <2>3, QuietField DEF Effect
<1>4. pc \in {"admit", "launch"} => cur.req \in Requests /\ cur.req \in LiveOnes
  <2>1. pc \in {"admit", "launch"} => cur.req \in Requests
    BY <1>0 DEF HandsOK, Handling
  <2>2. cur.req \in Requests => cur.req \in Listed["hand"] /\ "hand" \in Lists
    BY SetsAssumption DEF Listed, Lists
  <2>3. cur.req \in Requests => cur.req \in LiveOnes
    BY <1>0, <2>2, Apart
  <2> QED
    BY <2>1, <2>3
<1>5. CASE DropCancelled
  <2>1. cur.req \in LiveOnes /\ cur.req \in Requests /\ "cancelled" \in Ended
    BY <1>4, <1>5 DEF DropCancelled, Ended
  <2>2. Destroy(cur.req, "cancelled", num)
    BY <1>5 DEF DropCancelled
  <2> QED
    BY <2>1, <2>2, DestroyDies DEF Effect
<1>6. CASE Admit
  <2>1. cur.req \in Requests /\ pc = "admit" /\ req[cur.req].life = "live"
    BY <1>4, <1>6 DEF Admit, LiveOnes, Live
  <2>2. Admits(cur.req)
    BY <1>6, <2>1 DEF Admits, Admit
  <2> QED
    BY <2>1, <2>2 DEF Effect
<1>7. CASE Launch
  <2>1. cur.req \in LiveOnes /\ cur.req \in Requests
    BY <1>4, <1>7 DEF Launch
  <2>2. Start(cur.req, map, num) \/ (req' = req /\ table' = table)
    BY <1>7 DEF Launch
  <2> QED
    BY <2>1, <2>2, StartEffects, QuietStep DEF Effect
<1>8. ASSUME NEW k \in Maps, NEW r \in Firsts(k), NEW m, NEW n,
             Limit(r, k, n) \/ Start(r, m, n)
      PROVE  Effect
  <2>1. r \in LiveOnes /\ r \in Requests /\ req[r] \in RequestRec
    BY <1>0, Apart DEF Firsts
  <2>2. CASE Limit(r, k, n)
    <3>1. PICK wait : req' = [req EXCEPT ![r].due = wait]
      BY <2>2 DEF Limit
    <3> DEFINE q == [req[r] EXCEPT !.due = wait]
    <3>2. q.retained = req[r].retained /\ q.life = req[r].life
      BY <2>1 DEF RequestRec
    <3>3. table' = table /\ req' = [req EXCEPT ![r] = q]
      BY <2>2, <3>1 DEF Limit
    <3> HIDE DEF q
    <3> QED
      BY <2>1, <3>2, <3>3, QuietField DEF Effect
  <2>3. CASE Start(r, m, n)
    BY <2>1, <2>3, StartEffects DEF Effect
  <2> QED
    BY <1>8, <2>2, <2>3
<1>9. CASE MoveRated
  <2>1. "root" \in Maps /\ \E r \in Firsts("root") : \E m, n : Limit(r, "root", n) \/ Start(r, m, n)
    BY <1>9 DEF MoveRated, Maps
  <2> QED
    BY <1>8, <2>1
<1>10. ASSUME NEW k \in {"refresh", "inactive"}, MoveWaiting(k)
       PROVE  Effect
  <2>1. k \in Maps /\ \E r \in Firsts(k) : \E m, n : Limit(r, k, n) \/ Start(r, m, n)
    BY <1>10 DEF MoveWaiting, Maps
  <2> QED
    BY <1>8, <2>1
<1> QED
  BY <1>1, <1>2, <1>3, <1>5, <1>6, <1>7, <1>9, <1>10 DEF Scheduler

\* The steps that handle completed transfers and injected requests.
LEMMA CompletionEffect ==
    ASSUME EInv, Completions
    PROVE  Effect
<1>0. /\ SchedTypes /\ LocalTypes /\ PlacesOK /\ HoldsOK /\ HandsOK /\ ListsOK
      /\ table \in [Resources -> NodeRec] /\ req \in [Requests -> RequestRec]
      /\ map \in [Maps -> SUBSET Requests] /\ LiveOnes \subseteq Requests
      /\ Partition(Spread(map, Listed, table), LiveOnes)
  BY Given
<1>1. CASE CompleteOne
  <2> DEFINE m == Head(msgs)
  <2>1. m.req \in Requests
    <3>1. m \in MsgRec
      BY <1>0, <1>1 DEF CompleteOne, SchedTypes
    <3> QED
      BY <3>1 DEF MsgRec
  <2>2. \/ table' = table
        \/ /\ Publishes[m.req] # None
           /\ BeginPublish(Publishes[m.req], m.result = "ok", FALSE, "finish")
    BY <1>1 DEF CompleteOne, Signals
  <2>3. Publishes[m.req] # None => Publishes[m.req] \in Resources
    BY <2>1, RequestsAssumption
  <2>4. req' = req /\ (m.result = "ok") \in BOOLEAN
    BY <1>1 DEF CompleteOne
  <2> QED
    BY <2>2, <2>3, <2>4, PublishStep, QuietStep DEF Effect
<1>2. CASE CompletionsDone \/ InjectedDone
  <2>1. req' = req /\ table' = table
    BY <1>2 DEF CompletionsDone, InjectedDone, sched
  <2> QED
    BY <2>1, QuietStep DEF Effect
<1>3. pc = "finish" => /\ cur.req \in Requests /\ req[cur.req] \in RequestRec
                       /\ cur.req \in LiveOnes
  <2>1. pc = "finish" => cur.req \in Requests
    BY <1>0 DEF HandsOK, Handling
  <2>2. cur.req \in Requests => cur.req \in Listed["hand"] /\ "hand" \in Lists
    BY SetsAssumption DEF Listed, Lists
  <2>3. cur.req \in Requests => cur.req \in LiveOnes
    BY <1>0, <2>2, Apart
  <2> QED
    BY <1>0, <2>1, <2>3
<1>4. CASE Finish429
  <2> DEFINE r == cur.req
  <2>1. PICK wait : req' = [req EXCEPT ![r].due = wait]
    BY <1>4 DEF Finish429
  <2> DEFINE q == [req[r] EXCEPT !.due = wait]
  <2>2. r \in Requests /\ q.retained = req[r].retained /\ q.life = req[r].life
    BY <1>3, <1>4 DEF RequestRec, Finish429, Finishes
  <2>3. table' = table /\ req' = [req EXCEPT ![r] = q]
    BY <1>4, <2>1 DEF Finish429
  <2> HIDE DEF q
  <2> QED
    BY <2>2, <2>3, QuietField DEF Effect
<1>5. ASSUME NEW q \in RequestRec, pc = "finish", Requeue(cur.req, q),
             q.life = req[cur.req].life, q.retained = req[cur.req].retained
      PROVE  Effect
  <2> DEFINE p == [q EXCEPT !.handle = FALSE]
  <2>1. p.life = req[cur.req].life /\ p.retained = req[cur.req].retained
    BY <1>5 DEF RequestRec
  <2>2. req' = [req EXCEPT ![cur.req] = p] /\ table' = table
    BY <1>5 DEF Requeue
  <2> HIDE DEF p
  <2> QED
    BY <1>3, <1>5, <2>1, <2>2, QuietField DEF Effect
<1>6. CASE FinishDelay
  <2> DEFINE d == IF cur.ret > MaxDelay THEN MaxDelay ELSE cur.ret
             q == [req[cur.req] EXCEPT !.due = d]
  <2>1. pc = "finish" /\ Requeue(cur.req, q)
    BY <1>6 DEF FinishDelay, Finishes
  <2>2. d \in Int
    BY <1>0, BoundsAssumption DEF LocalTypes, CurRec
  <2> HIDE DEF d
  <2>3. q \in RequestRec
    BY <1>3, <2>1, <2>2, RequestFields
  <2>4. q.life = req[cur.req].life /\ q.retained = req[cur.req].retained
    BY <1>3, <2>1 DEF RequestRec
  <2> HIDE DEF q
  <2> QED
    BY <1>5, <2>1, <2>3, <2>4
<1>7. CASE FinishRetry
  <2>1. CASE Crash
    <3>1. req' = req /\ table' = table
      BY <2>1 DEF Crash, sched
    <3> QED
      BY <3>1, QuietStep DEF Effect
  <2>2. CASE pc = "finish" /\ RetryLater(cur.req)
    <3> DEFINE r == cur.req
               c == CountRetry(r)
    <3>1. PICK wait \in 0..MaxDelay :
              Requeue(r, [req[r] EXCEPT !.due = IF r \in OwnRetry THEN @ ELSE wait,
                                        !.retries = c])
      BY <2>2 DEF RetryLater
    <3> DEFINE d == IF r \in OwnRetry THEN req[r].due ELSE wait
               q == [req[r] EXCEPT !.due = d, !.retries = c]
    <3>2. d \in Int /\ c \in Nat
      BY <1>3, <2>2, BoundsAssumption DEF CountRetry, RequestRec
    <3>3. Requeue(r, q)
      BY <3>1
    <3> HIDE DEF c, d
    <3>4. q \in RequestRec
      BY <1>3, <2>2, <3>2, RequestFields
    <3>5. q.life = req[r].life /\ q.retained = req[r].retained
      BY <1>3, <2>2 DEF RequestRec
    <3> HIDE DEF q
    <3> QED
      BY <1>5, <2>2, <3>3, <3>4, <3>5
  <2> QED
    BY <1>7, <2>1, <2>2 DEF FinishRetry
<1>8. CASE FinishFinal
  <2> DEFINE r == cur.req
  <2>0. pc = "finish"
    BY <1>8 DEF FinishFinal, Finishes
  <2>1. CASE r \in Refreshing
    <3> DEFINE zero == 0
               q == [req[r] EXCEPT !.retries = zero]
    <3>1. Requeue(r, q) /\ zero \in Nat
      BY <1>8, <2>1 DEF FinishFinal
    <3> HIDE DEF zero
    <3>2. q \in RequestRec
      BY <1>3, <2>0, <3>1, RequestFields
    <3>3. q.life = req[r].life /\ q.retained = req[r].retained
      BY <1>3, <2>0 DEF RequestRec
    <3> HIDE DEF q
    <3> QED
      BY <1>5, <2>0, <3>1, <3>2, <3>3
  <2>2. CASE r \notin Refreshing
    <3> DEFINE how == IF cur.result = "ok" THEN "completed" ELSE "failed"
    <3>1. Destroy(r, how, num) /\ how \in Ended
      BY <1>8, <2>2 DEF FinishFinal, Ended
    <3> HIDE DEF how
    <3> QED
      BY <1>3, <2>0, <3>1, DestroyDies DEF Effect
  <2> QED
    BY <2>1, <2>2
<1>9. CASE InjectedOne
  <2> DEFINE r == Head(work.injected)
             q == [req[r] EXCEPT !.life = "completed"]
  <2>1. r \in Requests /\ r \in Elements(work.injected)
    BY <1>0, <1>9, ElementsOf DEF InjectedOne, LocalTypes, WorkRec
  <2>2. q.retained = req[r].retained /\ q.life = "completed"
    BY <1>0, <2>1 DEF RequestRec
  <2>3. req' = [req EXCEPT ![r] = q]
    BY <1>9 DEF InjectedOne
  <2>4. ~req[r].retained
    BY <2>1 DEF EInv, RefsInv, AdmittedPin
  <2> HIDE DEF q
  <2>5. Quiet
    <3>1. r \in Listed["detached"] /\ "detached" \in Lists
      BY <2>1 DEF Listed, Lists
    <3>2. r \in LiveOnes
      BY <1>0, <3>1, Apart
    <3>3. req[r].life # "new"
      BY <3>2 DEF LiveOnes, Live
    <3> QED
      BY <2>1, <2>2, <2>3, <2>4, <3>3, QuietOne
  <2>6. \/ table' = table
        \/ Publishes[r] # None /\ BeginPublish(Publishes[r], TRUE, FALSE, "injected")
    BY <1>9 DEF InjectedOne
  <2>7. Publishes[r] # None => Publishes[r] \in Resources
    BY <2>1, RequestsAssumption
  <2> QED
    BY <2>5, <2>6, <2>7, PublishStep DEF Effect
<1> QED
  BY <1>1, <1>2, <1>4, <1>6, <1>7, <1>8, <1>9 DEF Completions

\* The steps that apply resource operations and wake waiters, and time.
LEMMA ResourceEffect ==
    ASSUME EInv, Disciplined, ResourceOps \/ Tick
    PROVE  Effect
<1>0. /\ SchedTypes /\ LocalTypes /\ PlacesOK /\ HoldsOK /\ HandsOK
      /\ table \in [Resources -> NodeRec] /\ req \in [Requests -> RequestRec]
      /\ LiveOnes \subseteq Requests
      /\ Partition(Spread(map, Listed, table), LiveOnes)
  BY Given
<1>1. CASE Drain \/ OpsDone \/ RequeueRead \/ RequeueWrite \/ PublishEnd
  <2>1. req' = req /\ table' = table
    BY <1>1 DEF Drain, OpsDone, RequeueRead, RequeueWrite, PublishEnd, sched
  <2> QED
    BY <2>1, QuietStep DEF Effect
<1>2. CASE ApplyOp
  <2> DEFINE c == Head(work.ops)
  <2>1. /\ c \in OpRec /\ c \in Elements(work.ops) /\ work.ops \in Seq(OpRec)
        /\ work.ops # << >>
    <3>1. work.ops \in Seq(OpRec) /\ work.ops # << >>
      BY <1>0, <1>2 DEF LocalTypes, WorkRec, ApplyOp
    <3> QED
      BY <3>1, ElementsOf
  <2>2. /\ c.on \in Resources /\ c.ok \in BOOLEAN /\ (c.op = "register_async") \in BOOLEAN
        /\ req' = req
    BY <1>2, <2>1 DEF OpRec, ApplyOp
  <2>3. CASE c.op = "release_async"
    <3>1. table' = [table EXCEPT ![c.on] = ReleaseNode(table[c.on])]
      BY <1>2, <2>3 DEF ApplyOp
    <3>2. c \in Due
      BY <2>1 DEF Due
    <3>3. c \notin todo /\ c \notin Elements(inbox) /\ Distinct(work.ops)
      BY <2>1 DEF EInv, RefsInv, OpsOK
    <3>4. c \notin Elements(Tail(work.ops))
      BY <2>1, <3>3, DistinctOf
    <3>5. work'.ops = Tail(work.ops) /\ inbox' = inbox /\ todo' = todo
      BY <1>0, <1>2 DEF ApplyOp, LocalTypes, WorkRec, lists
    <3>6. c \notin Due'
      BY <3>3, <3>4, <3>5 DEF Due
    <3>7. GivenBack(c.on)
      BY <2>3, <3>2, <3>6 DEF GivenBack
    <3> QED
      BY <2>2, <3>1, <3>7, QuietStep DEF Effect, NodeStep
  <2>4. CASE c.op # "release_async"
    <3>1. BeginPublish(c.on, c.ok, c.op = "register_async", "ops")
      BY <1>2, <2>4 DEF ApplyOp
    <3>2. c.op = "register_async" => Users(c.on) = {}
      <4>1. c \in Calls
        BY <2>1 DEF EInv, RefsInv, OpsOK
      <4> QED
        BY <4>1 DEF Disciplined, RegistersUnpinned, Users
    <3> QED
      BY <2>2, <3>1, <3>2, PublishStep, QuietStep DEF Effect
  <2> QED
    BY <2>3, <2>4
<1>3. CASE FailWaiter
  <2>1. CASE Crash
    <3>1. req' = req /\ table' = table
      BY <2>1 DEF Crash, sched
    <3> QED
      BY <3>1, QuietStep DEF Effect
  <2>2. CASE Destroy(Waiter, "failed", num)
    <3>1. /\ Waiter \in Requests /\ Waiter \in Elements(pub.waiters) /\ "failed" \in Ended
      BY <1>0, <1>3, ElementsOf DEF FailWaiter, Waiter, LocalTypes, PubRec, Ended
    <3>2. Waiter \in LiveOnes
      <4>1. Waiter \in Listed["woken"] /\ "woken" \in Lists
        BY <3>1 DEF Listed, Lists
      <4> QED
        BY <1>0, <4>1, Apart
    <3> QED
      BY <2>2, <3>1, <3>2, DestroyDies DEF Effect
  <2> QED
    BY <1>3, <2>1, <2>2 DEF FailWaiter
<1>4. CASE Tick
  <2>1. \A r \in Requests : /\ Later(req[r]).life = req[r].life
                            /\ Later(req[r]).retained = req[r].retained
    BY <1>0 DEF Later, RequestRec
  <2>2. \A r \in Requests : req'[r] = Later(req[r]) \/ req'[r] = req[r]
    BY <1>4 DEF Tick
  <2> QED
    BY <1>4, <2>1, <2>2 DEF Effect, Quiet, Tick
<1> QED
  BY <1>1, <1>2, <1>3, <1>4 DEF ResourceOps

\* Every step.
LEMMA NextEffect ==
    ASSUME EInv, Disciplined, [Next]_vars
    PROVE  Effect
<1>1. CASE UNCHANGED vars \/ Top \/ OnLoop \/ ExitTest \/ Wait
  <2>1. req' = req /\ table' = table
    BY <1>1 DEF vars, sched, Top, OnLoop, ExitTest, Wait
  <2> QED
    BY <2>1, QuietStep DEF Effect
<1> QED
  BY <1>1, SchedulerEffect, CompletionEffect, ResourceEffect, CallEffect
  DEF Next, LoopStep, Over

----------------------------------------------------------------------------
(* No request is twice in one list. *)

\* The waiters of a resource stay, are woken together, or get one more.
LEMMA NextBlocked ==
    ASSUME EInv, Effect, NEW id \in Resources
    PROVE  \/ table'[id].blocked = table[id].blocked \/ table'[id].blocked = << >>
           \/ /\ pc = "admit" /\ cur.req \in Requests /\ id \in Deps[cur.req]
              /\ req' = [req EXCEPT ![cur.req].retained = @ \/ Deps[cur.req] # {}]
              /\ table'[id].blocked = Append(table[id].blocked, cur.req)
<1>0. /\ Unstranded(table) /\ table \in [Resources -> NodeRec]
      /\ req \in [Requests -> RequestRec]
      /\ table[id] \in NodeRec /\ NoStrandedWaiter(table[id])
  BY Given DEF Unstranded
<1>1. CASE table' = table \/ Gone
  BY <1>1 DEF Gone, NoNode
<1>2. ASSUME NEW x \in Resources, NodeStep(x)
      PROVE  table'[id].blocked = table[id].blocked \/ table'[id].blocked = << >>
  <2>1. CASE x # id
    BY <1>0, <1>2, <2>1 DEF NodeStep
  <2>2. CASE x = id
    <3>1. PICK n : /\ table' = [table EXCEPT ![id] = n]
                   /\ \/ n = ReleaseNode(table[id]) \/ n = AddRefNode(table[id])
                      \/ n = AutoNode(table[id])
                      \/ \E ok, own \in BOOLEAN : n = PublishNode(table[id], ok, own)
      BY <1>2, <2>2 DEF NodeStep
    <3>2. table'[id] = n
      BY <1>0, <3>1
    <3>3. /\ AddRefNode(table[id]).blocked = table[id].blocked
          /\ AutoNode(table[id]).blocked = table[id].blocked
          /\ \A ok, own \in BOOLEAN : PublishNode(table[id], ok, own).blocked = << >>
      BY <1>0, NodeBlocked
    <3>4. ReleaseNode(table[id]).blocked \in {table[id].blocked, << >>}
      <4>1. NoNode.blocked = << >>
        BY DEF NoNode
      <4> QED
        BY <1>0, <4>1 DEF ReleaseNode, NodeRec
    <3> QED
      BY <3>1, <3>2, <3>3, <3>4
  <2> QED
    BY <2>1, <2>2
<1>3. ASSUME NEW r \in Requests, Dies(r) PROVE table'[id].blocked = table[id].blocked
  BY <1>0, <1>3, DepsBlocked DEF Dies
<1>4. ASSUME NEW r \in Requests, Admits(r)
      PROVE  \/ table'[id].blocked = table[id].blocked
             \/ /\ pc = "admit" /\ cur.req \in Requests /\ id \in Deps[cur.req]
                /\ req' = [req EXCEPT ![cur.req].retained = @ \/ Deps[cur.req] # {}]
                /\ table'[id].blocked = Append(table[id].blocked, cur.req)
  <2> DEFINE t == Pinned(r)
  <2>1. /\ t \in [Resources -> NodeRec] /\ Unstranded(t) /\ t[id].blocked = table[id].blocked
    BY <1>0, DepsTypes, DepsWaiters, DepsBlocked DEF Pinned
  <2>2. CASE table' = t
    BY <2>1, <2>2
  <2>3. CASE \E x \in Unmet(t, r) : table' = [t EXCEPT ![x] = BlockNode(@, r)]
    <3>1. PICK x \in Unmet(t, r) : table' = [t EXCEPT ![x] = BlockNode(t[x], r)]
      BY <2>3
    <3>2. x \in Deps[r] /\ x \in Resources
      BY <3>1, RequestsAssumption DEF Unmet
    <3> HIDE DEF t
    <3>3. CASE x # id
      BY <2>1, <3>1, <3>3
    <3>4. CASE x = id
      <4>1. BlockNode(t[id], r).blocked = Append(table[id].blocked, r)
        BY <2>1, NodeBlocked DEF Unstranded
      <4>2. table'[id] = BlockNode(t[id], r)
        BY <2>1, <3>1, <3>4
      <4>3. pc = "admit" /\ cur.req = r
            /\ req' = [req EXCEPT ![r].retained = @ \/ Deps[r] # {}]
        BY <1>4 DEF Admits
      <4> QED
        BY <3>2, <3>4, <4>1, <4>2, <4>3
    <3> QED
      BY <3>3, <3>4
  <2> QED
    BY <1>4, <2>2, <2>3 DEF Admits
<1> QED
  BY <1>1, <1>2, <1>3, <1>4 DEF Effect

\* A publication detaches a list without duplicates.
LEMMA WokenDistinct ==
    ASSUME ListsOK, NEW id \in Resources, NEW ok, NEW own, NEW back,
           BeginPublish(id, ok, own, back)
    PROVE  Distinct(pub'.waiters)
BY DEF BeginPublish, ListsOK

\* The lists of the loop and of its thread.
LEMMA NextDistinct ==
    ASSUME EInv, Disciplined, [Next]_vars
    PROVE  /\ Distinct(pending') /\ Distinct(work'.pending) /\ Distinct(injected')
           /\ Distinct(work'.injected) /\ Distinct(pub'.waiters)
<1>0. /\ ListTypes /\ LocalTypes /\ ListsOK /\ HoldsOK /\ HandsOK /\ SchedTypes
      /\ Partition(Spread(map, Listed, table), LiveOnes)
      /\ Distinct(pending) /\ Distinct(work.pending) /\ Distinct(injected)
      /\ Distinct(work.injected) /\ Distinct(pub.waiters)
      /\ work \in WorkRec /\ pub \in PubRec
  BY Given DEF ListsOK, LocalTypes
<1>1. Distinct(<< >>)
  BY DEF Distinct
<1>2. ASSUME pending' = pending, injected' = injected,
             work'.pending = work.pending, work'.injected = work.injected,
             pub' = pub \/ Distinct(pub'.waiters)
      PROVE  /\ Distinct(pending') /\ Distinct(work'.pending) /\ Distinct(injected')
             /\ Distinct(work'.injected) /\ Distinct(pub'.waiters)
  BY <1>0, <1>2
<1>3. CASE \E c \in Calls : Call(c)
  <2> PICK c \in Calls : Call(c)
    BY <1>3
  <2>1. ASSUME NEW r \in Requests, NEW q, Enlist(r, q), req[r].life = "new"
        PROVE  Distinct(pending')
    <3>1. r \notin LiveOnes
      BY <2>1 DEF LiveOnes, Live
    <3>2. Listed["pending"] \subseteq LiveOnes
      BY <1>0, Apart DEF Lists
    <3>3. r \notin Elements(pending)
      BY <3>1, <3>2, ListedAt
    <3> QED
      BY <1>0, <2>1, <3>3, DistinctOf DEF Enlist, ListTypes
  <2>2. c \in todo /\ c.op \in Submits => c.on \in Requests /\ req[c.on].life = "new"
    BY Given, CallsAssumption DEF FreshOK, Submits
  <2>3. CASE RequestSubmit(c)
    <3>1. c.on \in Requests /\ req[c.on].life = "new"
      BY <2>2, <2>3 DEF RequestSubmit, Makes, Submits
    <3>2. CASE Refused(c.on)
      BY <1>2, <2>3, <3>2 DEF RequestSubmit, lists, local
    <3>3. CASE ~Refused(c.on)
      <4>1. \E q : Enlist(c.on, q)
        BY <2>3, <3>3 DEF RequestSubmit
      <4> QED
        BY <1>0, <2>1, <3>1, <4>1 DEF Enlist, local
    <3> QED
      BY <3>2, <3>3
  <2>4. CASE LoopSubmit(c)
    <3>1. c.on \in Requests /\ req[c.on].life = "new"
      BY <2>2, <2>4 DEF LoopSubmit, Makes, Submits
    <3>2. \E q : Enlist(c.on, q)
      BY <2>4 DEF LoopSubmit
    <3> QED
      BY <1>0, <2>1, <3>1, <3>2 DEF Enlist, local
  <2>5. CASE Inject(c)
    <3>1. c.on \in Requests /\ c.on \notin LiveOnes
      BY <2>5, CallsAssumption DEF Inject, Makes, LiveOnes, Live
    <3>2. Listed["injected"] \subseteq LiveOnes
      BY <1>0, Apart DEF Lists
    <3>3. c.on \notin Elements(injected)
      BY <3>1, <3>2, ListedAt
    <3>4. injected' = <<c.on>> \o injected
      BY <2>5 DEF Inject
    <3>5. Distinct(injected')
      BY <1>0, <3>1, <3>3, <3>4, DistinctOf DEF ListTypes
    <3> QED
      BY <1>0, <2>5, <3>5 DEF Inject, local
  <2>6. CASE PublishCall(c)
    <3>1. c.on \in Resources /\ BeginPublish(c.on, c.ok, c.op = "register", pc)
      BY <2>6, CallsAssumption DEF PublishCall, Makes, LoopThread
    <3>2. Distinct(pub'.waiters)
      BY <1>0, <3>1, WokenDistinct
    <3> QED
      BY <1>2, <2>6, <3>2 DEF PublishCall, lists
  <2>7. CASE DestroyLoop(c)
    <3>1. pending' \in {pending, << >>} /\ injected' \in {injected, << >>}
          /\ UNCHANGED <<work, pub>>
      BY <2>7 DEF DestroyLoop, Teardown, Crash, lists, local
    <3> QED
      BY <1>0, <1>1, <3>1
  <2>8. CASE Cancel(c) \/ Stop(c) \/ Post(c) \/ NodeCall(c) \/ Run(c)
    BY <1>2, <2>8 DEF Cancel, Stop, Post, NodeCall, Run, lists, local
  <2> QED
    BY <2>3, <2>4, <2>5, <2>6, <2>7, <2>8 DEF Call
<1>4. CASE Detach
  <2>1. pending' = << >> /\ work'.pending = pending /\ work'.injected = work.injected
        /\ UNCHANGED <<injected, pub>>
    BY <1>0, <1>4 DEF Detach, WorkRec
  <2> QED
    BY <1>0, <1>1, <2>1
<1>5. CASE TakePending
  <2>1. /\ work.pending # << >> /\ work.pending \in Seq(Requests)
        /\ work'.pending = Tail(work.pending) /\ work'.injected = work.injected
        /\ UNCHANGED <<pending, injected, pub>>
    BY <1>0, <1>5 DEF TakePending, WorkRec, lists
  <2>2. Distinct(Tail(work.pending))
    BY <1>0, <2>1, DistinctOf
  <2> QED
    BY <1>0, <2>1, <2>2
<1>6. CASE CompleteOne
  <2> DEFINE m == Head(msgs)
  <2>1. m.req \in Requests
    <3>1. m \in MsgRec
      BY <1>0, <1>6 DEF CompleteOne, SchedTypes
    <3> QED
      BY <3>1 DEF MsgRec
  <2>2. \/ pub' = pub
        \/ /\ Publishes[m.req] # None
           /\ BeginPublish(Publishes[m.req], m.result = "ok", FALSE, "finish")
    BY <1>6 DEF CompleteOne, Signals
  <2>3. Publishes[m.req] # None => Publishes[m.req] \in Resources
    BY <2>1, RequestsAssumption
  <2>4. pub' = pub \/ Distinct(pub'.waiters)
    BY <1>0, <2>2, <2>3, WokenDistinct
  <2> QED
    BY <1>2, <1>6, <2>4 DEF CompleteOne, lists
<1>7. CASE CompletionsDone
  <2>1. injected' = << >> /\ work'.injected = injected /\ work'.pending = work.pending
        /\ UNCHANGED <<pending, pub>>
    BY <1>0, <1>7 DEF CompletionsDone, WorkRec
  <2> QED
    BY <1>0, <1>1, <2>1
<1>8. CASE InjectedOne
  <2> DEFINE r == Head(work.injected)
  <2>1. /\ work.injected # << >> /\ work.injected \in Seq(Requests) /\ r \in Requests
        /\ work'.injected = Tail(work.injected) /\ work'.pending = work.pending
        /\ UNCHANGED <<pending, injected>>
    BY <1>0, <1>8 DEF InjectedOne, WorkRec, lists
  <2>2. Distinct(Tail(work.injected))
    BY <1>0, <2>1, DistinctOf
  <2>3. pub' = pub \/ Distinct(pub'.waiters)
    <3>1. \/ pub' = pub
          \/ Publishes[r] # None /\ BeginPublish(Publishes[r], TRUE, FALSE, "injected")
      BY <1>8 DEF InjectedOne
    <3>2. Publishes[r] # None => Publishes[r] \in Resources
      BY <2>1, RequestsAssumption
    <3> QED
      BY <1>0, <3>1, <3>2, WokenDistinct
  <2> QED
    BY <1>0, <2>1, <2>2, <2>3
<1>9. CASE ApplyOp
  <2> DEFINE c == Head(work.ops)
  <2>1. c.on \in Resources
    <3>1. c \in OpRec
      BY <1>0, <1>9 DEF ApplyOp, WorkRec
    <3> QED
      BY <3>1 DEF OpRec
  <2>2. pub' = pub \/ BeginPublish(c.on, c.ok, c.op = "register_async", "ops")
    BY <1>9 DEF ApplyOp
  <2>3. pub' = pub \/ Distinct(pub'.waiters)
    BY <1>0, <2>1, <2>2, WokenDistinct
  <2>4. work'.pending = work.pending /\ work'.injected = work.injected
    BY <1>0, <1>9 DEF ApplyOp, WorkRec
  <2> QED
    BY <1>2, <1>9, <2>3, <2>4 DEF ApplyOp, lists
<1>10. CASE RequeueWrite
  <2>1. /\ pub.waiters # << >> /\ pub.waiters \in Seq(Requests) /\ Waiter \in Requests
        /\ Waiter \in Elements(pub.waiters)
    BY <1>0, <1>10, ElementsOf DEF RequeueWrite, HandsOK, PubRec, Waiter
  <2>2. pub'.waiters = Tail(pub.waiters) /\ pending' = <<Waiter>> \o pending
    BY <1>0, <1>10 DEF RequeueWrite, HoldsOK, PubRec
  <2>3. Distinct(pub'.waiters)
    BY <1>0, <2>1, <2>2, DistinctOf
  <2>4. Listed["woken"] \cap Listed["pending"] = {}
    BY <1>0, Apart DEF Lists
  <2>5. Waiter \notin Elements(pending)
    BY <2>1, <2>4, ListedAt
  <2>6. Distinct(pending')
    BY <1>0, <2>1, <2>2, <2>5, DistinctOf DEF ListTypes
  <2> QED
    BY <1>0, <1>10, <2>3, <2>6 DEF RequeueWrite
<1>11. CASE FailWaiter
  <2>1. pub.waiters # << >> /\ pub.waiters \in Seq(Requests)
    BY <1>0, <1>11 DEF FailWaiter, PubRec
  <2>2. pub' = pub \/ pub'.waiters = Tail(pub.waiters)
    BY <1>0, <1>11 DEF FailWaiter, Crash, local, PubRec
  <2>3. pub' = pub \/ Distinct(pub'.waiters)
    BY <1>0, <2>1, <2>2, DistinctOf
  <2>4. UNCHANGED <<pending, injected, work>>
    BY <1>11 DEF FailWaiter, Crash, lists, local
  <2> QED
    BY <1>2, <2>3, <2>4
<1>12. CASE RequeueRead \/ PublishEnd
  <2>1. pub'.waiters = pub.waiters
    BY <1>0, <1>12 DEF RequeueRead, PublishEnd, NoPub, PubRec
  <2>2. UNCHANGED <<pending, injected, work>>
    BY <1>12 DEF RequeueRead, PublishEnd, lists
  <2> QED
    BY <1>0, <2>1, <2>2
<1>13. CASE CancelOne \/ Drain
  <2>1. work'.pending = work.pending /\ work'.injected = work.injected
    BY <1>0, <1>13 DEF CancelOne, Drain, Crash, local, WorkRec
  <2>2. UNCHANGED <<pending, injected, pub>>
    BY <1>13 DEF CancelOne, Drain, Crash, lists, local
  <2> QED
    BY <1>2, <2>1, <2>2
<1>14. CASE \/ UNCHANGED vars \/ Top \/ OnLoop \/ ExitTest \/ Wait \/ Tick \/ CancelsDone
            \/ DropCancelled \/ Admit \/ Launch \/ EnterRated \/ MoveRated \/ MergeRated
            \/ MoveWaiting("refresh") \/ LeaveWaiting("refresh", "inactive")
            \/ MoveWaiting("inactive") \/ LeaveWaiting("inactive", "perform")
            \/ PerformEnd \/ \E r \in Requests : TransferDone(r)
  <2>1. UNCHANGED <<pending, injected, work, pub>>
    BY <1>14 DEF vars, Top, OnLoop, ExitTest, Wait, Tick, CancelsDone, DropCancelled, Admit,
          Launch, EnterRated, MoveRated, MergeRated, MoveWaiting, LeaveWaiting,
          PerformEnd, TransferDone, lists, local
  <2> QED
    BY <1>2, <2>1
<1>15. CASE \/ Finish429 \/ FinishDelay \/ FinishRetry \/ FinishFinal \/ InjectedDone
            \/ OpsDone
  <2>1. UNCHANGED <<pending, injected, work, pub>>
    BY <1>15 DEF Finish429, FinishDelay, FinishRetry, FinishFinal, Finishes, Crash,
          InjectedDone, OpsDone, lists, local
  <2> QED
    BY <1>2, <2>1
<1>16. CASE Scheduler \/ Completions \/ ResourceOps
  BY <1>4, <1>5, <1>6, <1>7, <1>8, <1>9, <1>10, <1>11, <1>12, <1>13, <1>14, <1>15, <1>16
  DEF Scheduler, Completions, ResourceOps
<1> QED
  BY <1>3, <1>14, <1>16 DEF Next, Over, LoopStep

\* No request is twice in one list.
LEMMA NextLists ==
    ASSUME EInv, Disciplined, [Next]_vars
    PROVE  ListsOK'
<1>1. ASSUME NEW id \in Resources PROVE Distinct(table'[id].blocked)
  <2>1. /\ Partition(Spread(map, Listed, table), LiveOnes) /\ Distinct(table[id].blocked)
        /\ table[id].blocked \in Seq(Requests)
    BY Given DEF ListsOK, NodeRec
  <2>2. CASE table'[id].blocked = table[id].blocked \/ table'[id].blocked = << >>
    BY <2>1, <2>2 DEF Distinct
  <2>3. CASE cur.req \in Requests /\ table'[id].blocked = Append(table[id].blocked, cur.req)
    <3>1. cur.req \in Listed["hand"] /\ "hand" \in Lists
      BY <2>3, SetsAssumption DEF Listed, Lists
    <3>2. cur.req \notin Elements(table[id].blocked)
      BY <2>1, <3>1, Apart
    <3>3. Distinct(Append(table[id].blocked, cur.req))
      BY <2>1, <2>3, <3>2, DistinctOf
    <3> QED
      BY <2>3, <3>3
  <2> QED
    BY <2>2, <2>3, NextEffect, NextBlocked
<1> QED
  BY <1>1, NextDistinct DEF ListsOK

----------------------------------------------------------------------------
(* What the loop thread holds is empty where it does not use it. *)

\* The calls of the application.
LEMMA CallHolds ==
    ASSUME EInv, Disciplined, NEW c \in Calls, Call(c)
    PROVE  HoldsOK'
<1>0. HoldsOK /\ map \in [Maps -> SUBSET Requests]
  BY Given
<1>1. ASSUME UNCHANGED <<pc, map, msgs, work, cur, pub>>,
             pending' = pending \/ pc # "requeue"
      PROVE  HoldsOK'
  BY <1>0, <1>1 DEF HoldsOK, Publishing
<1>2. CASE RequestSubmit(c)
  <2>1. pc # "requeue"
    BY <1>2 DEF RequestSubmit, Makes, Disciplined, SubmitsSeen
  <2>2. UNCHANGED <<pc, map, msgs, work, cur, pub>>
    BY <1>2 DEF RequestSubmit, Enlist, local, sched
  <2> QED
    BY <1>1, <2>1, <2>2
<1>3. CASE LoopSubmit(c)
  <2>1. pc # "requeue"
    BY <1>3 DEF LoopSubmit, Makes, Disciplined, SubmitsSeen
  <2>2. UNCHANGED <<pc, map, msgs, work, cur, pub>>
    BY <1>3 DEF LoopSubmit, Enlist, local
  <2> QED
    BY <1>1, <2>1, <2>2
<1>4. CASE Cancel(c) \/ Inject(c) \/ Stop(c) \/ Post(c) \/ NodeCall(c)
  <2>1. UNCHANGED <<pc, map, msgs, work, cur, pub, pending>>
    BY <1>4 DEF Cancel, Inject, Stop, Post, NodeCall, lists, sched, local
  <2> QED
    BY <1>1, <2>1
<1>5. CASE PublishCall(c)
  <2>1. pc \in {"idle", "onloop", "finish"}
    <3>1. c.op \in LoopThread /\ pc \in Window[c.op]
      BY <1>5 DEF PublishCall, Makes, LoopThread
    <3> QED
      BY <3>1, CallsAssumption
  <2>2. /\ pc' = "publish" /\ pub'.back = pc /\ UNCHANGED <<map, msgs, work, cur>>
    BY <1>5 DEF PublishCall, BeginPublish, Goto
  <2> QED
    BY <1>0, <2>1, <2>2 DEF HoldsOK, Publishing
<1>6. CASE Run(c)
  <2>1. pc = "idle" /\ pc' = "top" /\ UNCHANGED <<map, msgs, work, cur, pub>>
    BY <1>6 DEF Run, Goto, sched, local
  <2> QED
    BY <1>0, <2>1 DEF HoldsOK, Publishing
<1>7. CASE DestroyLoop(c)
  <2>1. CASE Crash
    BY <2>1 DEF Crash, Goto, HoldsOK
  <2>2. CASE Teardown
    <3>1. /\ pc = "idle" /\ pc' = "destroyed" /\ map'["root"] = {} /\ msgs' = << >>
          /\ UNCHANGED <<work, cur, pub>>
      BY <1>7, <2>2, Zenon DEF DestroyLoop, Teardown, Goto, Maps, local
    <3> QED
      BY <1>0, <3>1 DEF HoldsOK, Publishing
  <2> QED
    BY <1>7, <2>1, <2>2 DEF DestroyLoop
<1> QED
  BY <1>2, <1>3, <1>4, <1>5, <1>6, <1>7 DEF Call

\* A publication starts at its loop over the waiters.
LEMMA PublishGoes ==
    ASSUME NEW id, NEW ok, NEW own, NEW back, BeginPublish(id, ok, own, back)
    PROVE  pc' = "publish" /\ pub'.back = back /\ pub'.id = id
BY DEF BeginPublish, Goto

\* A request put in another map, or taken from one, leaves the root alone.
LEMMA RootKept ==
    ASSUME NEW m \in [Maps -> SUBSET Requests], NEW r
    PROVE  /\ \A k \in {"rated", "queued", "refresh", "inactive"} :
                  Put(m, k, r)["root"] = m["root"]
           /\ \A k \in Maps : m["root"] = {} => Take(m, k, r)["root"] = {}
           /\ \A k \in Maps : Take(m, k, r) \in [Maps -> SUBSET Requests]
BY DEF Put, Take, Maps

\* So does starting one.
LEMMA StartRoot ==
    ASSUME NEW m \in [Maps -> SUBSET Requests], NEW r, NEW n, Start(r, m, n)
    PROVE  map'["root"] = m["root"] /\ msgs' = msgs
<1>1. msgs' = msgs /\ (map' = m \/ map' = Put(m, "rated", r) \/ map' = Put(m, "queued", r))
  BY DEF Start, StartRated, StartUnprepared, StartTransfer
<1> QED
  BY <1>1, RootKept

\* The steps of the scheduler.
LEMMA SchedulerHolds ==
    ASSUME EInv, \/ Scheduler \/ PerformEnd \/ \E r \in Requests : TransferDone(r)
                 \/ Top \/ OnLoop \/ ExitTest \/ Wait \/ Tick \/ UNCHANGED vars
    PROVE  HoldsOK'
<1>0. /\ HoldsOK /\ map \in [Maps -> SUBSET Requests] /\ work \in WorkRec
      /\ "root" \in Maps /\ "rated" \in Maps
  BY Given DEF LocalTypes, Maps
<1>1. CASE UNCHANGED vars \/ Tick
  <2>1. UNCHANGED <<pc, pending, map, msgs, work, cur, pub>>
    BY <1>1 DEF vars, Tick, lists, sched, local
  <2> QED
    BY <1>0, <2>1 DEF HoldsOK, Publishing
<1>2. CASE Top \/ OnLoop \/ ExitTest \/ Wait
  <2>1. /\ UNCHANGED <<map, msgs, work, cur, pub>>
        /\ pc \in {"top", "onloop", "exit", "wait"}
        /\ pc' \in {"onloop", "idle", "detach", "wait", "top"}
    BY <1>2 DEF Top, OnLoop, ExitTest, Wait, sched, local, Goto
  <2> QED
    BY <1>0, <2>1 DEF HoldsOK, Publishing
<1>3. CASE Detach
  <2>1. /\ UNCHANGED <<map, msgs, cur, pub>> /\ pc = "detach" /\ pc' = "cancelled"
        /\ work'.injected = work.injected /\ work'.ops = work.ops
    BY <1>0, <1>3 DEF Detach, sched, Goto, WorkRec
  <2> QED
    BY <1>0, <2>1 DEF HoldsOK, Publishing
<1>4. CASE CancelOne
  <2>1. CASE Crash
    BY <2>1 DEF Crash, Goto, HoldsOK
  <2>2. CASE ~Crash
    <3> DEFINE r == Head(work.cancelled)
               k == CancelledFrom(r)
    <3>1. /\ UNCHANGED <<pc, cur, pub>> /\ pc = "cancelled" /\ map' = Take(map, k, r)
          /\ \E n : Destroy(r, "cancelled", n)
          /\ work' = [work EXCEPT !.cancelled = Tail(@)]
      BY <1>4, <2>2 DEF CancelOne
    <3>2. /\ work'.injected = work.injected /\ work'.ops = work.ops
      BY <1>0, <3>1 DEF WorkRec
    <3>3. msgs' = msgs
      BY <3>1 DEF Destroy
    <3>4. map["root"] = {} /\ k \in Maps
      BY <1>0, <3>1 DEF HoldsOK, CancelledFrom, Home, Maps
    <3> HIDE DEF k
    <3>5. map'["root"] = {}
      BY <1>0, <3>1, <3>4, RootKept
    <3> QED
      BY <1>0, <3>1, <3>2, <3>3, <3>5 DEF HoldsOK, Publishing
  <2> QED
    BY <2>1, <2>2
<1>5. CASE CancelsDone
  <2>1. /\ UNCHANGED <<map, msgs, cur, pub, work>> /\ pc = "cancelled" /\ pc' = "pending"
    BY <1>5 DEF CancelsDone, sched, local, Goto
  <2> QED
    BY <1>0, <2>1 DEF HoldsOK, Publishing
<1>6. CASE TakePending
  <2>1. /\ UNCHANGED <<map, msgs, pub>> /\ pc = "pending" /\ pc' = "admit"
        /\ work'.injected = work.injected /\ work'.ops = work.ops
    BY <1>0, <1>6 DEF TakePending, Goto, WorkRec
  <2> QED
    BY <1>0, <2>1 DEF HoldsOK, Publishing
<1>7. CASE DropCancelled \/ Admit
  <2>1. /\ UNCHANGED <<map, msgs, work, pub>> /\ pc = "admit"
        /\ \/ pc' = "launch"
           \/ pc' = "pending" /\ cur'.req = None
    BY <1>7 DEF DropCancelled, Admit, Destroy, Goto, NoCur
  <2> QED
    BY <1>0, <2>1 DEF HoldsOK, Publishing
<1>8. CASE Launch
  <2>1. /\ UNCHANGED <<work, pub>> /\ pc = "launch" /\ pc' = "pending" /\ cur'.req = None
    BY <1>8 DEF Launch, Goto, NoCur
  <2>2. \/ Start(cur.req, map, num)
        \/ map' = Put(map, Home(cur.req), cur.req) /\ msgs' = msgs
    BY <1>8 DEF Launch
  <2>3. map["root"] = {}
    BY <1>0, <2>1 DEF HoldsOK
  <2>4. CASE Start(cur.req, map, num)
    <3>1. map'["root"] = map["root"] /\ msgs' = msgs
      BY <1>0, <2>4, StartRoot
    <3> QED
      BY <1>0, <2>1, <2>3, <3>1 DEF HoldsOK, Publishing
  <2>5. CASE map' = Put(map, Home(cur.req), cur.req) /\ msgs' = msgs
    <3>1. Home(cur.req) \in {"rated", "queued", "refresh", "inactive"}
      BY DEF Home
    <3>2. map'["root"] = map["root"]
      BY <1>0, <2>5, <3>1, RootKept
    <3> QED
      BY <1>0, <2>1, <2>3, <2>5, <3>2 DEF HoldsOK, Publishing
  <2> QED
    BY <2>2, <2>4, <2>5
<1>9. CASE EnterRated
  <2>1. /\ UNCHANGED <<work, pub, cur, msgs>> /\ pc = "pending" /\ pc' = "rated"
        /\ work.pending = << >>
    BY <1>9 DEF EnterRated, Goto, local
  <2> QED
    BY <1>0, <2>1 DEF HoldsOK, Publishing
<1>10. CASE MoveRated
  <2>1. UNCHANGED <<pc, work, pub, cur>> /\ pc = "rated"
    BY <1>10 DEF MoveRated, local
  <2>2. PICK r \in Firsts("root") : \/ Limit(r, "root", num)
                                    \/ Start(r, Take(map, "root", r), num)
    BY <1>10 DEF MoveRated
  <2>3. msgs' = msgs
    BY <2>2 DEF Limit, Start, StartRated, StartUnprepared, StartTransfer
  <2> QED
    BY <1>0, <2>1, <2>3 DEF HoldsOK, Publishing
<1>11. CASE MergeRated
  <2>1. /\ UNCHANGED <<work, pub, cur, msgs>> /\ pc = "rated" /\ pc' = "refresh"
        /\ map'["root"] = {}
    BY <1>0, <1>11 DEF MergeRated, Goto, local
  <2> QED
    BY <1>0, <2>1 DEF HoldsOK, Publishing
<1>12. ASSUME NEW k \in {"refresh", "inactive"}, MoveWaiting(k)
       PROVE  HoldsOK'
  <2>1. UNCHANGED <<pc, work, pub, cur>> /\ pc = k
    BY <1>12 DEF MoveWaiting, local
  <2>a. \E r \in Firsts(k) : \E n : Limit(r, k, n) \/ Start(r, Take(map, k, r), n)
    BY <1>12 DEF MoveWaiting
  <2>b. PICK r \in Firsts(k) : \E n : Limit(r, k, n) \/ Start(r, Take(map, k, r), n)
    BY <2>a
  <2>2. PICK n : Limit(r, k, n) \/ Start(r, Take(map, k, r), n)
    BY <2>b
  <2>3. map["root"] = {} /\ k \in Maps
    BY <1>0, <2>1 DEF HoldsOK, Maps
  <2> DEFINE m == Take(map, k, r)
  <2>4. m["root"] = {} /\ m \in [Maps -> SUBSET Requests]
    BY <1>0, <2>3, RootKept
  <2>5. (map' = Put(m, "rated", r) /\ msgs' = msgs) \/ Start(r, m, n)
    BY <2>2 DEF Limit
  <2> HIDE DEF m
  <2>6. map'["root"] = m["root"] /\ msgs' = msgs
    <3>1. CASE Start(r, m, n)
      BY <2>4, <3>1, StartRoot
    <3>2. CASE map' = Put(m, "rated", r) /\ msgs' = msgs
      BY <2>4, <3>2, RootKept
    <3> QED
      BY <2>5, <3>1, <3>2
  <2> QED
    BY <1>0, <2>1, <2>4, <2>6 DEF HoldsOK, Publishing
<1>13. CASE LeaveWaiting("refresh", "inactive") \/ LeaveWaiting("inactive", "perform")
  <2>1. /\ UNCHANGED <<map, msgs, work, pub, cur>> /\ pc \in {"refresh", "inactive"}
        /\ pc' \in {"inactive", "perform"}
    BY <1>13 DEF LeaveWaiting, Goto, sched, local
  <2> QED
    BY <1>0, <2>1 DEF HoldsOK, Publishing
<1>14. CASE PerformEnd
  <2>1. UNCHANGED <<map, msgs, work, pub, cur>> /\ pc = "perform" /\ pc' = "completions"
    BY <1>14 DEF PerformEnd, Goto, sched
  <2> QED
    BY <1>0, <2>1 DEF HoldsOK, Publishing
<1>15. CASE \E r \in Requests : TransferDone(r)
  <2>1. UNCHANGED <<pc, map, work, pub, cur>> /\ pc = "perform"
    BY <1>15 DEF TransferDone, local
  <2> QED
    BY <1>0, <2>1 DEF HoldsOK, Publishing
<1> QED
  BY <1>1, <1>2, <1>3, <1>4, <1>5, <1>6, <1>7, <1>8, <1>9, <1>10, <1>11, <1>12, <1>13,
     <1>14, <1>15 DEF Scheduler

\* The steps that handle completed transfers, injected requests and resources.
LEMMA CompletionHolds ==
    ASSUME EInv, Completions \/ ResourceOps
    PROVE  HoldsOK'
<1>0. /\ HoldsOK /\ map \in [Maps -> SUBSET Requests] /\ work \in WorkRec /\ pub \in PubRec
      /\ "root" \in Maps /\ "rated" \in Maps /\ "queued" \in Maps
      /\ pub.back \in Callers
  BY Given DEF LocalTypes, Maps, PubRec
<1>1. CASE CompleteOne
  <2>1. /\ UNCHANGED work /\ pc = "completions"
        /\ \/ pc' = "finish" /\ pub' = pub
           \/ pc' = "publish" /\ pub'.back = "finish"
    <3>1. /\ UNCHANGED work /\ pc = "completions"
          /\ \/ Goto("finish") /\ pub' = pub
             \/ \E id, ok : BeginPublish(id, ok, FALSE, "finish")
      BY <1>1 DEF CompleteOne
    <3> QED
      BY <3>1, PublishGoes DEF Goto
  <2>2. map' = Take(map, "queued", Head(msgs).req)
    BY <1>1 DEF CompleteOne
  <2>3. map["root"] = {}
    BY <1>0, <2>1 DEF HoldsOK
  <2>4. map'["root"] = {}
    BY <1>0, <2>2, <2>3, RootKept
  <2> QED
    BY <1>0, <2>1, <2>4 DEF HoldsOK, Publishing
<1>2. CASE CompletionsDone
  <2>1. /\ UNCHANGED <<map, msgs, pub, cur>> /\ pc = "completions" /\ pc' = "injected"
        /\ msgs = << >> /\ work'.pending = work.pending /\ work'.ops = work.ops
    BY <1>0, <1>2 DEF CompletionsDone, Goto, sched, WorkRec
  <2> QED
    BY <1>0, <2>1 DEF HoldsOK, Publishing
<1>3. ASSUME Finishes("completions"), msgs' = msgs,
             \/ map' = map
             \/ \E r : \E k \in {"rated", "queued", "refresh", "inactive"} :
                    map' = Put(map, k, r)
      PROVE  HoldsOK'
  <2>1. /\ UNCHANGED <<work, pub>> /\ pc = "finish" /\ pc' = "completions" /\ cur'.req = None
    BY <1>3 DEF Finishes, Goto, NoCur
  <2>2. map["root"] = {}
    BY <1>0, <2>1 DEF HoldsOK
  <2>3. map'["root"] = map["root"]
    BY <1>0, <1>3, RootKept
  <2> QED
    BY <1>0, <1>3, <2>1, <2>2, <2>3 DEF HoldsOK, Publishing
<1>4. CASE Finish429
  <2>1. msgs' = msgs /\ map' = Put(map, "rated", cur.req) /\ Finishes("completions")
    BY <1>4 DEF Finish429
  <2> QED
    BY <1>3, <2>1
<1>5. ASSUME NEW r, NEW q, Requeue(r, q), Finishes("completions")
      PROVE  HoldsOK'
  <2>1. msgs' = msgs /\ map' = Put(map, Home(r), r)
        /\ Home(r) \in {"rated", "queued", "refresh", "inactive"}
    BY <1>5 DEF Requeue, Home
  <2> QED
    BY <1>3, <1>5, <2>1
<1>6. CASE FinishDelay
  BY <1>5, <1>6 DEF FinishDelay
<1>7. CASE FinishRetry
  <2>1. CASE Crash
    BY <2>1 DEF Crash, Goto, HoldsOK
  <2>2. CASE Finishes("completions") /\ RetryLater(cur.req)
    BY <1>5, <2>2 DEF RetryLater
  <2> QED
    BY <1>7, <2>1, <2>2 DEF FinishRetry
<1>8. CASE FinishFinal
  <2>1. CASE cur.req \in Refreshing
    BY <1>5, <1>8, <2>1 DEF FinishFinal
  <2>2. CASE cur.req \notin Refreshing
    BY <1>3, <1>8, <2>2 DEF FinishFinal, Destroy
  <2> QED
    BY <2>1, <2>2
<1>9. CASE InjectedOne
  <2>1. /\ UNCHANGED <<map, msgs, cur>> /\ pc = "injected"
        /\ \/ pc' = pc /\ pub' = pub
           \/ \E id : BeginPublish(id, TRUE, FALSE, "injected")
        /\ work' = [work EXCEPT !.injected = Tail(@)]
    BY <1>9 DEF InjectedOne
  <2>2. work'.pending = work.pending /\ work'.ops = work.ops
    BY <1>0, <2>1 DEF WorkRec
  <2>3. (pc' = pc /\ pub' = pub) \/ (pc' = "publish" /\ pub'.back = "injected")
    BY <2>1, PublishGoes
  <2> QED
    BY <1>0, <2>1, <2>2, <2>3 DEF HoldsOK, Publishing
<1>10. CASE InjectedDone
  <2>1. /\ UNCHANGED <<map, msgs, cur, pub, work>> /\ pc = "injected" /\ pc' = "drain"
        /\ work.injected = << >>
    BY <1>10 DEF InjectedDone, Goto, sched, local
  <2> QED
    BY <1>0, <2>1 DEF HoldsOK, Publishing
<1>11. CASE Drain
  <2>1. /\ UNCHANGED <<map, msgs, cur, pub>> /\ pc = "drain" /\ pc' = "ops"
        /\ work'.pending = work.pending /\ work'.injected = work.injected
    BY <1>0, <1>11 DEF Drain, Goto, sched, WorkRec
  <2> QED
    BY <1>0, <2>1 DEF HoldsOK, Publishing
<1>12. CASE ApplyOp
  <2>1. /\ UNCHANGED <<map, msgs, cur>> /\ pc = "ops"
        /\ work'.pending = work.pending /\ work'.injected = work.injected
        /\ \/ pc' = pc /\ pub' = pub
           \/ pc' = "publish" /\ pub'.back = "ops"
    BY <1>0, <1>12 DEF ApplyOp, BeginPublish, Goto, WorkRec
  <2> QED
    BY <1>0, <2>1 DEF HoldsOK, Publishing
<1>13. CASE OpsDone
  <2>1. /\ UNCHANGED <<map, msgs, cur, pub, work>> /\ pc = "ops" /\ pc' = "exit"
        /\ work.ops = << >>
    BY <1>13 DEF OpsDone, Goto, sched, local
  <2> QED
    BY <1>0, <2>1 DEF HoldsOK, Publishing
<1>14. CASE RequeueRead
  <2>1. /\ UNCHANGED <<map, msgs, cur, work, pending>> /\ pc = "publish" /\ pc' = "requeue"
        /\ pub'.back = pub.back /\ pub'.snap = pending
    BY <1>0, <1>14 DEF RequeueRead, Goto, sched, lists, PubRec
  <2> QED
    BY <1>0, <2>1 DEF HoldsOK, Publishing
<1>15. CASE RequeueWrite
  <2>1. /\ UNCHANGED <<map, msgs, cur, work>> /\ pc = "requeue" /\ pc' = "publish"
        /\ pub'.back = pub.back
    BY <1>0, <1>15 DEF RequeueWrite, Goto, sched, PubRec
  <2> QED
    BY <1>0, <2>1 DEF HoldsOK, Publishing
<1>16. CASE FailWaiter
  <2>1. CASE Crash
    BY <2>1 DEF Crash, Goto, HoldsOK
  <2>2. CASE ~Crash
    <3>1. /\ UNCHANGED <<pc, map, msgs, cur, work>> /\ pc = "publish"
          /\ pub'.back = pub.back
      BY <1>0, <1>16, <2>2 DEF FailWaiter, Destroy, PubRec
    <3> QED
      BY <1>0, <3>1 DEF HoldsOK, Publishing
  <2> QED
    BY <2>1, <2>2
<1>17. CASE PublishEnd
  <2>1. /\ UNCHANGED <<map, msgs, cur, work>> /\ pc = "publish" /\ pc' = pub.back
        /\ pub' = NoPub
    BY <1>17 DEF PublishEnd, Goto, sched
  <2>2. pub'.waiters = << >> /\ pub'.back = "idle"
    BY <2>1 DEF NoPub
  <2> QED
    BY <1>0, <2>1, <2>2 DEF HoldsOK, Publishing, Callers
<1> QED
  BY <1>1, <1>2, <1>4, <1>6, <1>7, <1>8, <1>9, <1>10, <1>11, <1>12, <1>13, <1>14, <1>15,
     <1>16, <1>17 DEF Completions, ResourceOps

\* Every step.
LEMMA NextHolds ==
    ASSUME EInv, Disciplined, [Next]_vars
    PROVE  HoldsOK'
BY CallHolds, SchedulerHolds, CompletionHolds DEF Next, LoopStep, Over

----------------------------------------------------------------------------
(* The messages of libcurl, and what is new. *)

\* A message is read while its request is still queued.
LEMMA MsgsKept ==
    ASSUME MsgsOK, msgs' = msgs, msgs = << >> \/ map["queued"] \subseteq map'["queued"]
    PROVE  MsgsOK'
BY DEF MsgsOK

\* Every step.
LEMMA NextMsgs ==
    ASSUME EInv, Disciplined, [Next]_vars
    PROVE  MsgsOK'
<1>0. /\ HoldsOK /\ MsgsOK /\ map \in [Maps -> SUBSET Requests] /\ msgs \in Seq(MsgRec)
      /\ "queued" \in Maps
  BY Given DEF SchedTypes, Maps
<1>1. CASE \E c \in Calls : Call(c)
  <2> PICK c \in Calls : Call(c)
    BY <1>1
  <2>1. CASE Teardown
    <3>1. msgs' = << >>
      BY <2>1, Zenon DEF Teardown
    <3> QED
      BY <3>1 DEF MsgsOK
  <2>2. CASE ~Teardown
    <3>1. msgs' = msgs /\ map' = map
      BY <2>2 DEF Call, RequestSubmit, LoopSubmit, Enlist, Cancel, Inject, Stop, Post,
            NodeCall, PublishCall, Run, DestroyLoop, Crash, sched
    <3> QED
      BY <1>0, <3>1, MsgsKept
  <2> QED
    BY <2>1, <2>2
<1>2. CASE Scheduler
  <2>1. CASE Crash
    BY <1>0, <2>1, MsgsKept DEF Crash, sched
  <2>2. CASE ~Crash
    <3>1. pc \in {"detach", "cancelled", "pending", "admit", "launch", "rated", "refresh",
                  "inactive"}
      BY <1>2 DEF Scheduler, Detach, CancelOne, CancelsDone, TakePending, DropCancelled,
            Admit, Launch, EnterRated, MoveRated, MergeRated, MoveWaiting, LeaveWaiting
    <3>2. msgs = << >>
      BY <1>0, <3>1 DEF HoldsOK, Publishing
    <3>3. \A r, m, n : Start(r, m, n) => msgs' = msgs
      BY DEF Start, StartRated, StartUnprepared, StartTransfer
    <3>4. \A r, how, n : Destroy(r, how, n) => msgs' = msgs
      BY DEF Destroy
    <3>5. msgs' = msgs
      BY <1>2, <2>2, <3>3, <3>4 DEF Scheduler, Detach, CancelOne, CancelsDone, TakePending,
            DropCancelled, Admit, Launch, EnterRated, MoveRated, MergeRated, MoveWaiting,
            LeaveWaiting, Limit, sched
    <3> QED
      BY <1>0, <3>2, <3>5, MsgsKept
  <2> QED
    BY <2>1, <2>2
<1>3. CASE \E r \in Requests : TransferDone(r)
  <2>1. PICK r \in Requests, x \in Results :
            /\ r \in Transferring /\ msgs' = Append(msgs, [req |-> r, result |-> x])
            /\ map' = map
    <3>1. PICK r \in Requests : TransferDone(r)
      BY <1>3
    <3>2. Outcomes[r] \subseteq Results
      BY RequestsAssumption
    <3> QED
      BY <3>1, <3>2 DEF TransferDone
  <2> DEFINE m == [req |-> r, result |-> x]
  <2>2. m \in MsgRec /\ m.req = r
    BY DEF MsgRec
  <2>3. msgs' = Append(msgs, m)
    BY <2>1
  <2> HIDE DEF m
  <2>4. /\ Len(msgs) \in Nat /\ DOMAIN msgs = 1..Len(msgs)
        /\ DOMAIN msgs' = 1..(Len(msgs) + 1) /\ msgs'[Len(msgs) + 1] = m
        /\ \A i \in 1..Len(msgs) : msgs'[i] = msgs[i]
    BY <1>0, <2>2, <2>3
  <2>5. r \in map["queued"] /\ \A i \in DOMAIN msgs : msgs[i].req # r
    BY <2>1 DEF Transferring
  <2>6. \A i \in 1..(Len(msgs) + 1) : i \in 1..Len(msgs) \/ i = Len(msgs) + 1
    BY <2>4
  <2>7. \A i, j \in 1..Len(msgs) :
            msgs[i].req \in map["queued"] /\ (msgs[i].req = msgs[j].req => i = j)
    BY <1>0, <2>4 DEF MsgsOK
  <2>8. \A i, j \in DOMAIN msgs' : msgs'[i].req \in map["queued"]
                                   /\ (msgs'[i].req = msgs'[j].req => i = j)
    BY <2>2, <2>4, <2>5, <2>6, <2>7
  <2> QED
    BY <2>1, <2>8 DEF MsgsOK
<1>4. CASE CompleteOne
  <2> DEFINE r == Head(msgs).req
             q == map["queued"]
  <2>1. msgs # << >> /\ msgs' = Tail(msgs) /\ map' = Take(map, "queued", r)
    BY <1>4 DEF CompleteOne
  <2>2. map'["queued"] = q \ {r}
    BY <1>0, <2>1 DEF Take
  <2>3. /\ Len(msgs) \in Nat /\ DOMAIN msgs = 1..Len(msgs) /\ Len(msgs) > 0
        /\ DOMAIN msgs' = 1..(Len(msgs) - 1) /\ msgs[1].req = r
        /\ \A i \in 1..(Len(msgs) - 1) : msgs'[i] = msgs[i + 1]
    BY <1>0, <2>1
  <2> HIDE DEF r, q
  <2>4. \A i, j \in 1..Len(msgs) : msgs[i].req \in q /\ (msgs[i].req = msgs[j].req => i = j)
    BY <1>0, <2>3 DEF MsgsOK, q
  <2>5. \A i \in 1..(Len(msgs) - 1) : msgs[i + 1].req \in q /\ msgs[i + 1].req # r
    <3> TAKE i \in 1..(Len(msgs) - 1)
    <3>1. i + 1 \in 1..Len(msgs) /\ 1 \in 1..Len(msgs) /\ i + 1 # 1
      BY <2>3
    <3> QED
      BY <2>3, <2>4, <3>1
  <2>6. \A i, j \in 1..(Len(msgs) - 1) : msgs[i + 1].req = msgs[j + 1].req => i = j
    <3> TAKE i, j \in 1..(Len(msgs) - 1)
    <3>1. i + 1 \in 1..Len(msgs) /\ j + 1 \in 1..Len(msgs)
      BY <2>3
    <3>2. msgs[i + 1].req = msgs[j + 1].req => i + 1 = j + 1
      BY <2>4, <3>1
    <3> QED
      BY <2>3, <3>2
  <2> QED
    BY <2>2, <2>3, <2>5, <2>6 DEF MsgsOK
<1>5. CASE Finish429 \/ FinishDelay \/ FinishRetry \/ FinishFinal
  <2>1. \A m, k, r : k \in Maps /\ m \in [Maps -> SUBSET Requests]
                         => m["queued"] \subseteq Put(m, k, r)["queued"]
    BY <1>0 DEF Put
  <2>2. \A r : Home(r) \in Maps /\ "rated" \in Maps
    BY DEF Home, Maps
  <2>3. msgs' = msgs /\ (map' = map \/ \E k \in Maps, r \in Requests \cup {None} :
                                           map' = Put(map, k, r))
    <3>1. cur.req \in Requests \cup {None}
      BY Given DEF LocalTypes, CurRec
    <3>2. \A q : Requeue(cur.req, q) => msgs' = msgs /\ map' = Put(map, Home(cur.req), cur.req)
      BY DEF Requeue
    <3> QED
      BY <1>5, <2>2, <3>1, <3>2 DEF Finish429, FinishDelay, FinishRetry, RetryLater,
            FinishFinal, Destroy, Crash, sched
  <2>4. map["queued"] \subseteq map'["queued"]
    BY <1>0, <2>1, <2>3
  <2> QED
    BY <1>0, <2>3, <2>4, MsgsKept
<1>6. CASE CompletionsDone \/ InjectedOne \/ InjectedDone \/ ResourceOps
  <2>1. msgs' = msgs /\ map' = map
    BY <1>6 DEF CompletionsDone, InjectedOne, InjectedDone, ResourceOps, Drain, ApplyOp,
          OpsDone, RequeueRead, RequeueWrite, FailWaiter, PublishEnd, Destroy, Crash, sched
  <2> QED
    BY <1>0, <2>1, MsgsKept
<1>7. CASE \/ UNCHANGED vars \/ Top \/ OnLoop \/ PerformEnd \/ ExitTest \/ Wait \/ Tick
  <2>1. msgs' = msgs /\ map' = map
    BY <1>7 DEF vars, Top, OnLoop, PerformEnd, ExitTest, Wait, Tick, sched
  <2> QED
    BY <1>0, <2>1, MsgsKept
<1> QED
  BY <1>1, <1>2, <1>3, <1>4, <1>5, <1>6, <1>7 DEF Next, LoopStep, Completions, Over

\* The calls that were made are not made again.
LEMMA TodoShrinks == [Next]_vars => todo' \subseteq todo
<1>1. ASSUME NEW c \in Calls, Call(c) PROVE todo' \subseteq todo
  BY <1>1 DEF Call, RequestSubmit, LoopSubmit, Cancel, Inject, Stop, Post, NodeCall,
        PublishCall, Run, DestroyLoop, Makes, Crash
<1>2. Scheduler => todo' = todo
  BY DEF Scheduler, Detach, CancelOne, CancelsDone, TakePending, DropCancelled, Admit,
        Launch, EnterRated, MoveRated, MergeRated, MoveWaiting, LeaveWaiting, Crash
<1>3. Completions \/ ResourceOps => todo' = todo
  BY DEF Completions, CompleteOne, CompletionsDone, Finish429, FinishDelay, FinishRetry,
        FinishFinal, InjectedOne, InjectedDone, Finishes, ResourceOps, Drain, ApplyOp,
        OpsDone, RequeueRead, RequeueWrite, FailWaiter, PublishEnd, Crash
<1>4. \/ UNCHANGED vars \/ Top \/ OnLoop \/ PerformEnd \/ ExitTest \/ Wait \/ Tick
      \/ (\E r \in Requests : TransferDone(r))
      => todo' = todo
  BY DEF vars, Top, OnLoop, PerformEnd, ExitTest, Wait, Tick, TransferDone
<1> QED
  BY <1>1, <1>2, <1>3, <1>4 DEF Next, LoopStep, Over

\* What is still to be submitted is new, and what is new holds nothing.
LEMMA NextFresh ==
    ASSUME EInv, Disciplined, [Next]_vars
    PROVE  FreshOK'
<1>0. FreshOK /\ req \in [Requests -> RequestRec] /\ todo' \subseteq todo /\ todo \subseteq Calls
  BY Given, TodoShrinks DEF IInv, TypeOK, ControlTypes
<1>1. \A c \in Calls : c.op \in Submits => c.on \in Requests
  BY CallsAssumption DEF Submits
<1>2. CASE Quiet
  <2>1. ASSUME NEW c \in todo', c.op \in Submits PROVE req'[c.on].life = "new"
    <3>1. c \in todo /\ c.on \in Requests /\ req[c.on].life = "new"
      BY <1>0, <1>1, <2>1 DEF FreshOK
    <3>2. ~Submitted(c.on)
      BY <1>0, <2>1, <3>1 DEF Submitted, Disciplined, SubmitsOnce
    <3> QED
      BY <1>2, <3>1, <3>2 DEF Quiet
  <2>2. \A r \in Requests : req'[r].life = "new" => ~req'[r].retained
    BY <1>0, <1>2 DEF Quiet, FreshOK
  <2> QED
    BY <2>1, <2>2 DEF FreshOK
<1>3. ASSUME \A s \in Requests : \/ req'[s].life \in Ended \cup {"live"} /\ req[s].life = "live"
                                 \/ req'[s] = req[s]
      PROVE  FreshOK'
  <2>1. \A s \in Requests : /\ req[s].life = "new" => req'[s] = req[s]
                            /\ req'[s].life = "new" => req'[s] = req[s]
    BY <1>3 DEF Ended
  <2> QED
    BY <1>0, <1>1, <2>1 DEF FreshOK
<1>4. CASE Gone \/ \E r \in Requests : Dies(r)
  BY <1>3, <1>4 DEF Gone, Dies
<1>5. ASSUME NEW r \in Requests, Admits(r) PROVE FreshOK'
  <2> DEFINE q == [req[r] EXCEPT !.retained = @ \/ Deps[r] # {}]
  <2>1. q.life = "live" /\ req' = [req EXCEPT ![r] = q] /\ req[r].life = "live"
    BY <1>0, <1>5 DEF Admits, RequestRec
  <2> HIDE DEF q
  <2>2. \A s \in Requests : req'[s] = IF s = r THEN q ELSE req[s]
    BY <1>0, <2>1
  <2> QED
    BY <1>3, <2>1, <2>2
<1> QED
  BY <1>2, <1>4, <1>5, NextEffect DEF Effect

\* The part of the invariant about the places of requests.
LEMMA NextPlacesInv == EInv /\ Disciplined /\ [Next]_vars => PlacesInv'
BY NextPlaces, NextLists, NextHolds, NextMsgs, NextFresh DEF PlacesInv
=============================================================================
