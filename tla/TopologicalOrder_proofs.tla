------------------------ MODULE TopologicalOrder_proofs ------------------------
(***************************************************************************)
(* Kahn's algorithm as TaskGraph.topological_order runs it, for any list   *)
(* of node ids and any list of edges.  The inductive invariant counts, for *)
(* each id, the edges into it that are still open: an id is ready or       *)
(* ordered exactly when none is.                                           *)
(***************************************************************************)
EXTENDS TopologicalOrder, TLAPS, FiniteSetTheorems, FunctionTheorems, SequenceTheorems,
        WellFoundedInduction

-----------------------------------------------------------------------------
(* Numbers and lists *)

LEMMA LeastNatural ==
    ASSUME NEW S, S \subseteq Nat, S # {}
    PROVE  \E least \in S : \A k \in S : least <= k
<1> DEFINE R == OpToRel(<, Nat)
<1>1. IsWellFoundedOn(R, Nat)
    BY NatLessThanWellFounded
<1>2. PICK least \in S : \A k \in S : <<k, least>> \notin R
    <2> HIDE DEF R
    <2>1. QED  BY <1>1, WFMin
<1>3. ASSUME NEW k \in S PROVE least <= k
    <2>1. <<k, least>> \in Nat \X Nat /\ ~(k < least)
        BY <1>2, <1>3 DEF OpToRel
    <2>2. QED  BY <2>1
<1>4. QED  BY <1>2, <1>3

LEMMA MinIsLeast ==
    ASSUME NEW S, S \subseteq Nat, S # {}
    PROVE  Min(S) \in S
<1>1. \E least \in S : \A k \in S : least <= k
    BY LeastNatural
<1>2. QED  BY <1>1 DEF Min

\* InOrder lists each place of a finite set once.
LEMMA InOrderLists ==
    ASSUME NEW places, places \subseteq Nat, IsFiniteSet(places)
    PROVE  /\ Cardinality(places) \in Nat
           /\ InOrder(places) \in Bijection(1 .. Cardinality(places), places)
<1> DEFINE N == Cardinality(places)
           Upto(i) == {j \in places : j <= i}
           rank == [i \in places |-> Cardinality(Upto(i))]
<1>1. N \in Nat /\ IsFiniteSet(1 .. N) /\ Cardinality(1 .. N) = N
    BY FS_CardinalityType, FS_Interval
<1>2. ASSUME NEW i \in places
      PROVE  IsFiniteSet(Upto(i)) /\ Cardinality(Upto(i)) \in 1 .. N
    <2>1. Upto(i) \subseteq places /\ i \in Upto(i)
        BY <1>2
    <2> HIDE DEF Upto
    <2>2. /\ IsFiniteSet(Upto(i)) /\ Cardinality(Upto(i)) <= N
          /\ Cardinality(Upto(i)) \in Nat /\ Cardinality(Upto(i)) # 0
        BY <2>1, FS_Subset, FS_CardinalityType, FS_EmptySet
    <2>3. QED  BY <1>1, <2>2
<1>3. rank \in [places -> 1 .. N]
    BY <1>2
<1>4. ASSUME NEW i \in places, NEW k \in places, i < k
      PROVE  rank[i] # rank[k]
    <2>1. Upto(i) \subseteq Upto(k) /\ k \in Upto(k) /\ k \notin Upto(i)
        <3>1. i \in Nat /\ k \in Nat /\ \A j \in places : j \in Nat
            OBVIOUS
        <3>2. \A j \in places : j <= i => j <= k
            BY <1>4, <3>1
        <3>3. k <= k /\ ~(k <= i)
            BY <1>4, <3>1
        <3>4. QED  BY <3>2, <3>3
    <2>2. IsFiniteSet(Upto(k))
        BY <1>2
    <2>3. Cardinality(Upto(i)) # Cardinality(Upto(k))
        <3> HIDE DEF Upto
        <3>1. QED  BY <2>1, <2>2, FS_Subset
    <2>4. QED  BY <2>3
<1> HIDE DEF N
<1>5. rank \in Injection(places, 1 .. N)
    <2>1. \A i, k \in places : i < k \/ k < i \/ i = k
        OBVIOUS
    <2> HIDE DEF rank
    <2>2. \A i, k \in places : rank[i] = rank[k] => i = k
        BY <1>4, <2>1
    <2>3. QED  BY <1>3, <2>2 DEF Injection, IsInjective
<1>6. rank \in Surjection(places, 1 .. N)
    <2> HIDE DEF rank
    <2>1. QED  BY <1>1, <1>5, FS_Injection DEF N
<1>7. ASSUME NEW n \in 1 .. N
      PROVE  InOrder(places)[n] \in places /\ rank[InOrder(places)[n]] = n
    <2>1. \E i \in places : rank[i] = n
        <3> HIDE DEF rank
        <3>1. QED  BY <1>6, <1>7 DEF Surjection
    <2>2. \E i \in places : Cardinality(Upto(i)) = n
        BY <2>1
    <2>3. InOrder(places)[n] = CHOOSE i \in places : Cardinality(Upto(i)) = n
        BY DEF InOrder, N
    <2> HIDE DEF Upto
    <2>4. InOrder(places)[n] \in places /\ Cardinality(Upto(InOrder(places)[n])) = n
        BY <2>2, <2>3
    <2>5. QED  BY <2>4
<1> DEFINE f == InOrder(places)
<1>8. f = [n \in 1 .. N |-> f[n]]
    <2> DEFINE nth(n) == CHOOSE i \in places : Cardinality(Upto(i)) = n
    <2>1. f = [n \in 1 .. N |-> nth(n)]
        BY DEF InOrder, N
    <2> HIDE DEF f, nth
    <2>2. QED  BY <2>1
<1> HIDE DEF rank, f
<1>9. f \in [1 .. N -> places]
    BY <1>7, <1>8 DEF f
<1>10. \A n, m \in 1 .. N : f[n] = f[m] => n = m
    BY <1>7 DEF f
<1>11. \A i \in places : \E n \in 1 .. N : f[n] = i
    <2>1. ASSUME NEW i \in places
          PROVE  rank[i] \in 1 .. N /\ f[rank[i]] = i
        <3>1. rank[i] \in 1 .. N
            BY <1>3
        <3>2. f[rank[i]] \in places /\ rank[f[rank[i]]] = rank[i]
            BY <1>7, <3>1 DEF f
        <3>3. QED  BY <1>5, <3>1, <3>2 DEF Injection, IsInjective
    <2>2. QED  BY <2>1
<1>12. QED
    BY <1>1, <1>9, <1>10, <1>11 DEF Bijection, Injection, IsInjective, Surjection, f, N

Distinct(list) == \A i, j \in DOMAIN list : list[i] = list[j] => i = j

\* A list without repetitions is as long as it has members.
LEMMA DistinctLength ==
    ASSUME NEW T, NEW list \in Seq(T), Distinct(list)
    PROVE  /\ ToSet(list) \subseteq T
           /\ IsFiniteSet(ToSet(list)) /\ Cardinality(ToSet(list)) = Len(list)
<1>1. Len(list) \in Nat /\ DOMAIN list = 1 .. Len(list)
    OBVIOUS
<1>2. list \in Surjection(1 .. Len(list), ToSet(list))
    BY <1>1 DEF Surjection, ToSet
<1>3. list \in Injection(1 .. Len(list), ToSet(list))
    BY <1>1, <1>2 DEF Injection, IsInjective, Surjection, Distinct
<1>4. ToSet(list) \subseteq T
    BY <1>1 DEF ToSet
<1>5. IsFiniteSet(1 .. Len(list)) /\ Cardinality(1 .. Len(list)) = Len(list)
    BY <1>1, FS_Interval
<1>6. QED  BY <1>2, <1>3, <1>4, <1>5, FS_Surjection

\* A list has at most as many members as it is long.
LEMMA AtMostLength ==
    ASSUME NEW T, NEW list \in Seq(T)
    PROVE  /\ IsFiniteSet(ToSet(list)) /\ Cardinality(ToSet(list)) \in Nat
           /\ Cardinality(ToSet(list)) <= Len(list)
<1>1. Len(list) \in Nat /\ DOMAIN list = 1 .. Len(list)
    OBVIOUS
<1>2. list \in Surjection(1 .. Len(list), ToSet(list))
    BY <1>1 DEF Surjection, ToSet
<1>3. IsFiniteSet(1 .. Len(list)) /\ Cardinality(1 .. Len(list)) = Len(list)
    BY <1>1, FS_Interval
<1>4. IsFiniteSet(ToSet(list)) /\ Cardinality(ToSet(list)) <= Len(list)
    BY <1>2, <1>3, FS_Surjection
<1>5. QED  BY <1>4, FS_CardinalityType

\* Appending an element, and taking the first off a list without repetitions.
LEMMA AppendDistinct ==
    ASSUME NEW T, NEW list \in Seq(T), NEW x \in T
    PROVE  /\ Append(list, x) \in Seq(T)
           /\ DOMAIN Append(list, x) = DOMAIN list \cup {Len(list) + 1}
           /\ \A i \in DOMAIN list : i \in Nat /\ i < Len(list) + 1 /\ Append(list, x)[i] = list[i]
           /\ Append(list, x)[Len(list) + 1] = x
           /\ ToSet(Append(list, x)) = ToSet(list) \cup {x}
           /\ Distinct(list) /\ x \notin ToSet(list) => Distinct(Append(list, x))
<1> DEFINE new == Append(list, x)
<1>1. /\ new \in Seq(T) /\ DOMAIN new = DOMAIN list \cup {Len(list) + 1}
      /\ Len(list) + 1 \notin DOMAIN list
      /\ \A i \in DOMAIN list : i \in Nat /\ i < Len(list) + 1 /\ new[i] = list[i]
      /\ new[Len(list) + 1] = x
    OBVIOUS
<1> HIDE DEF new
<1>2. ToSet(new) = ToSet(list) \cup {x}
    BY <1>1 DEF ToSet
<1>3. Distinct(list) /\ x \notin ToSet(list) => Distinct(new)
    BY <1>1 DEF Distinct, ToSet
<1>4. QED  BY <1>1, <1>2, <1>3 DEF new

LEMMA TailDistinct ==
    ASSUME NEW T, NEW list \in Seq(T), list # <<>>, Distinct(list)
    PROVE  /\ Head(list) \in T /\ Tail(list) \in Seq(T)
           /\ ToSet(list) = ToSet(Tail(list)) \cup {Head(list)}
           /\ Head(list) \notin ToSet(Tail(list))
           /\ Distinct(Tail(list))
<1> DEFINE rest == Tail(list)
<1>1. /\ Len(list) \in Nat /\ Len(list) >= 1 /\ DOMAIN list = 1 .. Len(list)
      /\ rest \in Seq(T) /\ DOMAIN rest = 1 .. Len(list) - 1
      /\ \A i \in DOMAIN rest : rest[i] = list[i + 1]
      /\ Head(list) = list[1] /\ Head(list) \in T
    OBVIOUS
<1> HIDE DEF rest
<1>2. \A i \in DOMAIN list : i # 1 => i - 1 \in DOMAIN rest /\ list[i] = rest[i - 1]
    BY <1>1
<1>3. \A i \in DOMAIN rest : i + 1 \in DOMAIN list /\ i + 1 # 1
    BY <1>1
<1>4. ToSet(list) = ToSet(rest) \cup {Head(list)}
    <2>1. ASSUME NEW i \in DOMAIN list PROVE list[i] \in ToSet(rest) \cup {Head(list)}
        BY <1>1, <1>2 DEF ToSet
    <2>2. ASSUME NEW i \in DOMAIN rest PROVE rest[i] \in ToSet(list)
        BY <1>1, <1>3 DEF ToSet
    <2>3. Head(list) \in ToSet(list)
        BY <1>1 DEF ToSet
    <2>4. QED  BY <2>1, <2>2, <2>3 DEF ToSet
<1>5. Head(list) \notin ToSet(rest)
    BY <1>1, <1>3 DEF ToSet, Distinct
<1>6. Distinct(rest)
    BY <1>1, <1>3 DEF Distinct
<1>7. QED  BY <1>1, <1>4, <1>5, <1>6 DEF rest

-----------------------------------------------------------------------------
(* The call *)

\* Edges into id that still hold it back, when done is ordered and rest are
\* the edges of the last ordered id not yet relaxed.
Open(id, done, rest) == {i \in InEdges(id) : edges[i].before \notin done \/ i \in rest}

\* How far the call has come: counts are those of the open edges, an id is
\* ready or ordered once none is left, and what is ordered is in order.
Progress(ord, rdy, rest, degree) ==
    /\ ord \in Seq(Ids) /\ rdy \in Seq(Ids) /\ Distinct(ord) /\ Distinct(rdy)
    /\ ToSet(ord) \cap ToSet(rdy) = {}
    /\ rest \subseteq DOMAIN edges /\ \A i \in rest : edges[i].before \in ToSet(ord)
    /\ DOMAIN degree = Ids
    /\ \A id \in Ids :
          /\ degree[id] = Cardinality(Open(id, ToSet(ord), rest))
          /\ id \in ToSet(ord) \cup ToSet(rdy) <=> Open(id, ToSet(ord), rest) = {}
    /\ \A i \in DOMAIN ord : \A k \in InEdges(ord[i]) :
          \E j \in DOMAIN ord : j < i /\ ord[j] = edges[k].before

Given == nodes \in Seq(Ids) /\ edges \in Seq(ToSet(edges))

\* A finished call that refused was right to (the last conjunct): the cycle is
\* in the graph, which no step changes.
CallInv ==
    /\ Given
    /\ result \in {"building", "running", "ordered", "cycle", "key_error"}
    /\ result \in {"building", "key_error"} => order = <<>> /\ ready = <<>> /\ relaxing = {}
    /\ result \notin {"building", "key_error"} =>
          ~Dangling /\ Progress(order, ready, relaxing, indegree)
    /\ result = "ordered" => Len(order) = Len(nodes)
    /\ RefusesOnlyUnorderable

LEMMA FiniteGraph ==
    ASSUME Given
    PROVE  /\ IsFiniteSet(DOMAIN edges) /\ DOMAIN edges \subseteq Nat
           /\ IsFiniteSet(Ids)
           /\ \A id : IsFiniteSet(InEdges(id))
           /\ \A id, done, rest : IsFiniteSet(Open(id, done, rest))
<1>1. Len(edges) \in Nat /\ DOMAIN edges = 1 .. Len(edges) /\ DOMAIN edges \subseteq Nat
    BY DEF Given
<1>2. IsFiniteSet(DOMAIN edges)
    BY <1>1, FS_Interval
<1>3. IsFiniteSet(Ids)
    BY AtMostLength DEF Given, Ids
<1>4. \A id : InEdges(id) \subseteq DOMAIN edges
    BY DEF InEdges
<1>5. \A id, done, rest : Open(id, done, rest) \subseteq DOMAIN edges
    BY <1>4 DEF Open
<1>6. QED  BY <1>1, <1>2, <1>3, <1>4, <1>5, FS_Subset

\* The first count: the ready list is the ids without an edge into them.
LEMMA CountProgress ==
    ASSUME CallInv, CountPredecessors
    PROVE  Progress(order', ready', relaxing', indegree')
<1> DEFINE Roots == {i \in KeyPlaces : InEdges(nodes[i]) = {}}
           roots == InOrder(Roots)
<1>1. order = <<>> /\ order' = <<>> /\ relaxing' = {}
    BY DEF CountPredecessors, CallInv
<1>2. indegree' = [id \in Ids |-> Cardinality(InEdges(id))]
      /\ ready' = [n \in DOMAIN roots |-> nodes[roots[n]]]
    BY DEF CountPredecessors
<1>3. /\ Len(nodes) \in Nat /\ DOMAIN nodes = 1 .. Len(nodes)
      /\ \A i \in DOMAIN nodes : nodes[i] \in Ids
      /\ Roots \subseteq DOMAIN nodes /\ Roots \subseteq Nat
    BY DEF CallInv, Given, KeyPlaces
<1>4. IsFiniteSet(Roots)
    <2>1. IsFiniteSet(DOMAIN nodes)
        BY <1>3, FS_Interval
    <2> HIDE DEF Roots
    <2>2. QED  BY <1>3, <2>1, FS_Subset
<1> DEFINE N == Cardinality(Roots)
<1>5. /\ N \in Nat /\ roots \in [1 .. N -> Roots]
      /\ \A n, m \in 1 .. N : roots[n] = roots[m] => n = m
      /\ \A i \in Roots : \E n \in 1 .. N : roots[n] = i
    <2> HIDE DEF Roots
    <2>1. QED  BY <1>3, <1>4, InOrderLists DEF Bijection, Injection, IsInjective, Surjection
<1> HIDE DEF roots, N
<1>6. ASSUME NEW i \in KeyPlaces, NEW j \in KeyPlaces, nodes[i] = nodes[j]
      PROVE  i = j
    <2>1. i \in 1 .. Len(nodes) /\ j \in 1 .. Len(nodes)
        BY <1>3 DEF KeyPlaces
    <2>2. ~(i < j) /\ ~(j < i)
        BY <1>3, <1>6, <2>1 DEF KeyPlaces
    <2>3. QED  BY <1>3, <2>1, <2>2
<1>7. /\ ready' \in [1 .. N -> Ids] /\ ready' \in Seq(Ids)
      /\ DOMAIN ready' = 1 .. N /\ \A n \in 1 .. N : ready'[n] = nodes[roots[n]]
    <2>1. DOMAIN roots = 1 .. N
        BY <1>5
    <2>2. \A n \in 1 .. N : nodes[roots[n]] \in Ids
        BY <1>3, <1>5
    <2>3. QED  BY <1>2, <1>5, <2>1, <2>2
<1>8. Distinct(ready')
    <2>1. ASSUME NEW n \in 1 .. N, NEW m \in 1 .. N, ready'[n] = ready'[m]
          PROVE  n = m
        <3>1. roots[n] \in KeyPlaces /\ roots[m] \in KeyPlaces
            BY <1>5
        <3>2. roots[n] = roots[m]
            BY <1>6, <1>7, <2>1, <3>1
        <3>3. QED  BY <1>5, <3>2
    <2>2. QED  BY <1>7, <2>1 DEF Distinct
<1>9. ASSUME NEW id \in Ids
      PROVE  \E i \in KeyPlaces : nodes[i] = id
    <2> DEFINE At == {i \in DOMAIN nodes : nodes[i] = id}
    <2>1. At # {} /\ At \subseteq Nat
        BY <1>3, <1>9 DEF Ids, ToSet
    <2>2. PICK i \in At : \A k \in At : i <= k
        <3> HIDE DEF At
        <3>1. QED  BY <2>1, LeastNatural
    <2>3. i \in 1 .. Len(nodes) /\ nodes[i] = id
        BY <1>3
    <2>4. ASSUME NEW j \in 1 .. i - 1 PROVE nodes[j] # nodes[i]
        <3>1. j \in DOMAIN nodes /\ ~(i <= j)
            BY <1>3, <2>3, <2>4
        <3>2. QED  BY <2>2, <2>3, <3>1
    <2>5. QED  BY <1>3, <2>3, <2>4 DEF KeyPlaces
<1>10. ASSUME NEW id \in Ids
       PROVE  id \in ToSet(ready') <=> InEdges(id) = {}
    <2>1. CASE InEdges(id) = {}
        <3>1. PICK i \in KeyPlaces : nodes[i] = id
            BY <1>9
        <3>2. i \in Roots
            BY <2>1, <3>1
        <3>3. PICK n \in 1 .. N : roots[n] = i
            BY <1>5, <3>2
        <3>4. QED  BY <1>7, <2>1, <3>1, <3>3 DEF ToSet
    <2>2. ASSUME id \in ToSet(ready') PROVE InEdges(id) = {}
        <3>1. PICK n \in 1 .. N : id = nodes[roots[n]]
            BY <1>7, <2>2 DEF ToSet
        <3>2. QED  BY <1>5, <3>1
    <2>3. QED  BY <2>1, <2>2
<1>11. ToSet(order') = {} /\ DOMAIN order' = {} /\ order' \in Seq(Ids)
    BY <1>1 DEF ToSet
<1>12. \A id : Open(id, {}, {}) = InEdges(id)
    BY DEF Open
<1>13. ASSUME NEW id \in Ids
       PROVE  /\ indegree'[id] = Cardinality(Open(id, ToSet(order'), relaxing'))
              /\ id \in ToSet(order') \cup ToSet(ready')
                    <=> Open(id, ToSet(order'), relaxing') = {}
    BY <1>1, <1>2, <1>10, <1>11, <1>12
<1>14. Distinct(order') /\ DOMAIN indegree' = Ids
    BY <1>2, <1>11 DEF Distinct
<1>15. QED
    BY <1>1, <1>7, <1>8, <1>11, <1>13, <1>14 DEF Progress

\* Ordering an id opens and closes no edge: its own are now to be relaxed.
LEMMA TakeProgress ==
    ASSUME CallInv, TakeReady
    PROVE  Progress(order', ready', relaxing', indegree')
<1> DEFINE h == Head(ready)
           done == ToSet(order)
<1>1. /\ Given /\ Progress(order, ready, {}, indegree)
      /\ ready # <<>> /\ order' = Append(order, h) /\ ready' = Tail(ready)
      /\ relaxing' = Successors(h) /\ indegree' = indegree
    BY DEF TakeReady, CallInv
<1>2. /\ h \in Ids /\ h \in ToSet(ready) /\ ready' \in Seq(Ids) /\ Distinct(ready')
      /\ ToSet(ready) = ToSet(ready') \cup {h} /\ h \notin ToSet(ready')
    BY <1>1, TailDistinct DEF Progress
<1>3. h \notin done /\ order \in Seq(Ids) /\ Distinct(order)
    BY <1>1, <1>2 DEF Progress
<1> HIDE DEF h
<1>4. /\ order' \in Seq(Ids) /\ Distinct(order') /\ ToSet(order') = done \cup {h}
      /\ DOMAIN order' = DOMAIN order \cup {Len(order) + 1}
      /\ \A i \in DOMAIN order : i \in Nat /\ i < Len(order) + 1 /\ order'[i] = order[i]
      /\ order'[Len(order) + 1] = h
    BY <1>1, <1>2, <1>3, AppendDistinct
<1>5. Open(h, done, {}) = {}
    BY <1>1, <1>2 DEF Progress
<1>6. \A id : Open(id, done \cup {h}, Successors(h)) = Open(id, done, {})
    BY <1>3 DEF Open, Successors, InEdges
<1>7. ASSUME NEW i \in DOMAIN order', NEW k \in InEdges(order'[i])
      PROVE  \E j \in DOMAIN order' : j < i /\ order'[j] = edges[k].before
    <2>1. CASE i \in DOMAIN order
        <3>1. PICK j \in DOMAIN order : j < i /\ order[j] = edges[k].before
            BY <1>1, <1>4, <1>7, <2>1 DEF Progress
        <3>2. QED  BY <1>4, <3>1
    <2>2. CASE i = Len(order) + 1
        <3>1. edges[k].before \in done
            BY <1>4, <1>5, <1>7, <2>2 DEF Open
        <3>2. PICK j \in DOMAIN order : order[j] = edges[k].before
            BY <3>1 DEF ToSet
        <3>3. QED  BY <1>4, <2>2, <3>2
    <2>3. QED  BY <1>4, <1>7, <2>1, <2>2
<1>8. ASSUME NEW id \in Ids
      PROVE  /\ indegree'[id] = Cardinality(Open(id, ToSet(order'), relaxing'))
             /\ id \in ToSet(order') \cup ToSet(ready')
                   <=> Open(id, ToSet(order'), relaxing') = {}
    <2>1. Open(id, ToSet(order'), relaxing') = Open(id, done, {})
        BY <1>1, <1>4, <1>6
    <2>2. ToSet(order') \cup ToSet(ready') = done \cup ToSet(ready)
        BY <1>2, <1>4
    <2>3. QED  BY <1>1, <2>1, <2>2 DEF Progress
<1>9. relaxing' \subseteq DOMAIN edges /\ \A i \in relaxing' : edges[i].before \in ToSet(order')
    BY <1>1, <1>4 DEF Successors
<1>10. ToSet(order') \cap ToSet(ready') = {} /\ DOMAIN indegree' = Ids
    BY <1>1, <1>2, <1>4 DEF Progress
<1>11. QED  BY <1>2, <1>4, <1>7, <1>8, <1>9, <1>10 DEF Progress

\* Relaxing an edge closes that one edge.
LEMMA RelaxProgress ==
    ASSUME CallInv, Relax
    PROVE  Progress(order', ready', relaxing', indegree')
<1> DEFINE e == Min(relaxing)
           next == edges[e].after
           done == ToSet(order)
           O(id) == Open(id, done, relaxing)
           P(id) == Open(id, done, relaxing \ {e})
<1>1. /\ Given /\ Progress(order, ready, relaxing, indegree) /\ ~Dangling
      /\ relaxing # {} /\ order' = order /\ relaxing' = relaxing \ {e}
      /\ indegree' = [indegree EXCEPT ![next] = @ - 1]
      /\ ready' = IF indegree[next] = 1 THEN Append(ready, next) ELSE ready
    BY DEF Relax, CallInv
<1>2. /\ e \in relaxing /\ e \in DOMAIN edges /\ next \in Ids /\ edges[e].before \in done
    <2>1. relaxing \subseteq Nat
        BY <1>1, FiniteGraph DEF Progress
    <2>2. e \in relaxing
        BY <1>1, <2>1, MinIsLeast
    <2>3. QED  BY <1>1, <2>2 DEF Progress, Dangling
<1> HIDE DEF e
<1>3. e \in O(next) /\ e \in InEdges(next)
    BY <1>2 DEF Open, InEdges
<1>4. \A id : P(id) = O(id) \ {e}
    BY <1>2 DEF Open
<1>5. \A id : id # next => e \notin O(id)
    BY DEF Open, InEdges
<1>6. \A id : IsFiniteSet(O(id))
    BY <1>1, FiniteGraph
<1> HIDE DEF O, P, next, done
<1>7. Cardinality(P(next)) = Cardinality(O(next)) - 1
    BY <1>3, <1>4, <1>6, FS_RemoveElement
<1>8. \A id : id # next => P(id) = O(id)
    BY <1>4, <1>5
<1>9. /\ DOMAIN indegree = Ids
      /\ \A id \in Ids : indegree[id] = Cardinality(O(id))
      /\ \A id \in Ids : id \in done \cup ToSet(ready) <=> O(id) = {}
      /\ ready \in Seq(Ids) /\ Distinct(ready) /\ done \cap ToSet(ready) = {}
    BY <1>1 DEF Progress, O, done
<1>10. next \notin done \cup ToSet(ready)
    BY <1>2, <1>3, <1>9
<1>11. P(next) = {} <=> indegree[next] = 1
    <2>1. IsFiniteSet(P(next)) /\ Cardinality(O(next)) \in Nat
        BY <1>4, <1>6, FS_RemoveElement, FS_CardinalityType
    <2>2. P(next) = {} <=> Cardinality(P(next)) = 0
        BY <2>1, FS_EmptySet
    <2>3. QED  BY <1>2, <1>7, <1>9, <2>1, <2>2
<1>12. /\ ready' \in Seq(Ids) /\ Distinct(ready')
       /\ ToSet(ready') = IF P(next) = {} THEN ToSet(ready) \cup {next} ELSE ToSet(ready)
    <2>1. CASE P(next) = {}
        <3>1. ready' = Append(ready, next)
            BY <1>1, <1>11, <2>1
        <3>2. QED  BY <1>2, <1>9, <1>10, <2>1, <3>1, AppendDistinct
    <2>2. CASE P(next) # {}
        BY <1>1, <1>9, <1>11, <2>2
    <2>3. QED  BY <2>1, <2>2
<1>13. ASSUME NEW id \in Ids
       PROVE  /\ indegree'[id] = Cardinality(P(id))
              /\ id \in done \cup ToSet(ready') <=> P(id) = {}
    <2>1. CASE id = next
        BY <1>1, <1>7, <1>9, <1>10, <1>12, <2>1
    <2>2. CASE id # next
        <3>1. indegree'[id] = indegree[id]
            BY <1>1, <1>9, <2>2
        <3>2. id \in ToSet(ready') <=> id \in ToSet(ready)
            BY <1>12, <2>2
        <3>3. QED  BY <1>8, <1>9, <2>2, <3>1, <3>2
    <2>3. QED  BY <2>1, <2>2
<1>14. done \cap ToSet(ready') = {}
    BY <1>9, <1>10, <1>12
<1>15. DOMAIN indegree' = Ids
    BY <1>1, <1>9
<1>16. /\ ToSet(order') = done
       /\ \A id : Open(id, ToSet(order'), relaxing') = P(id)
    BY <1>1 DEF done, P
<1>17. /\ order' \in Seq(Ids) /\ Distinct(order')
       /\ \A i \in DOMAIN order' : \A k \in InEdges(order'[i]) :
             \E j \in DOMAIN order' : j < i /\ order'[j] = edges[k].before
       /\ relaxing' \subseteq DOMAIN edges
       /\ \A i \in relaxing' : edges[i].before \in ToSet(order')
    BY <1>1 DEF Progress
<1>18. QED
    BY <1>12, <1>13, <1>14, <1>15, <1>16, <1>17 DEF Progress

-----------------------------------------------------------------------------
(* Cycles *)

LEMMA AncestorsOf ==
    ASSUME NEW plan, NEW id, NEW p \in TaskIds(plan), p \in Predecessors(plan, id)
    PROVE  /\ p \in Ancestors(plan, id)
           /\ Ancestors(plan, p) \subseteq Ancestors(plan, id)
BY DEF Ancestors

\* Ids that each wait for another of them: one of them waits for itself.
LEMMA StuckOnCycle ==
    ASSUME NEW plan, IsFiniteSet(TaskIds(plan)), NEW U, U \subseteq TaskIds(plan), U # {},
           \A id \in U : \E p \in U : p \in Predecessors(plan, id)
    PROVE  \E id \in U : id \in Ancestors(plan, id)
<1> DEFINE A(id) == Ancestors(plan, id) \cap U
           Sizes == {Cardinality(A(id)) : id \in U}
<1>1. \A id : IsFiniteSet(A(id)) /\ Cardinality(A(id)) \in Nat
    <2>1. ASSUME NEW id PROVE IsFiniteSet(A(id)) /\ Cardinality(A(id)) \in Nat
        <3>1. A(id) \subseteq TaskIds(plan)
            OBVIOUS
        <3> HIDE DEF A
        <3>2. QED  BY <3>1, FS_Subset, FS_CardinalityType
    <2>2. QED  BY <2>1
<1>2. PICK id \in U : \A x \in U : Cardinality(A(id)) <= Cardinality(A(x))
    <2>1. Sizes \subseteq Nat /\ Sizes # {}
        <3> HIDE DEF A
        <3>1. QED  BY <1>1
    <2>2. PICK least \in Sizes : \A k \in Sizes : least <= k
        <3> HIDE DEF Sizes
        <3>1. QED  BY <2>1, LeastNatural
    <2> HIDE DEF A
    <2>3. QED  BY <2>2
<1>3. PICK p \in U : p \in Predecessors(plan, id)
    OBVIOUS
<1>4. p \in Ancestors(plan, id) /\ Ancestors(plan, p) \subseteq Ancestors(plan, id)
    BY <1>3, AncestorsOf
<1>5. p \in A(id) /\ A(p) \subseteq A(id)
    BY <1>3, <1>4
<1>6. A(p) = A(id)
    <2> HIDE DEF A
    <2>1. /\ Cardinality(A(p)) <= Cardinality(A(id)) /\ Cardinality(A(id)) <= Cardinality(A(p))
          /\ Cardinality(A(id)) = Cardinality(A(p)) => A(id) = A(p)
        BY <1>1, <1>2, <1>3, <1>5, FS_Subset
    <2>2. QED  BY <1>1, <2>1
<1>7. p \in Ancestors(plan, p)
    BY <1>5, <1>6
<1>8. QED  BY <1>3, <1>7

\* A call that runs out of ready ids before every node is ordered.
LEMMA RefusalMeansCycle ==
    ASSUME CallInv, Finish, Len(order) # Len(nodes), Len(nodes) = Cardinality(Ids)
    PROVE  \E id \in Ids : id \in Ancestors(GraphPlan, id)
<1> DEFINE U == Ids \ ToSet(order)
<1>1. Given /\ Progress(order, <<>>, {}, indegree) /\ ~Dangling
    BY DEF Finish, CallInv
<1>2. ToSet(order) \subseteq Ids /\ Cardinality(ToSet(order)) = Len(order)
    BY <1>1, DistinctLength DEF Progress
<1>3. U # {}
    <2>1. Cardinality(ToSet(order)) # Cardinality(Ids)
        BY <1>2
    <2>2. ToSet(order) # Ids
        BY <2>1
    <2>3. QED  BY <1>2, <2>2
<1>4. ASSUME NEW id \in U
      PROVE  \E p \in U : p \in Predecessors(GraphPlan, id)
    <2>1. Open(id, ToSet(order), {}) # {}
        <3>1. ToSet(<<>>) = {}
            BY DEF ToSet
        <3>2. QED  BY <1>1, <1>4, <3>1 DEF Progress
    <2>2. PICK i \in InEdges(id) : edges[i].before \notin ToSet(order)
        BY <2>1 DEF Open
    <2>3. i \in DOMAIN edges /\ edges[i].after = id /\ edges[i].before \in Ids
        BY <1>1, <2>2 DEF InEdges, Dangling
    <2>4. edges[i].before \in Predecessors(GraphPlan, id)
        BY <2>3 DEF Predecessors, GraphPlan, ToSet
    <2>5. QED  BY <2>2, <2>3, <2>4
<1>5. TaskIds(GraphPlan) = Ids /\ IsFiniteSet(Ids)
    BY <1>1, FiniteGraph DEF TaskIds, GraphPlan
<1> HIDE DEF U
<1>6. \E id \in U : id \in Ancestors(GraphPlan, id)
    BY <1>3, <1>4, <1>5, StuckOnCycle DEF U
<1>7. QED  BY <1>6 DEF U

-----------------------------------------------------------------------------
(* The invariant *)

LEMMA GivenStays == ASSUME CallInv, [Next]_vars PROVE nodes' = nodes /\ edges' = edges
BY DEF Next, DanglingEdge, CountPredecessors, TakeReady, Relax, Finish, graph, vars

LEMMA ProgressStays ==
    ASSUME nodes' = nodes, edges' = edges,
           Progress(order', ready', relaxing', indegree')
    PROVE  Progress(order, ready, relaxing, indegree)'
BY DEF Progress, Open, InEdges, Ids

LEMMA SameGraph ==
    ASSUME nodes' = nodes, edges' = edges
    PROVE  /\ Given => Given'
           /\ ~Dangling => ~Dangling'
           /\ RefusesOnlyUnorderable /\ result' = result => RefusesOnlyUnorderable'
BY DEF Given, Dangling, RefusesOnlyUnorderable, GraphPlan, Ids

LEMMA InitCallInv == Init => CallInv
<1> SUFFICES ASSUME Init PROVE CallInv
    OBVIOUS
<1>1. Given
    BY GraphAssumption DEF Init, Given, Ids
<1>2. QED  BY <1>1 DEF Init, CallInv, RefusesOnlyUnorderable

LEMMA StepCallInv == CallInv /\ [Next]_vars => CallInv'
<1> SUFFICES ASSUME CallInv, [Next]_vars PROVE CallInv'
    OBVIOUS
<1>1. nodes' = nodes /\ edges' = edges /\ Given'
    BY GivenStays, SameGraph DEF CallInv
<1>2. CASE DanglingEdge
    BY <1>1, <1>2, SameGraph DEF DanglingEdge, CallInv, RefusesOnlyUnorderable
<1>3. CASE CountPredecessors
    <2>1. Progress(order, ready, relaxing, indegree)' /\ ~Dangling'
        BY <1>1, <1>3, CountProgress, ProgressStays, SameGraph DEF CountPredecessors
    <2>2. QED  BY <1>1, <1>3, <2>1 DEF CountPredecessors, CallInv, RefusesOnlyUnorderable
<1>4. CASE TakeReady \/ Relax
    <2>1. result = "running" /\ result' = result
        BY <1>4 DEF TakeReady, Relax
    <2>2. Progress(order, ready, relaxing, indegree)'
        BY <1>1, <1>4, TakeProgress, RelaxProgress, ProgressStays
    <2>3. QED  BY <1>1, <2>1, <2>2, SameGraph DEF CallInv, RefusesOnlyUnorderable
<1>5. CASE Finish
    <2>1. /\ result = "running" /\ UNCHANGED <<indegree, ready, order, relaxing>>
          /\ result' = IF Len(order) = Len(nodes) THEN "ordered" ELSE "cycle"
        BY <1>5 DEF Finish
    <2>2. ~Dangling' /\ Progress(order, ready, relaxing, indegree)'
        BY <1>1, <2>1, SameGraph, ProgressStays DEF CallInv
    <2>3. RefusesOnlyUnorderable'
        <3>1. CASE Len(order) = Len(nodes)
            BY <2>1, <3>1 DEF RefusesOnlyUnorderable
        <3>2. CASE Len(order) # Len(nodes)
            <4>1. \/ Len(nodes) # Cardinality(Ids)
                  \/ \E id \in Ids : id \in Ancestors(GraphPlan, id)
                BY <1>5, <3>2, RefusalMeansCycle
            <4>2. Ids' = Ids /\ GraphPlan' = GraphPlan
                BY <1>1 DEF Ids, GraphPlan
            <4>3. QED  BY <1>1, <4>1, <4>2 DEF RefusesOnlyUnorderable
        <3>3. QED  BY <3>1, <3>2
    <2>4. QED  BY <1>1, <2>1, <2>2, <2>3 DEF CallInv
<1>6. CASE UNCHANGED vars
    <2>1. UNCHANGED <<nodes, edges, indegree, ready, order, relaxing, result>>
        BY <1>6 DEF vars
    <2>2. RefusesOnlyUnorderable'
        BY <2>1, SameGraph DEF CallInv
    <2>3. result \notin {"building", "key_error"} =>
              ~Dangling' /\ Progress(order, ready, relaxing, indegree)'
        BY <2>1, SameGraph, ProgressStays DEF CallInv
    <2>4. QED  BY <1>1, <2>1, <2>2, <2>3 DEF CallInv
<1>7. QED  BY <1>2, <1>3, <1>4, <1>5, <1>6 DEF Next

LEMMA Invariant == Spec => []CallInv
BY InitCallInv, StepCallInv, PTL DEF Spec

-----------------------------------------------------------------------------
(* Theorems *)

\* A call refuses only graphs that repeat an id or have a cycle: whatever has
\* an execution order gets one.
THEOREM RefusalJustified == Spec => []RefusesOnlyUnorderable
<1>1. CallInv => RefusesOnlyUnorderable
    BY DEF CallInv
<1>2. QED  BY <1>1, Invariant, PTL

\* The order holds every task once, and every task after what it waits for,
\* when it is returned and, as far as it goes, at each moment before.
THEOREM OrderCorrect == Spec => []PredecessorsFirst
<1>1. ASSUME CallInv, order # <<>>
      PROVE  Progress(order, ready, relaxing, indegree) /\ Given /\ ~Dangling
    BY <1>1 DEF CallInv
<1>2. ASSUME CallInv, NEW i \in DOMAIN order
      PROVE  Predecessors(GraphPlan, order[i]) \subseteq {order[j] : j \in 1 .. i - 1}
    <2>1. Progress(order, ready, relaxing, indegree) /\ order \in Seq(Ids)
        BY <1>2 DEF CallInv, Progress
    <2>2. ASSUME NEW e \in ToSet(edges), e.after = order[i]
          PROVE  e.before \in {order[j] : j \in 1 .. i - 1}
        <3>1. PICK k \in DOMAIN edges : e = edges[k]
            BY DEF ToSet
        <3>2. PICK j \in DOMAIN order : j < i /\ order[j] = edges[k].before
            BY <2>1, <2>2, <3>1 DEF Progress, InEdges
        <3>3. j \in 1 .. i - 1
            BY <1>2, <2>1, <3>2
        <3>4. QED  BY <3>1, <3>2, <3>3
    <2>3. QED  BY <2>2 DEF Predecessors, GraphPlan
<1>3. ASSUME CallInv, result = "ordered"
      PROVE  IsTopologicalOrder(order, GraphPlan)
    <2>1. /\ Progress(order, ready, relaxing, indegree) /\ Given /\ ~Dangling
          /\ Len(order) = Len(nodes) /\ order \in Seq(Ids) /\ nodes \in Seq(Ids)
        BY <1>3 DEF CallInv, Progress, Given
    <2>2. Cardinality(ToSet(order)) = Len(order) /\ ToSet(order) \subseteq Ids
        BY <2>1, DistinctLength DEF Progress
    <2>3. IsFiniteSet(Ids) /\ Cardinality(Ids) \in Nat /\ Cardinality(Ids) <= Len(nodes)
        BY <2>1, AtMostLength DEF Ids
    <2>4. ToSet(order) = Ids /\ Cardinality(Ids) = Len(order)
        <3>1. Cardinality(ToSet(order)) <= Cardinality(Ids)
            BY <2>2, <2>3, FS_Subset
        <3>2. Cardinality(ToSet(order)) = Cardinality(Ids)
            BY <2>1, <2>2, <2>3, <3>1
        <3>3. QED  BY <2>2, <2>3, <3>2, FS_Subset
    <2>5. TaskIds(GraphPlan) = Ids /\ GraphPlan.edges = ToSet(edges)
        BY DEF TaskIds, GraphPlan
    <2>6. ASSUME NEW e \in ToSet(edges)
          PROVE  \E i, j \in DOMAIN order : i < j /\ order[i] = e.before /\ order[j] = e.after
        <3>1. PICK k \in DOMAIN edges : e = edges[k]
            BY DEF ToSet
        <3>2. e.after \in ToSet(order)
            BY <2>1, <2>4, <3>1 DEF Dangling
        <3>3. PICK j \in DOMAIN order : order[j] = e.after
            BY <3>2 DEF ToSet
        <3>4. PICK i \in DOMAIN order : i < j /\ order[i] = edges[k].before
            BY <2>1, <3>1, <3>3 DEF Progress, InEdges
        <3>5. QED  BY <3>1, <3>3, <3>4
    <2>7. {order[i] : i \in DOMAIN order} = TaskIds(GraphPlan)
        BY <2>4, <2>5 DEF ToSet
    <2>8. QED  BY <2>4, <2>5, <2>6, <2>7 DEF IsTopologicalOrder
<1>4. CallInv => PredecessorsFirst
    BY <1>2, <1>3 DEF PredecessorsFirst
<1>5. QED  BY <1>4, Invariant, PTL
=============================================================================
