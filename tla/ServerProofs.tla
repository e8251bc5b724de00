---------------------------- MODULE ServerProofs ----------------------------
(***************************************************************************)
(* Every package and every request of the server is in one place, for any  *)
(* number of threads, connections and packages.                            *)
(***************************************************************************)
EXTENDS Server, SequenceTheorems, FiniteSetTheorems, TLAPS

(***************************************************************************)
(* The inductive invariant                                                 *)
(***************************************************************************)
Event == [conn : Conns, mode : {"in", "out"}]
Request == [conn : Conns, owner : Workers]
Answer == [owner : Workers, last : BOOLEAN]

TypesInv ==
  /\ segment \in [Workers -> Seq(Event)]
  /\ wpc \in [Workers -> {"next", "listen", "send"}]
  /\ interest \in [Conns -> {"in", "out"}]
  /\ pending \in [Conns -> Nat] /\ arrived \in [Conns -> Nat]
  /\ \A c \in Conns : pending[c] <= Window[c]
  /\ p_pool \in [Workers -> Nat]
  /\ data_package_queue \in [Workers -> Seq(Request)]
  /\ write_cache \in [Conns -> Seq(Answer)]
  /\ apc \in [Workers -> {"idle", "first", "arm", "armLast", "acquire", "second"}]
  /\ areq \in [Workers -> [conn : Conns \cup {None}, owner : Workers \cup {None}]]
  /\ apool \in [Workers -> Workers \cup {None}]

(* What an application thread has in hand *)
LocalsInv ==
  \A t \in Workers :
    /\ areq[t].conn \in Conns <=> apc[t] # "idle"
    /\ areq[t].owner \in Workers <=> apc[t] \in {"first", "second"}
    /\ apool[t] \in Workers <=> apc[t] = "acquire"

(* A batch has one event of each connection, and what it was reported for  *)
(* lasts until it is handled.                                              *)
EventsInv ==
  /\ \A v, w \in Workers : \A i \in DOMAIN segment[v], j \in DOMAIN segment[w] :
       segment[v][i].conn = segment[w][j].conn => v = w /\ i = j
  /\ \A w \in Workers : \A i \in DOMAIN segment[w] :
       segment[w][i].mode = "in" => arrived[segment[w][i].conn] > 0
  /\ \A w \in Workers : wpc[w] # "next" => segment[w] # <<>> /\ Head(segment[w]).mode = "out"
  /\ \A w \in Workers : wpc[w] = "send" => write_cache[Conn(w)] # <<>>

(* Where the packages of an owner are, and the requests of a connection:   *)
(* one that is not answered completely is in the socket, in a queue, with  *)
(* an application thread, or its last package is in the list.              *)
InQueues(o) == Cardinality(Places(data_package_queue, [conn : Conns, owner : {o}]))
InLists(o) == Cardinality(Places(write_cache, [owner : {o}, last : BOOLEAN]))
InHands(o) == Cardinality({t \in Workers : areq[t].owner = o})

Queued(c) == Cardinality(Places(data_package_queue, [conn : {c}, owner : Workers]))
Serving == {"first", "arm", "acquire", "second"}
Served(c) == Cardinality({t \in Workers : apc[t] \in Serving /\ areq[t].conn = c})
Closing(c) == Cardinality(Places([x \in {c} |-> write_cache[x]], [owner : Workers, last : {TRUE}]))

PackagesInv == \A o \in Workers : p_pool[o] + InQueues(o) + InLists(o) + InHands(o) = PoolSize

RequestsInv ==
  \A c \in Conns : pending[c] = arrived[c] + Queued(c) + Served(c) + Closing(c)

ServerInv == TypesInv /\ LocalsInv /\ EventsInv /\ PackagesInv /\ RequestsInv
-----------------------------------------------------------------------------
(***************************************************************************)
(* The segments of a batch                                                 *)
(***************************************************************************)
(* Integer division, as the provers use it. *)
LEMMA DivisionBounds ==
  ASSUME NEW a \in Nat, NEW b \in Nat \ {0}
  PROVE  /\ a \div b \in Nat
         /\ b * (a \div b) <= a
         /\ a < b * (a \div b) + b
BY Z3

LEMMA RemainderBounds ==
  ASSUME NEW a \in Nat, NEW b \in Nat \ {0}
  PROVE  a % b \in 0 .. b - 1
BY Z3

(* A count of events keeps its value through the two conversions. *)
LEMMA ConversionsExact ==
  ASSUME NEW n \in 0 .. MAX_CONNECT
  PROVE  /\ ToSize(n) = n
         /\ ToInt(n) = n
BY SegmentAssumption DEF ToSize, ToInt

LEMMA ProductMonotone ==
  ASSUME NEW a \in Nat, NEW b \in Nat, NEW q \in Nat, a <= b
  PROVE  a * q <= b * q
OBVIOUS

(* The case "enough work": every segment but the last has the same size q. *)
LEMMA FullSegments ==
  ASSUME NEW n \in 0 .. MAX_CONNECT, n >= THREAD_NUM
  PROVE  \E q \in Nat \ {0} :
           /\ THREAD_NUM * q <= n
           /\ \A w \in Workers :
                /\ SegStart(w, n) = w * q
                /\ w # THREAD_NUM - 1 => SegEnd(w, n) = (w + 1) * q
                /\ w = THREAD_NUM - 1 => SegEnd(w, n) = n
<1> DEFINE q == n \div THREAD_NUM
<1>1. /\ q \in Nat
      /\ THREAD_NUM * q <= n
      /\ n < THREAD_NUM * q + THREAD_NUM
  BY DivisionBounds, SegmentAssumption
<1>2. q # 0
  BY <1>1, SegmentAssumption
<1>3. q <= MAX_CONNECT
  <2>1. 1 * q <= THREAD_NUM * q
    BY <1>1, ProductMonotone, SegmentAssumption
  <2> HIDE DEF q
  <2>2. q <= n
    BY <2>1, <1>1, SegmentAssumption
  <2> QED
    BY <2>2, <1>1, SegmentAssumption
<1>4. ToSize(n) = n /\ ToInt(q) = q
  BY <1>1, <1>3, ConversionsExact
<1>5. EnoughWork(n) /\ SegSize(n) = q
  BY <1>4 DEF EnoughWork, SegSize
<1> HIDE DEF q
<1> QED
  BY <1>1, <1>2, <1>5 DEF SegStart, SegEnd

(* The case of fewer events than threads: one event for each of the first. *)
LEMMA SingleSegments ==
  ASSUME NEW n \in 0 .. MAX_CONNECT, n < THREAD_NUM, NEW w \in Workers
  PROVE  /\ w < n  => SegStart(w, n) = w /\ SegEnd(w, n) = w + 1
         /\ w >= n => SegStart(w, n) = 0 /\ SegEnd(w, n) = 0
<1>1. ~EnoughWork(n)
  BY ConversionsExact, SegmentAssumption DEF EnoughWork
<1> QED
  BY <1>1, SegmentAssumption DEF SegStart, SegEnd, Workers

(* The bounds of a segment are indices of the batch, or its end. *)
LEMMA SegmentBounds ==
  ASSUME NEW n \in 0 .. MAX_CONNECT, NEW w \in Workers
  PROVE  /\ SegStart(w, n) \in 0 .. n
         /\ SegEnd(w, n) \in 0 .. n
         /\ SegStart(w, n) <= SegEnd(w, n)
<1>1. CASE n >= THREAD_NUM
  <2>1. PICK q \in Nat \ {0} :
          /\ THREAD_NUM * q <= n
          /\ \A v \in Workers :
               /\ SegStart(v, n) = v * q
               /\ v # THREAD_NUM - 1 => SegEnd(v, n) = (v + 1) * q
               /\ v = THREAD_NUM - 1 => SegEnd(v, n) = n
    BY <1>1, FullSegments
  <2>2. /\ w \in Nat /\ w + 1 \in Nat /\ w + 1 <= THREAD_NUM
        /\ THREAD_NUM \in Nat
    BY SegmentAssumption DEF Workers
  <2>3. w * q \in Nat /\ (w + 1) * q \in Nat /\ THREAD_NUM * q \in Nat
    BY <2>2
  <2>4. w * q <= (w + 1) * q /\ (w + 1) * q <= THREAD_NUM * q
    BY <2>2, ProductMonotone
  <2> QED
    BY <2>1, <2>3, <2>4
<1>2. CASE n < THREAD_NUM
  BY <1>2, SingleSegments, SegmentAssumption DEF Workers
<1> QED
  BY <1>1, <1>2, SegmentAssumption

(* Segments of different threads do not overlap: the one of the lower      *)
(* index ends where the other begins, or before.                           *)
LEMMA SegmentsOrdered ==
  ASSUME NEW n \in 0 .. MAX_CONNECT, NEW v \in Workers, NEW w \in Workers,
         v < w, SegStart(w, n) < SegEnd(w, n)
  PROVE  SegEnd(v, n) <= SegStart(w, n)
<1>1. CASE n >= THREAD_NUM
  <2>1. PICK q \in Nat \ {0} :
          \A u \in Workers :
               /\ SegStart(u, n) = u * q
               /\ u # THREAD_NUM - 1 => SegEnd(u, n) = (u + 1) * q
    BY <1>1, FullSegments
  <2>2. v + 1 \in Nat /\ w \in Nat /\ v + 1 <= w /\ v # THREAD_NUM - 1
    BY SegmentAssumption DEF Workers
  <2>3. (v + 1) * q <= w * q
    BY <2>2, ProductMonotone
  <2> QED
    BY <2>1, <2>2, <2>3
<1>2. CASE n < THREAD_NUM
  BY <1>2, SingleSegments, SegmentAssumption DEF Workers
<1> QED
  BY <1>1, <1>2, SegmentAssumption

-----------------------------------------------------------------------------
(***************************************************************************)
(* Counting places in lists                                                *)
(***************************************************************************)
IsPlace(p, I, lists, S) ==
  \E i \in I, k \in Nat : p = <<i, k>> /\ 1 <= k /\ k <= Len(lists[i]) /\ lists[i][k] \in S

LEMMA PlacesAre ==
  ASSUME NEW I, NEW R, NEW lists \in [I -> Seq(R)], NEW S
  PROVE  \A p : p \in Places(lists, S) <=> IsPlace(p, I, lists, S)
<1>1. \A i \in I : DOMAIN lists[i] = 1 .. Len(lists[i]) /\ Len(lists[i]) \in Nat
  BY LenProperties
<1>2. DOMAIN lists = I
  OBVIOUS
<1> QED
  BY <1>1, <1>2 DEF Places, IsPlace

LEMMA PlacesFinite ==
  ASSUME NEW I, IsFiniteSet(I), NEW R, NEW lists \in [I -> Seq(R)], NEW S
  PROVE  IsFiniteSet(Places(lists, S)) /\ Cardinality(Places(lists, S)) \in Nat
<1> DEFINE at == [i \in I |-> {<<i, k>> : k \in {j \in DOMAIN lists[i] : lists[i][j] \in S}}]
           T == {at[i] : i \in I}
<1>1. at \in Surjection(I, T)
  BY DEF Surjection
<1>2. IsFiniteSet(T)
  BY <1>1, FS_Surjection
<1>3. ASSUME NEW i \in I PROVE IsFiniteSet(at[i])
  <2> DEFINE K == {j \in DOMAIN lists[i] : lists[i][j] \in S}
             pair == [k \in K |-> <<i, k>>]
  <2>1. DOMAIN lists[i] = 1 .. Len(lists[i]) /\ Len(lists[i]) \in Nat
    BY LenProperties
  <2>2. IsFiniteSet(1 .. Len(lists[i]))
    BY <2>1, FS_Interval
  <2>3. IsFiniteSet(K)
    BY <2>1, <2>2, FS_Subset
  <2>4. pair \in Surjection(K, at[i])
    BY DEF Surjection
  <2> HIDE DEF K, pair
  <2> QED
    BY <2>3, <2>4, FS_Surjection
<1>4. Places(lists, S) = UNION T
  BY DEF Places
<1>5. \A U \in T : IsFiniteSet(U)
  BY <1>3
<1> HIDE DEF T
<1>6. IsFiniteSet(Places(lists, S))
  BY <1>2, <1>4, <1>5, FS_UNION
<1> QED
  BY <1>6, FS_CardinalityType

(* One more at the end of a list *)
Appended(I, R, lists, more, i, e) ==
  /\ IsFiniteSet(I) /\ lists \in [I -> Seq(R)] /\ more \in [I -> Seq(R)] /\ i \in I /\ e \in R
  /\ more[i] = Append(lists[i], e) /\ \A j \in I \ {i} : more[j] = lists[j]

LEMMA PlacesAppend ==
  ASSUME NEW I, NEW R, NEW lists, NEW more, NEW i, NEW e, Appended(I, R, lists, more, i, e), NEW S
  PROVE  Cardinality(Places(more, S)) = Cardinality(Places(lists, S)) + IF e \in S THEN 1 ELSE 0
<1> USE DEF Appended
<1> DEFINE n == Len(lists[i])
<1>1. /\ n \in Nat /\ Len(more[i]) = n + 1 /\ more[i][n + 1] = e
      /\ \A k \in 1 .. n : more[i][k] = lists[i][k]
  <2>1. lists[i] \in Seq(R)
    OBVIOUS
  <2> QED
    BY <2>1, LenProperties, AppendProperties
<1> HIDE DEF n
<1>2. Len(lists[i]) = n
  BY DEF n
<1>3. ASSUME NEW p PROVE p \in Places(more, S) <=>
                         p \in Places(lists, S) \/ (p = <<i, n + 1>> /\ e \in S)
  <2>1. p \in Places(more, S) <=> IsPlace(p, I, more, S)
    BY PlacesAre
  <2>2. p \in Places(lists, S) <=> IsPlace(p, I, lists, S)
    BY PlacesAre
  <2>3. ASSUME NEW j \in I, NEW k \in Nat
        PROVE  1 <= k /\ k <= Len(more[j]) /\ more[j][k] \in S <=>
                 \/ 1 <= k /\ k <= Len(lists[j]) /\ lists[j][k] \in S
                 \/ j = i /\ k = n + 1 /\ e \in S
    <3>1. CASE j # i
      BY <3>1
    <3>2. CASE j = i /\ k <= n
      <4>1. 1 <= k => more[i][k] = lists[i][k]
        BY <1>1, <3>2
      <4> QED
        BY <1>1, <1>2, <3>2, <4>1
    <3>3. CASE j = i /\ ~(k <= n)
      <4>1. k <= n + 1 <=> k = n + 1
        BY <1>1, <3>3
      <4>2. 1 <= n + 1
        BY <1>1
      <4> QED
        BY <1>1, <1>2, <3>3, <4>1, <4>2
    <3> QED
      BY <3>1, <3>2, <3>3
  <2> QED
    BY <1>1, <2>1, <2>2, <2>3 DEF IsPlace
<1>4. <<i, n + 1>> \notin Places(lists, S)
  <2>1. <<i, n + 1>> \in Places(lists, S) => IsPlace(<<i, n + 1>>, I, lists, S)
    BY PlacesAre
  <2> QED
    BY <1>1, <1>2, <2>1 DEF IsPlace
<1>5. IsFiniteSet(Places(lists, S)) /\ Cardinality(Places(lists, S)) \in Nat
  BY PlacesFinite
<1>6. CASE e \in S
  <2>1. Places(more, S) = Places(lists, S) \cup {<<i, n + 1>>}
    BY <1>3, <1>6
  <2> QED
    BY <1>4, <1>5, <1>6, <2>1, FS_AddElement
<1>7. CASE e \notin S
  <2>1. Places(more, S) = Places(lists, S)
    BY <1>3, <1>7
  <2> QED
    BY <1>5, <1>7, <2>1
<1> QED
  BY <1>6, <1>7

(* The first of a list taken: the others move up. *)
FirstTaken(I, R, lists, less, i) ==
  /\ IsFiniteSet(I) /\ lists \in [I -> Seq(R)] /\ less \in [I -> Seq(R)] /\ i \in I
  /\ lists[i] # <<>> /\ less[i] = Tail(lists[i]) /\ \A j \in I \ {i} : less[j] = lists[j]

LEMMA PlacesTail ==
  ASSUME NEW I, NEW R, NEW lists, NEW less, NEW i, FirstTaken(I, R, lists, less, i), NEW S
  PROVE  /\ Cardinality(Places(less, S)) \in Nat
         /\ Cardinality(Places(lists, S)) =
              Cardinality(Places(less, S)) + IF Head(lists[i]) \in S THEN 1 ELSE 0
<1> USE DEF FirstTaken
<1> DEFINE n == Len(less[i])
           A == Places(less, S)
           B == Places(lists, S) \ {<<i, 1>>}
           up == [p \in A |-> IF p[1] = i THEN <<i, p[2] + 1>> ELSE p]
<1>1. /\ n \in Nat /\ Len(lists[i]) = n + 1 /\ Head(lists[i]) = lists[i][1]
      /\ \A k \in 1 .. n : less[i][k] = lists[i][k + 1]
  <2>1. lists[i] \in Seq(R) /\ less[i] \in Seq(R)
    OBVIOUS
  <2>2. Len(less[i]) \in Nat /\ Len(lists[i]) \in Nat
    BY <2>1, LenProperties
  <2>3. Len(less[i]) = Len(lists[i]) - 1 /\ \A k \in 1 .. Len(less[i]) : less[i][k] = lists[i][k + 1]
    BY <2>1, HeadTailProperties
  <2>4. Head(lists[i]) = lists[i][1]
    BY <2>1
  <2> QED
    BY <2>2, <2>3, <2>4
<1> HIDE DEF n
<1>2. Len(less[i]) = n
  BY DEF n
<1>3. \A p : p \in A <=> IsPlace(p, I, less, S)
  BY PlacesAre
<1>4. \A p : p \in Places(lists, S) <=> IsPlace(p, I, lists, S)
  BY PlacesAre
<1> HIDE DEF A
<1>5. ASSUME NEW p \in A PROVE up[p] \in B
  <2>1. PICK j \in I, k \in Nat : p = <<j, k>> /\ 1 <= k /\ k <= Len(less[j]) /\ less[j][k] \in S
    BY <1>3 DEF IsPlace
  <2>2. CASE j = i
    <3>1. k + 1 \in Nat /\ 1 <= k + 1 /\ k + 1 <= n + 1 /\ less[i][k] = lists[i][k + 1]
      BY <1>1, <1>2, <2>1, <2>2
    <3>2. IsPlace(<<i, k + 1>>, I, lists, S)
      BY <1>1, <2>1, <2>2, <3>1 DEF IsPlace
    <3>3. up[p] = <<i, k + 1>> /\ <<i, k + 1>> # <<i, 1>>
      BY <2>1, <2>2
    <3> QED
      BY <1>4, <3>2, <3>3
  <2>3. CASE j # i
    BY <1>4, <2>1, <2>3 DEF IsPlace
  <2> QED
    BY <2>2, <2>3
<1>6. ASSUME NEW p \in A, NEW q \in A, up[p] = up[q] PROVE p = q
  <2>1. PICK j \in I, k \in Nat : p = <<j, k>>
    BY <1>3 DEF IsPlace
  <2>2. PICK l \in I, m \in Nat : q = <<l, m>>
    BY <1>3 DEF IsPlace
  <2> QED
    BY <1>6, <2>1, <2>2
<1>7. ASSUME NEW q \in B PROVE \E p \in A : up[p] = q
  <2>1. PICK j \in I, k \in Nat : q = <<j, k>> /\ 1 <= k /\ k <= Len(lists[j]) /\ lists[j][k] \in S
    BY <1>4 DEF IsPlace
  <2>2. CASE j = i
    <3>1. k # 1 /\ k - 1 \in Nat /\ 1 <= k - 1 /\ k - 1 <= n
      BY <1>1, <2>1, <2>2
    <3>2. less[i][k - 1] = lists[i][(k - 1) + 1] /\ (k - 1) + 1 = k
      BY <1>1, <3>1
    <3>3. <<i, k - 1>> \in A
      BY <1>2, <1>3, <2>1, <2>2, <3>1, <3>2 DEF IsPlace
    <3> QED
      BY <2>1, <2>2, <3>2, <3>3
  <2>3. CASE j # i
    BY <1>3, <2>1, <2>3 DEF IsPlace
  <2> QED
    BY <2>2, <2>3
<1>8. up \in Bijection(A, B)
  BY <1>5, <1>6, <1>7 DEF Bijection, Injection, Surjection, IsInjective
<1>9. IsFiniteSet(A) /\ Cardinality(A) \in Nat
  BY PlacesFinite DEF A
<1>10. IsFiniteSet(Places(lists, S)) /\ Cardinality(Places(lists, S)) \in Nat
  BY PlacesFinite
<1>11. <<i, 1>> \in Places(lists, S) <=> Head(lists[i]) \in S
  BY <1>1, <1>4 DEF IsPlace
<1> HIDE DEF up
<1>12. Cardinality(A) = Cardinality(B)
  BY <1>8, <1>9, FS_Bijection DEF ExistsBijection
<1>13. Cardinality(B) = IF Head(lists[i]) \in S THEN Cardinality(Places(lists, S)) - 1
                                                ELSE Cardinality(Places(lists, S))
  BY <1>10, <1>11, FS_RemoveElement
<1> QED
  BY <1>9, <1>10, <1>12, <1>13 DEF A

(* One element of a finite set at most has changed.                        *)
LEMMA CountOne ==
  ASSUME NEW A, IsFiniteSet(A), NEW B, NEW x, A \ {x} = B \ {x}
  PROVE  /\ Cardinality(A) \in Nat /\ Cardinality(B) \in Nat
         /\ Cardinality(B) + (IF x \in A THEN 1 ELSE 0) = Cardinality(A) + (IF x \in B THEN 1 ELSE 0)
<1>1. Cardinality(A) \in Nat
  BY FS_CardinalityType
<1>2. IsFiniteSet(A \ {x}) /\ Cardinality(A \ {x}) = IF x \in A THEN Cardinality(A) - 1 ELSE Cardinality(A)
  BY FS_RemoveElement
<1>3. Cardinality(A \ {x}) \in Nat
  BY <1>2, FS_CardinalityType
<1>4. CASE x \in B
  <2>1. B = (A \ {x}) \cup {x} /\ x \notin A \ {x}
    BY <1>4
  <2>2. Cardinality(B) = Cardinality(A \ {x}) + 1
    BY <1>2, <2>1, FS_AddElement
  <2> QED
    BY <1>1, <1>2, <1>3, <1>4, <2>2
<1>5. CASE x \notin B
  <2>1. B = A \ {x}
    BY <1>5
  <2> QED
    BY <1>1, <1>2, <1>3, <1>5, <2>1
<1> QED
  BY <1>4, <1>5
-----------------------------------------------------------------------------
(***************************************************************************)
(* What the steps do to the accounts                                       *)
(***************************************************************************)
LEMMA ThreadsFinite ==
  /\ IsFiniteSet(Workers) /\ None \notin Workers
  /\ IsFiniteSet(Conns) /\ None \notin Conns
<1>1. IsFiniteSet(Workers) /\ None \notin Workers
  BY SegmentAssumption, FS_Interval DEF Workers, None
<1> QED
  BY <1>1, ServerAssumption DEF None

LEMMA CountsAreNat ==
  ASSUME TypesInv
  PROVE  /\ \A o : InQueues(o) \in Nat /\ InLists(o) \in Nat /\ InHands(o) \in Nat
         /\ \A c \in Conns : Queued(c) \in Nat /\ Served(c) \in Nat /\ Closing(c) \in Nat
<1>1. ASSUME NEW S PROVE /\ Cardinality(Places(data_package_queue, S)) \in Nat
                         /\ Cardinality(Places(write_cache, S)) \in Nat
  BY ThreadsFinite, PlacesFinite DEF TypesInv
<1>2. ASSUME NEW T, T \subseteq Workers PROVE Cardinality(T) \in Nat
  BY <1>2, ThreadsFinite, FS_Subset, FS_CardinalityType
<1>3. ASSUME NEW c \in Conns, NEW S
      PROVE  Cardinality(Places([x \in {c} |-> write_cache[x]], S)) \in Nat
  <2>1. [x \in {c} |-> write_cache[x]] \in [{c} -> Seq(Answer)]
    BY DEF TypesInv
  <2> QED
    BY <2>1, FS_Singleton, PlacesFinite
<1>4. \A o : {t \in Workers : areq[t].owner = o} \subseteq Workers
  OBVIOUS
<1>5. \A c : {t \in Workers : apc[t] \in Serving /\ areq[t].conn = c} \subseteq Workers
  OBVIOUS
<1> QED
  BY <1>1, <1>2, <1>3, <1>4, <1>5 DEF InQueues, InLists, InHands, Queued, Served, Closing

LEMMA QueueGrows ==
  ASSUME TypesInv, NEW i \in Workers, NEW e \in Request,
         data_package_queue' = [data_package_queue EXCEPT ![i] = Append(@, e)]
  PROVE  /\ data_package_queue' \in [Workers -> Seq(Request)]
         /\ \A o \in Workers : InQueues(o)' = InQueues(o) + IF o = e.owner THEN 1 ELSE 0
         /\ \A c \in Conns : Queued(c)' = Queued(c) + IF c = e.conn THEN 1 ELSE 0
<1>1. data_package_queue \in [Workers -> Seq(Request)] /\ IsFiniteSet(Workers)
  BY ThreadsFinite DEF TypesInv
<1>2. data_package_queue' \in [Workers -> Seq(Request)]
  <2>1. Append(data_package_queue[i], e) \in Seq(Request)
    BY <1>1, AppendProperties
  <2> QED
    BY <1>1, <2>1
<1>3. ASSUME NEW S
      PROVE  Cardinality(Places(data_package_queue', S)) =
               Cardinality(Places(data_package_queue, S)) + IF e \in S THEN 1 ELSE 0
  <2>1. /\ data_package_queue'[i] = Append(data_package_queue[i], e)
        /\ \A j \in Workers \ {i} : data_package_queue'[j] = data_package_queue[j]
    BY <1>1
  <2> DEFINE lists == data_package_queue
             more == data_package_queue'
  <2>2. Appended(Workers, Request, lists, more, i, e)
    BY <1>1, <1>2, <2>1 DEF Appended
  <2> HIDE DEF lists, more
  <2>3. Cardinality(Places(more, S)) = Cardinality(Places(lists, S)) + IF e \in S THEN 1 ELSE 0
    BY <2>2, PlacesAppend
  <2> QED
    BY <2>3 DEF lists, more
<1>4. /\ \A o \in Workers : e \in [conn : Conns, owner : {o}] <=> o = e.owner
      /\ \A c \in Conns : e \in [conn : {c}, owner : Workers] <=> c = e.conn
  BY DEF Request
<1> QED
  BY <1>2, <1>3, <1>4 DEF InQueues, Queued

LEMMA QueueShrinks ==
  ASSUME TypesInv, NEW i \in Workers, data_package_queue[i] # <<>>,
         data_package_queue' = [data_package_queue EXCEPT ![i] = Tail(@)]
  PROVE  LET e == Head(data_package_queue[i]) IN
         /\ e \in Request /\ data_package_queue' \in [Workers -> Seq(Request)]
         /\ \A o \in Workers : /\ InQueues(o)' \in Nat
                                /\ InQueues(o) = InQueues(o)' + IF o = e.owner THEN 1 ELSE 0
         /\ \A c \in Conns : /\ Queued(c)' \in Nat
                              /\ Queued(c) = Queued(c)' + IF c = e.conn THEN 1 ELSE 0
<1> DEFINE e == Head(data_package_queue[i])
<1>1. data_package_queue \in [Workers -> Seq(Request)] /\ IsFiniteSet(Workers)
  BY ThreadsFinite DEF TypesInv
<1>2. e \in Request /\ Tail(data_package_queue[i]) \in Seq(Request)
  BY <1>1, HeadTailProperties
<1>3. data_package_queue' \in [Workers -> Seq(Request)]
  BY <1>1, <1>2
<1>4. ASSUME NEW S
      PROVE  /\ Cardinality(Places(data_package_queue', S)) \in Nat
             /\ Cardinality(Places(data_package_queue, S)) =
                  Cardinality(Places(data_package_queue', S)) + IF e \in S THEN 1 ELSE 0
  <2>1. /\ data_package_queue'[i] = Tail(data_package_queue[i])
        /\ \A j \in Workers \ {i} : data_package_queue'[j] = data_package_queue[j]
    BY <1>1
  <2> DEFINE lists == data_package_queue
             less == data_package_queue'
  <2>2. FirstTaken(Workers, Request, lists, less, i) /\ e = Head(lists[i])
    BY <1>1, <1>3, <2>1 DEF FirstTaken
  <2> HIDE DEF lists, less, e
  <2>3. /\ Cardinality(Places(less, S)) \in Nat
        /\ Cardinality(Places(lists, S)) = Cardinality(Places(less, S)) + IF e \in S THEN 1 ELSE 0
    BY <2>2, PlacesTail
  <2> QED
    BY <2>3 DEF lists, less
<1>5. /\ \A o \in Workers : e \in [conn : Conns, owner : {o}] <=> o = e.owner
      /\ \A c \in Conns : e \in [conn : {c}, owner : Workers] <=> c = e.conn
  BY <1>2 DEF Request
<1> HIDE DEF e
<1> QED
  BY <1>2, <1>3, <1>4, <1>5 DEF InQueues, Queued, e

(* A list of one connection only *)
LEMMA ListAlone ==
  ASSUME NEW f \in [Conns -> Seq(Answer)], NEW d \in Conns
  PROVE  [x \in {d} |-> f[x]] \in [{d} -> Seq(Answer)] /\ [x \in {d} |-> f[x]][d] = f[d]
OBVIOUS

LEMMA ListGrows ==
  ASSUME TypesInv, NEW c \in Conns, NEW e \in Answer,
         write_cache' = [write_cache EXCEPT ![c] = Append(@, e)]
  PROVE  /\ write_cache' \in [Conns -> Seq(Answer)]
         /\ \A d \in Conns : write_cache[d] # <<>> => write_cache'[d] # <<>>
         /\ \A o \in Workers : InLists(o)' = InLists(o) + IF o = e.owner THEN 1 ELSE 0
         /\ \A d \in Conns : Closing(d)' = Closing(d) + IF d = c /\ e.last THEN 1 ELSE 0
<1> DEFINE lists == write_cache
           more == write_cache'
<1>1. lists \in [Conns -> Seq(Answer)] /\ IsFiniteSet(Conns)
  BY ThreadsFinite DEF TypesInv
<1>2. /\ Append(lists[c], e) \in Seq(Answer) /\ Append(lists[c], e) # <<>>
      /\ more = [lists EXCEPT ![c] = Append(lists[c], e)]
  BY <1>1, AppendProperties
<1>3. /\ more \in [Conns -> Seq(Answer)] /\ more[c] = Append(lists[c], e)
      /\ \A d \in Conns \ {c} : more[d] = lists[d]
  BY <1>1, <1>2
<1>4. Appended(Conns, Answer, lists, more, c, e)
  BY <1>1, <1>3 DEF Appended
<1> HIDE DEF lists, more
<1>5. ASSUME NEW o \in Workers
      PROVE  LET S == [owner : {o}, last : BOOLEAN] IN
             Cardinality(Places(more, S)) = Cardinality(Places(lists, S)) + IF o = e.owner THEN 1 ELSE 0
  <2> DEFINE S == [owner : {o}, last : BOOLEAN]
  <2>1. e \in S <=> o = e.owner
    BY DEF Answer
  <2> HIDE DEF S
  <2>2. Cardinality(Places(more, S)) = Cardinality(Places(lists, S)) + IF e \in S THEN 1 ELSE 0
    BY <1>4, PlacesAppend
  <2> QED
    BY <2>1, <2>2 DEF S
<1>6. ASSUME NEW d \in Conns
      PROVE  LET S == [owner : Workers, last : {TRUE}]
                 l == [x \in {d} |-> lists[x]]
                 m == [x \in {d} |-> more[x]]
             IN  Cardinality(Places(m, S)) = Cardinality(Places(l, S)) + IF d = c /\ e.last THEN 1 ELSE 0
  <2> DEFINE S == [owner : Workers, last : {TRUE}]
             l == [x \in {d} |-> lists[x]]
             m == [x \in {d} |-> more[x]]
  <2>1. e \in S <=> e.last
    BY DEF Answer
  <2>2. l \in [{d} -> Seq(Answer)] /\ m \in [{d} -> Seq(Answer)] /\ l[d] = lists[d] /\ m[d] = more[d]
    BY <1>1, <1>3, ListAlone
  <2>3. IsFiniteSet({d})
    BY FS_Singleton
  <2>4. CASE d = c
    <3>1. Appended({d}, Answer, l, m, d, e)
      BY <1>3, <2>2, <2>3, <2>4 DEF Appended
    <3> HIDE DEF S, l, m
    <3>2. Cardinality(Places(m, S)) = Cardinality(Places(l, S)) + IF e \in S THEN 1 ELSE 0
      BY <3>1, PlacesAppend
    <3> QED
      BY <2>1, <2>4, <3>2 DEF S, l, m
  <2>5. CASE d # c
    <3>1. m = l
      BY <1>3, <2>5
    <3>2. Cardinality(Places(l, S)) \in Nat
      <4> HIDE DEF S, l, m
      <4> QED
        BY <2>2, <2>3, PlacesFinite
    <3> HIDE DEF S, l, m
    <3>3. Cardinality(Places(m, S)) = Cardinality(Places(l, S)) + 0
      BY <3>1, <3>2
    <3> QED
      BY <2>5, <3>3 DEF S, l, m
  <2> QED
    BY <2>4, <2>5
<1>7. \A d \in Conns : lists[d] # <<>> => more[d] # <<>>
  BY <1>2, <1>3
<1> QED
  BY <1>3, <1>5, <1>6, <1>7 DEF InLists, Closing, lists, more

LEMMA ListShrinks ==
  ASSUME TypesInv, NEW c \in Conns, write_cache[c] # <<>>,
         write_cache' = [write_cache EXCEPT ![c] = Tail(@)]
  PROVE  LET e == Head(write_cache[c]) IN
         /\ e \in Answer /\ write_cache' \in [Conns -> Seq(Answer)]
         /\ \A d \in Conns \ {c} : write_cache'[d] = write_cache[d]
         /\ \A o \in Workers : /\ InLists(o)' \in Nat
                                /\ InLists(o) = InLists(o)' + IF o = e.owner THEN 1 ELSE 0
         /\ \A d \in Conns : /\ Closing(d)' \in Nat
                              /\ Closing(d) = Closing(d)' + IF d = c /\ e.last THEN 1 ELSE 0
<1> DEFINE lists == write_cache
           less == write_cache'
           e == Head(lists[c])
<1>1. lists \in [Conns -> Seq(Answer)] /\ IsFiniteSet(Conns)
  BY ThreadsFinite DEF TypesInv
<1>2. /\ Tail(lists[c]) \in Seq(Answer) /\ e \in Answer
      /\ less = [lists EXCEPT ![c] = Tail(lists[c])]
  BY <1>1, HeadTailProperties
<1>3. /\ less \in [Conns -> Seq(Answer)] /\ less[c] = Tail(lists[c])
      /\ \A d \in Conns \ {c} : less[d] = lists[d]
  BY <1>1, <1>2
<1>4. FirstTaken(Conns, Answer, lists, less, c) /\ lists[c] # <<>>
  BY <1>1, <1>3 DEF FirstTaken
<1> HIDE DEF lists, less, e
<1>5. ASSUME NEW o \in Workers
      PROVE  LET S == [owner : {o}, last : BOOLEAN] IN
             /\ Cardinality(Places(less, S)) \in Nat
             /\ Cardinality(Places(lists, S)) = Cardinality(Places(less, S)) + IF o = e.owner THEN 1 ELSE 0
  <2> DEFINE S == [owner : {o}, last : BOOLEAN]
  <2>1. e \in S <=> o = e.owner
    BY <1>2 DEF Answer
  <2> HIDE DEF S
  <2>2. /\ Cardinality(Places(less, S)) \in Nat
        /\ Cardinality(Places(lists, S)) = Cardinality(Places(less, S)) + IF e \in S THEN 1 ELSE 0
    BY <1>4, PlacesTail DEF e
  <2> QED
    BY <2>1, <2>2 DEF S
<1>6. ASSUME NEW d \in Conns
      PROVE  LET S == [owner : Workers, last : {TRUE}]
                 l == [x \in {d} |-> lists[x]]
                 m == [x \in {d} |-> less[x]]
             IN  /\ Cardinality(Places(m, S)) \in Nat
                 /\ Cardinality(Places(l, S)) = Cardinality(Places(m, S)) + IF d = c /\ e.last THEN 1 ELSE 0
  <2> DEFINE S == [owner : Workers, last : {TRUE}]
             l == [x \in {d} |-> lists[x]]
             m == [x \in {d} |-> less[x]]
  <2>1. e \in S <=> e.last
    BY <1>2 DEF Answer
  <2>2. l \in [{d} -> Seq(Answer)] /\ m \in [{d} -> Seq(Answer)] /\ l[d] = lists[d] /\ m[d] = less[d]
    BY <1>1, <1>3, ListAlone
  <2>3. IsFiniteSet({d})
    BY FS_Singleton
  <2>4. CASE d = c
    <3>1. FirstTaken({d}, Answer, l, m, d) /\ Head(l[d]) = e
      BY <1>3, <1>4, <2>2, <2>3, <2>4 DEF FirstTaken, e
    <3> HIDE DEF S, l, m
    <3>2. /\ Cardinality(Places(m, S)) \in Nat
          /\ Cardinality(Places(l, S)) = Cardinality(Places(m, S)) + IF e \in S THEN 1 ELSE 0
      BY <3>1, PlacesTail
    <3> QED
      BY <2>1, <2>4, <3>2 DEF S, l, m
  <2>5. CASE d # c
    <3>1. m = l
      BY <1>3, <2>5
    <3>2. Cardinality(Places(l, S)) \in Nat
      <4> HIDE DEF S, l, m
      <4> QED
        BY <2>2, <2>3, PlacesFinite
    <3> HIDE DEF S, l, m
    <3>3. /\ Cardinality(Places(m, S)) \in Nat
          /\ Cardinality(Places(l, S)) = Cardinality(Places(m, S)) + 0
      BY <3>1, <3>2
    <3> QED
      BY <2>5, <3>3 DEF S, l, m
  <2> QED
    BY <2>4, <2>5
<1> QED
  BY <1>2, <1>3, <1>5, <1>6 DEF InLists, Closing, lists, less, e

(* A package is put back into a pool, or taken from it. *)
LEMMA PoolChanges ==
  ASSUME TypesInv, NEW i \in Workers
  PROVE  /\ Put(i) => /\ p_pool' \in [Workers -> Nat]
                      /\ \A o \in Workers : p_pool'[o] = p_pool[o] + IF o = i THEN 1 ELSE 0
         /\ Get(i) => /\ p_pool' \in [Workers -> Nat]
                      /\ \A o \in Workers : p_pool[o] = p_pool'[o] + IF o = i THEN 1 ELSE 0
<1>1. p_pool \in [Workers -> Nat]
  BY DEF TypesInv
<1>2. ASSUME Put(i)
      PROVE  /\ p_pool' \in [Workers -> Nat]
             /\ \A o \in Workers : p_pool'[o] = p_pool[o] + IF o = i THEN 1 ELSE 0
  BY <1>1, <1>2 DEF Put
<1>3. ASSUME Get(i)
      PROVE  /\ p_pool' \in [Workers -> Nat]
             /\ \A o \in Workers : p_pool[o] = p_pool'[o] + IF o = i THEN 1 ELSE 0
  BY <1>1, <1>3 DEF Get
<1> QED
  BY <1>2, <1>3

(* An application thread has something else in hand. *)
LEMMA HandsChange ==
  ASSUME TypesInv, NEW t \in Workers,
         \A u \in Workers \ {t} : areq'[u] = areq[u] /\ apc'[u] = apc[u]
  PROVE  /\ \A o \in Workers :
              /\ InHands(o)' \in Nat
              /\ InHands(o)' + (IF areq[t].owner = o THEN 1 ELSE 0)
                   = InHands(o) + (IF areq'[t].owner = o THEN 1 ELSE 0)
         /\ \A c \in Conns :
              /\ Served(c)' \in Nat
              /\ Served(c)' + (IF apc[t] \in Serving /\ areq[t].conn = c THEN 1 ELSE 0)
                   = Served(c) + (IF apc'[t] \in Serving /\ areq'[t].conn = c THEN 1 ELSE 0)
<1>1. ASSUME NEW o \in Workers
      PROVE  /\ InHands(o)' \in Nat
             /\ InHands(o)' + (IF areq[t].owner = o THEN 1 ELSE 0)
                  = InHands(o) + (IF areq'[t].owner = o THEN 1 ELSE 0)
  <2> DEFINE A == {u \in Workers : areq[u].owner = o}
             B == {u \in Workers : areq'[u].owner = o}
  <2>1. /\ A \ {t} = B \ {t} /\ A \subseteq Workers
        /\ (t \in A <=> areq[t].owner = o) /\ (t \in B <=> areq'[t].owner = o)
    OBVIOUS
  <2>2. InHands(o) = Cardinality(A) /\ InHands(o)' = Cardinality(B)
    BY DEF InHands
  <2> HIDE DEF A, B
  <2>3. IsFiniteSet(A)
    BY <2>1, ThreadsFinite, FS_Subset
  <2>4. /\ Cardinality(B) \in Nat
        /\ Cardinality(B) + (IF t \in A THEN 1 ELSE 0) = Cardinality(A) + (IF t \in B THEN 1 ELSE 0)
    BY <2>1, <2>3, CountOne
  <2> QED
    BY <2>1, <2>2, <2>4
<1>2. ASSUME NEW c \in Conns
      PROVE  /\ Served(c)' \in Nat
             /\ Served(c)' + (IF apc[t] \in Serving /\ areq[t].conn = c THEN 1 ELSE 0)
                  = Served(c) + (IF apc'[t] \in Serving /\ areq'[t].conn = c THEN 1 ELSE 0)
  <2> DEFINE A == {u \in Workers : apc[u] \in Serving /\ areq[u].conn = c}
             B == {u \in Workers : apc'[u] \in Serving /\ areq'[u].conn = c}
  <2>1. /\ A \ {t} = B \ {t} /\ A \subseteq Workers
        /\ (t \in A <=> apc[t] \in Serving /\ areq[t].conn = c)
        /\ (t \in B <=> apc'[t] \in Serving /\ areq'[t].conn = c)
    OBVIOUS
  <2>2. Served(c) = Cardinality(A) /\ Served(c)' = Cardinality(B)
    BY DEF Served, Serving
  <2> HIDE DEF A, B
  <2>3. IsFiniteSet(A)
    BY <2>1, ThreadsFinite, FS_Subset
  <2>4. /\ Cardinality(B) \in Nat
        /\ Cardinality(B) + (IF t \in A THEN 1 ELSE 0) = Cardinality(A) + (IF t \in B THEN 1 ELSE 0)
    BY <2>1, <2>3, CountOne
  <2> QED
    BY <2>1, <2>2, <2>4
<1> QED
  BY <1>1, <1>2
-----------------------------------------------------------------------------
(***************************************************************************)
(* The events of a batch                                                   *)
(***************************************************************************)
LEMMA EventFacts ==
  ASSUME TypesInv, NEW w \in Workers, segment[w] # <<>>
  PROVE  /\ Head(segment[w]) \in Event /\ Conn(w) \in Conns /\ Conn(w) = segment[w][1].conn
         /\ Head(segment[w]) = segment[w][1] /\ 1 \in DOMAIN segment[w]
         /\ Tail(segment[w]) \in Seq(Event)
         /\ DOMAIN Tail(segment[w]) \subseteq Nat
         /\ \A i \in DOMAIN Tail(segment[w]) : /\ i + 1 \in DOMAIN segment[w] /\ i + 1 # 1
                                               /\ Tail(segment[w])[i] = segment[w][i + 1]
<1>1. segment[w] \in Seq(Event)
  BY DEF TypesInv
<1>2. /\ Head(segment[w]) \in Event /\ Tail(segment[w]) \in Seq(Event)
      /\ Len(Tail(segment[w])) = Len(segment[w]) - 1
      /\ \A i \in 1 .. Len(Tail(segment[w])) : Tail(segment[w])[i] = segment[w][i + 1]
  BY <1>1, HeadTailProperties
<1>3. Len(segment[w]) \in Nat \ {0} /\ DOMAIN segment[w] = 1 .. Len(segment[w])
  BY <1>1, EmptySeq, LenProperties
<1>4. Len(Tail(segment[w])) \in Nat /\ DOMAIN Tail(segment[w]) = 1 .. Len(Tail(segment[w]))
  BY <1>2, LenProperties
<1>5. Head(segment[w]) = segment[w][1]
  BY <1>1
<1>6. Conn(w) \in Conns /\ Conn(w) = segment[w][1].conn
  BY <1>2, <1>5 DEF Conn, Event
<1> QED
  BY <1>2, <1>3, <1>4, <1>5, <1>6

(* The event after the one of thread w: what the step does concerns that   *)
(* event's connection.                                                     *)
LEMMA NextEventKeeps ==
  ASSUME TypesInv, EventsInv, NEW w \in Workers, segment[w] # <<>>, NextEvent(w),
         \A c \in Conns \ {Conn(w)} :
            /\ arrived[c] > 0 => arrived'[c] > 0
            /\ write_cache[c] # <<>> => write_cache'[c] # <<>>
  PROVE  /\ segment' \in [Workers -> Seq(Event)] /\ wpc' \in [Workers -> {"next", "listen", "send"}]
         /\ EventsInv'
<1> DEFINE c == Conn(w)
<1>1. /\ segment \in [Workers -> Seq(Event)] /\ wpc \in [Workers -> {"next", "listen", "send"}]
      /\ segment' = [segment EXCEPT ![w] = Tail(segment[w])] /\ wpc' = [wpc EXCEPT ![w] = "next"]
  BY DEF TypesInv, NextEvent
<1>2. segment' \in [Workers -> Seq(Event)] /\ wpc' \in [Workers -> {"next", "listen", "send"}]
  BY <1>1, EventFacts
<1>3. /\ segment'[w] = Tail(segment[w]) /\ wpc'[w] = "next"
      /\ \A v \in Workers \ {w} : segment'[v] = segment[v] /\ wpc'[v] = wpc[v]
  BY <1>1
<1>4. ASSUME NEW v \in Workers, NEW i \in DOMAIN segment'[v]
      PROVE  \E k \in DOMAIN segment[v] :
               /\ segment'[v][i] = segment[v][k] /\ k = (IF v = w THEN i + 1 ELSE i)
               /\ segment[v][k].conn # c
  <2>1. CASE v = w
    <3>1. i + 1 \in DOMAIN segment[w] /\ i + 1 # 1 /\ segment'[w][i] = segment[w][i + 1]
          /\ 1 \in DOMAIN segment[w] /\ c = segment[w][1].conn
      BY <1>3, <2>1, EventFacts
    <3>2. segment[w][i + 1].conn # c
      BY <3>1 DEF EventsInv
    <3> QED
      BY <2>1, <3>1, <3>2
  <2>2. CASE v # w
    <3>1. i \in DOMAIN segment[v] /\ segment'[v][i] = segment[v][i]
      BY <1>3, <2>2
    <3>2. 1 \in DOMAIN segment[w] /\ c = segment[w][1].conn
      BY EventFacts
    <3>3. segment[v][i].conn # c
      BY <2>2, <3>1, <3>2 DEF EventsInv
    <3> QED
      BY <2>2, <3>1, <3>3
  <2> QED
    BY <2>1, <2>2
<1>5. ASSUME NEW v \in Workers, NEW i \in DOMAIN segment'[v]
      PROVE  segment'[v][i] \in Event /\ i \in Nat
  <2>1. segment'[v] \in Seq(Event)
    BY <1>2
  <2> QED
    BY <2>1, ElementOfSeq, LenProperties
<1> HIDE DEF c
<1>6. ASSUME NEW v \in Workers, NEW u \in Workers, NEW i \in DOMAIN segment'[v],
             NEW j \in DOMAIN segment'[u], segment'[v][i].conn = segment'[u][j].conn
      PROVE  v = u /\ i = j
  <2>1. PICK k \in DOMAIN segment[v] : segment'[v][i] = segment[v][k] /\ k = (IF v = w THEN i + 1 ELSE i)
    BY <1>4
  <2>2. PICK l \in DOMAIN segment[u] : segment'[u][j] = segment[u][l] /\ l = (IF u = w THEN j + 1 ELSE j)
    BY <1>4
  <2>3. v = u /\ k = l
    BY <1>6, <2>1, <2>2 DEF EventsInv
  <2> QED
    BY <1>5, <2>1, <2>2, <2>3
<1>7. ASSUME NEW v \in Workers, NEW i \in DOMAIN segment'[v], segment'[v][i].mode = "in"
      PROVE  arrived'[segment'[v][i].conn] > 0
  <2>1. PICK k \in DOMAIN segment[v] : segment'[v][i] = segment[v][k] /\ segment[v][k].conn # c
    BY <1>4
  <2>2. arrived[segment[v][k].conn] > 0
    BY <1>7, <2>1 DEF EventsInv
  <2>3. segment[v][k].conn \in Conns \ {c}
    BY <1>5, <2>1 DEF Event
  <2> QED
    BY <2>1, <2>2, <2>3 DEF c
<1>8. ASSUME NEW v \in Workers, wpc'[v] # "next"
      PROVE  /\ v # w /\ segment'[v] = segment[v] /\ segment[v] # <<>> /\ wpc'[v] = wpc[v]
             /\ Head(segment[v]).mode = "out"
  BY <1>3, <1>8 DEF EventsInv
<1>9. ASSUME NEW v \in Workers, wpc'[v] = "send"
      PROVE  write_cache'[Conn(v)'] # <<>>
  <2>1. v # w /\ segment'[v] = segment[v] /\ segment[v] # <<>> /\ wpc[v] = "send"
    BY <1>8, <1>9
  <2>2. Conn(v)' = Conn(v) /\ Conn(v) = segment[v][1].conn /\ 1 \in DOMAIN segment[v]
        /\ Conn(v) \in Conns
    BY <2>1, EventFacts DEF Conn
  <2>3. 1 \in DOMAIN segment[w] /\ c = segment[w][1].conn
    BY EventFacts DEF c
  <2>4. Conn(v) # c
    BY <2>1, <2>2, <2>3 DEF EventsInv
  <2>5. write_cache[Conn(v)] # <<>>
    BY <2>1 DEF EventsInv
  <2> QED
    BY <2>2, <2>4, <2>5 DEF c
<1>10. EventsInv'
  BY <1>6, <1>7, <1>8, <1>9 DEF EventsInv
<1> QED
  BY <1>2, <1>10

(* A step that handles no event *)
LEMMA EventsKept ==
  ASSUME TypesInv, EventsInv, UNCHANGED <<segment, wpc>>,
         \A c \in Conns : /\ arrived[c] > 0 => arrived'[c] > 0
                          /\ write_cache[c] # <<>> => write_cache'[c] # <<>>
  PROVE  EventsInv'
<1>1. ASSUME NEW w \in Workers, NEW i \in DOMAIN segment[w] PROVE segment[w][i].conn \in Conns
  <2>1. segment[w] \in Seq(Event)
    BY DEF TypesInv
  <2>2. segment[w][i] \in Event
    BY <2>1, ElementOfSeq, LenProperties
  <2> QED
    BY <2>2 DEF Event
<1>2. ASSUME NEW w \in Workers, wpc[w] = "send" PROVE write_cache'[Conn(w)] # <<>>
  <2>1. segment[w] # <<>> /\ write_cache[Conn(w)] # <<>>
    BY <1>2 DEF EventsInv
  <2> QED
    BY <2>1, EventFacts
<1>3. \A w \in Workers : Conn(w)' = Conn(w)
  BY DEF Conn
<1> QED
  BY <1>1, <1>2, <1>3 DEF EventsInv

(* A batch has one event of each connection that is ready. *)
LEMMA EpollWaitEvents ==
  ASSUME TypesInv, EventsInv, EpollWait
  PROVE  segment' \in [Workers -> Seq(Event)] /\ EventsInv'
<1>1. \A w \in Workers : segment[w] = <<>> /\ wpc[w] = "next"
  BY DEF EpollWait, Done, EventsInv
<1>2. PICK writable \in SUBSET Writing : \E order \in SetToSeqs(Readable \cup writable) :
        LET events == [k \in DOMAIN order |-> [conn |-> order[k], mode |-> interest[order[k]]]]
            n      == Len(events)
        IN  segment' = [w \in Workers |-> SubSeq(events, SegStart(w, n) + 1, SegEnd(w, n))]
  BY DEF EpollWait
<1> DEFINE ready == Readable \cup writable
<1>3. PICK order \in SetToSeqs(ready) :
        LET events == [k \in DOMAIN order |-> [conn |-> order[k], mode |-> interest[order[k]]]]
            n      == Len(events)
        IN  segment' = [w \in Workers |-> SubSeq(events, SegStart(w, n) + 1, SegEnd(w, n))]
  BY <1>2
<1> DEFINE events == [k \in DOMAIN order |-> [conn |-> order[k], mode |-> interest[order[k]]]]
           n == Cardinality(ready)
<1>4. ready \subseteq Conns
  BY DEF Readable, Writing
<1>5. n \in 0 .. MAX_CONNECT
  <2>1. IsFiniteSet(ready) /\ n <= Cardinality(Conns)
    BY <1>4, ThreadsFinite, FS_Subset
  <2>2. n \in Nat /\ Cardinality(Conns) \in Nat
    BY <2>1, ThreadsFinite, FS_CardinalityType
  <2> QED
    BY <2>1, <2>2, ServerAssumption, SegmentAssumption
<1>6. /\ order \in [1 .. n -> ready]
      /\ \A i, j \in 1 .. n : i # j => order[i] # order[j]
  BY DEF SetToSeqs
<1>7. /\ events \in [1 .. n -> Event] /\ Len(events) = n
      /\ \A k \in 1 .. n : events[k].conn = order[k] /\ events[k].mode = interest[order[k]]
  <2>1. \A k \in 1 .. n : order[k] \in Conns /\ interest[order[k]] \in {"in", "out"}
    BY <1>4, <1>6 DEF TypesInv
  <2>2. DOMAIN order = 1 .. n
    BY <1>6
  <2>3. events \in [1 .. n -> Event]
    BY <2>1, <2>2 DEF Event
  <2>4. Len(events) = n
    BY <1>5, <2>2
  <2> QED
    BY <2>2, <2>3, <2>4
<1>8. \A k \in 1 .. n : events[k].mode = "in" => arrived[events[k].conn] > 0
  <2>1. ASSUME NEW k \in 1 .. n, interest[order[k]] = "in" PROVE arrived[order[k]] > 0
    <3>1. order[k] \in Readable \/ order[k] \in Writing
      BY <1>6
    <3> QED
      BY <2>1, <3>1 DEF Readable, Writing
  <2> QED
    BY <1>7, <2>1
<1>9. segment' = [w \in Workers |-> SubSeq(events, SegStart(w, n) + 1, SegEnd(w, n))]
  BY <1>3, <1>7
<1> HIDE DEF events, n, ready
<1>10. ASSUME NEW w \in Workers
       PROVE  /\ segment'[w] \in Seq(Event)
              /\ \A i \in DOMAIN segment'[w] :
                   /\ i \in Nat /\ SegStart(w, n) \in Nat /\ i + SegStart(w, n) \in 1 .. n
                   /\ i + SegStart(w, n) <= SegEnd(w, n) /\ SegStart(w, n) < SegEnd(w, n)
                   /\ segment'[w][i] = events[i + SegStart(w, n)]
  <2> DEFINE a == SegStart(w, n)
             b == SegEnd(w, n)
             s == SubSeq(events, a + 1, b)
  <2>1. a \in 0 .. n /\ b \in 0 .. n /\ a <= b /\ n \in Nat
    BY <1>5, SegmentBounds
  <2>2. segment'[w] = s
    BY <1>9
  <2> HIDE DEF a, b
  <2>3. \A i \in a + 1 .. b : events[i] \in Event
    BY <1>7, <2>1
  <2>4. /\ s \in Seq(Event) /\ Len(s) = (IF a + 1 <= b THEN b - (a + 1) + 1 ELSE 0)
        /\ \A i \in 1 .. b - (a + 1) + 1 : s[i] = events[(a + 1) + i - 1]
    <3>1. a + 1 \in Int /\ b \in Int
      BY <2>1
    <3> DEFINE d == a + 1
    <3>2. d \in Int /\ \A i \in d .. b : events[i] \in Event
      BY <2>3, <3>1
    <3> HIDE DEF d
    <3>3. /\ SubSeq(events, d, b) \in Seq(Event)
          /\ Len(SubSeq(events, d, b)) = (IF d <= b THEN b - d + 1 ELSE 0)
          /\ \A i \in 1 .. b - d + 1 : SubSeq(events, d, b)[i] = events[d + i - 1]
      BY <3>1, <3>2, SubSeqProperties
    <3> QED
      BY <3>3 DEF d
  <2> HIDE DEF s
  <2>5. DOMAIN s = 1 .. b - a
    <3>1. DOMAIN s = 1 .. Len(s)
      BY <2>4, LenProperties
    <3> QED
      BY <2>1, <2>4, <3>1
  <2>6. ASSUME NEW i \in 1 .. b - a
        PROVE  /\ i \in Nat /\ a \in Nat /\ i + a \in 1 .. n /\ i + a <= b /\ a < b
               /\ s[i] = events[i + a]
    <3>1. i \in 1 .. b - (a + 1) + 1
      BY <2>1
    <3>2. s[i] = events[(a + 1) + i - 1]
      BY <2>4, <3>1
    <3>3. (a + 1) + i - 1 = i + a
      BY <2>1
    <3> QED
      BY <2>1, <3>2, <3>3
  <2> QED
    BY <2>2, <2>4, <2>5, <2>6 DEF a, b
<1>11. segment' \in [Workers -> Seq(Event)]
  BY <1>9, <1>10
<1>12. ASSUME NEW v \in Workers, NEW w \in Workers, NEW i \in DOMAIN segment'[v],
              NEW j \in DOMAIN segment'[w], segment'[v][i].conn = segment'[w][j].conn
       PROVE  v = w /\ i = j
  <2> DEFINE a == SegStart(v, n)
             b == SegEnd(v, n)
             c == SegStart(w, n)
             d == SegEnd(w, n)
  <2>1. /\ i \in Nat /\ a \in Nat /\ i + a \in 1 .. n /\ i + a <= b /\ a < b
        /\ j \in Nat /\ c \in Nat /\ j + c \in 1 .. n /\ j + c <= d /\ c < d
        /\ segment'[v][i] = events[i + a] /\ segment'[w][j] = events[j + c]
    BY <1>10
  <2>2. (v < w => b <= c) /\ (w < v => d <= a)
    BY <1>5, <2>1, SegmentsOrdered
  <2>3. b \in Nat /\ d \in Nat
    BY <1>5, SegmentBounds
  <2>4. 1 <= i /\ 1 <= j
    <3>1. segment'[v] \in Seq(Event) /\ segment'[w] \in Seq(Event)
      BY <1>10
    <3>2. DOMAIN segment'[v] = 1 .. Len(segment'[v]) /\ DOMAIN segment'[w] = 1 .. Len(segment'[w])
      BY <3>1, LenProperties
    <3> QED
      BY <3>2
  <2> HIDE DEF a, b, c, d
  <2>5. i + a = j + c
    BY <1>6, <1>7, <1>12, <2>1
  <2>6. v \in Int /\ w \in Int
    BY SegmentAssumption DEF Workers
  <2>7. v = w
    BY <2>1, <2>2, <2>3, <2>4, <2>5, <2>6
  <2>8. a = c
    BY <2>7 DEF a, c
  <2> QED
    BY <2>1, <2>5, <2>7, <2>8
<1>13. ASSUME NEW w \in Workers, NEW i \in DOMAIN segment'[w], segment'[w][i].mode = "in"
       PROVE  arrived'[segment'[w][i].conn] > 0
  <2>1. segment'[w][i] = events[i + SegStart(w, n)] /\ i + SegStart(w, n) \in 1 .. n
    BY <1>10
  <2>2. arrived' = arrived
    BY DEF EpollWait
  <2> QED
    BY <1>8, <1>13, <2>1, <2>2
<1>14. \A w \in Workers : wpc'[w] = "next"
  BY <1>1 DEF EpollWait
<1> QED
  BY <1>11, <1>12, <1>13, <1>14 DEF EventsInv
-----------------------------------------------------------------------------
(***************************************************************************)
(* Every step keeps the invariant                                          *)
(***************************************************************************)
(* Steps that concern neither packages nor requests *)
LEMMA AccountsKept ==
  ASSUME LocalsInv, PackagesInv, RequestsInv,
         UNCHANGED <<pending, arrived, p_pool, write_cache, data_package_queue, apc, areq, apool>>
  PROVE  LocalsInv' /\ PackagesInv' /\ RequestsInv'
<1>1. LocalsInv'
  BY DEF LocalsInv
<1>2. PackagesInv'
  BY DEF PackagesInv, InQueues, InLists, InHands
<1>3. \A c : Queued(c)' = Queued(c) /\ Served(c)' = Served(c) /\ Closing(c)' = Closing(c)
  BY DEF Queued, Served, Closing
<1>4. RequestsInv'
  BY <1>3 DEF RequestsInv
<1> QED
  BY <1>1, <1>2, <1>4

LEMMA PeerSendsKeeps ==
  ASSUME ServerInv, NEW c \in Conns, PeerSends(c) PROVE ServerInv'
<1> USE DEF ServerInv
<1>1. /\ pending \in [Conns -> Nat] /\ arrived \in [Conns -> Nat]
      /\ pending' = [pending EXCEPT ![c] = @ + 1] /\ arrived' = [arrived EXCEPT ![c] = @ + 1]
      /\ pending[c] < Window[c] /\ Window[c] \in Nat
      /\ \A d \in Conns : pending[d] <= Window[d]
  BY ServerAssumption DEF TypesInv, PeerSends
<1>2. /\ pending' \in [Conns -> Nat] /\ arrived' \in [Conns -> Nat]
      /\ pending'[c] = pending[c] + 1 /\ arrived'[c] = arrived[c] + 1
      /\ \A d \in Conns \ {c} : pending'[d] = pending[d] /\ arrived'[d] = arrived[d]
  BY <1>1
<1>3. UNCHANGED <<segment, wpc, interest, p_pool, write_cache, data_package_queue, apc, areq, apool>>
  BY DEF PeerSends, appVars
<1>4. \A d \in Conns : pending'[d] <= Window[d]
  <2>1. pending[c] \in Nat /\ pending[c] + 1 <= Window[c]
    BY <1>1
  <2> QED
    BY <1>1, <1>2, <2>1
<1>5. TypesInv'
  BY <1>2, <1>3, <1>4 DEF TypesInv
<1>6. LocalsInv'
  BY <1>3 DEF LocalsInv
<1>7. EventsInv'
  <2>1. \A d \in Conns : arrived[d] > 0 => arrived'[d] > 0
    BY <1>1, <1>2
  <2> QED
    BY <1>3, <2>1, EventsKept
<1>8. PackagesInv'
  BY <1>3 DEF PackagesInv, InQueues, InLists, InHands
<1>9. RequestsInv'
  <2>1. \A d \in Conns : Queued(d)' = Queued(d) /\ Served(d)' = Served(d) /\ Closing(d)' = Closing(d)
    BY <1>3 DEF Queued, Served, Closing
  <2>2. ASSUME NEW d \in Conns
        PROVE  pending'[d] = arrived'[d] + Queued(d) + Served(d) + Closing(d)
    <3>1. /\ Queued(d) \in Nat /\ Served(d) \in Nat /\ Closing(d) \in Nat
          /\ pending[d] \in Nat /\ arrived[d] \in Nat
          /\ pending[d] = arrived[d] + Queued(d) + Served(d) + Closing(d)
      BY <1>1, CountsAreNat DEF RequestsInv
    <3>2. \/ pending'[d] = pending[d] /\ arrived'[d] = arrived[d]
          \/ pending'[d] = pending[d] + 1 /\ arrived'[d] = arrived[d] + 1
      BY <1>2
    <3> QED
      BY <3>1, <3>2
  <2> QED
    BY <2>1, <2>2 DEF RequestsInv
<1> QED
  BY <1>5, <1>6, <1>7, <1>8, <1>9

LEMMA EpollWaitKeeps ==
  ASSUME ServerInv, EpollWait PROVE ServerInv'
<1> USE DEF ServerInv
<1>1. UNCHANGED <<wpc, interest, pending, arrived, p_pool, write_cache,
                  data_package_queue, apc, areq, apool>>
  BY DEF EpollWait, appVars
<1>2. segment' \in [Workers -> Seq(Event)] /\ EventsInv'
  BY EpollWaitEvents
<1>3. TypesInv'
  BY <1>1, <1>2 DEF TypesInv
<1> QED
  BY <1>1, <1>3, <1>2, AccountsKept

LEMMA LookAtListKeeps ==
  ASSUME ServerInv, NEW w \in Workers, LookAtList(w) PROVE ServerInv'
<1> USE DEF ServerInv
<1>1. UNCHANGED <<segment, interest, pending, arrived, p_pool, write_cache,
                  data_package_queue, apc, areq, apool>>
  BY DEF LookAtList, appVars
<1>2. /\ segment[w] # <<>> /\ Head(segment[w]).mode = "out"
      /\ wpc' = [wpc EXCEPT ![w] = IF write_cache[Conn(w)] = <<>> THEN "listen" ELSE "send"]
  BY DEF LookAtList, Handles, Done
<1>3. /\ wpc' \in [Workers -> {"next", "listen", "send"}]
      /\ wpc'[w] = "send" => write_cache[Conn(w)] # <<>>
      /\ \A v \in Workers \ {w} : wpc'[v] = wpc[v]
  BY <1>2 DEF TypesInv
<1>4. \A v \in Workers : Conn(v)' = Conn(v)
  BY <1>1 DEF Conn
<1>5. EventsInv'
  BY <1>1, <1>2, <1>3, <1>4 DEF EventsInv
<1>6. TypesInv'
  BY <1>1, <1>3 DEF TypesInv
<1> QED
  BY <1>1, <1>6, <1>5, AccountsKept

LEMMA ContinueListenKeeps ==
  ASSUME ServerInv, NEW w \in Workers, ContinueListen(w) PROVE ServerInv'
<1> USE DEF ServerInv
<1>1. UNCHANGED <<pending, arrived, p_pool, write_cache, data_package_queue, apc, areq, apool>>
  BY DEF ContinueListen, appVars
<1>2. segment[w] # <<>> /\ NextEvent(w) /\ interest' = [interest EXCEPT ![Conn(w)] = "in"]
  BY DEF ContinueListen, EventsInv
<1>3. interest' \in [Conns -> {"in", "out"}]
  BY <1>2 DEF TypesInv
<1>4. segment' \in [Workers -> Seq(Event)] /\ wpc' \in [Workers -> {"next", "listen", "send"}] /\ EventsInv'
  BY <1>1, <1>2, NextEventKeeps
<1>5. TypesInv'
  BY <1>1, <1>3, <1>4 DEF TypesInv
<1> QED
  BY <1>1, <1>5, <1>4, AccountsKept

LEMMA SendPartKeeps ==
  ASSUME ServerInv, NEW w \in Workers, SendPart(w) PROVE ServerInv'
<1> USE DEF ServerInv
<1>1. UNCHANGED <<interest, pending, arrived, p_pool, write_cache, data_package_queue, apc, areq, apool>>
  BY DEF SendPart, appVars
<1>2. segment[w] # <<>> /\ NextEvent(w)
  BY DEF SendPart, EventsInv
<1>3. segment' \in [Workers -> Seq(Event)] /\ wpc' \in [Workers -> {"next", "listen", "send"}] /\ EventsInv'
  BY <1>1, <1>2, NextEventKeeps
<1>4. TypesInv'
  BY <1>1, <1>3 DEF TypesInv
<1> QED
  BY <1>1, <1>4, <1>3, AccountsKept

LEMMA ReadHandlerKeeps ==
  ASSUME ServerInv, NEW w \in Workers, ReadHandler(w) PROVE ServerInv'
<1> USE DEF ServerInv
<1> DEFINE c == Conn(w)
           e == [conn |-> c, owner |-> w]
           i == c % THREAD_NUM
<1>1. UNCHANGED <<interest, pending, write_cache, apc, areq, apool>>
  BY DEF ReadHandler
<1>2. /\ segment[w] # <<>> /\ Head(segment[w]).mode = "in" /\ NextEvent(w) /\ Get(w)
      /\ arrived' = [arrived EXCEPT ![c] = @ - 1]
      /\ data_package_queue' = [data_package_queue EXCEPT ![i] = Append(@, e)]
  BY DEF ReadHandler, Handles, Done
<1>3. c \in Conns /\ arrived[c] > 0
  BY <1>2, EventFacts DEF EventsInv
<1>4. e \in Request /\ i \in Workers
  <2>1. c \in Nat /\ THREAD_NUM \in Nat \ {0}
    BY <1>3, ServerAssumption, SegmentAssumption
  <2> HIDE DEF c
  <2>2. i \in 0 .. THREAD_NUM - 1
    BY <2>1, RemainderBounds
  <2> QED
    BY <1>3, <2>2 DEF Request, Workers
<1> HIDE DEF c, e, i
<1>5. /\ data_package_queue' \in [Workers -> Seq(Request)]
      /\ \A o \in Workers : InQueues(o)' = InQueues(o) + IF o = e.owner THEN 1 ELSE 0
      /\ \A d \in Conns : Queued(d)' = Queued(d) + IF d = e.conn THEN 1 ELSE 0
  BY <1>2, <1>4, QueueGrows
<1>6. e.owner = w /\ e.conn = c
  BY DEF e
<1>7. /\ p_pool' \in [Workers -> Nat]
      /\ \A o \in Workers : p_pool[o] = p_pool'[o] + IF o = w THEN 1 ELSE 0
  BY <1>2, PoolChanges
<1>8. arrived \in [Conns -> Nat] /\ pending \in [Conns -> Nat]
  BY DEF TypesInv
<1>9. /\ arrived' \in [Conns -> Nat] /\ arrived'[c] = arrived[c] - 1
      /\ \A d \in Conns \ {c} : arrived'[d] = arrived[d]
  BY <1>2, <1>3, <1>8
<1>10. /\ segment' \in [Workers -> Seq(Event)] /\ wpc' \in [Workers -> {"next", "listen", "send"}]
       /\ EventsInv'
  BY <1>1, <1>2, <1>9, NextEventKeeps DEF c
<1>11. TypesInv'
  BY <1>1, <1>5, <1>7, <1>9, <1>10 DEF TypesInv
<1>12. LocalsInv'
  BY <1>1 DEF LocalsInv
<1>13. ASSUME NEW o \in Workers
       PROVE  (p_pool[o] + InQueues(o) + InLists(o) + InHands(o) = PoolSize)'
  <2>1. /\ InQueues(o)' = InQueues(o) + IF o = w THEN 1 ELSE 0
        /\ p_pool[o] = p_pool'[o] + IF o = w THEN 1 ELSE 0
        /\ InLists(o)' = InLists(o) /\ InHands(o)' = InHands(o)
    BY <1>1, <1>5, <1>6, <1>7 DEF InLists, InHands
  <2>2. /\ InQueues(o) \in Nat /\ InLists(o) \in Nat /\ InHands(o) \in Nat /\ p_pool'[o] \in Nat
        /\ p_pool[o] + InQueues(o) + InLists(o) + InHands(o) = PoolSize
    BY <1>7, CountsAreNat DEF PackagesInv
  <2> QED
    BY <2>1, <2>2
<1>14. ASSUME NEW d \in Conns
       PROVE  (pending[d] = arrived[d] + Queued(d) + Served(d) + Closing(d))'
  <2>1. /\ Queued(d)' = Queued(d) + IF d = c THEN 1 ELSE 0
        /\ arrived'[d] = arrived[d] - IF d = c THEN 1 ELSE 0
        /\ Served(d)' = Served(d) /\ Closing(d)' = Closing(d) /\ pending'[d] = pending[d]
    BY <1>1, <1>5, <1>6, <1>8, <1>9 DEF Served, Closing
  <2>2. /\ Queued(d) \in Nat /\ Served(d) \in Nat /\ Closing(d) \in Nat /\ arrived[d] \in Nat
        /\ pending[d] = arrived[d] + Queued(d) + Served(d) + Closing(d)
    BY <1>8, CountsAreNat DEF RequestsInv
  <2> QED
    BY <2>1, <2>2
<1> QED
  BY <1>10, <1>11, <1>12, <1>13, <1>14 DEF PackagesInv, RequestsInv

LEMMA SendFrontKeeps ==
  ASSUME ServerInv, NEW w \in Workers, SendFront(w) PROVE ServerInv'
<1> USE DEF ServerInv
<1> DEFINE c == Conn(w)
           e == Head(write_cache[c])
<1>1. UNCHANGED <<interest, arrived, data_package_queue, apc, areq, apool>>
  BY DEF SendFront, appVars
<1>2. /\ wpc[w] = "send" /\ NextEvent(w) /\ Put(e.owner)
      /\ write_cache' = [write_cache EXCEPT ![c] = Tail(@)]
      /\ pending' = [pending EXCEPT ![c] = IF e.last THEN @ - 1 ELSE @]
  BY DEF SendFront
<1>3. segment[w] # <<>> /\ write_cache[c] # <<>>
  BY <1>2 DEF EventsInv
<1>4. c \in Conns
  BY <1>3, EventFacts
<1> HIDE DEF c
<1>5. /\ e \in Answer /\ write_cache' \in [Conns -> Seq(Answer)]
      /\ \A d \in Conns \ {c} : write_cache'[d] = write_cache[d]
      /\ \A o \in Workers : /\ InLists(o)' \in Nat
                            /\ InLists(o) = InLists(o)' + IF o = e.owner THEN 1 ELSE 0
      /\ \A d \in Conns : /\ Closing(d)' \in Nat
                          /\ Closing(d) = Closing(d)' + IF d = c /\ e.last THEN 1 ELSE 0
  BY <1>2, <1>3, <1>4, ListShrinks
<1> HIDE DEF e
<1>6. e.owner \in Workers /\ e.last \in BOOLEAN
  BY <1>5 DEF Answer
<1>7. /\ p_pool' \in [Workers -> Nat]
      /\ \A o \in Workers : p_pool'[o] = p_pool[o] + IF o = e.owner THEN 1 ELSE 0
  BY <1>2, <1>6, PoolChanges
<1>8. /\ arrived \in [Conns -> Nat] /\ pending \in [Conns -> Nat] /\ p_pool \in [Workers -> Nat]
      /\ \A d \in Conns : pending[d] <= Window[d]
      /\ Window \in [Conns -> Nat]
  BY ServerAssumption DEF TypesInv
<1>9. ASSUME NEW d \in Conns
      PROVE  /\ pending'[d] \in Nat /\ pending'[d] <= pending[d]
             /\ (pending[d] = arrived[d] + Queued(d) + Served(d) + Closing(d))'
  <2>1. /\ Closing(d)' \in Nat /\ Closing(d) = Closing(d)' + IF d = c /\ e.last THEN 1 ELSE 0
        /\ Queued(d)' = Queued(d) /\ Served(d)' = Served(d) /\ arrived'[d] = arrived[d]
    BY <1>1, <1>5 DEF Queued, Served
  <2>2. /\ Queued(d) \in Nat /\ Served(d) \in Nat /\ arrived[d] \in Nat /\ pending[d] \in Nat
        /\ pending[d] = arrived[d] + Queued(d) + Served(d) + Closing(d)
    BY <1>8, CountsAreNat DEF RequestsInv
  <2>3. pending'[d] = pending[d] - IF d = c /\ e.last THEN 1 ELSE 0
    BY <1>2, <1>6, <1>8
  <2> QED
    BY <2>1, <2>2, <2>3
<1>10. pending' \in [Conns -> Nat] /\ \A d \in Conns : pending'[d] <= Window[d]
  <2>1. pending' \in [Conns -> Nat]
    BY <1>2, <1>8, <1>9
  <2>2. ASSUME NEW d \in Conns PROVE pending'[d] <= Window[d]
    <3>1. /\ pending'[d] \in Nat /\ pending[d] \in Nat /\ Window[d] \in Nat
          /\ pending'[d] <= pending[d] /\ pending[d] <= Window[d]
      BY <1>8, <1>9
    <3> QED
      BY <3>1
  <2> QED
    BY <2>1, <2>2
<1>11. /\ segment' \in [Workers -> Seq(Event)] /\ wpc' \in [Workers -> {"next", "listen", "send"}]
       /\ EventsInv'
  BY <1>1, <1>2, <1>3, <1>5, NextEventKeeps DEF c
<1>12. TypesInv'
  BY <1>1, <1>5, <1>7, <1>10, <1>11 DEF TypesInv
<1>13. LocalsInv'
  BY <1>1 DEF LocalsInv
<1>14. ASSUME NEW o \in Workers
       PROVE  (p_pool[o] + InQueues(o) + InLists(o) + InHands(o) = PoolSize)'
  <2>1. /\ InLists(o)' \in Nat /\ InLists(o) = InLists(o)' + IF o = e.owner THEN 1 ELSE 0
        /\ p_pool'[o] = p_pool[o] + IF o = e.owner THEN 1 ELSE 0
        /\ InQueues(o)' = InQueues(o) /\ InHands(o)' = InHands(o)
    BY <1>1, <1>5, <1>7 DEF InQueues, InHands
  <2>2. /\ InQueues(o) \in Nat /\ InHands(o) \in Nat /\ p_pool[o] \in Nat
        /\ p_pool[o] + InQueues(o) + InLists(o) + InHands(o) = PoolSize
    BY <1>8, CountsAreNat DEF PackagesInv
  <2> QED
    BY <2>1, <2>2
<1> QED
  BY <1>9, <1>11, <1>12, <1>13, <1>14 DEF PackagesInv, RequestsInv

LEMMA AsynReadKeeps ==
  ASSUME ServerInv, NEW t \in Workers, AsynRead(t) PROVE ServerInv'
<1> USE DEF ServerInv
<1> DEFINE e == Head(data_package_queue[t])
<1>1. UNCHANGED <<segment, wpc, interest, pending, arrived, p_pool, write_cache, apool>>
  BY DEF AsynRead
<1>2. /\ apc[t] = "idle" /\ data_package_queue[t] # <<>>
      /\ areq' = [areq EXCEPT ![t] = e]
      /\ data_package_queue' = [data_package_queue EXCEPT ![t] = Tail(@)]
      /\ apc' = [apc EXCEPT ![t] = "first"]
  BY DEF AsynRead, Goto
<1>3. /\ e \in Request /\ data_package_queue' \in [Workers -> Seq(Request)]
      /\ \A o \in Workers : /\ InQueues(o)' \in Nat
                            /\ InQueues(o) = InQueues(o)' + IF o = e.owner THEN 1 ELSE 0
      /\ \A c \in Conns : /\ Queued(c)' \in Nat
                          /\ Queued(c) = Queued(c)' + IF c = e.conn THEN 1 ELSE 0
  BY <1>2, QueueShrinks
<1> HIDE DEF e
<1>4. e.owner \in Workers /\ e.conn \in Conns /\ e \in [conn : Conns \cup {None}, owner : Workers \cup {None}]
  BY <1>3 DEF Request
<1>5. /\ areq' \in [Workers -> [conn : Conns \cup {None}, owner : Workers \cup {None}]]
      /\ apc' \in [Workers -> {"idle", "first", "arm", "armLast", "acquire", "second"}]
      /\ areq'[t] = e /\ apc'[t] = "first"
      /\ \A u \in Workers \ {t} : areq'[u] = areq[u] /\ apc'[u] = apc[u]
  BY <1>2, <1>4 DEF TypesInv
<1>6. TypesInv'
  BY <1>1, <1>3, <1>5 DEF TypesInv
<1>7. LocalsInv'
  <2>1. apool[t] \notin Workers
    BY <1>2 DEF LocalsInv
  <2> QED
    BY <1>1, <1>4, <1>5, <2>1 DEF LocalsInv
<1>8. EventsInv'
  BY <1>1, EventsKept
<1>9. ASSUME NEW o \in Workers
      PROVE  (p_pool[o] + InQueues(o) + InLists(o) + InHands(o) = PoolSize)'
  <2>1. areq[t].owner # o
    BY <1>2 DEF LocalsInv
  <2>2. /\ InQueues(o)' \in Nat /\ InQueues(o) = InQueues(o)' + IF o = e.owner THEN 1 ELSE 0
        /\ InHands(o)' = InHands(o) + IF o = e.owner THEN 1 ELSE 0
        /\ p_pool'[o] = p_pool[o] /\ InLists(o)' = InLists(o)
    <3>1. /\ InHands(o)' \in Nat
          /\ InHands(o)' + (IF areq[t].owner = o THEN 1 ELSE 0)
               = InHands(o) + (IF areq'[t].owner = o THEN 1 ELSE 0)
      BY <1>5, HandsChange
    <3> QED
      BY <1>1, <1>3, <1>5, <2>1, <3>1 DEF InLists
  <2>3. /\ InLists(o) \in Nat /\ InHands(o) \in Nat /\ p_pool[o] \in Nat
        /\ p_pool[o] + InQueues(o) + InLists(o) + InHands(o) = PoolSize
    BY CountsAreNat DEF TypesInv, PackagesInv
  <2> QED
    BY <2>2, <2>3
<1>10. ASSUME NEW c \in Conns
       PROVE  (pending[c] = arrived[c] + Queued(c) + Served(c) + Closing(c))'
  <2>1. /\ Queued(c)' \in Nat /\ Queued(c) = Queued(c)' + IF c = e.conn THEN 1 ELSE 0
        /\ Served(c)' = Served(c) + IF c = e.conn THEN 1 ELSE 0
        /\ pending'[c] = pending[c] /\ arrived'[c] = arrived[c] /\ Closing(c)' = Closing(c)
    <3>1. /\ Served(c)' \in Nat
          /\ Served(c)' + (IF apc[t] \in Serving /\ areq[t].conn = c THEN 1 ELSE 0)
               = Served(c) + (IF apc'[t] \in Serving /\ areq'[t].conn = c THEN 1 ELSE 0)
      BY <1>5, HandsChange
    <3> QED
      BY <1>1, <1>2, <1>3, <1>5, <3>1 DEF Closing, Serving
  <2>2. /\ Served(c) \in Nat /\ Closing(c) \in Nat /\ arrived[c] \in Nat
        /\ pending[c] = arrived[c] + Queued(c) + Served(c) + Closing(c)
    BY CountsAreNat DEF TypesInv, RequestsInv
  <2> QED
    BY <2>1, <2>2
<1> QED
  BY <1>6, <1>7, <1>8, <1>9, <1>10 DEF PackagesInv, RequestsInv

LEMMA ReleasePackageKeeps ==
  ASSUME ServerInv, NEW t \in Workers, ReleasePackage(t) PROVE ServerInv'
<1> USE DEF ServerInv
<1> DEFINE a == areq[t].conn
           b == areq[t].owner
<1>1. UNCHANGED <<segment, wpc, interest, arrived, write_cache, data_package_queue, apool>>
  BY DEF ReleasePackage
<1>2. /\ apc[t] = "first" /\ Put(b)
      /\ pending' = [pending EXCEPT ![a] = @ - 1]
      /\ areq' = [areq EXCEPT ![t] = NoRequest]
      /\ apc' = [apc EXCEPT ![t] = "idle"]
  BY DEF ReleasePackage, Goto
<1>3. a \in Conns /\ b \in Workers
  BY <1>2 DEF LocalsInv
<1>4. /\ areq' \in [Workers -> [conn : Conns \cup {None}, owner : Workers \cup {None}]]
      /\ apc' \in [Workers -> {"idle", "first", "arm", "armLast", "acquire", "second"}]
      /\ areq'[t].conn \notin Conns /\ areq'[t].owner \notin Workers /\ apc'[t] = "idle"
      /\ \A u \in Workers \ {t} : areq'[u] = areq[u] /\ apc'[u] = apc[u]
  BY <1>2, ThreadsFinite DEF TypesInv, NoRequest
<1> HIDE DEF a, b
<1>5. /\ p_pool' \in [Workers -> Nat]
      /\ \A o \in Workers : p_pool'[o] = p_pool[o] + IF o = b THEN 1 ELSE 0
  BY <1>2, <1>3, PoolChanges
<1>6. /\ arrived \in [Conns -> Nat] /\ pending \in [Conns -> Nat] /\ p_pool \in [Workers -> Nat]
      /\ \A d \in Conns : pending[d] <= Window[d]
      /\ Window \in [Conns -> Nat]
  BY ServerAssumption DEF TypesInv
<1>7. ASSUME NEW c \in Conns
      PROVE  /\ pending'[c] \in Nat /\ pending'[c] <= pending[c]
             /\ (pending[c] = arrived[c] + Queued(c) + Served(c) + Closing(c))'
  <2>1. /\ Served(c)' \in Nat /\ Served(c)' + (IF c = a THEN 1 ELSE 0) = Served(c)
        /\ Queued(c)' = Queued(c) /\ Closing(c)' = Closing(c) /\ arrived'[c] = arrived[c]
    <3>1. /\ Served(c)' \in Nat
          /\ Served(c)' + (IF apc[t] \in Serving /\ areq[t].conn = c THEN 1 ELSE 0)
               = Served(c) + (IF apc'[t] \in Serving /\ areq'[t].conn = c THEN 1 ELSE 0)
      BY <1>4, HandsChange
    <3>2. Served(c) \in Nat
      BY CountsAreNat
    <3> QED
      BY <1>1, <1>2, <1>4, <3>1, <3>2 DEF a, Closing, Queued, Serving
  <2>2. /\ Queued(c) \in Nat /\ Closing(c) \in Nat /\ arrived[c] \in Nat /\ pending[c] \in Nat
        /\ pending[c] = arrived[c] + Queued(c) + Served(c) + Closing(c)
    BY <1>6, CountsAreNat DEF RequestsInv
  <2>3. pending'[c] = pending[c] - IF c = a THEN 1 ELSE 0
    BY <1>2, <1>6
  <2> QED
    BY <2>1, <2>2, <2>3
<1>8. pending' \in [Conns -> Nat] /\ \A d \in Conns : pending'[d] <= Window[d]
  <2>1. pending' \in [Conns -> Nat]
    BY <1>2, <1>6, <1>7
  <2>2. ASSUME NEW d \in Conns PROVE pending'[d] <= Window[d]
    <3>1. /\ pending'[d] \in Nat /\ pending[d] \in Nat /\ Window[d] \in Nat
          /\ pending'[d] <= pending[d] /\ pending[d] <= Window[d]
      BY <1>6, <1>7
    <3> QED
      BY <3>1
  <2> QED
    BY <2>1, <2>2
<1>9. TypesInv'
  BY <1>1, <1>4, <1>5, <1>8 DEF TypesInv
<1>10. LocalsInv'
  <2>1. apool[t] \notin Workers
    BY <1>2 DEF LocalsInv
  <2> QED
    BY <1>1, <1>4, <2>1 DEF LocalsInv
<1>11. EventsInv'
  BY <1>1, EventsKept
<1>12. ASSUME NEW o \in Workers
       PROVE  (p_pool[o] + InQueues(o) + InLists(o) + InHands(o) = PoolSize)'
  <2>1. /\ InHands(o)' \in Nat /\ InHands(o)' + (IF o = b THEN 1 ELSE 0) = InHands(o)
        /\ p_pool'[o] = p_pool[o] + IF o = b THEN 1 ELSE 0
        /\ InQueues(o)' = InQueues(o) /\ InLists(o)' = InLists(o)
    <3>1. /\ InHands(o)' \in Nat
          /\ InHands(o)' + (IF areq[t].owner = o THEN 1 ELSE 0)
               = InHands(o) + (IF areq'[t].owner = o THEN 1 ELSE 0)
      BY <1>4, HandsChange
    <3>2. InHands(o) \in Nat
      BY CountsAreNat
    <3> QED
      BY <1>1, <1>4, <1>5, <3>1, <3>2 DEF b, InQueues, InLists
  <2>2. /\ InQueues(o) \in Nat /\ InLists(o) \in Nat /\ p_pool[o] \in Nat
        /\ p_pool[o] + InQueues(o) + InLists(o) + InHands(o) = PoolSize
    BY <1>6, CountsAreNat DEF PackagesInv
  <2> QED
    BY <2>1, <2>2
<1> QED
  BY <1>7, <1>9, <1>10, <1>11, <1>12 DEF PackagesInv, RequestsInv

LEMMA AsynWriteKeeps ==
  ASSUME ServerInv, NEW t \in Workers, AsynWrite(t) PROVE ServerInv'
<1> USE DEF ServerInv
<1> DEFINE a == areq[t].conn
           b == areq[t].owner
<1>1. UNCHANGED <<segment, wpc, interest, pending, arrived, p_pool, data_package_queue, apool>>
  BY DEF AsynWrite
<1>2. PICK last \in BOOLEAN :
        /\ write_cache' = [write_cache EXCEPT ![a] = Append(@, [owner |-> b, last |-> last])]
        /\ apc' = [apc EXCEPT ![t] = IF last THEN "armLast" ELSE "arm"]
  BY DEF AsynWrite, Goto
<1>3. apc[t] \in {"first", "second"} /\ areq' = [areq EXCEPT ![t].owner = None]
  BY DEF AsynWrite
<1>4. a \in Conns /\ b \in Workers
  BY <1>3 DEF LocalsInv
<1>5. /\ areq' \in [Workers -> [conn : Conns \cup {None}, owner : Workers \cup {None}]]
      /\ apc' \in [Workers -> {"idle", "first", "arm", "armLast", "acquire", "second"}]
      /\ areq'[t].conn = a /\ areq'[t].owner = None
      /\ apc'[t] = IF last THEN "armLast" ELSE "arm"
      /\ \A u \in Workers \ {t} : areq'[u] = areq[u] /\ apc'[u] = apc[u]
  BY <1>2, <1>3, <1>4 DEF TypesInv
<1> HIDE DEF a, b
<1> DEFINE e == [owner |-> b, last |-> last]
<1>6. e \in Answer /\ e.owner = b /\ e.last = last
  BY <1>4 DEF Answer
<1>7. write_cache' = [write_cache EXCEPT ![a] = Append(@, e)]
  BY <1>2
<1> HIDE DEF e
<1>8. /\ write_cache' \in [Conns -> Seq(Answer)]
      /\ \A d \in Conns : write_cache[d] # <<>> => write_cache'[d] # <<>>
      /\ \A o \in Workers : InLists(o)' = InLists(o) + IF o = e.owner THEN 1 ELSE 0
      /\ \A d \in Conns : Closing(d)' = Closing(d) + IF d = a /\ e.last THEN 1 ELSE 0
  BY <1>4, <1>6, <1>7, ListGrows
<1>9. TypesInv'
  BY <1>1, <1>5, <1>8 DEF TypesInv
<1>10. LocalsInv'
  <2>1. apool[t] \notin Workers
    BY <1>3 DEF LocalsInv
  <2>2. /\ areq'[t].conn \in Conns /\ areq'[t].owner \notin Workers /\ apool'[t] \notin Workers
        /\ apc'[t] \in {"arm", "armLast"}
    BY <1>1, <1>4, <1>5, <2>1, ThreadsFinite
  <2> QED
    BY <1>1, <1>5, <2>2 DEF LocalsInv
<1>11. EventsInv'
  BY <1>1, <1>8, EventsKept
<1>12. ASSUME NEW o \in Workers
       PROVE  (p_pool[o] + InQueues(o) + InLists(o) + InHands(o) = PoolSize)'
  <2>1. /\ InHands(o)' \in Nat /\ InHands(o)' + (IF o = b THEN 1 ELSE 0) = InHands(o)
        /\ InLists(o)' = InLists(o) + IF o = b THEN 1 ELSE 0
        /\ p_pool'[o] = p_pool[o] /\ InQueues(o)' = InQueues(o)
    <3>1. /\ InHands(o)' \in Nat
          /\ InHands(o)' + (IF areq[t].owner = o THEN 1 ELSE 0)
               = InHands(o) + (IF areq'[t].owner = o THEN 1 ELSE 0)
      BY <1>5, HandsChange
    <3>2. InHands(o) \in Nat
      BY CountsAreNat
    <3>3. areq'[t].owner # o
      BY <1>5, ThreadsFinite
    <3> QED
      BY <1>1, <1>6, <1>8, <3>1, <3>2, <3>3 DEF b, InQueues
  <2>2. /\ InQueues(o) \in Nat /\ InLists(o) \in Nat /\ p_pool[o] \in Nat
        /\ p_pool[o] + InQueues(o) + InLists(o) + InHands(o) = PoolSize
    BY CountsAreNat DEF TypesInv, PackagesInv
  <2> QED
    BY <2>1, <2>2
<1>13. ASSUME NEW c \in Conns
       PROVE  (pending[c] = arrived[c] + Queued(c) + Served(c) + Closing(c))'
  <2>1. /\ Served(c)' \in Nat /\ Served(c)' + (IF c = a /\ last THEN 1 ELSE 0) = Served(c)
        /\ Closing(c)' = Closing(c) + IF c = a /\ last THEN 1 ELSE 0
        /\ pending'[c] = pending[c] /\ arrived'[c] = arrived[c] /\ Queued(c)' = Queued(c)
    <3>1. /\ Served(c)' \in Nat
          /\ Served(c)' + (IF apc[t] \in Serving /\ areq[t].conn = c THEN 1 ELSE 0)
               = Served(c) + (IF apc'[t] \in Serving /\ areq'[t].conn = c THEN 1 ELSE 0)
      BY <1>5, HandsChange
    <3>2. Served(c) \in Nat
      BY CountsAreNat
    <3>3. apc[t] \in Serving /\ (apc'[t] \in Serving <=> ~last)
      BY <1>3, <1>5 DEF Serving
    <3>4. Served(c)' + (IF c = a /\ last THEN 1 ELSE 0) = Served(c)
      BY <1>5, <3>1, <3>2, <3>3 DEF a
    <3> QED
      BY <1>1, <1>6, <1>8, <3>1, <3>4 DEF Queued
  <2>2. /\ Queued(c) \in Nat /\ Closing(c) \in Nat /\ arrived[c] \in Nat
        /\ pending[c] = arrived[c] + Queued(c) + Served(c) + Closing(c)
    BY CountsAreNat DEF TypesInv, RequestsInv
  <2> QED
    BY <2>1, <2>2
<1> QED
  BY <1>9, <1>10, <1>11, <1>12, <1>13 DEF PackagesInv, RequestsInv

LEMMA ListenForWriteKeeps ==
  ASSUME ServerInv, NEW t \in Workers, ListenForWrite(t) PROVE ServerInv'
<1> USE DEF ServerInv
<1> DEFINE a == areq[t].conn
<1>1. UNCHANGED <<segment, wpc, pending, arrived, p_pool, write_cache, data_package_queue>>
  BY DEF ListenForWrite
<1>2. apc[t] \in {"arm", "armLast"} /\ interest' = [interest EXCEPT ![a] = "out"]
  BY DEF ListenForWrite
<1>3. a \in Conns /\ areq[t].owner \notin Workers /\ apool[t] \notin Workers
  BY <1>2 DEF LocalsInv
<1>4. \/ /\ apc[t] = "arm" /\ areq' = areq
         /\ \E w \in Workers : apool' = [apool EXCEPT ![t] = w]
         /\ apc' = [apc EXCEPT ![t] = "acquire"]
      \/ /\ apc[t] = "armLast" /\ apool' = apool
         /\ areq' = [areq EXCEPT ![t] = NoRequest]
         /\ apc' = [apc EXCEPT ![t] = "idle"]
  BY <1>2 DEF ListenForWrite, Goto
<1>5. /\ areq' \in [Workers -> [conn : Conns \cup {None}, owner : Workers \cup {None}]]
      /\ apc' \in [Workers -> {"idle", "first", "arm", "armLast", "acquire", "second"}]
      /\ apool' \in [Workers -> Workers \cup {None}]
      /\ areq'[t].owner \notin Workers
      /\ \/ areq'[t].conn = a /\ apc'[t] = "acquire" /\ apc[t] = "arm" /\ apool'[t] \in Workers
         \/ /\ areq'[t].conn \notin Conns /\ apc'[t] = "idle" /\ apc[t] = "armLast"
            /\ apool'[t] \notin Workers
      /\ \A u \in Workers \ {t} : areq'[u] = areq[u] /\ apc'[u] = apc[u] /\ apool'[u] = apool[u]
  <2>1. /\ areq \in [Workers -> [conn : Conns \cup {None}, owner : Workers \cup {None}]]
        /\ apc \in [Workers -> {"idle", "first", "arm", "armLast", "acquire", "second"}]
        /\ apool \in [Workers -> Workers \cup {None}]
    BY DEF TypesInv
  <2>2. CASE apc[t] = "arm"
    <3>1. /\ areq' = areq /\ apc' = [apc EXCEPT ![t] = "acquire"]
          /\ \E w \in Workers : apool' = [apool EXCEPT ![t] = w]
      BY <1>4, <2>2
    <3>2. PICK w \in Workers : apool' = [apool EXCEPT ![t] = w]
      BY <3>1
    <3> QED
      BY <1>3, <2>1, <2>2, <3>1, <3>2
  <2>3. CASE apc[t] = "armLast"
    <3>1. /\ areq' = [areq EXCEPT ![t] = NoRequest] /\ apc' = [apc EXCEPT ![t] = "idle"]
          /\ apool' = apool
      BY <1>4, <2>3
    <3>2. /\ NoRequest \in [conn : Conns \cup {None}, owner : Workers \cup {None}]
          /\ NoRequest.conn \notin Conns /\ NoRequest.owner \notin Workers
      BY ThreadsFinite DEF NoRequest
    <3> QED
      BY <1>3, <2>1, <2>3, <3>1, <3>2
  <2> QED
    BY <1>2, <2>2, <2>3
<1>6. TypesInv'
  <2>1. interest' \in [Conns -> {"in", "out"}]
    BY <1>2 DEF TypesInv
  <2> QED
    BY <1>1, <1>5, <2>1 DEF TypesInv
<1>7. LocalsInv'
  <2>1. /\ areq'[t].conn \in Conns <=> apc'[t] # "idle"
        /\ areq'[t].owner \in Workers <=> apc'[t] \in {"first", "second"}
        /\ apool'[t] \in Workers <=> apc'[t] = "acquire"
    BY <1>3, <1>5
  <2> QED
    BY <1>5, <2>1 DEF LocalsInv
<1>8. EventsInv'
  BY <1>1, EventsKept
<1>9. ASSUME NEW o \in Workers
      PROVE  (p_pool[o] + InQueues(o) + InLists(o) + InHands(o) = PoolSize)'
  <2>1. areq[t].owner # o /\ areq'[t].owner # o
    BY <1>3, <1>5
  <2>2. InHands(o)' = InHands(o)
    <3>1. /\ InHands(o)' \in Nat
          /\ InHands(o)' + (IF areq[t].owner = o THEN 1 ELSE 0)
               = InHands(o) + (IF areq'[t].owner = o THEN 1 ELSE 0)
      BY <1>5, HandsChange
    <3>2. InHands(o) \in Nat
      BY CountsAreNat
    <3> QED
      BY <2>1, <3>1, <3>2
  <2> QED
    BY <1>1, <2>2 DEF PackagesInv, InQueues, InLists
<1>10. ASSUME NEW c \in Conns
       PROVE  (pending[c] = arrived[c] + Queued(c) + Served(c) + Closing(c))'
  <2>1. (apc[t] \in Serving /\ areq[t].conn = c) <=> (apc'[t] \in Serving /\ areq'[t].conn = c)
    BY <1>3, <1>5 DEF Serving
  <2>2. Served(c)' = Served(c)
    <3>1. /\ Served(c)' \in Nat
          /\ Served(c)' + (IF apc[t] \in Serving /\ areq[t].conn = c THEN 1 ELSE 0)
               = Served(c) + (IF apc'[t] \in Serving /\ areq'[t].conn = c THEN 1 ELSE 0)
      BY <1>5, HandsChange
    <3>2. Served(c) \in Nat
      BY CountsAreNat
    <3> QED
      BY <2>1, <3>1, <3>2
  <2> QED
    BY <1>1, <2>2 DEF RequestsInv, Queued, Closing
<1> QED
  BY <1>6, <1>7, <1>8, <1>9, <1>10 DEF PackagesInv, RequestsInv

LEMMA AcquirePackageKeeps ==
  ASSUME ServerInv, NEW t \in Workers, AcquirePackage(t) PROVE ServerInv'
<1> USE DEF ServerInv
<1> DEFINE a == areq[t].conn
           b == apool[t]
<1>1. UNCHANGED <<segment, wpc, interest, pending, arrived, write_cache, data_package_queue>>
  BY DEF AcquirePackage
<1>2. /\ apc[t] = "acquire" /\ Get(b)
      /\ areq' = [areq EXCEPT ![t].owner = b]
      /\ apool' = [apool EXCEPT ![t] = None]
      /\ apc' = [apc EXCEPT ![t] = "second"]
  BY DEF AcquirePackage, Goto
<1>3. a \in Conns /\ areq[t].owner \notin Workers /\ b \in Workers
  BY <1>2 DEF LocalsInv
<1>4. /\ areq' \in [Workers -> [conn : Conns \cup {None}, owner : Workers \cup {None}]]
      /\ apc' \in [Workers -> {"idle", "first", "arm", "armLast", "acquire", "second"}]
      /\ apool' \in [Workers -> Workers \cup {None}]
      /\ areq'[t].conn = a /\ areq'[t].owner = b /\ apc'[t] = "second" /\ apool'[t] \notin Workers
      /\ \A u \in Workers \ {t} : areq'[u] = areq[u] /\ apc'[u] = apc[u] /\ apool'[u] = apool[u]
  BY <1>2, <1>3, ThreadsFinite DEF TypesInv
<1> HIDE DEF a, b
<1>5. /\ p_pool' \in [Workers -> Nat]
      /\ \A o \in Workers : p_pool[o] = p_pool'[o] + IF o = b THEN 1 ELSE 0
  BY <1>2, <1>3, PoolChanges
<1>6. TypesInv'
  BY <1>1, <1>4, <1>5 DEF TypesInv
<1>7. LocalsInv'
  BY <1>3, <1>4 DEF LocalsInv
<1>8. EventsInv'
  BY <1>1, EventsKept
<1>9. ASSUME NEW o \in Workers
      PROVE  (p_pool[o] + InQueues(o) + InLists(o) + InHands(o) = PoolSize)'
  <2>1. InHands(o)' = InHands(o) + IF o = b THEN 1 ELSE 0
    <3>1. /\ InHands(o)' \in Nat
          /\ InHands(o)' + (IF areq[t].owner = o THEN 1 ELSE 0)
               = InHands(o) + (IF areq'[t].owner = o THEN 1 ELSE 0)
      BY <1>4, HandsChange
    <3>2. areq[t].owner # o
      BY <1>3
    <3> QED
      BY <1>4, <3>1, <3>2
  <2>2. /\ InQueues(o) \in Nat /\ InLists(o) \in Nat /\ InHands(o) \in Nat /\ p_pool'[o] \in Nat
        /\ p_pool[o] = p_pool'[o] + IF o = b THEN 1 ELSE 0
        /\ p_pool[o] + InQueues(o) + InLists(o) + InHands(o) = PoolSize
    BY <1>5, CountsAreNat DEF PackagesInv
  <2>3. InQueues(o)' = InQueues(o) /\ InLists(o)' = InLists(o)
    BY <1>1 DEF InQueues, InLists
  <2> QED
    BY <2>1, <2>2, <2>3
<1>10. ASSUME NEW c \in Conns
       PROVE  (pending[c] = arrived[c] + Queued(c) + Served(c) + Closing(c))'
  <2>1. (apc[t] \in Serving /\ areq[t].conn = c) <=> (apc'[t] \in Serving /\ areq'[t].conn = c)
    BY <1>2, <1>4 DEF a, Serving
  <2>2. Served(c)' = Served(c)
    <3>1. /\ Served(c)' \in Nat
          /\ Served(c)' + (IF apc[t] \in Serving /\ areq[t].conn = c THEN 1 ELSE 0)
               = Served(c) + (IF apc'[t] \in Serving /\ areq'[t].conn = c THEN 1 ELSE 0)
      BY <1>4, HandsChange
    <3>2. Served(c) \in Nat
      BY CountsAreNat
    <3> QED
      BY <2>1, <3>1, <3>2
  <2> QED
    BY <1>1, <2>2 DEF RequestsInv, Queued, Closing
<1> QED
  BY <1>6, <1>7, <1>8, <1>9, <1>10 DEF PackagesInv, RequestsInv

LEMMA ServerInvKept ==
  ASSUME ServerInv, [Next]_vars PROVE ServerInv'
<1>1. CASE EpollWait
  BY <1>1, EpollWaitKeeps
<1>2. CASE \E c \in Conns : PeerSends(c)
  BY <1>2, PeerSendsKeeps
<1>3. ASSUME NEW w \in Workers, Worker(w) PROVE ServerInv'
  BY <1>3, ReadHandlerKeeps, LookAtListKeeps, ContinueListenKeeps, SendFrontKeeps, SendPartKeeps
     DEF Worker
<1>4. ASSUME NEW t \in Workers, Application(t) PROVE ServerInv'
  BY <1>4, AsynReadKeeps, ReleasePackageKeeps, AsynWriteKeeps, ListenForWriteKeeps,
     AcquirePackageKeeps DEF Application
<1>5. CASE UNCHANGED vars
  <2>1. UNCHANGED <<segment, wpc, interest, pending, arrived, p_pool, write_cache,
                    data_package_queue, apc, areq, apool>>
    BY <1>5 DEF vars, appVars
  <2>2. TypesInv'
    BY <2>1 DEF ServerInv, TypesInv
  <2>3. EventsInv'
    BY <2>1, EventsKept DEF ServerInv
  <2> QED
    BY <2>1, <2>2, <2>3, AccountsKept DEF ServerInv
<1> QED
  BY <1>1, <1>2, <1>3, <1>4, <1>5 DEF Next

(* Empty lists have no places. *)
LEMMA NoPlaces ==
  ASSUME NEW I, NEW lists \in [I -> Seq({})], \A i \in I : lists[i] = <<>>, NEW S
  PROVE  Cardinality(Places(lists, S)) = 0
<1>1. \A p : ~IsPlace(p, I, lists, S)
  BY DEF IsPlace
<1>2. Places(lists, S) = {}
  BY <1>1, PlacesAre
<1> QED
  BY <1>2, FS_EmptySet

LEMMA ServerInit ==
  ASSUME Init PROVE ServerInv
<1> USE DEF Init
<1>1. TypesInv
  <2>1. \A S : <<>> \in Seq(S)
    BY EmptySeq
  <2> QED
    BY <2>1, ServerAssumption DEF TypesInv, NoRequest
<1>2. LocalsInv
  BY ThreadsFinite DEF LocalsInv, NoRequest
<1>3. EventsInv
  BY DEF EventsInv
<1>4. ASSUME NEW S
      PROVE  /\ Cardinality(Places(data_package_queue, S)) = 0
             /\ Cardinality(Places(write_cache, S)) = 0
             /\ \A c \in Conns : Cardinality(Places([x \in {c} |-> write_cache[x]], S)) = 0
  <2>1. <<>> \in Seq({})
    BY EmptySeq
  <2>2. data_package_queue \in [Workers -> Seq({})] /\ write_cache \in [Conns -> Seq({})]
    BY <2>1
  <2>3. \A c \in Conns : [x \in {c} |-> write_cache[x]] \in [{c} -> Seq({})]
    BY <2>1
  <2>4. (\A t \in Workers : data_package_queue[t] = <<>>) /\ (\A c \in Conns : write_cache[c] = <<>>)
    OBVIOUS
  <2>5. Cardinality(Places(data_package_queue, S)) = 0 /\ Cardinality(Places(write_cache, S)) = 0
    BY <2>2, <2>4, NoPlaces
  <2>6. ASSUME NEW c \in Conns PROVE Cardinality(Places([x \in {c} |-> write_cache[x]], S)) = 0
    <3> DEFINE l == [x \in {c} |-> write_cache[x]]
    <3>1. l \in [{c} -> Seq({})] /\ \A i \in {c} : l[i] = <<>>
      BY <2>3, <2>4
    <3> HIDE DEF l
    <3>2. Cardinality(Places(l, S)) = 0
      BY <3>1, NoPlaces
    <3> QED
      BY <3>2 DEF l
  <2> QED
    BY <2>5, <2>6
<1>5. PackagesInv
  <2>1. ASSUME NEW o \in Workers PROVE InHands(o) = 0
    <3>1. {t \in Workers : areq[t].owner = o} = {}
      BY ThreadsFinite DEF NoRequest
    <3> QED
      BY <3>1, FS_EmptySet DEF InHands
  <2>2. ASSUME NEW o \in Workers PROVE p_pool[o] = PoolSize /\ InQueues(o) = 0 /\ InLists(o) = 0
    BY <1>4 DEF InQueues, InLists
  <2> QED
    BY <2>1, <2>2, ServerAssumption DEF PackagesInv
<1>6. RequestsInv
  <2>1. ASSUME NEW c \in Conns PROVE Served(c) = 0
    <3>1. {t \in Workers : apc[t] \in Serving /\ areq[t].conn = c} = {}
      BY DEF Serving
    <3> QED
      BY <3>1, FS_EmptySet DEF Served
  <2>2. ASSUME NEW c \in Conns
        PROVE  pending[c] = 0 /\ arrived[c] = 0 /\ Queued(c) = 0 /\ Closing(c) = 0
    BY <1>4 DEF Queued, Closing
  <2> QED
    BY <2>1, <2>2 DEF RequestsInv
<1> QED
  BY <1>1, <1>2, <1>3, <1>5, <1>6 DEF ServerInv
-----------------------------------------------------------------------------
(***************************************************************************)
(* The theorems                                                            *)
(***************************************************************************)
LEMMA ServerInvAlways == Spec => []ServerInv
<1>1. Init => ServerInv
  BY ServerInit
<1>2. ServerInv /\ [Next]_vars => ServerInv'
  BY ServerInvKept
<1> QED
  BY <1>1, <1>2, PTL DEF Spec

(* Every variable of the threads, the application and the peers keeps its  *)
(* type: no pool has more packages than it began with, and of no peer are  *)
(* more requests in the socket or open than it may have sent.              *)
THEOREM ServerTypes == Spec => []TypeOK
<1>1. ServerInv => TypeOK
  <2> SUFFICES ASSUME ServerInv PROVE TypeOK
    OBVIOUS
  <2> USE DEF ServerInv
  <2>1. ASSUME NEW w \in Workers PROVE p_pool[w] \in 0 .. PoolSize
    <3>1. /\ p_pool[w] \in Nat /\ InQueues(w) \in Nat /\ InLists(w) \in Nat /\ InHands(w) \in Nat
          /\ p_pool[w] + InQueues(w) + InLists(w) + InHands(w) = PoolSize
      BY CountsAreNat DEF TypesInv, PackagesInv
    <3> QED
      BY <3>1, ServerAssumption
  <2>2. ASSUME NEW c \in Conns PROVE pending[c] \in 0 .. Window[c] /\ arrived[c] \in 0 .. Window[c]
    <3>1. /\ pending[c] \in Nat /\ arrived[c] \in Nat /\ Queued(c) \in Nat /\ Served(c) \in Nat
          /\ Closing(c) \in Nat /\ pending[c] <= Window[c] /\ Window[c] \in Nat
          /\ pending[c] = arrived[c] + Queued(c) + Served(c) + Closing(c)
      BY CountsAreNat, ServerAssumption DEF TypesInv, RequestsInv
    <3> QED
      BY <3>1
  <2>3. p_pool \in [Workers -> 0 .. PoolSize]
    BY <2>1 DEF TypesInv
  <2> QED
    BY <2>2, <2>3 DEF TypesInv, TypeOK, Event, Request, Answer
<1> QED
  BY <1>1, ServerInvAlways, PTL

(* A package is in the pool of its owner or in one place outside, through  *)
(* queues, hands and write lists and back: whatever the application does   *)
(* with it, and whichever dispatch thread sends it, no package of a pool   *)
(* is lost or put back twice or into the pool of another thread.           *)
THEOREM ServerPackagesAccounted == Spec => []PackagesAccounted
<1>1. ServerInv => PackagesAccounted
  <2> SUFFICES ASSUME ServerInv, NEW o \in Workers PROVE p_pool[o] + Outside(o) = PoolSize
    BY DEF PackagesAccounted
  <2> USE DEF ServerInv
  <2>1. /\ p_pool[o] \in Nat /\ InQueues(o) \in Nat /\ InLists(o) \in Nat /\ InHands(o) \in Nat
        /\ p_pool[o] + InQueues(o) + InLists(o) + InHands(o) = PoolSize
    BY CountsAreNat DEF TypesInv, PackagesInv
  <2>2. Outside(o) = InQueues(o) + InLists(o) + InHands(o)
    BY DEF Outside, InQueues, InLists, InHands
  <2> QED
    BY <2>1, <2>2
<1> QED
  BY <1>1, ServerInvAlways, PTL
=============================================================================
