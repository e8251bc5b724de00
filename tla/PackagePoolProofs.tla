------------------------- MODULE PackagePoolProofs -------------------------
(***************************************************************************)
(* The pool keeps its packages, for any number of users and of packages,   *)
(* as long as the users take turns at each end of its container.           *)
(***************************************************************************)
EXTENDS PackagePool, FiniteSetTheorems, TLAPS

(***************************************************************************)
(* The inductive invariant. Until the first race:                          *)
(***************************************************************************)

Signalling == {u \in Users : place[u] = "signal"}
Posting == {u \in Users : signaling[u] = "post"}
Acquired == {u \in Users : pc[u] = "acquired"}

(* A user is in one call at a time, and get waits without a time limit. *)
OneCall ==
  \A u \in Users :
    /\ pc[u] \in {"idle", "load", "spin", "dec", "block", "semWait", "acquired"}
    /\ mode[u] = "wait"
    /\ place[u] \in {"enqueue", "signal"} => pc[u] = "idle"
    /\ place[u] = "dequeue" => pc[u] = "acquired"
    /\ signaling[u] = "post" => pc[u] = "idle"

(* The count is the permits less the sleepers; each sleeper that the count *)
(* does not show has been answered: posted, or about to be.                *)
Claims ==
  /\ m_count = avail - Cardinality(Asleep)
  /\ Cardinality(Asleep) =
       m_sema + Cardinality(Posting) + (IF m_count < 0 THEN -m_count ELSE 0)

(* What is stored has a permit, or had one, or will have one. *)
Permits == Len(stored) = avail + Cardinality(Signalling) + Cardinality(Acquired)

(* No package is in two places. *)
Gone == out \cup lost

Apart ==
  /\ \A i \in 1 .. Len(stored) : stored[i] \in Package \ Gone
  /\ \A i, j \in 1 .. Len(stored) : stored[i] = stored[j] => i = j
  /\ Gone \subseteq Package /\ out \cap lost = {}
  /\ \A u \in Putting : item[u] \in Package \ Gone
  /\ \A u, v \in Putting : item[u] = item[v] => u = v
  /\ \A u \in Putting, i \in 1 .. Len(stored) : item[u] # stored[i]

(* Every package is somewhere. *)
Somewhere(p) ==
  \/ p \in Gone
  \/ \E i \in 1 .. Len(stored) : stored[i] = p
  \/ \E u \in Putting : item[u] = p

Complete ==
  /\ \A p \in Package : Somewhere(p)
  /\ Len(stored) + Cardinality(out) + Cardinality(Putting) + Cardinality(lost) = NumPackages

InTurn == Claims /\ Permits /\ Apart /\ Complete

PoolInv ==
  /\ PoolTypeOK
  /\ OneCall
  /\ ~raced => ~Racing /\ InTurn
-----------------------------------------------------------------------------
(***************************************************************************)
(* Counting users                                                          *)
(***************************************************************************)

CountOf(f, A) == Cardinality({u \in Users : f[u] \in A})

LEMMA SomeUsers ==
  ASSUME NEW S \in SUBSET Users
  PROVE  /\ IsFiniteSet(S)
         /\ Cardinality(S) \in Nat
         /\ Cardinality(S) = 0 <=> S = {}
         /\ Cardinality(S) <= 1 => \A u, v \in S : u = v
<1>1. IsFiniteSet(S)
  BY FS_Subset, PoolAssumption DEF Users
<1>2. Cardinality(S) \in Nat /\ (Cardinality(S) = 0 <=> S = {})
  BY <1>1, FS_CardinalityType, FS_EmptySet
<1>3. Cardinality(S) = 1 => \E x : S = {x}
  BY <1>1, FS_Singleton
<1>4. Cardinality(S) <= 1 => \A u, v \in S : u = v
  BY <1>2, <1>3
<1> QED
  BY <1>1, <1>2, <1>4

In(x, A) == IF x \in A THEN 1 ELSE 0

(* Only u has moved. *)
Moved(u, f, g) == \A v \in Users \ {u} : g[v] = f[v]

LEMMA Moves ==
  ASSUME NEW u \in Users, NEW f, NEW g, Moved(u, f, g), NEW A
  PROVE  /\ CountOf(f, A) \in Nat /\ CountOf(g, A) \in Nat
         /\ CountOf(g, A) = CountOf(f, A) + In(g[u], A) - In(f[u], A)
         /\ f[u] \in A => CountOf(f, A) > 0
<1> DEFINE S == {v \in Users : f[v] \in A}
           T == {v \in Users : g[v] \in A}
<1>1. IsFiniteSet(S) /\ IsFiniteSet(T) /\ Cardinality(S) \in Nat /\ Cardinality(T) \in Nat
  BY SomeUsers
<1>2. f[u] \in A => Cardinality(S) # 0
  BY SomeUsers
<1>3. f[u] \in A /\ g[u] \in A => T = S
  BY DEF Moved
<1>4. f[u] \notin A /\ g[u] \notin A => T = S
  BY DEF Moved
<1>5. f[u] \notin A /\ g[u] \in A => T = S \cup {u} /\ u \notin S
  BY DEF Moved
<1>6. f[u] \in A /\ g[u] \notin A => T = S \ {u} /\ u \in S
  BY DEF Moved
<1>7. CountOf(f, A) = Cardinality(S) /\ CountOf(g, A) = Cardinality(T)
  BY DEF CountOf
<1> HIDE DEF S, T
<1>8. f[u] \notin A /\ g[u] \in A => Cardinality(T) = Cardinality(S) + 1
  BY <1>1, <1>5, FS_AddElement
<1>9. f[u] \in A /\ g[u] \notin A => Cardinality(T) = Cardinality(S) - 1
  BY <1>1, <1>6, FS_RemoveElement
<1> QED
  BY <1>1, <1>2, <1>3, <1>4, <1>7, <1>8, <1>9 DEF In

(* The counts of the invariant, in this form. *)
LEMMA Counts ==
  /\ Cardinality(Asleep) = CountOf(pc, {"semWait"})
  /\ Cardinality(Acquired) = CountOf(pc, {"acquired"})
  /\ Cardinality(Posting) = CountOf(signaling, {"post"})
  /\ Cardinality(Signalling) = CountOf(place, {"signal"})
  /\ Cardinality(Asleep)' = CountOf(pc', {"semWait"})
  /\ Cardinality(Acquired)' = CountOf(pc', {"acquired"})
  /\ Cardinality(Posting)' = CountOf(signaling', {"post"})
  /\ Cardinality(Signalling)' = CountOf(place', {"signal"})
BY DEF Asleep, Acquired, Posting, Signalling, CountOf

(* A seen permit exists. *)
LEMMA SeenPermits ==
  ASSUME ~Racing, m_count \in Int
  PROVE  \A u \in Users : pc[u] = "dec" => m_count > 0
<1> SUFFICES ASSUME NEW u \in Users, pc[u] = "dec" PROVE m_count > 0
  OBVIOUS
<1>1. SeesPermit \in SUBSET Users /\ SeesPermit # {}
  BY DEF SeesPermit
<1>2. Cardinality(SeesPermit) \in Nat /\ Cardinality(SeesPermit) # 0
  BY <1>1, SomeUsers
<1>3. Cardinality(SeesPermit) <= m_count
  BY <1>1, <1>2 DEF Racing
<1> QED
  BY <1>2, <1>3
-----------------------------------------------------------------------------
(***************************************************************************)
(* Types, also after a race                                                *)
(***************************************************************************)

(* The semaphore keeps its types, for any number of waiters. *)
LEMMA SemaphoreTypesKept == TypeOK /\ [Next]_semVars => TypeOK'
<1> SUFFICES ASSUME TypeOK, [Next]_semVars PROVE TypeOK'
  OBVIOUS
<1> USE DEF TypeOK, Modes, Places, Goto
<1>1. ASSUME NEW s \in Signalers, FetchAddSignal(s) PROVE TypeOK'
  BY <1>1 DEF FetchAddSignal
<1>2. ASSUME NEW s \in Signalers, Post(s) PROVE TypeOK'
  BY <1>2 DEF Post
<1>3. ASSUME NEW w \in Waiters, BeginWait(w) PROVE TypeOK'
  BY <1>3 DEF BeginWait
<1>4. ASSUME NEW w \in Waiters, TryLoad(w) \/ Spin(w) PROVE TypeOK'
  BY <1>4 DEF TryLoad, Spin
<1>5. ASSUME NEW w \in Waiters, TakeSeen(w) PROVE TypeOK'
  BY <1>5 DEF TakeSeen
<1>6. ASSUME NEW w \in Waiters, BlockDec(w) PROVE TypeOK'
  BY <1>6 DEF BlockDec
<1>7. ASSUME NEW w \in Waiters, SemWait(w) PROVE TypeOK'
  BY <1>7 DEF SemWait
<1>8. ASSUME NEW w \in Waiters, Timeout(w) \/ Restore(w) \/ ReDec(w) PROVE TypeOK'
  BY <1>8 DEF Timeout, Restore, ReDec
<1>9. ASSUME NEW w \in Waiters, SemTry(w) PROVE TypeOK'
  BY <1>9 DEF SemTry
<1>10. ASSUME NEW w \in Waiters, Return(w) PROVE TypeOK'
  BY <1>10 DEF Return
<1>11. CASE UNCHANGED semVars
  BY <1>11 DEF semVars
<1> QED
  BY <1>1, <1>2, <1>3, <1>4, <1>5, <1>6, <1>7, <1>8, <1>9, <1>10, <1>11
  DEF Next, WaitStep

LEMMA SemaphoreStep ==
  ASSUME NEW u \in Users, PutStep(u) \/ GetStep(u)
  PROVE  [Next]_semVars
<1>1. ASSUME BeginPut(u) \/ EnqueuePackage(u) \/ EnqueueFails(u) \/ BeginDequeue(u)
      PROVE  UNCHANGED semVars
  BY <1>1 DEF BeginPut, EnqueuePackage, EnqueueFails, BeginDequeue
<1>2. ASSUME SignalPackage(u) \/ PostPackage(u) PROVE Next
  BY <1>2, PoolAssumption DEF SignalPackage, PostPackage, Next, Users
<1>3. ASSUME BeginGet(u) \/ WaitForPackage(u) \/ FindNothing(u) \/ DequeuePackage(u)
      PROVE  Next
  BY <1>3 DEF BeginGet, WaitForPackage, FindNothing, DequeuePackage, Next, Users
<1> QED
  BY <1>1, <1>2, <1>3 DEF PutStep, GetStep

(* What the steps do to the users' places and to the packages              *)
LEMMA PoolTypesKept == PoolTypeOK /\ [PoolNext]_poolVars => PoolTypeOK'
<1> SUFFICES ASSUME PoolTypeOK, [PoolNext]_poolVars PROVE PoolTypeOK'
  OBVIOUS
<1>1. CASE UNCHANGED poolVars
  BY <1>1 DEF poolVars, semVars, userVars, PoolTypeOK, TypeOK, Putting
<1>2. CASE PoolNext
  <2> PICK u \in Users : PutStep(u) \/ GetStep(u)
    BY <1>2 DEF PoolNext
  <2>1. TypeOK'
    BY SemaphoreStep, SemaphoreTypesKept DEF PoolTypeOK
  <2>2. raced' \in BOOLEAN
    BY <1>2 DEF PoolNext
  <2> DEFINE Items == /\ place' \in [Users -> {"idle", "enqueue", "signal", "dequeue"}]
                      /\ item' \in [Users -> Package \cup {NoPackage}]
                      /\ \A v \in Users : place'[v] = "enqueue" => item'[v] \in Package
             Packages == stored' \in Seq(Package) /\ out' \subseteq Package /\ lost' \subseteq Package
  <2> SUFFICES Items /\ Packages
    BY <2>1, <2>2 DEF PoolTypeOK, Putting
  <2>0. /\ stored \in Seq(Package) /\ out \subseteq Package /\ lost \subseteq Package
        /\ place \in [Users -> {"idle", "enqueue", "signal", "dequeue"}]
        /\ item \in [Users -> Package \cup {NoPackage}]
        /\ \A v \in Users : place[v] = "enqueue" => item[v] \in Package
    BY DEF PoolTypeOK, Putting
  <2> USE <2>0 DEF At, userVars
  <2>3. CASE BeginPut(u)
    BY <2>3 DEF BeginPut
  <2>4. CASE EnqueuePackage(u)
    BY <2>4 DEF EnqueuePackage
  <2>5. CASE EnqueueFails(u)
    BY <2>5 DEF EnqueueFails
  <2>6. CASE SignalPackage(u) \/ BeginDequeue(u) \/ FindNothing(u)
    BY <2>6 DEF SignalPackage, BeginDequeue, FindNothing
  <2>7. CASE PostPackage(u) \/ BeginGet(u) \/ WaitForPackage(u)
    BY <2>7 DEF PostPackage, BeginGet, WaitForPackage
  <2>8. CASE DequeuePackage(u)
    <3>1. Tail(stored) \in Seq(Package) /\ Head(stored) \in Package
      BY <2>8 DEF DequeuePackage
    <3> QED
      BY <2>8, <3>1 DEF DequeuePackage
  <2> HIDE DEF Items, Packages
  <2> QED
    BY <2>3, <2>4, <2>5, <2>6, <2>7, <2>8 DEF PutStep, GetStep
<1> QED
  BY <1>1, <1>2

(* A user is in one call at a time. *)
LEMMA OneCallKept ==
  ASSUME PoolTypeOK, OneCall, NEW u \in Users, PutStep(u) \/ GetStep(u)
  PROVE  OneCall'
<1> USE DEF PoolTypeOK, TypeOK, OneCall, At, Goto, userVars, semVars, Users
<1>1. CASE BeginPut(u) \/ EnqueuePackage(u) \/ EnqueueFails(u)
  BY <1>1 DEF BeginPut, EnqueuePackage, EnqueueFails
<1>2. CASE SignalPackage(u)
  BY <1>2, PoolAssumption DEF SignalPackage, FetchAddSignal
<1>3. CASE PostPackage(u)
  BY <1>3, PoolAssumption DEF PostPackage, Post
<1>4. CASE BeginGet(u)
  BY <1>4 DEF BeginGet, BeginWait
<1>5. CASE WaitForPackage(u)
  <2>1. TryLoad(u) \/ Spin(u) \/ TakeSeen(u) \/ BlockDec(u) \/ SemWait(u)
    BY <1>5 DEF WaitForPackage, WaitStep, Timeout, Restore, ReDec, SemTry
  <2>2. /\ place' = place /\ signaling' = signaling /\ mode' = mode
        /\ pc[u] \in {"load", "spin", "dec", "block", "semWait"}
        /\ \E p \in {"load", "spin", "dec", "block", "semWait", "acquired"} :
             pc' = [pc EXCEPT ![u] = p]
    BY <1>5, <2>1 DEF WaitForPackage, TryLoad, Spin, TakeSeen, BlockDec, SemWait
  <2> QED
    BY <2>2
<1>6. CASE FindNothing(u)
  BY <1>6 DEF FindNothing, Return
<1>7. CASE BeginDequeue(u)
  BY <1>7 DEF BeginDequeue
<1>8. CASE DequeuePackage(u)
  BY <1>8 DEF DequeuePackage, Return
<1> QED
  BY <1>1, <1>2, <1>3, <1>4, <1>5, <1>6, <1>7, <1>8 DEF PutStep, GetStep
-----------------------------------------------------------------------------
(***************************************************************************)
(* The semaphore with several waiters. A waiter that claims a permit that  *)
(* is not there makes the count negative and sleeps; each signal that      *)
(* finds it negative answers one sleeper.                                  *)
(***************************************************************************)

LEMMA ClaimsKept ==
  ASSUME PoolTypeOK, OneCall, ~Racing, Claims,
         NEW u \in Users, PutStep(u) \/ GetStep(u)
  PROVE  Claims'
<1> DEFINE sleepers(p) == CountOf(p, {"semWait"})
           posters(s) == CountOf(s, {"post"})
           claims(c, s, a, n, m) ==
             c = a - n /\ n = s + m + (IF c < 0 THEN -c ELSE 0)
           Goal == claims(m_count', m_sema', avail', sleepers(pc'), posters(signaling'))
<1>1. /\ m_count \in Int /\ m_sema \in Nat /\ avail \in Int
      /\ signaling \in [Users -> {"idle", "post"}]
  BY PoolAssumption DEF PoolTypeOK, TypeOK, Users
<1>2. DOMAIN pc = Users /\ DOMAIN signaling = Users
  BY <1>1 DEF PoolTypeOK, TypeOK, Users
<1>3. claims(m_count, m_sema, avail, sleepers(pc), posters(signaling))
  BY Counts DEF Claims
<1>4. SUFFICES Goal
  BY Counts DEF Claims
<1>5. sleepers(pc) \in Nat /\ posters(signaling) \in Nat
  <2>1. {u1 \in Users : pc[u1] \in {"semWait"}} \in SUBSET Users
    OBVIOUS
  <2>2. {u1 \in Users : signaling[u1] \in {"post"}} \in SUBSET Users
    OBVIOUS
  <2> QED
    BY <2>1, <2>2, SomeUsers DEF CountOf
(* The sleepers, and the signals under way, after a step of this user's *)
<1>6. Moved(u, pc, pc') =>
        sleepers(pc') = sleepers(pc) + In(pc'[u], {"semWait"}) - In(pc[u], {"semWait"})
  BY Moves
<1>7. Moved(u, signaling, signaling') =>
        posters(signaling') = posters(signaling) + In(signaling'[u], {"post"}) - In(signaling[u], {"post"})
  BY Moves
<1>8. ASSUME UNCHANGED semVars PROVE Goal
  BY <1>3, <1>8 DEF semVars
<1>9. ASSUME Moved(u, pc, pc'), pc'[u] # "semWait", pc[u] # "semWait",
             UNCHANGED <<m_count, m_sema, signaling, avail>>
      PROVE  Goal
  BY <1>3, <1>5, <1>6, <1>9 DEF In
<1>10. CASE BeginPut(u) \/ EnqueuePackage(u) \/ EnqueueFails(u) \/ BeginDequeue(u)
  BY <1>8, <1>10 DEF BeginPut, EnqueuePackage, EnqueueFails, BeginDequeue
<1>11. CASE BeginGet(u) \/ FindNothing(u) \/ DequeuePackage(u) \/ TryLoad(u) \/ Spin(u)
  <2>1. /\ Moved(u, pc, pc') /\ pc'[u] # "semWait" /\ pc[u] # "semWait"
        /\ UNCHANGED <<m_count, m_sema, signaling, avail>>
    BY <1>2, <1>11 DEF Moved, BeginGet, BeginWait, FindNothing, DequeuePackage, Return, TryLoad, Spin, Goto
  <2> QED
    BY <1>9, <2>1
<1>12. CASE SignalPackage(u)
  <2>1. /\ m_count' = m_count + 1 /\ avail' = avail + 1
        /\ m_sema' = m_sema /\ pc' = pc /\ signaling[u] # "post"
        /\ Moved(u, signaling, signaling')
        /\ signaling'[u] = IF m_count < 0 THEN "post" ELSE "idle"
    BY <1>2, <1>12 DEF Moved, SignalPackage, FetchAddSignal
  <2> QED
    BY <1>1, <1>3, <1>5, <1>7, <2>1 DEF In
<1>13. CASE PostPackage(u)
  <2>1. /\ m_count' = m_count /\ avail' = avail
        /\ m_sema' = m_sema + 1 /\ pc' = pc /\ signaling[u] = "post"
        /\ Moved(u, signaling, signaling') /\ signaling'[u] = "idle"
    BY <1>2, <1>13 DEF Moved, PostPackage, Post
  <2> QED
    BY <1>1, <1>3, <1>5, <1>7, <2>1 DEF In
<1>14. CASE TakeSeen(u)
  <2>1. /\ m_count' = m_count - 1 /\ avail' = avail - 1 /\ pc[u] = "dec"
        /\ m_sema' = m_sema /\ signaling' = signaling
        /\ Moved(u, pc, pc') /\ pc'[u] = "acquired"
    BY <1>2, <1>14 DEF Moved, TakeSeen, Goto
  <2>2. m_count > 0
    BY <1>1, <2>1, SeenPermits
  <2> QED
    BY <1>1, <1>3, <1>5, <1>6, <2>1, <2>2 DEF In
<1>15. CASE BlockDec(u)
  <2>1. /\ m_count' = m_count - 1 /\ pc[u] = "block"
        /\ m_sema' = m_sema /\ signaling' = signaling
        /\ Moved(u, pc, pc')
        /\ IF m_count > 0
           THEN avail' = avail - 1 /\ pc'[u] = "acquired"
           ELSE avail' = avail /\ pc'[u] = "semWait"
    BY <1>2, <1>15 DEF Moved, BlockDec, OneCall, Goto
  <2>2. CASE m_count > 0
    BY <1>1, <1>3, <1>5, <1>6, <2>1, <2>2 DEF In
  <2>3. CASE ~(m_count > 0)
    BY <1>1, <1>3, <1>5, <1>6, <2>1, <2>3 DEF In
  <2> QED
    BY <2>2, <2>3
<1>16. CASE SemWait(u)
  <2>1. /\ m_count' = m_count /\ avail' = avail - 1 /\ pc[u] = "semWait"
        /\ m_sema' = m_sema - 1 /\ signaling' = signaling
        /\ Moved(u, pc, pc') /\ pc'[u] = "acquired"
    BY <1>2, <1>16 DEF Moved, SemWait, OneCall, Goto
  <2> QED
    BY <1>1, <1>3, <1>5, <1>6, <2>1 DEF In
<1>17. WaitForPackage(u) => TryLoad(u) \/ Spin(u) \/ TakeSeen(u) \/ BlockDec(u) \/ SemWait(u)
  BY DEF WaitForPackage, WaitStep, Timeout, Restore, ReDec, SemTry, OneCall
<1> QED
  BY <1>10, <1>11, <1>12, <1>13, <1>14, <1>15, <1>16, <1>17 DEF PutStep, GetStep
-----------------------------------------------------------------------------
(***************************************************************************)
(* The permits, and the packages they stand for                            *)
(***************************************************************************)

LEMMA PermitMeansStored ==
  ASSUME PoolTypeOK, Claims, Permits
  PROVE  /\ avail \in Nat /\ Len(stored) \in Nat
         /\ Cardinality(Signalling) \in Nat /\ Cardinality(Acquired) \in Nat
         /\ \A u \in Users : pc[u] = "acquired" => Len(stored) > 0
<1>1. /\ Cardinality(Asleep) \in Nat /\ Cardinality(Posting) \in Nat
      /\ Cardinality(Signalling) \in Nat /\ Cardinality(Acquired) \in Nat
      /\ Acquired # {} => Cardinality(Acquired) # 0
  BY SomeUsers DEF Asleep, Posting, Signalling, Acquired
<1>2. m_count \in Int /\ m_sema \in Nat /\ avail \in Int
  BY DEF PoolTypeOK, TypeOK
<1>3. avail \in Nat
  BY <1>1, <1>2 DEF Claims
<1>4. Len(stored) \in Nat
  BY DEF PoolTypeOK
<1>5. ASSUME NEW u \in Users, pc[u] = "acquired" PROVE Len(stored) > 0
  <2>1. Acquired # {}
    BY <1>5 DEF Acquired
  <2> QED
    BY <1>1, <1>3, <1>4, <2>1 DEF Permits
<1> QED
  BY <1>1, <1>3, <1>4, <1>5

(* get never finds the container empty. *)
LEMMA NeverFindsNothing ==
  ASSUME PoolTypeOK, InTurn, NEW u \in Users
  PROVE  ~FindNothing(u)
<1> SUFFICES ASSUME FindNothing(u) PROVE FALSE
  OBVIOUS
<1>1. pc[u] = "acquired" /\ Len(stored) = 0
  BY DEF FindNothing, Return
<1> QED
  BY <1>1, PermitMeansStored DEF InTurn

LEMMA PermitsFollow ==
  ASSUME PoolTypeOK, OneCall, InTurn,
         NEW u \in Users, PutStep(u) \/ GetStep(u)
  PROVE  Permits'
<1> DEFINE holders(p) == CountOf(p, {"acquired"})
           signallers(p) == CountOf(p, {"signal"})
           Goal == Len(stored') = avail' + signallers(place') + holders(pc')
<1>1. DOMAIN pc = Users /\ DOMAIN place = Users /\ stored \in Seq(Package)
  BY DEF PoolTypeOK, TypeOK, Users
<1>2. /\ avail \in Nat /\ Len(stored) \in Nat
      /\ signallers(place) \in Nat /\ holders(pc) \in Nat
      /\ pc[u] = "acquired" => Len(stored) > 0
  BY PermitMeansStored, Counts DEF InTurn
<1>3. Len(stored) = avail + signallers(place) + holders(pc)
  BY Counts DEF InTurn, Permits
<1>4. SUFFICES Goal
  BY Counts DEF Permits
<1>5. Moved(u, pc, pc') =>
        holders(pc') = holders(pc) + In(pc'[u], {"acquired"}) - In(pc[u], {"acquired"})
  BY Moves
<1>6. Moved(u, place, place') =>
        signallers(place') = signallers(place) + In(place'[u], {"signal"}) - In(place[u], {"signal"})
  BY Moves
<1>7. CASE BeginPut(u) \/ EnqueueFails(u) \/ BeginDequeue(u)
  <2>1. /\ avail' = avail /\ pc' = pc /\ stored' = stored
        /\ Moved(u, place, place') /\ place[u] # "signal" /\ place'[u] # "signal"
    BY <1>1, <1>7 DEF BeginPut, EnqueueFails, BeginDequeue, At, Moved, semVars
  <2> QED
    BY <1>2, <1>3, <1>6, <2>1 DEF In
<1>8. CASE EnqueuePackage(u)
  <2>1. /\ avail' = avail /\ pc' = pc /\ stored' = Append(stored, item[u])
        /\ Moved(u, place, place') /\ place[u] = "enqueue" /\ place'[u] = "signal"
    BY <1>1, <1>8 DEF EnqueuePackage, At, Moved, semVars
  <2>2. Len(stored') = Len(stored) + 1
    BY <1>1, <2>1
  <2> QED
    BY <1>2, <1>3, <1>6, <2>1, <2>2 DEF In
<1>9. CASE SignalPackage(u)
  <2>1. /\ avail' = avail + 1 /\ pc' = pc /\ stored' = stored
        /\ Moved(u, place, place') /\ place[u] = "signal" /\ place'[u] = "idle"
    BY <1>1, <1>9 DEF SignalPackage, FetchAddSignal, At, Moved
  <2> QED
    BY <1>2, <1>3, <1>6, <2>1 DEF In
<1>10. CASE PostPackage(u)
  <2>1. avail' = avail /\ pc' = pc /\ place' = place /\ stored' = stored
    BY <1>10 DEF PostPackage, Post, userVars
  <2> QED
    BY <1>3, <2>1
<1>11. CASE BeginGet(u) \/ WaitForPackage(u)
  <2>1. stored' = stored /\ place' = place /\ Moved(u, pc, pc')
    BY <1>1, <1>11 DEF BeginGet, BeginWait, WaitForPackage, WaitStep, Goto, Moved, userVars,
       TryLoad, Spin, TakeSeen, BlockDec, SemWait, Timeout, Restore, ReDec, SemTry
  <2>2. /\ pc[u] # "acquired"
        /\ \/ avail' = avail /\ pc'[u] # "acquired"
           \/ avail' = avail - 1 /\ pc'[u] = "acquired"
    BY <1>1, <1>11 DEF BeginGet, BeginWait, WaitForPackage, WaitStep, Goto,
       TryLoad, Spin, TakeSeen, BlockDec, SemWait, Timeout, Restore, ReDec, SemTry
  <2> QED
    BY <1>2, <1>3, <1>5, <2>1, <2>2 DEF In
<1>12. ~FindNothing(u)
  BY NeverFindsNothing
<1>13. CASE DequeuePackage(u)
  <2>1. /\ avail' = avail /\ Moved(u, pc, pc') /\ pc[u] = "acquired" /\ pc'[u] = "idle"
        /\ Moved(u, place, place') /\ place[u] = "dequeue" /\ place'[u] = "idle"
        /\ stored # <<>> /\ stored' = Tail(stored)
    BY <1>1, <1>13 DEF DequeuePackage, Return, Goto, At, Moved
  <2>2. Len(stored') = Len(stored) - 1
    BY <1>1, <2>1
  <2> QED
    BY <1>2, <1>3, <1>5, <1>6, <2>1, <2>2 DEF In
<1> QED
  BY <1>7, <1>8, <1>9, <1>10, <1>11, <1>12, <1>13 DEF PutStep, GetStep

(* What a step can do to the packages: nothing, or one of them goes from   *)
(* one place to another.                                                   *)
Stays ==
  /\ stored' = stored /\ out' = out /\ lost' = lost /\ Putting' = Putting
  /\ \A v \in Putting : item'[v] = item[v]

LEMMA WhereFollows ==
  ASSUME PoolTypeOK, InTurn, NEW u \in Users, PutStep(u) \/ GetStep(u)
  PROVE  \/ Stays
         \/ /\ item'[u] \in out /\ out' = out \ {item'[u]}
            /\ stored' = stored /\ lost' = lost
            /\ u \notin Putting /\ Putting' = Putting \cup {u}
            /\ \A v \in Putting : item'[v] = item[v]
         \/ /\ u \in Putting /\ Putting' = Putting \ {u}
            /\ \/ stored' = Append(stored, item[u]) /\ lost' = lost
               \/ stored' = stored /\ lost' = lost \cup {item[u]}
            /\ out' = out
            /\ \A v \in Putting \ {u} : item'[v] = item[v]
         \/ /\ stored # <<>> /\ stored' = Tail(stored)
            /\ out' = out \cup {Head(stored)} /\ lost' = lost
            /\ Putting' = Putting
            /\ \A v \in Putting : item'[v] = item[v]
<1>1. DOMAIN place = Users /\ DOMAIN item = Users
  BY DEF PoolTypeOK
<1> USE <1>1 DEF At, Putting, userVars
<1>2. CASE BeginPut(u)
  BY <1>2 DEF BeginPut
<1>3. CASE EnqueuePackage(u) \/ EnqueueFails(u)
  BY <1>3 DEF EnqueuePackage, EnqueueFails
<1>4. CASE SignalPackage(u) \/ BeginDequeue(u)
  <2>1. Stays
    BY <1>4 DEF SignalPackage, BeginDequeue, Stays
  <2> QED
    BY <2>1
<1>5. CASE PostPackage(u) \/ BeginGet(u) \/ WaitForPackage(u)
  <2>1. Stays
    BY <1>5 DEF PostPackage, BeginGet, WaitForPackage, Stays
  <2> QED
    BY <2>1
<1>6. ~FindNothing(u)
  BY NeverFindsNothing
<1>7. CASE DequeuePackage(u)
  BY <1>7 DEF DequeuePackage
<1> QED
  BY <1>2, <1>3, <1>4, <1>5, <1>6, <1>7 DEF PutStep, GetStep

(* A package moves from one place to the next, and is never in both. *)
LEMMA PackagesFollow ==
  ASSUME PoolTypeOK, InTurn, NEW u \in Users, PutStep(u) \/ GetStep(u)
  PROVE  Apart' /\ Complete'
<1>1. Apart /\ Complete /\ stored \in Seq(Package) /\ Len(stored) \in Nat
  BY DEF InTurn, PoolTypeOK
<1>2. /\ IsFiniteSet(out) /\ IsFiniteSet(lost) /\ IsFiniteSet(Putting)
      /\ Cardinality(out) \in Nat /\ Cardinality(lost) \in Nat /\ Cardinality(Putting) \in Nat
  <2>1. NumPackages \in Int /\ 1 \in Int
    BY PoolAssumption
  <2>2. IsFiniteSet(Package)
    BY <2>1, FS_Interval DEF Package
  <2>3. out \in SUBSET Package /\ lost \in SUBSET Package /\ Putting \in SUBSET Users
    BY DEF PoolTypeOK, Putting
  <2>4. IsFiniteSet(out) /\ IsFiniteSet(lost) /\ IsFiniteSet(Putting)
    BY <2>2, <2>3, FS_Subset, SomeUsers
  <2> QED
    BY <2>4, FS_CardinalityType
<1>3. Len(stored) + Cardinality(out) + Cardinality(Putting) + Cardinality(lost) = NumPackages
  BY <1>1 DEF Complete
<1>4. CASE Stays
  BY <1>1, <1>4 DEF Stays, Apart, Complete, Gone, Somewhere
<1>5. CASE /\ item'[u] \in out /\ out' = out \ {item'[u]}
           /\ stored' = stored /\ lost' = lost
           /\ u \notin Putting /\ Putting' = Putting \cup {u}
           /\ \A v \in Putting : item'[v] = item[v]
  <2>1. Apart'
    BY <1>1, <1>5 DEF Apart, Gone
  <2>2. \A p \in Package : Somewhere(p)'
    BY <1>1, <1>5 DEF Complete, Gone, Somewhere
  <2>3. Cardinality(out') = Cardinality(out) - 1
    BY <1>2, <1>5, FS_RemoveElement
  <2>4. Cardinality(Putting') = Cardinality(Putting) + 1
    BY <1>2, <1>5, FS_AddElement
  <2>5. Len(stored') + Cardinality(out') + Cardinality(Putting') + Cardinality(lost') = NumPackages
    BY <1>1, <1>2, <1>3, <1>5, <2>3, <2>4
  <2> QED
    BY <2>1, <2>2, <2>5 DEF Complete
<1>6. CASE /\ u \in Putting /\ Putting' = Putting \ {u}
           /\ stored' = Append(stored, item[u]) /\ lost' = lost /\ out' = out
           /\ \A v \in Putting \ {u} : item'[v] = item[v]
  <2>1. /\ Len(stored') = Len(stored) + 1
        /\ \A i \in 1 .. Len(stored) : stored'[i] = stored[i]
        /\ stored'[Len(stored) + 1] = item[u]
        /\ \A i \in 1 .. Len(stored') : i \in 1 .. Len(stored) \/ i = Len(stored) + 1
    BY <1>1, <1>6
  <2>2. Apart'
    BY <1>1, <1>6, <2>1 DEF Apart, Gone
  <2>3. \A p \in Package : Somewhere(p)'
    <3>1. \A i \in 1 .. Len(stored) : i \in 1 .. Len(stored')
      BY <1>1, <2>1
    <3>2. Len(stored) + 1 \in 1 .. Len(stored')
      BY <1>1, <2>1
    <3> QED
      BY <1>1, <1>6, <2>1, <3>1, <3>2 DEF Complete, Gone, Somewhere
  <2>4. Cardinality(Putting') = Cardinality(Putting) - 1
    BY <1>2, <1>6, FS_RemoveElement
  <2>5. Len(stored') + Cardinality(out') + Cardinality(Putting') + Cardinality(lost') = NumPackages
    BY <1>1, <1>2, <1>3, <1>6, <2>1, <2>4
  <2> QED
    BY <2>2, <2>3, <2>5 DEF Complete
<1>7. CASE /\ u \in Putting /\ Putting' = Putting \ {u}
           /\ stored' = stored /\ lost' = lost \cup {item[u]} /\ out' = out
           /\ \A v \in Putting \ {u} : item'[v] = item[v]
  <2>1. Apart'
    BY <1>1, <1>7 DEF Apart, Gone
  <2>2. \A p \in Package : Somewhere(p)'
    BY <1>1, <1>7 DEF Complete, Gone, Somewhere
  <2>3. Cardinality(Putting') = Cardinality(Putting) - 1
    BY <1>2, <1>7, FS_RemoveElement
  <2>4. item[u] \notin lost
    BY <1>1, <1>7 DEF Apart, Gone
  <2>5. Cardinality(lost') = Cardinality(lost) + 1
    BY <1>2, <1>7, <2>4, FS_AddElement
  <2>6. Len(stored') + Cardinality(out') + Cardinality(Putting') + Cardinality(lost') = NumPackages
    BY <1>1, <1>2, <1>3, <1>7, <2>3, <2>5
  <2> QED
    BY <2>1, <2>2, <2>6 DEF Complete
<1>8. CASE /\ stored # <<>> /\ stored' = Tail(stored)
           /\ out' = out \cup {Head(stored)} /\ lost' = lost
           /\ Putting' = Putting
           /\ \A v \in Putting : item'[v] = item[v]
  <2>1. /\ Len(stored) \in Nat \ {0} /\ Len(stored') = Len(stored) - 1
        /\ Head(stored) = stored[1]
        /\ \A i \in 1 .. Len(stored') : stored'[i] = stored[i + 1] /\ i + 1 \in 1 .. Len(stored)
    BY <1>1, <1>8
  <2>2. \A i \in 1 .. Len(stored) : i = 1 \/ (i - 1 \in 1 .. Len(stored') /\ stored'[i - 1] = stored[i])
    <3>1. ASSUME NEW i \in 1 .. Len(stored), i # 1
          PROVE  i - 1 \in 1 .. Len(stored') /\ stored'[i - 1] = stored[i]
      <4>1. i - 1 \in 1 .. Len(stored') /\ (i - 1) + 1 = i
        BY <2>1, <3>1
      <4> QED
        BY <2>1, <4>1
    <3> QED
      BY <3>1
  <2>3. 1 \in 1 .. Len(stored)
    BY <2>1
  <2>4. Head(stored) \in Package \ Gone
    BY <1>1, <2>1, <2>3 DEF Apart
  <2>5. Apart'
    <3>1. Gone' = Gone \cup {stored[1]}
      BY <1>8, <2>1 DEF Gone
    <3>2. \A i \in 1 .. Len(stored') : stored'[i] \in Package \ Gone'
      <4>1. ASSUME NEW i \in 1 .. Len(stored') PROVE stored'[i] # stored[1] /\ stored'[i] \in Package \ Gone
        <5>1. i + 1 \in 1 .. Len(stored) /\ i + 1 # 1 /\ stored'[i] = stored[i + 1]
          BY <2>1, <4>1
        <5> QED
          BY <1>1, <2>3, <5>1 DEF Apart
      <4> QED
        BY <3>1, <4>1
    <3>3. \A i, j \in 1 .. Len(stored') : stored'[i] = stored'[j] => i = j
      <4>1. ASSUME NEW i \in 1 .. Len(stored'), NEW j \in 1 .. Len(stored'), stored'[i] = stored'[j]
            PROVE  i = j
        <5>1. i + 1 = j + 1
          BY <1>1, <2>1, <4>1 DEF Apart
        <5> QED
          BY <4>1, <5>1
      <4> QED
        BY <4>1
    <3>4. /\ Gone' \subseteq Package /\ out' \cap lost' = {}
          /\ \A v \in Putting' : item'[v] \in Package \ Gone'
          /\ \A v, w \in Putting' : item'[v] = item'[w] => v = w
      BY <1>1, <1>8, <2>1, <2>3, <2>4, <3>1 DEF Apart, Gone
    <3>5. \A v \in Putting', i \in 1 .. Len(stored') : item'[v] # stored'[i]
      BY <1>1, <1>8, <2>1 DEF Apart
    <3> QED
      BY <3>2, <3>3, <3>4, <3>5 DEF Apart
  <2>6. \A p \in Package : Somewhere(p)'
    <3>1. SUFFICES ASSUME NEW p \in Package PROVE Somewhere(p)'
      OBVIOUS
    <3>2. Somewhere(p)
      BY <1>1 DEF Complete
    <3>3. CASE p \in Gone \/ \E v \in Putting : item[v] = p
      BY <1>8, <3>3 DEF Gone, Somewhere
    <3>4. CASE \E i \in 1 .. Len(stored) : stored[i] = p
      <4>1. PICK i \in 1 .. Len(stored) : stored[i] = p
        BY <3>4
      <4>2. CASE i = 1
        BY <1>8, <2>1, <4>1, <4>2 DEF Gone, Somewhere
      <4>3. CASE i # 1
        BY <2>2, <4>1, <4>3 DEF Somewhere
      <4> QED
        BY <4>2, <4>3
    <3> QED
      BY <3>2, <3>3, <3>4 DEF Somewhere
  <2>7. Cardinality(out') = Cardinality(out) + 1
    BY <1>2, <1>8, <2>4, FS_AddElement DEF Gone
  <2>8. Len(stored') + Cardinality(out') + Cardinality(Putting') + Cardinality(lost') = NumPackages
    BY <1>1, <1>2, <1>3, <1>8, <2>1, <2>7
  <2> QED
    BY <2>5, <2>6, <2>8 DEF Complete
<1> QED
  BY <1>4, <1>5, <1>6, <1>7, <1>8, WhereFollows
-----------------------------------------------------------------------------
(***************************************************************************)
(* The invariant holds, and with it the properties of the pool.            *)
(***************************************************************************)

LEMMA PoolInvInit == PoolInit => PoolInv
<1> SUFFICES ASSUME PoolInit PROVE PoolInv
  OBVIOUS
<1>1. /\ NumPackages \in Nat /\ stored \in Seq(Package) /\ Len(stored) = NumPackages
      /\ \A i \in 1 .. NumPackages : stored[i] = i
  BY PoolAssumption DEF PoolInit, Package
<1>2. /\ Asleep = {} /\ Posting = {} /\ Acquired = {} /\ Signalling = {} /\ Putting = {}
      /\ Taking = {} /\ SeesPermit = {} /\ out = {} /\ lost = {}
  BY DEF PoolInit, Asleep, Posting, Acquired, Signalling, Putting, Taking, SeesPermit
<1>3. PoolTypeOK
  <2>1. TypeOK
    BY PoolAssumption DEF PoolInit, TypeOK, Users, Modes, Places
  <2> QED
    BY <1>1, <1>2, <2>1 DEF PoolInit, PoolTypeOK
<1>4. OneCall
  BY DEF PoolInit, OneCall
<1>5. Cardinality({}) = 0
  BY FS_EmptySet
<1>6. Claims /\ Permits /\ ~Racing
  BY <1>1, <1>2, <1>5 DEF PoolInit, Claims, Permits, Racing
<1>7. Apart /\ Complete
  BY <1>1, <1>2, <1>5 DEF Apart, Complete, Gone, Somewhere, Package
<1> QED
  BY <1>3, <1>4, <1>6, <1>7 DEF PoolInv, InTurn

LEMMA PoolInvKept == PoolInv /\ [PoolNext]_poolVars => PoolInv'
<1> SUFFICES ASSUME PoolInv, [PoolNext]_poolVars PROVE PoolInv'
  OBVIOUS
<1>1. PoolTypeOK'
  BY PoolTypesKept DEF PoolInv
<1>2. CASE UNCHANGED poolVars
  BY <1>1, <1>2
  DEF poolVars, semVars, userVars, PoolInv, OneCall, Racing, InTurn, Claims, Permits,
      Apart, Complete, Gone, Somewhere, Putting, Signalling, Posting, Acquired,
      Asleep, Taking, SeesPermit
<1>3. CASE PoolNext
  <2> PICK u \in Users : PutStep(u) \/ GetStep(u)
    BY <1>3 DEF PoolNext
  <2>1. OneCall'
    BY OneCallKept DEF PoolInv
  <2>2. ASSUME ~raced' PROVE ~Racing' /\ InTurn'
    <3>1. ~raced /\ ~Racing'
      BY <1>3, <2>2 DEF PoolNext, PoolInv, PoolTypeOK
    <3>2. ~Racing /\ InTurn /\ PoolTypeOK /\ OneCall
      BY <3>1 DEF PoolInv
    <3>3. Claims'
      BY <3>2, ClaimsKept DEF InTurn
    <3>4. Permits' /\ Apart' /\ Complete'
      BY <3>2, PermitsFollow, PackagesFollow
    <3> QED
      BY <3>1, <3>3, <3>4 DEF InTurn
  <2> QED
    BY <1>1, <2>1, <2>2 DEF PoolInv
<1> QED
  BY <1>2, <1>3

(* Whatever the users do, also after a race, the variables keep their      *)
(* types; until the first race the invariant above holds.                  *)
THEOREM PoolTypesAndTurns == PoolSpec => [](PoolTypeOK /\ PoolInv)
<1>1. PoolInv => PoolTypeOK /\ PoolInv
  BY DEF PoolInv
<1> QED
  BY <1>1, PoolInvInit, PoolInvKept, PTL DEF PoolSpec

(* No package is doubled, got by two users, or lost but for want of memory *)
(* as long as the users take turns, for every number of users and of       *)
(* packages.                                                               *)
THEOREM PoolAccountsForPackages == PoolSpec => []PackagesAccounted
<1>1. PoolInv => PackagesAccounted
  <2> SUFFICES ASSUME PoolInv, ~raced PROVE PackagesAccounted
    BY DEF PackagesAccounted
  <2>1. PoolTypeOK /\ Apart /\ Complete
    BY DEF PoolInv, InTurn
  <2>2. DOMAIN stored = 1 .. Len(stored)
    BY <2>1 DEF PoolTypeOK
  <2>3. Stored \cup out \cup BeingPut \cup lost = Package
    BY <2>1, <2>2 DEF Apart, Complete, Gone, Somewhere, Stored, BeingPut
  <2> QED
    BY <2>1, <2>3 DEF Complete, PackagesAccounted
<1> QED
  BY <1>1, PoolInvInit, PoolInvKept, PTL DEF PoolSpec

(* get, which ignores the result of try_dequeue, always has a package to   *)
(* take when it comes through the semaphore.                               *)
THEOREM GetFindsItsPackage == PoolSpec => []GetFindsPackage
<1>1. PoolInv => GetFindsPackage
  <2> SUFFICES ASSUME PoolInv, ~raced PROVE Cardinality(Acquired) <= Len(stored)
    BY DEF GetFindsPackage, Acquired
  <2>1. PoolTypeOK /\ Claims /\ Permits
    BY DEF PoolInv, InTurn
  <2> QED
    BY <2>1, PermitMeansStored DEF Permits
<1> QED
  BY <1>1, PoolInvInit, PoolInvKept, PTL DEF PoolSpec

(* No user sleeps over a package. *)
THEOREM NobodySleepsOverPackages == PoolSpec => []AsleepMeansEmpty
<1>1. PoolInv => AsleepMeansEmpty
  <2> SUFFICES ASSUME PoolInv, ~raced, m_sema = 0, Asleep # {},
                      \A u \in Users : u \in Asleep \/
                        (pc[u] = "idle" /\ place[u] = "idle" /\ signaling[u] = "idle")
               PROVE  stored = <<>>
    BY DEF AsleepMeansEmpty
  <2>1. PoolTypeOK /\ OneCall /\ Claims /\ Permits
    BY DEF PoolInv, InTurn
  <2>2. \A u \in Users : /\ pc[u] # "acquired" /\ place[u] # "signal"
                         /\ signaling[u] # "post"
    BY <2>1 DEF Asleep, OneCall
  <2>3. Acquired = {} /\ Signalling = {} /\ Posting = {}
    BY <2>2 DEF Acquired, Signalling, Posting
  <2>4. Cardinality(Asleep) \in Nat /\ Cardinality(Asleep) # 0 /\ Cardinality({}) = 0
    BY SomeUsers, FS_EmptySet DEF Asleep
  <2>5. m_count \in Int /\ avail \in Nat
    BY <2>1, PermitMeansStored DEF PoolTypeOK, TypeOK
  <2>6. Len(stored) = 0 /\ stored \in Seq(Package)
    BY <2>1, <2>3, <2>4, <2>5 DEF Claims, Permits, PoolTypeOK
  <2> QED
    BY <2>6
<1> QED
  BY <1>1, PoolInvInit, PoolInvKept, PTL DEF PoolSpec
=============================================================================
