-------------------------- MODULE ConnectionProofs --------------------------
(***************************************************************************)
(* Type correctness of Connection, and that a connection is closed once,   *)
(* for any number of packages, requests and writes.                        *)
(***************************************************************************)
EXTENDS Connection, SequenceTheorems, FiniteSetTheorems, TLAPS

(* The stages of a connection: before accept_handler, in the hands of      *)
(* epoll, closed and waiting for the collector, collected. A handler runs  *)
(* only in the second one, and asyn_write arms epoll only after the first. *)
LifeInv ==
  /\ hpc = "accept" <=> interest = "none"
  /\ interest = "none" => ~cached /\ apc # "arm"
  /\ interest = "closed" => hpc = "idle" /\ (garbage = 1 <=> ~collected)
  /\ interest # "closed" => garbage = 0 /\ ~collected
  /\ garbage <= 1
  /\ active = IF interest \in {"in", "out"} THEN 1 ELSE 0

(* The locals in use are packages, and the list keeps the package that     *)
(* write_handler works on: only write_handler removes one, and the         *)
(* collector comes when no handler runs.                                   *)
LocalsInv ==
  /\ hpc \in {"recv", "send", "pop", "test"} => hpkg \in Packages
  /\ hpc \in {"send", "pop"} => package_list # <<>>
  /\ apc = "find" => apkg \in Packages
  /\ arrived + unsent <= MaxRequests

ConnectionInv == TypeOK /\ LifeInv /\ LocalsInv

(***************************************************************************)
(* Every step keeps the stages.                                            *)
(***************************************************************************)
LEMMA LifeStep ==
  ASSUME TypeOK, LifeInv, [Next]_vars
  PROVE  LifeInv'
<1> USE DEF LifeInv, epollVars, handlerVars, cacheVars, appVars, LeaveHandler,
            CloseConnection
<1>a. active \in Nat /\ garbage \in Nat /\ collected \in BOOLEAN /\ cached \in BOOLEAN
      /\ interest \in {"none", "in", "out", "closed"}
  BY DEF TypeOK
<1>1. CASE Peer
  BY <1>1 DEF Peer, PeerSends, PeerLeaves
<1>2. CASE Accept
  BY <1>2, <1>a DEF Accept
<1>3. CASE Report
  BY <1>3 DEF Report
<1>4. CASE GetPackage \/ RecvData \/ RecvError
  BY <1>4 DEF GetPackage, RecvData, RecvError
<1>5. CASE RecvNothing
  BY <1>5, <1>a DEF RecvNothing
<1>6. CASE FrontPackage \/ ContinueListen
  BY <1>6, <1>a DEF FrontPackage, ContinueListen
<1>7. CASE SendAll
  BY <1>7 DEF SendAll
<1>15. CASE SendLess
  BY <1>15, <1>a DEF SendLess
<1>14. CASE PopFront
  BY <1>14 DEF PopFront
<1>8. CASE TestStatus
  BY <1>8, <1>a DEF TestStatus
<1>9. CASE AsynRead \/ AcquirePackage \/ Release
  BY <1>9 DEF AsynRead, AcquirePackage, Release, ReleasePackage
<1>10. CASE Write \/ FindEntry
  BY <1>10 DEF Write, AsynWrite, FindEntry
<1>11. CASE ListenForWrite
  BY <1>11, <1>a DEF ListenForWrite
<1>12. CASE Collect
  BY <1>12, <1>a DEF Collect
<1>13. CASE UNCHANGED vars
  BY <1>13 DEF vars
<1> QED
  BY <1>1, <1>2, <1>3, <1>4, <1>5, <1>6, <1>7, <1>8, <1>9, <1>10, <1>11, <1>12, <1>13, <1>14, <1>15
  DEF Next, Handler, Application

(* push_back on a list of packages. *)
LEMMA PackageAppended ==
  ASSUME NEW s \in Seq(Packages), NEW p \in Packages
  PROVE  Append(s, p) \in Seq(Packages) /\ Append(s, p) # <<>>
<1>1. Append(s, p) \in Seq(Packages)
  OBVIOUS
<1>2. Len(Append(s, p)) = Len(s) + 1 /\ Len(s) \in Nat
  OBVIOUS
<1> QED
  BY <1>1, <1>2

(***************************************************************************)
(* Every step keeps the types and the locals.                              *)
(***************************************************************************)
LEMMA TypeStep ==
  ASSUME TypeOK, LifeInv, LocalsInv, [Next]_vars
  PROVE  TypeOK' /\ LocalsInv'
<1> USE ConnectionAssumption
    DEF TypeOK, LocalsInv, peerVars, epollVars, handlerVars, cacheVars, appVars,
        LeaveHandler
<1>1. CASE Peer
  <2>1. CASE PeerSends
    BY <2>1 DEF PeerSends
  <2>2. CASE PeerLeaves
    BY <2>2 DEF PeerLeaves
  <2> QED
    BY <1>1, <2>1, <2>2 DEF Peer
<1>2. CASE Accept
  BY <1>2 DEF Accept, LifeInv
<1>21. CASE Report
  BY <1>21 DEF Report
<1>3. CASE GetPackage
  BY <1>3 DEF GetPackage
<1>4. CASE RecvData
  <2>1. data_package_queue' \in Seq(Packages)
    BY <1>4, AppendProperties DEF RecvData
  <2>2. arrived' \in 0 .. MaxRequests /\ arrived' + unsent' <= MaxRequests
    BY <1>4 DEF RecvData
  <2>3. TypeOK'
    BY <1>4, <2>1, <2>2 DEF RecvData
  <2> QED
    BY <1>4, <2>2, <2>3 DEF RecvData
<1>5. CASE RecvError
  BY <1>5, AppendProperties DEF RecvError
<1>6. CASE RecvNothing
  <2>1. active' \in Nat /\ garbage' \in Nat
    BY <1>6 DEF RecvNothing, CloseConnection, LifeInv
  <2> QED
    BY <1>6, <2>1 DEF RecvNothing, CloseConnection
<1>7. CASE FrontPackage
  BY <1>7, HeadTailProperties DEF FrontPackage
<1>8. CASE ContinueListen
  BY <1>8 DEF ContinueListen
<1>9. CASE SendAll
  BY <1>9 DEF SendAll
<1>10. CASE SendLess
  BY <1>10 DEF SendLess
<1>11. CASE PopFront
  BY <1>11, HeadTailProperties DEF PopFront
<1>12. CASE TestStatus
  <2>1. active' \in Nat /\ garbage' \in Nat
    BY <1>12 DEF TestStatus, CloseConnection, LifeInv
  <2> QED
    BY <1>12, <2>1 DEF TestStatus, CloseConnection
<1>13. CASE AsynRead
  BY <1>13, HeadTailProperties DEF AsynRead
<1>14. CASE AcquirePackage
  BY <1>14 DEF AcquirePackage
<1>15. CASE Release
  BY <1>15 DEF Release, ReleasePackage
<1>16. CASE Write
  BY <1>16 DEF Write, AsynWrite
<1>17. CASE FindEntry
  <2>0. apkg \in Packages /\ package_list \in Seq(Packages)
    BY <1>17 DEF FindEntry
  <2>a. /\ Append(package_list, apkg) \in Seq(Packages)
        /\ Append(package_list, apkg) # <<>>
    BY <2>0, PackageAppended
  <2>1. package_list' \in Seq(Packages)
        /\ (package_list # <<>> => package_list' # <<>>)
    BY <1>17, <2>0, <2>a DEF FindEntry
  <2> QED
    BY <1>17, <2>1 DEF FindEntry
<1>18. CASE ListenForWrite
  BY <1>18 DEF ListenForWrite
<1>19. CASE Collect
  BY <1>19, EmptySeq DEF Collect, LifeInv
<1>20. CASE UNCHANGED vars
  BY <1>20 DEF vars
<1> QED
  BY <1>1, <1>2, <1>3, <1>4, <1>5, <1>6, <1>7, <1>8, <1>9, <1>10, <1>11, <1>12,
     <1>13, <1>14, <1>15, <1>16, <1>17, <1>18, <1>19, <1>20, <1>21
  DEF Next, Handler, Application

LEMMA ConnectionStart == Init => ConnectionInv
<1> SUFFICES ASSUME Init PROVE ConnectionInv
  OBVIOUS
<1>0. <<>> \in Seq(Packages)
  OBVIOUS
<1>a. /\ status \in [Packages -> {"KEEP", "CLOSE"}]
      /\ stamp \in [Packages -> 0 .. MaxWrites]
  BY ConnectionAssumption DEF Init
<1>b. /\ failed \in BOOLEAN /\ collected \in BOOLEAN /\ cached \in BOOLEAN
      /\ asked \in {"KEEP", "CLOSE"}
  BY DEF Init
<1>c. /\ package_list \in Seq(Packages) /\ data_package_queue \in Seq(Packages)
      /\ pool \subseteq Packages /\ held \subseteq Packages
      /\ hpkg \in Packages \cup {NoPackage} /\ apkg \in Packages \cup {NoPackage}
  BY <1>0 DEF Init
<1>d. /\ unsent \in 0 .. MaxRequests /\ arrived \in 0 .. MaxRequests
      /\ writes \in 0 .. MaxWrites /\ lastSent \in 0 .. MaxWrites
      /\ active \in Nat /\ garbage \in Nat
  BY ConnectionAssumption DEF Init
<1>e. /\ peer \in {"open", "closed", "reset"}
      /\ interest \in {"none", "in", "out", "closed"} /\ apc \in {"idle", "find", "arm"}
      /\ hpc \in {"accept", "idle", "read", "recv", "write", "listen", "send",
                  "pop", "test"}
  BY DEF Init
<1>1. TypeOK
  BY <1>a, <1>b, <1>c, <1>d, <1>e DEF TypeOK
<1>2. LifeInv
  BY DEF Init, LifeInv
<1>3. LocalsInv
  BY ConnectionAssumption DEF Init, LocalsInv
<1> QED
  BY <1>1, <1>2, <1>3 DEF ConnectionInv

LEMMA ConnectionInvariant == Spec => []ConnectionInv
<1>1. Init => ConnectionInv
  BY ConnectionStart
<1>2. ConnectionInv /\ [Next]_vars => ConnectionInv'
  BY LifeStep, TypeStep DEF ConnectionInv
<1> QED
  BY <1>1, <1>2, PTL DEF Spec

(***************************************************************************)
(* Type correctness; in particular active_connect_num, a size_t, is never  *)
(* counted down below zero.                                                *)
(***************************************************************************)
THEOREM ConnectionTypes == Spec => []TypeOK
<1>1. ConnectionInv => TypeOK
  BY DEF ConnectionInv
<1> QED
  BY <1>1, ConnectionInvariant, PTL

(***************************************************************************)
(* "this will never trigger twice" (write_handler): a connection is closed *)
(* once, counted as long as it is open, and recycled when no handler works *)
(* for it any more, for any number of packages, requests and writes.       *)
(***************************************************************************)
THEOREM ConnectionClosedOnce == Spec => []ClosedOnce
<1>1. ConnectionInv => ClosedOnce
  BY DEF ConnectionInv, TypeOK, LifeInv, ClosedOnce
<1> QED
  BY <1>1, ConnectionInvariant, PTL
-----------------------------------------------------------------------------
(***************************************************************************)
(* Where the packages are, and the order of the list                       *)
(***************************************************************************)

(* write_handler works on the first package of the list, and there is an   *)
(* entry as long as it works; the application has nothing before accept.   *)
ListInv ==
  /\ hpc \in {"send", "pop"} => hpkg = package_list[1]
  /\ ~cached => interest = "none" \/ collected
  /\ interest = "none" =>
       package_list = <<>> /\ data_package_queue = <<>> /\ held = {} /\ apc = "idle"
  /\ apkg = NoPackage <=> apc # "find"

(* A package on its way to be sent carries the number of its call: the     *)
(* list continues where the sent packages end, and what asyn_write has in  *)
(* hand continues the list. The package that is sent and still in the list *)
(* may carry a later number, for it may have been given out again.         *)
OrderInv ==
  LET sent == Indicator(hpc = "pop")
  IN  ~collected =>
        /\ writes + sent = lastSent + Len(package_list) + Indicator(apc = "find")
        /\ \A i \in DOMAIN package_list :
             i > sent => stamp[package_list[i]] = lastSent + i - sent
        /\ apc = "find" => stamp[apkg] = writes

(* Until the package that was sent is written again, it keeps its status;  *)
(* the next handler knows nothing of it.                                   *)
AskedInv ==
  asked = "CLOSE" =>
    /\ hpc \in {"pop", "test"}
    /\ hpkg \in pool \cup held => status[hpkg] = "CLOSE"
    /\ \A i \in DOMAIN data_package_queue :
         hpkg = data_package_queue[i] => status[hpkg] = "CLOSE"

PackageInv == ListInv /\ PackageAccounted

SendInv == OrderInv /\ AskedInv

(***************************************************************************)
(* Occurrences in a queue                                                  *)
(***************************************************************************)
LEMMA OccurrencesNat ==
  ASSUME NEW s \in Seq(Packages), NEW p
  PROVE  /\ IsFiniteSet({i \in DOMAIN s : s[i] = p})
         /\ Occurrences(s, p) \in Nat
         /\ Occurrences(s, p) = 0 <=> \A i \in DOMAIN s : s[i] # p
<1> DEFINE S == {i \in DOMAIN s : s[i] = p}
<1>1. DOMAIN s = 1 .. Len(s) /\ Len(s) \in Int /\ 1 \in Int
  OBVIOUS
<1>2. IsFiniteSet(DOMAIN s)
  BY <1>1, FS_Interval
<1>3. S \in SUBSET (DOMAIN s)
  OBVIOUS
<1>4. IsFiniteSet(S)
  BY <1>2, <1>3, FS_Subset
<1>5. Cardinality(S) \in Nat /\ (Cardinality(S) = 0 <=> S = {})
  BY <1>4, FS_CardinalityType, FS_EmptySet
<1> QED
  BY <1>4, <1>5 DEF Occurrences

LEMMA OccurrencesAppend ==
  ASSUME NEW s \in Seq(Packages), NEW q \in Packages, NEW p
  PROVE  Occurrences(Append(s, q), p) = IF p = q THEN Occurrences(s, p) + 1 ELSE Occurrences(s, p)
<1> DEFINE S == {i \in DOMAIN s : s[i] = p}
           T == {i \in DOMAIN Append(s, q) : Append(s, q)[i] = p}
           n == Len(s) + 1
<1>1. /\ DOMAIN s = 1 .. Len(s) /\ Len(s) \in Nat
      /\ DOMAIN Append(s, q) = 1 .. n
      /\ \A i \in DOMAIN s : Append(s, q)[i] = s[i]
      /\ Append(s, q)[n] = q
  OBVIOUS
<1>2. p = q => T = S \cup {n} /\ n \notin S
  BY <1>1
<1>3. p # q => T = S
  BY <1>1
<1>4. IsFiniteSet(S) /\ Occurrences(s, p) = Cardinality(S)
  BY OccurrencesNat DEF Occurrences
<1>5. Occurrences(Append(s, q), p) = Cardinality(T)
  BY DEF Occurrences
<1> HIDE DEF S, T, n
<1>6. p = q => Cardinality(T) = Cardinality(S) + 1
  BY <1>2, <1>4, FS_AddElement
<1> QED
  BY <1>3, <1>4, <1>5, <1>6

LEMMA OccurrencesTail ==
  ASSUME NEW s \in Seq(Packages), s # <<>>, NEW p
  PROVE  Occurrences(Tail(s), p) = IF p = s[1] THEN Occurrences(s, p) - 1 ELSE Occurrences(s, p)
<1> DEFINE S == {i \in DOMAIN s : s[i] = p}
           T == {i \in DOMAIN Tail(s) : Tail(s)[i] = p}
           R == S \ {1}
           f == [i \in T |-> i + 1]
<1>1. /\ DOMAIN s = 1 .. Len(s) /\ Len(s) \in Nat \ {0}
      /\ DOMAIN Tail(s) = 1 .. Len(s) - 1
      /\ \A i \in 1 .. Len(s) - 1 : Tail(s)[i] = s[i + 1]
      /\ Tail(s) \in Seq(Packages)
  OBVIOUS
<1>2. f \in Bijection(T, R)
  <2>1. f \in [T -> R]
    BY <1>1
  <2>2. \A i, j \in T : f[i] = f[j] => i = j
    BY <1>1
  <2>3. ASSUME NEW r \in R PROVE \E i \in T : f[i] = r
    <3>1. r - 1 \in T /\ (r - 1) + 1 = r
      BY <1>1
    <3> QED
      BY <3>1
  <2> QED
    BY <2>1, <2>2, <2>3 DEF Bijection, Injection, Surjection, IsInjective
<1>3. IsFiniteSet(T) /\ Occurrences(Tail(s), p) = Cardinality(T)
  BY <1>1, OccurrencesNat DEF Occurrences
<1>4. Cardinality(R) = Cardinality(T)
  BY <1>2, <1>3, FS_Bijection DEF ExistsBijection
<1>5. IsFiniteSet(S) /\ Occurrences(s, p) = Cardinality(S)
  BY OccurrencesNat DEF Occurrences
<1>6. 1 \in S <=> p = s[1]
  BY <1>1
<1> HIDE DEF S, T
<1>7. Cardinality(R) = IF 1 \in S THEN Cardinality(S) - 1 ELSE Cardinality(S)
  BY <1>5, FS_RemoveElement
<1> QED
  BY <1>3, <1>4, <1>5, <1>6, <1>7

(***************************************************************************)
(* Every step keeps the list's front and the entry.                        *)
(***************************************************************************)
LEMMA ListStep ==
  ASSUME TypeOK, LifeInv, LocalsInv, ListInv, [Next]_vars
  PROVE  ListInv'
<1> USE DEF ListInv, epollVars, handlerVars, cacheVars, appVars, LeaveHandler,
            CloseConnection
<1>a. /\ package_list \in Seq(Packages) /\ data_package_queue \in Seq(Packages)
      /\ cached \in BOOLEAN /\ collected \in BOOLEAN /\ NoPackage \notin Packages
  BY ConnectionAssumption DEF TypeOK
<1>1. CASE Peer
  BY <1>1 DEF Peer, PeerSends, PeerLeaves
<1>2. CASE Accept
  BY <1>2, <1>a DEF Accept, LifeInv
<1>3. CASE Report \/ GetPackage
  BY <1>3 DEF Report, GetPackage
<1>4. CASE RecvData \/ RecvError
  BY <1>4 DEF RecvData, RecvError, LifeInv
<1>5. CASE RecvNothing
  BY <1>5 DEF RecvNothing, LifeInv
<1>6. CASE FrontPackage
  <2>1. package_list # <<>> => Head(package_list) = package_list[1]
    BY <1>a
  <2> QED
    BY <1>6, <1>a, <2>1 DEF FrontPackage, LifeInv
<1>7. CASE ContinueListen
  BY <1>7 DEF ContinueListen, LifeInv
<1>8. CASE SendAll
  BY <1>8 DEF SendAll, LifeInv
<1>9. CASE SendLess
  BY <1>9 DEF SendLess, LifeInv
<1>10. CASE PopFront
  BY <1>10, <1>a DEF PopFront, LifeInv
<1>11. CASE TestStatus
  BY <1>11 DEF TestStatus, LifeInv
<1>12. CASE AsynRead
  BY <1>12 DEF AsynRead
<1>13. CASE AcquirePackage
  <2>0. Cardinality({}) = 0
    BY FS_EmptySet
  <2>1. held # {}
    BY <1>13, <2>0 DEF AcquirePackage
  <2> QED
    BY <1>13, <2>1 DEF AcquirePackage
<1>14. CASE Release
  BY <1>14 DEF Release, ReleasePackage
<1>15. CASE Write
  BY <1>15, <1>a DEF Write, AsynWrite
<1>16. CASE FindEntry
  <2>1. apkg \in Packages /\ interest # "none"
    BY <1>16 DEF FindEntry, LocalsInv
  <2>2. CASE cached
    <3>1. hpc \in {"send", "pop"} => package_list'[1] = package_list[1]
      BY <1>16, <1>a, <2>1, <2>2 DEF FindEntry, LocalsInv
    <3> QED
      BY <1>16, <2>1, <2>2, <3>1 DEF FindEntry
  <2>3. CASE ~cached
    BY <1>16, <2>1, <2>3 DEF FindEntry
  <2> QED
    BY <2>2, <2>3
<1>17. CASE ListenForWrite
  BY <1>17 DEF ListenForWrite
<1>18. CASE Collect
  BY <1>18 DEF Collect, LifeInv, TypeOK
<1>19. CASE UNCHANGED vars
  BY <1>19 DEF vars, peerVars
<1> QED
  BY <1>1, <1>2, <1>3, <1>4, <1>5, <1>6, <1>7, <1>8, <1>9, <1>10, <1>11, <1>12, <1>13,
     <1>14, <1>15, <1>16, <1>17, <1>18, <1>19 DEF Next, Handler, Application

(***************************************************************************)
(* Every step keeps the packages accounted for. In detail: a package that  *)
(* is put into the pool was somewhere else, and so it is not there yet.    *)
(***************************************************************************)
LEMMA PackageStep ==
  ASSUME TypeOK, LifeInv, LocalsInv, ListInv, PackageAccounted, Next, TypeOK', NEW p \in Packages
  PROVE  (Places(p) = 1 + Indicator(hpc = "pop" /\ p = hpkg))'
<1> USE DEF epollVars, handlerVars, cacheVars, appVars, LeaveHandler, CloseConnection
<1> DEFINE inQueue == Occurrences(data_package_queue, p)
           inList == Occurrences(package_list, p)
           here(b) == IF b THEN 1 ELSE 0
           others == here(p \in pool) + inQueue + here(p \in held) + here(p = apkg)
                       + here(hpc = "recv" /\ p = hpkg)
<1>1. /\ package_list \in Seq(Packages) /\ data_package_queue \in Seq(Packages)
      /\ NoPackage \notin Packages
  BY ConnectionAssumption DEF TypeOK
<1>2. /\ inQueue \in Nat /\ (inQueue = 0 <=> \A i \in DOMAIN data_package_queue : data_package_queue[i] # p)
      /\ inList \in Nat /\ (inList = 0 <=> \A i \in DOMAIN package_list : package_list[i] # p)
  BY <1>1, OccurrencesNat
<1>3. Places(p) = others + inList /\ Places(p) = 1 + here(hpc = "pop" /\ p = hpkg)
  BY <1>2 DEF PackageAccounted, Places, Indicator
<1>4. hpc \in {"send", "pop"} /\ p = hpkg => inList > 0
  <2> SUFFICES ASSUME hpc \in {"send", "pop"}, p = hpkg PROVE inList > 0
    OBVIOUS
  <2>1. package_list # <<>> /\ package_list[1] = p
    BY DEF LocalsInv, ListInv
  <2>2. 1 \in DOMAIN package_list
    BY <1>1, <2>1
  <2> QED
    BY <1>2, <2>1, <2>2
<1>5. others \in 0 .. 1
  BY <1>2, <1>3, <1>4
(* What of p is where after the step *)
<1> DEFINE Goal == here(p \in pool') + Occurrences(data_package_queue', p) + here(p \in held')
                     + here(p = apkg') + Occurrences(package_list', p)
                     + here(hpc' = "recv" /\ p = hpkg')
                     = 1 + here(hpc' = "pop" /\ p = hpkg')
<1>6. SUFFICES Goal
  <2>1. Occurrences(data_package_queue', p) \in Nat /\ Occurrences(package_list', p) \in Nat
    BY OccurrencesNat DEF TypeOK
  <2> QED
    BY <2>1 DEF Places, Indicator
<1>7. ASSUME UNCHANGED <<pool, data_package_queue, held, apkg, package_list>>,
             hpc \notin {"recv", "pop"}, hpc' \notin {"recv", "pop"}
      PROVE  Goal
  BY <1>2, <1>3, <1>7
<1>8. CASE Peer
  BY <1>2, <1>3, <1>8 DEF Peer, PeerSends, PeerLeaves
<1>9. CASE Accept \/ Report \/ FrontPackage \/ ContinueListen \/ SendLess \/ TestStatus
  BY <1>7, <1>9 DEF Accept, Report, FrontPackage, ContinueListen, SendLess, TestStatus
<1>10. CASE GetPackage
  BY <1>2, <1>3, <1>5, <1>10 DEF GetPackage
<1>11. CASE RecvData \/ RecvError
  <2>1. /\ hpc = "recv" /\ hpc' = "idle" /\ hpkg \in Packages
        /\ data_package_queue' = Append(data_package_queue, hpkg)
        /\ UNCHANGED <<pool, held, apkg, package_list>>
    BY <1>11 DEF RecvData, RecvError, LocalsInv
  <2>2. Occurrences(data_package_queue', p) = IF p = hpkg THEN inQueue + 1 ELSE inQueue
    BY <1>1, <2>1, OccurrencesAppend
  <2> QED
    BY <1>2, <1>3, <2>1, <2>2
<1>12. CASE RecvNothing
  BY <1>2, <1>3, <1>5, <1>12 DEF RecvNothing
<1>13. CASE SendAll
  <2>1. /\ hpc = "send" /\ hpc' = "pop" /\ hpkg' = hpkg /\ pool' = pool \cup {hpkg}
        /\ UNCHANGED <<data_package_queue, held, apkg, package_list>>
    BY <1>13 DEF SendAll
  <2> QED
    BY <1>2, <1>3, <1>4, <1>5, <2>1
<1>14. CASE PopFront
  <2>1. /\ hpc = "pop" /\ hpc' = "test" /\ package_list' = Tail(package_list)
        /\ hpkg = package_list[1] /\ package_list # <<>>
        /\ UNCHANGED <<pool, data_package_queue, held, apkg>>
    BY <1>14 DEF PopFront, LocalsInv, ListInv
  <2>2. Occurrences(package_list', p) = IF p = hpkg THEN inList - 1 ELSE inList
    BY <1>1, <2>1, OccurrencesTail
  <2> QED
    BY <1>2, <1>3, <2>1, <2>2
<1>15. CASE AsynRead
  <2>1. /\ data_package_queue # <<>> /\ data_package_queue' = Tail(data_package_queue)
        /\ held' = held \cup {data_package_queue[1]}
        /\ UNCHANGED <<pool, apkg, package_list, hpc, hpkg>>
    BY <1>1, <1>15 DEF AsynRead
  <2>2. Occurrences(data_package_queue', p) = IF p = data_package_queue[1] THEN inQueue - 1 ELSE inQueue
    BY <1>1, <2>1, OccurrencesTail
  <2>3. p = data_package_queue[1] => inQueue > 0
    <3>1. 1 \in DOMAIN data_package_queue
      BY <1>1, <2>1
    <3> QED
      BY <1>2, <3>1
  <2> QED
    BY <1>2, <1>3, <1>5, <2>1, <2>2, <2>3
<1>16. CASE AcquirePackage
  BY <1>2, <1>3, <1>5, <1>16 DEF AcquirePackage
<1>17. CASE Release
  BY <1>2, <1>3, <1>5, <1>17 DEF Release, ReleasePackage
<1>18. CASE Write
  <2>1. apkg # p
    BY <1>1, <1>18 DEF Write, AsynWrite, ListInv
  <2> QED
    BY <1>2, <1>3, <1>5, <1>18, <2>1 DEF Write, AsynWrite
<1>19. CASE FindEntry
  <2>1. /\ apkg \in Packages /\ apkg' = NoPackage
        /\ UNCHANGED <<held, data_package_queue, hpc, hpkg>>
    BY <1>19 DEF FindEntry, LocalsInv
  <2>2. CASE cached
    <3>1. package_list' = Append(package_list, apkg) /\ pool' = pool
      BY <1>19, <2>2 DEF FindEntry
    <3>2. Occurrences(package_list', p) = IF p = apkg THEN inList + 1 ELSE inList
      BY <1>1, <2>1, <3>1, OccurrencesAppend
    <3>3. p # apkg'
      BY <1>1, <2>1
    <3>4. CASE p = apkg
      BY <1>2, <1>3, <2>1, <3>1, <3>2, <3>3, <3>4
    <3>5. CASE p # apkg
      BY <1>2, <1>3, <2>1, <3>1, <3>2, <3>3, <3>5
    <3> QED
      BY <3>4, <3>5
  <2>3. CASE ~cached
    BY <1>1, <1>2, <1>3, <1>5, <1>19, <2>1, <2>3 DEF FindEntry
  <2> QED
    BY <2>2, <2>3
<1>20. CASE ListenForWrite
  BY <1>2, <1>3, <1>20 DEF ListenForWrite
<1>21. CASE Collect
  <2>1. /\ pool' = pool \cup {package_list[i] : i \in DOMAIN package_list}
        /\ package_list' = <<>> /\ hpc = "idle"
        /\ UNCHANGED <<held, apkg, data_package_queue, hpc, hpkg>>
    BY <1>21 DEF Collect, LifeInv, TypeOK
  <2>2. Occurrences(package_list', p) = 0
    <3>1. <<>> \in Seq(Packages) /\ DOMAIN <<>> = {}
      OBVIOUS
    <3> QED
      BY <2>1, <3>1, OccurrencesNat
  <2>3. p \in pool' <=> p \in pool \/ inList > 0
    BY <1>2, <2>1
  <2> QED
    BY <1>2, <1>3, <1>5, <2>1, <2>2, <2>3
<1> HIDE DEF Goal
<1> QED
  BY <1>8, <1>9, <1>10, <1>11, <1>12, <1>13, <1>14, <1>15, <1>16, <1>17, <1>18, <1>19, <1>20,
     <1>21 DEF Next, Handler, Application

(* A package that is free, or in the hands of the application, is neither  *)
(* in a second place nor in the list, unless it is being removed from it.  *)
LEMMA OnePlace ==
  ASSUME TypeOK, LocalsInv, ListInv, PackageAccounted, NEW p \in Packages,
         p \in pool \cup held \/ p = apkg
  PROVE  /\ \A i \in DOMAIN package_list : package_list[i] = p => hpc = "pop" /\ i = 1
         /\ p \in held => p \notin pool /\ \A i \in DOMAIN data_package_queue : data_package_queue[i] # p
<1> DEFINE inQueue == Occurrences(data_package_queue, p)
           inList == Occurrences(package_list, p)
           here(b) == IF b THEN 1 ELSE 0
<1>1. /\ package_list \in Seq(Packages) /\ data_package_queue \in Seq(Packages)
  BY DEF TypeOK
<1>2. /\ inQueue \in Nat /\ (inQueue = 0 <=> \A i \in DOMAIN data_package_queue : data_package_queue[i] # p)
      /\ inList \in Nat /\ (inList = 0 <=> \A i \in DOMAIN package_list : package_list[i] # p)
  BY <1>1, OccurrencesNat
<1>3. here(p \in pool) + inQueue + here(p \in held) + here(p = apkg) + inList
        + here(hpc = "recv" /\ p = hpkg) = 1 + here(hpc = "pop" /\ p = hpkg)
  BY <1>2 DEF PackageAccounted, Places, Indicator
<1>4. CASE ~(hpc = "pop" /\ p = hpkg)
  BY <1>2, <1>3, <1>4
<1>5. CASE hpc = "pop" /\ p = hpkg
  <2>1. package_list # <<>> /\ package_list[1] = p
    BY <1>5 DEF LocalsInv, ListInv
  <2>2. /\ Tail(package_list) \in Seq(Packages)
        /\ DOMAIN package_list = 1 .. Len(package_list)
        /\ DOMAIN Tail(package_list) = 1 .. Len(package_list) - 1 /\ Len(package_list) \in Nat
        /\ \A i \in DOMAIN Tail(package_list) : Tail(package_list)[i] = package_list[i + 1]
    BY <1>1, <2>1
  <2>3. Occurrences(Tail(package_list), p) = inList - 1
    BY <1>1, <2>1, OccurrencesTail
  <2>4. /\ Occurrences(Tail(package_list), p) \in Nat
        /\ Occurrences(Tail(package_list), p) = 0 =>
              \A i \in DOMAIN Tail(package_list) : Tail(package_list)[i] # p
    BY <2>2, OccurrencesNat
  <2>5. inList = 1 /\ (p \in held => p \notin pool /\ inQueue = 0)
    BY <1>2, <1>3, <1>5, <2>3, <2>4
  <2>6. \A i \in DOMAIN package_list : i # 1 => package_list[i] # p
    <3>1. ASSUME NEW i \in DOMAIN package_list, i # 1 PROVE package_list[i] # p
      <4>1. i - 1 \in DOMAIN Tail(package_list) /\ (i - 1) + 1 = i
        BY <2>2, <3>1
      <4> QED
        BY <2>2, <2>3, <2>4, <2>5, <4>1
    <3> QED
      BY <3>1
  <2> QED
    BY <1>2, <1>5, <2>5, <2>6
<1> QED
  BY <1>4, <1>5

(***************************************************************************)
(* Every step keeps the list in the order of the calls.                    *)
(***************************************************************************)
LEMMA OrderStep ==
  ASSUME TypeOK, LifeInv, LocalsInv, ListInv, PackageAccounted, OrderInv, Next
  PROVE  OrderInv'
<1> USE DEF epollVars, handlerVars, cacheVars, appVars, LeaveHandler, CloseConnection
<1> DEFINE here(b) == IF b THEN 1 ELSE 0
           Ordered(s, h, a, g, l, w, q, t) ==
             /\ w + here(h = "pop") = l + Len(s) + here(a = "find")
             /\ \A i \in DOMAIN s : i > here(h = "pop") => t[s[i]] = l + i - here(h = "pop")
             /\ a = "find" => t[q] = w
           Goal == Ordered(package_list', hpc', apc', collected', lastSent', writes', apkg', stamp')
<1>1. /\ package_list \in Seq(Packages) /\ Len(package_list) \in Nat
      /\ DOMAIN package_list = 1 .. Len(package_list)
      /\ \A i \in DOMAIN package_list : package_list[i] \in Packages
      /\ writes \in Nat /\ lastSent \in Nat /\ stamp \in [Packages -> 0 .. MaxWrites]
      /\ \A x \in Packages : stamp[x] \in Nat
      /\ collected \in BOOLEAN
  BY ConnectionAssumption DEF TypeOK
<1>2. SUFFICES ASSUME ~collected' PROVE Goal
  BY DEF OrderInv, Indicator
<1>3. ~collected
  BY <1>2 DEF Next, Peer, PeerSends, PeerLeaves, Handler, Accept, Report, GetPackage, RecvData,
    RecvError, RecvNothing, FrontPackage, ContinueListen, SendAll, SendLess, PopFront, TestStatus,
    Application, AsynRead, AcquirePackage, Release, ReleasePackage, Write, AsynWrite, FindEntry,
    ListenForWrite, Collect
<1>4. Ordered(package_list, hpc, apc, collected, lastSent, writes, apkg, stamp)
  BY <1>3 DEF OrderInv, Indicator
<1>5. ASSUME UNCHANGED <<package_list, lastSent, writes, stamp>>,
             UNCHANGED <<apc, apkg>> \/ (apc # "find" /\ apc' # "find"),
             UNCHANGED hpc \/ (hpc # "pop" /\ hpc' # "pop")
      PROVE  Goal
  BY <1>4, <1>5
<1>6. CASE Peer \/ Accept \/ Report \/ GetPackage \/ RecvData \/ RecvError \/ RecvNothing
  BY <1>5, <1>6 DEF Peer, PeerSends, PeerLeaves, Accept, Report, GetPackage, RecvData, RecvError, RecvNothing
<1>7. CASE FrontPackage \/ ContinueListen \/ SendLess \/ TestStatus
  BY <1>5, <1>7 DEF FrontPackage, ContinueListen, SendLess, TestStatus
<1>8. CASE AsynRead \/ AcquirePackage \/ Release \/ ListenForWrite
  BY <1>5, <1>8 DEF AsynRead, AcquirePackage, Release, ReleasePackage, ListenForWrite
<1>9. CASE SendAll
  <2>1. /\ hpc = "send" /\ hpc' = "pop" /\ lastSent' = stamp[hpkg]
        /\ UNCHANGED <<package_list, apc, apkg, writes, stamp>>
    BY <1>9 DEF SendAll
  <2>2. 1 \in DOMAIN package_list /\ hpkg = package_list[1]
    BY <1>1, <2>1 DEF LocalsInv, ListInv
  <2>3. lastSent' = lastSent + 1
    BY <1>1, <1>4, <2>1, <2>2
  <2> QED
    BY <1>1, <1>4, <2>1, <2>3
<1>10. CASE PopFront
  <2>1. /\ hpc = "pop" /\ hpc' = "test" /\ package_list' = Tail(package_list)
        /\ UNCHANGED <<lastSent, apc, apkg, writes, stamp>>
    BY <1>10 DEF PopFront
  <2>2. package_list # <<>>
    BY <2>1 DEF LocalsInv
  <2>3. /\ Len(package_list') = Len(package_list) - 1
        /\ DOMAIN package_list' = 1 .. Len(package_list) - 1
        /\ \A i \in 1 .. Len(package_list) - 1 : package_list'[i] = package_list[i + 1]
    BY <1>1, <2>1, <2>2
  <2>4. ASSUME NEW i \in 1 .. Len(package_list) - 1 PROVE stamp[package_list'[i]] = lastSent + i
    <3>1. i + 1 \in DOMAIN package_list /\ i + 1 > 1
      BY <1>1
    <3>2. stamp[package_list[i + 1]] = lastSent + (i + 1) - 1
      BY <1>4, <2>1, <3>1
    <3> QED
      BY <1>1, <2>3, <3>2
  <2>5. writes + here(hpc' = "pop") = lastSent + Len(package_list') + here(apc = "find")
    <3>1. writes + 1 = lastSent + Len(package_list) + here(apc = "find")
      BY <1>4, <2>1
    <3>2. here(hpc' = "pop") = 0 /\ here(apc = "find") \in Nat /\ Len(package_list') = Len(package_list) - 1
      BY <2>1, <2>3
    <3>3. Len(package_list) \in Nat /\ writes \in Nat /\ lastSent \in Nat
      BY <1>1
    <3> HIDE DEF here
    <3> QED
      BY <3>1, <3>2, <3>3
  <2>6. \A i \in DOMAIN package_list' : stamp[package_list'[i]] = lastSent + i - here(hpc' = "pop")
    BY <1>1, <2>1, <2>3, <2>4
  <2>7. apc = "find" => stamp[apkg] = writes
    BY <1>4
  <2> QED
    BY <2>1, <2>5, <2>6, <2>7
<1>11. CASE Write
  <2>1. PICK p \in held : /\ apc = "idle" /\ writes' = writes + 1
                          /\ stamp' = [stamp EXCEPT ![p] = writes'] /\ apkg' = p /\ apc' = "find"
                          /\ UNCHANGED <<hpc, package_list, lastSent>>
    BY <1>11 DEF Write, AsynWrite
  <2>2. p \in Packages
    BY DEF TypeOK
  <2>3. \A i \in DOMAIN package_list : i > here(hpc = "pop") => package_list[i] # p
    BY <1>1, <2>2, OnePlace
  <2>4. \A i \in DOMAIN package_list : i > here(hpc = "pop") => stamp'[package_list[i]] = stamp[package_list[i]]
    BY <1>1, <2>1, <2>3
  <2>5. stamp'[p] = writes'
    BY <1>1, <2>1, <2>2
  <2> QED
    BY <1>1, <1>4, <2>1, <2>4, <2>5
<1>12. CASE FindEntry
  <2>1. cached
    BY <1>3, <1>12 DEF FindEntry, ListInv
  <2>2. /\ apc = "find" /\ apc' = "arm" /\ package_list' = Append(package_list, apkg)
        /\ UNCHANGED <<hpc, lastSent, writes, stamp>>
    BY <1>12, <2>1 DEF FindEntry
  <2>3. apkg \in Packages /\ (hpc = "pop" => Len(package_list) > 0)
    BY <1>1, <2>2 DEF LocalsInv
  <2>4. /\ Len(package_list') = Len(package_list) + 1
        /\ DOMAIN package_list' = 1 .. Len(package_list) + 1
        /\ \A i \in 1 .. Len(package_list) : package_list'[i] = package_list[i]
        /\ package_list'[Len(package_list) + 1] = apkg
    BY <1>1, <2>2, <2>3
  <2>5. stamp[apkg] = writes /\ writes + here(hpc = "pop") = lastSent + Len(package_list) + 1
    BY <1>4, <2>2
  <2>6. ASSUME NEW i \in DOMAIN package_list', i > here(hpc = "pop")
        PROVE  stamp[package_list'[i]] = lastSent + i - here(hpc = "pop")
    <3>1. CASE i \in 1 .. Len(package_list)
      <4>1. i \in DOMAIN package_list /\ package_list'[i] = package_list[i]
        BY <1>1, <2>4, <3>1
      <4>2. stamp[package_list[i]] = lastSent + i - here(hpc = "pop")
        BY <1>4, <2>6, <4>1
      <4> QED
        BY <4>1, <4>2
    <3>2. CASE i = Len(package_list) + 1
      <4>1. stamp[package_list'[i]] = writes
        BY <2>4, <2>5, <3>2
      <4> QED
        BY <1>1, <2>5, <3>2, <4>1
    <3> QED
      BY <1>1, <2>4, <3>1, <3>2
  <2> QED
    BY <1>1, <2>2, <2>4, <2>5, <2>6
<1>13. ~Collect
  BY <1>2 DEF Collect
<1> HIDE DEF Goal
<1> QED
  BY <1>6, <1>7, <1>8, <1>9, <1>10, <1>11, <1>12, <1>13 DEF Next, Handler, Application

(***************************************************************************)
(* Every step keeps the status of the package that was sent.               *)
(***************************************************************************)
LEMMA AskedStep ==
  ASSUME TypeOK, LifeInv, LocalsInv, ListInv, PackageAccounted, AskedInv, Next
  PROVE  AskedInv'
<1> USE DEF epollVars, handlerVars, cacheVars, appVars, LeaveHandler
<1> DEFINE Queued(q) == \E i \in DOMAIN q : hpkg = q[i]
<1>1. /\ asked = "CLOSE" => hpc \in {"pop", "test"}
      /\ asked = "CLOSE" /\ (hpkg \in pool \cup held \/ Queued(data_package_queue)) =>
           status[hpkg] = "CLOSE"
  BY DEF AskedInv
<1> DEFINE Kept == /\ hpc' \in {"pop", "test"}
                   /\ hpkg' \in pool' \cup held' \/ (\E i \in DOMAIN data_package_queue' : hpkg' = data_package_queue'[i])
                        => status'[hpkg'] = "CLOSE"
<1>2. SUFFICES ASSUME asked' = "CLOSE" PROVE Kept
  BY DEF AskedInv
<1>3. ASSUME UNCHANGED <<hpc, hpkg, asked, status>>,
             hpkg \in pool' \cup held' => hpkg \in pool \cup held \/ Queued(data_package_queue),
             Queued(data_package_queue') => Queued(data_package_queue)
      PROVE  Kept
  BY <1>1, <1>2, <1>3
<1>4. CASE Peer
  BY <1>3, <1>4 DEF Peer, PeerSends, PeerLeaves
<1>5. CASE Accept \/ Report \/ GetPackage \/ RecvData \/ RecvError \/ RecvNothing
  BY <1>1, <1>2, <1>5 DEF Accept, Report, GetPackage, RecvData, RecvError, RecvNothing
<1>6. CASE FrontPackage \/ ContinueListen \/ TestStatus
  BY <1>1, <1>2, <1>6 DEF FrontPackage, ContinueListen, TestStatus
<1>7. CASE SendAll
  BY <1>2, <1>7 DEF SendAll
<1>8. CASE SendLess
  BY <1>1, <1>2, <1>8 DEF SendLess
<1>9. CASE PopFront
  <2>1. hpc' = "test" /\ UNCHANGED <<hpkg, asked, status, pool, held, data_package_queue>>
    BY <1>9 DEF PopFront
  <2> QED
    BY <1>1, <1>2, <2>1
<1>10. CASE AsynRead
  <2>1. /\ data_package_queue # <<>> /\ data_package_queue' = Tail(data_package_queue)
        /\ held' = held \cup {data_package_queue[1]}
        /\ data_package_queue \in Seq(Packages)
        /\ UNCHANGED <<hpc, hpkg, asked, status, pool>>
    BY <1>10 DEF AsynRead, TypeOK
  <2>2. /\ 1 \in DOMAIN data_package_queue
        /\ \A i \in DOMAIN Tail(data_package_queue) :
              /\ i + 1 \in DOMAIN data_package_queue
              /\ Tail(data_package_queue)[i] = data_package_queue[i + 1]
    BY <2>1
  <2> QED
    BY <1>3, <2>1, <2>2
<1>11. CASE AcquirePackage \/ Release
  BY <1>3, <1>11 DEF AcquirePackage, Release, ReleasePackage
<1>12. CASE Write
  <2>1. PICK p \in held, wanted \in {"KEEP", "CLOSE"} :
          /\ held' = held \ {p} /\ status' = [status EXCEPT ![p] = wanted]
          /\ UNCHANGED <<hpc, hpkg, asked, pool, data_package_queue>>
    BY <1>12 DEF Write, AsynWrite
  <2>2. p \in Packages
    BY DEF TypeOK
  <2>3. p \notin pool /\ \A i \in DOMAIN data_package_queue : data_package_queue[i] # p
    BY <2>2, OnePlace
  <2>4. CASE hpkg = p
    BY <1>1, <1>2, <2>1, <2>3, <2>4
  <2>5. CASE hpkg # p
    <3>1. status'[hpkg] = status[hpkg]
      BY <2>1, <2>5 DEF TypeOK
    <3> QED
      BY <1>1, <1>2, <2>1, <3>1
  <2> QED
    BY <2>4, <2>5
<1>13. CASE FindEntry
  <2>1. UNCHANGED <<hpc, hpkg, asked, status, held, data_package_queue>>
    BY <1>13 DEF FindEntry
  <2>2. cached
    BY <1>1, <1>2, <2>1 DEF LifeInv, ListInv, TypeOK
  <2>3. UNCHANGED pool
    BY <1>13, <2>2 DEF FindEntry
  <2> QED
    BY <1>3, <2>1, <2>3
<1>14. CASE ListenForWrite
  BY <1>3, <1>14 DEF ListenForWrite
<1>15. ~Collect
  BY <1>1, <1>2 DEF Collect, LifeInv, TypeOK
<1> QED
  BY <1>4, <1>5, <1>6, <1>7, <1>8, <1>9, <1>10, <1>11, <1>12, <1>13, <1>14, <1>15
  DEF Next, Handler, Application

(***************************************************************************)
(* All of it together is inductive: the places of the packages need the    *)
(* front of the list, the order and the status need the places.            *)
(***************************************************************************)
SendingInv == ConnectionInv /\ PackageInv /\ SendInv

LEMMA SendingStart == Init => SendingInv
<1> SUFFICES ASSUME Init PROVE SendingInv
  OBVIOUS
<1>1. ConnectionInv
  BY ConnectionStart
<1>2. /\ package_list = <<>> /\ data_package_queue = <<>> /\ held = {} /\ apc = "idle"
      /\ pool = Packages /\ apkg = NoPackage /\ hpc = "accept" /\ asked = "KEEP"
      /\ interest = "none" /\ writes = 0 /\ lastSent = 0
  BY DEF Init
<1>3. <<>> \in Seq(Packages) /\ Len(<<>>) = 0 /\ DOMAIN <<>> = {}
  OBVIOUS
<1>4. ASSUME NEW p \in Packages PROVE Places(p) = 1 + Indicator(hpc = "pop" /\ p = hpkg)
  <2>1. Occurrences(<<>>, p) = 0
    BY <1>3, OccurrencesNat
  <2>2. p # NoPackage
    BY ConnectionAssumption
  <2> QED
    BY <1>2, <2>1, <2>2 DEF Places, Indicator
<1>5. PackageInv
  BY <1>2, <1>4 DEF PackageInv, ListInv, PackageAccounted
<1>6. OrderInv
  BY <1>2, <1>3 DEF OrderInv, Indicator
<1>7. AskedInv
  BY <1>2 DEF AskedInv
<1> QED
  BY <1>1, <1>5, <1>6, <1>7 DEF SendingInv, SendInv

LEMMA SendingStep ==
  ASSUME SendingInv, [Next]_vars
  PROVE  SendingInv'
<1>1. TypeOK /\ LifeInv /\ LocalsInv /\ ListInv /\ PackageAccounted /\ OrderInv /\ AskedInv
  BY DEF SendingInv, ConnectionInv, PackageInv, SendInv
<1>2. ConnectionInv' /\ ListInv'
  BY <1>1, LifeStep, TypeStep, ListStep DEF ConnectionInv
<1>3. CASE Next
  <2>1. TypeOK'
    BY <1>2 DEF ConnectionInv
  <2>2. PackageAccounted'
    BY <1>1, <1>3, <2>1, PackageStep DEF PackageAccounted
  <2>3. OrderInv' /\ AskedInv'
    BY <1>1, <1>3, OrderStep, AskedStep
  <2> QED
    BY <1>2, <2>2, <2>3 DEF SendingInv, PackageInv, SendInv
<1>4. CASE UNCHANGED vars
  <2> USE <1>1, <1>4 DEF vars, epollVars, handlerVars, cacheVars, appVars
  <2>1. PackageAccounted'
    BY DEF PackageAccounted, Places, Occurrences
  <2>2. OrderInv'
    BY DEF OrderInv
  <2>3. AskedInv'
    BY DEF AskedInv
  <2> QED
    BY <1>2, <2>1, <2>2, <2>3 DEF SendingInv, PackageInv, SendInv
<1> QED
  BY <1>3, <1>4

LEMMA SendingInvariant == Spec => []SendingInv
<1> QED
  BY SendingStart, SendingStep, PTL DEF Spec

(***************************************************************************)
(* No package is lost or in two hands: each is in the pool, the queue, the *)
(* list, with the application or with read_handler, and in one of them,    *)
(* but for the package that write_handler has put back into p_pool and not *)
(* yet removed from the list. For any number of packages, requests and     *)
(* writes.                                                                 *)
(***************************************************************************)
THEOREM ConnectionPackagesAccounted == Spec => []PackageAccounted
<1>1. SendingInv => PackageAccounted
  BY DEF SendingInv, PackageInv
<1> QED
  BY <1>1, SendingInvariant, PTL

(***************************************************************************)
(* "ensure sequence" (asyn_write): the packages are sent in the order of   *)
(* the calls, none skipped, none twice, although write_handler gives a     *)
(* package away before it removes it from the list.                        *)
(***************************************************************************)
THEOREM ConnectionSendsInOrder == Spec => SentInOrder
<1>1. ASSUME SendingInv, [Next]_vars
      PROVE  lastSent' # lastSent => lastSent' = lastSent + 1
  <2>1. TypeOK /\ LifeInv /\ LocalsInv /\ ListInv /\ OrderInv
    BY <1>1 DEF SendingInv, ConnectionInv, PackageInv, SendInv
  <2>2. CASE SendAll
    <3>1. hpc = "send" /\ lastSent' = stamp[hpkg]
      BY <2>2 DEF SendAll
    <3>2. ~collected
      BY <2>1, <3>1 DEF LifeInv, TypeOK
    <3>3. 1 \in DOMAIN package_list /\ hpkg = package_list[1]
      BY <2>1, <3>1 DEF LocalsInv, ListInv, TypeOK
    <3> QED
      BY <2>1, <3>1, <3>2, <3>3 DEF OrderInv, Indicator, TypeOK
  <2>3. CASE UNCHANGED lastSent
    BY <2>3
  <2>4. SendAll \/ UNCHANGED lastSent
    BY <1>1 DEF Next, Peer, PeerSends, PeerLeaves, Handler, Accept, Report, GetPackage, RecvData,
      RecvError, RecvNothing, FrontPackage, ContinueListen, SendLess, PopFront, TestStatus,
      Application, AsynRead, AcquirePackage, Release, ReleasePackage, Write, AsynWrite, FindEntry,
      ListenForWrite, Collect, vars
  <2> QED
    BY <2>2, <2>3, <2>4
<1>2. SendingInv /\ [Next]_vars => [lastSent' # lastSent => lastSent' = lastSent + 1]_vars
  BY <1>1
<1> QED
  BY <1>2, SendingInvariant, PTL DEF Spec, SentInOrder

(***************************************************************************)
(* A package written with close_connection closes the connection when it   *)
(* has been sent, if it is still in the pool when its status is read: a    *)
(* package taken, written and put back in between could show another       *)
(* status, but what is written stays in the list while a handler works.    *)
(***************************************************************************)
THEOREM ConnectionCloseHonoured == Spec => CloseHonouredUnlessTaken
<1> DEFINE A == hpc = "test" /\ hpc' = "idle" /\ asked = "CLOSE" /\ hpkg \in pool
                  => interest' = "closed"
<1>1. ASSUME SendingInv, [Next]_vars
      PROVE  A
  <2>1. CASE TestStatus
    <3>1. asked = "CLOSE" /\ hpkg \in pool => status[hpkg] = "CLOSE"
      BY <1>1 DEF SendingInv, SendInv, AskedInv
    <3> QED
      BY <2>1, <3>1 DEF TestStatus, CloseConnection
  <2>2. ~TestStatus => hpc # "test" \/ hpc' # "idle"
    BY <1>1 DEF Next, Peer, PeerSends, PeerLeaves, Handler, Accept, Report, GetPackage, RecvData,
      RecvError, RecvNothing, FrontPackage, ContinueListen, SendAll, SendLess, PopFront,
      Application, AsynRead, AcquirePackage, Release, ReleasePackage, Write, AsynWrite, FindEntry,
      ListenForWrite, Collect, vars, handlerVars
  <2> QED
    BY <2>1, <2>2
<1>2. SendingInv /\ [Next]_vars => [A]_vars
  BY <1>1
<1> QED
  BY <1>2, SendingInvariant, PTL DEF Spec, CloseHonouredUnlessTaken
=============================================================================
