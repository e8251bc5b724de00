------------------------------- MODULE Server -------------------------------
(***************************************************************************)
(* The dispatch threads, their package pools and the application together: *)
(* event_loop reports a batch, each thread handles its segment one event   *)
(* after the other, and nothing new is reported before all are done. A     *)
(* handler can stop its thread, and with it the server: read_handler waits *)
(* for a package of the thread's own pool, and send, on a blocking socket, *)
(* for the peer. The packages it waits for may be in the write lists, that *)
(* only the dispatch threads can send.                                     *)
(*                                                                         *)
(* Steady operation: the connections stay open. A package is known by its  *)
(* owner, the pool it is put back into. Peers send at most Window requests *)
(* ahead and read what is sent to them. The barrier is Dispatch's.         *)
(***************************************************************************)
EXTENDS WorkSegment, Sequences, FiniteSets, SequencesExt

CONSTANTS
  Conns,      (* connections, numbers as connection_id: accept_handler      *)
              (* refuses more than MAX_CONNECT - 10                        *)
  Window,     (* of each peer: most requests not answered completely       *)
  PoolSize    (* MAX_DATA_PACKAGE, packages of each thread's pool          *)

ASSUME ServerAssumption ==
  /\ Conns \subseteq Nat
  /\ IsFiniteSet(Conns) /\ Cardinality(Conns) <= MAX_CONNECT
  /\ Window \in [Conns -> Nat] /\ PoolSize \in Nat

VARIABLES
  segment,    (* of each thread: the events it has still to handle         *)
  wpc,        (* of each thread: inside write_handler                      *)
  interest,   (* what epoll watches of each connection, "in" or "out"      *)
  pending,    (* of each peer: requests sent and not answered completely   *)
  arrived,    (* of these: those in the socket                             *)
  p_pool,     (* of each thread: free packages of its pool                 *)
  data_package_queue,
  write_cache,   (* of each connection: list of owners, and whether the    *)
                 (* package is the last one of an answer                   *)
  apc, areq,     (* each application thread: place, and package in hand    *)
  apool          (* the pool acquire_package has picked                    *)

appVars == <<data_package_queue, apc, areq, apool>>
vars == <<segment, wpc, interest, pending, arrived, p_pool, write_cache, appVars>>

None == -1

NoRequest == [conn |-> None, owner |-> None]

Init ==
  /\ segment = [w \in Workers |-> <<>>]
  /\ wpc = [w \in Workers |-> "next"]
  /\ interest = [c \in Conns |-> "in"]
  /\ pending = [c \in Conns |-> 0]
  /\ arrived = [c \in Conns |-> 0]
  /\ p_pool = [w \in Workers |-> PoolSize]
  /\ data_package_queue = [t \in Workers |-> <<>>]
  /\ write_cache = [c \in Conns |-> <<>>]
  /\ apc = [t \in Workers |-> "idle"]
  /\ areq = [t \in Workers |-> NoRequest]
  /\ apool = [t \in Workers |-> None]

Put(pool) == p_pool' = [p_pool EXCEPT ![pool] = @ + 1]
Get(pool) == p_pool[pool] > 0 /\ p_pool' = [p_pool EXCEPT ![pool] = @ - 1]
-----------------------------------------------------------------------------
PeerSends(c) ==
  /\ pending[c] < Window[c]
  /\ pending' = [pending EXCEPT ![c] = @ + 1]
  /\ arrived' = [arrived EXCEPT ![c] = @ + 1]
  /\ UNCHANGED <<segment, wpc, interest, p_pool, write_cache, appVars>>
-----------------------------------------------------------------------------
(***************************************************************************)
(* event_loop and dispatch_worker                                          *)
(***************************************************************************)

(* The thread has handled its segment and closed its bit of the token. *)
Done(w) == segment[w] = <<>>

Readable == {c \in Conns : interest[c] = "in" /\ arrived[c] > 0}
Writing == {c \in Conns : interest[c] = "out"}

(* All threads wait: a new batch of all that is readable and what can be   *)
(* written to, in any order, and all may start.                            *)
EpollWait ==
  /\ \A w \in Workers : Done(w)
  /\ Readable \cup Writing # {}
  /\ \E writable \in SUBSET Writing : \E order \in SetToSeqs(Readable \cup writable) :
       LET events == [k \in DOMAIN order |-> [conn |-> order[k], mode |-> interest[order[k]]]]
           n      == Len(events)
       IN  segment' = [w \in Workers |-> SubSeq(events, SegStart(w, n) + 1, SegEnd(w, n))]
  /\ UNCHANGED <<wpc, interest, pending, arrived, p_pool, write_cache, appVars>>

Handles(w, mode) == ~Done(w) /\ wpc[w] = "next" /\ Head(segment[w]).mode = mode

(* The connection of the event that thread w handles *)
Conn(w) == Head(segment[w]).conn

NextEvent(w) ==
  /\ segment' = [segment EXCEPT ![w] = Tail(@)]
  /\ wpc' = [wpc EXCEPT ![w] = "next"]

(* read_handler: waits for a package, receives, passes it on. *)
ReadHandler(w) ==
  /\ Handles(w, "in")
  /\ Get(w)
  /\ LET c == Conn(w)
     IN  /\ arrived' = [arrived EXCEPT ![c] = @ - 1]
         /\ data_package_queue' =
              [data_package_queue EXCEPT ![c % THREAD_NUM] = Append(@, [conn |-> c, owner |-> w])]
  /\ NextEvent(w)
  /\ UNCHANGED <<interest, pending, write_cache, apc, areq, apool>>

(* write_handler looks at the list, with the mutex. *)
LookAtList(w) ==
  /\ Handles(w, "out")
  /\ wpc' = [wpc EXCEPT ![w] = IF write_cache[Conn(w)] = <<>> THEN "listen" ELSE "send"]
  /\ UNCHANGED <<segment, interest, pending, arrived, p_pool, write_cache, appVars>>

(* mod_fd_in_epoll(..., EPOLLIN), whatever was pushed since *)
ContinueListen(w) ==
  /\ wpc[w] = "listen"
  /\ interest' = [interest EXCEPT ![Conn(w)] = "in"]
  /\ NextEvent(w)
  /\ UNCHANGED <<pending, arrived, p_pool, write_cache, appVars>>

(* Mutant: the package is not put back. *)
SendFrontKeepsPackage(w) ==
  /\ wpc[w] = "send"
  /\ LET c == Conn(w)
     IN  /\ write_cache' = [write_cache EXCEPT ![c] = Tail(@)]
         /\ pending' = [pending EXCEPT ![c] = IF Head(write_cache[c]).last THEN @ - 1 ELSE @]
  /\ NextEvent(w)
  /\ UNCHANGED <<interest, arrived, p_pool, appVars>>

(* send has given everything to the peer: the package goes back to the     *)
(* pool of its owner.                                                      *)
SendFront(w) ==
  /\ wpc[w] = "send"
  /\ LET c == Conn(w)
     IN  /\ Put(Head(write_cache[c]).owner)
         /\ write_cache' = [write_cache EXCEPT ![c] = Tail(@)]
         /\ pending' = [pending EXCEPT ![c] = IF Head(write_cache[c]).last THEN @ - 1 ELSE @]
  /\ NextEvent(w)
  /\ UNCHANGED <<interest, arrived, appVars>>

(* Mutant: the package is put back although it stays in the list. *)
SendPartPutsBack(w) ==
  /\ wpc[w] = "send"
  /\ Put(Head(write_cache[Conn(w)]).owner)
  /\ NextEvent(w)
  /\ UNCHANGED <<interest, pending, arrived, write_cache, appVars>>

(* send has given a part of it, and the rest stays in front. *)
SendPart(w) ==
  /\ wpc[w] = "send"
  /\ NextEvent(w)
  /\ UNCHANGED <<interest, pending, arrived, p_pool, write_cache, appVars>>
-----------------------------------------------------------------------------
(***************************************************************************)
(* The application: one thread for each queue, which answers a request     *)
(* with its package, or with that and an acquired one, or gives it back.   *)
(***************************************************************************)
Goto(t, place) == apc' = [apc EXCEPT ![t] = place]

AsynRead(t) ==
  /\ apc[t] = "idle" /\ data_package_queue[t] # <<>>
  /\ areq' = [areq EXCEPT ![t] = Head(data_package_queue[t])]
  /\ data_package_queue' = [data_package_queue EXCEPT ![t] = Tail(@)]
  /\ Goto(t, "first")
  /\ UNCHANGED <<segment, wpc, interest, pending, arrived, p_pool, write_cache, apool>>

(* Mutant: the package goes to the pool with the thread's number. *)
ReleasePackageOwnPool(t) ==
  /\ apc[t] = "first"
  /\ Put(t)
  /\ pending' = [pending EXCEPT ![areq[t].conn] = @ - 1]
  /\ areq' = [areq EXCEPT ![t] = NoRequest]
  /\ Goto(t, "idle")
  /\ UNCHANGED <<segment, wpc, interest, arrived, write_cache, data_package_queue, apool>>

(* release_package: the request is one of which more is to come. *)
ReleasePackage(t) ==
  /\ apc[t] = "first"
  /\ Put(areq[t].owner)
  /\ pending' = [pending EXCEPT ![areq[t].conn] = @ - 1]
  /\ areq' = [areq EXCEPT ![t] = NoRequest]
  /\ Goto(t, "idle")
  /\ UNCHANGED <<segment, wpc, interest, arrived, write_cache, data_package_queue, apool>>

(* asyn_write under the mutex; a first package may have a second one. *)
AsynWrite(t) ==
  /\ apc[t] \in {"first", "second"}
  /\ \E last \in IF apc[t] = "first" THEN BOOLEAN ELSE {TRUE} :
       /\ write_cache' = [write_cache EXCEPT ![areq[t].conn] =
                            Append(@, [owner |-> areq[t].owner, last |-> last])]
       /\ Goto(t, IF last THEN "armLast" ELSE "arm")
  /\ areq' = [areq EXCEPT ![t].owner = None]
  /\ UNCHANGED <<segment, wpc, interest, pending, arrived, p_pool,
                 data_package_queue, apool>>

(* mod_fd_in_epoll(..., EPOLLOUT); acquire_package picks a pool next.      *)
ListenForWrite(t) ==
  /\ apc[t] \in {"arm", "armLast"}
  /\ interest' = [interest EXCEPT ![areq[t].conn] = "out"]
  /\ IF apc[t] = "arm"
     THEN /\ \E w \in Workers : apool' = [apool EXCEPT ![t] = w]
          /\ Goto(t, "acquire")
          /\ UNCHANGED areq
     ELSE /\ areq' = [areq EXCEPT ![t] = NoRequest]
          /\ Goto(t, "idle")
          /\ UNCHANGED apool
  /\ UNCHANGED <<segment, wpc, pending, arrived, p_pool, write_cache, data_package_queue>>

(* p_pool[rand() % THREAD_NUM].get() waits for a package of that pool. *)
AcquirePackage(t) ==
  /\ apc[t] = "acquire"
  /\ Get(apool[t])
  /\ areq' = [areq EXCEPT ![t].owner = apool[t]]
  /\ apool' = [apool EXCEPT ![t] = None]
  /\ Goto(t, "second")
  /\ UNCHANGED <<segment, wpc, interest, pending, arrived, write_cache, data_package_queue>>
-----------------------------------------------------------------------------
Worker(w) ==
  ReadHandler(w) \/ LookAtList(w) \/ ContinueListen(w) \/ SendFront(w) \/ SendPart(w)

Application(t) ==
  AsynRead(t) \/ ReleasePackage(t) \/ AsynWrite(t) \/ ListenForWrite(t) \/ AcquirePackage(t)

Next ==
  \/ EpollWait
  \/ \E c \in Conns : PeerSends(c)
  \/ \E w \in Workers : Worker(w)
  \/ \E t \in Workers : Application(t)

Spec == Init /\ [][Next]_vars

(* The dispatch threads keep running, and the peers read: send returns.    *)
(* The application need not do anything.                                   *)
FairSpec == Spec /\ \A w \in Workers : WF_vars(Worker(w))
-----------------------------------------------------------------------------
(* Every variable has a value of its kind. *)
TypeOK ==
  /\ \A w \in Workers : segment[w] \in Seq([conn : Conns, mode : {"in", "out"}])
  /\ wpc \in [Workers -> {"next", "listen", "send"}]
  /\ interest \in [Conns -> {"in", "out"}]
  /\ \A c \in Conns : pending[c] \in 0 .. Window[c] /\ arrived[c] \in 0 .. Window[c]
  /\ p_pool \in [Workers -> 0 .. PoolSize]
  /\ \A t \in Workers :
       data_package_queue[t] \in Seq([conn : Conns, owner : Workers])
  /\ \A c \in Conns : write_cache[c] \in Seq([owner : Workers, last : BOOLEAN])
  /\ apc \in [Workers -> {"idle", "first", "arm", "armLast", "acquire", "second"}]
  /\ areq \in [Workers -> [conn : Conns \cup {None}, owner : Workers \cup {None}]]
  /\ apool \in [Workers -> Workers \cup {None}]

(***************************************************************************)
(* Every package is either in the pool of its owner or in one place        *)
(* outside: a queue, an application thread's hands, a list. "package->owner" *)
(* decides where it is put back, whoever took it: the dispatch thread that *)
(* received it, or acquire_package from any pool.                          *)
(***************************************************************************)

(* The places in lists where a member of S is *)
Places(lists, S) ==
  UNION {{<<i, k>> : k \in {j \in DOMAIN lists[i] : lists[i][j] \in S}} : i \in DOMAIN lists}

Outside(o) ==
  Cardinality(Places(data_package_queue, [conn : Conns, owner : {o}]))
  + Cardinality(Places(write_cache, [owner : {o}, last : BOOLEAN]))
  + Cardinality({t \in Workers : areq[t].owner = o})

PackagesAccounted == \A o \in Workers : p_pool[o] + Outside(o) = PoolSize

(***************************************************************************)
(* "waiting for job finish" (event_loop): every batch comes to its end. A  *)
(* thread can wait in the middle of its segment for a package that only a  *)
(* later batch would free. With two packages for each request that can be  *)
(* under way but the one it reads, and one for that, it does not, whatever *)
(* pool the application acquires its packages from, even if it stops.      *)
(***************************************************************************)
BatchEnds == (\E w \in Workers : ~Done(w)) ~> (\A w \in Workers : Done(w))
=============================================================================
