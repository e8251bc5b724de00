---------------------------- MODULE Connections ----------------------------
(***************************************************************************)
(* Several connections of async_event_processor_tcp, and what they share:  *)
(* descriptors and connection_info structs that are used again, the lists  *)
(* of write_cache under a connection_id that need not be unique, the one   *)
(* static epoll_event of mod_fd_in_epoll, garbage_can and the collector.   *)
(*                                                                         *)
(* Connection looks at one of them more closely. Here a package is the     *)
(* request or an answer in it, of which there may be several, and there    *)
(* are always enough of them (Server is about their number). A batch of    *)
(* events is handled to its end before the next one is reported, and its   *)
(* handlers run concurrently (Dispatch). i_pool is the pool of the         *)
(* dispatch thread that accepts.                                           *)
(*                                                                         *)
(* connection is numbered as it is accepted; the numbers are history. The  *)
(* sockets, epoll and the clients are external.                            *)
(***************************************************************************)
EXTENDS Integers, Sequences, FiniteSets, Functions

CONSTANTS
  NumFds,         (* accept finds that many descriptors                    *)
  NumInfos,       (* size of i_pool                                        *)
  Ids,            (* the values connection_id takes                        *)
  THREAD_NUM,     (* application threads, one for each queue               *)
  ConnectLimit,   (* MAX_CONNECT - 10                                      *)
  SizeMod,        (* a size_t ranges over 0 .. SizeMod-1                   *)
  GARBAGE_LIMIT,
  MaxConns,       (* bound: that many connections are accepted             *)
  MaxRequests,    (* bound: that many packages are received or acquired    *)
  MaxDisturbances (* bound: see Followed                                   *)

ASSUME ConnectionsAssumption ==
  /\ NumFds \in Nat /\ NumInfos \in Nat
  /\ Ids \subseteq Nat
  /\ THREAD_NUM \in Nat \ {0}
  /\ SizeMod \in Nat /\ ConnectLimit \in 0 .. SizeMod - 1
  /\ GARBAGE_LIMIT \in Nat \ {0}
  /\ MaxConns \in Nat /\ MaxRequests \in Nat /\ MaxDisturbances \in Nat

Fds == 1 .. NumFds            (* 0 stands for no descriptor                *)
Infos == 1 .. NumInfos        (* 0 stands for no connection_info           *)
Apps == 0 .. THREAD_NUM - 1
AllIds == Ids \cup {0}        (* a connection_info is made with id 0       *)

VARIABLES
  sock,            (* of each descriptor: its connection, 0 when closed    *)
  registered,      (* epoll: mode and data.ptr of each descriptor in it    *)
  fd,              (* of each connection_info                              *)
  connection_id,   (* of each connection_info                              *)
  i_pool, garbage_can,
  garbage_num,     (* what is left of the collector's round                *)
  write_cache,     (* lists of answers, a map with domain in Ids           *)
  active_connect_num,
  apc, afd, ainfo, (* accept_handler: place and locals                     *)
  hpc, hinfo,      (* the handler of each reported descriptor, and the     *)
                   (* data.ptr it was reported with                        *)
  hans,            (* the answer it sends                                  *)
  data_package_queue,
  tpc, treq,       (* each application thread: place, package in hand with *)
                   (* the connection it is for                             *)
  targs,           (* what it calls mod_fd_in_epoll with                   *)
  event,           (* the static epoll_event of mod_fd_in_epoll            *)
  conns,           (* history: connections accepted so far                 *)
  reqs,            (* history: packages received or acquired so far        *)
  disturbed,       (* history: what has gone wrong so far, see below       *)
  misdelivered     (* history: an answer went to another connection        *)

acceptVars  == <<apc, afd, ainfo>>
handlerVars == <<hpc, hinfo, hans>>
appVars     == <<data_package_queue, tpc, treq, targs>>
gcVars      == <<i_pool, garbage_can, garbage_num>>
infoVars    == <<fd, connection_id>>
historyVars == <<conns, reqs, disturbed, misdelivered>>
vars == <<sock, registered, infoVars, gcVars, write_cache, active_connect_num,
          acceptVars, handlerVars, appVars, event, historyVars>>

NoRequest == [n |-> 0, conn |-> 0, info |-> 0]
NoAnswer  == [n |-> 0, conn |-> 0, close |-> FALSE]
NoArgs    == [fd |-> 0, info |-> 0]
NoEvent   == [mode |-> "in", info |-> 0]

(* asyn_read(idx) of the application threads reads the queue that          *)
(* connection_id % THREAD_NUM selects.                                     *)
AppOf(id) == id % THREAD_NUM

Init ==
  /\ sock = [f \in Fds |-> 0]
  /\ registered = <<>>
  /\ fd = [i \in Infos |-> -1]
  /\ connection_id = [i \in Infos |-> 0]
  /\ i_pool = [i \in Infos |-> i]
  /\ garbage_can = <<>> /\ garbage_num = 0
  /\ write_cache = <<>>
  /\ active_connect_num = 0
  /\ apc = "idle" /\ afd = 0 /\ ainfo = 0
  /\ hpc = [f \in Fds |-> "idle"]
  /\ hinfo = [f \in Fds |-> 0]
  /\ hans = [f \in Fds |-> NoAnswer]
  /\ data_package_queue = [t \in Apps |-> <<>>]
  /\ tpc = [t \in Apps |-> "idle"]
  /\ treq = [t \in Apps |-> NoRequest]
  /\ targs = [t \in Apps |-> NoArgs]
  /\ event = NoEvent
  /\ conns = 0 /\ reqs = 0 /\ disturbed = {} /\ misdelivered = FALSE

(* A behaviour is followed to the end of the batch, and of the calls, in   *)
(* which more than MaxDisturbances kinds of disturbances have occurred.    *)
Followed == Cardinality(disturbed) <= MaxDisturbances
-----------------------------------------------------------------------------
(***************************************************************************)
(* A batch: epoll_wait reports descriptors with what they are registered   *)
(* with at that moment, and the listening socket when a client waits.      *)
(***************************************************************************)
EpollWait ==
  /\ Followed
  /\ apc = "idle" /\ \A f \in Fds : hpc[f] = "idle"
  /\ \E ready \in SUBSET DOMAIN registered, client \in BOOLEAN :
       /\ ready # {} \/ client
       /\ client => conns < MaxConns
       /\ apc' = IF client THEN "accept" ELSE "idle"
       /\ hpc' = [f \in Fds |->
                    IF f \notin ready THEN "idle"
                    ELSE IF registered[f].mode = "in" THEN "read" ELSE "write"]
       /\ hinfo' = [f \in Fds |-> IF f \in ready THEN registered[f].info ELSE 0]
  /\ UNCHANGED <<sock, registered, infoVars, gcVars, write_cache, active_connect_num,
                 afd, ainfo, hans, appVars, event, historyVars>>
-----------------------------------------------------------------------------
(***************************************************************************)
(* accept_handler                                                          *)
(***************************************************************************)

(* The limit is reached, or accept fails. *)
TurnAway ==
  /\ apc = "accept"
  /\ apc' = "idle"
  /\ UNCHANGED <<sock, registered, infoVars, gcVars, write_cache, active_connect_num,
                 afd, ainfo, handlerVars, appVars, event, historyVars>>

(* accept gives the lowest descriptor that is free. *)
AcceptClient ==
  /\ apc = "accept" /\ active_connect_num < ConnectLimit
  /\ \E f \in Fds :
       /\ sock[f] = 0 /\ \A g \in Fds : sock[g] = 0 => f <= g
       /\ sock' = [sock EXCEPT ![f] = conns + 1]
       /\ afd' = f
  /\ conns' = conns + 1
  /\ apc' = "get"
  /\ UNCHANGED <<registered, infoVars, gcVars, write_cache, active_connect_num, ainfo,
                 handlerVars, appVars, event, reqs, disturbed, misdelivered>>

(* Connections that have an entry in write_cache of their own: those that  *)
(* are open and those not yet collected.                                   *)
Users(id) ==
  {i \in Infos : /\ connection_id[i] = id
                 /\ \/ \E f \in DOMAIN registered : registered[f].info = i
                    \/ \E k \in DOMAIN garbage_can : garbage_can[k] = i}

(* What write_cache[id] refers to, and the map when it has made an entry,  *)
(* with an empty list, if there is none. emplace leaves the same map.      *)
ListOf(id) == IF id \in DOMAIN write_cache THEN write_cache[id] ELSE <<>>
WithEntry(id) == [j \in DOMAIN write_cache \cup {id} |-> ListOf(j)]

(* Mutant: a recycled connection_info keeps its connection_id. *)
TakeInfoOldId ==
  /\ apc = "get" /\ i_pool # <<>>
  /\ ainfo' = Head(i_pool)
  /\ i_pool' = Tail(i_pool)
  /\ \E id \in Ids :
       /\ write_cache' = WithEntry(id)
       /\ disturbed' = IF Users(id) # {} THEN disturbed \cup {"shared"} ELSE disturbed
  /\ fd' = [fd EXCEPT ![ainfo'] = afd]
  /\ apc' = "add"
  /\ UNCHANGED <<sock, registered, connection_id, garbage_can, garbage_num,
                 active_connect_num, afd, handlerVars, appVars, event, conns, reqs,
                 misdelivered>>

(* Mutant: no list is made. *)
TakeInfoNoList ==
  /\ apc = "get" /\ i_pool # <<>>
  /\ ainfo' = Head(i_pool)
  /\ i_pool' = Tail(i_pool)
  /\ \E id \in Ids :
       /\ connection_id' = [connection_id EXCEPT ![ainfo'] = id]
       /\ disturbed' = IF Users(id) # {} THEN disturbed \cup {"shared"} ELSE disturbed
  /\ fd' = [fd EXCEPT ![ainfo'] = afd]
  /\ apc' = "add"
  /\ UNCHANGED <<sock, registered, garbage_can, garbage_num, write_cache,
                 active_connect_num, afd, handlerVars, appVars, event, conns, reqs,
                 misdelivered>>

(* i_pool[thread_id].get() waits for a connection_info, which is filled    *)
(* in. emplace makes a list if there is no entry for connection_id.        *)
TakeInfo ==
  /\ apc = "get" /\ i_pool # <<>>
  /\ ainfo' = Head(i_pool)
  /\ i_pool' = Tail(i_pool)
  /\ \E id \in Ids :
       /\ connection_id' = [connection_id EXCEPT ![ainfo'] = id]
       /\ write_cache' = WithEntry(id)
       /\ disturbed' = IF Users(id) # {} THEN disturbed \cup {"shared"} ELSE disturbed
  /\ fd' = [fd EXCEPT ![ainfo'] = afd]
  /\ apc' = "add"
  /\ UNCHANGED <<sock, registered, garbage_can, garbage_num, active_connect_num, afd,
                 handlerVars, appVars, event, conns, reqs, misdelivered>>

LeaveAccept == apc' = "idle" /\ afd' = 0 /\ ainfo' = 0

(* Mutant: the descriptor is gone when it is given to epoll. *)
AddToEpollNoFd ==
  /\ apc = "add"
  /\ LeaveAccept
  /\ registered' = [g \in DOMAIN registered \cup {afd'} |->
                      IF g = afd' THEN [mode |-> "in", info |-> ainfo] ELSE registered[g]]
  /\ active_connect_num' = (active_connect_num + 1) % SizeMod
  /\ UNCHANGED <<sock, infoVars, gcVars, write_cache, handlerVars, appVars, event,
                 historyVars>>

(* add_fd_to_epoll, whose epoll_event nobody else uses *)
AddToEpoll ==
  /\ apc = "add"
  /\ registered' = [g \in DOMAIN registered \cup {afd} |->
                      IF g = afd THEN [mode |-> "in", info |-> ainfo] ELSE registered[g]]
  /\ active_connect_num' = (active_connect_num + 1) % SizeMod
  /\ LeaveAccept
  /\ UNCHANGED <<sock, infoVars, gcVars, write_cache, handlerVars, appVars, event,
                 historyVars>>

(* Mutant: connection_info is not recycled. *)
AddFailsKeepsInfo ==
  /\ apc = "add"
  /\ sock' = [sock EXCEPT ![afd] = 0]
  /\ LeaveAccept
  /\ UNCHANGED <<registered, infoVars, gcVars, write_cache,
                 active_connect_num, handlerVars, appVars, event, historyVars>>

(* Mutant: the connection is counted nevertheless. *)
AddFailsCounted ==
  /\ apc = "add"
  /\ sock' = [sock EXCEPT ![afd] = 0]
  /\ garbage_can' = Append(garbage_can, ainfo)
  /\ active_connect_num' = (active_connect_num + 1) % SizeMod
  /\ LeaveAccept
  /\ UNCHANGED <<registered, infoVars, i_pool, garbage_num, write_cache, handlerVars,
                 appVars, event, historyVars>>

(* epoll does not take the descriptor, and the resources are recycled. *)
AddFails ==
  /\ apc = "add"
  /\ sock' = [sock EXCEPT ![afd] = 0]
  /\ garbage_can' = Append(garbage_can, ainfo)
  /\ LeaveAccept
  /\ UNCHANGED <<registered, infoVars, i_pool, garbage_num, write_cache,
                 active_connect_num, handlerVars, appVars, event, historyVars>>
-----------------------------------------------------------------------------
(***************************************************************************)
(* read_handler and write_handler for the event of descriptor f, which     *)
(* work on the descriptor of hinfo[f]                                      *)
(***************************************************************************)

LeaveHandler(f) ==
  /\ hpc' = [hpc EXCEPT ![f] = "idle"]
  /\ hinfo' = [hinfo EXCEPT ![f] = 0]
  /\ hans' = [hans EXCEPT ![f] = NoAnswer]

(* Both handlers: active_connect_num, del_fd_from_epoll, close, garbage_can *)
CloseConnection(i) ==
  /\ active_connect_num' = (active_connect_num - 1) % SizeMod
  /\ registered' = Restrict(registered, DOMAIN registered \ {fd[i]})
  /\ sock' = [g \in Fds |-> IF g = fd[i] THEN 0 ELSE sock[g]]
  /\ garbage_can' = Append(garbage_can, i)

(* recv gives data; or it fails, which counts as data. *)
RecvData(f) ==
  /\ hpc[f] = "read" /\ reqs < MaxRequests
  /\ reqs' = reqs + 1
  /\ LET i == hinfo[f]
     IN  data_package_queue' =
           [data_package_queue EXCEPT ![AppOf(connection_id[i])] =
              Append(@, [n |-> reqs', conn |-> sock[fd[i]], info |-> i])]
  /\ LeaveHandler(f)
  /\ UNCHANGED <<sock, registered, infoVars, gcVars, write_cache, active_connect_num,
                 acceptVars, tpc, treq, targs, event, conns, disturbed, misdelivered>>

(* recv gives 0, the client has closed the connection. *)
RecvNothing(f) ==
  /\ hpc[f] = "read"
  /\ CloseConnection(hinfo[f])
  /\ LeaveHandler(f)
  /\ UNCHANGED <<infoVars, i_pool, garbage_num, write_cache, acceptVars, appVars, event,
                 historyVars>>

FrontPackage(f) ==
  /\ hpc[f] = "write"
  /\ LET id == connection_id[hinfo[f]]
     IN  /\ write_cache' = WithEntry(id)
         /\ IF ListOf(id) = <<>>
            THEN hpc' = [hpc EXCEPT ![f] = "listen"] /\ UNCHANGED hans
            ELSE /\ hpc' = [hpc EXCEPT ![f] = "send"]
                 /\ hans' = [hans EXCEPT ![f] = Head(ListOf(id))]
  /\ UNCHANGED <<sock, registered, infoVars, gcVars, active_connect_num, acceptVars,
                 hinfo, appVars, event, historyVars>>

(* send takes all of the package, which then leaves the list, or a part of *)
(* it, or fails because the client is gone. After an error, and whenever   *)
(* the package says CLOSE, the connection is closed.                       *)
SendPackage(f) ==
  /\ hpc[f] = "send"
  /\ LET i    == hinfo[f]
         id   == connection_id[i]
         rest == [write_cache EXCEPT ![id] = Tail(@)]
     IN  \E sent \in {"all", "part", "error"} :
           /\ sock[fd[i]] = 0 => sent = "error"
           /\ misdelivered' = (misdelivered \/ (sent # "error" /\ sock[fd[i]] # hans[f].conn))
           /\ write_cache' = IF sent = "all" /\ ListOf(id) # <<>> THEN rest ELSE write_cache
           /\ IF sent = "error" \/ hans[f].close
              THEN CloseConnection(i)
              ELSE UNCHANGED <<sock, registered, active_connect_num, garbage_can>>
  /\ LeaveHandler(f)
  /\ UNCHANGED <<infoVars, i_pool, garbage_num, acceptVars, appVars, event, conns, reqs,
                 disturbed>>
-----------------------------------------------------------------------------
(***************************************************************************)
(* mod_fd_in_epoll: the caller fills in the static event, then epoll reads *)
(* it, which another caller may have filled in meanwhile. Nobody looks     *)
(* whether the descriptor is still with epoll.                             *)
(***************************************************************************)
FillEvent(mode, i) == event' = [mode |-> mode, info |-> i]

(* The callers between the two steps; after the last one the contents of   *)
(* the event are of no more use.                                           *)
Callers ==
  Cardinality({f \in Fds : hpc[f] = "ctl"}) + Cardinality({t \in Apps : tpc[t] = "ctl"})

ControlEpoll(g) ==
  /\ registered' = IF g \in DOMAIN registered THEN [registered EXCEPT ![g] = event]
                                              ELSE registered
  /\ event' = IF Callers = 1 THEN NoEvent ELSE event

Mixed(g, filled) == IF g \in DOMAIN registered /\ event # filled THEN {"mixed"} ELSE {}

(* write_handler has found no package: mod_fd_in_epoll(..., EPOLLIN) *)
ListenFill(f) ==
  /\ hpc[f] = "listen"
  /\ FillEvent("in", hinfo[f])
  /\ hpc' = [hpc EXCEPT ![f] = "ctl"]
  /\ UNCHANGED <<sock, registered, infoVars, gcVars, write_cache, active_connect_num,
                 acceptVars, hinfo, hans, appVars, historyVars>>

ListenControl(f) ==
  /\ hpc[f] = "ctl"
  /\ LET g == fd[hinfo[f]]
     IN  /\ ControlEpoll(g)
         /\ disturbed' = disturbed \cup Mixed(g, [mode |-> "in", info |-> hinfo[f]])
  /\ LeaveHandler(f)
  /\ UNCHANGED <<sock, infoVars, gcVars, write_cache, active_connect_num, acceptVars,
                 appVars, conns, reqs, misdelivered>>
-----------------------------------------------------------------------------
(***************************************************************************)
(* The application                                                         *)
(***************************************************************************)

Goto(t, place) == tpc' = [tpc EXCEPT ![t] = place]

LeaveWrite(t) ==
  /\ Goto(t, "idle")
  /\ treq' = [treq EXCEPT ![t] = NoRequest]
  /\ targs' = [targs EXCEPT ![t] = NoArgs]
  /\ UNCHANGED reqs

(* acquire_package(connection): the application writes another package to  *)
(* the connection of the request, which it read when it got that.          *)
AcquirePackage(t) ==
  /\ reqs < MaxRequests
  /\ reqs' = reqs + 1
  /\ Goto(t, "find")
  /\ treq' = [treq EXCEPT ![t] = [n |-> reqs', conn |-> treq[t].conn, info |-> treq[t].info]]
  /\ targs' = [targs EXCEPT ![t] = NoArgs]

AfterWrite(t) == LeaveWrite(t) \/ AcquirePackage(t)

AsynRead(t) ==
  /\ Followed
  /\ tpc[t] = "idle" /\ data_package_queue[t] # <<>>
  /\ treq' = [treq EXCEPT ![t] = Head(data_package_queue[t])]
  /\ data_package_queue' = [data_package_queue EXCEPT ![t] = Tail(@)]
  /\ Goto(t, "find")
  /\ UNCHANGED <<sock, registered, infoVars, gcVars, write_cache, active_connect_num,
                 acceptVars, handlerVars, targs, event, historyVars>>

Open(conn) == \E f \in Fds : sock[f] = conn

(* Mutant: push_front. *)
FindEntryPushFront(t) ==
  /\ tpc[t] = "find"
  /\ \E close \in BOOLEAN :
       LET id == connection_id[treq[t].info]
           answer == [n |-> treq[t].n, conn |-> treq[t].conn, close |-> close]
       IN  IF id \in DOMAIN write_cache
           THEN /\ write_cache' = [write_cache EXCEPT ![id] = <<answer>> \o @]
                /\ disturbed' = IF Open(treq[t].conn) THEN disturbed
                                                      ELSE disturbed \cup {"late"}
                /\ Goto(t, "arm")
                /\ UNCHANGED <<treq, targs, reqs>>
           ELSE AfterWrite(t) /\ UNCHANGED <<write_cache, disturbed>>
  /\ UNCHANGED <<sock, registered, infoVars, gcVars, active_connect_num, acceptVars,
                 handlerVars, data_package_queue, event, conns, misdelivered>>

(* asyn_write under the mutex; connection_id is the one that the struct    *)
(* has now. The answer joins the list if there is an entry ("connection    *)
(* still alive"), and is dropped otherwise.                                *)
FindEntry(t) ==
  /\ tpc[t] = "find"
  /\ \E close \in BOOLEAN :
       LET id == connection_id[treq[t].info]
           answer == [n |-> treq[t].n, conn |-> treq[t].conn, close |-> close]
       IN  IF id \in DOMAIN write_cache
           THEN /\ write_cache' = [write_cache EXCEPT ![id] = Append(@, answer)]
                /\ disturbed' = IF Open(treq[t].conn) THEN disturbed
                                                      ELSE disturbed \cup {"late"}
                /\ Goto(t, "arm")
                /\ UNCHANGED <<treq, targs, reqs>>
           ELSE AfterWrite(t) /\ UNCHANGED <<write_cache, disturbed>>
  /\ UNCHANGED <<sock, registered, infoVars, gcVars, active_connect_num, acceptVars,
                 handlerVars, data_package_queue, event, conns, misdelivered>>

(* release_package instead of an answer *)
ReleasePackage(t) ==
  /\ tpc[t] = "find"
  /\ LeaveWrite(t)
  /\ UNCHANGED <<sock, registered, infoVars, gcVars, write_cache, active_connect_num,
                 acceptVars, handlerVars, data_package_queue, event, conns, disturbed,
                 misdelivered>>

(* The answer has left the list, and its package is free for others. *)
GivenBack(n) ==
  /\ \A f \in Fds : hans[f].n # n
  /\ \A id \in DOMAIN write_cache :
       \A k \in DOMAIN write_cache[id] : write_cache[id][k].n # n

(* package->connect, read when the package was given away already: if it   *)
(* was sent meanwhile, read_handler may have used it for another.          *)
Connect(t) ==
  {treq[t].info}
  \cup (IF GivenBack(treq[t].n) THEN {registered[f].info : f \in DOMAIN registered}
                               ELSE {})

(* mod_fd_in_epoll(package->connect->fd, package->connect, EPOLLOUT)       *)
ArmFill(t) ==
  /\ tpc[t] = "arm"
  /\ \E i \in Connect(t) :
       /\ FillEvent("out", i)
       /\ targs' = [targs EXCEPT ![t] = [fd |-> fd[i], info |-> i]]
  /\ Goto(t, "ctl")
  /\ UNCHANGED <<sock, registered, infoVars, gcVars, write_cache, active_connect_num,
                 acceptVars, handlerVars, data_package_queue, treq, historyVars>>

(* Late if the descriptor belongs to another connection than its           *)
(* connection_info by now.                                                 *)
ArmControl(t) ==
  /\ tpc[t] = "ctl"
  /\ LET g == targs[t].fd
         i == targs[t].info
     IN  /\ ControlEpoll(g)
         /\ disturbed' = disturbed \cup Mixed(g, [mode |-> "out", info |-> i])
              \cup (IF g \in DOMAIN registered /\ registered[g].info # i THEN {"late"} ELSE {})
  /\ AfterWrite(t)
  /\ UNCHANGED <<sock, infoVars, gcVars, write_cache, active_connect_num, acceptVars,
                 handlerVars, data_package_queue, conns, misdelivered>>
-----------------------------------------------------------------------------
(***************************************************************************)
(* connection_resource_gc: a round begins when there are GARBAGE_LIMIT     *)
(* pieces of garbage, and takes as many as there were.                     *)
(***************************************************************************)
(* Mutant: a round begins above the limit. *)
BeginRoundAbove ==
  /\ garbage_num = 0
  /\ Len(garbage_can) > GARBAGE_LIMIT
  /\ garbage_num' = Len(garbage_can)
  /\ UNCHANGED <<sock, registered, infoVars, i_pool, garbage_can, write_cache,
                 active_connect_num, acceptVars, handlerVars, appVars, event, historyVars>>

BeginRound ==
  /\ garbage_num = 0
  /\ Len(garbage_can) >= GARBAGE_LIMIT
  /\ garbage_num' = Len(garbage_can)
  /\ UNCHANGED <<sock, registered, infoVars, i_pool, garbage_can, write_cache,
                 active_connect_num, acceptVars, handlerVars, appVars, event, historyVars>>

(* Mutant: the pending answers stay. *)
CollectKeepsList ==
  /\ garbage_num > 0 /\ garbage_can # <<>>
  /\ i_pool' = Append(i_pool, Head(garbage_can))
  /\ garbage_can' = Tail(garbage_can)
  /\ garbage_num' = garbage_num - 1
  /\ UNCHANGED <<sock, registered, infoVars, write_cache, active_connect_num, acceptVars,
                 handlerVars, appVars, event, historyVars>>

(* The pending answers are dropped and the entry is erased, unless the     *)
(* list is empty: write_cache[connection_id] has an entry then.            *)
Collect ==
  /\ garbage_num > 0 /\ garbage_can # <<>>
  /\ LET i  == Head(garbage_can)
         id == connection_id[i]
     IN  /\ write_cache' = IF ListOf(id) = <<>>
                           THEN WithEntry(id)
                           ELSE Restrict(write_cache, DOMAIN write_cache \ {id})
         /\ i_pool' = Append(i_pool, i)
  /\ garbage_can' = Tail(garbage_can)
  /\ garbage_num' = garbage_num - 1
  /\ UNCHANGED <<sock, registered, infoVars, active_connect_num, acceptVars, handlerVars,
                 appVars, event, historyVars>>
-----------------------------------------------------------------------------
AcceptHandler == TurnAway \/ AcceptClient \/ TakeInfo \/ AddToEpoll \/ AddFails

Handler(f) ==
  \/ RecvData(f) \/ RecvNothing(f) \/ FrontPackage(f) \/ SendPackage(f)
  \/ ListenFill(f) \/ ListenControl(f)

Application(t) ==
  AsynRead(t) \/ FindEntry(t) \/ ReleasePackage(t) \/ ArmFill(t) \/ ArmControl(t)

Collector == BeginRound \/ Collect

Next ==
  \/ EpollWait \/ AcceptHandler \/ Collector
  \/ \E f \in Fds : Handler(f)
  \/ \E t \in Apps : Application(t)

Spec == Init /\ [][Next]_vars

(* The thread in accept_handler and the collector keep running. *)
FairSpec == Spec /\ WF_vars(AcceptHandler) /\ WF_vars(Collector)
-----------------------------------------------------------------------------
(* Every variable has a value of its kind. *)
TypeOK ==
  /\ sock \in [Fds -> 0 .. MaxConns]
  /\ DOMAIN registered \subseteq Fds
  /\ \A f \in DOMAIN registered : registered[f].mode \in {"in", "out"}
  /\ \A f \in DOMAIN registered : registered[f].info \in Infos
  /\ fd \in [Infos -> Int] /\ connection_id \in [Infos -> AllIds]
  /\ i_pool \in Seq(Infos) /\ garbage_can \in Seq(Infos) /\ garbage_num \in Nat
  /\ DOMAIN write_cache \subseteq AllIds
  /\ active_connect_num \in 0 .. SizeMod - 1
  /\ apc \in {"idle", "accept", "get", "add"}
  /\ disturbed \subseteq {"shared", "late", "mixed"}

(***************************************************************************)
(* What disturbs connections that have nothing to do with each other:      *)
(* "shared", a client is accepted under the connection_id of another that  *)
(* is open or not yet collected; "late", asyn_write is called for a        *)
(* connection that is closed by then, and finds an entry or a descriptor   *)
(* with another's connection_info; "mixed", two callers of mod_fd_in_epoll *)
(* fill in the static event one after the other.                           *)
(***************************************************************************)
Undisturbed == disturbed = {}

(***************************************************************************)
(* asyn_write "check[s] if connection still alive": whatever is sent, in   *)
(* whole or in part, goes to the connection whose request it answers.      *)
(***************************************************************************)
AnswersReachAsker == ~misdelivered

(***************************************************************************)
(* The three disturbances are the only ways to another client's socket:    *)
(* descriptors and connection_info structs that are used again, ids that   *)
(* come again and entries left behind by collected connections do no harm. *)
(***************************************************************************)
AnswersReachAskerUndisturbed == Undisturbed => AnswersReachAsker

Occurrences(s, e) == Cardinality({k \in DOMAIN s : s[k] = e})

Registered(i) == {f \in DOMAIN registered : registered[f].info = i}

(***************************************************************************)
(* "remember put it back after connection close" (accept_handler): each    *)
(* connection_info is in exactly one place, in the pool, in garbage_can,   *)
(* with accept_handler, or as data.ptr of the one descriptor that it       *)
(* names, which is open. active_connect_num is the number of those, though *)
(* both handlers and the failure of add_fd_to_epoll end a connection.      *)
(***************************************************************************)
ConnectionsAccounted ==
  Undisturbed =>
    /\ \A i \in Infos :
         /\ Occurrences(i_pool, i) + Occurrences(garbage_can, i)
              + Cardinality(Registered(i)) + (IF ainfo = i THEN 1 ELSE 0) = 1
         /\ \A f \in Registered(i) : fd[i] = f /\ sock[f] # 0
    /\ active_connect_num = Cardinality(DOMAIN registered)
    /\ active_connect_num <= ConnectLimit

(***************************************************************************)
(* A connection in epoll has its entry in write_cache, although entries    *)
(* are erased under an id that comes again: otherwise asyn_write drops the *)
(* answer as one for a closed connection. And a list that is not empty     *)
(* belongs to a connection that is open or still to be collected ("cancle  *)
(* all pending work"), so that its packages are sent or come back.         *)
(***************************************************************************)
EntriesMatchConnections ==
  Undisturbed =>
    /\ \A f \in DOMAIN registered : connection_id[registered[f].info] \in DOMAIN write_cache
    /\ \A id \in DOMAIN write_cache : write_cache[id] # <<>> => Users(id) # {}

(***************************************************************************)
(* write_handler keeps a reference to the list and the front package while *)
(* it sends without the mutex: the entry is not erased meanwhile, and the  *)
(* package that pop_front removes afterwards is the one that was sent.     *)
(***************************************************************************)
FrontStays ==
  Undisturbed =>
    \A f \in Fds :
      hpc[f] = "send" =>
        LET id == connection_id[hinfo[f]]
        IN  ListOf(id) # <<>> /\ Head(ListOf(id)) = hans[f]

(***************************************************************************)
(* accept_handler does not wait for a connection_info for ever, and the    *)
(* whole batch with it, as long as the open connections leave GARBAGE_LIMIT*)
(* of the pool: the others are in the pool or are enough garbage for the   *)
(* collector to begin.                                                     *)
(***************************************************************************)
AcceptGoesOn ==
  apc = "get" /\ Cardinality(DOMAIN registered) + GARBAGE_LIMIT <= NumInfos
    ~> apc # "get" \/ ~Undisturbed
=============================================================================
