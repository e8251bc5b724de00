------------------------- MODULE ConnectionsProofs -------------------------
(***************************************************************************)
(* What the connections of async_event_processor_tcp share, for any number *)
(* of descriptors, connection_info structs, ids, threads and clients:      *)
(* types; and, until one of the three disturbances has happened, that no   *)
(* connection_info is lost, that entries and lists belong to connections,  *)
(* and that every answer goes to the client whose request it answers.      *)
(***************************************************************************)
EXTENDS Connections, FiniteSetTheorems, SequenceTheorems, TLAPS

(* The connection_info structs that name a descriptor; the others have     *)
(* never left i_pool.                                                      *)
Taken == {i \in Infos : fd[i] \in Fds}

Requests == [n : Nat, conn : Nat, info : Taken]
Answers  == [n : Nat, conn : Nat, close : BOOLEAN]
Args     == [fd : Int, info : 0 .. NumInfos]

(* Where a thread is says which of its locals are in use.                  *)
LocalsOK ==
  /\ afd \in 0 .. NumFds /\ ainfo \in 0 .. NumInfos
  /\ apc \in {"get", "add"} => afd \in Fds
  /\ apc = "add" => ainfo \in Taken
  /\ hpc \in [Fds -> {"idle", "read", "write", "listen", "send", "ctl"}]
  /\ hinfo \in [Fds -> 0 .. NumInfos] /\ hans \in [Fds -> Answers]
  /\ \A f \in Fds : hpc[f] # "idle" => hinfo[f] \in Taken
  /\ tpc \in [Apps -> {"idle", "find", "arm", "ctl"}]
  /\ treq \in [Apps -> [n : Nat, conn : Nat, info : 0 .. NumInfos]] /\ targs \in [Apps -> Args]
  /\ \A t \in Apps : tpc[t] # "idle" => treq[t].info \in Taken

(* Between the two steps of mod_fd_in_epoll the event is filled in: when   *)
(* it is emptied no other caller is between them.                          *)
EventOK ==
  /\ event \in [mode : {"in", "out"}, info : 0 .. NumInfos]
  /\ (\E f \in Fds : hpc[f] = "ctl") \/ (\E t \in Apps : tpc[t] = "ctl") => event.info \in Taken

QueuesOK ==
  /\ \A f \in DOMAIN registered : registered[f].info \in Taken
  /\ data_package_queue \in [Apps -> Seq(Requests)]
  /\ \A id \in DOMAIN write_cache : write_cache[id] \in Seq(Answers)
  /\ reqs \in Nat /\ conns \in 0 .. MaxConns
  /\ apc = "accept" => conns < MaxConns

SharedTypes == TypeOK /\ LocalsOK /\ EventOK /\ QueuesOK
-----------------------------------------------------------------------------
(* Queues in which nothing occurs twice                                    *)
LEMMA AppendDistinct ==
  ASSUME NEW S, NEW s \in Seq(S), NEW x \in S, IsInjective(s), x \notin Range(s)
  PROVE  /\ Append(s, x) \in Seq(S) /\ IsInjective(Append(s, x))
         /\ Range(Append(s, x)) = Range(s) \cup {x}
<1>1. /\ Append(s, x) \in Seq(S) /\ Len(s) \in Nat /\ DOMAIN s = 1 .. Len(s)
      /\ DOMAIN Append(s, x) = 1 .. Len(s) + 1
      /\ \A k \in 1 .. Len(s) : Append(s, x)[k] = s[k]
      /\ Append(s, x)[Len(s) + 1] = x
  OBVIOUS
<1>2. \A k \in 1 .. Len(s) + 1 : k \in 1 .. Len(s) \/ k = Len(s) + 1
  BY <1>1
<1>3. \A k \in 1 .. Len(s) : s[k] # x
  BY <1>1 DEF Range
<1> QED
  BY <1>1, <1>2, <1>3 DEF Range, IsInjective

LEMMA TailDistinct ==
  ASSUME NEW S, NEW s \in Seq(S), s # <<>>, IsInjective(s)
  PROVE  /\ Tail(s) \in Seq(S) /\ IsInjective(Tail(s))
         /\ Head(s) = s[1] /\ Head(s) \in Range(s) /\ Head(s) \in S
         /\ Range(Tail(s)) = Range(s) \ {Head(s)}
<1>1. /\ Tail(s) \in Seq(S) /\ Len(s) \in Nat \ {0} /\ DOMAIN s = 1 .. Len(s)
      /\ Head(s) = s[1] /\ s[1] \in S
      /\ DOMAIN Tail(s) = 1 .. Len(s) - 1
      /\ \A k \in 1 .. Len(s) - 1 : Tail(s)[k] = s[k + 1]
  OBVIOUS
<1>2. \A k \in 1 .. Len(s) - 1 : k + 1 \in DOMAIN s /\ k + 1 # 1
  BY <1>1
<1>3. \A k \in DOMAIN s : k = 1 \/ (k - 1 \in 1 .. Len(s) - 1 /\ (k - 1) + 1 = k)
  BY <1>1
<1>4. \A j, k \in DOMAIN s : s[j] = s[k] => j = k
  BY DEF IsInjective
<1>5. 1 \in DOMAIN s
  BY <1>1
<1>6. IsInjective(Tail(s))
  <2> SUFFICES ASSUME NEW j \in 1 .. Len(s) - 1, NEW k \in 1 .. Len(s) - 1, Tail(s)[j] = Tail(s)[k]
               PROVE  j = k
    BY <1>1 DEF IsInjective
  <2>1. j + 1 = k + 1
    BY <1>1, <1>2, <1>4
  <2> QED
    BY <2>1
<1>7. Range(Tail(s)) \subseteq Range(s) \ {Head(s)}
  BY <1>1, <1>2, <1>4, <1>5 DEF Range
<1>8. Range(s) \ {Head(s)} \subseteq Range(Tail(s))
  <2> SUFFICES ASSUME NEW k \in DOMAIN s, s[k] # s[1] PROVE s[k] \in Range(Tail(s))
    BY <1>1 DEF Range
  <2>1. k - 1 \in DOMAIN Tail(s) /\ Tail(s)[k - 1] = s[k]
    BY <1>1, <1>3
  <2> QED
    BY <2>1 DEF Range
<1> QED
  BY <1>1, <1>5, <1>6, <1>7, <1>8 DEF Range

(* Counting a thing in such a queue tells whether it is there.             *)
LEMMA DistinctOccurrences ==
  ASSUME NEW s, IsInjective(s), NEW e
  PROVE  Occurrences(s, e) = IF e \in Range(s) THEN 1 ELSE 0
<1>1. CASE e \in Range(s)
  <2>1. PICK k \in DOMAIN s : s[k] = e
    BY <1>1 DEF Range
  <2>2. {j \in DOMAIN s : s[j] = e} = {k}
    BY <2>1 DEF IsInjective
  <2> QED
    BY <1>1, <2>2, FS_Singleton DEF Occurrences
<1>2. CASE e \notin Range(s)
  <2>1. {j \in DOMAIN s : s[j] = e} = {}
    BY <1>2 DEF Range
  <2> QED
    BY <1>2, <2>1, FS_EmptySet DEF Occurrences
<1> QED
  BY <1>1, <1>2
-----------------------------------------------------------------------------
(* What happens to the maps                                                *)
LEMMA EntryMade ==
  ASSUME NEW id, write_cache' = WithEntry(id)
  PROVE  /\ DOMAIN write_cache' = DOMAIN write_cache \cup {id}
         /\ \A j : (ListOf(j))' = ListOf(j)
         /\ \A j \in DOMAIN write_cache' : write_cache'[j] = ListOf(j)
BY DEF ListOf, WithEntry

LEMMA EntryErased ==
  ASSUME NEW id, write_cache' = Restrict(write_cache, DOMAIN write_cache \ {id})
  PROVE  /\ DOMAIN write_cache' = DOMAIN write_cache \ {id}
         /\ \A j : (ListOf(j))' = IF j = id THEN <<>> ELSE ListOf(j)
         /\ \A j \in DOMAIN write_cache' : write_cache'[j] = ListOf(j)
BY DEF ListOf, Restrict

LEMMA EntrySet ==
  ASSUME NEW id \in DOMAIN write_cache, NEW s, write_cache' = [write_cache EXCEPT ![id] = s]
  PROVE  /\ DOMAIN write_cache' = DOMAIN write_cache
         /\ \A j : (ListOf(j))' = IF j = id THEN s ELSE ListOf(j)
         /\ \A j \in DOMAIN write_cache' : write_cache'[j] = IF j = id THEN s ELSE ListOf(j)
BY DEF ListOf

LEMMA CountDown ==
  ASSUME NEW n \in Nat, NEW a \in 0 .. n - 1
  PROVE  (a + 1) % n \in 0 .. n - 1 /\ (a - 1) % n \in 0 .. n - 1
OBVIOUS

LEMMA CountExact ==
  ASSUME NEW n \in Nat, NEW a \in 0 .. n - 1
  PROVE  /\ a + 1 < n => (a + 1) % n = a + 1
         /\ a > 0 => (a - 1) % n = a - 1
OBVIOUS

-----------------------------------------------------------------------------
(* What CloseConnection and ControlEpoll do to the descriptors             *)
LEMMA Closed ==
  ASSUME NEW i, CloseConnection(i)
  PROVE  /\ DOMAIN registered' = DOMAIN registered \ {fd[i]}
         /\ \A g \in DOMAIN registered' : registered'[g] = registered[g]
         /\ \A g \in Fds : sock'[g] = IF g = fd[i] THEN 0 ELSE sock[g]
         /\ sock' \in [Fds -> {sock'[g] : g \in Fds}]
         /\ garbage_can' = Append(garbage_can, i)
         /\ active_connect_num' = (active_connect_num - 1) % SizeMod
BY DEF CloseConnection, Restrict

LEMMA Controlled ==
  ASSUME NEW g, ControlEpoll(g)
  PROVE  /\ DOMAIN registered' = DOMAIN registered
         /\ \A f \in DOMAIN registered : registered'[f] = IF f = g THEN event ELSE registered[f]
         /\ event' = event \/ event' = NoEvent
BY DEF ControlEpoll

(***************************************************************************)
(* Every step keeps the types.                                             *)
(***************************************************************************)
LEMMA AcceptTypes ==
  ASSUME SharedTypes, AcceptHandler
  PROVE  TypeOK' /\ LocalsOK' /\ QueuesOK'
<1> USE ConnectionsAssumption
    DEF acceptVars, handlerVars, appVars, gcVars, infoVars, historyVars, LeaveAccept,
        SharedTypes, TypeOK, LocalsOK, QueuesOK
<1>1. CASE TurnAway
  BY <1>1 DEF TurnAway, Taken, Requests
<1>2. CASE AcceptClient
  <2>1. PICK f \in Fds : /\ sock' = [sock EXCEPT ![f] = conns + 1] /\ afd' = f
                         /\ apc = "accept" /\ apc' = "get" /\ conns' = conns + 1
    BY <1>2 DEF AcceptClient
  <2>2. sock' \in [Fds -> 0 .. MaxConns] /\ conns' \in 0 .. MaxConns
    BY <2>1
  <2>3. afd' \in Fds /\ afd' \in 0 .. NumFds
    BY <2>1 DEF Fds
  <2>4. Taken' = Taken /\ Requests' = Requests
    BY <1>2 DEF AcceptClient, Taken, Requests
  <2> QED
    BY <1>2, <2>1, <2>2, <2>3, <2>4 DEF AcceptClient
<1>3. CASE TakeInfo
  <2>1. /\ i_pool # <<>> /\ apc = "get" /\ apc' = "add"
        /\ ainfo' = Head(i_pool) /\ i_pool' = Tail(i_pool) /\ fd' = [fd EXCEPT ![ainfo'] = afd]
    BY <1>3 DEF TakeInfo
  <2>2. PICK id \in Ids : /\ connection_id' = [connection_id EXCEPT ![ainfo'] = id]
                          /\ write_cache' = WithEntry(id)
                          /\ disturbed' = IF Users(id) # {} THEN disturbed \cup {"shared"} ELSE disturbed
    BY <1>3 DEF TakeInfo
  <2>3. ainfo' \in Infos /\ i_pool' \in Seq(Infos) /\ ainfo' \in 0 .. NumInfos
    <3>1. i_pool \in Seq(Infos)
      OBVIOUS
    <3> HIDE DEF SharedTypes, TypeOK, LocalsOK, EventOK, QueuesOK
    <3>2. ainfo' \in Infos /\ i_pool' \in Seq(Infos)
      BY <2>1, <3>1
    <3> QED
      BY <3>2 DEF Infos
  <2>4. fd' \in [Infos -> Int] /\ connection_id' \in [Infos -> AllIds]
    BY <2>1, <2>2, <2>3 DEF Fds, AllIds
  <2>5. Taken \subseteq Taken' /\ ainfo' \in Taken'
    BY <2>1, <2>3 DEF Taken
  <2>6. \A t \in Apps : data_package_queue'[t] \in Seq(Requests')
    <3>1. Requests \subseteq Requests'
      BY <2>5 DEF Requests
    <3>2. Seq(Requests) \subseteq Seq(Requests')
      BY <3>1
    <3> QED
      BY <1>3, <3>2 DEF TakeInfo
  <2>7. /\ DOMAIN write_cache' \subseteq AllIds
        /\ \A j \in DOMAIN write_cache' : write_cache'[j] \in Seq(Answers)
    <3>1. /\ DOMAIN write_cache' = DOMAIN write_cache \cup {id}
          /\ \A j \in DOMAIN write_cache' : write_cache'[j] = ListOf(j)
      BY <2>2, EntryMade
    <3>2. <<>> \in Seq(Answers)
      OBVIOUS
    <3> QED
      BY <3>1, <3>2 DEF AllIds, ListOf
  <2>8. disturbed' \subseteq {"shared", "late", "mixed"}
    BY <2>2
  <2>9. TypeOK'
    BY <1>3, <2>1, <2>3, <2>4, <2>7, <2>8 DEF TakeInfo
  <2>10. LocalsOK'
    BY <1>3, <2>1, <2>3, <2>5 DEF TakeInfo
  <2> QED
    BY <1>3, <2>1, <2>5, <2>6, <2>7, <2>9, <2>10 DEF TakeInfo
<1>4. CASE AddToEpoll
  <2>1. /\ DOMAIN registered' = DOMAIN registered \cup {afd}
        /\ \A g \in DOMAIN registered' :
             registered'[g] = IF g = afd THEN [mode |-> "in", info |-> ainfo] ELSE registered[g]
        /\ apc = "add" /\ apc' = "idle" /\ afd' = 0 /\ ainfo' = 0
    BY <1>4 DEF AddToEpoll
  <2>2. active_connect_num' \in 0 .. SizeMod - 1
    BY <1>4, CountDown DEF AddToEpoll
  <2>3. Taken' = Taken /\ Requests' = Requests /\ Taken \subseteq Infos
    BY <1>4 DEF AddToEpoll, Taken, Requests
  <2>4. /\ DOMAIN registered' \subseteq Fds
        /\ \A f \in DOMAIN registered' : registered'[f].mode \in {"in", "out"} /\ registered'[f].info \in Taken
    BY <2>1
  <2>5. TypeOK'
    BY <1>4, <2>1, <2>2, <2>3, <2>4 DEF AddToEpoll
  <2>6. LocalsOK'
    BY <1>4, <2>1, <2>3 DEF AddToEpoll
  <2>7. QueuesOK'
    BY <1>4, <2>1, <2>3, <2>4 DEF AddToEpoll
  <2> QED
    BY <2>5, <2>6, <2>7
<1>5. CASE AddFails
  <2>1. Taken' = Taken /\ Requests' = Requests /\ Taken \subseteq Infos
    BY <1>5 DEF AddFails, Taken, Requests
  <2>2. garbage_can' \in Seq(Infos) /\ sock' \in [Fds -> 0 .. MaxConns]
    BY <1>5, <2>1 DEF AddFails
  <2>3. TypeOK'
    BY <1>5, <2>1, <2>2 DEF AddFails
  <2>4. LocalsOK'
    BY <1>5, <2>1 DEF AddFails
  <2>5. QueuesOK'
    BY <1>5, <2>1 DEF AddFails
  <2> QED
    BY <2>3, <2>4, <2>5
<1> QED
  BY <1>1, <1>2, <1>3, <1>4, <1>5 DEF AcceptHandler

LEMMA HandlerTypes ==
  ASSUME SharedTypes, EventOK, NEW f \in Fds, Handler(f)
  PROVE  TypeOK' /\ LocalsOK' /\ QueuesOK'
<1> USE ConnectionsAssumption
    DEF acceptVars, handlerVars, appVars, gcVars, infoVars, historyVars,
        TypeOK, LocalsOK, QueuesOK
<1>1. TypeOK /\ LocalsOK /\ QueuesOK
  BY DEF SharedTypes
<1>2. Taken' = Taken /\ Requests' = Requests /\ Taken \subseteq Infos
  BY DEF Handler, RecvData, RecvNothing, FrontPackage, SendPackage, ListenFill, ListenControl,
         Taken, Requests
<1>3. hpc[f] # "idle" => hinfo[f] \in Taken
  BY <1>1
<1>4. ASSUME LeaveHandler(f), UNCHANGED <<apc, afd, ainfo, tpc, treq, targs>>
      PROVE  LocalsOK'
  <2>1. NoAnswer \in Answers
    BY DEF NoAnswer, Answers
  <2> QED
    BY <1>1, <1>2, <1>4, <2>1 DEF LeaveHandler
<1>5. ASSUME NEW i \in Taken, CloseConnection(i)
      PROVE  /\ DOMAIN registered' \subseteq Fds
             /\ \A g \in DOMAIN registered' : registered'[g].mode \in {"in", "out"} /\ registered'[g].info \in Taken
             /\ garbage_can' \in Seq(Infos) /\ sock' \in [Fds -> 0 .. MaxConns]
             /\ active_connect_num' \in 0 .. SizeMod - 1
  <2>1. active_connect_num' \in 0 .. SizeMod - 1
    BY <1>1, <1>5, CountDown DEF CloseConnection
  <2>2. sock' \in [Fds -> 0 .. MaxConns] /\ garbage_can' \in Seq(Infos)
    BY <1>1, <1>2, <1>5 DEF CloseConnection
  <2>3. DOMAIN registered' \subseteq DOMAIN registered /\ \A g \in DOMAIN registered' : registered'[g] = registered[g]
    BY <1>5, Closed
  <2> QED
    BY <1>1, <2>1, <2>2, <2>3
<1>6. CASE RecvData(f)
  <2> DEFINE a == AppOf(connection_id[hinfo[f]])
             r == [n |-> reqs', conn |-> sock[fd[hinfo[f]]], info |-> hinfo[f]]
  <2>1. hpc[f] = "read" /\ reqs' = reqs + 1 /\ reqs' \in Nat
    BY <1>1, <1>6 DEF RecvData
  <2>2. r \in Requests
    BY <1>1, <1>3, <2>1 DEF Requests, Taken
  <2>3. data_package_queue' = [data_package_queue EXCEPT ![a] = Append(@, r)]
    BY <1>6 DEF RecvData
  <2> HIDE DEF a, r
  <2>4. data_package_queue' \in [Apps -> Seq(Requests)]
    <3>1. a \in Apps => Append(data_package_queue[a], r) \in Seq(Requests)
      BY <1>1, <2>2, AppendProperties
    <3> HIDE DEF QueuesOK
    <3>2. data_package_queue \in [Apps -> Seq(Requests)]
      BY <1>1 DEF QueuesOK
    <3> QED
      BY <2>3, <3>1, <3>2
  <2>5. LocalsOK'
    BY <1>4, <1>6 DEF RecvData
  <2>6. TypeOK'
    BY <1>1, <1>6 DEF RecvData
  <2>7. QueuesOK'
    BY <1>1, <1>2, <1>6, <2>1, <2>4 DEF RecvData
  <2> QED
    BY <2>5, <2>6, <2>7
<1>7. CASE RecvNothing(f)
  <2>1. hinfo[f] \in Taken /\ CloseConnection(hinfo[f])
    BY <1>3, <1>7 DEF RecvNothing
  <2>2. LocalsOK'
    BY <1>4, <1>7 DEF RecvNothing
  <2>3. TypeOK'
    BY <1>1, <1>2, <1>5, <1>7, <2>1 DEF RecvNothing
  <2>4. QueuesOK'
    BY <1>1, <1>2, <1>5, <1>7, <2>1 DEF RecvNothing
  <2> QED
    BY <2>2, <2>3, <2>4
<1>8. CASE FrontPackage(f)
  <2> DEFINE id == connection_id[hinfo[f]]
  <2>1. write_cache' = WithEntry(id) /\ hpc[f] = "write"
    BY <1>8 DEF FrontPackage
  <2>2. id \in AllIds
    BY <1>1, <1>2, <1>3, <2>1
  <2>3. \/ hpc' = [hpc EXCEPT ![f] = "listen"] /\ UNCHANGED hans
        \/ /\ hpc' = [hpc EXCEPT ![f] = "send"] /\ ListOf(id) # <<>>
           /\ hans' = [hans EXCEPT ![f] = Head(ListOf(id))]
    BY <1>8 DEF FrontPackage
  <2> HIDE DEF id
  <2>4. ListOf(id) # <<>> => Head(ListOf(id)) \in Answers
    BY <1>1 DEF ListOf
  <2>5. /\ DOMAIN write_cache' = DOMAIN write_cache \cup {id}
        /\ \A j \in DOMAIN write_cache' : write_cache'[j] = ListOf(j)
    BY <2>1, EntryMade
  <2>6. \A j : ListOf(j) \in Seq(Answers)
    <3>1. <<>> \in Seq(Answers)
      OBVIOUS
    <3> QED
      BY <1>1, <3>1 DEF ListOf
  <2>7. TypeOK'
    BY <1>1, <1>8, <2>2, <2>5 DEF FrontPackage
  <2>8. LocalsOK'
    <3>1. hpc' \in [Fds -> {"idle", "read", "write", "listen", "send", "ctl"}] /\ hans' \in [Fds -> Answers]
      <4>1. hans \in [Fds -> Answers] /\ hpc \in [Fds -> {"idle", "read", "write", "listen", "send", "ctl"}]
        BY <1>1
      <4> HIDE DEF TypeOK, LocalsOK, QueuesOK
      <4>2. hans' \in [Fds -> Answers]
        BY <2>3, <2>4, <4>1
      <4> QED
        BY <2>3, <4>1, <4>2
    <3>2. \A h \in Fds : hpc'[h] # "idle" => hpc[h] # "idle"
      BY <1>1, <2>1, <2>3
    <3> QED
      BY <1>1, <1>2, <1>8, <3>1, <3>2 DEF FrontPackage
  <2>9. QueuesOK'
    BY <1>1, <1>2, <1>8, <2>5, <2>6 DEF FrontPackage
  <2> QED
    BY <2>7, <2>8, <2>9
<1>9. CASE SendPackage(f)
  <2> DEFINE i == hinfo[f]
             id == connection_id[i]
  <2>1. /\ i \in Taken
        /\ \/ write_cache' = write_cache
           \/ ListOf(id) # <<>> /\ write_cache' = [write_cache EXCEPT ![id] = Tail(@)]
        /\ CloseConnection(i) \/ UNCHANGED <<sock, registered, active_connect_num, garbage_can>>
    BY <1>3, <1>9 DEF SendPackage
  <2> HIDE DEF i, id
  <2>2. /\ DOMAIN write_cache' = DOMAIN write_cache
        /\ \A j \in DOMAIN write_cache' : write_cache'[j] \in Seq(Answers)
    <3>1. CASE ListOf(id) # <<>> /\ write_cache' = [write_cache EXCEPT ![id] = Tail(@)]
      <4>1. id \in DOMAIN write_cache /\ write_cache[id] # <<>> /\ write_cache[id] \in Seq(Answers)
        BY <1>1, <3>1 DEF ListOf
      <4>2. Tail(write_cache[id]) \in Seq(Answers)
        BY <4>1
      <4> QED
        BY <1>1, <3>1, <4>1, <4>2
    <3> QED
      BY <1>1, <2>1, <3>1
  <2>3. LocalsOK'
    BY <1>4, <1>9 DEF SendPackage
  <2>4. TypeOK'
    BY <1>1, <1>2, <1>5, <1>9, <2>1, <2>2 DEF SendPackage
  <2>5. QueuesOK'
    BY <1>1, <1>2, <1>5, <1>9, <2>1, <2>2 DEF SendPackage
  <2> QED
    BY <2>3, <2>4, <2>5
<1>10. CASE ListenFill(f)
  BY <1>1, <1>2, <1>10 DEF ListenFill
<1>11. CASE ListenControl(f)
  <2> DEFINE g == fd[hinfo[f]]
  <2>1. hpc[f] = "ctl" /\ ControlEpoll(g) /\ disturbed' = disturbed \cup Mixed(g, [mode |-> "in", info |-> hinfo[f]])
    BY <1>11 DEF ListenControl
  <2>2. event.info \in Taken /\ event.mode \in {"in", "out"}
    BY <2>1 DEF EventOK
  <2> HIDE DEF g
  <2>3. /\ DOMAIN registered' = DOMAIN registered
        /\ \A h \in DOMAIN registered' : registered'[h].mode \in {"in", "out"} /\ registered'[h].info \in Taken
    BY <1>1, <2>1, <2>2, Controlled
  <2>4. disturbed' \subseteq {"shared", "late", "mixed"}
    BY <1>1, <2>1 DEF Mixed
  <2>5. LocalsOK'
    BY <1>4, <1>11 DEF ListenControl
  <2>6. TypeOK'
    BY <1>1, <1>2, <1>11, <2>3, <2>4 DEF ListenControl
  <2>7. QueuesOK'
    BY <1>1, <1>2, <1>11, <2>3 DEF ListenControl
  <2> QED
    BY <2>5, <2>6, <2>7
<1> QED
  BY <1>6, <1>7, <1>8, <1>9, <1>10, <1>11 DEF Handler

LEMMA ApplicationTypes ==
  ASSUME SharedTypes, EventOK, NEW t \in Apps, Application(t)
  PROVE  TypeOK' /\ LocalsOK' /\ QueuesOK'
<1> USE ConnectionsAssumption
    DEF acceptVars, handlerVars, appVars, gcVars, infoVars, historyVars,
        TypeOK, LocalsOK, QueuesOK
<1>1. TypeOK /\ LocalsOK /\ QueuesOK
  BY DEF SharedTypes
<1>2. Taken' = Taken /\ Requests' = Requests /\ Taken \subseteq Infos
  BY DEF Application, AsynRead, FindEntry, ReleasePackage, ArmFill, ArmControl, Taken, Requests
<1>0. NoArgs \in Args
  BY ConnectionsAssumption DEF NoArgs, Args
<1>3. tpc[t] # "idle" => treq[t].info \in Taken
  BY <1>1
<1>4. ASSUME LeaveWrite(t), UNCHANGED <<apc, afd, ainfo, hpc, hinfo, hans>>
      PROVE  LocalsOK'
  <2>1. NoRequest \in [n : Nat, conn : Nat, info : 0 .. NumInfos]
    BY DEF NoRequest
  <2>2. treq' = [treq EXCEPT ![t] = NoRequest] /\ tpc' = [tpc EXCEPT ![t] = "idle"] /\ targs' = [targs EXCEPT ![t] = NoArgs]
    BY <1>4 DEF LeaveWrite, Goto
  <2>3. treq' \in [Apps -> [n : Nat, conn : Nat, info : 0 .. NumInfos]]
    BY <1>1, <2>1, <2>2
  <2>4. \A u \in Apps : tpc'[u] # "idle" => tpc[u] # "idle" /\ treq'[u] = treq[u]
    BY <1>1, <2>2
  <2>5. tpc' \in [Apps -> {"idle", "find", "arm", "ctl"}] /\ targs' \in [Apps -> Args]
    BY <1>0, <1>1, <2>2
  <2> QED
    BY <1>1, <1>2, <1>4, <2>3, <2>4, <2>5
<1>a. ASSUME AcquirePackage(t), tpc[t] # "idle", UNCHANGED <<apc, afd, ainfo, hpc, hinfo, hans>>
      PROVE  LocalsOK'
  <2> DEFINE r == [n |-> reqs', conn |-> treq[t].conn, info |-> treq[t].info]
  <2>1. /\ treq' = [treq EXCEPT ![t] = r] /\ tpc' = [tpc EXCEPT ![t] = "find"]
        /\ targs' = [targs EXCEPT ![t] = NoArgs] /\ reqs' \in Nat
    BY <1>1, <1>a DEF AcquirePackage, Goto
  <2>2. r \in [n : Nat, conn : Nat, info : 0 .. NumInfos] /\ r.info \in Taken
    BY <1>1, <1>3, <1>a, <2>1
  <2> HIDE DEF r
  <2>3. treq' \in [Apps -> [n : Nat, conn : Nat, info : 0 .. NumInfos]]
    BY <1>1, <2>1, <2>2
  <2>4. \A u \in Apps : tpc'[u] # "idle" => treq'[u].info \in Taken
    BY <1>1, <2>1, <2>2
  <2>5. tpc' \in [Apps -> {"idle", "find", "arm", "ctl"}] /\ targs' \in [Apps -> Args]
    BY <1>0, <1>1, <2>1
  <2> QED
    BY <1>1, <1>2, <1>a, <2>3, <2>4, <2>5
<1>b. ASSUME AfterWrite(t), tpc[t] # "idle", UNCHANGED <<apc, afd, ainfo, hpc, hinfo, hans>>
      PROVE  LocalsOK' /\ reqs' \in Nat
  <2>1. reqs' \in Nat
    BY <1>1, <1>b DEF AfterWrite, LeaveWrite, AcquirePackage
  <2> QED
    BY <1>4, <1>a, <1>b, <2>1 DEF AfterWrite
<1>5. CASE AsynRead(t)
  <2> DEFINE r == Head(data_package_queue[t])
  <2>1. /\ data_package_queue[t] \in Seq(Requests) /\ data_package_queue[t] # <<>>
        /\ treq' = [treq EXCEPT ![t] = r] /\ tpc' = [tpc EXCEPT ![t] = "find"]
        /\ data_package_queue' = [data_package_queue EXCEPT ![t] = Tail(@)]
    BY <1>1, <1>5 DEF AsynRead, Goto
  <2>2. r \in Requests /\ Tail(data_package_queue[t]) \in Seq(Requests)
    BY <2>1
  <2>3. r \in [n : Nat, conn : Nat, info : 0 .. NumInfos] /\ r.info \in Taken
    <3>1. Taken \subseteq 0 .. NumInfos
      BY <1>2 DEF Infos
    <3> HIDE DEF r
    <3> QED
      BY <2>2, <3>1 DEF Requests
  <2>4. data_package_queue' \in [Apps -> Seq(Requests)]
    BY <1>1, <2>1, <2>2
  <2> HIDE DEF r
  <2>5. LocalsOK'
    <3>1. treq' \in [Apps -> [n : Nat, conn : Nat, info : 0 .. NumInfos]]
      BY <1>1, <2>1, <2>3
    <3>2. \A u \in Apps : treq'[u] = IF u = t THEN r ELSE treq[u]
      BY <1>1, <2>1
    <3>3. \A u \in Apps : tpc'[u] = IF u = t THEN "find" ELSE tpc[u]
      BY <1>1, <2>1
    <3>4. tpc' \in [Apps -> {"idle", "find", "arm", "ctl"}]
      BY <1>1, <2>1
    <3> QED
      BY <1>1, <1>2, <1>5, <2>3, <3>1, <3>2, <3>3, <3>4 DEF AsynRead
  <2>6. TypeOK'
    BY <1>1, <1>5 DEF AsynRead
  <2>7. QueuesOK'
    BY <1>1, <1>2, <1>5, <2>4 DEF AsynRead
  <2> QED
    BY <2>5, <2>6, <2>7
<1>6. CASE FindEntry(t)
  <2> DEFINE id == connection_id[treq[t].info]
  <2>1. PICK close \in BOOLEAN :
           \/ /\ id \in DOMAIN write_cache
              /\ write_cache' = [write_cache EXCEPT ![id] =
                                   Append(@, [n |-> treq[t].n, conn |-> treq[t].conn, close |-> close])]
              /\ disturbed' = IF Open(treq[t].conn) THEN disturbed ELSE disturbed \cup {"late"}
              /\ Goto(t, "arm") /\ UNCHANGED <<treq, targs, reqs>>
           \/ AfterWrite(t) /\ UNCHANGED <<write_cache, disturbed>>
    BY <1>6 DEF FindEntry
  <2> DEFINE a == [n |-> treq[t].n, conn |-> treq[t].conn, close |-> close]
  <2>2. a \in Answers /\ tpc[t] = "find"
    BY <1>1, <1>6 DEF Answers, FindEntry
  <2>3. id \in DOMAIN write_cache => Append(write_cache[id], a) \in Seq(Answers)
    BY <1>1, <2>2, AppendProperties
  <2>4. /\ DOMAIN write_cache' = DOMAIN write_cache
        /\ \A j \in DOMAIN write_cache' : write_cache'[j] \in Seq(Answers)
    <3> HIDE DEF id, a
    <3>1. CASE UNCHANGED write_cache
      BY <1>1, <3>1
    <3>2. CASE id \in DOMAIN write_cache /\ write_cache' = [write_cache EXCEPT ![id] = Append(@, a)]
      BY <1>1, <2>3, <3>2
    <3> QED
      BY <2>1, <3>1, <3>2 DEF a
  <2>5. disturbed' \subseteq {"shared", "late", "mixed"}
    BY <1>1, <2>1
  <2>6. LocalsOK' /\ reqs' \in Nat
    <3>1. CASE Goto(t, "arm") /\ UNCHANGED <<treq, targs, reqs>>
      BY <1>1, <1>2, <1>3, <1>6, <2>2, <3>1 DEF FindEntry, Goto
    <3>2. CASE AfterWrite(t)
      BY <1>b, <1>6, <2>2, <3>2 DEF FindEntry
    <3> QED
      BY <2>1, <3>1, <3>2
  <2>7. TypeOK'
    BY <1>1, <1>6, <2>4, <2>5 DEF FindEntry
  <2>8. QueuesOK'
    BY <1>1, <1>2, <1>6, <2>4, <2>6 DEF FindEntry
  <2> QED
    BY <2>6, <2>7, <2>8
<1>7. CASE ReleasePackage(t)
  <2>1. LocalsOK' /\ reqs' = reqs
    BY <1>4, <1>7 DEF ReleasePackage, LeaveWrite
  <2> QED
    BY <1>1, <1>2, <1>7, <2>1 DEF ReleasePackage
<1>8. CASE ArmFill(t)
  <2>1. PICK i \in Connect(t) :
          /\ event' = [mode |-> "out", info |-> i]
          /\ targs' = [targs EXCEPT ![t] = [fd |-> fd[i], info |-> i]]
    BY <1>8 DEF ArmFill, FillEvent
  <2>2. i \in Taken
    BY <1>1, <1>3, <1>8 DEF ArmFill, Connect
  <2> DEFINE r == [fd |-> fd[i], info |-> i]
  <2>3. r \in Args
    <3>1. fd[i] \in Int /\ i \in 0 .. NumInfos
      BY <1>1, <1>2, <2>2 DEF Infos
    <3> QED
      BY <3>1 DEF Args
  <2>4. targs' = [targs EXCEPT ![t] = r]
    BY <2>1
  <2> HIDE DEF r
  <2>5. LocalsOK'
    <3>1. targs' \in [Apps -> Args]
      BY <1>1, <2>3, <2>4
    <3>2. tpc[t] = "arm" /\ tpc' = [tpc EXCEPT ![t] = "ctl"] /\ treq' = treq
      BY <1>8 DEF ArmFill, Goto
    <3>3. /\ tpc' \in [Apps -> {"idle", "find", "arm", "ctl"}]
          /\ \A u \in Apps : tpc'[u] # "idle" => tpc[u] # "idle"
      BY <1>1, <3>2
    <3> QED
      BY <1>1, <1>2, <1>8, <3>1, <3>2, <3>3 DEF ArmFill
  <2> QED
    BY <1>1, <1>2, <1>8, <2>5 DEF ArmFill
<1>9. CASE ArmControl(t)
  <2> DEFINE g == targs[t].fd
  <2>1. tpc[t] = "ctl" /\ ControlEpoll(g)
        /\ disturbed' = disturbed \cup Mixed(g, [mode |-> "out", info |-> targs[t].info])
              \cup (IF g \in DOMAIN registered /\ registered[g].info # targs[t].info THEN {"late"} ELSE {})
    BY <1>9 DEF ArmControl
  <2>2. event.info \in Taken /\ event.mode \in {"in", "out"}
    BY <2>1 DEF EventOK
  <2> HIDE DEF g
  <2>3. /\ DOMAIN registered' = DOMAIN registered
        /\ \A h \in DOMAIN registered' : registered'[h].mode \in {"in", "out"} /\ registered'[h].info \in Taken
    BY <1>1, <2>1, <2>2, Controlled
  <2>4. disturbed' \subseteq {"shared", "late", "mixed"}
    BY <1>1, <2>1 DEF Mixed
  <2>5. LocalsOK' /\ reqs' \in Nat
    BY <1>b, <1>9 DEF ArmControl
  <2>6. TypeOK'
    BY <1>1, <1>2, <1>9, <2>3, <2>4 DEF ArmControl
  <2>7. QueuesOK'
    BY <1>1, <1>2, <1>9, <2>3, <2>5 DEF ArmControl
  <2> QED
    BY <2>5, <2>6, <2>7
<1> QED
  BY <1>5, <1>6, <1>7, <1>8, <1>9 DEF Application

LEMMA OtherTypes ==
  ASSUME SharedTypes, EpollWait \/ Collector \/ UNCHANGED vars
  PROVE  TypeOK' /\ LocalsOK' /\ QueuesOK'
<1> USE ConnectionsAssumption
    DEF acceptVars, handlerVars, appVars, gcVars, infoVars, historyVars,
        TypeOK, LocalsOK, QueuesOK
<1>1. TypeOK /\ LocalsOK /\ QueuesOK
  BY DEF SharedTypes
<1>2. Taken' = Taken /\ Requests' = Requests /\ Taken \subseteq Infos
  BY DEF EpollWait, Collector, BeginRound, Collect, vars, Taken, Requests
<1>3. CASE EpollWait
  <2>1. PICK ready \in SUBSET DOMAIN registered, client \in BOOLEAN :
           /\ client => conns < MaxConns
           /\ apc' = IF client THEN "accept" ELSE "idle"
           /\ hpc' = [f \in Fds |-> IF f \notin ready THEN "idle"
                                    ELSE IF registered[f].mode = "in" THEN "read" ELSE "write"]
           /\ hinfo' = [f \in Fds |-> IF f \in ready THEN registered[f].info ELSE 0]
    BY <1>3 DEF EpollWait
  <2>2. /\ hpc' \in [Fds -> {"idle", "read", "write", "listen", "send", "ctl"}]
        /\ hinfo' \in [Fds -> 0 .. NumInfos]
        /\ \A f \in Fds : hpc'[f] # "idle" => hinfo'[f] \in Taken
    BY <1>1, <1>2, <2>1 DEF Infos
  <2>3. LocalsOK'
    BY <1>1, <1>2, <1>3, <2>1, <2>2 DEF EpollWait
  <2>4. TypeOK'
    BY <1>1, <1>3, <2>1 DEF EpollWait
  <2>5. QueuesOK'
    BY <1>1, <1>2, <1>3, <2>1 DEF EpollWait
  <2> QED
    BY <2>3, <2>4, <2>5
<1>4. CASE BeginRound
  <2>1. garbage_num' \in Nat
    BY <1>1, <1>4 DEF BeginRound
  <2> QED
    BY <1>1, <1>2, <1>4, <2>1 DEF BeginRound
<1>5. CASE Collect
  <2> DEFINE i == Head(garbage_can)
             id == connection_id[i]
  <2>1. /\ garbage_can # <<>> /\ i_pool' = Append(i_pool, i) /\ garbage_can' = Tail(garbage_can)
        /\ garbage_num > 0 /\ garbage_num' = garbage_num - 1
        /\ write_cache' = IF ListOf(id) = <<>> THEN WithEntry(id)
                                               ELSE Restrict(write_cache, DOMAIN write_cache \ {id})
    BY <1>5 DEF Collect
  <2>2. i \in Infos /\ i_pool' \in Seq(Infos) /\ garbage_can' \in Seq(Infos) /\ garbage_num' \in Nat
    BY <1>1, <2>1
  <2>3. id \in AllIds
    BY <1>1, <2>2
  <2> HIDE DEF i, id
  <2>4. \A j : ListOf(j) \in Seq(Answers)
    <3>1. <<>> \in Seq(Answers)
      OBVIOUS
    <3> QED
      BY <1>1, <3>1 DEF ListOf
  <2>5. /\ DOMAIN write_cache' \subseteq AllIds
        /\ \A j \in DOMAIN write_cache' : write_cache'[j] \in Seq(Answers)
    <3>1. CASE write_cache' = WithEntry(id)
      <4>1. /\ DOMAIN write_cache' = DOMAIN write_cache \cup {id}
            /\ \A j \in DOMAIN write_cache' : write_cache'[j] = ListOf(j)
        BY <3>1, EntryMade
      <4> QED
        BY <1>1, <2>3, <2>4, <4>1
    <3>2. CASE write_cache' = Restrict(write_cache, DOMAIN write_cache \ {id})
      <4>1. /\ DOMAIN write_cache' = DOMAIN write_cache \ {id}
            /\ \A j \in DOMAIN write_cache' : write_cache'[j] = ListOf(j)
        BY <3>2, EntryErased
      <4> QED
        BY <1>1, <2>4, <4>1
    <3> QED
      BY <2>1, <3>1, <3>2
  <2>6. TypeOK'
    BY <1>1, <1>5, <2>2, <2>5 DEF Collect
  <2> QED
    BY <1>1, <1>2, <1>5, <2>5, <2>6 DEF Collect
<1>6. CASE UNCHANGED vars
  BY <1>1, <1>2, <1>6 DEF vars
<1> QED
  BY <1>3, <1>4, <1>5, <1>6 DEF Collector

(* Two that are between the two steps of mod_fd_in_epoll *)
LEMMA TwoCallers ==
  ASSUME NEW A \in SUBSET Fds, NEW B \in SUBSET Apps
  PROVE  /\ IsFiniteSet(A) /\ IsFiniteSet(B) /\ Cardinality(A) \in Nat /\ Cardinality(B) \in Nat
         /\ A # {} => Cardinality(A) > 0
         /\ B # {} => Cardinality(B) > 0
         /\ \A x \in A : A \ {x} # {} => Cardinality(A) > 1
         /\ \A x \in B : B \ {x} # {} => Cardinality(B) > 1
<1>1. IsFiniteSet(Fds) /\ IsFiniteSet(Apps)
  BY ConnectionsAssumption, FS_Interval DEF Fds, Apps
<1>2. IsFiniteSet(A) /\ IsFiniteSet(B)
  BY <1>1, FS_Subset
<1>3. ASSUME NEW S, IsFiniteSet(S)
      PROVE  /\ Cardinality(S) \in Nat /\ (S # {} => Cardinality(S) > 0)
             /\ \A x \in S : S \ {x} # {} => Cardinality(S) > 1
  <2>1. Cardinality(S) \in Nat /\ (Cardinality(S) = 0 <=> S = {})
    BY <1>3, FS_EmptySet, FS_CardinalityType
  <2>2. ASSUME NEW x \in S, S \ {x} # {} PROVE Cardinality(S) > 1
    <3>1. IsFiniteSet(S \ {x}) /\ Cardinality(S \ {x}) = Cardinality(S) - 1
      BY <1>3, <2>2, FS_RemoveElement
    <3>2. Cardinality(S \ {x}) # 0 /\ Cardinality(S \ {x}) \in Nat
      BY <2>2, <3>1, FS_EmptySet, FS_CardinalityType
    <3> QED
      BY <2>1, <3>1, <3>2
  <2> QED
    BY <2>1, <2>2
<1> QED
  BY <1>2, <1>3

(***************************************************************************)
(* Every step keeps the event filled in as long as a caller needs it.      *)
(***************************************************************************)
LEMMA EventStep ==
  ASSUME SharedTypes, EventOK, [Next]_vars
  PROVE  EventOK'
<1> USE ConnectionsAssumption
    DEF acceptVars, handlerVars, appVars, gcVars, infoVars, historyVars, LeaveAccept
<1>1. TypeOK /\ LocalsOK /\ QueuesOK
  BY DEF SharedTypes
<1> DEFINE InCtl(h, a) == (\E f \in Fds : h[f] = "ctl") \/ (\E t \in Apps : a[t] = "ctl")
<1>2. Taken \subseteq Taken' /\ Taken \subseteq 0 .. NumInfos
  <2>1. TakeInfo => afd \in Fds /\ fd' = [fd EXCEPT ![ainfo'] = afd]
    BY <1>1 DEF TakeInfo, LocalsOK
  <2>2. ~TakeInfo => UNCHANGED fd
    BY DEF Next, vars, EpollWait, AcceptHandler, TurnAway, AcceptClient, AddToEpoll, AddFails, Collector,
      BeginRound, Collect, Handler, RecvData, RecvNothing, FrontPackage, SendPackage, ListenFill,
      ListenControl, Application, AsynRead, FindEntry, ReleasePackage, ArmFill, ArmControl
  <2>3. fd \in [Infos -> Int]
    BY <1>1 DEF TypeOK
  <2>4. \A i \in Infos : fd'[i] = fd[i] \/ fd'[i] \in Fds
    BY <2>1, <2>2, <2>3
  <2>5. Infos \subseteq 0 .. NumInfos
    BY DEF Infos
  <2> QED
    BY <2>4, <2>5 DEF Taken
<1>3. ASSUME UNCHANGED event, InCtl(hpc', tpc') => InCtl(hpc, tpc)
      PROVE  EventOK'
  BY <1>2, <1>3 DEF EventOK
<1>4. CASE EpollWait
  <2>1. \A f \in Fds : hpc'[f] # "ctl"
    BY <1>4 DEF EpollWait
  <2> QED
    BY <1>3, <1>4, <2>1 DEF EpollWait
<1>5. CASE AcceptHandler \/ Collector \/ UNCHANGED vars
  BY <1>3, <1>5 DEF AcceptHandler, TurnAway, AcceptClient, TakeInfo, AddToEpoll, AddFails, Collector,
    BeginRound, Collect, vars
<1>6. ASSUME NEW i \in Taken, NEW mode \in {"in", "out"}, FillEvent(mode, i) PROVE EventOK'
  BY <1>2, <1>6 DEF EventOK, FillEvent
<1>7. ASSUME NEW g, ControlEpoll(g), UNCHANGED fd,
             InCtl(hpc', tpc') => InCtl(hpc, tpc) /\ Callers > 1
      PROVE  EventOK'
  <2>1. event' = IF Callers = 1 THEN NoEvent ELSE event
    BY <1>7 DEF ControlEpoll
  <2>2. NoEvent \in [mode : {"in", "out"}, info : 0 .. NumInfos]
    BY DEF NoEvent
  <2>3. CASE Callers = 1
    <3>1. ~InCtl(hpc', tpc')
      BY <1>7, <2>3
    <3> QED
      BY <2>1, <2>2, <2>3, <3>1 DEF EventOK
  <2>4. CASE Callers # 1
    BY <1>3, <1>7, <2>1, <2>4
  <2> QED
    BY <2>3, <2>4
<1> DEFINE A == {f \in Fds : hpc[f] = "ctl"}
           B == {u \in Apps : tpc[u] = "ctl"}
<1>8. ASSUME NEW f \in Fds, Handler(f) PROVE EventOK'
  <2>1. CASE RecvData(f) \/ RecvNothing(f) \/ FrontPackage(f) \/ SendPackage(f)
    <3>1. UNCHANGED <<event, tpc>> /\ \A g \in Fds : hpc'[g] = "ctl" => hpc[g] = "ctl"
      BY <1>1, <2>1 DEF RecvData, RecvNothing, FrontPackage, SendPackage, LeaveHandler, LocalsOK
    <3> QED
      BY <1>3, <3>1
  <2>2. CASE ListenFill(f)
    BY <1>1, <1>6, <2>2 DEF ListenFill, LocalsOK
  <2>3. CASE ListenControl(f)
    <3>1. /\ f \in A /\ UNCHANGED <<tpc, fd>> /\ ControlEpoll(fd[hinfo[f]])
          /\ \A g \in Fds : hpc'[g] = "ctl" => hpc[g] = "ctl" /\ g # f
      BY <1>1, <2>3 DEF ListenControl, LeaveHandler, LocalsOK
    <3>2. InCtl(hpc', tpc') => A \ {f} # {} \/ B # {}
      BY <3>1
    <3>3. Callers = Cardinality(A) + Cardinality(B)
      BY DEF Callers
    <3>4. /\ Cardinality(A) \in Nat /\ Cardinality(B) \in Nat /\ Cardinality(A) > 0
          /\ (A \ {f} # {} => Cardinality(A) > 1) /\ (B # {} => Cardinality(B) > 0)
      BY <3>1, TwoCallers
    <3>5. InCtl(hpc', tpc') => Callers > 1
      <4> HIDE DEF A, B
      <4> QED
        BY <3>2, <3>3, <3>4
    <3>6. InCtl(hpc, tpc)
      BY <3>1
    <3> QED
      BY <1>7, <3>1, <3>5, <3>6
  <2> QED
    BY <1>8, <2>1, <2>2, <2>3 DEF Handler
<1>9. ASSUME NEW t \in Apps, Application(t) PROVE EventOK'
  <2>1. CASE AsynRead(t) \/ FindEntry(t) \/ ReleasePackage(t)
    <3>1. UNCHANGED <<event, hpc>> /\ \A u \in Apps : tpc'[u] = "ctl" => tpc[u] = "ctl"
      BY <1>1, <2>1 DEF AsynRead, FindEntry, ReleasePackage, AfterWrite, LeaveWrite, AcquirePackage, Goto,
        LocalsOK
    <3> QED
      BY <1>3, <3>1
  <2>2. CASE ArmFill(t)
    <3>1. \E i \in Connect(t) : FillEvent("out", i)
      BY <2>2 DEF ArmFill
    <3>2. Connect(t) \subseteq Taken
      BY <1>1, <2>2 DEF ArmFill, Connect, LocalsOK, QueuesOK
    <3> QED
      BY <1>6, <3>1, <3>2
  <2>3. CASE ArmControl(t)
    <3>1. /\ t \in B /\ UNCHANGED <<hpc, fd>> /\ ControlEpoll(targs[t].fd)
          /\ \A u \in Apps : tpc'[u] = "ctl" => tpc[u] = "ctl" /\ u # t
      BY <1>1, <2>3 DEF ArmControl, AfterWrite, LeaveWrite, AcquirePackage, Goto, LocalsOK
    <3>2. InCtl(hpc', tpc') => B \ {t} # {} \/ A # {}
      BY <3>1
    <3>3. Callers = Cardinality(A) + Cardinality(B)
      BY DEF Callers
    <3>4. /\ Cardinality(A) \in Nat /\ Cardinality(B) \in Nat /\ Cardinality(B) > 0
          /\ (B \ {t} # {} => Cardinality(B) > 1) /\ (A # {} => Cardinality(A) > 0)
      BY <3>1, TwoCallers
    <3>5. InCtl(hpc', tpc') => Callers > 1
      <4> HIDE DEF A, B
      <4> QED
        BY <3>2, <3>3, <3>4
    <3>6. InCtl(hpc, tpc)
      BY <3>1
    <3> QED
      BY <1>7, <3>1, <3>5, <3>6
  <2> QED
    BY <1>9, <2>1, <2>2, <2>3 DEF Application
<1> QED
  BY <1>4, <1>5, <1>8, <1>9 DEF Next

LEMMA TypesStart == Init => SharedTypes /\ EventOK
<1> SUFFICES ASSUME Init PROVE SharedTypes /\ EventOK
  OBVIOUS
<1> USE ConnectionsAssumption DEF Init
<1>1. /\ DOMAIN <<>> = {} /\ <<>> \in Seq(Infos) /\ <<>> \in Seq(Requests)
  OBVIOUS
<1>2. /\ NoRequest \in [n : Nat, conn : Nat, info : 0 .. NumInfos] /\ NoAnswer \in Answers
      /\ NoArgs \in Args
  BY ConnectionsAssumption DEF NoRequest, NoAnswer, Answers, NoArgs, Args
<1>3. i_pool \in Seq(Infos)
  <2>1. Infos = 1 .. NumInfos /\ NumInfos \in Nat
    BY DEF Infos
  <2> QED
    BY <2>1
<1>4. TypeOK
  BY <1>1, <1>3 DEF TypeOK, AllIds
<1>5. LocalsOK
  BY <1>2 DEF LocalsOK
<1>6. QueuesOK
  BY <1>1 DEF QueuesOK
<1>7. EventOK
  BY DEF EventOK, NoEvent
<1> QED
  BY <1>4, <1>5, <1>6, <1>7 DEF SharedTypes

LEMMA TypesStep ==
  ASSUME SharedTypes, EventOK, [Next]_vars
  PROVE  SharedTypes' /\ EventOK'
<1>1. TypeOK' /\ LocalsOK' /\ QueuesOK'
  BY AcceptTypes, HandlerTypes, ApplicationTypes, OtherTypes DEF Next
<1>2. EventOK'
  BY EventStep
<1> QED
  BY <1>1, <1>2 DEF SharedTypes

LEMMA TypesInvariant == Spec => [](SharedTypes /\ EventOK)
<1> QED
  BY TypesStart, TypesStep, PTL DEF Spec

(***************************************************************************)
(* Type correctness of several connections, whatever disturbs them; in     *)
(* particular epoll's data.ptr is a connection_info whatever a caller of   *)
(* mod_fd_in_epoll finds in the event that all callers share.              *)
(***************************************************************************)
THEOREM ConnectionsTypes == Spec => []TypeOK
<1>1. SharedTypes => TypeOK
  BY DEF SharedTypes
<1> QED
  BY <1>1, TypesInvariant, PTL
-----------------------------------------------------------------------------
(***************************************************************************)
(* What holds until the first disturbance                                  *)
(***************************************************************************)
Pooled == Range(i_pool)
Garbage == Range(garbage_can)
InUse == {registered[f].info : f \in DOMAIN registered}
Accepting == IF apc = "add" THEN {ainfo} ELSE {}
Owners == InUse \cup Garbage \cup Accepting

(* Each connection_info is in one place, and a descriptor in epoll is open *)
(* and is the one that its connection_info names.                          *)
PlacesInv ==
  /\ IsInjective(i_pool) /\ IsInjective(garbage_can)
  /\ Infos = Pooled \cup Owners
  /\ Pooled \cap Owners = {} /\ InUse \cap Garbage = {} /\ Accepting \cap (InUse \cup Garbage) = {}
  /\ ainfo = 0 <=> apc # "add"
  /\ \A f \in DOMAIN registered : fd[registered[f].info] = f /\ sock[f] # 0

(* The descriptor that accept_handler works on is not with epoll yet; one  *)
(* that a handler works on is, with the connection_info it was reported    *)
(* with: nobody else takes it away during the batch.                       *)
BatchInv ==
  /\ apc \in {"get", "add"} => sock[afd] # 0 /\ afd \notin DOMAIN registered
  /\ apc = "add" => fd[ainfo] = afd
  /\ \A f \in Fds : hpc[f] # "idle" => f \in DOMAIN registered /\ registered[f].info = hinfo[f]

(* Connections that own an entry of write_cache have different ids; those  *)
(* that are open have the entry, and a list with answers has an owner.     *)
IdsInv == \A i, j \in Owners : connection_id[i] = connection_id[j] => i = j

EntriesInv ==
  /\ \A i \in InUse \cup Accepting : connection_id[i] \in DOMAIN write_cache
  /\ \A id : ListOf(id) # <<>> => \E i \in InUse \cup Garbage : connection_id[i] = id

(* A request of a connection that is still open carries its                *)
(* connection_info, and the answers in the list of an open connection are  *)
(* answers to it.                                                          *)
RequestOf(r) ==
  /\ r.conn \in 1 .. conns
  /\ \A f \in Fds : sock[f] = r.conn => f \in DOMAIN registered /\ registered[f].info = r.info

RequestsInv ==
  /\ \A f \in Fds : sock[f] <= conns
  /\ \A f, g \in Fds : sock[f] # 0 /\ sock[f] = sock[g] => f = g
  /\ \A t \in Apps : \A k \in DOMAIN data_package_queue[t] : RequestOf(data_package_queue[t][k])
  /\ \A t \in Apps : tpc[t] # "idle" => RequestOf(treq[t])

AnswersInv ==
  /\ ~misdelivered
  /\ \A f \in DOMAIN registered :
       LET list == ListOf(connection_id[registered[f].info])
       IN  \A k \in DOMAIN list : list[k].conn = sock[f]

FrontInv ==
  \A f \in Fds :
    hpc[f] = "send" =>
      LET id == connection_id[hinfo[f]]
      IN  ListOf(id) # <<>> /\ Head(ListOf(id)) = hans[f]

CountInv ==
  /\ active_connect_num = Cardinality(DOMAIN registered)
  /\ active_connect_num <= ConnectLimit
  /\ apc \in {"get", "add"} => active_connect_num < ConnectLimit

UndisturbedInv ==
  Undisturbed =>
    PlacesInv /\ BatchInv /\ IdsInv /\ EntriesInv /\ RequestsInv /\ AnswersInv /\ FrontInv /\ CountInv
-----------------------------------------------------------------------------
(* A handler closes the connection it works on: its connection_info moves  *)
(* from epoll to garbage_can, and its descriptor is free.                  *)
LEMMA CloseEffect ==
  ASSUME SharedTypes, PlacesInv, BatchInv, NEW f \in Fds, hpc[f] # "idle",
         CloseConnection(hinfo[f])
  PROVE  /\ f \in DOMAIN registered /\ fd[hinfo[f]] = f /\ hinfo[f] \in InUse
         /\ registered[f].info = hinfo[f]
         /\ DOMAIN registered' = DOMAIN registered \ {f}
         /\ \A g \in DOMAIN registered' : registered'[g] = registered[g]
         /\ \A g \in Fds : sock'[g] = IF g = f THEN 0 ELSE sock[g]
         /\ InUse' = InUse \ {hinfo[f]}
         /\ Garbage' = Garbage \cup {hinfo[f]} /\ IsInjective(garbage_can')
         /\ active_connect_num' = (active_connect_num - 1) % SizeMod
<1>1. /\ f \in DOMAIN registered /\ registered[f].info = hinfo[f] /\ fd[hinfo[f]] = f
      /\ \A g \in DOMAIN registered : fd[registered[g].info] = g
  BY DEF PlacesInv, BatchInv
<1>2. /\ DOMAIN registered' = DOMAIN registered \ {f}
      /\ \A g \in DOMAIN registered' : registered'[g] = registered[g]
      /\ \A g \in Fds : sock'[g] = IF g = f THEN 0 ELSE sock[g]
      /\ garbage_can' = Append(garbage_can, hinfo[f])
      /\ active_connect_num' = (active_connect_num - 1) % SizeMod
  <2> DEFINE i == hinfo[f]
  <2>1. CloseConnection(i) /\ fd[i] = f
    BY <1>1
  <2> HIDE DEF i
  <2>2. /\ DOMAIN registered' = DOMAIN registered \ {fd[i]}
        /\ \A g \in DOMAIN registered' : registered'[g] = registered[g]
        /\ \A g \in Fds : sock'[g] = IF g = fd[i] THEN 0 ELSE sock[g]
        /\ garbage_can' = Append(garbage_can, i)
        /\ active_connect_num' = (active_connect_num - 1) % SizeMod
    BY <2>1, Closed
  <2> QED
    BY <2>1, <2>2 DEF i
<1>3. InUse' = InUse \ {hinfo[f]} /\ hinfo[f] \in InUse
  BY <1>1, <1>2 DEF InUse
<1>4. /\ garbage_can \in Seq(Infos) /\ hinfo[f] \in Infos /\ IsInjective(garbage_can)
      /\ hinfo[f] \notin Range(garbage_can)
  BY <1>3 DEF SharedTypes, TypeOK, LocalsOK, Taken, PlacesInv, Garbage
<1>5. Range(garbage_can') = Range(garbage_can) \cup {hinfo[f]} /\ IsInjective(garbage_can')
  BY <1>2, <1>4, AppendDistinct
<1> QED
  BY <1>1, <1>2, <1>3, <1>5 DEF Garbage

(* Without a disturbance mod_fd_in_epoll changes the mode only.            *)
SameDescriptors ==
  /\ DOMAIN registered' = DOMAIN registered
  /\ \A f \in DOMAIN registered : registered'[f].info = registered[f].info

LEMMA ControlEffect ==
  /\ \A f \in Fds : PlacesInv /\ BatchInv /\ Undisturbed' /\ ListenControl(f) => SameDescriptors
  /\ \A t \in Apps : Undisturbed' /\ ArmControl(t) => SameDescriptors
  /\ UNCHANGED registered => SameDescriptors
  /\ SameDescriptors => UNCHANGED InUse
<1>1. ASSUME NEW g, ControlEpoll(g), g \in DOMAIN registered => event.info = registered[g].info
      PROVE  SameDescriptors
  BY <1>1, Controlled DEF SameDescriptors
<1>2. ASSUME NEW f \in Fds, PlacesInv, BatchInv, Undisturbed', ListenControl(f) PROVE SameDescriptors
  <2>1. hpc[f] = "ctl" /\ ControlEpoll(fd[hinfo[f]])
    BY <1>2 DEF ListenControl
  <2>2. registered[f].info = hinfo[f] /\ fd[hinfo[f]] = f
    BY <1>2, <2>1 DEF PlacesInv, BatchInv
  <2>3. fd[hinfo[f]] \in DOMAIN registered => event = [mode |-> "in", info |-> hinfo[f]]
    BY <1>2 DEF ListenControl, Mixed, Undisturbed
  <2> QED
    BY <1>1, <2>1, <2>2, <2>3
<1>3. ASSUME NEW t \in Apps, Undisturbed', ArmControl(t) PROVE SameDescriptors
  <2>1. ControlEpoll(targs[t].fd)
    BY <1>3 DEF ArmControl
  <2>2. targs[t].fd \in DOMAIN registered =>
          /\ event = [mode |-> "out", info |-> targs[t].info]
          /\ registered[targs[t].fd].info = targs[t].info
    BY <1>3 DEF ArmControl, Mixed, Undisturbed
  <2> QED
    BY <1>1, <2>1, <2>2
<1>4. SameDescriptors => UNCHANGED InUse
  BY DEF SameDescriptors, InUse
<1> QED
  BY <1>2, <1>3, <1>4 DEF SameDescriptors

(* A disturbance is not forgotten.                                         *)
LEMMA DisturbanceStays == [Next]_vars /\ Undisturbed' => Undisturbed
BY DEF Undisturbed, Next, vars, historyVars, EpollWait, AcceptHandler, TurnAway, AcceptClient, TakeInfo,
  AddToEpoll, AddFails, Collector, BeginRound, Collect, Handler, RecvData, RecvNothing, FrontPackage,
  SendPackage, ListenFill, ListenControl, Application, AsynRead, FindEntry, ReleasePackage, ArmFill,
  ArmControl

(***************************************************************************)
(* Every step keeps each connection_info in one place.                     *)
(***************************************************************************)
LEMMA PlacesStep ==
  ASSUME SharedTypes, PlacesInv, BatchInv, Next, Undisturbed'
  PROVE  PlacesInv'
<1> USE DEF acceptVars, handlerVars, appVars, gcVars, infoVars, historyVars
<1>1. /\ i_pool \in Seq(Infos) /\ garbage_can \in Seq(Infos) /\ sock \in [Fds -> 0 .. MaxConns]
      /\ fd \in [Infos -> Int] /\ DOMAIN registered \subseteq Fds /\ 0 \notin Infos
      /\ \A f \in DOMAIN registered : registered[f].info \in Infos
      /\ apc \in {"get", "add"} => afd \in Fds
      /\ conns \in Nat
  BY ConnectionsAssumption DEF SharedTypes, TypeOK, LocalsOK, QueuesOK, Infos
<1>2. /\ IsInjective(i_pool) /\ IsInjective(garbage_can)
      /\ Infos = Pooled \cup InUse \cup Garbage \cup Accepting
      /\ Pooled \cap InUse = {} /\ Pooled \cap Garbage = {} /\ Pooled \cap Accepting = {}
      /\ InUse \cap Garbage = {} /\ Accepting \cap (InUse \cup Garbage) = {}
      /\ ainfo = 0 <=> apc # "add"
      /\ \A f \in DOMAIN registered : fd[registered[f].info] = f /\ sock[f] # 0
  BY DEF PlacesInv, Owners
<1>3. ASSUME UNCHANGED <<i_pool, garbage_can, ainfo, fd, sock>>, SameDescriptors,
             apc' = "add" <=> apc = "add"
      PROVE  PlacesInv'
  <2>1. InUse' = InUse /\ Pooled' = Pooled /\ Garbage' = Garbage /\ Accepting' = Accepting
    BY <1>3, ControlEffect DEF Pooled, Garbage, Accepting
  <2> QED
    BY <1>2, <1>3, <2>1 DEF PlacesInv, Owners, SameDescriptors
<1>4. CASE EpollWait \/ TurnAway \/ BeginRound
  BY <1>2, <1>3, <1>4, ControlEffect DEF EpollWait, TurnAway, BeginRound
<1>5. CASE AcceptClient
  <2>1. PICK f \in Fds : sock[f] = 0 /\ sock' = [sock EXCEPT ![f] = conns + 1]
    BY <1>5 DEF AcceptClient
  <2>2. \A g \in DOMAIN registered : sock'[g] # 0
    BY <1>1, <1>2, <2>1
  <2>3. /\ UNCHANGED <<i_pool, garbage_can, ainfo, fd, registered>> /\ apc = "accept" /\ apc' = "get"
    BY <1>5 DEF AcceptClient
  <2>4. InUse' = InUse /\ Pooled' = Pooled /\ Garbage' = Garbage /\ Accepting' = Accepting
    BY <2>3 DEF InUse, Pooled, Garbage, Accepting
  <2> QED
    BY <1>2, <2>2, <2>3, <2>4 DEF PlacesInv, Owners
<1>6. CASE TakeInfo
  <2>1. /\ i_pool # <<>> /\ apc = "get" /\ apc' = "add" /\ ainfo' = Head(i_pool)
        /\ i_pool' = Tail(i_pool) /\ fd' = [fd EXCEPT ![ainfo'] = afd]
        /\ UNCHANGED <<garbage_can, registered, sock>>
    BY <1>6 DEF TakeInfo
  <2>2. /\ IsInjective(i_pool') /\ ainfo' \in Pooled /\ Pooled' = Pooled \ {ainfo'}
    BY <1>1, <1>2, <2>1, TailDistinct DEF Pooled
  <2>3. InUse' = InUse /\ Garbage' = Garbage /\ Accepting' = {ainfo'} /\ Accepting = {}
    BY <2>1 DEF InUse, Garbage, Accepting
  <2>4. ainfo' # 0
    BY <1>1, <1>2, <2>2
  <2>5. \A f \in DOMAIN registered : fd'[registered[f].info] = fd[registered[f].info]
    <3>1. \A f \in DOMAIN registered : registered[f].info # ainfo'
      BY <1>2, <2>2 DEF InUse
    <3> QED
      BY <1>1, <2>1, <3>1
  <2> QED
    BY <1>2, <2>1, <2>2, <2>3, <2>4, <2>5 DEF PlacesInv, Owners
<1>7. CASE AddToEpoll
  <2>1. /\ DOMAIN registered' = DOMAIN registered \cup {afd}
        /\ \A g \in DOMAIN registered' :
             registered'[g] = IF g = afd THEN [mode |-> "in", info |-> ainfo] ELSE registered[g]
        /\ apc = "add" /\ apc' = "idle" /\ ainfo' = 0
        /\ UNCHANGED <<i_pool, garbage_can, fd, sock>>
    BY <1>7 DEF AddToEpoll, LeaveAccept
  <2>2. afd \notin DOMAIN registered /\ sock[afd] # 0 /\ fd[ainfo] = afd
    BY <2>1 DEF BatchInv
  <2>3. InUse' = InUse \cup {ainfo}
    BY <2>1, <2>2 DEF InUse
  <2>4. Pooled' = Pooled /\ Garbage' = Garbage /\ Accepting = {ainfo} /\ Accepting' = {}
    BY <2>1 DEF Pooled, Garbage, Accepting
  <2> QED
    BY <1>2, <2>1, <2>2, <2>3, <2>4 DEF PlacesInv, Owners
<1>8. CASE AddFails
  <2>1. /\ sock' = [sock EXCEPT ![afd] = 0] /\ garbage_can' = Append(garbage_can, ainfo)
        /\ apc = "add" /\ apc' = "idle" /\ ainfo' = 0
        /\ UNCHANGED <<i_pool, registered, fd>>
    BY <1>8 DEF AddFails, LeaveAccept
  <2>2. Pooled' = Pooled /\ InUse' = InUse /\ Accepting = {ainfo} /\ Accepting' = {}
    BY <2>1 DEF Pooled, InUse, Accepting
  <2>3. IsInjective(garbage_can') /\ Garbage' = Garbage \cup {ainfo}
    BY <1>1, <1>2, <2>1, <2>2, AppendDistinct DEF Garbage
  <2>4. \A f \in DOMAIN registered : sock'[f] = sock[f]
    BY <1>1, <2>1 DEF BatchInv
  <2> QED
    BY <1>2, <2>1, <2>2, <2>3, <2>4 DEF PlacesInv, Owners
<1>9. ASSUME NEW f \in Fds, hpc[f] # "idle", CloseConnection(hinfo[f]),
             UNCHANGED <<i_pool, ainfo, fd, apc>>
      PROVE  PlacesInv'
  <2>1. /\ InUse' = InUse \ {hinfo[f]} /\ Garbage' = Garbage \cup {hinfo[f]} /\ hinfo[f] \in InUse
        /\ IsInjective(garbage_can')
        /\ DOMAIN registered' = DOMAIN registered \ {f}
        /\ \A g \in DOMAIN registered' : registered'[g] = registered[g]
        /\ \A g \in Fds : sock'[g] = IF g = f THEN 0 ELSE sock[g]
    BY <1>9, CloseEffect
  <2>2. Pooled' = Pooled /\ Accepting' = Accepting
    BY <1>9 DEF Pooled, Accepting
  <2>3. \A g \in DOMAIN registered' : fd'[registered'[g].info] = g /\ sock'[g] # 0
    BY <1>1, <1>2, <1>9, <2>1
  <2> QED
    BY <1>2, <1>9, <2>1, <2>2, <2>3 DEF PlacesInv, Owners
<1>10. CASE Collect
  <2>1. /\ garbage_can # <<>> /\ i_pool' = Append(i_pool, Head(garbage_can))
        /\ garbage_can' = Tail(garbage_can) /\ UNCHANGED <<ainfo, apc, fd, sock, registered>>
    BY <1>10 DEF Collect
  <2>2. /\ Head(garbage_can) \in Garbage /\ Garbage' = Garbage \ {Head(garbage_can)}
        /\ IsInjective(garbage_can') /\ Head(garbage_can) \in Infos
    BY <1>1, <1>2, <2>1, TailDistinct DEF Garbage
  <2>3. IsInjective(i_pool') /\ Pooled' = Pooled \cup {Head(garbage_can)}
    BY <1>1, <1>2, <2>1, <2>2, AppendDistinct DEF Pooled
  <2>4. InUse' = InUse /\ Accepting' = Accepting
    BY <2>1 DEF InUse, Accepting
  <2> QED
    BY <1>2, <2>1, <2>2, <2>3, <2>4 DEF PlacesInv, Owners
<1>11. ASSUME NEW f \in Fds, Handler(f) PROVE PlacesInv'
  <2>1. CASE RecvData(f) \/ FrontPackage(f) \/ ListenFill(f) \/ ListenControl(f)
    BY <1>3, <2>1, ControlEffect DEF RecvData, FrontPackage, ListenFill, ListenControl
  <2>2. CASE RecvNothing(f)
    BY <1>9, <2>2 DEF RecvNothing
  <2>3. CASE SendPackage(f)
    BY <1>3, <1>9, <2>3, ControlEffect DEF SendPackage
  <2> QED
    BY <1>11, <2>1, <2>2, <2>3 DEF Handler
<1>12. ASSUME NEW t \in Apps, Application(t) PROVE PlacesInv'
  BY <1>3, <1>12, ControlEffect DEF Application, AsynRead, FindEntry, ReleasePackage, ArmFill, ArmControl
<1> QED
  BY <1>4, <1>5, <1>6, <1>7, <1>8, <1>10, <1>11, <1>12 DEF Next, AcceptHandler, Collector

(***************************************************************************)
(* The lists, as the steps change them                                     *)
(***************************************************************************)
ListsKept == \A j : (ListOf(j))' = ListOf(j)

LEMMA TakeEffect ==
  ASSUME SharedTypes, PlacesInv, TakeInfo, Undisturbed'
  PROVE  /\ UNCHANGED <<InUse, Garbage>> /\ Accepting = {} /\ Accepting' = {ainfo'}
         /\ ainfo' \in Infos /\ ainfo' \notin Owners
         /\ \A i \in Owners : /\ connection_id'[i] = connection_id[i]
                              /\ connection_id'[i] # connection_id'[ainfo']
         /\ DOMAIN write_cache' = DOMAIN write_cache \cup {connection_id'[ainfo']}
         /\ ListsKept
<1>1. /\ i_pool # <<>> /\ apc = "get" /\ apc' = "add" /\ ainfo' = Head(i_pool)
      /\ UNCHANGED <<garbage_can, registered>>
  BY DEF TakeInfo
<1>2. PICK id \in Ids : /\ connection_id' = [connection_id EXCEPT ![ainfo'] = id]
                        /\ write_cache' = WithEntry(id)
                        /\ disturbed' = IF Users(id) # {} THEN disturbed \cup {"shared"} ELSE disturbed
  BY DEF TakeInfo
<1>3. ainfo' \in Pooled /\ ainfo' \in Infos
  BY <1>1, TailDistinct DEF Pooled, PlacesInv, SharedTypes, TypeOK
<1>4. ainfo' \notin Owners
  BY <1>3 DEF PlacesInv
<1>5. InUse' = InUse /\ Garbage' = Garbage /\ Accepting = {} /\ Accepting' = {ainfo'}
  BY <1>1 DEF InUse, Garbage, Accepting
<1>6. Users(id) = {}
  BY <1>2 DEF Undisturbed
<1>7. Owners = InUse \cup Garbage /\ Owners \subseteq Infos
  BY <1>5 DEF Owners, PlacesInv
<1>8. \A i \in Owners : connection_id[i] # id
  BY <1>6, <1>7 DEF Users, InUse, Garbage, Range
<1>9. connection_id \in [Infos -> AllIds]
  BY DEF SharedTypes, TypeOK
<1>10. /\ connection_id'[ainfo'] = id
       /\ \A i \in Owners : connection_id'[i] = connection_id[i]
  BY <1>2, <1>3, <1>4, <1>7, <1>9
<1>11. DOMAIN write_cache' = DOMAIN write_cache \cup {id} /\ ListsKept
  BY <1>2, EntryMade DEF ListsKept
<1> QED
  BY <1>3, <1>4, <1>5, <1>8, <1>10, <1>11

LEMMA CollectEffect ==
  ASSUME SharedTypes, PlacesInv, IdsInv, Collect
  PROVE  \E c \in Garbage :
           /\ UNCHANGED <<InUse, Accepting, connection_id>> /\ Garbage' = Garbage \ {c}
           /\ \A i \in Owners : i # c => connection_id[i] # connection_id[c]
           /\ \A j : j # connection_id[c] =>
                (ListOf(j))' = ListOf(j) /\ (j \in DOMAIN write_cache => j \in DOMAIN write_cache')
           /\ \A j : j = connection_id[c] => (ListOf(j))' = <<>>
<1> DEFINE c == Head(garbage_can)
           id == connection_id[c]
<1>1. /\ garbage_can # <<>> /\ garbage_can' = Tail(garbage_can)
      /\ UNCHANGED <<ainfo, apc, registered, connection_id>>
      /\ write_cache' = IF ListOf(id) = <<>> THEN WithEntry(id)
                                             ELSE Restrict(write_cache, DOMAIN write_cache \ {id})
  BY DEF Collect, infoVars, acceptVars
<1>2. /\ garbage_can \in Seq(Infos) /\ IsInjective(garbage_can)
  BY DEF SharedTypes, TypeOK, PlacesInv
<1>3. c \in Garbage /\ Garbage' = Garbage \ {c}
  BY <1>1, <1>2, TailDistinct DEF Garbage
<1>4. UNCHANGED <<InUse, Accepting>>
  BY <1>1 DEF InUse, Accepting
<1> HIDE DEF c
<1>5. \A i \in Owners : i # c => connection_id[i] # id
  BY <1>3 DEF IdsInv, Owners
<1> HIDE DEF id
<1>6. /\ \A j : j # id => (ListOf(j))' = ListOf(j) /\ (j \in DOMAIN write_cache => j \in DOMAIN write_cache')
      /\ \A j : j = id => (ListOf(j))' = <<>>
  <2>1. CASE ListOf(id) = <<>>
    <3>1. write_cache' = WithEntry(id)
      BY <1>1, <2>1
    <3>2. /\ DOMAIN write_cache' = DOMAIN write_cache \cup {id}
          /\ \A j : (ListOf(j))' = ListOf(j)
      BY <3>1, EntryMade
    <3> QED
      BY <2>1, <3>2
  <2>2. CASE ListOf(id) # <<>>
    <3>1. write_cache' = Restrict(write_cache, DOMAIN write_cache \ {id})
      BY <1>1, <2>2
    <3>2. /\ DOMAIN write_cache' = DOMAIN write_cache \ {id}
          /\ \A j : (ListOf(j))' = IF j = id THEN <<>> ELSE ListOf(j)
      BY <3>1, EntryErased
    <3> QED
      BY <3>2
  <2> QED
    BY <2>1, <2>2
<1> QED
  BY <1>1, <1>3, <1>4, <1>5, <1>6 DEF id

LEMMA SendEffect ==
  ASSUME SharedTypes, NEW f \in Fds, SendPackage(f)
  PROVE  /\ DOMAIN write_cache' = DOMAIN write_cache
         /\ \A j : \/ (ListOf(j))' = ListOf(j)
                  \/ /\ j = connection_id[hinfo[f]]
                     /\ ListOf(j) # <<>> /\ (ListOf(j))' = Tail(ListOf(j))
<1> DEFINE id == connection_id[hinfo[f]]
<1>1. \/ UNCHANGED write_cache
      \/ ListOf(id) # <<>> /\ write_cache' = [write_cache EXCEPT ![id] = Tail(@)]
  BY DEF SendPackage
<1>2. CASE UNCHANGED write_cache
  BY <1>2 DEF ListOf
<1>3. CASE ListOf(id) # <<>> /\ write_cache' = [write_cache EXCEPT ![id] = Tail(@)]
  <2> HIDE DEF id
  <2>1. id \in DOMAIN write_cache /\ ListOf(id) = write_cache[id]
    BY <1>3 DEF ListOf
  <2>2. write_cache' = [write_cache EXCEPT ![id] = Tail(ListOf(id))]
    BY <1>3, <2>1
  <2>3. /\ DOMAIN write_cache' = DOMAIN write_cache
        /\ \A j : (ListOf(j))' = IF j = id THEN Tail(ListOf(id)) ELSE ListOf(j)
    BY <2>1, <2>2, EntrySet
  <2> QED
    BY <1>3, <2>3 DEF id
<1> QED
  BY <1>1, <1>2, <1>3

(* An answer that finds an entry is one to a connection that is open.      *)
LEMMA FindEffect ==
  ASSUME SharedTypes, RequestsInv, NEW t \in Apps, FindEntry(t), Undisturbed'
  PROVE  /\ DOMAIN write_cache' = DOMAIN write_cache
         /\ \/ ListsKept
            \/ \E f \in DOMAIN registered, a \in Answers :
                 /\ a.conn = sock[f]
                 /\ \A j : (ListOf(j))' = IF j = connection_id[registered[f].info]
                                          THEN Append(ListOf(j), a) ELSE ListOf(j)
<1> DEFINE id == connection_id[treq[t].info]
<1>1. PICK close \in BOOLEAN :
         \/ /\ id \in DOMAIN write_cache
            /\ write_cache' = [write_cache EXCEPT ![id] =
                                 Append(@, [n |-> treq[t].n, conn |-> treq[t].conn, close |-> close])]
            /\ disturbed' = IF Open(treq[t].conn) THEN disturbed ELSE disturbed \cup {"late"}
         \/ UNCHANGED write_cache
  BY DEF FindEntry
<1>2. CASE UNCHANGED write_cache
  BY <1>2 DEF ListOf, ListsKept
<1> DEFINE a == [n |-> treq[t].n, conn |-> treq[t].conn, close |-> close]
<1>3. CASE /\ id \in DOMAIN write_cache
           /\ write_cache' = [write_cache EXCEPT ![id] = Append(@, a)]
           /\ disturbed' = IF Open(treq[t].conn) THEN disturbed ELSE disturbed \cup {"late"}
  <2>1. Open(treq[t].conn)
    BY <1>3 DEF Undisturbed
  <2>2. PICK f \in Fds : sock[f] = treq[t].conn
    BY <2>1 DEF Open
  <2>3. f \in DOMAIN registered /\ registered[f].info = treq[t].info
    BY <2>2 DEF FindEntry, RequestsInv, RequestOf
  <2>4. a \in Answers /\ a.conn = sock[f]
    BY <2>2 DEF Answers, SharedTypes, LocalsOK
  <2> HIDE DEF a
  <2>5. write_cache' = [write_cache EXCEPT ![id] = Append(ListOf(id), a)]
    BY <1>3 DEF ListOf
  <2>6. /\ DOMAIN write_cache' = DOMAIN write_cache
        /\ \A j : (ListOf(j))' = IF j = id THEN Append(ListOf(id), a) ELSE ListOf(j)
    <3> HIDE DEF id
    <3> QED
      BY <1>3, <2>5, EntrySet
  <2> QED
    BY <2>3, <2>4, <2>6
<1> QED
  BY <1>1, <1>2, <1>3

(***************************************************************************)
(* Every step keeps the descriptors of a batch and their number.           *)
(***************************************************************************)
LEMMA BatchStep ==
  ASSUME SharedTypes, PlacesInv, BatchInv, Next, Undisturbed'
  PROVE  BatchInv'
<1> USE DEF acceptVars, handlerVars, appVars, gcVars, infoVars, historyVars
<1>1. /\ sock \in [Fds -> 0 .. MaxConns] /\ fd \in [Infos -> Int] /\ DOMAIN registered \subseteq Fds
      /\ hpc \in [Fds -> {"idle", "read", "write", "listen", "send", "ctl"}]
      /\ hinfo \in [Fds -> 0 .. NumInfos]
      /\ apc \in {"get", "add"} => afd \in Fds
      /\ conns \in Nat
  BY ConnectionsAssumption DEF SharedTypes, TypeOK, LocalsOK, QueuesOK
<1>2. /\ apc \in {"get", "add"} => sock[afd] # 0 /\ afd \notin DOMAIN registered
      /\ apc = "add" => fd[ainfo] = afd
      /\ \A f \in Fds : hpc[f] # "idle" => f \in DOMAIN registered /\ registered[f].info = hinfo[f]
  BY DEF BatchInv
<1>3. ASSUME UNCHANGED <<sock, apc, afd, ainfo, fd>>, SameDescriptors,
             \A f \in Fds : hpc'[f] # "idle" => hpc[f] # "idle" /\ hinfo'[f] = hinfo[f]
      PROVE  BatchInv'
  BY <1>2, <1>3 DEF BatchInv, SameDescriptors
<1>4. CASE EpollWait
  <2>1. PICK ready \in SUBSET DOMAIN registered, client \in BOOLEAN :
           /\ apc' = IF client THEN "accept" ELSE "idle"
           /\ hpc' = [f \in Fds |-> IF f \notin ready THEN "idle"
                                    ELSE IF registered[f].mode = "in" THEN "read" ELSE "write"]
           /\ hinfo' = [f \in Fds |-> IF f \in ready THEN registered[f].info ELSE 0]
    BY <1>4 DEF EpollWait
  <2> QED
    BY <1>4, <2>1 DEF EpollWait, BatchInv
<1>5. CASE TurnAway
  BY <1>2, <1>5 DEF TurnAway, BatchInv
<1>6. CASE AcceptClient
  <2>1. PICK f \in Fds : sock[f] = 0 /\ sock' = [sock EXCEPT ![f] = conns + 1] /\ afd' = f
    BY <1>6 DEF AcceptClient
  <2>2. sock'[f] # 0 /\ f \notin DOMAIN registered
    BY <1>1, <2>1 DEF PlacesInv
  <2> QED
    BY <1>2, <1>6, <2>1, <2>2 DEF AcceptClient, BatchInv
<1>7. CASE TakeInfo
  <2>1. ainfo' \in Infos
    BY <1>7, TakeEffect
  <2>2. fd'[ainfo'] = afd
    BY <1>1, <1>7, <2>1 DEF TakeInfo
  <2> QED
    BY <1>2, <1>7, <2>2 DEF TakeInfo, BatchInv
<1>8. CASE AddToEpoll
  <2>1. /\ DOMAIN registered' = DOMAIN registered \cup {afd}
        /\ \A g \in DOMAIN registered : g # afd => registered'[g] = registered[g]
        /\ apc = "add" /\ apc' = "idle" /\ UNCHANGED <<hpc, hinfo>>
    BY <1>8 DEF AddToEpoll, LeaveAccept
  <2> QED
    BY <1>2, <2>1 DEF BatchInv
<1>9. CASE AddFails
  BY <1>2, <1>9 DEF AddFails, LeaveAccept, BatchInv
<1>10. ASSUME NEW f \in Fds, hpc[f] # "idle", CloseConnection(hinfo[f]), LeaveHandler(f),
              UNCHANGED <<apc, afd, ainfo, fd>>
       PROVE  BatchInv'
  <2>1. /\ f \in DOMAIN registered
        /\ DOMAIN registered' = DOMAIN registered \ {f}
        /\ \A g \in DOMAIN registered' : registered'[g] = registered[g]
        /\ \A g \in Fds : sock'[g] = IF g = f THEN 0 ELSE sock[g]
    BY <1>10, CloseEffect
  <2>2. \A g \in Fds : hpc'[g] # "idle" => g # f /\ hpc[g] # "idle" /\ hinfo'[g] = hinfo[g]
    BY <1>1, <1>10 DEF LeaveHandler
  <2>3. apc \in {"get", "add"} => sock'[afd] # 0
    BY <1>1, <1>2, <2>1
  <2> QED
    BY <1>2, <1>10, <2>1, <2>2, <2>3 DEF BatchInv
<1>11. ASSUME NEW f \in Fds, Handler(f) PROVE BatchInv'
  <2>1. CASE RecvData(f) \/ FrontPackage(f) \/ ListenFill(f) \/ ListenControl(f)
    <3>1. SameDescriptors
      BY <2>1, ControlEffect DEF RecvData, FrontPackage, ListenFill
    <3>2. \A g \in Fds : hpc'[g] # "idle" => hpc[g] # "idle" /\ hinfo'[g] = hinfo[g]
      BY <1>1, <2>1 DEF RecvData, FrontPackage, ListenFill, ListenControl, LeaveHandler
    <3> QED
      BY <1>3, <2>1, <3>1, <3>2 DEF RecvData, FrontPackage, ListenFill, ListenControl
  <2>2. CASE RecvNothing(f)
    BY <1>10, <2>2 DEF RecvNothing
  <2>3. CASE SendPackage(f)
    <3>1. CASE CloseConnection(hinfo[f])
      BY <1>10, <2>3, <3>1 DEF SendPackage
    <3>2. CASE UNCHANGED <<sock, registered, active_connect_num, garbage_can>>
      <4>1. \A g \in Fds : hpc'[g] # "idle" => hpc[g] # "idle" /\ hinfo'[g] = hinfo[g]
        BY <1>1, <2>3 DEF SendPackage, LeaveHandler
      <4> QED
        BY <1>3, <2>3, <3>2, <4>1, ControlEffect DEF SendPackage
    <3> QED
      BY <2>3, <3>1, <3>2 DEF SendPackage
  <2> QED
    BY <1>11, <2>1, <2>2, <2>3 DEF Handler
<1>12. ASSUME NEW t \in Apps, Application(t) PROVE BatchInv'
  BY <1>3, <1>12, ControlEffect DEF Application, AsynRead, FindEntry, ReleasePackage, ArmFill, ArmControl
<1>13. CASE Collector
  BY <1>3, <1>13, ControlEffect DEF Collector, BeginRound, Collect
<1> QED
  BY <1>4, <1>5, <1>6, <1>7, <1>8, <1>9, <1>11, <1>12, <1>13 DEF Next, AcceptHandler

LEMMA CountStep ==
  ASSUME SharedTypes, PlacesInv, BatchInv, CountInv, Next, Undisturbed'
  PROVE  CountInv'
<1> USE DEF acceptVars, handlerVars, appVars, gcVars, infoVars, historyVars
<1> DEFINE D == DOMAIN registered
           n == active_connect_num
<1>1. /\ n = Cardinality(D) /\ n \in 0 .. SizeMod - 1 /\ n <= ConnectLimit
      /\ apc \in {"get", "add"} => n < ConnectLimit
      /\ SizeMod \in Nat /\ ConnectLimit \in 0 .. SizeMod - 1
  BY ConnectionsAssumption DEF CountInv, SharedTypes, TypeOK
<1>2. IsFiniteSet(D)
  <2>1. IsFiniteSet(Fds)
    BY ConnectionsAssumption, FS_Interval DEF Fds
  <2> QED
    BY <2>1, FS_Subset DEF SharedTypes, TypeOK
<1>3. ASSUME UNCHANGED n, DOMAIN registered' = D,
             apc' \in {"get", "add"} => apc \in {"get", "add"} \/ n < ConnectLimit
      PROVE  CountInv'
  BY <1>1, <1>3 DEF CountInv
<1>4. CASE AddToEpoll
  <2>1. /\ apc = "add" /\ apc' = "idle" /\ n' = (n + 1) % SizeMod /\ DOMAIN registered' = D \cup {afd}
    BY <1>4 DEF AddToEpoll, LeaveAccept
  <2>2. afd \notin D
    BY <2>1 DEF BatchInv
  <2>3. Cardinality(D \cup {afd}) = Cardinality(D) + 1
    BY <1>2, <2>2, FS_AddElement
  <2>4. n' = n + 1 /\ n' <= ConnectLimit
    <3>1. n + 1 < SizeMod /\ n + 1 <= ConnectLimit
      BY <1>1, <2>1
    <3> QED
      BY <1>1, <2>1, <3>1, CountExact
  <2> QED
    BY <1>1, <2>1, <2>3, <2>4 DEF CountInv
<1>5. ASSUME NEW f \in Fds, hpc[f] # "idle", CloseConnection(hinfo[f]), UNCHANGED apc
      PROVE  CountInv'
  <2>1. f \in D /\ DOMAIN registered' = D \ {f} /\ n' = (n - 1) % SizeMod
    BY <1>5, CloseEffect
  <2>2. Cardinality(D \ {f}) = Cardinality(D) - 1
    BY <1>2, <2>1, FS_RemoveElement
  <2>3. Cardinality(D) # 0
    BY <1>2, <2>1, FS_EmptySet
  <2>4. n > 0 /\ n' = n - 1
    <3>1. n > 0
      BY <1>1, <2>3
    <3> QED
      BY <1>1, <2>1, <3>1, CountExact
  <2> QED
    BY <1>1, <1>5, <2>1, <2>2, <2>4 DEF CountInv
<1>6. CASE EpollWait \/ TurnAway \/ AcceptClient \/ TakeInfo \/ AddFails
  BY <1>3, <1>6 DEF EpollWait, TurnAway, AcceptClient, TakeInfo, AddFails, LeaveAccept
<1>7. CASE Collector
  BY <1>3, <1>7 DEF Collector, BeginRound, Collect
<1>8. ASSUME NEW f \in Fds, Handler(f) PROVE CountInv'
  <2>1. CASE RecvData(f) \/ FrontPackage(f) \/ ListenFill(f) \/ ListenControl(f)
    <3>1. DOMAIN registered' = D
      BY <2>1, Controlled DEF RecvData, FrontPackage, ListenFill, ListenControl
    <3> QED
      BY <1>3, <2>1, <3>1 DEF RecvData, FrontPackage, ListenFill, ListenControl
  <2>2. CASE RecvNothing(f)
    BY <1>5, <2>2 DEF RecvNothing
  <2>3. CASE SendPackage(f)
    BY <1>3, <1>5, <2>3 DEF SendPackage
  <2> QED
    BY <1>8, <2>1, <2>2, <2>3 DEF Handler
<1>9. ASSUME NEW t \in Apps, Application(t) PROVE CountInv'
  <2>1. DOMAIN registered' = D
    BY <1>9, Controlled DEF Application, AsynRead, FindEntry, ReleasePackage, ArmFill, ArmControl
  <2> QED
    BY <1>3, <1>9, <2>1 DEF Application, AsynRead, FindEntry, ReleasePackage, ArmFill, ArmControl
<1> QED
  BY <1>4, <1>6, <1>7, <1>8, <1>9 DEF Next, AcceptHandler

(***************************************************************************)
(* Who owns an entry changes when a connection_info is taken from the pool *)
(* and when it is collected; all other steps pass the owners on, from      *)
(* accept_handler to epoll and from there to garbage_can.                  *)
(***************************************************************************)
LEMMA OwnersEffect ==
  ASSUME SharedTypes, PlacesInv, BatchInv, Next, Undisturbed'
  PROVE  \/ TakeInfo
         \/ Collect
         \/ /\ UNCHANGED connection_id
            /\ InUse' \cup Accepting' \subseteq InUse \cup Accepting
            /\ InUse \cup Garbage \subseteq InUse' \cup Garbage'
            /\ Owners' \subseteq Owners
<1> USE DEF acceptVars, handlerVars, appVars, gcVars, infoVars, historyVars
<1> DEFINE Passed == /\ UNCHANGED connection_id
                     /\ InUse' \cup Accepting' \subseteq InUse \cup Accepting
                     /\ InUse \cup Garbage \subseteq InUse' \cup Garbage'
                     /\ Owners' \subseteq Owners
<1>1. ASSUME UNCHANGED <<garbage_can, ainfo, connection_id>>, SameDescriptors, apc' = "add" <=> apc = "add"
      PROVE  Passed
  <2>1. InUse' = InUse /\ Garbage' = Garbage /\ Accepting' = Accepting
    BY <1>1, ControlEffect DEF Garbage, Accepting
  <2> QED
    BY <1>1, <2>1 DEF Owners
<1>2. CASE EpollWait \/ TurnAway \/ AcceptClient \/ BeginRound
  BY <1>1, <1>2, ControlEffect DEF EpollWait, TurnAway, AcceptClient, BeginRound
<1>3. CASE AddToEpoll
  <2>1. /\ DOMAIN registered' = DOMAIN registered \cup {afd}
        /\ \A g \in DOMAIN registered' :
             registered'[g] = IF g = afd THEN [mode |-> "in", info |-> ainfo] ELSE registered[g]
        /\ apc = "add" /\ apc' = "idle" /\ UNCHANGED <<garbage_can, connection_id>>
    BY <1>3 DEF AddToEpoll, LeaveAccept
  <2>2. afd \notin DOMAIN registered
    BY <2>1 DEF BatchInv
  <2>3. InUse' = InUse \cup {ainfo} /\ Accepting = {ainfo} /\ Accepting' = {} /\ Garbage' = Garbage
    BY <2>1, <2>2 DEF InUse, Accepting, Garbage
  <2> QED
    BY <2>1, <2>3 DEF Owners
<1>4. CASE AddFails
  <2>1. /\ garbage_can' = Append(garbage_can, ainfo)
        /\ apc = "add" /\ apc' = "idle" /\ UNCHANGED <<registered, connection_id>>
    BY <1>4 DEF AddFails, LeaveAccept
  <2>2. InUse' = InUse /\ Accepting = {ainfo} /\ Accepting' = {}
    BY <2>1 DEF InUse, Accepting
  <2>3. ainfo \in Infos /\ ainfo \notin Garbage
    BY <2>1, <2>2 DEF SharedTypes, LocalsOK, Taken, PlacesInv
  <2>4. Garbage' = Garbage \cup {ainfo}
    BY <2>1, <2>3, AppendDistinct DEF SharedTypes, TypeOK, PlacesInv, Garbage
  <2> QED
    BY <2>1, <2>2, <2>4 DEF Owners
<1>5. ASSUME NEW f \in Fds, hpc[f] # "idle", CloseConnection(hinfo[f]),
             UNCHANGED <<apc, ainfo, connection_id>>
      PROVE  Passed
  <2>1. InUse' = InUse \ {hinfo[f]} /\ Garbage' = Garbage \cup {hinfo[f]} /\ hinfo[f] \in InUse
    BY <1>5, CloseEffect
  <2>2. Accepting' = Accepting
    BY <1>5 DEF Accepting
  <2> QED
    BY <1>5, <2>1, <2>2 DEF Owners
<1>6. ASSUME NEW f \in Fds, Handler(f) PROVE Passed
  <2>1. CASE RecvData(f) \/ FrontPackage(f) \/ ListenFill(f) \/ ListenControl(f)
    BY <1>1, <2>1, ControlEffect DEF RecvData, FrontPackage, ListenFill, ListenControl
  <2>2. CASE RecvNothing(f)
    BY <1>5, <2>2 DEF RecvNothing
  <2>3. CASE SendPackage(f)
    BY <1>1, <1>5, <2>3, ControlEffect DEF SendPackage
  <2> QED
    BY <1>6, <2>1, <2>2, <2>3 DEF Handler
<1>7. ASSUME NEW t \in Apps, Application(t) PROVE Passed
  BY <1>1, <1>7, ControlEffect DEF Application, AsynRead, FindEntry, ReleasePackage, ArmFill, ArmControl
<1> QED
  BY <1>2, <1>3, <1>4, <1>6, <1>7 DEF Next, AcceptHandler, Collector

(***************************************************************************)
(* The lists change in these steps only, and an entry is never erased but  *)
(* by the collector.                                                       *)
(***************************************************************************)
LEMMA ListsEffect ==
  ASSUME SharedTypes, RequestsInv, Next, Undisturbed'
  PROVE  \/ Collect
         \/ /\ DOMAIN write_cache \subseteq DOMAIN write_cache'
            /\ \/ ListsKept
               \/ \E f \in Fds : SendPackage(f)
               \/ \E t \in Apps : FindEntry(t)
<1> USE DEF acceptVars, handlerVars, appVars, gcVars, infoVars, historyVars
<1> DEFINE Kept == DOMAIN write_cache \subseteq DOMAIN write_cache' /\ ListsKept
<1>1. UNCHANGED write_cache => Kept
  BY DEF ListOf, ListsKept
<1>2. ASSUME NEW id, write_cache' = WithEntry(id) PROVE Kept
  BY <1>2, EntryMade DEF ListsKept
<1>3. CASE EpollWait \/ TurnAway \/ AcceptClient \/ AddToEpoll \/ AddFails \/ BeginRound
  BY <1>1, <1>3 DEF EpollWait, TurnAway, AcceptClient, AddToEpoll, AddFails, BeginRound
<1>4. CASE TakeInfo
  BY <1>2, <1>4 DEF TakeInfo
<1>5. ASSUME NEW f \in Fds, Handler(f) 
       PROVE  Kept \/ (DOMAIN write_cache \subseteq DOMAIN write_cache' /\ SendPackage(f))
  <2>1. CASE RecvData(f) \/ RecvNothing(f) \/ ListenFill(f) \/ ListenControl(f)
    BY <1>1, <2>1 DEF RecvData, RecvNothing, ListenFill, ListenControl
  <2>2. CASE FrontPackage(f)
    BY <1>2, <2>2 DEF FrontPackage
  <2>3. CASE SendPackage(f)
    BY <2>3, SendEffect
  <2> QED
    BY <1>5, <2>1, <2>2, <2>3 DEF Handler
<1>6. ASSUME NEW t \in Apps, Application(t) 
       PROVE  Kept \/ (DOMAIN write_cache \subseteq DOMAIN write_cache' /\ FindEntry(t))
  <2>1. CASE AsynRead(t) \/ ReleasePackage(t) \/ ArmFill(t) \/ ArmControl(t)
    BY <1>1, <2>1 DEF AsynRead, ReleasePackage, ArmFill, ArmControl
  <2>2. CASE FindEntry(t)
    BY <2>2, FindEffect
  <2> QED
    BY <1>6, <2>1, <2>2 DEF Application
<1> QED
  BY <1>3, <1>4, <1>5, <1>6 DEF Next, AcceptHandler, Collector

(* Every step keeps the ids of the owners distinct.                        *)
LEMMA IdsStep ==
  ASSUME SharedTypes, PlacesInv, BatchInv, IdsInv, Next, Undisturbed'
  PROVE  IdsInv'
<1>1. CASE TakeInfo
  <2>1. /\ UNCHANGED <<InUse, Garbage>> /\ Accepting' = {ainfo'} /\ Accepting = {}
        /\ \A i \in Owners : /\ connection_id'[i] = connection_id[i]
                             /\ connection_id'[i] # connection_id'[ainfo']
    BY <1>1, TakeEffect
  <2>2. Owners' = Owners \cup {ainfo'}
    BY <2>1 DEF Owners
  <2> QED
    BY <2>1, <2>2 DEF IdsInv
<1>2. CASE Collect
  <2>1. UNCHANGED <<InUse, Accepting, connection_id>> /\ Garbage' \subseteq Garbage
    BY <1>2, CollectEffect
  <2> QED
    BY <2>1 DEF IdsInv, Owners
<1>3. CASE UNCHANGED connection_id /\ Owners' \subseteq Owners
  BY <1>3 DEF IdsInv
<1> QED
  BY <1>1, <1>2, <1>3, OwnersEffect

(* Every step keeps entries and lists with their owners.                   *)
LEMMA EntriesStep ==
  ASSUME SharedTypes, PlacesInv, BatchInv, IdsInv, EntriesInv, RequestsInv, Next, Undisturbed'
  PROVE  EntriesInv'
<1>1. /\ \A i \in InUse \cup Accepting : connection_id[i] \in DOMAIN write_cache
      /\ \A j : ListOf(j) # <<>> => \E i \in InUse \cup Garbage : connection_id[i] = j
  BY DEF EntriesInv
<1>2. CASE TakeInfo
  <2>1. /\ UNCHANGED <<InUse, Garbage>> /\ Accepting' = {ainfo'} /\ Accepting = {}
        /\ \A i \in Owners : connection_id'[i] = connection_id[i]
        /\ DOMAIN write_cache' = DOMAIN write_cache \cup {connection_id'[ainfo']}
        /\ ListsKept
    BY <1>2, TakeEffect
  <2> QED
    BY <1>1, <2>1 DEF EntriesInv, Owners, ListsKept
<1>3. CASE Collect
  <2>1. PICK c \in Garbage :
           /\ UNCHANGED <<InUse, Accepting, connection_id>> /\ Garbage' = Garbage \ {c}
           /\ \A i \in Owners : i # c => connection_id[i] # connection_id[c]
           /\ \A j : j # connection_id[c] =>
                (ListOf(j))' = ListOf(j) /\ (j \in DOMAIN write_cache => j \in DOMAIN write_cache')
           /\ \A j : j = connection_id[c] => (ListOf(j))' = <<>>
    BY <1>3, CollectEffect
  <2>2. c \notin InUse \cup Accepting
    BY DEF PlacesInv
  <2>3. \A i \in (InUse \cup Accepting)' : connection_id'[i] \in DOMAIN write_cache'
    BY <1>1, <2>1, <2>2 DEF Owners
  <2>4. \A j : (ListOf(j))' # <<>> => \E i \in (InUse \cup Garbage)' : connection_id'[i] = j
    BY <1>1, <2>1
  <2> QED
    BY <2>3, <2>4 DEF EntriesInv
<1>4. CASE /\ ~Collect
           /\ UNCHANGED connection_id
           /\ InUse' \cup Accepting' \subseteq InUse \cup Accepting
           /\ InUse \cup Garbage \subseteq InUse' \cup Garbage'
  <2>1. /\ DOMAIN write_cache \subseteq DOMAIN write_cache'
        /\ ListsKept \/ (\E f \in Fds : SendPackage(f)) \/ (\E t \in Apps : FindEntry(t))
    BY <1>4, ListsEffect
  <2>2. \A j : (ListOf(j))' # <<>> => \E i \in InUse \cup Garbage : connection_id[i] = j
    <3>1. CASE ListsKept
      BY <1>1, <3>1 DEF ListsKept
    <3>2. ASSUME NEW f \in Fds, SendPackage(f)
          PROVE  \A j : (ListOf(j))' # <<>> => \E i \in InUse \cup Garbage : connection_id[i] = j
      <4>1. \A j : (ListOf(j))' = ListOf(j) \/ ListOf(j) # <<>>
        BY <3>2, SendEffect
      <4> QED
        BY <1>1, <4>1
    <3>3. ASSUME NEW t \in Apps, FindEntry(t)
          PROVE  \A j : (ListOf(j))' # <<>> => \E i \in InUse \cup Garbage : connection_id[i] = j
      <4>1. \/ ListsKept
            \/ \E f \in DOMAIN registered : \A j :
                 (ListOf(j))' = ListOf(j) \/ j = connection_id[registered[f].info]
        BY <3>3, FindEffect
      <4> QED
        BY <1>1, <4>1 DEF ListsKept, InUse
    <3> QED
      BY <2>1, <3>1, <3>2, <3>3
  <2> QED
    BY <1>1, <1>4, <2>1, <2>2 DEF EntriesInv
<1> QED
  BY <1>2, <1>3, <1>4, OwnersEffect
-----------------------------------------------------------------------------
(***************************************************************************)
(* Except where a client is accepted, a socket stays as it is or is        *)
(* closed; and one that stays and is with epoll stays with epoll.          *)
(***************************************************************************)
LEMMA SocketsEffect ==
  ASSUME SharedTypes, PlacesInv, BatchInv, Next, Undisturbed'
  PROVE  \/ AcceptClient
         \/ /\ UNCHANGED conns
            /\ \A f \in Fds : sock'[f] = 0 \/ sock'[f] = sock[f]
            /\ \A f \in DOMAIN registered :
                 sock'[f] # 0 => f \in DOMAIN registered' /\ registered'[f].info = registered[f].info
            /\ AddToEpoll \/ DOMAIN registered' \subseteq DOMAIN registered
<1> USE DEF acceptVars, handlerVars, appVars, gcVars, infoVars, historyVars
<1> DEFINE Stay == /\ UNCHANGED conns
                   /\ \A f \in Fds : sock'[f] = 0 \/ sock'[f] = sock[f]
                   /\ \A f \in DOMAIN registered :
                        sock'[f] # 0 =>
                          f \in DOMAIN registered' /\ registered'[f].info = registered[f].info
                   /\ AddToEpoll \/ DOMAIN registered' \subseteq DOMAIN registered
<1>1. sock \in [Fds -> 0 .. MaxConns] /\ DOMAIN registered \subseteq Fds
  BY DEF SharedTypes, TypeOK
<1>2. ASSUME UNCHANGED <<sock, conns>>, SameDescriptors PROVE Stay
  BY <1>2 DEF SameDescriptors
<1>3. CASE EpollWait \/ TurnAway \/ TakeInfo \/ Collector
  BY <1>2, <1>3, ControlEffect DEF EpollWait, TurnAway, TakeInfo, Collector, BeginRound, Collect
<1>4. CASE AddToEpoll
  <2>1. /\ DOMAIN registered' = DOMAIN registered \cup {afd}
        /\ \A g \in DOMAIN registered : g # afd => registered'[g] = registered[g]
        /\ apc = "add" /\ UNCHANGED <<sock, conns>>
    BY <1>4 DEF AddToEpoll
  <2>2. afd \notin DOMAIN registered
    BY <2>1 DEF BatchInv
  <2> QED
    BY <1>4, <2>1, <2>2
<1>5. CASE AddFails
  <2>1. sock' = [sock EXCEPT ![afd] = 0] /\ UNCHANGED <<registered, conns>>
    BY <1>5 DEF AddFails
  <2> QED
    BY <1>1, <2>1
<1>6. ASSUME NEW f \in Fds, hpc[f] # "idle", CloseConnection(hinfo[f]), UNCHANGED conns
      PROVE  Stay
  <2>1. /\ DOMAIN registered' = DOMAIN registered \ {f}
        /\ \A g \in DOMAIN registered' : registered'[g] = registered[g]
        /\ \A g \in Fds : sock'[g] = IF g = f THEN 0 ELSE sock[g]
    BY <1>6, CloseEffect
  <2> QED
    BY <1>1, <1>6, <2>1
<1>7. ASSUME NEW f \in Fds, Handler(f) PROVE Stay
  <2>1. CASE RecvData(f) \/ FrontPackage(f) \/ ListenFill(f) \/ ListenControl(f)
    BY <1>2, <2>1, ControlEffect DEF RecvData, FrontPackage, ListenFill, ListenControl
  <2>2. CASE RecvNothing(f)
    BY <1>6, <2>2 DEF RecvNothing
  <2>3. CASE SendPackage(f)
    BY <1>2, <1>6, <2>3, ControlEffect DEF SendPackage
  <2> QED
    BY <1>7, <2>1, <2>2, <2>3 DEF Handler
<1>8. ASSUME NEW t \in Apps, Application(t) PROVE Stay
  BY <1>2, <1>8, ControlEffect DEF Application, AsynRead, FindEntry, ReleasePackage, ArmFill, ArmControl
<1> QED
  BY <1>3, <1>4, <1>5, <1>7, <1>8 DEF Next, AcceptHandler

(* A client that is accepted gets a number of its own, on a descriptor     *)
(* that is not with epoll.                                                 *)
LEMMA AcceptEffect ==
  ASSUME SharedTypes, PlacesInv, AcceptClient
  PROVE  /\ conns' = conns + 1 /\ UNCHANGED registered
         /\ \E f \in Fds : /\ f \notin DOMAIN registered
                           /\ \A g \in Fds : sock'[g] = IF g = f THEN conns + 1 ELSE sock[g]
<1>1. PICK f \in Fds : sock[f] = 0 /\ sock' = [sock EXCEPT ![f] = conns + 1]
  BY DEF AcceptClient
<1>2. f \notin DOMAIN registered
  BY <1>1 DEF PlacesInv
<1>3. \A g \in Fds : sock'[g] = IF g = f THEN conns + 1 ELSE sock[g]
  BY <1>1 DEF SharedTypes, TypeOK
<1> QED
  BY <1>2, <1>3 DEF AcceptClient

(* Every step keeps what a request says of its connection.                 *)
LEMMA RequestsStep ==
  ASSUME SharedTypes, PlacesInv, BatchInv, RequestsInv, Next, Undisturbed'
  PROVE  RequestsInv'
<1> USE DEF acceptVars, handlerVars, appVars, gcVars, infoVars, historyVars
<1>1. /\ sock \in [Fds -> Nat] /\ conns \in Nat /\ DOMAIN registered \subseteq Fds
      /\ data_package_queue \in [Apps -> Seq(Requests)]
      /\ tpc \in [Apps -> {"idle", "find", "arm", "ctl"}]
      /\ treq \in [Apps -> [n : Nat, conn : Nat, info : 0 .. NumInfos]]
  BY ConnectionsAssumption DEF SharedTypes, TypeOK, QueuesOK, LocalsOK
<1>2. /\ \A f \in Fds : sock[f] <= conns
      /\ \A f, g \in Fds : sock[f] # 0 /\ sock[f] = sock[g] => f = g
      /\ \A t \in Apps : \A k \in DOMAIN data_package_queue[t] : RequestOf(data_package_queue[t][k])
      /\ \A t \in Apps : tpc[t] # "idle" => RequestOf(treq[t])
  BY DEF RequestsInv
<1>3. /\ \A f \in Fds : sock'[f] <= conns'
      /\ \A f, g \in Fds : sock'[f] # 0 /\ sock'[f] = sock'[g] => f = g
      /\ \A r : RequestOf(r) => (RequestOf(r))'
  <2>1. CASE AcceptClient
    <3>1. PICK f \in Fds : /\ conns' = conns + 1 /\ UNCHANGED registered
                           /\ \A g \in Fds : sock'[g] = IF g = f THEN conns + 1 ELSE sock[g]
      BY <2>1, AcceptEffect
    <3> QED
      BY <1>1, <1>2, <3>1 DEF RequestOf
  <2>2. CASE /\ UNCHANGED conns
             /\ \A f \in Fds : sock'[f] = 0 \/ sock'[f] = sock[f]
             /\ \A f \in DOMAIN registered :
                  sock'[f] # 0 => f \in DOMAIN registered' /\ registered'[f].info = registered[f].info
    <3>1. \A f \in Fds : sock'[f] <= conns'
      <4>1. /\ conns' = conns /\ conns \in Nat
            /\ \A f \in Fds : sock[f] <= conns /\ (sock'[f] = 0 \/ sock'[f] = sock[f])
        BY <1>1, <1>2, <2>2
      <4> HIDE DEF acceptVars, handlerVars, appVars, gcVars, infoVars, historyVars
      <4> QED
        BY <4>1
    <3>2. \A f, g \in Fds : sock'[f] # 0 /\ sock'[f] = sock'[g] => f = g
      BY <1>2, <2>2
    <3>3. ASSUME NEW r, RequestOf(r) PROVE (RequestOf(r))'
      <4>1. r.conn \in 1 .. conns' /\ r.conn # 0
        BY <1>1, <2>2, <3>3 DEF RequestOf
      <4>2. ASSUME NEW f \in Fds, sock'[f] = r.conn
            PROVE  f \in DOMAIN registered' /\ registered'[f].info = r.info
        BY <2>2, <3>3, <4>1, <4>2 DEF RequestOf
      <4> QED
        BY <4>1, <4>2 DEF RequestOf
    <3> QED
      BY <3>1, <3>2, <3>3
  <2> QED
    BY <2>1, <2>2, SocketsEffect
<1>4. ASSUME UNCHANGED data_package_queue,
             \A t \in Apps : tpc'[t] # "idle" =>
               tpc[t] # "idle" /\ treq'[t].conn = treq[t].conn /\ treq'[t].info = treq[t].info
      PROVE  RequestsInv'
  <2>1. ASSUME NEW t \in Apps, tpc'[t] # "idle" PROVE (RequestOf(treq[t]))'
    <3>1. \A r : r.conn = treq[t].conn /\ r.info = treq[t].info => RequestOf(r)
      BY <1>2, <1>4, <2>1 DEF RequestOf
    <3>2. \A r : r = treq'[t] => (RequestOf(r))'
      BY <1>3, <1>4, <2>1, <3>1
    <3> QED
      BY <3>2
  <2> QED
    BY <1>2, <1>3, <1>4, <2>1 DEF RequestsInv
<1>5. ASSUME NEW f \in Fds, RecvData(f) PROVE RequestsInv'
  <2> DEFINE i == hinfo[f]
             r == [n |-> reqs', conn |-> sock[fd[i]], info |-> i]
  <2>1. /\ data_package_queue' = [data_package_queue EXCEPT ![AppOf(connection_id[i])] = Append(@, r)]
        /\ hpc[f] = "read" /\ reqs' = reqs + 1 /\ UNCHANGED <<tpc, treq>>
    BY <1>5 DEF RecvData
  <2>2. /\ f \in DOMAIN registered /\ registered[f].info = i
        /\ fd[i] = f /\ sock[f] # 0 /\ i \in Taken
    BY <2>1 DEF BatchInv, PlacesInv, SharedTypes, LocalsOK
  <2>3. r \in Requests
    BY <1>1, <2>1, <2>2 DEF Requests, SharedTypes, QueuesOK
  <2>4. r.conn = sock[f] /\ r.info = i
    BY <2>2
  <2>5. RequestOf(r)
    <3> HIDE DEF i, r
    <3>1. sock[f] \in 1 .. conns
      BY <1>1, <1>2, <2>2
    <3> QED
      BY <1>2, <2>2, <2>4, <3>1 DEF RequestOf
  <2> HIDE DEF i, r
  <2>6. \A s : s = r => (RequestOf(s))'
    BY <1>3, <2>5
  <2>7. ASSUME NEW t \in Apps, NEW k \in DOMAIN data_package_queue'[t]
        PROVE  (RequestOf(data_package_queue[t][k]))'
    <3> DEFINE q == data_package_queue[t]
    <3>1. q \in Seq(Requests) /\ \A j \in DOMAIN q : RequestOf(q[j])
      BY <1>1, <1>2
    <3>2. data_package_queue'[t] = q \/ data_package_queue'[t] = Append(q, r)
      BY <1>1, <2>1
    <3> HIDE DEF q
    <3>3. \/ k \in DOMAIN q /\ data_package_queue'[t][k] = q[k]
          \/ data_package_queue'[t][k] = r
      BY <2>3, <2>7, <3>1, <3>2
    <3>4. \A s : s = data_package_queue'[t][k] => (RequestOf(s))'
      BY <1>3, <2>6, <3>1, <3>3
    <3> QED
      BY <3>4
  <2> QED
    BY <1>2, <1>3, <2>1, <2>7 DEF RequestsInv
<1>6. ASSUME NEW u \in Apps, AsynRead(u) PROVE RequestsInv'
  <2> DEFINE q == data_package_queue[u]
  <2>1. /\ q # <<>> /\ treq' = [treq EXCEPT ![u] = Head(q)]
        /\ data_package_queue' = [data_package_queue EXCEPT ![u] = Tail(@)]
        /\ tpc' = [tpc EXCEPT ![u] = "find"]
    BY <1>6 DEF AsynRead, Goto
  <2>2. q \in Seq(Requests) /\ \A j \in DOMAIN q : RequestOf(q[j])
    BY <1>1, <1>2
  <2>3. /\ treq'[u] = Head(q) /\ data_package_queue'[u] = Tail(q)
        /\ \A t \in Apps : t # u => /\ treq'[t] = treq[t] /\ tpc'[t] = tpc[t]
                                    /\ data_package_queue'[t] = data_package_queue[t]
    BY <1>1, <2>1
  <2> HIDE DEF q
  <2>4. RequestOf(Head(q)) /\ \A k \in DOMAIN Tail(q) : k + 1 \in DOMAIN q /\ Tail(q)[k] = q[k + 1]
    <3>1. 1 \in DOMAIN q /\ Head(q) = q[1]
      BY <2>1, <2>2
    <3> QED
      BY <2>1, <2>2, <3>1
  <2>5. \A t \in Apps : \A k \in DOMAIN data_package_queue'[t] : \A s :
          s = data_package_queue'[t][k] => RequestOf(s)
    <3>1. \A k \in DOMAIN Tail(q) : RequestOf(Tail(q)[k])
      <4>1. ASSUME NEW k \in DOMAIN Tail(q) PROVE RequestOf(Tail(q)[k])
        <5>1. k + 1 \in DOMAIN q /\ Tail(q)[k] = q[k + 1]
          BY <2>4
        <5>2. RequestOf(q[k + 1])
          BY <2>2, <5>1
        <5> QED
          BY <5>1, <5>2
      <4> QED
        BY <4>1
    <3>2. \A t \in Apps \ {u} : \A k \in DOMAIN data_package_queue'[t] :
            RequestOf(data_package_queue'[t][k])
      BY <1>2, <2>3
    <3> QED
      BY <2>3, <3>1, <3>2
  <2>6. \A t \in Apps : tpc'[t] # "idle" => \A s : s = treq'[t] => RequestOf(s)
    BY <1>2, <2>3, <2>4
  <2> QED
    BY <1>3, <2>5, <2>6 DEF RequestsInv
<1>7. CASE EpollWait \/ AcceptHandler \/ Collector
  BY <1>4, <1>7 DEF EpollWait, AcceptHandler, TurnAway, AcceptClient, TakeInfo, AddToEpoll, AddFails,
    Collector, BeginRound, Collect
<1>8. ASSUME NEW f \in Fds, Handler(f) PROVE RequestsInv'
  BY <1>4, <1>5, <1>8 DEF Handler, RecvNothing, FrontPackage, SendPackage, ListenFill, ListenControl
<1>9. ASSUME NEW t \in Apps, Application(t) PROVE RequestsInv'
  <2>1. CASE FindEntry(t) \/ ReleasePackage(t) \/ ArmFill(t) \/ ArmControl(t)
    <3>1. UNCHANGED data_package_queue
      BY <2>1 DEF FindEntry, ReleasePackage, ArmFill, ArmControl
    <3>2. \A u \in Apps : tpc'[u] # "idle" =>
            tpc[u] # "idle" /\ treq'[u].conn = treq[u].conn /\ treq'[u].info = treq[u].info
      <4>1. tpc[t] # "idle"
        BY <2>1 DEF FindEntry, ReleasePackage, ArmFill, ArmControl
      <4>2. CASE LeaveWrite(t)
        BY <1>1, <4>2 DEF LeaveWrite, Goto
      <4>3. CASE AcquirePackage(t)
        BY <1>1, <4>1, <4>3 DEF AcquirePackage, Goto
      <4>4. CASE UNCHANGED treq /\ (Goto(t, "arm") \/ Goto(t, "ctl"))
        BY <1>1, <4>1, <4>4 DEF Goto
      <4> QED
        BY <2>1, <4>2, <4>3, <4>4 DEF FindEntry, ReleasePackage, ArmFill, ArmControl, AfterWrite
    <3> QED
      BY <1>4, <3>1, <3>2
  <2> QED
    BY <1>6, <1>9, <2>1 DEF Application
<1> QED
  BY <1>7, <1>8, <1>9 DEF Next
(***************************************************************************)
(* Every step sends, and keeps in the list of a connection in epoll,       *)
(* answers to that connection only.                                        *)
(***************************************************************************)
LEMMA AnswersStep ==
  ASSUME SharedTypes, PlacesInv, BatchInv, IdsInv, EntriesInv, RequestsInv, AnswersInv, FrontInv,
         Next, Undisturbed'
  PROVE  AnswersInv'
<1>1. /\ \A g \in DOMAIN registered :
           fd[registered[g].info] = g /\ sock[g] # 0 /\ g \in Fds /\ registered[g].info \in Owners
      /\ \A j : ListOf(j) \in Seq(Answers)
      /\ \A g \in DOMAIN registered : \A j :
           j = connection_id[registered[g].info] =>
             \A k \in DOMAIN ListOf(j) : ListOf(j)[k].conn = sock[g]
  <2>1. \A j : ListOf(j) \in Seq(Answers)
    BY DEF SharedTypes, QueuesOK, ListOf
  <2>2. \A g \in DOMAIN registered :
           fd[registered[g].info] = g /\ sock[g] # 0 /\ g \in Fds /\ registered[g].info \in Owners
    BY DEF PlacesInv, SharedTypes, TypeOK, Owners, InUse
  <2> QED
    BY <2>1, <2>2 DEF AnswersInv
<1>2. ~misdelivered'
  <2>1. ASSUME NEW f \in Fds, SendPackage(f) PROVE ~misdelivered'
    <3>1. hpc[f] = "send"
      BY <2>1 DEF SendPackage
    <3>2. f \in DOMAIN registered /\ registered[f].info = hinfo[f] /\ fd[hinfo[f]] = f
      BY <1>1, <3>1 DEF BatchInv
    <3> DEFINE id == connection_id[hinfo[f]]
    <3>3. ListOf(id) # <<>> /\ Head(ListOf(id)) = hans[f]
      BY <3>1 DEF FrontInv
    <3> HIDE DEF id
    <3>4. ListOf(id) \in Seq(Answers) /\ \A k \in DOMAIN ListOf(id) : ListOf(id)[k].conn = sock[f]
      BY <1>1, <3>2 DEF id
    <3>5. Head(ListOf(id)).conn = sock[f]
      BY <3>3, <3>4
    <3>6. \E sent : misdelivered' = (misdelivered \/ (sent # "error" /\ sock[fd[hinfo[f]]] # hans[f].conn))
      BY <2>1 DEF SendPackage
    <3> QED
      BY <3>2, <3>3, <3>5, <3>6 DEF AnswersInv
  <2>2. ASSUME NEW f \in Fds, Handler(f) PROVE ~misdelivered'
    BY <2>1, <2>2 DEF Handler, RecvData, RecvNothing, FrontPackage, ListenFill, ListenControl,
      AnswersInv, historyVars
  <2>3. ASSUME NEW t \in Apps, Application(t) PROVE ~misdelivered'
    BY <2>3 DEF Application, AsynRead, FindEntry, ReleasePackage, ArmFill, ArmControl, AnswersInv, historyVars
  <2> QED
    BY <2>2, <2>3 DEF Next, EpollWait, AcceptHandler, TurnAway, AcceptClient, TakeInfo, AddToEpoll,
      AddFails, Collector, BeginRound, Collect, AnswersInv, historyVars
<1>3. PlacesInv'
  BY PlacesStep
<1>4. \A i \in Owners : connection_id'[i] = connection_id[i]
  BY OwnersEffect, TakeEffect, CollectEffect
<1>5. ASSUME NEW f \in DOMAIN registered', f \in DOMAIN registered
      PROVE  registered'[f].info = registered[f].info /\ sock'[f] = sock[f]
  <2>1. sock'[f] # 0 /\ f \in Fds
    BY <1>1, <1>3, <1>5 DEF PlacesInv
  <2>2. CASE AcceptClient
    BY <1>5, <2>1, <2>2, AcceptEffect
  <2> QED
    BY <1>5, <2>1, <2>2, SocketsEffect
<1>6. ASSUME NEW f \in DOMAIN registered', f \notin DOMAIN registered
      PROVE  registered'[f].info \in Owners /\ ListsKept /\
             \A j : j = connection_id[registered'[f].info] => ListOf(j) = <<>>
  <2>1. AddToEpoll
    BY <1>6, SocketsEffect, AcceptEffect
  <2>2. apc = "add" /\ registered'[f].info = ainfo /\ UNCHANGED write_cache
    BY <1>6, <2>1 DEF AddToEpoll
  <2>3. ainfo \in Owners /\ ainfo \notin InUse \cup Garbage
    BY <2>2 DEF Owners, Accepting, PlacesInv
  <2>4. \A j : j = connection_id[ainfo] => ListOf(j) = <<>>
    <3>1. \A i \in InUse \cup Garbage : connection_id[i] # connection_id[ainfo]
      BY <2>3 DEF IdsInv, Owners
    <3> QED
      BY <3>1 DEF EntriesInv
  <2> QED
    BY <2>2, <2>3, <2>4 DEF ListsKept, ListOf
<1>7. ASSUME NEW f \in DOMAIN registered, NEW j, j = connection_id[registered[f].info],
             NEW k \in DOMAIN (ListOf(j))'
      PROVE  (ListOf(j))'[k].conn = sock[f]
  <2>1. ListOf(j) \in Seq(Answers) /\ \A l \in DOMAIN ListOf(j) : ListOf(j)[l].conn = sock[f]
    BY <1>1, <1>7
  <2>2. CASE (ListOf(j))' = ListOf(j)
    BY <1>7, <2>1, <2>2
  <2>3. CASE Collect
    <3>1. (ListOf(j))' = ListOf(j) \/ (ListOf(j))' = <<>>
      BY <2>3, CollectEffect
    <3> QED
      BY <1>7, <2>2, <3>1
  <2>4. ASSUME NEW g \in Fds, SendPackage(g) PROVE (ListOf(j))'[k].conn = sock[f]
    <3>1. (ListOf(j))' = ListOf(j) \/ (ListOf(j) # <<>> /\ (ListOf(j))' = Tail(ListOf(j)))
      BY <2>4, SendEffect
    <3>2. CASE ListOf(j) # <<>> /\ (ListOf(j))' = Tail(ListOf(j))
      <4>1. k + 1 \in DOMAIN ListOf(j) /\ (ListOf(j))'[k] = ListOf(j)[k + 1]
        BY <1>7, <2>1, <3>2
      <4> QED
        BY <2>1, <4>1
    <3> QED
      BY <2>2, <3>1, <3>2
  <2>5. ASSUME NEW t \in Apps, FindEntry(t) PROVE (ListOf(j))'[k].conn = sock[f]
    <3>1. CASE ~ListsKept
      <4>1. PICK g \in DOMAIN registered, a \in Answers :
              /\ a.conn = sock[g]
              /\ \A i : (ListOf(i))' = IF i = connection_id[registered[g].info]
                                       THEN Append(ListOf(i), a) ELSE ListOf(i)
        BY <2>5, <3>1, FindEffect
      <4>2. CASE j = connection_id[registered[g].info]
        <5>1. g = f
          <6>1. registered[g].info = registered[f].info
            <7>1. registered[g].info \in Owners /\ registered[f].info \in Owners
              BY <1>1
            <7>2. connection_id[registered[g].info] = connection_id[registered[f].info]
              BY <1>7, <4>2
            <7> QED
              BY <7>1, <7>2 DEF IdsInv
          <6> QED
            BY <1>1, <6>1
        <5>2. (ListOf(j))' = Append(ListOf(j), a)
          BY <4>1, <4>2
        <5>3. \/ k \in DOMAIN ListOf(j) /\ (ListOf(j))'[k] = ListOf(j)[k]
              \/ (ListOf(j))'[k] = a
          BY <1>7, <2>1, <5>2
        <5> QED
          BY <2>1, <4>1, <5>1, <5>3
      <4> QED
        BY <2>2, <4>1, <4>2
    <3> QED
      BY <2>2, <3>1 DEF ListsKept
  <2> QED
    BY <2>2, <2>3, <2>4, <2>5, ListsEffect DEF ListsKept
<1>8. ASSUME NEW f \in DOMAIN registered', NEW j, j = connection_id'[registered'[f].info],
             NEW k \in DOMAIN (ListOf(j))'
      PROVE  (ListOf(j))'[k].conn = sock'[f]
  <2>1. CASE f \in DOMAIN registered
    <3>1. registered'[f].info = registered[f].info /\ sock'[f] = sock[f]
      BY <1>5, <2>1
    <3>2. j = connection_id[registered[f].info]
      BY <1>1, <1>4, <1>8, <2>1, <3>1
    <3> QED
      BY <1>7, <1>8, <2>1, <3>1, <3>2
  <2>2. CASE f \notin DOMAIN registered
    <3>1. (ListOf(j))' = <<>>
      BY <1>4, <1>6, <1>8, <2>2 DEF ListsKept
    <3> QED
      BY <1>8, <3>1
  <2> QED
    BY <2>1, <2>2
<1> QED
  BY <1>2, <1>8 DEF AnswersInv, ListOf

(***************************************************************************)
(* Every step keeps the front of the list that a handler sends from: only  *)
(* this handler removes it, others append.                                 *)
(***************************************************************************)
LEMMA FrontStep ==
  ASSUME SharedTypes, PlacesInv, BatchInv, IdsInv, RequestsInv, FrontInv, Next, Undisturbed'
  PROVE  FrontInv'
<1> SUFFICES ASSUME NEW f \in Fds, hpc'[f] = "send",
                    NEW j, j = connection_id'[hinfo'[f]]
             PROVE  (ListOf(j))' # <<>> /\ Head((ListOf(j))') = hans'[f]
  BY DEF FrontInv, ListOf
<1>1. /\ hpc \in [Fds -> {"idle", "read", "write", "listen", "send", "ctl"}]
      /\ hinfo \in [Fds -> 0 .. NumInfos] /\ hans \in [Fds -> Answers]
      /\ \A i : ListOf(i) \in Seq(Answers)
  BY DEF SharedTypes, LocalsOK, QueuesOK, ListOf
<1>2. ASSUME FrontPackage(f), hpc[f] = "write"
      PROVE  (ListOf(j))' # <<>> /\ Head((ListOf(j))') = hans'[f]
  <2>1. /\ write_cache' = WithEntry(j) /\ ListOf(j) # <<>>
        /\ hans' = [hans EXCEPT ![f] = Head(ListOf(j))]
    BY <1>1, <1>2 DEF FrontPackage, infoVars
  <2>2. (ListOf(j))' = ListOf(j)
    BY <2>1, EntryMade
  <2> QED
    BY <1>1, <2>1, <2>2
<1>3. ASSUME hpc[f] = "send", hinfo'[f] = hinfo[f], hans'[f] = hans[f], ~SendPackage(f)
      PROVE  (ListOf(j))' # <<>> /\ Head((ListOf(j))') = hans'[f]
  <2>1. f \in DOMAIN registered /\ registered[f].info = hinfo[f] /\ hinfo[f] \in InUse /\ hinfo[f] \in Owners
    BY <1>3 DEF BatchInv, InUse, Owners
  <2>2. connection_id'[hinfo[f]] = connection_id[hinfo[f]]
    BY <2>1, OwnersEffect, TakeEffect, CollectEffect
  <2>3. j = connection_id[hinfo[f]] /\ ListOf(j) # <<>> /\ Head(ListOf(j)) = hans'[f]
    BY <1>3, <2>2 DEF FrontInv
  <2>4. CASE Collect
    <3>1. (ListOf(j))' = ListOf(j)
      BY <2>1, <2>3, <2>4, CollectEffect DEF PlacesInv
    <3> QED
      BY <2>3, <3>1
  <2>5. ASSUME NEW g \in Fds, SendPackage(g) PROVE (ListOf(j))' = ListOf(j)
    <3>1. g # f /\ registered[g].info = hinfo[g] /\ g \in DOMAIN registered
      BY <1>3, <2>5 DEF SendPackage, BatchInv
    <3>2. hinfo[g] # hinfo[f] /\ hinfo[g] \in Owners
      BY <2>1, <3>1 DEF PlacesInv, Owners, InUse
    <3>3. connection_id[hinfo[g]] # j
      BY <2>1, <2>3, <3>2 DEF IdsInv
    <3> QED
      BY <2>5, <3>3, SendEffect
  <2>6. ASSUME NEW t \in Apps, FindEntry(t)
        PROVE  (ListOf(j))' = ListOf(j) \/ \E a \in Answers : (ListOf(j))' = Append(ListOf(j), a)
    BY <2>6, FindEffect DEF ListsKept
  <2>7. \A a \in Answers : Append(ListOf(j), a) # <<>> /\ Head(Append(ListOf(j), a)) = Head(ListOf(j))
    BY <1>1, <2>3
  <2> QED
    BY <2>3, <2>4, <2>5, <2>6, <2>7, ListsEffect DEF ListsKept
<1>4. ASSUME hpc[f] # "send" \/ hinfo'[f] # hinfo[f] \/ hans'[f] # hans[f] \/ SendPackage(f)
      PROVE  FrontPackage(f) /\ hpc[f] = "write"
  <2> USE DEF acceptVars, handlerVars, appVars, gcVars, infoVars, historyVars
  <2>1. ASSUME UNCHANGED <<hpc, hinfo, hans>> PROVE ~SendPackage(f) /\ FALSE
    <3>1. ~SendPackage(f)
      BY <1>1, <2>1 DEF SendPackage, LeaveHandler
    <3> QED
      BY <1>4, <2>1, <3>1
  <2>2. ~AcceptHandler /\ ~Collector
    BY <2>1 DEF AcceptHandler, TurnAway, AcceptClient, TakeInfo, AddToEpoll, AddFails, Collector,
      BeginRound, Collect
  <2>3. ~EpollWait
    BY DEF EpollWait
  <2>4. ASSUME NEW t \in Apps PROVE ~Application(t)
    BY <2>1 DEF Application, AsynRead, FindEntry, ReleasePackage, ArmFill, ArmControl
  <2>5. PICK g \in Fds : Handler(g)
    BY <2>2, <2>3, <2>4 DEF Next
  <2>6. \/ RecvData(g) \/ RecvNothing(g) \/ SendPackage(g) \/ ListenControl(g)
        \/ ListenFill(g) \/ FrontPackage(g)
    BY <2>5 DEF Handler
  <2>7. ASSUME LeaveHandler(g) PROVE g # f /\ hpc[f] = "send" /\ hinfo'[f] = hinfo[f] /\ hans'[f] = hans[f]
    BY <1>1, <2>7 DEF LeaveHandler
  <2>8. ~ListenFill(g)
    BY <1>1, <1>4 DEF ListenFill, SendPackage, LeaveHandler
  <2>9. CASE FrontPackage(g)
    BY <1>1, <1>4, <2>9 DEF FrontPackage, SendPackage, LeaveHandler
  <2>10. CASE RecvData(g) \/ RecvNothing(g) \/ SendPackage(g) \/ ListenControl(g)
    BY <1>1, <1>4, <2>7, <2>10 DEF RecvData, RecvNothing, SendPackage, ListenControl, LeaveHandler
  <2> QED
    BY <2>6, <2>8, <2>9, <2>10
<1> QED
  BY <1>2, <1>3, <1>4
-----------------------------------------------------------------------------
LEMMA UndisturbedStart == Init => UndisturbedInv
<1> SUFFICES ASSUME Init PROVE UndisturbedInv
  OBVIOUS
<1>1. /\ DOMAIN registered = {} /\ apc = "idle" /\ ainfo = 0
      /\ \A f \in Fds : hpc[f] = "idle" /\ sock[f] = 0
      /\ \A t \in Apps : data_package_queue[t] = <<>> /\ tpc[t] = "idle"
      /\ DOMAIN write_cache = {} /\ ~misdelivered /\ conns = 0
      /\ active_connect_num = 0
  BY DEF Init
<1>2. InUse = {} /\ Garbage = {} /\ Accepting = {} /\ Owners = {}
  BY DEF Init, InUse, Garbage, Accepting, Owners, Range
<1>3. Pooled = Infos /\ IsInjective(i_pool) /\ IsInjective(garbage_can)
  BY DEF Init, Pooled, Range, IsInjective
<1>4. PlacesInv /\ BatchInv
  BY <1>1, <1>2, <1>3 DEF PlacesInv, BatchInv
<1>5. IdsInv /\ EntriesInv
  BY <1>1, <1>2 DEF IdsInv, EntriesInv, ListOf
<1>6. RequestsInv
  BY <1>1 DEF RequestsInv
<1>7. AnswersInv /\ FrontInv
  BY <1>1 DEF AnswersInv, FrontInv
<1>8. CountInv
  BY <1>1, FS_EmptySet, ConnectionsAssumption DEF CountInv
<1> QED
  BY <1>4, <1>5, <1>6, <1>7, <1>8 DEF UndisturbedInv

LEMMA UndisturbedStep ==
  SharedTypes /\ UndisturbedInv /\ [Next]_vars => UndisturbedInv'
<1> SUFFICES ASSUME SharedTypes, UndisturbedInv, [Next]_vars, Undisturbed'
             PROVE  (/\ PlacesInv /\ BatchInv /\ IdsInv /\ EntriesInv /\ RequestsInv /\ AnswersInv
                     /\ FrontInv /\ CountInv)'
  BY DEF UndisturbedInv
<1>1. /\ PlacesInv /\ BatchInv /\ IdsInv /\ EntriesInv /\ RequestsInv /\ AnswersInv /\ FrontInv
      /\ CountInv
  BY DisturbanceStays DEF UndisturbedInv
<1>2. CASE Next
  BY <1>1, <1>2, PlacesStep, BatchStep, IdsStep, EntriesStep, RequestsStep, AnswersStep, FrontStep,
    CountStep
<1>3. CASE UNCHANGED vars
  <2> USE DEF acceptVars, handlerVars, appVars, gcVars, infoVars, historyVars
  <2>1. UNCHANGED <<InUse, Garbage, Accepting, Pooled, Owners>>
    BY <1>3 DEF vars, InUse, Garbage, Accepting, Pooled, Owners
  <2>2. PlacesInv' /\ BatchInv'
    BY <1>1, <1>3, <2>1 DEF vars, PlacesInv, BatchInv
  <2>3. IdsInv' /\ EntriesInv'
    BY <1>1, <1>3, <2>1 DEF vars, IdsInv, EntriesInv, ListOf
  <2>4. RequestsInv'
    BY <1>1, <1>3 DEF vars, RequestsInv, RequestOf
  <2>5. AnswersInv' /\ FrontInv'
    BY <1>1, <1>3 DEF vars, AnswersInv, FrontInv, ListOf
  <2>6. CountInv'
    BY <1>1, <1>3 DEF vars, CountInv
  <2> QED
    BY <2>2, <2>3, <2>4, <2>5, <2>6
<1> QED
  BY <1>2, <1>3

LEMMA UndisturbedInvariant == Spec => [](SharedTypes /\ UndisturbedInv)
<1>1. SharedTypes /\ UndisturbedInv /\ [Next]_vars => UndisturbedInv'
  BY UndisturbedStep
<1>2. Init => UndisturbedInv
  BY UndisturbedStart
<1>3. SharedTypes /\ EventOK => SharedTypes
  OBVIOUS
<1> QED
  BY <1>1, <1>2, <1>3, TypesInvariant, PTL DEF Spec

(***************************************************************************)
(* asyn_write looks whether a connection is still alive: until one of the  *)
(* three disturbances happens nothing is sent to a client but answers to   *)
(* its own requests, although descriptors, connection_info structs and ids *)
(* are used again.                                                         *)
(***************************************************************************)
THEOREM UndisturbedAnswersReachAsker == Spec => []AnswersReachAskerUndisturbed
<1>1. UndisturbedInv => AnswersReachAskerUndisturbed
  BY DEF UndisturbedInv, AnswersInv, AnswersReachAskerUndisturbed, AnswersReachAsker
<1> QED
  BY <1>1, UndisturbedInvariant, PTL

(***************************************************************************)
(* No connection_info of i_pool is lost or in two places, a descriptor in  *)
(* epoll is open and is the one that its connection_info names, and        *)
(* active_connect_num counts those descriptors.                            *)
(***************************************************************************)
THEOREM InfosAccounted == Spec => []ConnectionsAccounted
<1>1. ASSUME SharedTypes, PlacesInv, CountInv, NEW i \in Infos
      PROVE  /\ Occurrences(i_pool, i) + Occurrences(garbage_can, i)
                  + Cardinality(Registered(i)) + (IF ainfo = i THEN 1 ELSE 0) = 1
             /\ \A f \in Registered(i) : fd[i] = f /\ sock[f] # 0
  <2>1. /\ Occurrences(i_pool, i) = IF i \in Pooled THEN 1 ELSE 0
        /\ Occurrences(garbage_can, i) = IF i \in Garbage THEN 1 ELSE 0
    BY <1>1, DistinctOccurrences DEF PlacesInv, Pooled, Garbage
  <2>2. \A f \in Registered(i) : fd[i] = f /\ sock[f] # 0
    BY <1>1 DEF PlacesInv, Registered
  <2>3. Cardinality(Registered(i)) = IF i \in InUse THEN 1 ELSE 0
    <3>1. CASE i \in InUse
      <4>1. PICK f \in DOMAIN registered : registered[f].info = i
        BY <3>1 DEF InUse
      <4>2. Registered(i) = {f}
        BY <2>2, <4>1 DEF Registered
      <4> QED
        BY <3>1, <4>2, FS_Singleton
    <3>2. CASE i \notin InUse
      <4>1. Registered(i) = {}
        BY <3>2 DEF InUse, Registered
      <4> QED
        BY <3>2, <4>1, FS_EmptySet
    <3> QED
      BY <3>1, <3>2
  <2>4. ainfo = i <=> i \in Accepting
    BY <1>1 DEF PlacesInv, Accepting, Infos
  <2>5. /\ i \in Pooled \/ i \in InUse \/ i \in Garbage \/ i \in Accepting
        /\ i \in Pooled => i \notin InUse /\ i \notin Garbage /\ i \notin Accepting
        /\ i \in InUse => i \notin Garbage /\ i \notin Accepting
        /\ i \in Garbage => i \notin Accepting
    BY <1>1 DEF PlacesInv, Owners
  <2>6. Occurrences(i_pool, i) + Occurrences(garbage_can, i)
          + Cardinality(Registered(i)) + (IF ainfo = i THEN 1 ELSE 0) = 1
    BY <2>1, <2>3, <2>4, <2>5
  <2> QED
    BY <2>2, <2>6
<1>2. SharedTypes /\ UndisturbedInv => ConnectionsAccounted
  BY <1>1 DEF UndisturbedInv, ConnectionsAccounted, CountInv
<1> QED
  BY <1>2, UndisturbedInvariant, PTL

(***************************************************************************)
(* A connection in epoll has its entry in write_cache, and a list that is  *)
(* not empty belongs to a connection that is open or still to be collected.*)
(***************************************************************************)
THEOREM EntriesAndConnections == Spec => []EntriesMatchConnections
<1>1. ASSUME EntriesInv, SharedTypes
      PROVE  /\ \A f \in DOMAIN registered : connection_id[registered[f].info] \in DOMAIN write_cache
             /\ \A id \in DOMAIN write_cache : write_cache[id] # <<>> => Users(id) # {}
  <2>1. \A f \in DOMAIN registered : connection_id[registered[f].info] \in DOMAIN write_cache
    BY <1>1 DEF EntriesInv, InUse
  <2>2. ASSUME NEW id \in DOMAIN write_cache, write_cache[id] # <<>> PROVE Users(id) # {}
    <3>1. PICK i \in InUse \cup Garbage : connection_id[i] = id
      BY <1>1, <2>2 DEF EntriesInv, ListOf
    <3>2. i \in Users(id)
      BY <1>1, <3>1 DEF Users, InUse, Garbage, Range, SharedTypes, TypeOK
    <3> QED
      BY <3>2
  <2> QED
    BY <2>1, <2>2
<1>2. SharedTypes /\ UndisturbedInv => EntriesMatchConnections
  BY <1>1 DEF UndisturbedInv, EntriesMatchConnections
<1> QED
  BY <1>2, UndisturbedInvariant, PTL

(***************************************************************************)
(* While write_handler sends without the mutex, the package it sends stays *)
(* at the front of the list, which pop_front relies on.                    *)
(***************************************************************************)
THEOREM FrontIsSent == Spec => []FrontStays
<1>1. UndisturbedInv => FrontStays
  BY DEF UndisturbedInv, FrontInv, FrontStays
<1> QED
  BY <1>1, UndisturbedInvariant, PTL
=============================================================================
