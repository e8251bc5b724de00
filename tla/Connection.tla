---------------------------- MODULE Connection ----------------------------
(***************************************************************************)
(* The life of one connection of async_event_processor_tcp: accept_handler *)
(* makes it, read_handler and write_handler serve it on the dispatch       *)
(* threads, the application answers on a thread of its own with asyn_read, *)
(* asyn_write, acquire_package and release_package, and                    *)
(* connection_resource_gc collects what a closed connection leaves behind. *)
(*                                                                         *)
(* The dispatch threads serve a connection one event at a time: epoll_wait *)
(* reports a file descriptor once per batch, and Dispatch is about batches *)
(* that do not overlap. The event is reported first and handled later: the *)
(* state it was reported for may be gone by then.                          *)
(*                                                                         *)
(* What a thread does while it holds locker_connection_write_map is one    *)
(* step. The pools are one set of packages, because acquire_package picks  *)
(* one of them at random, and a package is put back into the one it is of. *)
(* The peer, its socket and epoll are external.                            *)
(***************************************************************************)
EXTENDS Integers, Sequences, FiniteSets

CONSTANTS
  Packages,      (* the data packages of p_pool                            *)
  NoPackage,
  MaxRequests,   (* bound: the peer sends at most that many requests       *)
  MaxWrites      (* bound: the application calls asyn_write as often       *)

ASSUME ConnectionAssumption ==
  /\ NoPackage \notin Packages
  /\ MaxRequests \in Nat
  /\ MaxWrites \in Nat

VARIABLES
  peer,          (* "open", "closed" by the peer or "reset" by it          *)
  unsent,        (* requests the peer has still to send                    *)
  arrived,       (* requests in the socket, not received yet               *)
  interest,      (* what epoll watches: "none" before accept, "in", "out", *)
                 (* "closed" once the descriptor is closed                 *)
  active,        (* active_connect_num                                     *)
  hpc,           (* where the handler of the connection is                 *)
  hpkg,          (* the handler's local package                            *)
  failed,        (* send has returned an error other than EAGAIN           *)
  cached,        (* write_cache has an entry for connection_id             *)
  package_list,  (* the list of that entry                                 *)
  pool,          (* the free packages                                      *)
  data_package_queue,
  held,          (* packages in the hands of the application               *)
  apc, apkg,     (* where the application is in asyn_write, and its package *)
  status,        (* of each package: "KEEP" or "CLOSE"                     *)
  garbage,       (* how often the connection is in garbage_can             *)
  collected,     (* connection_info is back in i_pool                      *)
  stamp,         (* history: which call of asyn_write each package is from *)
  writes,        (* history: calls of asyn_write so far                    *)
  lastSent,      (* history: stamp of the package last sent completely     *)
  asked          (* history: status of the handler's package when sent     *)

peerVars    == <<peer, unsent, arrived>>
epollVars   == <<interest, active, garbage>>
handlerVars == <<hpc, hpkg, failed, asked>>
cacheVars   == <<cached, package_list>>
appVars     == <<held, apc, apkg, stamp, writes>>
vars == <<peerVars, epollVars, handlerVars, cacheVars, appVars, pool,
          data_package_queue, status, collected, lastSent>>

Init ==
  /\ peer = "open" /\ unsent = MaxRequests /\ arrived = 0
  /\ interest = "none" /\ active = 0 /\ garbage = 0 /\ collected = FALSE
  /\ hpc = "accept" /\ hpkg = NoPackage /\ failed = FALSE /\ asked = "KEEP"
  /\ cached = FALSE /\ package_list = <<>>
  /\ pool = Packages /\ data_package_queue = <<>>
  /\ held = {} /\ apc = "idle" /\ apkg = NoPackage
  /\ status = [p \in Packages |-> "KEEP"]
  /\ stamp = [p \in Packages |-> 0] /\ writes = 0 /\ lastSent = 0
-----------------------------------------------------------------------------
(***************************************************************************)
(* The peer                                                                *)
(***************************************************************************)

PeerSends ==
  /\ peer = "open" /\ unsent > 0 /\ interest \in {"in", "out"}
  /\ unsent' = unsent - 1
  /\ arrived' = arrived + 1
  /\ UNCHANGED <<peer, epollVars, handlerVars, cacheVars, appVars, pool,
                 data_package_queue, status, collected, lastSent>>

PeerLeaves ==
  /\ peer = "open" /\ interest \in {"in", "out"}
  /\ peer' \in {"closed", "reset"}
  /\ UNCHANGED <<unsent, arrived, epollVars, handlerVars, cacheVars, appVars, pool,
                 data_package_queue, status, collected, lastSent>>
-----------------------------------------------------------------------------
(***************************************************************************)
(* The handlers                                                            *)
(***************************************************************************)

(* Mutant: the failure of epoll is counted as a connection that closed. *)
AcceptFailureCounted ==
  /\ hpc = "accept"
  /\ cached' = TRUE
  /\ hpc' = "idle"
  /\ \/ interest' = "in" /\ active' = active + 1 /\ UNCHANGED garbage
     \/ interest' = "closed" /\ garbage' = garbage + 1 /\ active' = active - 1
  /\ UNCHANGED <<peerVars, hpkg, failed, asked, package_list, appVars, pool,
                 data_package_queue, status, collected, lastSent>>

(* accept_handler: the list is made, then the descriptor goes to epoll. If *)
(* epoll does not take it, it is closed and its connection_info is garbage. *)
Accept ==
  /\ hpc = "accept"
  /\ cached' = TRUE
  /\ hpc' = "idle"
  /\ \/ interest' = "in" /\ active' = active + 1 /\ UNCHANGED garbage
     \/ interest' = "closed" /\ garbage' = garbage + 1 /\ UNCHANGED active
  /\ UNCHANGED <<peerVars, hpkg, failed, asked, package_list, appVars, pool,
                 data_package_queue, status, collected, lastSent>>

(* epoll_wait reports the descriptor; a dispatch thread will handle it.    *)
Report ==
  /\ hpc = "idle"
  /\ \/ interest = "in" /\ (arrived > 0 \/ peer # "open") /\ hpc' = "read"
     \/ interest = "out" /\ hpc' = "write"
  /\ UNCHANGED <<peerVars, epollVars, hpkg, failed, asked, cacheVars, appVars, pool,
                 data_package_queue, status, collected, lastSent>>

(* The handler returns, and its locals are gone. *)
LeaveHandler ==
  /\ hpc' = "idle"
  /\ hpkg' = NoPackage
  /\ failed' = FALSE
  /\ asked' = "KEEP"

(* Mutant: the descriptor is closed but stays with epoll's next batch. *)
CloseConnectionKeepsInterest ==
  /\ active' = active - 1
  /\ garbage' = garbage + 1
  /\ UNCHANGED interest

(* active_connect_num is counted down, the descriptor is taken from epoll  *)
(* and closed, connection_info goes to garbage_can.                        *)
CloseConnection ==
  /\ active' = active - 1
  /\ interest' = "closed"
  /\ garbage' = garbage + 1

(* read_handler: p_pool[thread_id].get() waits for a free package *)
GetPackage ==
  /\ hpc = "read"
  /\ \E p \in pool : hpkg' = p /\ pool' = pool \ {p}
  /\ hpc' = "recv"
  /\ UNCHANGED <<peerVars, epollVars, failed, asked, cacheVars, appVars,
                 data_package_queue, status, collected, lastSent>>

(* recv gives data, and the package goes to the application. *)
RecvData ==
  /\ hpc = "recv" /\ arrived > 0
  /\ arrived' = arrived - 1
  /\ data_package_queue' = Append(data_package_queue, hpkg)
  /\ LeaveHandler
  /\ UNCHANGED <<peer, unsent, epollVars, cacheVars, appVars, pool, status,
                 collected, lastSent>>

(* recv fails. Its -1 is stored in a size_t, so that data_size > 0 holds   *)
(* and the package goes to the application. The error is reported once.    *)
RecvError ==
  /\ hpc = "recv" /\ arrived = 0 /\ peer = "reset"
  /\ peer' = "closed"
  /\ data_package_queue' = Append(data_package_queue, hpkg)
  /\ LeaveHandler
  /\ UNCHANGED <<unsent, arrived, epollVars, cacheVars, appVars, pool, status,
                 collected, lastSent>>

(* Mutant: the package is not put back when the connection is closed. *)
RecvNothingLosesPackage ==
  /\ hpc = "recv" /\ arrived = 0 /\ peer = "closed"
  /\ CloseConnection
  /\ LeaveHandler
  /\ UNCHANGED <<peerVars, cacheVars, appVars, pool, data_package_queue, status,
                 collected, lastSent>>

(* recv gives 0: the peer has closed the connection. *)
RecvNothing ==
  /\ hpc = "recv" /\ arrived = 0 /\ peer = "closed"
  /\ pool' = pool \cup {hpkg}
  /\ CloseConnection
  /\ LeaveHandler
  /\ UNCHANGED <<peerVars, cacheVars, appVars, data_package_queue, status,
                 collected, lastSent>>

(* write_handler takes the first package of the list, which stays there.   *)
(* write_cache[connection_id] makes an entry if there is none.             *)
FrontPackage ==
  /\ hpc = "write"
  /\ cached' = TRUE
  /\ IF package_list = <<>> THEN hpc' = "listen" /\ UNCHANGED hpkg
     ELSE hpc' = "send" /\ hpkg' = Head(package_list)
  /\ UNCHANGED <<peerVars, epollVars, failed, asked, package_list, appVars, pool,
                 data_package_queue, status, collected, lastSent>>

(* Mutant: the descriptor is modified to watch for nothing. *)
ContinueListenNothing ==
  /\ hpc = "listen"
  /\ interest' = "none"
  /\ LeaveHandler
  /\ UNCHANGED <<peerVars, active, garbage, cacheVars, appVars, pool,
                 data_package_queue, status, collected, lastSent>>

(* The list was empty: mod_fd_in_epoll(..., EPOLLIN) *)
ContinueListen ==
  /\ hpc = "listen"
  /\ interest' = "in"
  /\ LeaveHandler
  /\ UNCHANGED <<peerVars, active, garbage, cacheVars, appVars, pool,
                 data_package_queue, status, collected, lastSent>>

(* send takes all that is left of the package, which goes back to the pool *)
(* before it leaves the list.                                              *)
SendAll ==
  /\ hpc = "send"
  /\ pool' = pool \cup {hpkg}
  /\ asked' = status[hpkg]
  /\ lastSent' = stamp[hpkg]
  /\ hpc' = "pop"
  /\ UNCHANGED <<peerVars, epollVars, hpkg, failed, cacheVars, appVars,
                 data_package_queue, status, collected>>

(* send takes a part of it, or nothing (EAGAIN), or fails. *)
SendLess ==
  /\ hpc = "send"
  /\ failed' \in IF peer = "open" THEN {FALSE} ELSE BOOLEAN
  /\ hpc' = "test"
  /\ UNCHANGED <<peerVars, epollVars, hpkg, asked, cacheVars, appVars, pool,
                 data_package_queue, status, collected, lastSent>>

PopFront ==
  /\ hpc = "pop"
  /\ package_list' = Tail(package_list)
  /\ hpc' = "test"
  /\ UNCHANGED <<peerVars, epollVars, hpkg, failed, asked, cached, appVars, pool,
                 data_package_queue, status, collected, lastSent>>

(* Mutant: only a failure of send closes the connection. *)
TestStatusFailureOnly ==
  /\ hpc = "test"
  /\ IF failed THEN CloseConnection ELSE UNCHANGED epollVars
  /\ LeaveHandler
  /\ UNCHANGED <<peerVars, cacheVars, appVars, pool, data_package_queue, status,
                 collected, lastSent>>

(* The connection is closed if send has failed, or if the package says so: *)
(* package->status is read now, and the package may be another's by now.   *)
TestStatus ==
  /\ hpc = "test"
  /\ IF failed \/ status[hpkg] = "CLOSE" THEN CloseConnection
                                         ELSE UNCHANGED epollVars
  /\ LeaveHandler
  /\ UNCHANGED <<peerVars, cacheVars, appVars, pool, data_package_queue, status,
                 collected, lastSent>>
-----------------------------------------------------------------------------
(***************************************************************************)
(* The application: one thread, as in echo_http.cpp and test_http.cpp      *)
(***************************************************************************)

(* asyn_read *)
AsynRead ==
  /\ apc = "idle" /\ data_package_queue # <<>>
  /\ held' = held \cup {Head(data_package_queue)}
  /\ data_package_queue' = Tail(data_package_queue)
  /\ UNCHANGED <<peerVars, epollVars, handlerVars, cacheVars, apc, apkg, stamp,
                 writes, pool, status, collected, lastSent>>

(* acquire_package for a second answer to the package in hand *)
AcquirePackage ==
  /\ apc = "idle" /\ Cardinality(held) = 1
  /\ \E p \in pool : held' = held \cup {p} /\ pool' = pool \ {p}
  /\ UNCHANGED <<peerVars, epollVars, handlerVars, cacheVars, apc, apkg, stamp,
                 writes, data_package_queue, status, collected, lastSent>>

ReleasePackage(p) ==
  /\ apc = "idle" /\ p \in held
  /\ held' = held \ {p}
  /\ pool' = pool \cup {p}
  /\ UNCHANGED <<peerVars, epollVars, handlerVars, cacheVars, apc, apkg, stamp,
                 writes, data_package_queue, status, collected, lastSent>>

(* asyn_write fills in the package. *)
AsynWrite(p, wanted) ==
  /\ apc = "idle" /\ p \in held /\ writes < MaxWrites
  /\ held' = held \ {p}
  /\ status' = [status EXCEPT ![p] = wanted]
  /\ writes' = writes + 1
  /\ stamp' = [stamp EXCEPT ![p] = writes']
  /\ apkg' = p
  /\ apc' = "find"
  /\ UNCHANGED <<peerVars, epollVars, handlerVars, cacheVars, pool,
                 data_package_queue, collected, lastSent>>

(* Mutant: push_front. *)
FindEntryPushFront ==
  /\ apc = "find"
  /\ IF cached
     THEN /\ package_list' = <<apkg>> \o package_list
          /\ apc' = "arm"
          /\ UNCHANGED pool
     ELSE /\ pool' = pool \cup {apkg}
          /\ apc' = "idle"
          /\ UNCHANGED package_list
  /\ apkg' = NoPackage
  /\ UNCHANGED <<peerVars, epollVars, handlerVars, cached, held, stamp, writes,
                 data_package_queue, status, collected, lastSent>>

(* The package joins the list if there is an entry ("connection still      *)
(* alive"), and goes back to the pool otherwise.                           *)
FindEntry ==
  /\ apc = "find"
  /\ IF cached
     THEN /\ package_list' = Append(package_list, apkg)
          /\ apc' = "arm"
          /\ UNCHANGED pool
     ELSE /\ pool' = pool \cup {apkg}
          /\ apc' = "idle"
          /\ UNCHANGED package_list
  /\ apkg' = NoPackage
  /\ UNCHANGED <<peerVars, epollVars, handlerVars, cached, held, stamp, writes,
                 data_package_queue, status, collected, lastSent>>

(* mod_fd_in_epoll(..., EPOLLOUT); on a closed descriptor it fails, and    *)
(* nobody looks.                                                           *)
ListenForWrite ==
  /\ apc = "arm"
  /\ interest' = IF interest = "closed" THEN "closed" ELSE "out"
  /\ apc' = "idle"
  /\ UNCHANGED <<peerVars, active, garbage, handlerVars, cacheVars, held, apkg,
                 stamp, writes, pool, data_package_queue, status, collected, lastSent>>
-----------------------------------------------------------------------------
(* connection_resource_gc: pending packages go back to the pool and the    *)
(* entry is erased, unless its list is empty; write_cache[connection_id]   *)
(* makes an entry if there is none. Then connection_info is recycled. When *)
(* that happens depends on the garbage of other connections                *)
(* (GARBAGE_LIMIT).                                                        *)
Collect ==
  /\ garbage > 0
  /\ garbage' = garbage - 1
  /\ collected' = TRUE
  /\ cached' = (package_list = <<>>)
  /\ pool' = pool \cup {package_list[i] : i \in DOMAIN package_list}
  /\ package_list' = <<>>
  /\ UNCHANGED <<peerVars, interest, active, handlerVars, appVars,
                 data_package_queue, status, lastSent>>
-----------------------------------------------------------------------------
Peer == PeerSends \/ PeerLeaves

Handler ==
  \/ Accept \/ Report \/ GetPackage \/ RecvData \/ RecvError \/ RecvNothing
  \/ FrontPackage \/ ContinueListen \/ SendAll \/ SendLess \/ PopFront \/ TestStatus

Write == \E p \in Packages, wanted \in {"KEEP", "CLOSE"} : AsynWrite(p, wanted)
Release == \E p \in Packages : ReleasePackage(p)

Application ==
  AsynRead \/ AcquirePackage \/ Release \/ Write \/ FindEntry \/ ListenForWrite

Next == Peer \/ Handler \/ Application \/ Collect

Spec == Init /\ [][Next]_vars

(* The threads keep running, and send does not come back with less for     *)
(* ever: the peer goes on reading. An application that has begun a call    *)
(* completes it. Neither the peer nor the collection of garbage is         *)
(* obliged to do anything.                                                 *)
Fairness ==
  /\ WF_vars(Handler)
  /\ SF_vars(SendAll)
  /\ WF_vars(AsynRead \/ FindEntry \/ ListenForWrite)

FairSpec == Spec /\ Fairness
-----------------------------------------------------------------------------
(* Every variable has a value of its kind. *)
TypeOK ==
  /\ peer \in {"open", "closed", "reset"}
  /\ unsent \in 0 .. MaxRequests /\ arrived \in 0 .. MaxRequests
  /\ interest \in {"none", "in", "out", "closed"}
  /\ active \in Nat /\ garbage \in Nat /\ collected \in BOOLEAN
  /\ hpc \in {"accept", "idle", "read", "recv", "write", "listen", "send", "pop", "test"}
  /\ hpkg \in Packages \cup {NoPackage} /\ failed \in BOOLEAN
  /\ asked \in {"KEEP", "CLOSE"}
  /\ cached \in BOOLEAN /\ package_list \in Seq(Packages)
  /\ pool \subseteq Packages /\ data_package_queue \in Seq(Packages)
  /\ held \subseteq Packages
  /\ apc \in {"idle", "find", "arm"} /\ apkg \in Packages \cup {NoPackage}
  /\ status \in [Packages -> {"KEEP", "CLOSE"}]
  /\ stamp \in [Packages -> 0 .. MaxWrites]
  /\ writes \in 0 .. MaxWrites /\ lastSent \in 0 .. MaxWrites

(***************************************************************************)
(* "ensure sequence" (asyn_write): packages are sent one after the other   *)
(* in the order of the calls, none is skipped and none is sent twice.      *)
(***************************************************************************)
SentInOrder == [][lastSent' # lastSent => lastSent' = lastSent + 1]_vars

(***************************************************************************)
(* A connection is closed at most once ("this will never trigger twice"):  *)
(* its connection_info is in garbage_can at most once, active_connect_num  *)
(* counts it exactly as long as it is open, and no handler works for it    *)
(* after its connection_info was recycled.                                 *)
(***************************************************************************)
ClosedOnce ==
  /\ garbage <= 1
  /\ collected => garbage = 0 /\ hpc = "idle"
  /\ active = IF interest \in {"in", "out"} THEN 1 ELSE 0

(***************************************************************************)
(* Every package is in exactly one place: in the pool, in the queue to the *)
(* application, in its hands, in the list, or with read_handler. The one   *)
(* exception is the package that write_handler has put back and not yet    *)
(* removed from the list; it may be given out again in between.            *)
(***************************************************************************)
Occurrences(s, p) == Cardinality({i \in DOMAIN s : s[i] = p})

Indicator(b) == IF b THEN 1 ELSE 0

Places(p) ==
  Indicator(p \in pool) + Occurrences(data_package_queue, p) + Indicator(p \in held)
  + Indicator(p = apkg) + Occurrences(package_list, p)
  + Indicator(hpc = "recv" /\ p = hpkg)

PackageAccounted ==
  \A p \in Packages : Places(p) = 1 + Indicator(hpc = "pop" /\ p = hpkg)

(***************************************************************************)
(* A connection that the peer has left is closed in the end, whatever      *)
(* epoll was told to watch meanwhile, unless read_handler waits for a      *)
(* package and the pool has none.                                          *)
(***************************************************************************)
DepartureNoticed ==
  peer # "open" ~> (interest = "closed" \/ (hpc = "read" /\ pool = {}))

(***************************************************************************)
(* "require a write work, will finish in background": as long as the peer  *)
(* stays, the packages that asyn_write has put into the list are sent, or  *)
(* the connection is closed.                                               *)
(***************************************************************************)
WriteFinishes ==
  package_list # <<>> ~>
    (package_list = <<>> \/ interest = "closed" \/ peer # "open")

(***************************************************************************)
(* "connection is close by peer or request close by client": a package     *)
(* written with close_connection closes the connection once it is sent, if *)
(* nobody has taken it out of the pool before its status is read. (If      *)
(* somebody has, and writes it with KEEP, the connection stays open.)      *)
(***************************************************************************)
CloseHonouredUnlessTaken ==
  [][hpc = "test" /\ hpc' = "idle" /\ asked = "CLOSE" /\ hpkg \in pool
       => interest' = "closed"]_vars
=============================================================================
