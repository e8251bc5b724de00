---------------------------- MODULE PackagePool ----------------------------
(***************************************************************************)
(* pre_alloc_pool of transfer_info_manager.h with several users: the       *)
(* container is a BlockinglockFreeQueue, made for one producer and one     *)
(* consumer, but packages are put back by the dispatch threads, the        *)
(* collector and the application, and taken by a dispatch thread and, with *)
(* acquire_package, by the application. Here any user calls put and get.   *)
(*                                                                         *)
(* As in BlockingQueue the inner queue is the FIFO queue that SpscQueue    *)
(* implements, with any number of blocks, while one user at a time is in   *)
(* inner_enqueue and one in try_dequeue. A call is inside from its first   *)
(* step until the store that makes the element appear or disappear. With   *)
(* two users inside the same one the container keeps no promise, and these *)
(* calls are not followed further. remain_package_num, a plain counter     *)
(* that is only printed, is left out.                                      *)
(***************************************************************************)
EXTENDS LightweightSemaphore, Sequences, FiniteSets

CONSTANTS
  NumPackages, (* package_num of init                                      *)
  NoPackage

ASSUME PoolAssumption ==
  /\ Signalers = Waiters /\ IsFiniteSet(Waiters)
  /\ NumPackages \in Nat /\ NumPackages < MaxCount
  /\ NoPackage \notin 1 .. NumPackages

VARIABLES
  stored,      (* the packages in the inner queue                          *)
  place,       (* where each user is in put, or in get after the semaphore *)
  item,        (* the package each user puts                               *)
  out,         (* the packages that were got and not put back              *)
  lost,        (* history: packages that were put back without success     *)
  raced        (* history: two users were in the same end at once          *)

userVars == <<place, item>>
poolVars == <<semVars, stored, userVars, out, lost, raced>>

Users == Waiters
Package == 1 .. NumPackages

(* init has put all packages into the container. *)
PoolInit ==
  /\ m_count = NumPackages /\ avail = NumPackages /\ m_sema = 0
  /\ signaling = [u \in Users |-> "idle"]
  /\ pc = [u \in Users |-> "idle"]
  /\ mode = [u \in Users |-> "wait"]
  /\ stored = [i \in 1 .. NumPackages |-> i]
  /\ place = [u \in Users |-> "idle"]
  /\ item = [u \in Users |-> NoPackage]
  /\ out = {} /\ lost = {}
  /\ raced = FALSE

At(u, here, there) == place[u] = here /\ place' = [place EXCEPT ![u] = there]

Putting == {u \in Users : place[u] = "enqueue"}
Taking == {u \in Users : place[u] = "dequeue"}
-----------------------------------------------------------------------------
(***************************************************************************)
(* put: container.enqueue                                                  *)
(***************************************************************************)

(* Who puts a package back need not be who got it. *)
BeginPut(u) ==
  /\ ~raced /\ pc[u] = "idle" /\ signaling[u] = "idle"
  /\ At(u, "idle", "enqueue")
  /\ \E p \in out : item' = [item EXCEPT ![u] = p] /\ out' = out \ {p}
  /\ UNCHANGED <<semVars, stored, lost>>

(* inner.enqueue(element) returns true. *)
EnqueuePackage(u) ==
  /\ Putting = {u} /\ At(u, "enqueue", "signal")
  /\ stored' = Append(stored, item[u])
  /\ item' = [item EXCEPT ![u] = NoPackage]
  /\ UNCHANGED <<semVars, out, lost>>

(* Mutant: the semaphore is signalled although inner.enqueue has failed.   *)
EnqueueFailsSignals(u) ==
  /\ Putting = {u} /\ At(u, "enqueue", "signal")
  /\ lost' = lost \cup {item[u]}
  /\ item' = [item EXCEPT ![u] = NoPackage]
  /\ UNCHANGED <<semVars, stored, out>>

(* Both blocks at hand are full and malloc fails: inner.enqueue returns    *)
(* false, enqueue returns without a signal, and put does not notice.       *)
EnqueueFails(u) ==
  /\ Putting = {u} /\ At(u, "enqueue", "idle")
  /\ lost' = lost \cup {item[u]}
  /\ item' = [item EXCEPT ![u] = NoPackage]
  /\ UNCHANGED <<semVars, stored, out>>

(* sema.signal() *)
SignalPackage(u) ==
  /\ At(u, "signal", "idle")
  /\ FetchAddSignal(u)
  /\ UNCHANGED <<stored, item, out, lost>>

PostPackage(u) ==
  /\ Post(u)
  /\ UNCHANGED <<stored, userVars, out, lost>>
-----------------------------------------------------------------------------
(***************************************************************************)
(* get: container.wait_dequeue                                             *)
(***************************************************************************)

BeginGet(u) ==
  /\ ~raced /\ place[u] = "idle" /\ signaling[u] = "idle"
  /\ BeginWait(u) /\ mode' = mode
  /\ UNCHANGED <<stored, userVars, out, lost>>

(* sema.wait() *)
WaitForPackage(u) ==
  /\ WaitStep(u)
  /\ UNCHANGED <<stored, userVars, out, lost>>

(* inner.try_dequeue(result) begins. *)
BeginDequeue(u) ==
  /\ pc[u] = "acquired"
  /\ At(u, "idle", "dequeue")
  /\ UNCHANGED <<semVars, stored, item, out, lost>>

(* It finds nothing, and get returns whatever the uninitialised pointer    *)
(* was.                                                                    *)
FindNothing(u) ==
  /\ Taking = {u} /\ At(u, "dequeue", "idle")
  /\ stored = <<>>
  /\ Return(u)
  /\ UNCHANGED <<stored, item, out, lost>>

(* Mutant: get returns its own variable instead of the result. *)
DequeuePackageNoResult(u) ==
  /\ Taking = {u} /\ At(u, "dequeue", "idle")
  /\ stored # <<>>
  /\ stored' = Tail(stored)
  /\ out' = out \cup {item[u]}
  /\ Return(u)
  /\ UNCHANGED <<item, lost>>

(* Mutant: front is not stored. *)
DequeuePackageKeepsFront(u) ==
  /\ Taking = {u} /\ At(u, "dequeue", "idle")
  /\ stored # <<>>
  /\ out' = out \cup {Head(stored)}
  /\ Return(u)
  /\ UNCHANGED <<stored, item, lost>>

(* It takes the first package, and get returns it. *)
DequeuePackage(u) ==
  /\ Taking = {u} /\ At(u, "dequeue", "idle")
  /\ stored # <<>>
  /\ stored' = Tail(stored)
  /\ out' = out \cup {Head(stored)}
  /\ Return(u)
  /\ UNCHANGED <<item, lost>>
-----------------------------------------------------------------------------
PutStep(u) ==
  BeginPut(u) \/ EnqueuePackage(u) \/ EnqueueFails(u) \/ SignalPackage(u) \/ PostPackage(u)

GetStep(u) ==
  BeginGet(u) \/ WaitForPackage(u) \/ BeginDequeue(u) \/ FindNothing(u) \/ DequeuePackage(u)

SeesPermit == {u \in Users : pc[u] = "dec"}

(* Two users are in inner_enqueue, or in try_dequeue, at once, or more     *)
(* users have seen a permit (tryWait, the spin loop) than there are.       *)
Racing ==
  \/ Cardinality(Putting) > 1
  \/ Cardinality(Taking) > 1
  \/ SeesPermit # {} /\ Cardinality(SeesPermit) > m_count

(* After a race no call begins. *)
PoolNext ==
  /\ \E u \in Users : PutStep(u) \/ GetStep(u)
  /\ raced' = (raced \/ Racing')

PoolSpec == PoolInit /\ [][PoolNext]_poolVars
-----------------------------------------------------------------------------
(* Every variable has a value of its kind. *)
PoolTypeOK ==
  /\ TypeOK
  /\ stored \in Seq(Package)
  /\ place \in [Users -> {"idle", "enqueue", "signal", "dequeue"}]
  /\ item \in [Users -> Package \cup {NoPackage}]
  /\ \A u \in Putting : item[u] \in Package
  /\ out \subseteq Package /\ lost \subseteq Package
  /\ raced \in BOOLEAN

Stored == {stored[i] : i \in DOMAIN stored}

BeingPut == {item[u] : u \in Putting}

(***************************************************************************)
(* As long as users take turns at each end -- they need not be the same    *)
(* users all the time, and a put may run during a get -- every package is  *)
(* in one place: stored, got by one user, on its way back, or lost because *)
(* there was no memory to put it back. So two connections never share a    *)
(* package.                                                                *)
(***************************************************************************)
PackagesAccounted ==
  ~raced =>
    /\ Stored \cup out \cup BeingPut \cup lost = Package
    /\ Len(stored) + Cardinality(out) + Cardinality(Putting) + Cardinality(lost) = NumPackages

(***************************************************************************)
(* Whoever has come through the semaphore has a package of its own to      *)
(* take, even when several users sleep and several wake them: the signals  *)
(* and the sleeping need no turns, only the rest does. get does not look   *)
(* at the result of try_dequeue.                                           *)
(***************************************************************************)
GetFindsPackage ==
  ~raced => Cardinality({u \in Users : pc[u] = "acquired"}) <= Len(stored)

(***************************************************************************)
(* No user sleeps over a package: when the others are done or asleep too   *)
(* and nobody will be woken, the container is empty.                       *)
(***************************************************************************)
Asleep == {u \in Users : pc[u] = "semWait"}

AsleepMeansEmpty ==
  /\ ~raced /\ m_sema = 0 /\ Asleep # {}
  /\ \A u \in Users : u \in Asleep \/
       (pc[u] = "idle" /\ place[u] = "idle" /\ signaling[u] = "idle")
  => stored = <<>>
=============================================================================
