--------------------------- MODULE BlockingQueue ---------------------------
(***************************************************************************)
(* BlockinglockFreeQueue of queue_lock_free.h: the element goes into the   *)
(* inner queue first and the semaphore is signalled afterwards; the        *)
(* consumer waits for the semaphore first and takes from the inner queue   *)
(* afterwards, without looking at whether it got anything.                 *)
(*                                                                         *)
(* The inner queue is the FIFO queue that SpscQueue implements, so this    *)
(* module is about one producer and one consumer. pop is try_dequeue       *)
(* without the element; peek does not use the semaphore.                   *)
(***************************************************************************)
EXTENDS LightweightSemaphore, Sequences

CONSTANTS
  Elements,
  NoElement    (* what a consumer has before its call gives it an element  *)

ASSUME BlockingQueueAssumption == NoElement \notin Elements

VARIABLES
  inner,       (* the elements of the inner queue                          *)
  producing,   (* of each producer: "signal" between enqueue and signal    *)
  got          (* of each consumer: result of the last call                *)

innerVars == <<inner, producing, got>>
queueVars == <<semVars, innerVars>>

QueueInit ==
  /\ Init
  /\ inner = <<>>
  /\ producing = [s \in Signalers |-> "idle"]
  /\ got = [w \in Waiters |-> NoElement]
-----------------------------------------------------------------------------
(* Mutant: the semaphore is signalled although inner.enqueue has failed.   *)
InnerEnqueueFailedToo(s) ==
  /\ producing[s] = "idle" /\ signaling[s] = "idle"
  /\ inner' \in {inner} \cup {Append(inner, e) : e \in Elements}
  /\ producing' = [producing EXCEPT ![s] = "signal"]
  /\ UNCHANGED <<semVars, got>>

(* enqueue and try_enqueue: inner.enqueue(element) returns true. If it     *)
(* returns false nothing happens.                                          *)
InnerEnqueue(s) ==
  /\ producing[s] = "idle" /\ signaling[s] = "idle"
  /\ \E e \in Elements : inner' = Append(inner, e)
  /\ producing' = [producing EXCEPT ![s] = "signal"]
  /\ UNCHANGED <<semVars, got>>

(* sema.signal() *)
SignalElement(s) ==
  /\ producing[s] = "signal"
  /\ FetchAddSignal(s)
  /\ producing' = [producing EXCEPT ![s] = "idle"]
  /\ UNCHANGED <<inner, got>>

PostElement(s) ==
  /\ Post(s)
  /\ UNCHANGED innerVars

(* try_dequeue, wait_dequeue and wait_dequeue_timed begin. *)
BeginDequeue(w) ==
  /\ BeginWait(w)
  /\ got' = [got EXCEPT ![w] = NoElement]
  /\ UNCHANGED <<inner, producing>>

(* sema.tryWait(), sema.wait(), sema.wait(timeout_usecs) *)
WaitForElement(w) ==
  /\ WaitStep(w)
  /\ UNCHANGED innerVars

(* inner.try_dequeue(result), whose own result is not used *)
InnerDequeue(w) ==
  /\ Return(w)
  /\ IF inner = <<>> THEN UNCHANGED <<inner, got>>
     ELSE inner' = Tail(inner) /\ got' = [got EXCEPT ![w] = Head(inner)]
  /\ UNCHANGED producing

(* size_approx *)
SizeApprox == IF m_count > 0 THEN m_count ELSE 0
-----------------------------------------------------------------------------
EnqueueStep(s) == SignalElement(s) \/ PostElement(s)
DequeueStep(w) == WaitForElement(w) \/ InnerDequeue(w)

QueueNext ==
  \/ \E s \in Signalers : InnerEnqueue(s) \/ EnqueueStep(s)
  \/ \E w \in Waiters : BeginDequeue(w) \/ DequeueStep(w)

QueueSpec == QueueInit /\ [][QueueNext]_queueVars

(* A call that has begun goes on; nobody has to make one. *)
QueueFairSpec ==
  /\ QueueSpec
  /\ \A s \in Signalers : WF_queueVars(EnqueueStep(s))
  /\ \A w \in Waiters : WF_queueVars(DequeueStep(w))
-----------------------------------------------------------------------------
(* Every variable has a value of its kind. *)
QueueTypeOK ==
  /\ TypeOK
  /\ inner \in Seq(Elements)
  /\ producing \in [Signalers -> {"idle", "signal"}]
  /\ got \in [Waiters -> Elements \cup {NoElement}]

(***************************************************************************)
(* wait_dequeue does not look at the result of inner.try_dequeue: whoever  *)
(* has got through the semaphore finds an element in the inner queue.      *)
(* Otherwise the caller would go on with an uninitialised pointer          *)
(* (pre_alloc_pool::get, asyn_read).                                       *)
(***************************************************************************)
PermitMeansElement ==
  \A w \in Waiters : pc[w] = "acquired" => inner # <<>>

(***************************************************************************)
(* connection_resource_gc reads size_approx and then dequeues that many    *)
(* times: a consumer between two calls can count on the elements that      *)
(* size_approx reports.                                                    *)
(***************************************************************************)
SizeApproxIsThere ==
  (\A w \in Waiters : pc[w] = "idle") => SizeApprox <= Len(inner)

(***************************************************************************)
(* A consumer does not sleep on while there is an element: its call comes  *)
(* to an end, and a wait_dequeue ends with an element.                     *)
(***************************************************************************)
ElementEndsWait ==
  \A w \in Waiters :
    pc[w] # "idle" /\ inner # <<>> ~>
      pc[w] = "idle" /\ (mode[w] = "wait" => got[w] # NoElement)
=============================================================================
