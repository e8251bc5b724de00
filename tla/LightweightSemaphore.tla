----------------------- MODULE LightweightSemaphore -----------------------
(***************************************************************************)
(* spsc_sema::LightweightSemaphore of atomic_ops.h: an atomic count in     *)
(* front of an operating system semaphore. A negative count is a waiter    *)
(* that will sleep on m_sema, or sleeps already; the signal that makes the *)
(* count go from negative to zero posts m_sema for it.                     *)
(*                                                                         *)
(* Each atomic operation on m_count and each call on m_sema is a step.     *)
(* avail is a history variable: permits signalled and not yet acquired.    *)
(***************************************************************************)
EXTENDS Integers

CONSTANTS
  Signalers,   (* threads that call signal()                               *)
  Waiters,     (* threads that call tryWait(), wait() and wait(usecs)      *)
  MaxCount     (* bound: signal() is not called once m_count reaches it    *)

ASSUME SemaphoreAssumption == MaxCount \in Nat \ {0}

VARIABLES
  m_count,     (* the count                                                *)
  m_sema,      (* the value of the operating system semaphore              *)
  signaling,   (* where each signaler is: "idle", "post"                   *)
  pc,          (* where each waiter is                                     *)
  mode,        (* which of the three operations each waiter has called     *)
  avail        (* history: permits signalled and not yet acquired          *)

semVars == <<m_count, m_sema, signaling, pc, mode, avail>>

Modes == {"try", "wait", "timed"}

Init ==
  /\ m_count = 0
  /\ m_sema = 0
  /\ signaling = [s \in Signalers |-> "idle"]
  /\ pc = [w \in Waiters |-> "idle"]
  /\ mode = [w \in Waiters |-> "wait"]
  /\ avail = 0

Goto(w, place) == pc' = [pc EXCEPT ![w] = place]
-----------------------------------------------------------------------------
(***************************************************************************)
(* signal()                                                                *)
(***************************************************************************)

(* Mutant: the sleeping waiter is not woken. *)
FetchAddSignalNoPost(s) ==
  /\ signaling[s] = "idle"
  /\ m_count < MaxCount
  /\ m_count' = m_count + 1
  /\ avail' = avail + 1
  /\ UNCHANGED <<m_sema, signaling, pc, mode>>

(* Mutant: m_sema is posted when nobody sleeps, too (oldCount <= 0). *)
FetchAddSignalPostsAtZero(s) ==
  /\ signaling[s] = "idle"
  /\ m_count < MaxCount
  /\ m_count' = m_count + 1
  /\ avail' = avail + 1
  /\ signaling' = [signaling EXCEPT ![s] = IF m_count <= 0 THEN "post" ELSE "idle"]
  /\ UNCHANGED <<m_sema, pc, mode>>

FetchAddSignal(s) ==
  /\ signaling[s] = "idle"
  /\ m_count < MaxCount
  /\ m_count' = m_count + 1
  /\ avail' = avail + 1
  /\ signaling' = [signaling EXCEPT ![s] = IF m_count < 0 THEN "post" ELSE "idle"]
  /\ UNCHANGED <<m_sema, pc, mode>>

(* m_sema.signal(1) *)
Post(s) ==
  /\ signaling[s] = "post"
  /\ m_sema' = m_sema + 1
  /\ signaling' = [signaling EXCEPT ![s] = "idle"]
  /\ UNCHANGED <<m_count, pc, mode, avail>>
-----------------------------------------------------------------------------
(***************************************************************************)
(* tryWait() and the spinning part of wait()                               *)
(***************************************************************************)

BeginWait(w) ==
  /\ pc[w] = "idle"
  /\ \E m \in Modes : mode' = [mode EXCEPT ![w] = m]
  /\ Goto(w, "load")
  /\ UNCHANGED <<m_count, m_sema, signaling, avail>>

(* m_count.load() > 0 in tryWait; without a permit tryWait returns false,  *)
(* and the other two go on to spin.                                        *)
TryLoad(w) ==
  /\ pc[w] = "load"
  /\ Goto(w, IF m_count > 0 THEN "dec" ELSE IF mode[w] = "try" THEN "idle" ELSE "spin")
  /\ UNCHANGED <<m_count, m_sema, signaling, mode, avail>>

(* One of the 10000 turns of the spin loop: it sees a permit, or it is the *)
(* last turn. The turns before the last one change nothing.                *)
Spin(w) ==
  /\ pc[w] = "spin"
  /\ Goto(w, IF m_count > 0 THEN "dec" ELSE "block")
  /\ UNCHANGED <<m_count, m_sema, signaling, mode, avail>>

(* m_count.fetch_add_acquire(-1) after a load that saw a permit *)
TakeSeen(w) ==
  /\ pc[w] = "dec"
  /\ m_count' = m_count - 1
  /\ avail' = avail - 1
  /\ Goto(w, "acquired")
  /\ UNCHANGED <<m_sema, signaling, mode>>
-----------------------------------------------------------------------------
(***************************************************************************)
(* The blocking part of waitWithPartialSpinning()                          *)
(***************************************************************************)

(* m_count.fetch_add_acquire(-1); a permit was there, or the waiter sleeps *)
BlockDec(w) ==
  /\ pc[w] = "block"
  /\ m_count' = m_count - 1
  /\ IF m_count > 0
     THEN avail' = avail - 1 /\ Goto(w, "acquired")
     ELSE avail' = avail /\ Goto(w, IF mode[w] = "timed" THEN "timedWait" ELSE "semWait")
  /\ UNCHANGED <<m_sema, signaling, mode>>

(* m_sema.wait(), or m_sema.timed_wait() in time *)
SemWait(w) ==
  /\ pc[w] \in {"semWait", "timedWait"}
  /\ m_sema > 0
  /\ m_sema' = m_sema - 1
  /\ avail' = avail - 1
  /\ Goto(w, "acquired")
  /\ UNCHANGED <<m_count, signaling, mode>>

(* timed_wait() returns false. A post may already be there: the operating  *)
(* system need not look again once the time is over.                       *)
Timeout(w) ==
  /\ pc[w] = "timedWait"
  /\ Goto(w, "restore")
  /\ UNCHANGED <<m_count, m_sema, signaling, mode, avail>>

(* Mutant: a waiter that timed out leaves without looking for a signal that *)
(* came in between.                                                        *)
RestoreAndLeave(w) ==
  /\ pc[w] = "restore"
  /\ m_count' = m_count + 1
  /\ Goto(w, "idle")
  /\ UNCHANGED <<m_sema, signaling, mode, avail>>

(* m_count.fetch_add_release(1): the waiter takes back its claim, and may  *)
(* leave if no signal has answered it.                                     *)
Restore(w) ==
  /\ pc[w] = "restore"
  /\ m_count' = m_count + 1
  /\ Goto(w, IF m_count < 0 THEN "idle" ELSE "redec")
  /\ UNCHANGED <<m_sema, signaling, mode, avail>>

(* m_count.fetch_add_acquire(-1): claims again *)
ReDec(w) ==
  /\ pc[w] = "redec"
  /\ m_count' = m_count - 1
  /\ Goto(w, IF m_count > 0 THEN "semTry" ELSE "restore")
  /\ UNCHANGED <<m_sema, signaling, mode, avail>>

(* Mutant: the result of m_sema.try_wait() is not looked at. *)
SemTryUnchecked(w) ==
  /\ pc[w] = "semTry"
  /\ m_sema' = m_sema - 1
  /\ avail' = avail - 1
  /\ Goto(w, "acquired")
  /\ UNCHANGED <<m_count, signaling, mode>>

(* m_sema.try_wait() *)
SemTry(w) ==
  /\ pc[w] = "semTry"
  /\ IF m_sema > 0
     THEN m_sema' = m_sema - 1 /\ avail' = avail - 1 /\ Goto(w, "acquired")
     ELSE m_sema' = m_sema /\ avail' = avail /\ Goto(w, "restore")
  /\ UNCHANGED <<m_count, signaling, mode>>

(* The operation returns true. *)
Return(w) ==
  /\ pc[w] = "acquired"
  /\ Goto(w, "idle")
  /\ UNCHANGED <<m_count, m_sema, signaling, mode, avail>>
-----------------------------------------------------------------------------
(* The steps of a call of a waiter, its return excepted. *)
WaitStep(w) ==
  \/ TryLoad(w) \/ Spin(w) \/ TakeSeen(w) \/ BlockDec(w) \/ SemWait(w)
  \/ Timeout(w) \/ Restore(w) \/ ReDec(w) \/ SemTry(w)

Next ==
  \/ \E s \in Signalers : FetchAddSignal(s) \/ Post(s)
  \/ \E w \in Waiters : BeginWait(w) \/ WaitStep(w) \/ Return(w)

(* A signal that has begun comes to its end, and so does a wait that is    *)
(* not asleep. Nobody has to call either operation.                        *)
Fairness ==
  /\ \A s \in Signalers : WF_semVars(Post(s))
  /\ \A w \in Waiters : WF_semVars(WaitStep(w))

Spec == Init /\ [][Next]_semVars

FairSpec == Spec /\ Fairness
-----------------------------------------------------------------------------
Places == {"idle", "load", "spin", "dec", "block", "semWait", "timedWait",
           "restore", "redec", "semTry", "acquired"}

(* Every variable has a value of its kind. *)
TypeOK ==
  /\ m_count \in Int
  /\ m_sema \in Nat
  /\ signaling \in [Signalers -> {"idle", "post"}]
  /\ pc \in [Waiters -> Places]
  /\ mode \in [Waiters -> Modes]
  /\ avail \in Int

(***************************************************************************)
(* "semaphore": as many waits succeed as there were signals, and no more.  *)
(* A wait that returns true has a permit of its own, so the dequeue that   *)
(* follows it (BlockinglockFreeQueue) finds an element.                    *)
(***************************************************************************)
NoPermitInvented == avail >= 0

(***************************************************************************)
(* No wakeup is left behind: when nobody waits and no signal is under way, *)
(* m_sema is 0 and the count is exactly the number of permits. A post left *)
(* in m_sema by a timed wait that raced a signal would let a later wait    *)
(* through without a permit.                                               *)
(***************************************************************************)
QuietMeansExact ==
  /\ \A s \in Signalers : signaling[s] = "idle"
  /\ \A w \in Waiters : pc[w] \in {"idle", "acquired"}
  => m_sema = 0 /\ m_count = avail

(* Permits are neither invented nor lost. *)
PermitsKept == NoPermitInvented /\ QuietMeansExact

(* What a caller of the semaphore sees of each waiter. *)
Status == [w \in Waiters |->
             IF pc[w] \in {"idle", "acquired"} THEN pc[w] ELSE "waiting"]

Abstract == INSTANCE CountingSemaphore WITH permits <- avail, status <- Status

(***************************************************************************)
(* The semaphore is a counting semaphore: waits end when they can, take    *)
(* only permits that exist, and give up only when there is none.           *)
(***************************************************************************)
ImplementsCountingSemaphore == Abstract!FairSpec
=============================================================================
