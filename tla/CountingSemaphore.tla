------------------------- MODULE CountingSemaphore -------------------------
(***************************************************************************)
(* What LightweightSemaphore promises the queues built on it: a counter of *)
(* permits. A wait takes a permit that a signal has left, a wait that gives *)
(* up found none, and a plain wait never gives up.                         *)
(***************************************************************************)
EXTENDS Integers

CONSTANTS Waiters

VARIABLES
  permits,   (* permits signalled and not yet taken                        *)
  status,    (* "idle", "waiting" or "acquired", for each waiter           *)
  mode       (* "try" (tryWait), "wait" or "timed", for each waiter        *)

vars == <<permits, status, mode>>

Modes == {"try", "wait", "timed"}

Init ==
  /\ permits = 0
  /\ status = [w \in Waiters |-> "idle"]
  /\ mode \in [Waiters -> {"wait"}]

Signal ==
  /\ permits' = permits + 1
  /\ UNCHANGED <<status, mode>>

Begin(w) ==
  /\ status[w] = "idle"
  /\ status' = [status EXCEPT ![w] = "waiting"]
  /\ \E m \in Modes : mode' = [mode EXCEPT ![w] = m]
  /\ UNCHANGED permits

Take(w) ==
  /\ status[w] = "waiting"
  /\ permits > 0
  /\ permits' = permits - 1
  /\ status' = [status EXCEPT ![w] = "acquired"]
  /\ UNCHANGED mode

GiveUp(w) ==
  /\ status[w] = "waiting"
  /\ mode[w] # "wait"
  /\ permits = 0
  /\ status' = [status EXCEPT ![w] = "idle"]
  /\ UNCHANGED <<permits, mode>>

Return(w) ==
  /\ status[w] = "acquired"
  /\ status' = [status EXCEPT ![w] = "idle"]
  /\ UNCHANGED <<permits, mode>>

Next ==
  \/ Signal
  \/ \E w \in Waiters : Begin(w) \/ Take(w) \/ GiveUp(w) \/ Return(w)

Spec == Init /\ [][Next]_vars

(* A wait that can end does end. *)
FairSpec == Spec /\ \A w \in Waiters : WF_vars(Take(w) \/ GiveUp(w))
=============================================================================
