---------------------------- MODULE WorkSegment ----------------------------
(***************************************************************************)
(* How dispatch_worker (async_event_processor.h) cuts the events reported  *)
(* by one epoll_wait into one contiguous piece per dispatch thread.  The   *)
(* computation is pure: it reads event_num and the thread's index only.    *)
(*                                                                         *)
(* event_num is an int, THREAD_NUM a size_t: the comparison and the        *)
(* division are carried out on size_t, and the quotient is converted back  *)
(* to int.  The widths matter when epoll_wait fails and event_num is -1,   *)
(* so the two conversions are kept.                                        *)
(***************************************************************************)
EXTENDS Integers

CONSTANTS
  THREAD_NUM,   (* number of dispatch threads (4 in the code)              *)
  MAX_CONNECT,  (* length of epoll_events, the most epoll_wait can report  *)
  IntHalf,      (* an int ranges over -IntHalf .. IntHalf-1                *)
  SizeMod       (* a size_t ranges over 0 .. SizeMod-1                     *)

ASSUME SegmentAssumption ==
  /\ THREAD_NUM \in Nat \ {0}
  /\ MAX_CONNECT \in Nat
  /\ IntHalf \in Nat \ {0}
  /\ SizeMod \in Nat
  /\ THREAD_NUM < IntHalf
  /\ MAX_CONNECT < IntHalf
  /\ 2 * IntHalf <= SizeMod

Workers == 0 .. THREAD_NUM - 1

(* int -> size_t *)
ToSize(n) == n % SizeMod

(* size_t -> int: truncation to the low bits, read as two's complement *)
ToInt(n) ==
  LET low == n % (2 * IntHalf)
  IN  IF low < IntHalf THEN low ELSE low - 2 * IntHalf

(* "if there is enough work": event_num >= THREAD_NUM, compared as size_t *)
EnoughWork(n) == ToSize(n) >= THREAD_NUM

SegSize(n) == ToInt(ToSize(n) \div THREAD_NUM)

SegStart(w, n) ==
  IF EnoughWork(n) THEN w * SegSize(n)
  ELSE IF w < n    THEN w
  ELSE 0

(* Mutant: the last thread is not given the remainder. *)
SegEndNoRemainder(w, n) ==
  IF EnoughWork(n) THEN (w + 1) * SegSize(n)
  ELSE IF w < n    THEN w + 1
  ELSE 0

(* Mutant: this_thread_id <= event_num. *)
SegEndOneTooFar(w, n) ==
  IF EnoughWork(n) THEN IF w = THREAD_NUM - 1 THEN n ELSE (w + 1) * SegSize(n)
  ELSE IF w <= n   THEN w + 1
  ELSE 0

SegEnd(w, n) ==
  IF EnoughWork(n) THEN IF w = THREAD_NUM - 1 THEN n ELSE (w + 1) * SegSize(n)
  ELSE IF w < n    THEN w + 1
  ELSE 0

(* The indices of epoll_events the loop of thread w visits. *)
Segment(w, n) == SegStart(w, n) .. SegEnd(w, n) - 1

(* Every reported event belongs to the segment of exactly one thread. *)
SegmentsCover(n) ==
  \A i \in 0 .. n - 1 : \E w \in Workers : i \in Segment(w, n)

SegmentsDisjoint(n) ==
  \A v, w \in Workers : v # w => Segment(v, n) \cap Segment(w, n) = {}

(* No thread visits an index that epoll_wait did not fill in. *)
SegmentsInBounds(n) ==
  \A w \in Workers : Segment(w, n) \subseteq 0 .. n - 1
=============================================================================
