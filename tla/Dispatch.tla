------------------------------ MODULE Dispatch ------------------------------
(***************************************************************************)
(* The event loop and the dispatch threads of async_event_processor_tcp:   *)
(* the main thread collects a batch of events with epoll_wait, opens       *)
(* dispatch_token, and every dispatch thread handles its segment and sets  *)
(* its own bit of the token when it is done.                               *)
(*                                                                         *)
(* dispatch_token is the set of the threads whose bit is 1 ("no token").   *)
(* It is a volatile 64-bit word: each occurrence of the name in the code   *)
(* is a read or a write of its own, so closing the token takes three       *)
(* steps: a read that builds the new value, a second read for the value    *)
(* the compare-and-swap expects, and the compare-and-swap itself.          *)
(* Memory is sequentially consistent.                                      *)
(***************************************************************************)
EXTENDS WorkSegment

CONSTANTS
  EpollResults,  (* the values epoll_wait may return                       *)
  MaxRetry,      (* bound of the counter of failed compare-and-swaps       *)
  MaxHandled     (* bound of the counter of handler runs of an event       *)

ASSUME DispatchAssumption ==
  /\ EpollResults \subseteq {-1} \cup (1 .. MAX_CONNECT)
  /\ MaxRetry \in Nat
  /\ MaxHandled \in Nat \ {0, 1}

VARIABLES
  dispatch_token,  (* the threads whose bit is set                         *)
  event_num,       (* result of the last epoll_wait                        *)
  mainPc,          (* where event_loop is                                  *)
  pc,              (* where each dispatch thread is                        *)
  idx,             (* loop variable i of each dispatch thread              *)
  work_seg_end,    (* end of the segment of each dispatch thread           *)
  new_token,       (* new_dispatch_token of each dispatch thread           *)
  expected,        (* value each compare-and-swap expects                  *)
  handled,         (* history: handler runs of each event of this batch    *)
  retries,         (* history: failed compare-and-swaps of this closing    *)
  overwritten      (* history: a closing dropped the bit of another thread *)

mainVars  == <<event_num, mainPc>>
loopVars  == <<idx, work_seg_end>>
closeVars == <<new_token, expected, retries, overwritten>>
vars == <<dispatch_token, event_num, mainPc, pc, idx, work_seg_end,
          new_token, expected, handled, retries, overwritten>>

Indices == 0 .. MAX_CONNECT - 1

Init ==
  /\ dispatch_token = Workers
  /\ event_num = 0
  /\ mainPc = "test"
  /\ pc = [w \in Workers |-> "poll"]
  /\ idx = [w \in Workers |-> 0]
  /\ work_seg_end = [w \in Workers |-> 0]
  /\ new_token = [w \in Workers |-> {}]
  /\ expected = [w \in Workers |-> {}]
  /\ handled = [i \in Indices |-> 0]
  /\ retries = [w \in Workers |-> 0]
  /\ overwritten = FALSE

(* Adds one to a counter that stops at its bound. *)
Bump(n, bound) == IF n < bound THEN n + 1 ELSE n
-----------------------------------------------------------------------------
(***************************************************************************)
(* event_loop                                                              *)
(***************************************************************************)

(* Mutant: the loop goes on as soon as one thread has closed its bit. *)
TestTokenAny ==
  /\ mainPc = "test"
  /\ dispatch_token # {}
  /\ mainPc' = "wait"
  /\ UNCHANGED <<dispatch_token, event_num, pc, loopVars, handled, closeVars>>

(* (dispatch_token & no_worker_mask) == no_worker_mask; otherwise yield *)
TestToken ==
  /\ mainPc = "test"
  /\ dispatch_token = Workers
  /\ mainPc' = "wait"
  /\ UNCHANGED <<dispatch_token, event_num, pc, loopVars, handled, closeVars>>

(* event_num = epoll_wait(...), a new batch *)
EpollWait ==
  /\ mainPc = "wait"
  /\ event_num' \in EpollResults
  /\ handled' = [i \in Indices |-> 0]
  /\ mainPc' = "open"
  /\ UNCHANGED <<dispatch_token, pc, loopVars, closeVars>>

(* dispatch_token = 0, all threads may start *)
OpenToken ==
  /\ mainPc = "open"
  /\ dispatch_token' = {}
  /\ mainPc' = "test"
  /\ UNCHANGED <<event_num, pc, loopVars, handled, closeVars>>
-----------------------------------------------------------------------------
(***************************************************************************)
(* dispatch_worker                                                         *)
(***************************************************************************)

(* A thread with its bit at 0 has work to do. Otherwise the thread yields. *)
PollToken(w) ==
  /\ pc[w] = "poll"
  /\ w \notin dispatch_token
  /\ pc' = [pc EXCEPT ![w] = "segment"]
  /\ UNCHANGED <<dispatch_token, mainVars, loopVars, handled, closeVars>>

(* The thread reads event_num and computes its segment. *)
ComputeSegment(w) ==
  /\ pc[w] = "segment"
  /\ idx' = [idx EXCEPT ![w] = SegStart(w, event_num)]
  /\ work_seg_end' = [work_seg_end EXCEPT ![w] = SegEnd(w, event_num)]
  /\ pc' = [pc EXCEPT ![w] = "work"]
  /\ UNCHANGED <<dispatch_token, mainVars, handled, closeVars>>

(* One turn of the loop: a handler runs for epoll_events[i]. *)
HandleEvent(w) ==
  /\ pc[w] = "work"
  /\ idx[w] < work_seg_end[w]
  /\ handled' = [i \in Indices |-> IF i = idx[w] THEN Bump(handled[i], MaxHandled)
                                                 ELSE handled[i]]
  /\ idx' = [idx EXCEPT ![w] = @ + 1]
  /\ UNCHANGED <<dispatch_token, mainVars, pc, work_seg_end, closeVars>>

(* The loop is over; its variables go out of scope. *)
FinishSegment(w) ==
  /\ pc[w] = "work"
  /\ idx[w] >= work_seg_end[w]
  /\ pc' = [pc EXCEPT ![w] = "build"]
  /\ idx' = [idx EXCEPT ![w] = 0]
  /\ work_seg_end' = [work_seg_end EXCEPT ![w] = 0]
  /\ UNCHANGED <<dispatch_token, mainVars, handled, closeVars>>

(* Mutant: the mask is shifted one bit too far. *)
BuildTokenShifted(w) ==
  /\ pc[w] = "build"
  /\ new_token' = [new_token EXCEPT ![w] = dispatch_token \cup {w + 1}]
  /\ pc' = [pc EXCEPT ![w] = "expect"]
  /\ UNCHANGED <<dispatch_token, mainVars, loopVars, handled,
                 expected, retries, overwritten>>

(* Mutant: the mask is empty. *)
BuildTokenNoBit(w) ==
  /\ pc[w] = "build"
  /\ new_token' = [new_token EXCEPT ![w] = dispatch_token]
  /\ pc' = [pc EXCEPT ![w] = "expect"]
  /\ UNCHANGED <<dispatch_token, mainVars, loopVars, handled,
                 expected, retries, overwritten>>

(* new_dispatch_token = dispatch_token | (1 << this_thread_id) *)
BuildToken(w) ==
  /\ pc[w] = "build"
  /\ new_token' = [new_token EXCEPT ![w] = dispatch_token \cup {w}]
  /\ pc' = [pc EXCEPT ![w] = "expect"]
  /\ UNCHANGED <<dispatch_token, mainVars, loopVars, handled,
                 expected, retries, overwritten>>

(* the second argument of __sync_bool_compare_and_swap: dispatch_token is  *)
(* read again                                                              *)
ReadExpected(w) ==
  /\ pc[w] = "expect"
  /\ expected' = [expected EXCEPT ![w] = dispatch_token]
  /\ pc' = [pc EXCEPT ![w] = "swap"]
  /\ UNCHANGED <<dispatch_token, mainVars, loopVars, handled,
                 new_token, retries, overwritten>>

(* The locals of one attempt go out of scope. *)
LeaveAttempt(w) ==
  /\ new_token' = [new_token EXCEPT ![w] = {}]
  /\ expected' = [expected EXCEPT ![w] = {}]

(* The compare-and-swap succeeds. Its two reads may have given different   *)
(* values; then the word written is not the current one with w's bit set.  *)
SwapToken(w) ==
  /\ pc[w] = "swap"
  /\ dispatch_token = expected[w]
  /\ dispatch_token' = new_token[w]
  /\ overwritten' = (overwritten \/ expected[w] \cup {w} # new_token[w])
  /\ pc' = [pc EXCEPT ![w] = "poll"]
  /\ retries' = [retries EXCEPT ![w] = 0]
  /\ LeaveAttempt(w)
  /\ UNCHANGED <<mainVars, loopVars, handled>>

(* Mutant: the compare-and-swap is tried again with the old values. *)
RetrySwapSameValues(w) ==
  /\ pc[w] = "swap"
  /\ dispatch_token # expected[w]
  /\ retries' = [retries EXCEPT ![w] = Bump(@, MaxRetry)]
  /\ UNCHANGED <<dispatch_token, mainVars, pc, loopVars, handled,
                 new_token, expected, overwritten>>

RetrySwap(w) ==
  /\ pc[w] = "swap"
  /\ dispatch_token # expected[w]
  /\ retries' = [retries EXCEPT ![w] = Bump(@, MaxRetry)]
  /\ pc' = [pc EXCEPT ![w] = "build"]
  /\ LeaveAttempt(w)
  /\ UNCHANGED <<dispatch_token, mainVars, loopVars, handled, overwritten>>
-----------------------------------------------------------------------------
EventLoop == TestToken \/ EpollWait \/ OpenToken

DispatchWorker(w) ==
  \/ PollToken(w) \/ ComputeSegment(w) \/ HandleEvent(w) \/ FinishSegment(w)
  \/ BuildToken(w) \/ ReadExpected(w) \/ SwapToken(w) \/ RetrySwap(w)

Next == EventLoop \/ \E w \in Workers : DispatchWorker(w)

(* Every thread keeps running: each one yields or takes its next step. *)
Fairness == WF_vars(EventLoop) /\ \A w \in Workers : WF_vars(DispatchWorker(w))

Spec == Init /\ [][Next]_vars

FairSpec == Spec /\ Fairness
-----------------------------------------------------------------------------
(* Every variable has a value of its kind. *)
TypeOK ==
  /\ dispatch_token \subseteq Workers
  /\ event_num \in -1 .. MAX_CONNECT
  /\ mainPc \in {"test", "wait", "open"}
  /\ pc \in [Workers -> {"poll", "segment", "work", "build", "expect", "swap"}]
  /\ idx \in [Workers -> Int]
  /\ work_seg_end \in [Workers -> Int]
  /\ new_token \in [Workers -> SUBSET Workers]
  /\ expected \in [Workers -> SUBSET Workers]
  /\ handled \in [Indices -> 0 .. MaxHandled]
  /\ retries \in [Workers -> 0 .. MaxRetry]
  /\ overwritten \in BOOLEAN

(***************************************************************************)
(* The comment on event_loop: when every bit is set "all worker thread is  *)
(* now waiting" and the main thread may replace event_num and the events.  *)
(***************************************************************************)
Barrier ==
  mainPc \in {"wait", "open"} => \A w \in Workers : pc[w] = "poll"

(***************************************************************************)
(* The main thread never replaces the events while a thread works on them, *)
(* in every run in which no closing has written back a token whose two     *)
(* reads (dispatch_worker, new_dispatch_token and the expected value)      *)
(* differed.                                                               *)
(***************************************************************************)
BarrierUnlessOverwritten == ~overwritten => Barrier

(***************************************************************************)
(* In such a run every event of a batch that epoll_wait reported has been  *)
(* handled exactly once when event_loop goes back to epoll_wait: none is   *)
(* skipped by the cutting into segments and none is handled by a thread    *)
(* that starts twice.                                                      *)
(***************************************************************************)
BatchHandledOnce ==
  (~overwritten /\ event_num >= 0 /\ mainPc = "wait") =>
    \A i \in Indices : handled[i] = IF i < event_num THEN 1 ELSE 0

(***************************************************************************)
(* "use busy try here, most retry for THREAD_NUM - 1 times": a thread that *)
(* closes its bit fails at most THREAD_NUM - 1 compare-and-swaps, in these *)
(* runs again. (Otherwise a thread can start twice and disturb the same    *)
(* closing twice.)                                                         *)
(***************************************************************************)
RetryBoundUnlessOverwritten ==
  ~overwritten => \A w \in Workers : retries[w] <= THREAD_NUM - 1

(***************************************************************************)
(* A dispatch thread only visits entries of epoll_events that the last     *)
(* epoll_wait reported.                                                    *)
(***************************************************************************)
OnlyReportedEvents ==
  \A w \in Workers :
    pc[w] = "work" /\ idx[w] < work_seg_end[w] => idx[w] \in 0 .. event_num - 1

(***************************************************************************)
(* The same for the runs that BarrierUnlessOverwritten is about, as long   *)
(* as epoll_wait has not failed.                                           *)
(***************************************************************************)
OnlyReportedUnlessOverwritten ==
  (~overwritten /\ event_num >= 0) => OnlyReportedEvents

(***************************************************************************)
(* Once the token is open the batch comes to its end: every thread handles *)
(* its events, closes its bit, and event_loop waits for new events again.  *)
(***************************************************************************)
BatchFinishes == mainPc = "open" ~> mainPc = "wait"
=============================================================================
