--------------------------- MODULE DispatchProofs ---------------------------
(***************************************************************************)
(* The dispatch token is a barrier, and every event of a batch is handled  *)
(* exactly once, in every run in which no closing dropped another thread's *)
(* bit: for every number of dispatch threads and every size of batch. In   *)
(* these runs a thread also retries less often than there are threads.     *)
(***************************************************************************)
EXTENDS Dispatch, FiniteSetTheorems, TLAPS

(***************************************************************************)
(* The segments computed by dispatch_worker partition the events of every  *)
(* batch that epoll_wait really reported, for every number of threads and  *)
(* every batch size up to MAX_CONNECT.                                     *)
(***************************************************************************)

(* Integer division, as the provers use it. *)
LEMMA DivisionBounds ==
  ASSUME NEW a \in Nat, NEW b \in Nat \ {0}
  PROVE  /\ a \div b \in Nat
         /\ b * (a \div b) <= a
         /\ a < b * (a \div b) + b
BY Z3

(* A count of events keeps its value through the two conversions. *)
LEMMA ConversionsExact ==
  ASSUME NEW n \in 0 .. MAX_CONNECT
  PROVE  /\ ToSize(n) = n
         /\ ToInt(n) = n
BY SegmentAssumption DEF ToSize, ToInt

LEMMA ProductMonotone ==
  ASSUME NEW a \in Nat, NEW b \in Nat, NEW q \in Nat, a <= b
  PROVE  a * q <= b * q
OBVIOUS

(* The case "enough work": every segment but the last has the same size q. *)
LEMMA FullSegments ==
  ASSUME NEW n \in 0 .. MAX_CONNECT, n >= THREAD_NUM
  PROVE  \E q \in Nat \ {0} :
           /\ THREAD_NUM * q <= n
           /\ \A w \in Workers :
                /\ SegStart(w, n) = w * q
                /\ w # THREAD_NUM - 1 => SegEnd(w, n) = (w + 1) * q
                /\ w = THREAD_NUM - 1 => SegEnd(w, n) = n
<1> DEFINE q == n \div THREAD_NUM
<1>1. /\ q \in Nat
      /\ THREAD_NUM * q <= n
      /\ n < THREAD_NUM * q + THREAD_NUM
  BY DivisionBounds, SegmentAssumption
<1>2. q # 0
  BY <1>1, SegmentAssumption
<1>3. q <= MAX_CONNECT
  <2>1. 1 * q <= THREAD_NUM * q
    BY <1>1, ProductMonotone, SegmentAssumption
  <2> HIDE DEF q
  <2>2. q <= n
    BY <2>1, <1>1, SegmentAssumption
  <2> QED
    BY <2>2, <1>1, SegmentAssumption
<1>4. ToSize(n) = n /\ ToInt(q) = q
  BY <1>1, <1>3, ConversionsExact
<1>5. EnoughWork(n) /\ SegSize(n) = q
  BY <1>4 DEF EnoughWork, SegSize
<1> HIDE DEF q
<1> QED
  BY <1>1, <1>2, <1>5 DEF SegStart, SegEnd

(* The case of fewer events than threads: one event for each of the first. *)
LEMMA SingleSegments ==
  ASSUME NEW n \in 0 .. MAX_CONNECT, n < THREAD_NUM, NEW w \in Workers
  PROVE  /\ w < n  => SegStart(w, n) = w /\ SegEnd(w, n) = w + 1
         /\ w >= n => SegStart(w, n) = 0 /\ SegEnd(w, n) = 0
<1>1. ~EnoughWork(n)
  BY ConversionsExact, SegmentAssumption DEF EnoughWork
<1> QED
  BY <1>1, SegmentAssumption DEF SegStart, SegEnd, Workers

(* The bounds of a segment are indices of the batch, or its end. *)
LEMMA SegmentBounds ==
  ASSUME NEW n \in 0 .. MAX_CONNECT, NEW w \in Workers
  PROVE  /\ SegStart(w, n) \in 0 .. n
         /\ SegEnd(w, n) \in 0 .. n
         /\ SegStart(w, n) <= SegEnd(w, n)
<1>1. CASE n >= THREAD_NUM
  <2>1. PICK q \in Nat \ {0} :
          /\ THREAD_NUM * q <= n
          /\ \A v \in Workers :
               /\ SegStart(v, n) = v * q
               /\ v # THREAD_NUM - 1 => SegEnd(v, n) = (v + 1) * q
               /\ v = THREAD_NUM - 1 => SegEnd(v, n) = n
    BY <1>1, FullSegments
  <2>2. /\ w \in Nat /\ w + 1 \in Nat /\ w + 1 <= THREAD_NUM
        /\ THREAD_NUM \in Nat
    BY SegmentAssumption DEF Workers
  <2>3. w * q \in Nat /\ (w + 1) * q \in Nat /\ THREAD_NUM * q \in Nat
    BY <2>2
  <2>4. w * q <= (w + 1) * q /\ (w + 1) * q <= THREAD_NUM * q
    BY <2>2, ProductMonotone
  <2> QED
    BY <2>1, <2>3, <2>4
<1>2. CASE n < THREAD_NUM
  BY <1>2, SingleSegments, SegmentAssumption DEF Workers
<1> QED
  BY <1>1, <1>2, SegmentAssumption

(* Segments of different threads do not overlap: the one of the lower      *)
(* index ends where the other begins, or before.                           *)
LEMMA SegmentsOrdered ==
  ASSUME NEW n \in 0 .. MAX_CONNECT, NEW v \in Workers, NEW w \in Workers,
         v < w, SegStart(w, n) < SegEnd(w, n)
  PROVE  SegEnd(v, n) <= SegStart(w, n)
<1>1. CASE n >= THREAD_NUM
  <2>1. PICK q \in Nat \ {0} :
          \A u \in Workers :
               /\ SegStart(u, n) = u * q
               /\ u # THREAD_NUM - 1 => SegEnd(u, n) = (u + 1) * q
    BY <1>1, FullSegments
  <2>2. v + 1 \in Nat /\ w \in Nat /\ v + 1 <= w /\ v # THREAD_NUM - 1
    BY SegmentAssumption DEF Workers
  <2>3. (v + 1) * q <= w * q
    BY <2>2, ProductMonotone
  <2> QED
    BY <2>1, <2>2, <2>3
<1>2. CASE n < THREAD_NUM
  BY <1>2, SingleSegments, SegmentAssumption DEF Workers
<1> QED
  BY <1>1, <1>2, SegmentAssumption

(***************************************************************************)
(* The segments dispatch_worker computes from event_num partition          *)
(* 0 .. event_num-1, for every batch epoll_wait reports.                   *)
(***************************************************************************)
THEOREM SegmentsPartition ==
  ASSUME NEW n \in 0 .. MAX_CONNECT
  PROVE  SegmentsCover(n) /\ SegmentsDisjoint(n) /\ SegmentsInBounds(n)
<1>1. SegmentsCover(n)
  <2> SUFFICES ASSUME NEW i \in 0 .. n - 1
               PROVE  \E w \in Workers : i \in Segment(w, n)
    BY DEF SegmentsCover
  <2>1. CASE n >= THREAD_NUM
    <3>1. PICK q \in Nat \ {0} :
            /\ THREAD_NUM * q <= n
            /\ \A w \in Workers :
                 /\ SegStart(w, n) = w * q
                 /\ w # THREAD_NUM - 1 => SegEnd(w, n) = (w + 1) * q
                 /\ w = THREAD_NUM - 1 => SegEnd(w, n) = n
      BY <2>1, FullSegments
    <3> DEFINE last == THREAD_NUM - 1
    <3>2. last \in Nat /\ last \in Workers /\ last * q \in Nat
      BY SegmentAssumption DEF Workers
    <3>3. CASE i >= last * q
      BY <3>1, <3>2, <3>3 DEF Segment
    <3>4. CASE i < last * q
      <4> DEFINE w == i \div q
      <4>1. w \in Nat /\ q * w <= i /\ i < q * w + q
        BY DivisionBounds
      <4> HIDE DEF w
      <4>2. w < last
        <5>1. SUFFICES ASSUME last <= w PROVE FALSE
          BY <3>2, <4>1
        <5>2. last * q <= w * q
          BY <5>1, <3>2, <4>1, ProductMonotone
        <5> QED
          BY <5>2, <4>1, <3>4, <3>2
      <4>3. w \in Workers /\ w # THREAD_NUM - 1
        BY <4>1, <4>2, SegmentAssumption DEF Workers
      <4>4. SegStart(w, n) = w * q /\ SegEnd(w, n) = (w + 1) * q
        BY <3>1, <4>3
      <4>5. w * q <= i /\ i < (w + 1) * q /\ (w + 1) * q \in Nat /\ w * q \in Nat
        BY <4>1
      <4>6. i \in Segment(w, n)
        BY <4>4, <4>5 DEF Segment
      <4> QED
        BY <4>3, <4>6
    <3> QED
      BY <3>2, <3>3, <3>4
  <2>2. CASE n < THREAD_NUM
    <3>1. i \in Workers /\ i < n
      BY <2>2, SegmentAssumption DEF Workers
    <3> QED
      BY <2>2, <3>1, SingleSegments DEF Segment
  <2> QED
    BY <2>1, <2>2, SegmentAssumption
<1>2. SegmentsDisjoint(n)
  <2>1. \A v, w \in Workers : v < w => Segment(v, n) \cap Segment(w, n) = {}
    BY SegmentsOrdered, SegmentBounds DEF Segment
  <2>2. \A v, w \in Workers : v # w => v < w \/ w < v
    BY DEF Workers
  <2> QED
    BY <2>1, <2>2 DEF SegmentsDisjoint
<1>3. SegmentsInBounds(n)
  BY SegmentBounds DEF SegmentsInBounds, Segment
<1> QED
  BY <1>1, <1>2, <1>3
-----------------------------------------------------------------------------

(* Between two batches all bits are set, and a thread whose bit is set is  *)
(* polling. This is what makes the barrier inductive.                      *)
TokenInv ==
  ~overwritten =>
    /\ mainPc \in {"wait", "open"} => dispatch_token = Workers
    /\ \A w \in dispatch_token : pc[w] = "poll"

(* Thread w has handled event i of its segment. *)
HasHandled(w, i) ==
  \/ w \in dispatch_token
  \/ pc[w] \in {"build", "expect", "swap"}
  \/ pc[w] = "work" /\ i < idx[w]

(* How far each thread is in its segment is what handled records. *)
SegmentProgress(w) ==
  /\ pc[w] = "work" =>
       /\ work_seg_end[w] = SegEnd(w, event_num)
       /\ idx[w] >= SegStart(w, event_num)
       /\ idx[w] <= SegEnd(w, event_num)
  /\ \A i \in Segment(w, event_num) :
       handled[i] = IF HasHandled(w, i) THEN 1 ELSE 0

ProgressInv ==
  (~overwritten /\ event_num >= 0) =>
    /\ mainPc = "open" => \A i \in Indices : handled[i] = 0
    /\ mainPc # "open" =>
         /\ \A w \in Workers : SegmentProgress(w)
         /\ \A i \in Indices : i >= event_num => handled[i] = 0

DispatchInv == TypeOK /\ TokenInv /\ ProgressInv
-----------------------------------------------------------------------------
LEMMA SegmentTypes ==
  ASSUME NEW n \in Int, NEW w \in Workers
  PROVE  SegStart(w, n) \in Int /\ SegEnd(w, n) \in Int
<1>1. ToSize(n) \in Nat
  BY SegmentAssumption DEF ToSize
<1>2. ToSize(n) \div THREAD_NUM \in Nat
  BY <1>1, DivisionBounds, SegmentAssumption
<1>3. SegSize(n) \in Int
  BY <1>2, SegmentAssumption DEF SegSize, ToInt
<1> QED
  BY <1>3, SegmentAssumption DEF SegStart, SegEnd, Workers

(* Every variable keeps its type. *)
THEOREM TypeCorrect == Spec => []TypeOK
<1>1. Init => TypeOK
  <2>1. 0 \in -1 .. MAX_CONNECT /\ 0 \in 0 .. MaxHandled /\ 0 \in 0 .. MaxRetry
    BY DispatchAssumption, SegmentAssumption
  <2> SUFFICES ASSUME Init PROVE TypeOK
    OBVIOUS
  <2>2. dispatch_token \subseteq Workers /\ overwritten \in BOOLEAN
    BY DEF Init
  <2>3. new_token \in [Workers -> SUBSET Workers] /\ expected \in [Workers -> SUBSET Workers]
    BY DEF Init
  <2>4. event_num \in -1 .. MAX_CONNECT /\ handled \in [Indices -> 0 .. MaxHandled]
    BY <2>1 DEF Init
  <2>5. retries \in [Workers -> 0 .. MaxRetry]
    BY <2>1 DEF Init
  <2>6. idx \in [Workers -> Int] /\ work_seg_end \in [Workers -> Int]
    BY DEF Init
  <2> QED
    BY <2>2, <2>3, <2>4, <2>5, <2>6 DEF Init, TypeOK
<1>2. TypeOK /\ [Next]_vars => TypeOK'
  <2> SUFFICES ASSUME TypeOK, [Next]_vars PROVE TypeOK'
    OBVIOUS
  <2> USE DEF TypeOK
  <2>1. CASE TestToken
    BY <2>1 DEF TestToken, loopVars, closeVars
  <2>2. CASE EpollWait
    BY <2>2, DispatchAssumption, SegmentAssumption
    DEF EpollWait, loopVars, closeVars
  <2>3. CASE OpenToken
    BY <2>3 DEF OpenToken, loopVars, closeVars
  <2>4. ASSUME NEW w \in Workers, PollToken(w) PROVE TypeOK'
    BY <2>4 DEF PollToken, mainVars, loopVars, closeVars
  <2>5. ASSUME NEW w \in Workers, ComputeSegment(w) PROVE TypeOK'
    <3>1. SegStart(w, event_num) \in Int /\ SegEnd(w, event_num) \in Int
      BY SegmentTypes, SegmentAssumption
    <3> QED
      BY <2>5, <3>1 DEF ComputeSegment, mainVars, closeVars
  <2>6. ASSUME NEW w \in Workers, HandleEvent(w) PROVE TypeOK'
    BY <2>6, DispatchAssumption DEF HandleEvent, mainVars, closeVars, Bump
  <2>7. ASSUME NEW w \in Workers, FinishSegment(w) PROVE TypeOK'
    BY <2>7 DEF FinishSegment, mainVars, closeVars
  <2>8. ASSUME NEW w \in Workers, BuildToken(w) PROVE TypeOK'
    BY <2>8 DEF BuildToken, mainVars, loopVars
  <2>9. ASSUME NEW w \in Workers, ReadExpected(w) PROVE TypeOK'
    BY <2>9 DEF ReadExpected, mainVars, loopVars
  <2>10. ASSUME NEW w \in Workers, SwapToken(w) PROVE TypeOK'
    BY <2>10, DispatchAssumption
    DEF SwapToken, LeaveAttempt, mainVars, loopVars
  <2>11. ASSUME NEW w \in Workers, RetrySwap(w) PROVE TypeOK'
    BY <2>11, DispatchAssumption
    DEF RetrySwap, LeaveAttempt, mainVars, loopVars, Bump
  <2>12. CASE UNCHANGED vars
    BY <2>12 DEF vars
  <2> QED
    BY <2>1, <2>2, <2>3, <2>4, <2>5, <2>6, <2>7, <2>8, <2>9, <2>10, <2>11, <2>12
    DEF Next, EventLoop, DispatchWorker
<1> QED
  BY <1>1, <1>2, PTL DEF Spec
-----------------------------------------------------------------------------
(* A closing that changes the token while overwritten stays FALSE adds     *)
(* exactly the closing thread's bit.                                       *)
LEMMA CleanSwap ==
  ASSUME NEW w \in Workers, SwapToken(w), ~overwritten'
  PROVE  ~overwritten /\ dispatch_token' = dispatch_token \cup {w}
BY DEF SwapToken

(* The main thread is inside event_loop's test while a thread is at work. *)
LEMMA AtWorkMeansTesting ==
  ASSUME TypeOK, TokenInv, ~overwritten, NEW w \in Workers, w \notin dispatch_token
  PROVE  mainPc = "test"
BY DEF TypeOK, TokenInv

LEMMA TokenInvStep ==
  ASSUME TypeOK, TokenInv, [Next]_vars
  PROVE  TokenInv'
<1> SUFFICES ASSUME ~overwritten'
             PROVE  /\ mainPc' \in {"wait", "open"} => dispatch_token' = Workers
                    /\ \A w \in dispatch_token' : pc'[w] = "poll"
  BY DEF TokenInv
<1> USE DEF TypeOK, TokenInv
<1>1. CASE TestToken
  BY <1>1 DEF TestToken, closeVars
<1>2. CASE EpollWait
  BY <1>2 DEF EpollWait, closeVars
<1>3. CASE OpenToken
  BY <1>3 DEF OpenToken
<1>4. ASSUME NEW w \in Workers,
             PollToken(w) \/ ComputeSegment(w) \/ HandleEvent(w) \/ FinishSegment(w)
      PROVE  TokenInv'
  <2>1. ~overwritten /\ w \notin dispatch_token /\ dispatch_token' = dispatch_token
    BY <1>4 DEF PollToken, ComputeSegment, HandleEvent, FinishSegment,
                closeVars, mainVars
  <2>2. /\ mainPc' = mainPc
        /\ \A v \in Workers : v # w => pc'[v] = pc[v]
    BY <1>4 DEF PollToken, ComputeSegment, HandleEvent, FinishSegment, mainVars
  <2> QED
    BY <2>1, <2>2
<1>5. ASSUME NEW w \in Workers, BuildToken(w) \/ ReadExpected(w) \/ RetrySwap(w)
      PROVE  TokenInv'
  <2>1. ~overwritten /\ w \notin dispatch_token /\ dispatch_token' = dispatch_token
    BY <1>5 DEF BuildToken, ReadExpected, RetrySwap
  <2>2. /\ mainPc' = mainPc
        /\ \A v \in Workers : v # w => pc'[v] = pc[v]
    BY <1>5 DEF BuildToken, ReadExpected, RetrySwap, mainVars
  <2> QED
    BY <2>1, <2>2
<1>6. ASSUME NEW w \in Workers, SwapToken(w)
      PROVE  TokenInv'
  <2>1. ~overwritten /\ dispatch_token' = dispatch_token \cup {w}
    BY <1>6, CleanSwap
  <2>2. /\ mainPc' = mainPc
        /\ pc'[w] = "poll"
        /\ \A v \in Workers : v # w => pc'[v] = pc[v]
    BY <1>6 DEF SwapToken, mainVars
  <2> QED
    BY <2>1, <2>2
<1>7. CASE UNCHANGED vars
  BY <1>7 DEF vars
<1> QED
  BY <1>1, <1>2, <1>3, <1>4, <1>5, <1>6, <1>7 DEF Next, EventLoop, DispatchWorker

(***************************************************************************)
(* event_loop replaces the events only when every dispatch thread polls,   *)
(* for every number of threads, in the runs without an overwritten bit.    *)
(***************************************************************************)
THEOREM TokenIsBarrier == Spec => []BarrierUnlessOverwritten
<1>1. Init => TokenInv
  BY DEF Init, TokenInv
<1>2. TypeOK /\ TokenInv => BarrierUnlessOverwritten
  BY DEF TypeOK, TokenInv, BarrierUnlessOverwritten, Barrier
<1>3. TypeOK /\ TokenInv /\ [Next]_vars => TokenInv'
  BY TokenInvStep
<1> QED
  BY <1>1, <1>2, <1>3, TypeCorrect, PTL DEF Spec
-----------------------------------------------------------------------------
LEMMA SegmentIsIndices ==
  ASSUME TypeOK, event_num >= 0, NEW w \in Workers
  PROVE  /\ event_num \in 0 .. MAX_CONNECT
         /\ Segment(w, event_num) \subseteq Indices
         /\ \A i \in Segment(w, event_num) : i < event_num
<1>1. event_num \in 0 .. MAX_CONNECT
  BY SegmentAssumption DEF TypeOK
<1>2. Segment(w, event_num) \subseteq 0 .. event_num - 1
  BY <1>1, SegmentsPartition DEF SegmentsInBounds
<1> QED
  BY <1>1, <1>2, SegmentAssumption DEF Indices

(* A step that leaves alone what SegmentProgress(v) reads preserves it. *)
LEMMA ProgressFrame ==
  ASSUME NEW v \in Workers, SegmentProgress(v), event_num' = event_num,
         pc'[v] = pc[v], idx'[v] = idx[v], work_seg_end'[v] = work_seg_end[v],
         v \in dispatch_token' <=> v \in dispatch_token,
         \A i \in Segment(v, event_num) : handled'[i] = handled[i]
  PROVE  SegmentProgress(v)'
<1>1. /\ SegStart(v, event_num)' = SegStart(v, event_num)
      /\ SegEnd(v, event_num)' = SegEnd(v, event_num)
      /\ Segment(v, event_num)' = Segment(v, event_num)
  BY DEF SegStart, SegEnd, Segment, SegSize, EnoughWork
<1>2. \A i : HasHandled(v, i)' <=> HasHandled(v, i)
  BY DEF HasHandled
<1> QED
  BY <1>1, <1>2 DEF SegmentProgress

(* The step of thread w keeps its own record of progress.                  *)
LEMMA OwnProgress ==
  ASSUME TypeOK, TokenInv, NEW w \in Workers, SegmentProgress(w),
         event_num >= 0, ~overwritten', DispatchWorker(w)
  PROVE  /\ SegmentProgress(w)'
         /\ \A i \in Indices : i \notin Segment(w, event_num) => handled'[i] = handled[i]
<1> USE DEF TypeOK
<1> DEFINE n == event_num
           S == Segment(w, event_num)
<1>1. S \subseteq Indices /\ event_num \in 0 .. MAX_CONNECT
  BY SegmentIsIndices
<1>2. event_num' = event_num
  BY DEF DispatchWorker, PollToken, ComputeSegment, HandleEvent, FinishSegment,
         BuildToken, ReadExpected, SwapToken, RetrySwap, mainVars
<1>3. Segment(w, event_num)' = S /\ SegEnd(w, event_num)' = SegEnd(w, event_num)
      /\ SegStart(w, event_num)' = SegStart(w, event_num)
  BY <1>2 DEF Segment, SegStart, SegEnd, SegSize, EnoughWork
<1>4. /\ SegStart(w, event_num) \in Nat /\ SegEnd(w, event_num) \in Nat
      /\ SegStart(w, event_num) <= SegEnd(w, event_num)
  BY <1>1, SegmentBounds
<1>5. CASE PollToken(w)
  <2>1. /\ w \notin dispatch_token /\ pc[w] = "poll" /\ pc'[w] = "segment"
        /\ dispatch_token' = dispatch_token /\ handled' = handled
    BY <1>5 DEF PollToken
  <2>2. \A i : ~HasHandled(w, i) /\ ~HasHandled(w, i)'
    BY <2>1 DEF HasHandled
  <2> QED
    BY <1>3, <2>1, <2>2 DEF SegmentProgress
<1>6. CASE ComputeSegment(w)
  <2>1. /\ pc[w] = "segment" /\ pc'[w] = "work"
        /\ dispatch_token' = dispatch_token /\ handled' = handled
        /\ idx'[w] = SegStart(w, event_num)
        /\ work_seg_end'[w] = SegEnd(w, event_num)
    BY <1>6 DEF ComputeSegment
  <2>2. w \notin dispatch_token
    BY <1>6, <2>1 DEF TokenInv, ComputeSegment, closeVars
  <2>3. \A i \in S : ~HasHandled(w, i) /\ ~HasHandled(w, i)'
    BY <2>1, <2>2, <1>4 DEF HasHandled, Segment
  <2> QED
    BY <1>3, <1>4, <2>1, <2>3 DEF SegmentProgress
<1>7. CASE HandleEvent(w)
  <2>1. /\ pc[w] = "work" /\ pc' = pc /\ idx[w] < work_seg_end[w]
        /\ dispatch_token' = dispatch_token /\ work_seg_end' = work_seg_end
        /\ idx'[w] = idx[w] + 1
        /\ \A i \in Indices : handled'[i] = IF i = idx[w] THEN Bump(handled[i], MaxHandled)
                                                         ELSE handled[i]
    BY <1>7 DEF HandleEvent
  <2>2. w \notin dispatch_token
    BY <1>7, <2>1 DEF TokenInv, HandleEvent, closeVars
  <2>3. /\ work_seg_end[w] = SegEnd(w, event_num) /\ idx[w] \in Int
        /\ idx[w] >= SegStart(w, event_num)
        /\ \A i \in S : handled[i] = IF i < idx[w] THEN 1 ELSE 0
    BY <2>1, <2>2 DEF SegmentProgress, HasHandled
  <2>4. idx[w] \in S
    BY <2>1, <2>3, <1>4 DEF Segment
  <2>5. Bump(0, MaxHandled) = 1
    BY DispatchAssumption DEF Bump
  <2>6. \A i \in S : handled'[i] = IF i < idx[w] + 1 THEN 1 ELSE 0
    BY <1>1, <2>1, <2>3, <2>4, <2>5 DEF Segment
  <2>7. \A i \in S : HasHandled(w, i)' <=> i < idx[w] + 1
    BY <2>1, <2>2 DEF HasHandled
  <2>8. idx[w] + 1 <= SegEnd(w, event_num)
    BY <2>1, <2>3, <1>4
  <2>9. SegmentProgress(w)'
    BY <1>3, <1>4, <2>1, <2>3, <2>6, <2>7, <2>8 DEF SegmentProgress
  <2> QED
    BY <2>1, <2>4, <2>9
<1>8. CASE FinishSegment(w)
  <2>1. /\ pc[w] = "work" /\ pc'[w] = "build" /\ idx[w] >= work_seg_end[w]
        /\ handled' = handled
    BY <1>8 DEF FinishSegment
  <2>2. work_seg_end[w] = SegEnd(w, event_num)
    BY <2>1 DEF SegmentProgress
  <2>3. \A i \in S : HasHandled(w, i) /\ HasHandled(w, i)'
    BY <2>1, <2>2, <1>4 DEF HasHandled, Segment
  <2> QED
    BY <1>3, <2>1, <2>3 DEF SegmentProgress
<1>9. CASE BuildToken(w) \/ ReadExpected(w) \/ RetrySwap(w)
  <2>1. /\ pc[w] \in {"build", "expect", "swap"}
        /\ pc'[w] \in {"build", "expect", "swap"}
        /\ handled' = handled
    BY <1>9 DEF BuildToken, ReadExpected, RetrySwap
  <2>2. \A i : HasHandled(w, i) /\ HasHandled(w, i)'
    BY <2>1 DEF HasHandled
  <2> QED
    BY <1>3, <2>1, <2>2 DEF SegmentProgress
<1>10. CASE SwapToken(w)
  <2>1. /\ pc[w] = "swap" /\ pc'[w] = "poll" /\ handled' = handled
        /\ w \in dispatch_token'
    BY <1>10, CleanSwap DEF SwapToken
  <2>2. \A i : HasHandled(w, i) /\ HasHandled(w, i)'
    BY <2>1 DEF HasHandled
  <2> QED
    BY <1>3, <2>1, <2>2 DEF SegmentProgress
<1> QED
  BY <1>5, <1>6, <1>7, <1>8, <1>9, <1>10 DEF DispatchWorker

LEMMA ProgressInvStep ==
  ASSUME TypeOK, TypeOK', TokenInv, ProgressInv, [Next]_vars
  PROVE  ProgressInv'
<1> SUFFICES ASSUME ~overwritten', event_num' >= 0
             PROVE  /\ mainPc' = "open" => \A i \in Indices : handled'[i] = 0
                    /\ mainPc' # "open" =>
                         /\ \A w \in Workers : SegmentProgress(w)'
                         /\ \A i \in Indices : i >= event_num' => handled'[i] = 0
  BY DEF ProgressInv, Indices
<1>1. CASE TestToken
  <2>1. /\ ~overwritten /\ mainPc = "test" /\ mainPc' = "wait" /\ pc' = pc
        /\ event_num' = event_num /\ handled' = handled /\ idx' = idx
        /\ work_seg_end' = work_seg_end /\ dispatch_token' = dispatch_token
    BY <1>1 DEF TestToken, closeVars, loopVars
  <2>2. \A w \in Workers : SegmentProgress(w)'
    BY <2>1, ProgressFrame DEF ProgressInv
  <2> QED
    BY <2>1, <2>2 DEF ProgressInv
<1>2. CASE EpollWait
  BY <1>2 DEF EpollWait
<1>3. CASE OpenToken
  <2>1. /\ ~overwritten /\ mainPc = "open" /\ mainPc' = "test" /\ pc' = pc
        /\ event_num' = event_num /\ handled' = handled /\ dispatch_token' = {}
    BY <1>3 DEF OpenToken, closeVars
  <2>2. \A i \in Indices : handled[i] = 0
    BY <2>1 DEF ProgressInv
  <2>3. \A w \in Workers : pc'[w] = "poll"
    BY <2>1 DEF TokenInv
  <2>4. ASSUME NEW w \in Workers PROVE SegmentProgress(w)'
    <3>1. Segment(w, event_num)' \subseteq Indices
      <4>1. Segment(w, event_num)' = Segment(w, event_num)
        BY <2>1 DEF Segment, SegStart, SegEnd, SegSize, EnoughWork
      <4> QED
        BY <4>1, <2>1, SegmentIsIndices
    <3>2. \A i : ~HasHandled(w, i)'
      BY <2>1, <2>3 DEF HasHandled
    <3> QED
      BY <2>1, <2>2, <2>3, <3>1, <3>2 DEF SegmentProgress
  <2> QED
    BY <2>1, <2>2, <2>4
<1>4. ASSUME NEW w \in Workers, DispatchWorker(w)
      PROVE  /\ mainPc' # "open"
             /\ \A v \in Workers : SegmentProgress(v)'
             /\ \A i \in Indices : i >= event_num' => handled'[i] = 0
  <2>1. ~overwritten
    BY <1>4 DEF DispatchWorker, PollToken, ComputeSegment, HandleEvent, FinishSegment,
                BuildToken, ReadExpected, SwapToken, RetrySwap, closeVars
  <2>2. event_num' = event_num /\ mainPc' = mainPc /\ event_num >= 0
    BY <1>4 DEF DispatchWorker, PollToken, ComputeSegment, HandleEvent, FinishSegment,
                BuildToken, ReadExpected, SwapToken, RetrySwap, mainVars
  <2>3. w \notin dispatch_token
    BY <1>4, <2>1 DEF TokenInv, DispatchWorker, PollToken, ComputeSegment, HandleEvent,
                      FinishSegment, BuildToken, ReadExpected, SwapToken, RetrySwap
  <2>4. mainPc = "test"
    BY <2>1, <2>3, AtWorkMeansTesting
  <2>5. /\ \A v \in Workers : SegmentProgress(v)
        /\ \A i \in Indices : i >= event_num => handled[i] = 0
    BY <2>1, <2>2, <2>4 DEF ProgressInv
  <2>6. /\ SegmentProgress(w)'
        /\ \A i \in Indices : i \notin Segment(w, event_num) => handled'[i] = handled[i]
    BY <1>4, <2>2, <2>5, OwnProgress
  <2>7. ASSUME NEW v \in Workers, v # w PROVE SegmentProgress(v)'
    <3>1. /\ pc'[v] = pc[v] /\ idx'[v] = idx[v] /\ work_seg_end'[v] = work_seg_end[v]
      BY <1>4, <2>7 DEF TypeOK, DispatchWorker, PollToken, ComputeSegment, HandleEvent,
            FinishSegment, BuildToken, ReadExpected, SwapToken, RetrySwap, loopVars
    <3>2. v \in dispatch_token' <=> v \in dispatch_token
      <4>1. CASE SwapToken(w)
        BY <4>1, <2>7, CleanSwap
      <4>2. CASE ~SwapToken(w)
        BY <4>2, <1>4 DEF DispatchWorker, PollToken, ComputeSegment, HandleEvent,
              FinishSegment, BuildToken, ReadExpected, RetrySwap
      <4> QED
        BY <4>1, <4>2
    <3>3. Segment(v, event_num) \cap Segment(w, event_num) = {}
      BY <2>2, <2>7, SegmentIsIndices, SegmentsPartition DEF SegmentsDisjoint
    <3>4. \A i \in Segment(v, event_num) : handled'[i] = handled[i]
      BY <2>2, <2>6, <3>3, SegmentIsIndices
    <3> QED
      BY <2>2, <2>5, <3>1, <3>2, <3>4, ProgressFrame
  <2>8. ASSUME NEW i \in Indices, i >= event_num' PROVE handled'[i] = 0
    <3>1. i \notin Segment(w, event_num)
      <4> SUFFICES ASSUME i \in Segment(w, event_num) PROVE FALSE
        OBVIOUS
      <4> QED
        BY <2>2, <2>8, SegmentIsIndices DEF Indices
    <3> QED
      BY <2>2, <2>5, <2>6, <2>8, <3>1
  <2> QED
    BY <2>2, <2>4, <2>6, <2>7, <2>8
<1>5. CASE UNCHANGED vars
  <2>1. /\ overwritten' = overwritten /\ mainPc' = mainPc /\ pc' = pc
        /\ event_num' = event_num /\ handled' = handled /\ idx' = idx
        /\ work_seg_end' = work_seg_end /\ dispatch_token' = dispatch_token
    BY <1>5 DEF vars
  <2>2. mainPc # "open" => \A w \in Workers : SegmentProgress(w)'
    BY <2>1, ProgressFrame DEF ProgressInv
  <2> QED
    BY <2>1, <2>2 DEF ProgressInv
<1> QED
  BY <1>1, <1>2, <1>3, <1>4, <1>5 DEF Next, EventLoop

LEMMA ProgressInvariant == Spec => [](TypeOK /\ TokenInv /\ ProgressInv)
<1>1. Init => TokenInv /\ ProgressInv
  <2> SUFFICES ASSUME Init PROVE TokenInv /\ ProgressInv
    OBVIOUS
  <2>1. \A w \in Workers : Segment(w, 0) = {}
    BY SegmentBounds, SegmentAssumption DEF Segment
  <2> QED
    BY <2>1 DEF Init, TokenInv, ProgressInv, SegmentProgress
<1>2. TypeOK /\ TypeOK' /\ TokenInv /\ ProgressInv /\ [Next]_vars
        => TokenInv' /\ ProgressInv'
  BY TokenInvStep, ProgressInvStep
<1> QED
  BY <1>1, <1>2, TypeCorrect, PTL DEF Spec

(***************************************************************************)
(* Every event that epoll_wait reported has been handled exactly once when *)
(* event_loop asks for the next batch, in the runs without an overwritten  *)
(* bit.                                                                    *)
(***************************************************************************)
THEOREM EventsHandledOnce == Spec => []BatchHandledOnce
<1>1. TypeOK /\ TokenInv /\ ProgressInv => BatchHandledOnce
  <2> SUFFICES ASSUME TypeOK, TokenInv, ProgressInv, ~overwritten, event_num >= 0,
                      mainPc = "wait", NEW i \in Indices
               PROVE  handled[i] = IF i < event_num THEN 1 ELSE 0
    BY DEF BatchHandledOnce
  <2>1. dispatch_token = Workers
    BY DEF TokenInv
  <2>2. CASE i < event_num
    <3>1. event_num \in 0 .. MAX_CONNECT
      BY SegmentAssumption DEF TypeOK
    <3>2. i \in 0 .. event_num - 1
      BY <2>2, <3>1 DEF Indices
    <3>3. PICK w \in Workers : i \in Segment(w, event_num)
      BY <3>1, <3>2, SegmentsPartition DEF SegmentsCover
    <3>4. HasHandled(w, i)
      BY <2>1 DEF HasHandled
    <3> QED
      BY <2>2, <3>3, <3>4 DEF ProgressInv, SegmentProgress
  <2>3. CASE ~(i < event_num)
    <3>1. i >= event_num
      BY <2>3 DEF Indices, TypeOK
    <3> QED
      BY <2>3, <3>1 DEF ProgressInv
  <2> QED
    BY <2>2, <2>3
<1> QED
  BY <1>1, ProgressInvariant, PTL

(***************************************************************************)
(* A dispatch thread never visits an entry of epoll_events that the last   *)
(* epoll_wait did not fill in, in the same runs.                           *)
(***************************************************************************)
THEOREM EventsInBounds == Spec => []OnlyReportedUnlessOverwritten
<1>1. TypeOK /\ TokenInv /\ ProgressInv => OnlyReportedUnlessOverwritten
  <2> SUFFICES ASSUME TypeOK, TokenInv, ProgressInv, ~overwritten, event_num >= 0,
                      NEW w \in Workers, pc[w] = "work", idx[w] < work_seg_end[w]
               PROVE  idx[w] \in 0 .. event_num - 1
    BY DEF OnlyReportedUnlessOverwritten, OnlyReportedEvents
  <2>1. mainPc = "test"
    BY AtWorkMeansTesting DEF TokenInv
  <2>2. /\ work_seg_end[w] = SegEnd(w, event_num)
        /\ idx[w] >= SegStart(w, event_num) /\ idx[w] \in Int
    BY <2>1 DEF ProgressInv, SegmentProgress, TypeOK
  <2>3. event_num \in 0 .. MAX_CONNECT
    BY SegmentAssumption DEF TypeOK
  <2> QED
    BY <2>2, <2>3, SegmentBounds
<1> QED
  BY <1>1, ProgressInvariant, PTL
-----------------------------------------------------------------------------
(***************************************************************************)
(* The bound of the retries. Each failure of a closing is paid for by a    *)
(* bit that another thread has set meanwhile: as long as the closing goes  *)
(* on no bit is taken back, so the failures so far are at most the bits    *)
(* set when the expected value was read.                                   *)
(***************************************************************************)
RetryInv ==
  ~overwritten =>
    \A w \in Workers :
      /\ pc[w] \in {"poll", "segment", "work"} => retries[w] = 0
      /\ pc[w] \in {"build", "expect"} => retries[w] <= Cardinality(dispatch_token)
      /\ pc[w] = "swap" => /\ expected[w] \subseteq dispatch_token
                           /\ retries[w] <= Cardinality(expected[w])

LEMMA WorkersFinite ==
  /\ IsFiniteSet(Workers) /\ Cardinality(Workers) = THREAD_NUM
  /\ \A S \in SUBSET Workers : IsFiniteSet(S) /\ Cardinality(S) \in Nat
  /\ \A S, T \in SUBSET Workers : S \subseteq T => Cardinality(S) <= Cardinality(T)
  /\ \A S, T \in SUBSET Workers : S \subseteq T /\ S # T => Cardinality(S) < Cardinality(T)
<1>1. IsFiniteSet(Workers) /\ Cardinality(Workers) = THREAD_NUM
  BY FS_Interval, SegmentAssumption DEF Workers
<1>2. \A S \in SUBSET Workers : IsFiniteSet(S) /\ Cardinality(S) \in Nat
  BY <1>1, FS_Subset, FS_CardinalityType
<1> QED
  BY <1>1, <1>2, FS_Subset

LEMMA RetryInvStep ==
  ASSUME TypeOK, TokenInv, RetryInv, [Next]_vars
  PROVE  RetryInv'
<1> SUFFICES ASSUME ~overwritten', NEW u \in Workers
             PROVE  /\ pc'[u] \in {"poll", "segment", "work"} => retries'[u] = 0
                    /\ pc'[u] \in {"build", "expect"} => retries'[u] <= Cardinality(dispatch_token')
                    /\ pc'[u] = "swap" => /\ expected'[u] \subseteq dispatch_token'
                                          /\ retries'[u] <= Cardinality(expected'[u])
  BY DEF RetryInv
<1>a. /\ dispatch_token \in SUBSET Workers /\ expected[u] \in SUBSET Workers
      /\ retries[u] \in Nat /\ Cardinality(dispatch_token) \in Nat
      /\ Cardinality(expected[u]) \in Nat
  BY WorkersFinite, DispatchAssumption DEF TypeOK
<1>b. ~overwritten =>
        /\ pc[u] \in {"poll", "segment", "work"} => retries[u] = 0
        /\ pc[u] \in {"build", "expect"} => retries[u] <= Cardinality(dispatch_token)
        /\ pc[u] = "swap" => /\ expected[u] \subseteq dispatch_token
                             /\ retries[u] <= Cardinality(expected[u])
  BY DEF RetryInv
<1>1. CASE TestToken \/ EpollWait \/ UNCHANGED vars
  BY <1>1, <1>b DEF TestToken, EpollWait, closeVars, loopVars, vars
<1>2. CASE OpenToken
  <2>1. pc[u] = "poll"
    BY <1>2 DEF OpenToken, TokenInv, closeVars
  <2> QED
    BY <1>2, <1>b, <2>1 DEF OpenToken, closeVars
<1>3. ASSUME NEW w \in Workers,
             PollToken(w) \/ ComputeSegment(w) \/ HandleEvent(w) \/ FinishSegment(w)
      PROVE  /\ UNCHANGED <<dispatch_token, retries, expected, overwritten>>
             /\ \/ pc'[u] = pc[u]
                \/ pc[u] \in {"poll", "segment"} /\ pc'[u] \in {"segment", "work"}
                \/ pc[u] = "work" /\ pc'[u] = "build"
  BY <1>3 DEF PollToken, ComputeSegment, HandleEvent, FinishSegment, closeVars, TypeOK
<1>4. ASSUME NEW w \in Workers, BuildToken(w) \/ ReadExpected(w) \/ RetrySwap(w), u # w
      PROVE  /\ UNCHANGED <<dispatch_token, overwritten>>
             /\ UNCHANGED <<pc[u], retries[u], expected[u]>>
  BY <1>4 DEF BuildToken, ReadExpected, RetrySwap, LeaveAttempt, TypeOK
<1>5. CASE BuildToken(u)
  BY <1>5, <1>b DEF BuildToken, TypeOK
<1>6. CASE ReadExpected(u)
  BY <1>6, <1>b DEF ReadExpected, TypeOK
<1>7. CASE RetrySwap(u)
  <2>1. /\ pc[u] = "swap" /\ pc'[u] = "build" /\ dispatch_token # expected[u]
        /\ UNCHANGED <<dispatch_token, overwritten>>
        /\ retries'[u] = Bump(retries[u], MaxRetry)
    BY <1>7 DEF RetrySwap, TypeOK
  <2>2. expected[u] \subseteq dispatch_token /\ retries[u] <= Cardinality(expected[u])
    BY <1>b, <2>1
  <2>3. Cardinality(expected[u]) < Cardinality(dispatch_token)
    BY <1>a, <2>1, <2>2, WorkersFinite
  <2> QED
    BY <1>a, <2>1, <2>2, <2>3 DEF Bump
<1>8. ASSUME NEW w \in Workers, SwapToken(w), u # w
      PROVE  /\ ~overwritten /\ dispatch_token \subseteq dispatch_token'
             /\ Cardinality(dispatch_token) <= Cardinality(dispatch_token')
             /\ Cardinality(dispatch_token') \in Nat
             /\ UNCHANGED <<pc[u], retries[u], expected[u]>>
  <2>1. ~overwritten /\ dispatch_token' = dispatch_token \cup {w}
    BY <1>8, CleanSwap
  <2>2. dispatch_token' \in SUBSET Workers
    BY <1>a, <2>1
  <2>3. UNCHANGED <<pc[u], retries[u], expected[u]>>
    BY <1>8 DEF SwapToken, LeaveAttempt, TypeOK
  <2>4. Cardinality(dispatch_token) <= Cardinality(dispatch_token') /\ Cardinality(dispatch_token') \in Nat
    BY <1>a, <2>1, <2>2, WorkersFinite
  <2> QED
    BY <2>1, <2>3, <2>4
<1>9. CASE SwapToken(u)
  BY <1>9 DEF SwapToken, TypeOK
<1>10. ASSUME NEW w \in Workers, DispatchWorker(w)
       PROVE  /\ pc'[u] \in {"poll", "segment", "work"} => retries'[u] = 0
              /\ pc'[u] \in {"build", "expect"} => retries'[u] <= Cardinality(dispatch_token')
              /\ pc'[u] = "swap" => /\ expected'[u] \subseteq dispatch_token'
                                    /\ retries'[u] <= Cardinality(expected'[u])
  <2>1. CASE PollToken(w) \/ ComputeSegment(w) \/ HandleEvent(w) \/ FinishSegment(w)
    BY <1>3, <1>a, <1>b, <2>1
  <2>2. CASE BuildToken(w) \/ ReadExpected(w) \/ RetrySwap(w)
    BY <1>4, <1>5, <1>6, <1>7, <1>b, <2>2
  <2>3. CASE SwapToken(w)
    BY <1>8, <1>9, <1>a, <1>b, <2>3
  <2> QED
    BY <1>10, <2>1, <2>2, <2>3 DEF DispatchWorker
<1> QED
  BY <1>1, <1>2, <1>10 DEF Next, EventLoop

(***************************************************************************)
(* "use busy try here, most retry for THREAD_NUM - 1 times", for every     *)
(* number of dispatch threads, in the runs without an overwritten bit: the *)
(* bit of the thread that closes is not set yet, so at most THREAD_NUM - 1 *)
(* others can be.                                                          *)
(***************************************************************************)
THEOREM RetriesBounded == Spec => []RetryBoundUnlessOverwritten
<1>1. Init => RetryInv
  BY DEF Init, RetryInv
<1>2. TypeOK /\ TokenInv /\ RetryInv /\ [Next]_vars => RetryInv'
  BY RetryInvStep
<1>3. TypeOK /\ TokenInv /\ RetryInv => RetryBoundUnlessOverwritten
  <2> SUFFICES ASSUME TypeOK, TokenInv, RetryInv, ~overwritten, NEW w \in Workers
               PROVE  retries[w] <= THREAD_NUM - 1
    BY DEF RetryBoundUnlessOverwritten
  <2>1. /\ dispatch_token \in SUBSET Workers /\ expected[w] \in SUBSET Workers
        /\ retries[w] \in Nat /\ pc[w] \in {"poll", "segment", "work", "build", "expect", "swap"}
    BY DispatchAssumption DEF TypeOK
  <2>2. CASE pc[w] \in {"poll", "segment", "work"}
    BY <2>2, SegmentAssumption DEF RetryInv
  <2>3. CASE pc[w] \in {"build", "expect", "swap"}
    <3>1. w \notin dispatch_token
      BY <2>3 DEF TokenInv
    <3>2. Cardinality(dispatch_token) < THREAD_NUM
      BY <2>1, <3>1, WorkersFinite
    <3>3. retries[w] <= Cardinality(dispatch_token)
      <4>1. CASE pc[w] = "swap"
        <5>1. expected[w] \subseteq dispatch_token /\ retries[w] <= Cardinality(expected[w])
          BY <4>1 DEF RetryInv
        <5> QED
          BY <2>1, <5>1, WorkersFinite
      <4>2. CASE pc[w] # "swap"
        BY <2>3, <4>2 DEF RetryInv
      <4> QED
        BY <4>1, <4>2
    <3>4. Cardinality(dispatch_token) \in Nat
      BY <2>1, WorkersFinite
    <3> QED
      BY <2>1, <3>2, <3>3, <3>4, SegmentAssumption
  <2> QED
    BY <2>1, <2>2, <2>3
<1> QED
  BY <1>1, <1>2, <1>3, ProgressInvariant, PTL DEF Spec
=============================================================================
