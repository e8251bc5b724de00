------------------------ MODULE BlockingQueueProofs ------------------------
(***************************************************************************)
(* With a single waiting thread LightweightSemaphore is a counting         *)
(* semaphore, whatever the number of signalers and of signals; and a       *)
(* dequeue that has got through it finds an element, for one producer and  *)
(* one consumer and any number of elements.                                *)
(***************************************************************************)
EXTENDS BlockingQueue, TLAPS

(***************************************************************************)
(* The semaphore                                                           *)
(***************************************************************************)
(* Nothing that could wake a waiter exists. *)
NoToken == m_sema = 0 /\ \A s \in Signalers : signaling[s] = "idle"

(* Exactly one wakeup exists: posted, or in the hands of one signaler. *)
OneToken ==
  \/ m_sema = 1 /\ \A s \in Signalers : signaling[s] = "idle"
  \/ /\ m_sema = 0
     /\ \E s \in Signalers :
          signaling[s] = "post" /\ \A t \in Signalers \ {s} : signaling[t] = "idle"

(* The waiter c has no claim, or it has one: then the count is one less    *)
(* than the permits, and a permit that came after it brings one wakeup.    *)
ClaimInv(c) ==
  /\ pc[c] \in {"idle", "load", "spin", "block", "acquired"} =>
       m_count = avail /\ avail >= 0 /\ NoToken
  /\ pc[c] = "dec" =>
       m_count = avail /\ avail >= 1 /\ NoToken
  /\ pc[c] \in {"semWait", "timedWait", "restore"} =>
       /\ m_count = avail - 1 /\ avail >= 0
       /\ avail = 0 => NoToken
       /\ avail > 0 => OneToken
  /\ pc[c] = "redec" =>
       m_count = avail /\ avail >= 1 /\ OneToken
  /\ pc[c] = "semTry" =>
       m_count = avail - 1 /\ avail >= 1 /\ OneToken
  /\ pc[c] \in {"timedWait", "restore", "redec", "semTry"} => mode[c] = "timed"

SemInv(c) == TypeOK /\ ClaimInv(c)
-----------------------------------------------------------------------------
LEMMA SemaphoreTypesKept == TypeOK /\ [Next]_semVars => TypeOK'
<1> SUFFICES ASSUME TypeOK, [Next]_semVars PROVE TypeOK'
  OBVIOUS
<1> USE DEF TypeOK, Modes, Places, Goto
<1>1. ASSUME NEW s \in Signalers, FetchAddSignal(s) PROVE TypeOK'
  BY <1>1 DEF FetchAddSignal
<1>2. ASSUME NEW s \in Signalers, Post(s) PROVE TypeOK'
  BY <1>2 DEF Post
<1>3. ASSUME NEW w \in Waiters, BeginWait(w) PROVE TypeOK'
  BY <1>3 DEF BeginWait
<1>4. ASSUME NEW w \in Waiters, TryLoad(w) \/ Spin(w) PROVE TypeOK'
  BY <1>4 DEF TryLoad, Spin
<1>5. ASSUME NEW w \in Waiters, TakeSeen(w) PROVE TypeOK'
  BY <1>5 DEF TakeSeen
<1>6. ASSUME NEW w \in Waiters, BlockDec(w) PROVE TypeOK'
  BY <1>6 DEF BlockDec
<1>7. ASSUME NEW w \in Waiters, SemWait(w) PROVE TypeOK'
  BY <1>7 DEF SemWait
<1>8. ASSUME NEW w \in Waiters, Timeout(w) \/ Restore(w) \/ ReDec(w) PROVE TypeOK'
  BY <1>8 DEF Timeout, Restore, ReDec
<1>9. ASSUME NEW w \in Waiters, SemTry(w) PROVE TypeOK'
  BY <1>9 DEF SemTry
<1>10. ASSUME NEW w \in Waiters, Return(w) PROVE TypeOK'
  BY <1>10 DEF Return
<1>11. CASE UNCHANGED semVars
  BY <1>11 DEF semVars
<1> QED
  BY <1>1, <1>2, <1>3, <1>4, <1>5, <1>6, <1>7, <1>8, <1>9, <1>10, <1>11
  DEF Next, WaitStep

(* Every variable keeps its type, for any number of waiters. *)
THEOREM SemaphoreTypes == Spec => []TypeOK
<1>1. Init => TypeOK
  BY DEF Init, TypeOK, Modes, Places
<1> QED
  BY <1>1, SemaphoreTypesKept, PTL DEF Spec
-----------------------------------------------------------------------------
(* The signals: only one that meets a claim makes a wakeup, and there is   *)
(* no second one before the waiter has consumed the first.                 *)
LEMMA SignalKeepsClaim ==
  ASSUME NEW c \in Waiters, SemInv(c), NEW s \in Signalers,
         FetchAddSignal(s) \/ Post(s)
  PROVE  ClaimInv(c)'
<1> USE DEF SemInv, TypeOK
<1>1. CASE FetchAddSignal(s)
  <2>1. /\ m_count' = m_count + 1 /\ avail' = avail + 1
        /\ pc' = pc /\ m_sema' = m_sema /\ mode' = mode
    BY <1>1 DEF FetchAddSignal
  <2>2. CASE m_count < 0
    <3>1. avail = 0 /\ NoToken /\ pc[c] \in {"semWait", "timedWait", "restore"}
      BY <2>2 DEF ClaimInv, Places
    <3>2. OneToken'
      BY <1>1, <2>2, <3>1 DEF FetchAddSignal, NoToken, OneToken
    <3> QED
      BY <2>1, <3>1, <3>2 DEF ClaimInv
  <2>3. CASE m_count >= 0
    <3>1. signaling' = signaling
      BY <1>1, <2>3 DEF FetchAddSignal
    <3>2. (NoToken => NoToken') /\ (OneToken => OneToken')
      BY <2>1, <3>1 DEF NoToken, OneToken
    <3> QED
      BY <2>1, <2>3, <3>2 DEF ClaimInv
  <2> QED
    BY <2>2, <2>3
<1>2. CASE Post(s)
  <2>1. ~NoToken
    BY <1>2 DEF Post, NoToken
  <2>2. OneToken => OneToken'
    <3> SUFFICES ASSUME OneToken PROVE OneToken'
      OBVIOUS
    <3>1. m_sema = 0 /\ \A t \in Signalers \ {s} : signaling[t] = "idle"
      BY <1>2 DEF Post, OneToken
    <3>2. m_sema' = 1 /\ \A t \in Signalers : signaling'[t] = "idle"
      BY <1>2, <3>1 DEF Post
    <3> QED
      BY <3>2 DEF OneToken
  <2>3. m_count' = m_count /\ avail' = avail /\ pc' = pc /\ mode' = mode
    BY <1>2 DEF Post
  <2> QED
    BY <2>1, <2>2, <2>3 DEF ClaimInv
<1> QED
  BY <1>1, <1>2

(* The waiter's own steps. It consumes a wakeup exactly when it has a      *)
(* claim that a signal has answered.                                       *)
LEMMA WaiterKeepsClaim ==
  ASSUME NEW c \in Waiters, SemInv(c),
         BeginWait(c) \/ WaitStep(c) \/ Return(c)
  PROVE  ClaimInv(c)'
<1> USE DEF SemInv, TypeOK, Goto, ClaimInv
<1>1. CASE BeginWait(c) \/ Return(c) \/ TryLoad(c) \/ Spin(c) \/ Timeout(c)
  <2>1. /\ m_count' = m_count /\ m_sema' = m_sema
        /\ signaling' = signaling /\ avail' = avail
    BY <1>1 DEF BeginWait, Return, TryLoad, Spin, Timeout
  <2>2. (NoToken => NoToken') /\ (OneToken => OneToken')
    BY <2>1 DEF NoToken, OneToken
  <2>3. \/ pc[c] \in {"idle", "acquired", "load", "spin"} /\ pc'[c] \in {"idle", "load", "spin", "block"}
        \/ pc[c] \in {"load", "spin"} /\ pc'[c] = "dec" /\ m_count > 0
        \/ pc[c] = "timedWait" /\ pc'[c] = "restore" /\ mode' = mode
    BY <1>1 DEF BeginWait, Return, TryLoad, Spin, Timeout
  <2> QED
    BY <2>1, <2>2, <2>3
<1>2. CASE TakeSeen(c)
  BY <1>2 DEF TakeSeen, NoToken
<1>3. CASE BlockDec(c)
  <2>1. NoToken' /\ m_count' = m_count - 1 /\ m_count = avail /\ avail >= 0
    BY <1>3 DEF BlockDec, NoToken
  <2>2. CASE m_count > 0
    BY <1>3, <2>1, <2>2 DEF BlockDec
  <2>3. CASE ~(m_count > 0)
    BY <1>3, <2>1, <2>3 DEF BlockDec
  <2> QED
    BY <2>2, <2>3
<1>4. CASE SemWait(c)
  <2>1. avail > 0 /\ m_sema = 1 /\ \A s \in Signalers : signaling[s] = "idle"
    BY <1>4 DEF SemWait, NoToken, OneToken
  <2> QED
    BY <1>4, <2>1 DEF SemWait, NoToken
<1>5. CASE Restore(c)
  <2>1. (NoToken => NoToken') /\ (OneToken => OneToken')
    BY <1>5 DEF Restore, NoToken, OneToken
  <2>2. CASE m_count < 0
    BY <1>5, <2>1, <2>2 DEF Restore
  <2>3. CASE ~(m_count < 0)
    BY <1>5, <2>1, <2>3 DEF Restore
  <2> QED
    BY <2>2, <2>3
<1>6. CASE ReDec(c)
  <2>1. (NoToken => NoToken') /\ (OneToken => OneToken')
    BY <1>6 DEF ReDec, NoToken, OneToken
  <2>2. m_count > 0
    BY <1>6 DEF ReDec
  <2> QED
    BY <1>6, <2>1, <2>2 DEF ReDec
<1>7. CASE SemTry(c)
  <2>1. CASE m_sema > 0
    <3>1. m_sema = 1 /\ \A s \in Signalers : signaling[s] = "idle"
      BY <1>7, <2>1 DEF SemTry, OneToken
    <3> QED
      BY <1>7, <2>1, <3>1 DEF SemTry, NoToken
  <2>2. CASE ~(m_sema > 0)
    <3>1. OneToken'
      BY <1>7, <2>2 DEF SemTry, OneToken
    <3> QED
      BY <1>7, <2>2, <3>1 DEF SemTry
  <2> QED
    BY <2>1, <2>2
<1> QED
  BY <1>1, <1>2, <1>3, <1>4, <1>5, <1>6, <1>7 DEF WaitStep

LEMMA SemInvInductive ==
  ASSUME NEW c, Waiters = {c}
  PROVE  /\ Init /\ TypeOK => SemInv(c)
         /\ SemInv(c) /\ [Next]_semVars => ClaimInv(c)'
<1>1. Init /\ TypeOK => SemInv(c)
  BY DEF Init, SemInv, ClaimInv, NoToken
<1>2. SemInv(c) /\ [Next]_semVars => ClaimInv(c)'
  <2> SUFFICES ASSUME SemInv(c), [Next]_semVars PROVE ClaimInv(c)'
    OBVIOUS
  <2>1. CASE UNCHANGED semVars
    BY <2>1 DEF semVars, SemInv, ClaimInv, NoToken, OneToken
  <2>2. ASSUME NEW s \in Signalers, FetchAddSignal(s) \/ Post(s) PROVE ClaimInv(c)'
    BY <2>2, SignalKeepsClaim
  <2>3. ASSUME NEW w \in Waiters, BeginWait(w) \/ WaitStep(w) \/ Return(w) PROVE ClaimInv(c)'
    BY <2>3, WaiterKeepsClaim
  <2> QED
    BY <2>1, <2>2, <2>3 DEF Next
<1> QED
  BY <1>1, <1>2

THEOREM SemInvHolds ==
  ASSUME NEW c, Waiters = {c}
  PROVE  Spec => []SemInv(c)
<1>1. Spec => []TypeOK
  BY SemaphoreTypes
<1>2. Init /\ TypeOK => ClaimInv(c)
  BY SemInvInductive DEF SemInv
<1>3. TypeOK /\ ClaimInv(c) /\ [Next]_semVars => ClaimInv(c)'
  BY SemInvInductive DEF SemInv
<1>4. SemInv(c) <=> TypeOK /\ ClaimInv(c)
  BY DEF SemInv
<1> QED
  BY <1>1, <1>2, <1>3, <1>4, PTL DEF Spec
-----------------------------------------------------------------------------
(* With one waiter no wait succeeds without a permit of its own, and no    *)
(* post is left behind for a wait that comes later.                        *)
THEOREM PermitsKeptForSingleWaiter ==
  ASSUME NEW c, Waiters = {c}
  PROVE  Spec => []PermitsKept
<1>1. SemInv(c) => NoPermitInvented
  BY DEF SemInv, TypeOK, Places, ClaimInv, NoPermitInvented
<1>2. SemInv(c) => QuietMeansExact
  BY DEF SemInv, TypeOK, ClaimInv, NoToken, QuietMeansExact
<1>3. SemInv(c) => PermitsKept
  BY <1>1, <1>2 DEF PermitsKept
<1> QED
  BY <1>3, SemInvHolds, PTL

(* Every step of LightweightSemaphore is a step of the counting semaphore  *)
(* or changes nothing of what its callers see.                             *)
THEOREM SemaphoreRefinement ==
  ASSUME NEW c, Waiters = {c}
  PROVE  Spec => Abstract!Spec
<1>1. Init => Abstract!Init
  BY DEF Init, Abstract!Init, Status
<1>2. SemInv(c) /\ [Next]_semVars => [Abstract!Next]_<<avail, Status, mode>>
  <2> SUFFICES ASSUME SemInv(c), [Next]_semVars
               PROVE  [Abstract!Next]_<<avail, Status, mode>>
    OBVIOUS
  <2> USE DEF SemInv, TypeOK, Goto, Status, Modes
  <2>1. CASE UNCHANGED semVars
    BY <2>1 DEF semVars
  <2>2. ASSUME NEW s \in Signalers, FetchAddSignal(s) PROVE Abstract!Next
    BY <2>2 DEF FetchAddSignal, Abstract!Signal, Abstract!Next
  <2>3. ASSUME NEW s \in Signalers, Post(s) PROVE UNCHANGED <<avail, Status, mode>>
    BY <2>3 DEF Post
  <2>4. CASE BeginWait(c)
    BY <2>4 DEF BeginWait, Abstract!Begin, Abstract!Modes, Abstract!Next
  <2>5. CASE Return(c)
    BY <2>5 DEF Return, Abstract!Return, Abstract!Next
  <2>6. ASSUME TakeSeen(c) \/ SemWait(c) PROVE Abstract!Take(c)
    <3>1. avail > 0
      BY <2>6 DEF TakeSeen, SemWait, ClaimInv, NoToken
    <3> QED
      BY <2>6, <3>1 DEF TakeSeen, SemWait, Abstract!Take
  <2>7. CASE Spin(c) \/ Timeout(c) \/ ReDec(c)
    <3>1. UNCHANGED <<avail, Status, mode>>
      BY <2>7 DEF Spin, Timeout, ReDec
    <3> QED
      BY <3>1
  <2>8. CASE BlockDec(c)
    <3>1. CASE m_count > 0
      <4>1. avail > 0
        BY <2>8, <3>1 DEF BlockDec, ClaimInv
      <4> QED
        BY <2>8, <3>1, <4>1 DEF BlockDec, Abstract!Take, Abstract!Next
    <3>2. CASE ~(m_count > 0)
      BY <2>8, <3>2 DEF BlockDec
    <3> QED
      BY <3>1, <3>2
  <2>9. CASE SemTry(c)
    <3>1. CASE m_sema > 0
      <4>1. avail > 0
        BY <2>9 DEF SemTry, ClaimInv
      <4> QED
        BY <2>9, <3>1, <4>1 DEF SemTry, Abstract!Take, Abstract!Next
    <3>2. CASE ~(m_sema > 0)
      BY <2>9, <3>2 DEF SemTry
    <3> QED
      BY <3>1, <3>2
  <2>10. CASE TryLoad(c)
    <3>1. CASE m_count > 0 \/ mode[c] # "try"
      BY <2>10, <3>1 DEF TryLoad
    <3>2. CASE ~(m_count > 0) /\ mode[c] = "try"
      <4>1. avail = 0
        BY <2>10, <3>2 DEF TryLoad, ClaimInv
      <4> QED
        BY <2>10, <3>2, <4>1 DEF TryLoad, Abstract!GiveUp, Abstract!Next
    <3> QED
      BY <3>1, <3>2
  <2>11. CASE Restore(c)
    <3>1. CASE m_count < 0
      <4>1. avail = 0 /\ mode[c] # "wait"
        BY <2>11, <3>1 DEF Restore, ClaimInv
      <4> QED
        BY <2>11, <3>1, <4>1 DEF Restore, Abstract!GiveUp, Abstract!Next
    <3>2. CASE ~(m_count < 0)
      BY <2>11, <3>2 DEF Restore
    <3> QED
      BY <3>1, <3>2
  <2> QED
    BY <2>1, <2>2, <2>3, <2>4, <2>5, <2>6, <2>7, <2>8, <2>9, <2>10, <2>11
    DEF Next, WaitStep, Abstract!Next
<1> QED
  BY <1>1, <1>2, SemInvHolds, PTL DEF Spec, Abstract!Spec, Abstract!vars
-----------------------------------------------------------------------------
(***************************************************************************)
(* The queue with the semaphore                                            *)
(***************************************************************************)
(* Where the elements of the inner queue are accounted for: a permit, the  *)
(* signal the producer p still has to give, the element the consumer c has *)
(* a permit for already.                                                   *)
ElementsAccounted(p, c) ==
  Len(inner) = avail + (IF producing[p] = "signal" THEN 1 ELSE 0)
                     + (IF pc[c] = "acquired" THEN 1 ELSE 0)

(* Each step of the queue is a step of its semaphore, or leaves it alone.  *)
LEMMA QueueStepsSemaphore ==
  QueueSpec => Spec
<1>1. QueueInit => Init
  BY DEF QueueInit
<1>2. [QueueNext]_queueVars => [Next]_semVars
  <2> SUFFICES ASSUME [QueueNext]_queueVars PROVE [Next]_semVars
    OBVIOUS
  <2>1. ASSUME NEW s \in Signalers, InnerEnqueue(s) PROVE UNCHANGED semVars
    BY <2>1 DEF InnerEnqueue
  <2>2. ASSUME NEW s \in Signalers, EnqueueStep(s) PROVE Next
    BY <2>2 DEF EnqueueStep, SignalElement, PostElement, Next
  <2>3. ASSUME NEW w \in Waiters, BeginDequeue(w) \/ DequeueStep(w) PROVE Next
    BY <2>3 DEF BeginDequeue, DequeueStep, WaitForElement, InnerDequeue, Next
  <2> QED
    BY <2>1, <2>2, <2>3 DEF QueueNext, queueVars
<1> QED
  BY <1>1, <1>2, PTL DEF QueueSpec, Spec

(* Every variable of the queue keeps its type.                             *)
THEOREM QueueTypes == QueueSpec => []QueueTypeOK
<1>1. QueueSpec => []TypeOK
  BY QueueStepsSemaphore, SemaphoreTypes, PTL
<1> DEFINE InnerTypeOK ==
      /\ inner \in Seq(Elements)
      /\ producing \in [Signalers -> {"idle", "signal"}]
      /\ got \in [Waiters -> Elements \cup {NoElement}]
<1>2. QueueInit => InnerTypeOK
  BY DEF QueueInit
<1>3. InnerTypeOK /\ [QueueNext]_queueVars => InnerTypeOK'
  <2> SUFFICES ASSUME InnerTypeOK, [QueueNext]_queueVars PROVE InnerTypeOK'
    OBVIOUS
  <2>1. ASSUME NEW s \in Signalers, InnerEnqueue(s) PROVE InnerTypeOK'
    BY <2>1 DEF InnerEnqueue
  <2>2. ASSUME NEW s \in Signalers, EnqueueStep(s) PROVE InnerTypeOK'
    BY <2>2 DEF EnqueueStep, SignalElement, PostElement, innerVars
  <2>3. ASSUME NEW w \in Waiters, BeginDequeue(w) PROVE InnerTypeOK'
    BY <2>3 DEF BeginDequeue
  <2>4. ASSUME NEW w \in Waiters, WaitForElement(w) PROVE InnerTypeOK'
    BY <2>4 DEF WaitForElement, innerVars
  <2>5. ASSUME NEW w \in Waiters, InnerDequeue(w) PROVE InnerTypeOK'
    <3>1. CASE inner = <<>>
      BY <2>5, <3>1 DEF InnerDequeue
    <3>2. CASE inner # <<>>
      BY <2>5, <3>2 DEF InnerDequeue
    <3> QED
      BY <3>1, <3>2
  <2>6. CASE UNCHANGED queueVars
    BY <2>6 DEF queueVars, innerVars
  <2> QED
    BY <2>1, <2>2, <2>3, <2>4, <2>5, <2>6 DEF QueueNext, DequeueStep
<1>4. QueueTypeOK <=> TypeOK /\ InnerTypeOK
  BY DEF QueueTypeOK
<1> QED
  BY <1>1, <1>2, <1>3, <1>4, PTL DEF QueueSpec

(* The steps of a wait: what avail loses the consumer has got.             *)
LEMMA WaitAccounts ==
  ASSUME TypeOK, NEW c \in Waiters, WaitStep(c)
  PROVE  /\ pc[c] # "acquired"
         /\ avail' = IF pc'[c] = "acquired" THEN avail - 1 ELSE avail
<1> USE DEF TypeOK, Goto
<1>1. CASE TryLoad(c) \/ Spin(c) \/ Timeout(c) \/ Restore(c) \/ ReDec(c)
  BY <1>1 DEF TryLoad, Spin, Timeout, Restore, ReDec
<1>2. CASE TakeSeen(c) \/ SemWait(c)
  BY <1>2 DEF TakeSeen, SemWait
<1>3. CASE BlockDec(c)
  <2>1. CASE m_count > 0
    BY <1>3, <2>1 DEF BlockDec
  <2>2. CASE ~(m_count > 0)
    BY <1>3, <2>2 DEF BlockDec
  <2> QED
    BY <2>1, <2>2
<1>4. CASE SemTry(c)
  <2>1. CASE m_sema > 0
    BY <1>4, <2>1 DEF SemTry
  <2>2. CASE ~(m_sema > 0)
    BY <1>4, <2>2 DEF SemTry
  <2> QED
    BY <2>1, <2>2
<1> QED
  BY <1>1, <1>2, <1>3, <1>4 DEF WaitStep

LEMMA AccountsInductive ==
  ASSUME NEW p, NEW c, Signalers = {p}, Waiters = {c},
         QueueTypeOK, SemInv(c), ElementsAccounted(p, c), [QueueNext]_queueVars
  PROVE  ElementsAccounted(p, c)'
<1> USE DEF ElementsAccounted, QueueTypeOK, TypeOK
<1>1. CASE InnerEnqueue(p)
  <2>1. Len(inner') = Len(inner) + 1 /\ producing[p] = "idle" /\ producing'[p] = "signal"
    BY <1>1 DEF InnerEnqueue
  <2>2. avail' = avail /\ pc' = pc
    BY <1>1 DEF InnerEnqueue, semVars
  <2> QED
    BY <2>1, <2>2
<1>2. CASE SignalElement(p)
  BY <1>2 DEF SignalElement, FetchAddSignal
<1>3. CASE PostElement(p)
  BY <1>3 DEF PostElement, Post, innerVars
<1>4. CASE BeginDequeue(c)
  BY <1>4 DEF BeginDequeue, BeginWait, Goto
<1>5. CASE WaitForElement(c)
  <2>1. inner' = inner /\ producing' = producing
    BY <1>5 DEF WaitForElement, innerVars
  <2>2. /\ pc[c] # "acquired"
        /\ avail' = IF pc'[c] = "acquired" THEN avail - 1 ELSE avail
    BY <1>5, WaitAccounts DEF WaitForElement
  <2>3. CASE pc'[c] = "acquired"
    BY <2>1, <2>2, <2>3
  <2>4. CASE pc'[c] # "acquired"
    BY <2>1, <2>2, <2>4
  <2> QED
    BY <2>3, <2>4
<1>6. CASE InnerDequeue(c)
  <2>1. pc[c] = "acquired" /\ pc'[c] = "idle" /\ avail' = avail /\ producing' = producing
    BY <1>6 DEF InnerDequeue, Return, Goto
  <2>2. Len(inner) > 0
    BY <2>1 DEF SemInv, ClaimInv
  <2>3. inner # <<>> /\ inner' = Tail(inner)
    BY <1>6, <2>2 DEF InnerDequeue
  <2>4. Len(inner') = Len(inner) - 1
    BY <2>3
  <2> QED
    BY <2>1, <2>4
<1>7. CASE UNCHANGED queueVars
  BY <1>7 DEF queueVars, innerVars, semVars
<1> QED
  BY <1>1, <1>2, <1>3, <1>4, <1>5, <1>6, <1>7
  DEF QueueNext, EnqueueStep, DequeueStep

THEOREM AccountsHold ==
  ASSUME NEW p, NEW c, Signalers = {p}, Waiters = {c}
  PROVE  QueueSpec => [](QueueTypeOK /\ SemInv(c) /\ ElementsAccounted(p, c))
<1>1. QueueSpec => []QueueTypeOK
  BY QueueTypes
<1>2. QueueSpec => []SemInv(c)
  BY QueueStepsSemaphore, SemInvHolds, PTL
<1>3. QueueInit => ElementsAccounted(p, c)
  BY DEF QueueInit, Init, ElementsAccounted
<1>4. QueueTypeOK /\ SemInv(c) /\ ElementsAccounted(p, c) /\ [QueueNext]_queueVars
        => ElementsAccounted(p, c)'
  BY AccountsInductive
<1> QED
  BY <1>1, <1>2, <1>3, <1>4, PTL DEF QueueSpec

(* Whoever has got through the semaphore finds an element.                 *)
THEOREM DequeueFindsElement ==
  ASSUME NEW p, NEW c, Signalers = {p}, Waiters = {c}
  PROVE  QueueSpec => []PermitMeansElement
<1>1. QueueTypeOK /\ SemInv(c) /\ ElementsAccounted(p, c) => PermitMeansElement
  BY DEF QueueTypeOK, TypeOK, SemInv, ClaimInv, ElementsAccounted, PermitMeansElement
<1> QED
  BY <1>1, AccountsHold, PTL

(* A consumer between two calls can dequeue size_approx times.             *)
THEOREM SizeApproxElements ==
  ASSUME NEW p, NEW c, Signalers = {p}, Waiters = {c}
  PROVE  QueueSpec => []SizeApproxIsThere
<1>1. QueueTypeOK /\ SemInv(c) /\ ElementsAccounted(p, c) => SizeApproxIsThere
  BY DEF QueueTypeOK, TypeOK, SemInv, ClaimInv, ElementsAccounted,
         SizeApproxIsThere, SizeApprox
<1> QED
  BY <1>1, AccountsHold, PTL
=============================================================================
