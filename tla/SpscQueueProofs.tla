--------------------------- MODULE SpscQueueProofs ---------------------------
(***************************************************************************)
(* The ring of blocks is a FIFO queue, and no slot is written or taken out *)
(* of turn, whatever the number and the sizes of the blocks.               *)
(***************************************************************************)
EXTENDS SpscQueue, SequenceTheorems, FiniteSetTheorems, TLAPS

Ring == 1 .. blocks
Value == Elements \cup {NoElement}

(* Number of the slots from f up to t in a block of n slots                *)
Gap(f, t, n) == IF f <= t THEN t - f ELSE t - f + n

(* i is one of them.                                                       *)
InRange(f, t, i) == IF f <= t THEN f <= i /\ i < t ELSE f <= i \/ i < t

(***************************************************************************)
(* Types                                                                   *)
(***************************************************************************)
RingTypes ==
  /\ blocks \in Blocks /\ frontBlock \in Ring /\ tailBlock \in Ring
  /\ next \in [Blocks -> Blocks]
  /\ size \in [Blocks -> 0 .. TopSize]
  /\ largestBlkSz \in 2 .. TopSize /\ IsPow2(largestBlkSz)

IndexTypes ==
  /\ front \in [Blocks -> 0 .. TopSize - 1] /\ tail \in [Blocks -> 0 .. TopSize - 1]
  /\ localFront \in [Blocks -> 0 .. TopSize - 1] /\ localTail \in [Blocks -> 0 .. TopSize - 1]
  /\ data \in [Blocks -> [0 .. TopSize - 1 -> Value]]

CallTypes ==
  /\ ppc \in {"idle", "check", "write", "publish", "full", "reuse", "writeNext",
              "publishNext", "alloc", "advance"}
  /\ element \in Value /\ canAlloc \in BOOLEAN
  /\ ppc # "idle" => element \in Elements
  /\ cpc \in {"idle", "check", "look", "recheck", "hop", "cross", "take", "release"}
  /\ op \in {"none", "dequeue", "pop", "peek"} /\ nextBlock \in 0 .. MaxBlocks
  /\ cpc # "idle" => op # "none"
  /\ result \in Value /\ sawEmpty \in BOOLEAN

(* The blocks in use are at least two slots large, and the others empty.   *)
BlocksOK ==
  /\ \A b \in Ring :
       /\ size[b] \in Nat \ {0, 1}
       /\ front[b] < size[b] /\ tail[b] < size[b]
       /\ localFront[b] < size[b] /\ localTail[b] < size[b]
       /\ next[b] \in Ring
  /\ \A b, c \in Ring : next[b] = next[c] => b = c
  /\ \A b \in Blocks \ Ring :
       /\ front[b] = 0 /\ tail[b] = 0 /\ localFront[b] = 0 /\ localTail[b] = 0
       /\ next[b] = 1 /\ size[b] = 0
       /\ \A i \in 0 .. TopSize - 1 : data[b][i] = NoElement

(***************************************************************************)
(* The local copies                                                        *)
(***************************************************************************)

(* What a side knows of the other's index is old: the producer sees more   *)
(* elements in a block than there are, the consumer fewer.                 *)
Behind(b) ==
  /\ Gap(front[b], tail[b], size[b]) <= Gap(localFront[b], tail[b], size[b])
  /\ Gap(front[b], localTail[b], size[b]) <= Gap(front[b], tail[b], size[b])

LocalsOK == \A b \in Ring : Behind(b)

(***************************************************************************)
(* The ring                                                                *)
(***************************************************************************)

(* The block has elements, and the consumer can get there.                 *)
Filling(b) == ppc = "advance" /\ b = next[tailBlock]
Shown(b) == front[b] # tail[b] /\ ~Filling(b)
Active(b) == b = frontBlock \/ Shown(b)

(* From frontBlock to tailBlock all blocks but the first have elements;    *)
(* from there on none has.                                                 *)
ActiveInv ==
  /\ Active(tailBlock)
  /\ \A b \in Ring : Active(b) /\ b # tailBlock => Shown(next[b]) /\ next[b] # frontBlock
  /\ \A b \in Ring : b = tailBlock \/ ~Active(b) => next[b] = frontBlock \/ ~Shown(next[b])

(***************************************************************************)
(* The calls under way                                                     *)
(***************************************************************************)
ProducerInv ==
  /\ ppc = "write" => After(tailBlock, tail[tailBlock]) # localFront[tailBlock]
  /\ ppc = "publish" =>
       /\ After(tailBlock, tail[tailBlock]) # localFront[tailBlock]
       /\ data[tailBlock][tail[tailBlock]] = element
  /\ ppc \in {"reuse", "writeNext", "publishNext", "advance"} => next[tailBlock] # frontBlock
  /\ ppc \in {"writeNext", "publishNext"} =>
       localFront[next[tailBlock]] = front[next[tailBlock]]
  /\ ppc = "publishNext" => data[next[tailBlock]][tail[next[tailBlock]]] = element
  /\ ppc = "advance" =>
       LET b == next[tailBlock]
       IN  tail[b] = After(b, front[b]) /\ data[b][front[b]] = element

ConsumerInv ==
  /\ cpc \in {"recheck", "hop", "cross"} => frontBlock # tailBlock
  /\ cpc \in {"hop", "cross"} => front[frontBlock] = tail[frontBlock]
  /\ cpc = "cross" =>
       /\ nextBlock = next[frontBlock]
       /\ op # "peek" /\ front[nextBlock] # localTail[nextBlock]
  /\ nextBlock # 0 => cpc = "cross" \/ (cpc = "take" /\ op = "peek")
  /\ cpc = "take" /\ nextBlock = 0 => front[frontBlock] # localTail[frontBlock]
  /\ nextBlock # 0 => /\ frontBlock # tailBlock /\ front[frontBlock] = tail[frontBlock]
                      /\ nextBlock = next[frontBlock]
  /\ cpc = "release" => front[frontBlock] # localTail[frontBlock] /\ op # "peek"

(***************************************************************************)
(* The slots                                                               *)
(***************************************************************************)
First(b) ==
  IF cpc = "release" /\ b = frontBlock
  THEN IF front[b] + 1 = size[b] THEN 0 ELSE front[b] + 1
  ELSE front[b]

Written(b, i) ==
  /\ i = tail[b]
  /\ (ppc = "publish" /\ b = tailBlock) \/ (ppc = "publishNext" /\ b = next[tailBlock])

SlotsOK(b) ==
  \A i \in 0 .. size[b] - 1 :
    data[b][i] # NoElement <=> InRange(First(b), tail[b], i) \/ Written(b, i)

SlotInv == \A b \in Ring : SlotsOK(b)

TypesInv == RingTypes /\ IndexTypes /\ CallTypes /\ BlocksOK

QueueInv == TypesInv /\ LocalsOK /\ ActiveInv /\ ProducerInv /\ ConsumerInv /\ SlotInv

(***************************************************************************)
(* The consumer's answer                                                   *)
(***************************************************************************)
AnswerInv ==
  /\ cpc = "check" /\ ~sawEmpty => Items # <<>>
  /\ cpc = "look" /\ ~sawEmpty => frontBlock # tailBlock

(* The ring is one cycle. *)
OneCycle ==
  \A S \in SUBSET Ring : S # {} /\ (\A b \in S : next[b] \in S) => S = Ring
-----------------------------------------------------------------------------
(***************************************************************************)
(* Powers of two                                                           *)
(***************************************************************************)
LEMMA Divided ==
  ASSUME NEW a \in Nat, NEW d \in Nat \ {0}, a % d = 0
  PROVE  \E q \in Nat : a = d * q
<1>1. a \div d \in Nat /\ a = d * (a \div d) + (a % d)
  OBVIOUS
<1> QED
  BY <1>1

LEMMA Parity ==
  ASSUME NEW a \in Nat
  PROVE  \E q \in Nat : (a = 2 * q /\ a % 2 = 0) \/ (a = 2 * q + 1 /\ a % 2 = 1)
<1>1. a \div 2 \in Nat /\ a = 2 * (a \div 2) + (a % 2) /\ a % 2 \in 0 .. 1
  OBVIOUS
<1> QED
  BY <1>1

LEMMA MultipleOf ==
  ASSUME NEW d \in Nat \ {0}, NEW q \in Nat
  PROVE  (d * q) % d = 0
OBVIOUS

LEMMA LeastNatural ==
  ASSUME NEW T, T \subseteq Nat, T # {}
  PROVE  \E x \in T : \A y \in T : x <= y
<1>1. PICK x \in T : \A y \in T : ~(<<y, x>> \in OpToRel(<, Nat))
  BY NatLessThanWellFounded, WFMin
<1>2. \A y \in T : ~(y < x)
  BY <1>1 DEF OpToRel
<1> QED
  BY <1>2

(* Twice a power of 2 is one, and so is its half. *)
LEMMA Doubled ==
  ASSUME NEW p \in Nat \ {0}
  PROVE  IsPow2(p) <=> IsPow2(2 * p)
<1>1. ASSUME IsPow2(p), NEW d \in 1 .. 2 * p, (2 * p) % d = 0, d # 1
      PROVE  d % 2 = 0
  <2>0. d \in Nat \ {0} /\ 2 * p \in Nat
    OBVIOUS
  <2>1. PICK k \in Nat : 2 * p = d * k
    <3> DEFINE a == 2 * p
    <3>1. a \in Nat /\ a % d = 0
      BY <1>1
    <3> HIDE DEF a
    <3>2. \E k \in Nat : a = d * k
      BY <2>0, <3>1, Divided
    <3> QED
      BY <3>2 DEF a
  <2>2. PICK j \in Nat : k = 2 * j \/ k = 2 * j + 1
    BY Parity
  <2>3. PICK m \in Nat : (d = 2 * m /\ d % 2 = 0) \/ (d = 2 * m + 1 /\ d % 2 = 1)
    BY <2>0, Parity
  <2>4. CASE k = 2 * j
    <3>1. p = d * j
      <4>1. d * (2 * j) = 2 * (d * j) /\ d * j \in Nat
        BY <1>1
      <4> QED
        BY <2>1, <2>4, <4>1
    <3>2. p % d = 0
      BY <1>1, <3>1, MultipleOf
    <3>3. d <= p
      BY <1>1, <3>1
    <3> QED
      BY <1>1, <3>2, <3>3 DEF IsPow2
  <2>5. CASE k = 2 * j + 1
    <3>1. d * k = 2 * (d * j) + d /\ d * j \in Nat
      BY <1>1, <2>5
    <3>2. PICK n \in Nat : 2 * p = 2 * n + d
      BY <2>1, <3>1
    <3> QED
      BY <2>3, <3>2
  <2> QED
    BY <2>2, <2>4, <2>5
<1>2. ASSUME IsPow2(2 * p), NEW d \in 1 .. p, p % d = 0, d # 1
      PROVE  d % 2 = 0
  <2>1. PICK k \in Nat : p = d * k
    BY <1>2, Divided
  <2>2. 2 * p = d * (2 * k) /\ 2 * k \in Nat
    BY <1>2, <2>1
  <2>3. (2 * p) % d = 0
    <3> DEFINE i == 2 * k
    <3>1. i \in Nat /\ 2 * p = d * i /\ d \in Nat \ {0}
      BY <1>2, <2>2
    <3> HIDE DEF i
    <3> QED
      BY <3>1, MultipleOf
  <2> QED
    BY <1>2, <2>3 DEF IsPow2
<1> QED
  BY <1>1, <1>2 DEF IsPow2

(* Between x and 2x there is one. *)
LEMMA CeilExists ==
  ASSUME NEW x \in Nat \ {0}
  PROVE  \E p \in x .. 2 * x - 1 : IsPow2(p)
<1> DEFINE Without == {y \in Nat \ {0} : ~ \E p \in y .. 2 * y - 1 : IsPow2(p)}
<1>1. SUFFICES ASSUME Without # {} PROVE FALSE
  OBVIOUS
<1>2. PICK y \in Without : \A z \in Without : y <= z
  BY <1>1, LeastNatural
<1>3. y \in Nat \ {0} /\ ~ \E p \in y .. 2 * y - 1 : IsPow2(p)
  OBVIOUS
<1>4. IsPow2(1)
  BY DEF IsPow2
<1>5. y # 1
  BY <1>3, <1>4
<1>6. y - 1 \in Nat \ {0} /\ y - 1 \notin Without
  BY <1>2, <1>3, <1>5
<1>7. PICK p \in y - 1 .. 2 * (y - 1) - 1 : IsPow2(p)
  BY <1>6
<1> HIDE DEF Without
<1>8. p = y - 1
  BY <1>3, <1>7
<1>9. IsPow2(2 * p) /\ 2 * p \in y .. 2 * y - 1
  BY <1>3, <1>5, <1>7, <1>8, Doubled
<1> QED
  BY <1>3, <1>9

LEMMA CeilIsPow2 ==
  ASSUME NEW x \in Nat \ {0}
  PROVE  CeilToPow2(x) \in x .. 2 * x - 1 /\ IsPow2(CeilToPow2(x))
BY CeilExists DEF CeilToPow2

LEMMA EvenPow2 ==
  ASSUME NEW p \in Nat \ {0, 1}, IsPow2(p)
  PROVE  \E h \in Nat \ {0} : p = 2 * h /\ h < p /\ IsPow2(h)
<1>1. p % p = 0
  <2>1. (p * 1) % p = 0
    BY MultipleOf
  <2> QED
    BY <2>1
<1>2. p % 2 = 0
  BY <1>1 DEF IsPow2
<1>3. PICK h \in Nat : p = 2 * h
  BY <1>2, Divided
<1> QED
  BY <1>3, Doubled

(* The next power of 2 is twice as large. *)
LEMMA NextPow2 ==
  ASSUME NEW p \in Nat \ {0}, NEW q \in Nat \ {0}, IsPow2(p), IsPow2(q), p < q
  PROVE  2 * p <= q
<1> DEFINE Wrong == {r \in Nat \ {0} : IsPow2(r) /\ \E s \in Nat \ {0} : IsPow2(s) /\ r < s /\ s < 2 * r}
<1>1. SUFFICES ASSUME Wrong # {} PROVE FALSE
  OBVIOUS
<1>2. PICK r \in Wrong : \A z \in Wrong : r <= z
  BY <1>1, LeastNatural
<1>3. PICK s \in Nat \ {0} : IsPow2(s) /\ r < s /\ s < 2 * r
  OBVIOUS
<1>4. r \in Nat \ {0} /\ IsPow2(r)
  OBVIOUS
<1>5. r # 1
  BY <1>3
<1>6. PICK h \in Nat \ {0} : r = 2 * h /\ h < r /\ IsPow2(h)
  BY <1>4, <1>5, EvenPow2
<1>7. PICK i \in Nat \ {0} : s = 2 * i /\ i < s /\ IsPow2(i)
  BY <1>3, <1>4, EvenPow2
<1>8. h < i /\ i < 2 * h
  BY <1>3, <1>6, <1>7
<1>9. h \in Wrong
  BY <1>6, <1>7, <1>8
<1> QED
  BY <1>2, <1>6, <1>9
-----------------------------------------------------------------------------
(***************************************************************************)
(* Indices of a block of n slots                                           *)
(***************************************************************************)
Step(i, n) == IF i + 1 = n THEN 0 ELSE i + 1

LEMMA ModSum ==
  ASSUME NEW n \in Nat \ {0}, NEW a \in 0 .. n - 1, NEW b \in 0 .. n - 1
  PROVE  (a + b) % n = IF a + b < n THEN a + b ELSE a + b - n
OBVIOUS

LEMMA ModDifference ==
  ASSUME NEW n \in Nat \ {0}, NEW a \in 0 .. n - 1, NEW b \in 0 .. n - 1
  PROVE  (a - b) % n = Gap(b, a, n)
BY DEF Gap

LEMMA ModNext ==
  ASSUME NEW n \in Nat \ {0}, NEW a \in 0 .. n - 1
  PROVE  (a + 1) % n = Step(a, n)
BY DEF Step

LEMMA StepIndex ==
  ASSUME NEW n \in Nat \ {0, 1}, NEW a \in 0 .. n - 1
  PROVE  Step(a, n) \in 0 .. n - 1 /\ Step(a, n) # a
BY DEF Step

(* Adding an element at t, and taking one at f *)
LEMMA GapStep ==
  ASSUME NEW n \in Nat \ {0, 1}, NEW f \in 0 .. n - 1, NEW t \in 0 .. n - 1
  PROVE  /\ Gap(f, t, n) \in 0 .. n - 1
         /\ Gap(f, t, n) = 0 <=> f = t
         /\ Gap(f, t, n) = n - 1 <=> Step(t, n) = f
         /\ Step(t, n) # f => Gap(f, Step(t, n), n) = Gap(f, t, n) + 1
         /\ f # t => Gap(Step(f, n), t, n) = Gap(f, t, n) - 1
BY DEF Gap, Step

LEMMA RangeStep ==
  ASSUME NEW n \in Nat \ {0, 1}, NEW f \in 0 .. n - 1, NEW t \in 0 .. n - 1, NEW i \in 0 .. n - 1
  PROVE  /\ ~InRange(f, t, t) /\ (f # t => InRange(f, t, f))
         /\ Step(t, n) # f => (InRange(f, Step(t, n), i) <=> InRange(f, t, i) \/ i = t)
         /\ f # t => (InRange(Step(f, n), t, i) <=> InRange(f, t, i) /\ i # f)
         /\ ~InRange(f, f, i)
BY DEF InRange, Step

(* A local copy that is behind *)
LEMMA GapBehind ==
  ASSUME NEW n \in Nat \ {0, 1}, NEW f \in 0 .. n - 1, NEW t \in 0 .. n - 1,
         NEW lf \in 0 .. n - 1, NEW lt \in 0 .. n - 1,
         Gap(f, t, n) <= Gap(lf, t, n), Gap(f, lt, n) <= Gap(f, t, n)
  PROVE  /\ Step(t, n) # lf =>
              /\ Step(t, n) # f
              /\ Gap(f, Step(t, n), n) <= Gap(lf, Step(t, n), n)
              /\ Gap(f, lt, n) <= Gap(f, Step(t, n), n)
         /\ f # lt =>
              /\ f # t
              /\ Gap(Step(f, n), t, n) <= Gap(lf, t, n)
              /\ Gap(Step(f, n), lt, n) <= Gap(Step(f, n), t, n)
<1>1. Step(t, n) # lf => Step(t, n) # f
  BY GapStep
<1>2. f # lt => f # t
  BY GapStep
<1>3. Step(t, n) # lf => Gap(f, Step(t, n), n) <= Gap(lf, Step(t, n), n)
                         /\ Gap(f, lt, n) <= Gap(f, Step(t, n), n)
  BY <1>1 DEF Gap, Step
<1>4. f # lt => Gap(Step(f, n), t, n) <= Gap(lf, t, n)
                /\ Gap(Step(f, n), lt, n) <= Gap(Step(f, n), t, n)
  BY <1>2 DEF Gap, Step
<1> QED
  BY <1>1, <1>2, <1>3, <1>4

(* What Filled names *)
LEMMA FilledSlots ==
  ASSUME NEW n \in Nat \ {0, 1}, NEW f \in 0 .. n - 1, NEW t \in 0 .. n - 1
  PROVE  {(f + k) % n : k \in 0 .. ((t - f) % n) - 1} = {i \in 0 .. n - 1 : InRange(f, t, i)}
<1> DEFINE G == Gap(f, t, n)
<1>1. (t - f) % n = G /\ G \in 0 .. n - 1
  BY ModDifference, GapStep
<1>2. ASSUME NEW k \in 0 .. G - 1
      PROVE  (f + k) % n \in 0 .. n - 1 /\ InRange(f, t, (f + k) % n)
  <2>1. k \in 0 .. n - 1
    BY <1>1
  <2>2. (f + k) % n = IF f + k < n THEN f + k ELSE f + k - n
    BY <2>1, ModSum
  <2> QED
    BY <2>1, <2>2 DEF Gap, InRange
<1>3. ASSUME NEW i \in 0 .. n - 1, InRange(f, t, i)
      PROVE  \E k \in 0 .. G - 1 : (f + k) % n = i
  <2> DEFINE k == IF f <= i THEN i - f ELSE i - f + n
  <2>1. k \in 0 .. G - 1 /\ k \in 0 .. n - 1
    BY <1>3 DEF Gap, InRange
  <2>2. (f + k) % n = IF f + k < n THEN f + k ELSE f + k - n
    BY <2>1, ModSum
  <2>3. (f + k) % n = i
    BY <2>2
  <2> QED
    BY <2>1, <2>3
<1> HIDE DEF G
<1> QED
  BY <1>1, <1>2, <1>3
-----------------------------------------------------------------------------
(***************************************************************************)
(* Sizes                                                                   *)
(***************************************************************************)
LEMMA InitialSizes ==
  /\ TopSize \in Nat \ {0, 1}
  /\ InitialBlockSize \in 2 .. TopSize /\ IsPow2(InitialBlockSize)
  /\ InitialBlockCount \in 1 .. MaxBlocks
<1>1. /\ MaxSize \in Nat \ {0} /\ MAX_BLOCK_SIZE \in Nat \ {0, 1} /\ IsPow2(MAX_BLOCK_SIZE)
      /\ MaxBlocks \in Nat /\ InitialBlockCount <= MaxBlocks
  BY QueueAssumption
<1>2. /\ CeilToPow2(MaxSize + 1) \in MaxSize + 1 .. 2 * (MaxSize + 1) - 1
      /\ IsPow2(CeilToPow2(MaxSize + 1))
  <2>1. MaxSize + 1 \in Nat \ {0}
    BY <1>1
  <2> QED
    BY <2>1, CeilIsPow2
<1>3. InitialBlockSize \in Nat \ {0, 1} /\ IsPow2(InitialBlockSize)
  BY <1>1, <1>2 DEF InitialBlockSize
<1>4. InitialBlockCount \in Nat \ {0}
  <2>1. CASE ~SeveralBlocks
    BY <2>1 DEF InitialBlockCount
  <2>2. CASE SeveralBlocks
    <3> DEFINE d == MAX_BLOCK_SIZE - 1
               a == MaxSize + 2 * MAX_BLOCK_SIZE - 3
    <3>1. InitialBlockCount = a \div d /\ a \in Nat /\ d \in Nat \ {0} /\ a >= d
      BY <1>1, <2>2 DEF InitialBlockCount
    <3> HIDE DEF a, d
    <3>2. a \div d \in Nat /\ a = d * (a \div d) + (a % d) /\ a % d \in 0 .. d - 1
      BY <3>1
    <3>3. a \div d # 0
      BY <3>1, <3>2
    <3> QED
      BY <3>1, <3>2, <3>3
  <2> QED
    BY <2>1, <2>2
<1>5. TopSize \in Nat \ {0, 1} /\ InitialBlockSize <= TopSize
  BY <1>1, <1>3 DEF TopSize
<1> QED
  BY <1>1, <1>3, <1>4, <1>5

(* A new block is not larger than the largest one may be.                  *)
LEMMA NewSize ==
  ASSUME NEW s \in 2 .. TopSize, IsPow2(s),
         NEW n, n = IF s >= MAX_BLOCK_SIZE THEN s ELSE 2 * s
  PROVE  n \in 2 .. TopSize /\ IsPow2(n)
<1>1. MAX_BLOCK_SIZE \in Nat \ {0, 1} /\ IsPow2(MAX_BLOCK_SIZE) /\ MAX_BLOCK_SIZE <= TopSize
  BY QueueAssumption, InitialSizes DEF TopSize
<1>2. TopSize \in Nat
  BY InitialSizes
<1>3. CASE s >= MAX_BLOCK_SIZE
  BY <1>3
<1>4. CASE ~(s >= MAX_BLOCK_SIZE)
  <2>1. 2 * s <= MAX_BLOCK_SIZE
    BY <1>1, <1>4, NextPow2
  <2> QED
    BY <1>1, <1>2, <1>4, <2>1, Doubled
<1> QED
  BY <1>3, <1>4

LEMMA BlockFacts ==
  ASSUME TypesInv, NEW b \in Ring
  PROVE  /\ b \in Blocks /\ size[b] \in Nat \ {0, 1} /\ size[b] <= TopSize /\ TopSize \in Nat
         /\ front[b] \in 0 .. size[b] - 1 /\ tail[b] \in 0 .. size[b] - 1
         /\ localFront[b] \in 0 .. size[b] - 1 /\ localTail[b] \in 0 .. size[b] - 1
         /\ next[b] \in Ring
<1>1. blocks \in 1 .. MaxBlocks /\ MaxBlocks \in Nat /\ TopSize \in Nat
  BY QueueAssumption, InitialSizes DEF TypesInv, RingTypes, Blocks
<1>2. b \in Blocks
  BY <1>1 DEF Ring, Blocks
<1>3. /\ size[b] \in 0 .. TopSize
      /\ front[b] \in 0 .. TopSize - 1 /\ tail[b] \in 0 .. TopSize - 1
      /\ localFront[b] \in 0 .. TopSize - 1 /\ localTail[b] \in 0 .. TopSize - 1
  BY <1>2 DEF TypesInv, RingTypes, IndexTypes
<1>4. /\ size[b] \in Nat \ {0, 1}
      /\ front[b] < size[b] /\ tail[b] < size[b]
      /\ localFront[b] < size[b] /\ localTail[b] < size[b]
      /\ next[b] \in Ring
  BY DEF TypesInv, BlocksOK
<1> QED
  BY <1>1, <1>2, <1>3, <1>4

LEMMA Afters ==
  ASSUME TypesInv, NEW b \in Ring
  PROVE  /\ \A i \in 0 .. size[b] - 1 : After(b, i) = Step(i, size[b])
         /\ First(b) = FirstSlot(b) /\ FirstSlot(b) \in 0 .. size[b] - 1
<1>1. size[b] \in Nat \ {0, 1} /\ front[b] \in 0 .. size[b] - 1
  BY BlockFacts
<1>2. \A i \in 0 .. size[b] - 1 : After(b, i) = Step(i, size[b])
  BY <1>1, ModNext DEF After
<1> QED
  BY <1>1, <1>2, StepIndex DEF First, FirstSlot, Step

LEMMA RingBlocks ==
  ASSUME TypesInv
  PROVE  /\ frontBlock \in Ring /\ tailBlock \in Ring /\ next[tailBlock] \in Ring
         /\ Ring \subseteq Blocks
BY BlockFacts DEF TypesInv, RingTypes
-----------------------------------------------------------------------------
(***************************************************************************)
(* Every step keeps the types.                                             *)
(***************************************************************************)
LEMMA TypesStart == Init => TypesInv
<1> SUFFICES ASSUME Init PROVE TypesInv
  OBVIOUS
<1>1. /\ TopSize \in Nat \ {0, 1} /\ InitialBlockSize \in 2 .. TopSize
      /\ IsPow2(InitialBlockSize) /\ InitialBlockCount \in 1 .. MaxBlocks
      /\ MaxBlocks \in Nat
  BY InitialSizes, QueueAssumption
<1>2. blocks \in Blocks /\ blocks \in Nat \ {0} /\ blocks <= MaxBlocks
  BY <1>1 DEF Init, Blocks
<1>3. /\ size = [b \in Blocks |-> IF b <= blocks THEN InitialBlockSize ELSE 0]
      /\ next = [b \in Blocks |-> IF b < blocks THEN b + 1 ELSE 1]
      /\ data = [b \in Blocks |-> [i \in 0 .. TopSize - 1 |-> NoElement]]
      /\ front = [b \in Blocks |-> 0] /\ tail = [b \in Blocks |-> 0]
      /\ localTail = [b \in Blocks |-> 0] /\ localFront = [b \in Blocks |-> 0]
      /\ frontBlock = 1 /\ tailBlock = 1 /\ largestBlkSz = InitialBlockSize
      /\ ppc = "idle" /\ element = NoElement /\ canAlloc = FALSE
      /\ cpc = "idle" /\ op = "none" /\ nextBlock = 0
      /\ result = NoElement /\ sawEmpty = FALSE
  BY DEF Init
<1>4. RingTypes
  BY <1>1, <1>2, <1>3 DEF RingTypes, Ring, Blocks
<1>5. IndexTypes
  BY <1>1, <1>3 DEF IndexTypes, Value
<1>6. CallTypes
  <2>1. /\ ppc = "idle" /\ element = NoElement /\ canAlloc = FALSE
        /\ cpc = "idle" /\ op = "none" /\ nextBlock = 0
        /\ result = NoElement /\ sawEmpty = FALSE
    BY <1>3
  <2>2. 0 \in 0 .. MaxBlocks /\ NoElement \in Value
    BY <1>1 DEF Value
  <2> QED
    BY <2>1, <2>2 DEF CallTypes
<1>7. BlocksOK
  <2>1. Ring \subseteq Blocks
    BY <1>1, <1>2 DEF Ring, Blocks
  <2>2. \A b \in Ring : size[b] = InitialBlockSize /\ next[b] = IF b < blocks THEN b + 1 ELSE 1
    BY <1>2, <1>3, <2>1 DEF Ring
  <2>3. \A b \in Ring : front[b] = 0 /\ tail[b] = 0 /\ localFront[b] = 0 /\ localTail[b] = 0
    BY <1>3, <2>1
  <2>4. \A b \in Ring : next[b] \in Ring
    BY <1>2, <2>2 DEF Ring
  <2>5. \A b, c \in Ring : next[b] = next[c] => b = c
    BY <1>2, <2>2 DEF Ring
  <2>6. \A b \in Blocks \ Ring : size[b] = 0 /\ next[b] = 1
    BY <1>2, <1>3 DEF Ring, Blocks
  <2>7. \A b \in Blocks \ Ring :
          /\ front[b] = 0 /\ tail[b] = 0 /\ localFront[b] = 0 /\ localTail[b] = 0
          /\ \A i \in 0 .. TopSize - 1 : data[b][i] = NoElement
    BY <1>3
  <2> QED
    BY <1>1, <2>2, <2>3, <2>4, <2>5, <2>6, <2>7 DEF BlocksOK
<1> QED
  BY <1>4, <1>5, <1>6, <1>7 DEF TypesInv

(* Where the threads are, and their locals *)
LEMMA CallTypesStep ==
  ASSUME TypesInv, ConsumerInv, [Next]_vars
  PROVE  CallTypes'
<1> USE DEF TypesInv, CallTypes, producerVars, consumerVars, LeaveEnqueue, LeaveDequeue
<1>1. CASE UNCHANGED vars
  BY <1>1 DEF vars
<1>2. ASSUME NEW e \in Elements, NEW alloc \in BOOLEAN, BeginEnqueue(e, alloc) PROVE CallTypes'
  BY <1>2 DEF BeginEnqueue, Value
<1>3. CASE ProducerStep
  <2>1. NoElement \in Value
    BY DEF Value
  <2> QED
    BY <1>3, <2>1 DEF ProducerStep, CheckTailBlock, WriteElement, PublishTail, ChooseBlock, LoadNextFront,
       WriteNextBlock, PublishNextTail, AllocFails, AllocBlock, AdvanceTailBlock
<1>4. ASSUME NEW operation \in {"dequeue", "pop", "peek"}, BeginDequeue(operation) PROVE CallTypes'
  <2>1. sawEmpty' \in BOOLEAN
    BY <1>4 DEF BeginDequeue
  <2> QED
    BY <1>4, <2>1 DEF BeginDequeue, Value
<1>5. CASE CheckFrontBlock \/ LookBeyond \/ Recheck \/ ReleaseSlot
  BY <1>5 DEF CheckFrontBlock, LookBeyond, Recheck, ReleaseSlot
<1>6. CASE LoadNextBlock \/ AdvanceFrontBlock
  <2>1. next[frontBlock] \in 0 .. MaxBlocks /\ 0 \in 0 .. MaxBlocks
    <3>1. next[frontBlock] \in 1 .. blocks /\ blocks \in 1 .. MaxBlocks /\ MaxBlocks \in Nat
      BY RingBlocks, BlockFacts, QueueAssumption DEF RingTypes, Ring, Blocks
    <3> HIDE DEF TypesInv, CallTypes
    <3> QED
      BY <3>1
  <2>2. CASE LoadNextBlock
    BY <2>1, <2>2 DEF LoadNextBlock
  <2>3. CASE AdvanceFrontBlock
    BY <2>1, <2>3 DEF AdvanceFrontBlock
  <2> QED
    BY <1>6, <2>2, <2>3
<1>7. CASE TakeElement \/ PeekElement
  <2>1. ASSUME NEW b \in Ring PROVE data[b][front[b]] \in Value
    <3>1. data[b] \in [0 .. TopSize - 1 -> Value]
      BY BlockFacts DEF IndexTypes
    <3>2. front[b] \in 0 .. TopSize - 1
      BY BlockFacts DEF IndexTypes
    <3> QED
      BY <3>1, <3>2
  <2>2. frontBlock \in Ring /\ (nextBlock # 0 => nextBlock \in Ring)
    BY BlockFacts DEF RingTypes, ConsumerInv
  <2>3. NoElement \in Value /\ 0 \in 0 .. MaxBlocks
    BY QueueAssumption DEF Value
  <2>4. CASE TakeElement
    <3>1. result' \in Value
      BY <2>1, <2>2, <2>3, <2>4 DEF TakeElement
    <3> QED
      BY <2>4, <3>1 DEF TakeElement
  <2>5. CASE PeekElement
    <3>1. result' \in Value
      BY <2>1, <2>2, <2>5 DEF PeekElement
    <3> QED
      BY <2>3, <2>5, <3>1 DEF PeekElement
  <2> QED
    BY <1>7, <2>4, <2>5
<1> QED
  BY <1>1, <1>2, <1>3, <1>4, <1>5, <1>6, <1>7 DEF Next, ConsumerStep

(* An index or a local copy of one is changed in one block. *)
Moved(g, h) == h = g \/ \E b \in Ring : \E v \in 0 .. size[b] - 1 : h = [g EXCEPT ![b] = v]

LEMMA MovedIndex ==
  ASSUME TypesInv, NEW g \in [Blocks -> 0 .. TopSize - 1], NEW h, Moved(g, h),
         \A b \in Ring : g[b] < size[b],
         \A b \in Blocks \ Ring : g[b] = 0
  PROVE  /\ h \in [Blocks -> 0 .. TopSize - 1]
         /\ \A b \in Ring : h[b] < size[b]
         /\ \A b \in Blocks \ Ring : h[b] = 0
<1>1. CASE h = g
  BY <1>1
<1>2. ASSUME NEW b \in Ring, NEW v \in 0 .. size[b] - 1, h = [g EXCEPT ![b] = v]
      PROVE  /\ h \in [Blocks -> 0 .. TopSize - 1]
             /\ \A c \in Ring : h[c] < size[c]
             /\ \A c \in Blocks \ Ring : h[c] = 0
  <2>1. v \in 0 .. TopSize - 1 /\ v < size[b]
    BY BlockFacts
  <2>2. Ring \subseteq Blocks
    BY RingBlocks
  <2> HIDE DEF Ring, Blocks
  <2> QED
    BY <1>2, <2>1, <2>2
<1> QED
  BY <1>1, <1>2 DEF Moved

LEMMA TypesKept ==
  ASSUME TypesInv, CallTypes',
         UNCHANGED <<ringVars, data>>, frontBlock' \in Ring, tailBlock' \in Ring,
         Moved(front, front'), Moved(tail, tail'),
         Moved(localFront, localFront'), Moved(localTail, localTail')
  PROVE  TypesInv'
<1>1. UNCHANGED <<blocks, size, largestBlkSz, next, data>> /\ Ring' = Ring
  BY DEF ringVars, Ring
<1>2. RingTypes'
  BY <1>1 DEF TypesInv, RingTypes
<1>a. /\ front' \in [Blocks -> 0 .. TopSize - 1]
      /\ \A b \in Ring : front'[b] < size[b]
      /\ \A b \in Blocks \ Ring : front'[b] = 0
  <2>1. /\ front \in [Blocks -> 0 .. TopSize - 1]
        /\ \A b \in Ring : front[b] < size[b]
        /\ \A b \in Blocks \ Ring : front[b] = 0
    BY DEF TypesInv, IndexTypes, BlocksOK
  <2> QED
    BY <2>1, MovedIndex
<1>b. /\ tail' \in [Blocks -> 0 .. TopSize - 1]
      /\ \A b \in Ring : tail'[b] < size[b]
      /\ \A b \in Blocks \ Ring : tail'[b] = 0
  <2>1. /\ tail \in [Blocks -> 0 .. TopSize - 1]
        /\ \A b \in Ring : tail[b] < size[b]
        /\ \A b \in Blocks \ Ring : tail[b] = 0
    BY DEF TypesInv, IndexTypes, BlocksOK
  <2> QED
    BY <2>1, MovedIndex
<1>c. /\ localFront' \in [Blocks -> 0 .. TopSize - 1]
      /\ \A b \in Ring : localFront'[b] < size[b]
      /\ \A b \in Blocks \ Ring : localFront'[b] = 0
  <2>1. /\ localFront \in [Blocks -> 0 .. TopSize - 1]
        /\ \A b \in Ring : localFront[b] < size[b]
        /\ \A b \in Blocks \ Ring : localFront[b] = 0
    BY DEF TypesInv, IndexTypes, BlocksOK
  <2> QED
    BY <2>1, MovedIndex
<1>d. /\ localTail' \in [Blocks -> 0 .. TopSize - 1]
      /\ \A b \in Ring : localTail'[b] < size[b]
      /\ \A b \in Blocks \ Ring : localTail'[b] = 0
  <2>1. /\ localTail \in [Blocks -> 0 .. TopSize - 1]
        /\ \A b \in Ring : localTail[b] < size[b]
        /\ \A b \in Blocks \ Ring : localTail[b] = 0
    BY DEF TypesInv, IndexTypes, BlocksOK
  <2> QED
    BY <2>1, MovedIndex
<1>5. IndexTypes'
  BY <1>1, <1>a, <1>b, <1>c, <1>d DEF TypesInv, IndexTypes
<1>6. BlocksOK'
  BY <1>1, <1>a, <1>b, <1>c, <1>d DEF TypesInv, BlocksOK
<1> QED
  BY <1>2, <1>5, <1>6 DEF TypesInv

LEMMA TypesSlot ==
  ASSUME TypesInv, CallTypes', NEW b \in Ring, NEW i \in 0 .. size[b] - 1, NEW v \in Value,
         data' = [data EXCEPT ![b][i] = v],
         UNCHANGED <<ringVars, frontBlock, tailBlock, front, tail, localFront, localTail>>
  PROVE  TypesInv'
<1>1. UNCHANGED <<blocks, size, largestBlkSz, next, frontBlock, tailBlock, front, tail,
                  localFront, localTail>> /\ Ring' = Ring
  BY DEF ringVars, Ring
<1>2. RingTypes'
  BY <1>1 DEF TypesInv, RingTypes
<1>3. i \in 0 .. TopSize - 1 /\ b \in Blocks /\ b \notin Blocks \ Ring
  BY BlockFacts
<1>4. data \in [Blocks -> [0 .. TopSize - 1 -> Value]]
  BY DEF TypesInv, IndexTypes
<1>5. /\ data' \in [Blocks -> [0 .. TopSize - 1 -> Value]]
      /\ \A c \in Blocks : c # b => data'[c] = data[c]
  <2> DEFINE row == [data[b] EXCEPT ![i] = v]
  <2>1. data' = [data EXCEPT ![b] = row] /\ row \in [0 .. TopSize - 1 -> Value]
    BY <1>3, <1>4
  <2> HIDE DEF row
  <2> QED
    BY <1>4, <2>1
<1>6. IndexTypes'
  BY <1>1, <1>5 DEF TypesInv, IndexTypes
<1>7. BlocksOK'
  BY <1>1, <1>3, <1>5 DEF TypesInv, BlocksOK
<1> QED
  BY <1>2, <1>6, <1>7 DEF TypesInv

(* What AllocBlock does to the ring *)
LEMMA AllocEffect ==
  ASSUME TypesInv, AllocBlock
  PROVE  LET b == blocks + 1 IN
         /\ b \in Blocks /\ b \notin Ring /\ Ring' = Ring \cup {b} /\ blocks' = b
         /\ next'[b] = next[tailBlock] /\ next'[tailBlock] = b
         /\ \A c \in Ring \ {tailBlock} : next'[c] = next[c]
         /\ front[b] = 0 /\ localFront[b] = 0 /\ tail'[b] = 1 /\ localTail'[b] = 1
         /\ size'[b] \in 2 .. TopSize
         /\ \A c \in Blocks \ {b} : /\ size'[c] = size[c] /\ tail'[c] = tail[c]
                                    /\ localTail'[c] = localTail[c] /\ data'[c] = data[c]
         /\ \A i \in 0 .. TopSize - 1 : data'[b][i] = IF i = 0 THEN element ELSE NoElement
         /\ ppc = "alloc" /\ ppc' = "advance"
         /\ UNCHANGED <<front, localFront, frontBlock, tailBlock, element, cpc, op, nextBlock>>
<1> DEFINE b == blocks + 1
           n == IF largestBlkSz >= MAX_BLOCK_SIZE THEN largestBlkSz ELSE 2 * largestBlkSz
<1>1. /\ blocks < MaxBlocks /\ blocks' = b /\ largestBlkSz' = n
      /\ size' = [size EXCEPT ![b] = n]
      /\ data' = [data EXCEPT ![b][0] = element]
      /\ tail' = [tail EXCEPT ![b] = 1] /\ localTail' = [localTail EXCEPT ![b] = 1]
      /\ next' = [next EXCEPT ![b] = next[tailBlock], ![tailBlock] = b]
      /\ ppc = "alloc" /\ ppc' = "advance"
      /\ UNCHANGED <<front, localFront, frontBlock, tailBlock, element, cpc, op, nextBlock>>
  BY DEF AllocBlock, consumerVars
<1>2. blocks \in 1 .. MaxBlocks /\ MaxBlocks \in Nat
  BY QueueAssumption DEF TypesInv, RingTypes, Blocks
<1>3. b \in Blocks /\ b \notin Ring /\ Ring' = Ring \cup {b}
  BY <1>1, <1>2 DEF Ring, Blocks
<1>4. n \in 2 .. TopSize
  BY NewSize DEF TypesInv, RingTypes
<1>5. tailBlock \in Ring /\ Ring \subseteq Blocks /\ tailBlock # b
  BY <1>3, RingBlocks
<1>6. /\ front[b] = 0 /\ localFront[b] = 0
      /\ \A i \in 0 .. TopSize - 1 : data[b][i] = NoElement
  BY <1>3 DEF TypesInv, BlocksOK
<1>7. /\ size \in [Blocks -> 0 .. TopSize] /\ tail \in [Blocks -> 0 .. TopSize - 1]
      /\ localTail \in [Blocks -> 0 .. TopSize - 1] /\ next \in [Blocks -> Blocks]
      /\ data \in [Blocks -> [0 .. TopSize - 1 -> Value]]
  BY DEF TypesInv, RingTypes, IndexTypes
<1> HIDE DEF b, n
<1>8. /\ size'[b] = n /\ tail'[b] = 1 /\ localTail'[b] = 1
      /\ \A c \in Blocks \ {b} : /\ size'[c] = size[c] /\ tail'[c] = tail[c]
                                 /\ localTail'[c] = localTail[c]
  BY <1>1, <1>3, <1>7
<1>9. /\ next'[b] = next[tailBlock] /\ next'[tailBlock] = b
      /\ \A c \in Ring \ {tailBlock} : next'[c] = next[c]
  BY <1>1, <1>3, <1>5, <1>7
<1>10. /\ \A c \in Blocks \ {b} : data'[c] = data[c]
       /\ \A i \in 0 .. TopSize - 1 : data'[b][i] = IF i = 0 THEN element ELSE NoElement
  <2> DEFINE row == [data[b] EXCEPT ![0] = element]
  <2>1. data[b] \in [0 .. TopSize - 1 -> Value]
    BY <1>3, <1>7
  <2>2. data' = [data EXCEPT ![b] = row]
    BY <1>1
  <2>3. \A i \in 0 .. TopSize - 1 : row[i] = IF i = 0 THEN element ELSE NoElement
    BY <1>6, <2>1
  <2> HIDE DEF row
  <2> QED
    BY <1>3, <1>7, <2>2, <2>3
<1> QED
  BY <1>1, <1>3, <1>4, <1>6, <1>8, <1>9, <1>10 DEF b
-----------------------------------------------------------------------------
(***************************************************************************)
(* What a step leaves alone                                                *)
(***************************************************************************)
LEMMA BehindSame ==
  ASSUME NEW b, Behind(b),
         \A c : c = b => /\ front'[c] = front[c] /\ tail'[c] = tail[c] /\ size'[c] = size[c]
                         /\ localFront'[c] = localFront[c] /\ localTail'[c] = localTail[c]
  PROVE  \A c : c = b => (Behind(c))'
BY DEF Behind

LEMMA ActiveKept ==
  ASSUME TypesInv, ActiveInv,
         UNCHANGED <<blocks, next, frontBlock, tailBlock>>,
         \A b \in Ring \ {frontBlock} : Shown(b)' <=> Shown(b)
  PROVE  ActiveInv'
<1>1. Ring' = Ring
  BY DEF Ring
<1>2. \A b \in Ring : (Active(b)' <=> Active(b)) /\ next[b] \in Ring
  BY BlockFacts DEF Active
<1>3. tailBlock \in Ring
  BY RingBlocks
<1> QED
  BY <1>1, <1>2, <1>3 DEF ActiveInv

LEMMA ActiveSame ==
  ASSUME TypesInv, ActiveInv,
         UNCHANGED <<blocks, next, frontBlock, tailBlock>>,
         \A b \in Ring : front'[b] = tail'[b] <=> front[b] = tail[b],
         ppc = "advance" <=> ppc' = "advance"
  PROVE  ActiveInv'
BY ActiveKept DEF Shown, Filling

LEMMA SlotsSame ==
  ASSUME NEW b, SlotsOK(b),
         size'[b] = size[b], data'[b] = data[b], tail'[b] = tail[b], First(b)' = First(b),
         \A i : Written(b, i)' <=> Written(b, i)
  PROVE  SlotsOK(b)'
BY DEF SlotsOK

(***************************************************************************)
(* Steps that change no index                                              *)
(***************************************************************************)
(* A side copies the other's index of a block.                             *)
Copied(g, h, k) == h = g \/ \E b \in Ring : h = [g EXCEPT ![b] = k[b]]

LEMMA CopyStep ==
  ASSUME TypesInv, LocalsOK, ActiveInv, SlotInv, CallTypes',
         UNCHANGED <<ringVars, front, tail, data, frontBlock, tailBlock>>,
         Copied(localFront, localFront', front), Copied(localTail, localTail', tail),
         ppc' # ppc => {ppc, ppc'} \cap {"publish", "publishNext", "advance"} = {},
         cpc' # cpc => {cpc, cpc'} \cap {"release"} = {}
  PROVE  TypesInv' /\ LocalsOK' /\ ActiveInv' /\ SlotInv'
<1>1. UNCHANGED <<blocks, size, next>> /\ Ring' = Ring
  BY DEF ringVars, Ring
<1>2. TypesInv'
  <2>1. \A b \in Ring : front[b] \in 0 .. size[b] - 1 /\ tail[b] \in 0 .. size[b] - 1
    BY BlockFacts
  <2>2. Moved(localFront, localFront') /\ Moved(localTail, localTail')
    BY <2>1 DEF Copied, Moved
  <2>3. Moved(front, front') /\ Moved(tail, tail')
    BY DEF Moved
  <2> QED
    BY <2>2, <2>3, RingBlocks, TypesKept
<1>3. LocalsOK'
  <2> SUFFICES ASSUME NEW b \in Ring
               PROVE  /\ Gap(front[b], tail[b], size[b]) <= Gap(localFront'[b], tail[b], size[b])
                      /\ Gap(front[b], localTail'[b], size[b]) <= Gap(front[b], tail[b], size[b])
    BY <1>1 DEF LocalsOK, Behind
  <2>1. /\ Gap(front[b], tail[b], size[b]) <= Gap(localFront[b], tail[b], size[b])
        /\ Gap(front[b], localTail[b], size[b]) <= Gap(front[b], tail[b], size[b])
    BY DEF LocalsOK, Behind
  <2>2. /\ Gap(front[b], tail[b], size[b]) \in Nat
        /\ Gap(front[b], front[b], size[b]) = 0
    <3>1. /\ size[b] \in Nat \ {0, 1} /\ front[b] \in 0 .. size[b] - 1
          /\ tail[b] \in 0 .. size[b] - 1
      BY BlockFacts
    <3> QED
      BY <3>1 DEF Gap
  <2>3. localFront'[b] = localFront[b] \/ localFront'[b] = front[b]
    <3>1. localFront \in [Blocks -> 0 .. TopSize - 1] /\ Ring \subseteq Blocks
      BY RingBlocks DEF TypesInv, IndexTypes
    <3> QED
      BY <3>1 DEF Copied
  <2>4. localTail'[b] = localTail[b] \/ localTail'[b] = tail[b]
    <3>1. localTail \in [Blocks -> 0 .. TopSize - 1] /\ Ring \subseteq Blocks
      BY RingBlocks DEF TypesInv, IndexTypes
    <3> QED
      BY <3>1 DEF Copied
  <2> QED
    BY <2>1, <2>2, <2>3, <2>4
<1>4. ActiveInv'
  BY <1>1, ActiveSame
<1>5. SlotInv'
  <2>1. \A b \in Ring : First(b)' = First(b)
    BY <1>1 DEF First
  <2>2. \A b \in Ring : \A i : Written(b, i)' <=> Written(b, i)
    BY <1>1 DEF Written
  <2> QED
    BY <1>1, <2>1, <2>2 DEF SlotInv, SlotsOK
<1> QED
  BY <1>2, <1>3, <1>4, <1>5

LEMMA ProducerSame ==
  ASSUME ProducerInv,
         UNCHANGED <<size, next, front, tail, localFront, data, frontBlock, tailBlock,
                     ppc, element>>
  PROVE  ProducerInv'
BY DEF ProducerInv, After

LEMMA ConsumerSame ==
  ASSUME ConsumerInv,
         UNCHANGED <<next, front, tail, localTail, frontBlock, tailBlock, cpc, op, nextBlock>>
  PROVE  ConsumerInv'
BY DEF ConsumerInv

StoreInv == TypesInv /\ LocalsOK /\ ActiveInv /\ SlotInv

LEMMA CallsKept ==
  ASSUME QueueInv, CallTypes',
         \/ UNCHANGED vars
         \/ \E e \in Elements, alloc \in BOOLEAN : BeginEnqueue(e, alloc)
         \/ ChooseBlock \/ AllocFails
         \/ \E operation \in {"dequeue", "pop", "peek"} : BeginDequeue(operation)
         \/ LookBeyond \/ PeekElement
  PROVE  QueueInv'
<1>1. StoreInv'
  BY CopyStep DEF QueueInv, StoreInv, TypesInv, CallTypes, Copied, vars, ringVars, producerVars,
     consumerVars, BeginEnqueue, ChooseBlock, AllocFails, BeginDequeue, LookBeyond, PeekElement,
     LeaveEnqueue, LeaveDequeue
<1>2. ProducerInv'
  <2>1. CASE \E e \in Elements, alloc \in BOOLEAN : BeginEnqueue(e, alloc)
    BY <2>1 DEF BeginEnqueue, ProducerInv
  <2>2. CASE ChooseBlock
    BY <2>2 DEF ChooseBlock, LeaveEnqueue, ringVars, ProducerInv
  <2>3. CASE AllocFails
    BY <2>3 DEF AllocFails, LeaveEnqueue, ProducerInv
  <2>4. CASE ~ (\/ \E e \in Elements, alloc \in BOOLEAN : BeginEnqueue(e, alloc)
               \/ ChooseBlock \/ AllocFails)
    BY <2>4, ProducerSame DEF QueueInv, vars, ringVars, producerVars, BeginDequeue, LookBeyond,
       PeekElement
  <2> QED
    BY <2>1, <2>2, <2>3, <2>4
<1>3. ConsumerInv'
  <2>1. CASE \E operation \in {"dequeue", "pop", "peek"} : BeginDequeue(operation)
    BY <2>1 DEF QueueInv, BeginDequeue, ConsumerInv
  <2>2. CASE LookBeyond
    BY <2>2 DEF QueueInv, LookBeyond, LeaveDequeue, ConsumerInv
  <2>3. CASE PeekElement
    BY <2>3 DEF PeekElement, LeaveDequeue, ConsumerInv
  <2>4. CASE ~ (\/ \E operation \in {"dequeue", "pop", "peek"} : BeginDequeue(operation)
               \/ LookBeyond \/ PeekElement)
    BY <2>4, ConsumerSame DEF QueueInv, vars, ringVars, consumerVars, BeginEnqueue, ChooseBlock,
       AllocFails
  <2> QED
    BY <2>1, <2>2, <2>3, <2>4
<1> QED
  BY <1>1, <1>2, <1>3 DEF StoreInv, QueueInv

LEMMA LocalsKept ==
  ASSUME QueueInv, CallTypes',
         CheckTailBlock \/ LoadNextFront \/ CheckFrontBlock \/ Recheck \/ LoadNextBlock
  PROVE  QueueInv'
<1>1. frontBlock \in Ring /\ tailBlock \in Ring /\ next[tailBlock] \in Ring /\ next[frontBlock] \in Ring
  BY RingBlocks, BlockFacts DEF QueueInv
<1>2. /\ localFront \in [Blocks -> 0 .. TopSize - 1] /\ localTail \in [Blocks -> 0 .. TopSize - 1]
      /\ Ring \subseteq Blocks
  BY RingBlocks DEF QueueInv, TypesInv, IndexTypes
<1>3. StoreInv'
  <2>1. Copied(localFront, localFront', front) /\ Copied(localTail, localTail', tail)
    BY <1>1 DEF Copied, CheckTailBlock, LoadNextFront, CheckFrontBlock, Recheck, LoadNextBlock
  <2> QED
    BY <2>1, CopyStep DEF QueueInv, StoreInv, ringVars, producerVars, consumerVars, CheckTailBlock,
       LoadNextFront, CheckFrontBlock, Recheck, LoadNextBlock
<1>4. ProducerInv'
  <2>1. CASE CheckTailBlock
    <3>1. /\ After(tailBlock, tail[tailBlock])' = After(tailBlock, tail[tailBlock])
          /\ tailBlock' = tailBlock
      BY <2>1 DEF CheckTailBlock, ringVars, After
    <3>2. ppc' = "write" => After(tailBlock, tail[tailBlock]) # localFront'[tailBlock]
      BY <1>1, <1>2, <2>1 DEF CheckTailBlock
    <3>3. ppc' \in {"write", "full"}
      BY <2>1 DEF CheckTailBlock
    <3> QED
      BY <3>1, <3>2, <3>3 DEF ProducerInv
  <2>2. CASE LoadNextFront
    <3>1. localFront'[next[tailBlock]] = front[next[tailBlock]] /\ next[tailBlock] # frontBlock
      BY <1>1, <1>2, <2>2 DEF LoadNextFront, QueueInv, ProducerInv
    <3> QED
      BY <2>2, <3>1 DEF LoadNextFront, ringVars, ProducerInv
  <2>3. CASE CheckFrontBlock \/ Recheck \/ LoadNextBlock
    BY <2>3, ProducerSame DEF QueueInv, ringVars, producerVars, CheckFrontBlock, Recheck, LoadNextBlock
  <2> QED
    BY <2>1, <2>2, <2>3
<1>5. ConsumerInv'
  <2>1. CASE CheckTailBlock \/ LoadNextFront
    BY <2>1, ConsumerSame DEF QueueInv, ringVars, consumerVars, CheckTailBlock, LoadNextFront
  <2>2. CASE CheckFrontBlock
    <3>1. cpc' = "take" => front[frontBlock] # localTail'[frontBlock]
      BY <1>1, <1>2, <2>2 DEF CheckFrontBlock
    <3>2. cpc' \in {"take", "look"}
      BY <2>2 DEF CheckFrontBlock
    <3> QED
      BY <2>2, <3>1, <3>2 DEF QueueInv, CheckFrontBlock, ConsumerInv
  <2>3. CASE Recheck
    <3>1. cpc' = "take" => front[frontBlock] # localTail'[frontBlock]
      BY <1>1, <1>2, <2>3 DEF Recheck
    <3>2. cpc' = "hop" => front[frontBlock] = tail[frontBlock]
      BY <2>3 DEF Recheck
    <3>3. cpc' \in {"take", "hop"} /\ frontBlock # tailBlock
      BY <2>3 DEF Recheck, QueueInv, ConsumerInv
    <3> QED
      BY <2>3, <3>1, <3>2, <3>3 DEF QueueInv, Recheck, ConsumerInv
  <2>4. CASE LoadNextBlock
    <3>1. /\ frontBlock # tailBlock /\ front[frontBlock] = tail[frontBlock]
          /\ nextBlock' = next[frontBlock] /\ cpc' \in {"take", "cross"}
          /\ (cpc' = "take" <=> op = "peek")
          /\ UNCHANGED <<front, tail, next, frontBlock, tailBlock, op>>
      BY <2>4 DEF LoadNextBlock, ringVars, QueueInv, ConsumerInv
    <3>2. front[next[frontBlock]] # tail[next[frontBlock]]
      BY <1>1, <3>1 DEF QueueInv, ActiveInv, Active, Shown
    <3>3. cpc' = "cross" => localTail'[nextBlock'] = tail[nextBlock']
      BY <1>1, <1>2, <2>4 DEF LoadNextBlock
    <3>4. nextBlock' # 0
      BY <1>1, <3>1 DEF Ring
    <3> QED
      BY <3>1, <3>2, <3>3, <3>4 DEF ConsumerInv
  <2> QED
    BY <2>1, <2>2, <2>3, <2>4
<1> QED
  BY <1>3, <1>4, <1>5 DEF StoreInv, QueueInv
-----------------------------------------------------------------------------
(***************************************************************************)
(* Steps that write a slot                                                 *)
(***************************************************************************)
WroteSlot(b, i, v) == data' = [data EXCEPT ![b][i] = v]

LEMMA OneSlot ==
  ASSUME TypesInv, NEW b \in Ring, NEW i \in 0 .. size[b] - 1, NEW v, WroteSlot(b, i, v)
  PROVE  \A c \in Ring : \A j \in 0 .. size[c] - 1 :
           data'[c][j] = IF c = b /\ j = i THEN v ELSE data[c][j]
<1> SUFFICES ASSUME NEW c \in Ring, NEW j \in 0 .. size[c] - 1
             PROVE  data'[c][j] = IF c = b /\ j = i THEN v ELSE data[c][j]
  OBVIOUS
<1> DEFINE row == [data[b] EXCEPT ![i] = v]
<1>1. c \in Blocks /\ b \in Blocks /\ j \in 0 .. TopSize - 1
  BY BlockFacts
<1>2. data \in [Blocks -> [0 .. TopSize - 1 -> Value]]
  BY DEF TypesInv, IndexTypes
<1>3. data' = [data EXCEPT ![b] = row]
  BY DEF WroteSlot
<1>4. c = b => data'[c] = row
  BY <1>1, <1>2, <1>3
<1>5. c # b => data'[c] = data[c]
  BY <1>1, <1>2, <1>3
<1>6. data[b] \in [0 .. TopSize - 1 -> Value]
  BY <1>1, <1>2
<1>7. c = b => row[j] = IF j = i THEN v ELSE data[c][j]
  BY <1>1, <1>6
<1> QED
  BY <1>4, <1>5, <1>7

LEMMA LocalsSame ==
  ASSUME LocalsOK, UNCHANGED <<blocks, size, front, tail, localFront, localTail>>
  PROVE  LocalsOK'
BY DEF LocalsOK, Behind, Ring

LEMMA WriteElementStep ==
  ASSUME QueueInv, CallTypes', WriteElement
  PROVE  QueueInv'
<1> DEFINE b == tailBlock
           i == tail[tailBlock]
<1>1. /\ ppc = "write" /\ ppc' = "publish" /\ data' = [data EXCEPT ![b][i] = element]
      /\ UNCHANGED <<ringVars, front, tail, localTail, localFront, frontBlock, tailBlock,
                     element, cpc, op, nextBlock>>
  BY DEF WriteElement, consumerVars
<1>2. UNCHANGED <<blocks, size, next>> /\ Ring' = Ring
  BY <1>1 DEF ringVars, Ring
<1>3. TypesInv /\ b \in Ring /\ i \in 0 .. size[b] - 1 /\ element \in Elements /\ element \in Value
      /\ element # NoElement
  BY <1>1, RingBlocks, BlockFacts, QueueAssumption DEF QueueInv, TypesInv, CallTypes, Value
<1>4. TypesInv'
  BY <1>1, <1>3, TypesSlot
<1>5. LocalsOK'
  BY <1>1, <1>2, LocalsSame DEF QueueInv
<1>6. ActiveInv'
  BY <1>1, <1>2, ActiveSame DEF QueueInv
<1>7. \A c \in Ring : \A j \in 0 .. size[c] - 1 :
        data'[c][j] = IF c = b /\ j = i THEN element ELSE data[c][j]
  <2>1. WroteSlot(b, i, element)
    BY <1>1 DEF WroteSlot
  <2> HIDE DEF b, i
  <2> QED
    BY <1>3, <2>1, OneSlot
<1>8. SlotInv'
  <2> SUFFICES ASSUME NEW c \in Ring, NEW j \in 0 .. size[c] - 1
               PROVE  data'[c][j] # NoElement <=> InRange(First(c)', tail[c], j) \/ Written(c, j)'
    BY <1>1, <1>2 DEF SlotInv, SlotsOK
  <2>1. data[c][j] # NoElement <=> InRange(First(c), tail[c], j) \/ Written(c, j)
    BY DEF QueueInv, SlotInv, SlotsOK
  <2>2. First(c)' = First(c) /\ ~Written(c, j)
    BY <1>1, <1>2 DEF First, Written
  <2>3. Written(c, j)' <=> c = b /\ j = i
    BY <1>1, <1>2 DEF Written
  <2> QED
    BY <1>3, <1>7, <2>1, <2>2, <2>3
<1>9. ProducerInv'
  <2>1. data'[b][i] = element
    BY <1>3, <1>7
  <2> QED
    BY <1>1, <1>2, <2>1 DEF QueueInv, ProducerInv, After
<1>10. ConsumerInv'
  BY <1>1, <1>2, ConsumerSame DEF QueueInv
<1> QED
  BY <1>4, <1>5, <1>6, <1>8, <1>9, <1>10 DEF QueueInv

LEMMA WriteNextBlockStep ==
  ASSUME QueueInv, CallTypes', WriteNextBlock
  PROVE  QueueInv'
<1> DEFINE b == next[tailBlock]
           i == tail[next[tailBlock]]
<1>1. /\ ppc = "writeNext" /\ ppc' = "publishNext" /\ data' = [data EXCEPT ![b][i] = element]
      /\ UNCHANGED <<ringVars, front, tail, localTail, localFront, frontBlock, tailBlock,
                     element, cpc, op, nextBlock>>
  BY DEF WriteNextBlock, consumerVars
<1>2. UNCHANGED <<blocks, size, next>> /\ Ring' = Ring
  BY <1>1 DEF ringVars, Ring
<1>3. TypesInv /\ b \in Ring /\ i \in 0 .. size[b] - 1 /\ element \in Elements /\ element \in Value
      /\ element # NoElement
  BY <1>1, RingBlocks, BlockFacts, QueueAssumption DEF QueueInv, TypesInv, CallTypes, Value
<1>4. TypesInv'
  BY <1>1, <1>3, TypesSlot
<1>5. LocalsOK'
  BY <1>1, <1>2, LocalsSame DEF QueueInv
<1>6. ActiveInv'
  BY <1>1, <1>2, ActiveSame DEF QueueInv
<1>7. \A c \in Ring : \A j \in 0 .. size[c] - 1 :
        data'[c][j] = IF c = b /\ j = i THEN element ELSE data[c][j]
  <2>1. WroteSlot(b, i, element)
    BY <1>1 DEF WroteSlot
  <2> HIDE DEF b, i
  <2> QED
    BY <1>3, <2>1, OneSlot
<1>8. SlotInv'
  <2> SUFFICES ASSUME NEW c \in Ring, NEW j \in 0 .. size[c] - 1
               PROVE  data'[c][j] # NoElement <=> InRange(First(c)', tail[c], j) \/ Written(c, j)'
    BY <1>1, <1>2 DEF SlotInv, SlotsOK
  <2>1. data[c][j] # NoElement <=> InRange(First(c), tail[c], j) \/ Written(c, j)
    BY DEF QueueInv, SlotInv, SlotsOK
  <2>2. First(c)' = First(c) /\ ~Written(c, j)
    BY <1>1, <1>2 DEF First, Written
  <2>3. Written(c, j)' <=> c = b /\ j = i
    BY <1>1, <1>2 DEF Written
  <2> QED
    BY <1>3, <1>7, <2>1, <2>2, <2>3
<1>9. ProducerInv'
  <2>1. data'[b][i] = element
    BY <1>3, <1>7
  <2> QED
    BY <1>1, <1>2, <2>1 DEF QueueInv, ProducerInv, After
<1>10. ConsumerInv'
  BY <1>1, <1>2, ConsumerSame DEF QueueInv
<1> QED
  BY <1>4, <1>5, <1>6, <1>8, <1>9, <1>10 DEF QueueInv

LEMMA TakeElementStep ==
  ASSUME QueueInv, CallTypes', TakeElement
  PROVE  QueueInv'
<1> DEFINE b == frontBlock
           i == front[frontBlock]
<1>1. /\ cpc = "take" /\ cpc' = "release" /\ op # "peek"
      /\ data' = [data EXCEPT ![b][i] = NoElement]
      /\ UNCHANGED <<ringVars, front, tail, localTail, localFront, frontBlock, tailBlock,
                     ppc, element, op, nextBlock>>
  BY DEF TakeElement, producerVars
<1>2. UNCHANGED <<blocks, size, next>> /\ Ring' = Ring
  BY <1>1 DEF ringVars, Ring
<1>3. TypesInv /\ b \in Ring /\ i \in 0 .. size[b] - 1 /\ NoElement \in Value
  BY RingBlocks, BlockFacts DEF QueueInv, Value
<1>4. TypesInv'
  BY <1>1, <1>3, TypesSlot
<1>5. LocalsOK'
  BY <1>1, <1>2, LocalsSame DEF QueueInv
<1>6. ActiveInv'
  BY <1>1, <1>2, ActiveSame DEF QueueInv
<1>7. \A c \in Ring : \A j \in 0 .. size[c] - 1 :
        data'[c][j] = IF c = b /\ j = i THEN NoElement ELSE data[c][j]
  <2>1. WroteSlot(b, i, NoElement)
    BY <1>1 DEF WroteSlot
  <2> HIDE DEF b, i
  <2> QED
    BY <1>3, <2>1, OneSlot
<1>8. i # localTail[b] /\ i # tail[b] /\ nextBlock = 0
  <2>1. i # localTail[b] /\ nextBlock = 0
    BY <1>1 DEF QueueInv, ConsumerInv
  <2>2. Behind(b)
    BY <1>3 DEF QueueInv, LocalsOK
  <2>3. /\ size[b] \in Nat \ {0, 1} /\ tail[b] \in 0 .. size[b] - 1
        /\ localFront[b] \in 0 .. size[b] - 1 /\ localTail[b] \in 0 .. size[b] - 1
    BY <1>3, BlockFacts
  <2> QED
    BY <1>3, <2>1, <2>2, <2>3, GapBehind DEF Behind
<1>9. SlotInv'
  <2> SUFFICES ASSUME NEW c \in Ring, NEW j \in 0 .. size[c] - 1
               PROVE  data'[c][j] # NoElement <=> InRange(First(c)', tail[c], j) \/ Written(c, j)'
    BY <1>1, <1>2 DEF SlotInv, SlotsOK
  <2>1. data[c][j] # NoElement <=> InRange(First(c), tail[c], j) \/ Written(c, j)
    BY DEF QueueInv, SlotInv, SlotsOK
  <2>2. Written(c, j)' <=> Written(c, j)
    BY <1>1, <1>2 DEF Written
  <2>3. CASE c # b
    BY <1>1, <1>2, <1>7, <2>1, <2>2, <2>3 DEF First
  <2>4. CASE c = b
    <3>1. First(c) = i /\ First(c)' = Step(i, size[b])
      BY <1>1, <1>2, <2>4 DEF First, Step
    <3>2. size[b] \in Nat \ {0, 1} /\ tail[b] \in 0 .. size[b] - 1
      BY <1>3, BlockFacts
    <3>3. InRange(Step(i, size[b]), tail[b], j) <=> InRange(i, tail[b], j) /\ j # i
      BY <1>3, <1>8, <2>4, <3>2, RangeStep
    <3>4. j = i => ~Written(c, j)
      BY <1>8, <2>4 DEF Written
    <3> QED
      BY <1>7, <2>1, <2>2, <2>4, <3>1, <3>3, <3>4
  <2> QED
    BY <2>3, <2>4
<1>10. ProducerInv'
  <2>1. tail[tailBlock] \in 0 .. size[tailBlock] - 1 /\ tailBlock \in Ring
    BY <1>3, RingBlocks, BlockFacts
  <2>2. data'[tailBlock][tail[tailBlock]] = data[tailBlock][tail[tailBlock]]
    BY <1>7, <1>8, <2>1
  <2>3. next[tailBlock] \in Ring /\ tail[next[tailBlock]] \in 0 .. size[next[tailBlock]] - 1
        /\ front[next[tailBlock]] \in 0 .. size[next[tailBlock]] - 1
    BY <1>3, <2>1, BlockFacts
  <2>4. next[tailBlock] # frontBlock =>
          /\ data'[next[tailBlock]][tail[next[tailBlock]]] = data[next[tailBlock]][tail[next[tailBlock]]]
          /\ data'[next[tailBlock]][front[next[tailBlock]]] = data[next[tailBlock]][front[next[tailBlock]]]
    BY <1>7, <2>3
  <2> QED
    BY <1>1, <1>2, <2>2, <2>4 DEF QueueInv, ProducerInv, After
<1>11. ConsumerInv'
  BY <1>1, <1>2, <1>8 DEF QueueInv, ConsumerInv
<1> QED
  BY <1>4, <1>5, <1>6, <1>9, <1>10, <1>11 DEF QueueInv
-----------------------------------------------------------------------------
(***************************************************************************)
(* Steps that move an index                                                *)
(***************************************************************************)
(* What there is at both ends of a block *)
LEMMA EndFacts ==
  ASSUME QueueInv, NEW b \in Ring
  PROVE  /\ Step(tail[b], size[b]) # localFront[b] =>
              /\ Step(tail[b], size[b]) # front[b]
              /\ Gap(front[b], Step(tail[b], size[b]), size[b]) <=
                   Gap(localFront[b], Step(tail[b], size[b]), size[b])
              /\ Gap(front[b], localTail[b], size[b]) <=
                   Gap(front[b], Step(tail[b], size[b]), size[b])
         /\ front[b] # localTail[b] =>
              /\ front[b] # tail[b]
              /\ Gap(Step(front[b], size[b]), tail[b], size[b]) <=
                   Gap(localFront[b], tail[b], size[b])
              /\ Gap(Step(front[b], size[b]), localTail[b], size[b]) <=
                   Gap(Step(front[b], size[b]), tail[b], size[b])
         /\ cpc = "release" /\ b = frontBlock => front[b] # tail[b]
         /\ First(b) \in 0 .. size[b] - 1
         /\ Step(tail[b], size[b]) # front[b] => Step(tail[b], size[b]) # First(b)
<1>1. Behind(b)
  BY DEF QueueInv, LocalsOK
<1>2. /\ size[b] \in Nat \ {0, 1} /\ front[b] \in 0 .. size[b] - 1
      /\ tail[b] \in 0 .. size[b] - 1
      /\ localFront[b] \in 0 .. size[b] - 1 /\ localTail[b] \in 0 .. size[b] - 1
  BY BlockFacts DEF QueueInv
<1>3. /\ Step(tail[b], size[b]) # localFront[b] =>
              /\ Step(tail[b], size[b]) # front[b]
              /\ Gap(front[b], Step(tail[b], size[b]), size[b]) <=
                   Gap(localFront[b], Step(tail[b], size[b]), size[b])
              /\ Gap(front[b], localTail[b], size[b]) <=
                   Gap(front[b], Step(tail[b], size[b]), size[b])
      /\ front[b] # localTail[b] =>
              /\ front[b] # tail[b]
              /\ Gap(Step(front[b], size[b]), tail[b], size[b]) <=
                   Gap(localFront[b], tail[b], size[b])
              /\ Gap(Step(front[b], size[b]), localTail[b], size[b]) <=
                   Gap(Step(front[b], size[b]), tail[b], size[b])
  BY <1>1, <1>2, GapBehind DEF Behind
<1>4. cpc = "release" /\ b = frontBlock => front[b] # tail[b]
  BY <1>3 DEF QueueInv, ConsumerInv
<1>5. First(b) = front[b] \/ (First(b) = Step(front[b], size[b]) /\ front[b] # tail[b])
  BY <1>4 DEF First, Step
<1>6. First(b) \in 0 .. size[b] - 1
  BY <1>2, <1>5, StepIndex
<1>7. Step(tail[b], size[b]) # front[b] => Step(tail[b], size[b]) # First(b)
  BY <1>2, <1>5 DEF Step
<1> QED
  BY <1>3, <1>4, <1>6, <1>7

LEMMA PublishTailStep ==
  ASSUME QueueInv, CallTypes', PublishTail
  PROVE  QueueInv'
<1> DEFINE b == tailBlock
           s == Step(tail[tailBlock], size[tailBlock])
<1>0. b \in Ring /\ TypesInv
  BY RingBlocks DEF QueueInv
<1>1. /\ ppc = "publish" /\ ppc' = "idle" /\ tail' = [tail EXCEPT ![b] = After(b, tail[b])]
      /\ UNCHANGED <<ringVars, front, localTail, localFront, data, frontBlock, tailBlock,
                     cpc, op, nextBlock>>
  BY DEF PublishTail, LeaveEnqueue, consumerVars
<1>2. UNCHANGED <<blocks, size, next>> /\ Ring' = Ring
  BY <1>1 DEF ringVars, Ring
<1>3. /\ size[b] \in Nat \ {0, 1} /\ tail[b] \in 0 .. size[b] - 1
      /\ s \in 0 .. size[b] - 1 /\ After(b, tail[b]) = s
  BY <1>0, BlockFacts, Afters, StepIndex
<1>4. tail'[b] = s /\ \A c \in Ring : c # b => tail'[c] = tail[c]
  <2>1. tail \in [Blocks -> 0 .. TopSize - 1]
    BY <1>0 DEF TypesInv, IndexTypes
  <2>2. tail' = [tail EXCEPT ![b] = s] /\ b \in Blocks /\ Ring \subseteq Blocks
    BY <1>0, <1>1, <1>3, RingBlocks
  <2> HIDE DEF b, s
  <2> QED
    BY <2>1, <2>2
<1>5. s # localFront[b]
  BY <1>1, <1>3 DEF QueueInv, ProducerInv
<1>6. TypesInv'
  <2>1. Moved(tail, tail')
    BY <1>0, <1>1, <1>3 DEF Moved
  <2>2. Moved(front, front') /\ Moved(localFront, localFront') /\ Moved(localTail, localTail')
    BY <1>1 DEF Moved
  <2> QED
    BY <1>0, <1>1, <2>1, <2>2, RingBlocks, TypesKept
<1>7. /\ s # front[b] /\ s # First(b) /\ First(b) \in 0 .. size[b] - 1
      /\ Gap(front[b], s, size[b]) <= Gap(localFront[b], s, size[b])
      /\ Gap(front[b], localTail[b], size[b]) <= Gap(front[b], s, size[b])
  BY <1>0, <1>5, EndFacts
<1> HIDE DEF s
<1>8. LocalsOK'
  <2> SUFFICES ASSUME NEW c \in Ring PROVE Behind(c)'
    BY <1>2 DEF LocalsOK
  <2>1. Behind(c)
    BY DEF QueueInv, LocalsOK
  <2> QED
    BY <1>1, <1>2, <1>4, <1>7, <2>1 DEF Behind
<1>9. ActiveInv'
  <2>1. \A c \in Ring \ {frontBlock} : Shown(c)' <=> Shown(c)
    BY <1>1, <1>2, <1>4, <1>7 DEF Shown, Filling, QueueInv, ActiveInv, Active
  <2> QED
    BY <1>0, <1>1, <1>2, <2>1, ActiveKept DEF QueueInv
<1>10. SlotInv'
  <2> SUFFICES ASSUME NEW c \in Ring, NEW j \in 0 .. size[c] - 1
               PROVE  data[c][j] # NoElement <=> InRange(First(c)', tail'[c], j) \/ Written(c, j)'
    BY <1>1, <1>2 DEF SlotInv, SlotsOK
  <2>1. data[c][j] # NoElement <=> InRange(First(c), tail[c], j) \/ Written(c, j)
    BY DEF QueueInv, SlotInv, SlotsOK
  <2>2. First(c)' = First(c) /\ ~Written(c, j)'
    BY <1>1, <1>2 DEF First, Written
  <2>3. Written(c, j) <=> c = b /\ j = tail[b]
    BY <1>1 DEF Written
  <2>4. c = b => (InRange(First(b), s, j) <=> InRange(First(b), tail[b], j) \/ j = tail[b])
    BY <1>3, <1>7, RangeStep DEF s
  <2> QED
    BY <1>4, <2>1, <2>2, <2>3, <2>4
<1>11. ProducerInv'
  BY <1>1 DEF ProducerInv
<1>12. ConsumerInv'
  <2>1. frontBlock \in Ring
    BY <1>0, RingBlocks
  <2> QED
    BY <1>1, <1>2, <1>4, <2>1 DEF QueueInv, ConsumerInv
<1> QED
  BY <1>6, <1>8, <1>9, <1>10, <1>11, <1>12 DEF QueueInv

LEMMA PublishNextTailStep ==
  ASSUME QueueInv, CallTypes', PublishNextTail
  PROVE  QueueInv'
<1> DEFINE b == next[tailBlock]
           s == Step(tail[b], size[b])
<1>0. b \in Ring /\ tailBlock \in Ring /\ TypesInv
  BY RingBlocks DEF QueueInv
<1>1. /\ ppc = "publishNext" /\ ppc' = "advance" /\ tail' = [tail EXCEPT ![b] = After(b, tail[b])]
      /\ UNCHANGED <<ringVars, front, localTail, localFront, data, frontBlock, tailBlock,
                     element, cpc, op, nextBlock>>
  BY DEF PublishNextTail, consumerVars
<1>2. UNCHANGED <<blocks, size, next>> /\ Ring' = Ring
  BY <1>1 DEF ringVars, Ring
<1>3. /\ size[b] \in Nat \ {0, 1} /\ tail[b] \in 0 .. size[b] - 1
      /\ s \in 0 .. size[b] - 1 /\ After(b, tail[b]) = s /\ s # tail[b]
  BY <1>0, BlockFacts, Afters, StepIndex
<1>4. tail'[b] = s /\ \A c \in Ring : c # b => tail'[c] = tail[c]
  <2>1. tail \in [Blocks -> 0 .. TopSize - 1]
    BY <1>0 DEF TypesInv, IndexTypes
  <2>2. tail' = [tail EXCEPT ![b] = s] /\ b \in Blocks /\ Ring \subseteq Blocks
    BY <1>0, <1>1, <1>3, RingBlocks
  <2> HIDE DEF b, s
  <2> QED
    BY <2>1, <2>2
<1>5. b # frontBlock /\ localFront[b] = front[b] /\ data[b][tail[b]] = element
  BY <1>1 DEF QueueInv, ProducerInv
<1>6. front[b] = tail[b]
  BY <1>0, <1>1, <1>5 DEF QueueInv, ActiveInv, Shown, Filling
<1>7. TypesInv'
  <2>1. Moved(tail, tail')
    BY <1>0, <1>1, <1>3 DEF Moved
  <2>2. Moved(front, front') /\ Moved(localFront, localFront') /\ Moved(localTail, localTail')
    BY <1>1 DEF Moved
  <2> QED
    BY <1>0, <1>1, <2>1, <2>2, RingBlocks, TypesKept
<1>8. /\ s # front[b] /\ s # First(b) /\ First(b) \in 0 .. size[b] - 1
      /\ Gap(front[b], s, size[b]) <= Gap(localFront[b], s, size[b])
      /\ Gap(front[b], localTail[b], size[b]) <= Gap(front[b], s, size[b])
  BY <1>0, <1>3, <1>5, <1>6, EndFacts
<1>9. s = After(b, front[b])
  BY <1>3, <1>6
<1>10. LocalsOK'
  <2> SUFFICES ASSUME NEW c \in Ring PROVE Behind(c)'
    BY <1>2 DEF LocalsOK
  <2>1. Behind(c)
    BY DEF QueueInv, LocalsOK
  <2> HIDE DEF s
  <2> QED
    BY <1>1, <1>2, <1>4, <1>8, <2>1 DEF Behind
<1>11. ActiveInv'
  <2>1. \A c \in Ring \ {frontBlock} : Shown(c)' <=> Shown(c)
    <3> HIDE DEF s
    <3> QED
      BY <1>1, <1>2, <1>4, <1>6 DEF Shown, Filling
  <2> QED
    BY <1>0, <1>1, <1>2, <2>1, ActiveKept DEF QueueInv
<1>12. SlotInv'
  <2> SUFFICES ASSUME NEW c \in Ring, NEW j \in 0 .. size[c] - 1
               PROVE  data[c][j] # NoElement <=> InRange(First(c)', tail'[c], j) \/ Written(c, j)'
    BY <1>1, <1>2 DEF SlotInv, SlotsOK
  <2>1. data[c][j] # NoElement <=> InRange(First(c), tail[c], j) \/ Written(c, j)
    BY DEF QueueInv, SlotInv, SlotsOK
  <2>2. First(c)' = First(c) /\ ~Written(c, j)'
    BY <1>1, <1>2 DEF First, Written
  <2>3. Written(c, j) <=> c = b /\ j = tail[b]
    BY <1>1 DEF Written
  <2>4. c = b => (InRange(First(b), s, j) <=> InRange(First(b), tail[b], j) \/ j = tail[b])
    BY <1>3, <1>8, RangeStep
  <2> HIDE DEF s
  <2> QED
    BY <1>4, <2>1, <2>2, <2>3, <2>4
<1> HIDE DEF s
<1>13. ProducerInv'
  <2>1. tail'[b] = After(b, front[b])' /\ data[b][front[b]] = element
    BY <1>1, <1>2, <1>4, <1>5, <1>6, <1>9 DEF After
  <2> QED
    BY <1>1, <1>2, <1>5, <2>1 DEF ProducerInv
<1>14. ConsumerInv'
  <2>1. frontBlock \in Ring
    BY <1>0, RingBlocks
  <2> QED
    BY <1>1, <1>2, <1>4, <1>5, <2>1 DEF QueueInv, ConsumerInv
<1> QED
  BY <1>7, <1>10, <1>11, <1>12, <1>13, <1>14 DEF QueueInv

LEMMA ReleaseSlotStep ==
  ASSUME QueueInv, CallTypes', ReleaseSlot
  PROVE  QueueInv'
<1> DEFINE b == frontBlock
           s == Step(front[b], size[b])
<1>0. b \in Ring /\ tailBlock \in Ring /\ next[tailBlock] \in Ring /\ TypesInv
  BY RingBlocks DEF QueueInv
<1>1. /\ cpc = "release" /\ cpc' = "idle" /\ front' = [front EXCEPT ![b] = After(b, front[b])]
      /\ UNCHANGED <<ringVars, tail, localTail, localFront, data, frontBlock, tailBlock,
                     ppc, element, nextBlock>>
  BY DEF ReleaseSlot, LeaveDequeue, producerVars
<1>2. UNCHANGED <<blocks, size, next>> /\ Ring' = Ring
  BY <1>1 DEF ringVars, Ring
<1>3. /\ size[b] \in Nat \ {0, 1} /\ front[b] \in 0 .. size[b] - 1
      /\ s \in 0 .. size[b] - 1 /\ After(b, front[b]) = s
  BY <1>0, BlockFacts, Afters, StepIndex
<1>4. front'[b] = s /\ \A c \in Ring : c # b => front'[c] = front[c]
  <2>1. front \in [Blocks -> 0 .. TopSize - 1]
    BY <1>0 DEF TypesInv, IndexTypes
  <2>2. front' = [front EXCEPT ![b] = s] /\ b \in Blocks /\ Ring \subseteq Blocks
    BY <1>0, <1>1, <1>3, RingBlocks
  <2> HIDE DEF b, s
  <2> QED
    BY <2>1, <2>2
<1>5. front[b] # localTail[b] /\ nextBlock = 0
  BY <1>1 DEF QueueInv, ConsumerInv
<1>6. TypesInv'
  <2>1. Moved(front, front')
    BY <1>0, <1>1, <1>3 DEF Moved
  <2>2. Moved(tail, tail') /\ Moved(localFront, localFront') /\ Moved(localTail, localTail')
    BY <1>1 DEF Moved
  <2> QED
    BY <1>0, <1>1, <2>1, <2>2, RingBlocks, TypesKept
<1>7. /\ Gap(s, tail[b], size[b]) <= Gap(localFront[b], tail[b], size[b])
      /\ Gap(s, localTail[b], size[b]) <= Gap(s, tail[b], size[b])
  BY <1>0, <1>5, EndFacts
<1>8. LocalsOK'
  <2> SUFFICES ASSUME NEW c \in Ring PROVE Behind(c)'
    BY <1>2 DEF LocalsOK
  <2>1. Behind(c)
    BY DEF QueueInv, LocalsOK
  <2> HIDE DEF s
  <2> QED
    BY <1>1, <1>2, <1>4, <1>7, <2>1 DEF Behind
<1>9. ActiveInv'
  <2>1. \A c \in Ring \ {frontBlock} : Shown(c)' <=> Shown(c)
    BY <1>1, <1>2, <1>4 DEF Shown, Filling
  <2> QED
    BY <1>0, <1>1, <1>2, <2>1, ActiveKept DEF QueueInv
<1>10. SlotInv'
  <2> SUFFICES ASSUME NEW c \in Ring, NEW j \in 0 .. size[c] - 1
               PROVE  data[c][j] # NoElement <=> InRange(First(c)', tail[c], j) \/ Written(c, j)'
    BY <1>1, <1>2 DEF SlotInv, SlotsOK
  <2>1. data[c][j] # NoElement <=> InRange(First(c), tail[c], j) \/ Written(c, j)
    BY DEF QueueInv, SlotInv, SlotsOK
  <2>2. First(c)' = First(c)
    BY <1>1, <1>2, <1>4 DEF First, Step
  <2>3. Written(c, j)' <=> Written(c, j)
    BY <1>1, <1>2 DEF Written
  <2> QED
    BY <2>1, <2>2, <2>3
<1> HIDE DEF s
<1>11. ProducerInv'
  <2>1. next[tailBlock] # frontBlock => front'[next[tailBlock]] = front[next[tailBlock]]
    BY <1>0, <1>4
  <2> QED
    BY <1>1, <1>2, <2>1 DEF QueueInv, ProducerInv, After
<1>12. ConsumerInv'
  BY <1>1, <1>5 DEF ConsumerInv
<1> QED
  BY <1>6, <1>8, <1>9, <1>10, <1>11, <1>12 DEF QueueInv
-----------------------------------------------------------------------------
(***************************************************************************)
(* Steps along the ring                                                    *)
(***************************************************************************)
LEMMA AdvanceTailBlockStep ==
  ASSUME QueueInv, CallTypes', AdvanceTailBlock
  PROVE  QueueInv'
<1> DEFINE n == next[tailBlock]
<1>0. tailBlock \in Ring /\ n \in Ring /\ TypesInv /\ \A b \in Ring : next[b] \in Ring
  BY RingBlocks, BlockFacts DEF QueueInv
<1>1. /\ ppc = "advance" /\ ppc' = "idle" /\ tailBlock' = n
      /\ UNCHANGED <<ringVars, front, tail, localTail, localFront, data, frontBlock,
                     cpc, op, nextBlock>>
  BY DEF AdvanceTailBlock, LeaveEnqueue, consumerVars
<1>2. UNCHANGED <<blocks, size, next>> /\ Ring' = Ring
  BY <1>1 DEF ringVars, Ring
<1>3. n # frontBlock /\ tail[n] # front[n] /\ n # tailBlock /\ ~Active(n)
  <2>1. n # frontBlock /\ tail[n] = After(n, front[n])
    BY <1>1 DEF QueueInv, ProducerInv
  <2>2. tail[n] # front[n]
    BY <1>0, <2>1, BlockFacts, Afters, StepIndex
  <2>3. ~Active(n) /\ Active(tailBlock)
    BY <1>1, <2>1 DEF Active, Shown, Filling, QueueInv, ActiveInv
  <2> QED
    BY <2>1, <2>2, <2>3
<1>4. TypesInv'
  BY <1>0, <1>1, RingBlocks, TypesKept DEF Moved
<1>5. LocalsOK'
  BY <1>1, <1>2, LocalsSame DEF QueueInv
<1>6. ActiveInv'
  <2>1. \A b \in Ring : b # n => (Shown(b)' <=> Shown(b)) /\ (Active(b)' <=> Active(b))
    BY <1>1, <1>2 DEF Active, Shown, Filling
  <2>2. \A b \in Ring : b = n => Shown(b)' /\ Active(b)'
    BY <1>1, <1>2, <1>3 DEF Active, Shown, Filling
  <2>3. /\ Active(tailBlock)
        /\ \A b \in Ring : Active(b) /\ b # tailBlock => Shown(next[b]) /\ next[b] # frontBlock
        /\ \A b \in Ring : b = tailBlock \/ ~Active(b) => next[b] = frontBlock \/ ~Shown(next[b])
    BY DEF QueueInv, ActiveInv
  <2>4. \A b \in Ring : next[b] = n => b = tailBlock
    BY <1>0 DEF TypesInv, BlocksOK
  <2>5. ASSUME NEW b \in Ring, Active(b)', b # n
        PROVE  Shown(next[b])' /\ next[b] # frontBlock
    <3>1. CASE b = tailBlock
      BY <1>0, <1>2, <1>3, <2>2, <3>1
    <3>2. CASE b # tailBlock
      BY <1>0, <2>1, <2>3, <2>4, <2>5, <3>2, <1>2
    <3> QED
      BY <3>1, <3>2
  <2>6. ASSUME NEW b \in Ring, b = n \/ ~Active(b)'
        PROVE  next[b] = frontBlock \/ ~Shown(next[b])'
    <3>1. b # tailBlock
      BY <1>0, <1>3, <2>1, <2>3, <2>6
    <3>2. next[b] # n /\ ~Active(b)
      BY <1>3, <2>1, <2>4, <2>6, <3>1
    <3> QED
      BY <1>0, <2>1, <2>3, <3>2, <1>2
  <2> QED
    BY <1>0, <1>1, <1>2, <2>2, <2>5, <2>6 DEF ActiveInv
<1>7. SlotInv'
  <2>1. \A b \in Ring : First(b)' = First(b)
    BY <1>1, <1>2 DEF First
  <2>2. \A b \in Ring : \A i : Written(b, i)' <=> Written(b, i)
    BY <1>1, <1>2 DEF Written
  <2> QED
    BY <1>1, <1>2, <2>1, <2>2 DEF QueueInv, SlotInv, SlotsOK
<1>8. ProducerInv'
  BY <1>1 DEF ProducerInv
<1>9. ConsumerInv'
  BY <1>1, <1>2, <1>3 DEF QueueInv, ConsumerInv
<1> QED
  BY <1>4, <1>5, <1>6, <1>7, <1>8, <1>9 DEF QueueInv

LEMMA AdvanceFrontBlockStep ==
  ASSUME QueueInv, CallTypes', AdvanceFrontBlock
  PROVE  QueueInv'
<1> DEFINE n == next[frontBlock]
<1>0. /\ frontBlock \in Ring /\ tailBlock \in Ring /\ n \in Ring /\ TypesInv
      /\ \A b \in Ring : next[b] \in Ring
  BY RingBlocks, BlockFacts DEF QueueInv
<1>1. /\ cpc = "cross" /\ cpc' = "take" /\ frontBlock' = nextBlock /\ nextBlock' = 0
      /\ UNCHANGED <<ringVars, front, tail, localTail, localFront, data, tailBlock,
                     ppc, element, op>>
  BY DEF AdvanceFrontBlock, producerVars
<1>2. UNCHANGED <<blocks, size, next>> /\ Ring' = Ring
  BY <1>1 DEF ringVars, Ring
<1>3. /\ nextBlock = n /\ frontBlock # tailBlock /\ front[frontBlock] = tail[frontBlock]
      /\ front[n] # localTail[n] /\ op # "peek"
  BY <1>1 DEF QueueInv, ConsumerInv
<1>4. TypesInv'
  BY <1>0, <1>1, <1>3, RingBlocks, TypesKept DEF Moved
<1>5. LocalsOK'
  BY <1>1, <1>2, LocalsSame DEF QueueInv
<1>6. ActiveInv'
  <2>1. \A b \in Ring : Shown(b)' <=> Shown(b)
    BY <1>1, <1>2 DEF Shown, Filling
  <2>2. /\ Active(tailBlock)
        /\ \A b \in Ring : Active(b) /\ b # tailBlock => Shown(next[b]) /\ next[b] # frontBlock
        /\ \A b \in Ring : b = tailBlock \/ ~Active(b) => next[b] = frontBlock \/ ~Shown(next[b])
    BY DEF QueueInv, ActiveInv
  <2>3. ~Shown(frontBlock) /\ Shown(n) /\ Active(frontBlock)
    BY <1>0, <1>3, <2>2 DEF Shown, Active
  <2>4. \A b \in Ring : Active(b)' <=> Shown(b)
    BY <1>1, <1>3, <2>1, <2>3 DEF Active
  <2>5. \A b \in Ring : next[b] = n => b = frontBlock
    BY <1>0 DEF TypesInv, BlocksOK
  <2>6. \A b \in Ring : Active(b) <=> b = frontBlock \/ Shown(b)
    BY DEF Active
  <2>7. ASSUME NEW b \in Ring, Shown(b), b # tailBlock
        PROVE  Shown(next[b]) /\ next[b] # n
    BY <2>2, <2>3, <2>5, <2>6, <2>7
  <2>8. ASSUME NEW b \in Ring, b = tailBlock \/ ~Shown(b)
        PROVE  next[b] = n \/ ~Shown(next[b])
    BY <2>2, <2>3, <2>6, <2>8
  <2>9. Shown(tailBlock)
    BY <1>0, <1>3, <2>2, <2>6
  <2>10. \A b \in Ring : Shown(next[b])' <=> Shown(next[b])
    BY <1>0, <1>2, <2>1
  <2> QED
    BY <1>0, <1>1, <1>2, <1>3, <2>4, <2>7, <2>8, <2>9, <2>10 DEF ActiveInv
<1>7. SlotInv'
  <2>1. \A b \in Ring : First(b)' = First(b)
    BY <1>1, <1>2 DEF First
  <2>2. \A b \in Ring : \A i : Written(b, i)' <=> Written(b, i)
    BY <1>1, <1>2 DEF Written
  <2> QED
    BY <1>1, <1>2, <2>1, <2>2 DEF QueueInv, SlotInv, SlotsOK
<1>8. ProducerInv'
  <2>1. next[tailBlock] # n
    BY <1>0, <1>3 DEF TypesInv, BlocksOK
  <2> QED
    BY <1>1, <1>2, <1>3, <2>1 DEF QueueInv, ProducerInv, After
<1>9. ConsumerInv'
  BY <1>1, <1>2, <1>3 DEF ConsumerInv
<1> QED
  BY <1>4, <1>5, <1>6, <1>7, <1>8, <1>9 DEF QueueInv

LEMMA AllocTypes ==
  ASSUME TypesInv, CallTypes', AllocBlock
  PROVE  TypesInv'
<1> DEFINE b == blocks + 1
<1>1. /\ b \in Blocks /\ b \notin Ring /\ Ring' = Ring \cup {b} /\ blocks' = b
      /\ next'[b] = next[tailBlock] /\ next'[tailBlock] = b
      /\ \A c \in Ring \ {tailBlock} : next'[c] = next[c]
      /\ front[b] = 0 /\ localFront[b] = 0 /\ tail'[b] = 1 /\ localTail'[b] = 1
      /\ size'[b] \in 2 .. TopSize
      /\ \A c \in Blocks \ {b} : /\ size'[c] = size[c] /\ tail'[c] = tail[c]
                                 /\ localTail'[c] = localTail[c] /\ data'[c] = data[c]
      /\ UNCHANGED <<front, localFront, frontBlock, tailBlock>>
  BY AllocEffect
<1>2. /\ tailBlock \in Ring /\ next[tailBlock] \in Ring /\ Ring \subseteq Blocks
      /\ frontBlock \in Ring /\ \A c \in Ring : next[c] \in Ring
      /\ TopSize \in Nat
  BY RingBlocks, BlockFacts
<1>3. /\ largestBlkSz' = (IF largestBlkSz >= MAX_BLOCK_SIZE THEN largestBlkSz ELSE 2 * largestBlkSz)
      /\ size' = [size EXCEPT ![b] = largestBlkSz']
      /\ data' = [data EXCEPT ![b][0] = element]
      /\ tail' = [tail EXCEPT ![b] = 1] /\ localTail' = [localTail EXCEPT ![b] = 1]
      /\ next' = [next EXCEPT ![b] = next[tailBlock], ![tailBlock] = b]
  BY DEF AllocBlock
<1>4. largestBlkSz' \in 2 .. TopSize /\ IsPow2(largestBlkSz)'
  <2>1. IsPow2(largestBlkSz')
    BY <1>3, NewSize DEF TypesInv, RingTypes
  <2>2. largestBlkSz' \in 2 .. TopSize
    BY <1>3, NewSize DEF TypesInv, RingTypes
  <2> QED
    BY <2>1, <2>2 DEF IsPow2
<1> HIDE DEF b
<1>5. RingTypes'
  <2>1. next' \in [Blocks -> Blocks]
    BY <1>1, <1>2, <1>3 DEF TypesInv, RingTypes
  <2>2. size' \in [Blocks -> 0 .. TopSize]
    <3>1. largestBlkSz' \in 0 .. TopSize
      BY <1>2, <1>4
    <3> QED
      BY <1>3, <3>1 DEF TypesInv, RingTypes
  <2>3. frontBlock' \in Ring' /\ tailBlock' \in Ring' /\ blocks' \in Blocks
    BY <1>1, <1>2
  <2> QED
    BY <1>4, <2>1, <2>2, <2>3 DEF RingTypes
<1>6. IndexTypes'
  <2>1. 1 \in 0 .. TopSize - 1 /\ 0 \in 0 .. TopSize - 1
    BY InitialSizes
  <2>2. tail' \in [Blocks -> 0 .. TopSize - 1] /\ localTail' \in [Blocks -> 0 .. TopSize - 1]
    BY <1>3, <2>1 DEF TypesInv, IndexTypes
  <2>3. element \in Value
    BY DEF TypesInv, CallTypes
  <2>4. data' \in [Blocks -> [0 .. TopSize - 1 -> Value]]
    BY <1>1, <1>3, <2>1, <2>3 DEF TypesInv, IndexTypes
  <2> QED
    BY <1>1, <2>2, <2>4 DEF TypesInv, IndexTypes
<1>7. BlocksOK'
  <2>1. ASSUME NEW c \in Ring'
        PROVE  /\ size'[c] \in Nat \ {0, 1}
               /\ front'[c] < size'[c] /\ tail'[c] < size'[c]
               /\ localFront'[c] < size'[c] /\ localTail'[c] < size'[c]
               /\ next'[c] \in Ring'
    <3>1. CASE c = b
      BY <1>1, <1>2, <3>1
    <3>2. CASE c \in Ring
      <4>1. c \in Blocks \ {b}
        BY <1>1, <1>2, <3>2
      <4> QED
        BY <1>1, <1>2, <3>2, <4>1 DEF TypesInv, BlocksOK
    <3> QED
      BY <1>1, <3>1, <3>2
  <2>2. ASSUME NEW c \in Ring', NEW d \in Ring', next'[c] = next'[d] PROVE c = d
    BY <1>1, <1>2, <2>2 DEF TypesInv, BlocksOK
  <2>3. ASSUME NEW c \in Blocks \ Ring'
        PROVE  /\ front'[c] = 0 /\ tail'[c] = 0 /\ localFront'[c] = 0 /\ localTail'[c] = 0
               /\ next'[c] = 1 /\ size'[c] = 0
               /\ \A i \in 0 .. TopSize - 1 : data'[c][i] = NoElement
    <3>1. c \in Blocks \ {b} /\ c \in Blocks \ Ring /\ c # tailBlock
      BY <1>1, <1>2, <2>3
    <3>2. next'[c] = next[c]
      BY <1>3, <3>1 DEF TypesInv, RingTypes
    <3> QED
      BY <1>1, <3>1, <3>2 DEF TypesInv, BlocksOK
  <2> QED
    BY <2>1, <2>2, <2>3 DEF BlocksOK
<1> QED
  BY <1>5, <1>6, <1>7 DEF TypesInv

LEMMA AllocBlockStep ==
  ASSUME QueueInv, CallTypes', AllocBlock
  PROVE  QueueInv'
<1> DEFINE b == blocks + 1
<1>0. TypesInv
  BY DEF QueueInv
<1>1. /\ b \in Blocks /\ b \notin Ring /\ Ring' = Ring \cup {b} /\ blocks' = b
      /\ next'[b] = next[tailBlock] /\ next'[tailBlock] = b
      /\ \A c \in Ring \ {tailBlock} : next'[c] = next[c]
      /\ front[b] = 0 /\ localFront[b] = 0 /\ tail'[b] = 1 /\ localTail'[b] = 1
      /\ size'[b] \in 2 .. TopSize
      /\ \A c \in Blocks \ {b} : /\ size'[c] = size[c] /\ tail'[c] = tail[c]
                                 /\ localTail'[c] = localTail[c] /\ data'[c] = data[c]
      /\ \A i \in 0 .. TopSize - 1 : data'[b][i] = IF i = 0 THEN element ELSE NoElement
      /\ ppc = "alloc" /\ ppc' = "advance"
      /\ UNCHANGED <<front, localFront, frontBlock, tailBlock, element, cpc, op, nextBlock>>
  BY <1>0, AllocEffect
<1>2. /\ tailBlock \in Ring /\ next[tailBlock] \in Ring /\ Ring \subseteq Blocks
      /\ frontBlock \in Ring /\ \A c \in Ring : next[c] \in Ring
      /\ TopSize \in Nat
  BY <1>0, RingBlocks, BlockFacts
<1> HIDE DEF b
<1>3. \A c \in Ring : /\ c \in Ring' /\ c # b /\ size'[c] = size[c] /\ tail'[c] = tail[c]
                      /\ localTail'[c] = localTail[c] /\ data'[c] = data[c]
  BY <1>1, <1>2
<1>4. TypesInv'
  BY <1>0, AllocTypes
<1>5. LocalsOK'
  <2> SUFFICES ASSUME NEW c \in Ring'
               PROVE  /\ Gap(front[c], tail'[c], size'[c]) <= Gap(localFront[c], tail'[c], size'[c])
                      /\ Gap(front[c], localTail'[c], size'[c]) <= Gap(front[c], tail'[c], size'[c])
    BY <1>1 DEF LocalsOK, Behind
  <2>1. CASE c \in Ring
    BY <1>3, <2>1 DEF QueueInv, LocalsOK, Behind
  <2>2. CASE c = b
    BY <1>1, <2>2 DEF Gap
  <2> QED
    BY <1>1, <2>1, <2>2
<1>6. ActiveInv'
  <2>1. \A c \in Ring : (Shown(c)' <=> Shown(c)) /\ (Active(c)' <=> Active(c))
    BY <1>1, <1>3 DEF Active, Shown, Filling
  <2>2. \A c \in Ring' : c = b => ~Shown(c)' /\ ~Active(c)'
    BY <1>1, <1>2 DEF Active, Shown, Filling
  <2>3. /\ Active(tailBlock)
        /\ \A c \in Ring : Active(c) /\ c # tailBlock => Shown(next[c]) /\ next[c] # frontBlock
        /\ \A c \in Ring : c = tailBlock \/ ~Active(c) => next[c] = frontBlock \/ ~Shown(next[c])
    BY DEF QueueInv, ActiveInv
  <2>4. ASSUME NEW c \in Ring', Active(c)', c # tailBlock
        PROVE  Shown(next[c])' /\ next'[c] # frontBlock
    <3>1. c \in Ring /\ Active(c) /\ next'[c] = next[c]
      BY <1>1, <2>1, <2>2, <2>4
    <3> QED
      BY <1>2, <2>1, <2>3, <2>4, <3>1
  <2>5. ASSUME NEW c \in Ring', c = tailBlock \/ ~Active(c)'
        PROVE  next'[c] = frontBlock \/ ~Shown(next[c])'
    <3>1. CASE c = tailBlock
      BY <1>1, <2>2, <3>1
    <3>2. CASE c = b
      BY <1>1, <1>2, <2>1, <2>3, <3>2
    <3>3. CASE c \in Ring \ {tailBlock}
      BY <1>1, <1>2, <2>1, <2>3, <2>5, <3>3
    <3> QED
      BY <1>1, <3>1, <3>2, <3>3
  <2> QED
    BY <1>1, <1>2, <2>1, <2>3, <2>4, <2>5 DEF ActiveInv
<1>7. element \in Elements /\ element # NoElement
  BY <1>1, QueueAssumption DEF QueueInv, TypesInv, CallTypes
<1>8. SlotInv'
  <2> SUFFICES ASSUME NEW c \in Ring', NEW j \in 0 .. size'[c] - 1
               PROVE  data'[c][j] # NoElement <=> InRange(First(c)', tail'[c], j) \/ Written(c, j)'
    BY DEF SlotInv, SlotsOK
  <2>1. ~Written(c, j)' /\ ~Written(c, j)
    BY <1>1 DEF Written
  <2>2. CASE c \in Ring
    <3>1. data[c][j] # NoElement <=> InRange(First(c), tail[c], j) \/ Written(c, j)
      BY <1>3, <2>2 DEF QueueInv, SlotInv, SlotsOK
    <3>2. First(c)' = First(c)
      BY <1>1, <1>3, <2>2 DEF First
    <3> QED
      BY <1>3, <2>1, <2>2, <3>1, <3>2
  <2>3. CASE c = b
    <3>1. First(c)' = 0
      BY <1>1, <1>2, <2>3 DEF First
    <3>2. j \in 0 .. TopSize - 1
      BY <1>1, <1>2, <2>3
    <3>3. data'[c][j] # NoElement <=> j = 0
      BY <1>1, <1>7, <2>3, <3>2
    <3>4. InRange(First(c)', tail'[c], j) <=> j = 0
      BY <1>1, <2>3, <3>1, <3>2 DEF InRange
    <3> QED
      BY <2>1, <3>3, <3>4
  <2> QED
    BY <1>1, <2>2, <2>3
<1>9. ProducerInv'
  <2>1. next'[tailBlock] = b /\ b # frontBlock
    BY <1>1, <1>2
  <2>2. tail'[b] = 1 /\ front'[b] = 0 /\ data'[b][0] = element
    BY <1>1, InitialSizes
  <2>3. (0 + 1) % size'[b] = 1
    <3> DEFINE m == size'[b]
    <3>1. m \in Nat \ {0, 1}
      BY <1>1, <1>2
    <3> HIDE DEF m
    <3>2. 1 % m = 1
      BY <3>1
    <3> QED
      BY <3>2 DEF m
  <2> QED
    BY <1>1, <2>1, <2>2, <2>3 DEF ProducerInv, After
<1>10. ConsumerInv'
  <2>1. frontBlock # tailBlock => next'[frontBlock] = next[frontBlock]
    BY <1>1, <1>2
  <2>2. tail'[frontBlock] = tail[frontBlock] /\ localTail'[frontBlock] = localTail[frontBlock]
    BY <1>2, <1>3
  <2>3. nextBlock # 0 => nextBlock \in Ring /\ localTail'[nextBlock] = localTail[nextBlock]
    BY <1>2, <1>3 DEF QueueInv, ConsumerInv
  <2>4. cpc = "cross" => nextBlock # 0
    BY <1>2 DEF QueueInv, ConsumerInv, Ring
  <2> QED
    BY <1>1, <2>1, <2>2, <2>3, <2>4 DEF QueueInv, ConsumerInv
<1> QED
  BY <1>4, <1>5, <1>6, <1>8, <1>9, <1>10 DEF QueueInv
-----------------------------------------------------------------------------
(***************************************************************************)
(* The invariant                                                           *)
(***************************************************************************)
LEMMA QueueStart == Init => QueueInv
<1> SUFFICES ASSUME Init PROVE QueueInv
  OBVIOUS
<1>1. TypesInv
  BY TypesStart
<1>2. /\ front = [b \in Blocks |-> 0] /\ tail = [b \in Blocks |-> 0]
      /\ localTail = [b \in Blocks |-> 0] /\ localFront = [b \in Blocks |-> 0]
      /\ next = [b \in Blocks |-> IF b < blocks THEN b + 1 ELSE 1]
      /\ data = [b \in Blocks |-> [i \in 0 .. TopSize - 1 |-> NoElement]]
      /\ frontBlock = 1 /\ tailBlock = 1 /\ ppc = "idle" /\ cpc = "idle" /\ nextBlock = 0
  BY DEF Init
<1>3. \A b \in Ring : /\ b \in Blocks /\ size[b] <= TopSize /\ next[b] \in Ring
                      /\ size[b] \in Nat \ {0, 1}
                      /\ front[b] = 0 /\ tail[b] = 0 /\ localTail[b] = 0 /\ localFront[b] = 0
  BY <1>1, <1>2, BlockFacts
<1>4. LocalsOK
  BY <1>3 DEF LocalsOK, Behind, Gap
<1>5. ActiveInv
  BY <1>2, <1>3 DEF ActiveInv, Active, Shown
<1>6. ProducerInv /\ ConsumerInv
  BY <1>2 DEF ProducerInv, ConsumerInv
<1>7. SlotInv
  <2> SUFFICES ASSUME NEW b \in Ring, NEW i \in 0 .. size[b] - 1
               PROVE  data[b][i] = NoElement /\ ~InRange(First(b), tail[b], i) /\ ~Written(b, i)
    BY DEF SlotInv, SlotsOK
  <2>1. i \in 0 .. TopSize - 1
    BY <1>3, InitialSizes
  <2>2. data[b][i] = NoElement
    BY <1>2, <1>3, <2>1
  <2>3. First(b) = 0 /\ tail[b] = 0
    BY <1>2, <1>3 DEF First
  <2> QED
    BY <1>2, <2>2, <2>3 DEF InRange, Written
<1> QED
  BY <1>1, <1>4, <1>5, <1>6, <1>7 DEF QueueInv

LEMMA QueueStep == QueueInv /\ [Next]_vars => QueueInv'
<1> SUFFICES ASSUME QueueInv, [Next]_vars PROVE QueueInv'
  OBVIOUS
<1>1. CallTypes'
  BY CallTypesStep DEF QueueInv
<1>2. CASE ProducerStep
  BY <1>1, <1>2, CallsKept, LocalsKept, WriteElementStep, WriteNextBlockStep, PublishTailStep,
     PublishNextTailStep, AdvanceTailBlockStep, AllocBlockStep DEF ProducerStep
<1>3. CASE ConsumerStep
  BY <1>1, <1>3, CallsKept, LocalsKept, TakeElementStep, ReleaseSlotStep, AdvanceFrontBlockStep
     DEF ConsumerStep
<1> QED
  BY <1>1, <1>2, <1>3, CallsKept DEF Next

LEMMA QueueInvariant == Spec => []QueueInv
BY QueueStart, QueueStep, PTL DEF Spec

LEMMA SlotsFromInv == QueueInv => SlotsMatchIndices
<1> SUFFICES ASSUME QueueInv, NEW b \in 1 .. blocks, NEW i \in 0 .. size[b] - 1
             PROVE  data[b][i] # NoElement <=> i \in Filled(b) \cup BeingWritten(b)
  BY DEF SlotsMatchIndices
<1>1. b \in Ring /\ TypesInv
  BY DEF Ring, QueueInv
<1>2. data[b][i] # NoElement <=> InRange(First(b), tail[b], i) \/ Written(b, i)
  BY <1>1 DEF QueueInv, SlotInv, SlotsOK
<1>3. Filled(b) = {j \in 0 .. size[b] - 1 : InRange(First(b), tail[b], j)}
  <2>1. First(b) = FirstSlot(b) /\ FirstSlot(b) \in 0 .. size[b] - 1
    BY <1>1, Afters
  <2>2. size[b] \in Nat \ {0, 1} /\ tail[b] \in 0 .. size[b] - 1
    BY <1>1, BlockFacts
  <2> DEFINE n == size[b]
             f == First(b)
             t == tail[b]
  <2>3. n \in Nat \ {0, 1} /\ f \in 0 .. n - 1 /\ t \in 0 .. n - 1
    BY <2>1, <2>2
  <2>4. Filled(b) = {(f + k) % n : k \in 0 .. ((t - f) % n) - 1}
    BY <2>1 DEF Filled
  <2> HIDE DEF n, f, t
  <2>5. Filled(b) = {j \in 0 .. n - 1 : InRange(f, t, j)}
    BY <2>3, <2>4, FilledSlots
  <2> QED
    BY <2>5 DEF n, f, t
<1>4. i \in BeingWritten(b) <=> Written(b, i)
  BY DEF BeingWritten, Written
<1> QED
  BY <1>2, <1>3, <1>4

(***************************************************************************)
(* No slot is overwritten, lost or emptied twice: a slot of a block holds  *)
(* an element exactly from the block's front up to its tail, whatever the  *)
(* producer and the consumer are in the middle of.                         *)
(***************************************************************************)
THEOREM SlotsMatchTheIndices == Spec => []SlotsMatchIndices
BY QueueInvariant, SlotsFromInv, PTL
-----------------------------------------------------------------------------
(***************************************************************************)
(* The ring is one cycle                                                   *)
(***************************************************************************)
LEMMA CycleStart == Init => OneCycle
<1> SUFFICES ASSUME Init, NEW S \in SUBSET Ring, S # {}, \A b \in S : next[b] \in S
             PROVE  S = Ring
  BY DEF OneCycle
<1>1. blocks \in Nat \ {0} /\ blocks <= MaxBlocks /\ MaxBlocks \in Nat
  BY InitialSizes, QueueAssumption DEF Init
<1>2. \A b \in Ring : b \in Nat /\ next[b] = IF b < blocks THEN b + 1 ELSE 1
  BY <1>1 DEF Init, Ring, Blocks
<1>3. blocks \in S
  <2> DEFINE T == {blocks - b : b \in S}
  <2>0. \A b \in S : b \in Nat /\ 1 <= b /\ b <= blocks /\ blocks - b \in Nat
    <3>1. \A b \in S : b \in 1 .. blocks
      BY DEF Ring
    <3> QED
      BY <1>1, <3>1
  <2>1. T \subseteq Nat /\ T # {}
    BY <2>0
  <2>2. PICK x \in T : \A y \in T : x <= y
    BY <2>1, LeastNatural
  <2>3. PICK b \in S : x = blocks - b
    OBVIOUS
  <2>4. b < blocks => b + 1 \in S
    BY <1>2
  <2>5. \A c \in S : x <= blocks - c
    BY <2>2
  <2> HIDE DEF T
  <2>6. ~(b + 1 \in S)
    <3>1. b + 1 \in S => x <= blocks - (b + 1)
      BY <2>5
    <3>2. b \in Nat /\ blocks - b \in Nat /\ blocks - (b + 1) < blocks - b
      BY <1>1, <2>0
    <3> QED
      BY <1>1, <2>3, <3>1, <3>2
  <2> QED
    BY <1>1, <2>0, <2>4, <2>6
<1>4. ASSUME Ring \ S # {} PROVE FALSE
  <2>1. Ring \ S \subseteq Nat
    BY <1>2
  <2>2. PICK x \in Ring \ S : \A y \in Ring \ S : x <= y
    BY <1>4, <2>1, LeastNatural
  <2>3. x # 1
    BY <1>1, <1>2, <1>3 DEF Ring
  <2>4. x - 1 \in Ring /\ x - 1 < x
    BY <1>1, <2>3 DEF Ring
  <2>5. x - 1 \in S
    BY <1>2, <2>2, <2>4
  <2>6. next[x - 1] = x
    BY <1>1, <1>2, <2>4 DEF Ring
  <2> QED
    BY <2>5, <2>6
<1> QED
  BY <1>4

LEMMA CycleStep == QueueInv /\ OneCycle /\ [Next]_vars => OneCycle'
<1> SUFFICES ASSUME QueueInv, OneCycle, [Next]_vars PROVE OneCycle'
  OBVIOUS
<1>1. CASE AllocBlock
  <2> DEFINE n == blocks + 1
  <2>1. /\ n \notin Ring /\ Ring' = Ring \cup {n}
        /\ next'[n] = next[tailBlock] /\ next'[tailBlock] = n
        /\ \A c \in Ring \ {tailBlock} : next'[c] = next[c]
    BY <1>1, AllocEffect DEF QueueInv
  <2>2. tailBlock \in Ring /\ next[tailBlock] \in Ring /\ \A b \in Ring : next[b] \in Ring
    BY RingBlocks, BlockFacts DEF QueueInv
  <2> HIDE DEF n
  <2> SUFFICES ASSUME NEW S \in SUBSET Ring', S # {}, \A b \in S : next'[b] \in S
               PROVE  S = Ring'
    BY DEF OneCycle
  <2>3. S \ {n} # {} /\ S \ {n} \subseteq Ring
    BY <2>1, <2>2
  <2>4. ASSUME NEW b \in S \ {n} PROVE next[b] \in S \ {n}
    <3>1. CASE b = tailBlock
      BY <2>1, <2>2, <3>1
    <3>2. CASE b # tailBlock
      BY <2>1, <2>2, <2>3, <3>2
    <3> QED
      BY <3>1, <3>2
  <2>5. S \ {n} = Ring
    BY <2>3, <2>4 DEF OneCycle
  <2> QED
    BY <2>1, <2>2, <2>5
<1>2. CASE ~AllocBlock
  <2>1. UNCHANGED <<blocks, next>>
    BY <1>2 DEF Next, ProducerStep, ConsumerStep, vars, ringVars, BeginEnqueue, CheckTailBlock,
       WriteElement, PublishTail, ChooseBlock, LoadNextFront, WriteNextBlock, PublishNextTail,
       AllocFails, AdvanceTailBlock, BeginDequeue, CheckFrontBlock, LookBeyond, Recheck,
       LoadNextBlock, AdvanceFrontBlock, TakeElement, ReleaseSlot, PeekElement
  <2> QED
    BY <2>1 DEF OneCycle, Ring
<1> QED
  BY <1>1, <1>2

(* What holds at tailBlock, and at a block if it holds at the next, holds  *)
(* at all of them.                                                         *)
LEMMA Backwards ==
  ASSUME TypesInv, OneCycle, NEW P, tailBlock \in P,
         \A b \in Ring : b # tailBlock /\ next[b] \in P => b \in P
  PROVE  Ring \subseteq P
<1>1. \A b \in Ring \ P : next[b] \in Ring \ P
  BY BlockFacts
<1>2. Ring \ P # {} => Ring \ P = Ring
  BY <1>1 DEF OneCycle
<1> QED
  BY <1>2, RingBlocks

-----------------------------------------------------------------------------
(***************************************************************************)
(* The elements along the ring                                             *)
(***************************************************************************)
Held(b) == InBlock(b, FirstSlot(b))

(* A function that gives the blocks of D what ItemsFrom gives them *)
Gives(D, g) ==
  \A b \in D : g[b] = Held(b) \o IF b = tailBlock THEN <<>> ELSE g[next[b]]

ItemsOf(D) ==
  /\ D \subseteq Ring /\ tailBlock \in D
  /\ \A b \in D \ {tailBlock} : next[b] \in D
  /\ \E g : Gives(D, g)

LEMMA ItemsOfMore ==
  ASSUME TypesInv, NEW D, ItemsOf(D), NEW b \in Ring \ D, next[b] \in D
  PROVE  ItemsOf(D \cup {b})
<1>1. PICK g : Gives(D, g)
  BY DEF ItemsOf
<1> DEFINE E == D \cup {b}
           h == [c \in E |-> IF c = b THEN Held(b) \o g[next[b]] ELSE g[c]]
<1>2. tailBlock \in D /\ b \notin D /\ \A c \in D \ {tailBlock} : next[c] \in D
  BY DEF ItemsOf
<1>3. \A c \in D : h[c] = g[c]
  BY <1>2
<1>4. h[b] = Held(b) \o g[next[b]]
  OBVIOUS
<1> HIDE DEF h
<1>5. ASSUME NEW c \in E PROVE h[c] = Held(c) \o IF c = tailBlock THEN <<>> ELSE h[next[c]]
  <2>1. CASE c = b
    BY <1>2, <1>3, <1>4, <2>1
  <2>2. CASE c \in D
    <3>1. g[c] = Held(c) \o IF c = tailBlock THEN <<>> ELSE g[next[c]]
      BY <1>1, <2>2 DEF Gives
    <3>2. c # tailBlock => h[next[c]] = g[next[c]]
      BY <1>2, <1>3, <2>2
    <3> QED
      BY <1>3, <2>2, <3>1, <3>2
  <2> QED
    BY <2>1, <2>2
<1>6. Gives(E, h)
  BY <1>5 DEF Gives
<1> QED
  BY <1>2, <1>6 DEF ItemsOf

LEMMA ItemsOfRing == TypesInv /\ OneCycle => ItemsOf(Ring)
<1> SUFFICES ASSUME TypesInv, OneCycle PROVE ItemsOf(Ring)
  OBVIOUS
<1>1. tailBlock \in Ring /\ \A b \in Ring : next[b] \in Ring
  BY RingBlocks, BlockFacts
<1>2. ItemsOf({tailBlock})
  <2> DEFINE g == [b \in {tailBlock} |-> Held(b) \o <<>>]
  <2>1. g[tailBlock] = Held(tailBlock) \o <<>>
    OBVIOUS
  <2>2. Gives({tailBlock}, g)
    BY <2>1 DEF Gives
  <2> QED
    BY <1>1, <2>2 DEF ItemsOf
<1>3. IsFiniteSet(Ring)
  <2>1. blocks \in Nat
    BY QueueAssumption DEF TypesInv, RingTypes, Blocks
  <2> QED
    BY <2>1, FS_Interval DEF Ring
<1> DEFINE Left == {Cardinality(Ring \ D) : D \in {E \in SUBSET Ring : ItemsOf(E)}}
<1>4. Left \subseteq Nat /\ Left # {}
  <2>1. \A D \in SUBSET Ring : Cardinality(Ring \ D) \in Nat
    BY <1>3, FS_Subset, FS_CardinalityType
  <2>2. {tailBlock} \in SUBSET Ring
    BY <1>1
  <2> QED
    BY <1>2, <2>1, <2>2
<1>5. PICK x \in Left : \A y \in Left : x <= y
  BY <1>4, LeastNatural
<1>6. PICK D \in SUBSET Ring : ItemsOf(D) /\ x = Cardinality(Ring \ D)
  OBVIOUS
<1>7. ASSUME NEW b \in Ring \ D, next[b] \in D PROVE FALSE
  <2>1. ItemsOf(D \cup {b}) /\ D \cup {b} \in SUBSET Ring
    BY <1>6, <1>7, ItemsOfMore
  <2>2. Cardinality(Ring \ (D \cup {b})) \in Left
    BY <2>1
  <2>3. Ring \ (D \cup {b}) = (Ring \ D) \ {b}
    OBVIOUS
  <2>4. Cardinality((Ring \ D) \ {b}) = x - 1
    BY <1>3, <1>6, <1>7, FS_Subset, FS_RemoveElement
  <2>5. x \in Nat
    BY <1>4
  <2>6. x - 1 \in Left
    BY <2>2, <2>3, <2>4
  <2>7. x <= x - 1
    BY <1>5, <2>6
  <2> QED
    BY <2>5, <2>7
<1>8. Ring \subseteq D
  <2>1. tailBlock \in D
    BY <1>6 DEF ItemsOf
  <2>2. \A b \in Ring : b # tailBlock /\ next[b] \in D => b \in D
    BY <1>7
  <2> QED
    BY <2>1, <2>2, Backwards
<1>9. D = Ring
  BY <1>6, <1>8
<1> QED
  BY <1>6, <1>9

(* What ItemsFrom is *)
LEMMA ItemsFromRing ==
  TypesInv /\ OneCycle =>
    \A b \in Ring : ItemsFrom[b] = Held(b) \o IF b = tailBlock THEN <<>> ELSE ItemsFrom[next[b]]
<1> SUFFICES ASSUME TypesInv, OneCycle
             PROVE  \A b \in Ring :
                      ItemsFrom[b] = Held(b) \o IF b = tailBlock THEN <<>> ELSE ItemsFrom[next[b]]
  OBVIOUS
<1>1. PICK g : Gives(Ring, g)
  BY ItemsOfRing DEF ItemsOf
<1>2. /\ Ring \subseteq Blocks /\ tailBlock \in Ring /\ 1 \in Ring
      /\ \A b \in Ring : next[b] \in Ring
      /\ \A b \in Blocks \ Ring : next[b] = 1
  <2>1. 1 \in Ring
    BY RingBlocks DEF Ring, TypesInv, RingTypes, Blocks
  <2> QED
    BY <2>1, RingBlocks, BlockFacts DEF TypesInv, BlocksOK
<1> DEFINE h == [b \in Blocks |-> IF b \in Ring THEN g[b] ELSE Held(b) \o g[1]]
<1>3. \A b \in Ring : h[b] = g[b]
  BY <1>2
<1>4. \A b \in Blocks \ Ring : h[b] = Held(b) \o g[1]
  OBVIOUS
<1>5. DOMAIN h = Blocks /\ h = [b \in Blocks |-> h[b]]
  OBVIOUS
<1> HIDE DEF h
<1>6. \A b \in Blocks : h[b] = Held(b) \o IF b = tailBlock THEN <<>> ELSE h[next[b]]
  BY <1>1, <1>2, <1>3, <1>4 DEF Gives
<1>7. h = [b \in Blocks |-> Held(b) \o IF b = tailBlock THEN <<>> ELSE h[next[b]]]
  BY <1>5, <1>6
<1>8. ItemsFrom = [b \in Blocks |-> Held(b) \o IF b = tailBlock THEN <<>> ELSE ItemsFrom[next[b]]]
  BY <1>7 DEF ItemsFrom, Held
<1> QED
  BY <1>2, <1>8
-----------------------------------------------------------------------------
(***************************************************************************)
(* The elements of one block                                               *)
(***************************************************************************)
Part(row, f, t, n) == [k \in 1 .. (t - f) % n |-> row[(f + k - 1) % n]]

LEMMA PartSlots ==
  ASSUME NEW n \in Nat \ {0, 1}, NEW f \in 0 .. n - 1, NEW t \in 0 .. n - 1, NEW row
  PROVE  /\ Gap(f, t, n) \in 0 .. n - 1
         /\ Part(row, f, t, n) =
              [k \in 1 .. Gap(f, t, n) |->
                 row[IF f + k - 1 < n THEN f + k - 1 ELSE f + k - 1 - n]]
         /\ \A k \in 1 .. Gap(f, t, n) :
              LET i == IF f + k - 1 < n THEN f + k - 1 ELSE f + k - 1 - n
              IN  i \in 0 .. n - 1 /\ InRange(f, t, i)
<1> DEFINE G == Gap(f, t, n)
<1>1. (t - f) % n = G /\ G \in 0 .. n - 1
  BY ModDifference, GapStep
<1>2. ASSUME NEW k \in 1 .. G
      PROVE  /\ (f + k - 1) % n = IF f + k - 1 < n THEN f + k - 1 ELSE f + k - 1 - n
             /\ LET i == IF f + k - 1 < n THEN f + k - 1 ELSE f + k - 1 - n
                IN  i \in 0 .. n - 1 /\ InRange(f, t, i)
  <2>1. k - 1 \in 0 .. n - 1
    BY <1>1
  <2>2. (f + (k - 1)) % n = IF f + (k - 1) < n THEN f + (k - 1) ELSE f + (k - 1) - n
    BY <2>1, ModSum
  <2>3. f + (k - 1) = f + k - 1
    BY <2>1
  <2>4. LET i == IF f + k - 1 < n THEN f + k - 1 ELSE f + k - 1 - n
        IN  i \in 0 .. n - 1 /\ InRange(f, t, i)
    BY <2>1 DEF Gap, InRange
  <2> QED
    BY <2>2, <2>3, <2>4
<1> HIDE DEF G
<1>3. Part(row, f, t, n) =
        [k \in 1 .. G |-> row[IF f + k - 1 < n THEN f + k - 1 ELSE f + k - 1 - n]]
  BY <1>1, <1>2 DEF Part
<1> QED
  BY <1>1, <1>2, <1>3 DEF G

LEMMA PartSeq ==
  ASSUME NEW n \in Nat \ {0, 1}, NEW f \in 0 .. n - 1, NEW t \in 0 .. n - 1, NEW row,
         \A i \in 0 .. n - 1 : row[i] \in Value
  PROVE  /\ Part(row, f, t, n) \in Seq(Value) /\ Len(Part(row, f, t, n)) = Gap(f, t, n)
         /\ Part(row, f, t, n) = <<>> <=> f = t
<1>1. /\ Gap(f, t, n) \in Nat
      /\ Part(row, f, t, n) \in [1 .. Gap(f, t, n) -> Value]
  <2> DEFINE G == Gap(f, t, n)
             slot(k) == IF f + k - 1 < n THEN f + k - 1 ELSE f + k - 1 - n
  <2>1. G \in 0 .. n - 1 /\ Part(row, f, t, n) = [k \in 1 .. G |-> row[slot(k)]]
    BY PartSlots
  <2>2. \A k \in 1 .. G : slot(k) \in 0 .. n - 1
    BY PartSlots
  <2> HIDE DEF G, slot
  <2>3. \A k \in 1 .. G : row[slot(k)] \in Value
    BY <2>2
  <2>4. [k \in 1 .. G |-> row[slot(k)]] \in [1 .. G -> Value]
    BY <2>3
  <2> QED
    BY <2>1, <2>4 DEF G
<1>2. Part(row, f, t, n) \in Seq(Value)
  BY <1>1, SeqDef
<1>3. Len(Part(row, f, t, n)) = Gap(f, t, n)
  BY <1>1, <1>2, LenProperties
<1>4. Part(row, f, t, n) = <<>> <=> Gap(f, t, n) = 0
  BY <1>1, <1>2, <1>3, EmptySeq
<1> QED
  BY <1>2, <1>3, <1>4, GapStep

LEMMA PartSame ==
  ASSUME NEW n \in Nat \ {0, 1}, NEW f \in 0 .. n - 1, NEW t \in 0 .. n - 1, NEW row, NEW new,
         \A i \in 0 .. n - 1 : InRange(f, t, i) => new[i] = row[i]
  PROVE  Part(new, f, t, n) = Part(row, f, t, n)
BY PartSlots

(* Adding an element *)
LEMMA PartAppend ==
  ASSUME NEW n \in Nat \ {0, 1}, NEW f \in 0 .. n - 1, NEW t \in 0 .. n - 1, NEW row,
         \A i \in 0 .. n - 1 : row[i] \in Value, Step(t, n) # f
  PROVE  Part(row, f, Step(t, n), n) = Append(Part(row, f, t, n), row[t])
<1> DEFINE G == Gap(f, t, n)
           s == Part(row, f, t, n)
           u == Part(row, f, Step(t, n), n)
<1>1. Step(t, n) \in 0 .. n - 1 /\ Gap(f, Step(t, n), n) = G + 1 /\ G \in Nat /\ G <= n - 1
  BY StepIndex, GapStep
<1>2. s \in Seq(Value) /\ Len(s) = G
  BY PartSeq
<1>3. u \in Seq(Value) /\ Len(u) = G + 1
  BY <1>1, PartSeq
<1>4. \A k \in 1 .. G : s[k] = row[IF f + k - 1 < n THEN f + k - 1 ELSE f + k - 1 - n]
  BY PartSlots
<1>5. \A k \in 1 .. G + 1 : u[k] = row[IF f + k - 1 < n THEN f + k - 1 ELSE f + k - 1 - n]
  BY <1>1, PartSlots
<1>6. (IF f + (G + 1) - 1 < n THEN f + (G + 1) - 1 ELSE f + (G + 1) - 1 - n) = t
  BY DEF Gap
<1>7. u[G + 1] = row[t]
  BY <1>1, <1>5, <1>6
<1>8. row[t] \in Value
  OBVIOUS
<1> HIDE DEF G, s, u
<1>9. /\ Append(s, row[t]) \in Seq(Value) /\ Len(Append(s, row[t])) = G + 1
      /\ Append(s, row[t])[G + 1] = row[t]
      /\ \A k \in 1 .. G : Append(s, row[t])[k] = s[k]
  BY <1>1, <1>2, <1>8
<1>10. \A k \in 1 .. G + 1 : u[k] = Append(s, row[t])[k]
  BY <1>1, <1>4, <1>5, <1>7, <1>9
<1>11. u = Append(s, row[t])
  BY <1>3, <1>9, <1>10, SeqEqual
<1> QED
  BY <1>11 DEF s, u

(* Taking one *)
LEMMA PartTail ==
  ASSUME NEW n \in Nat \ {0, 1}, NEW f \in 0 .. n - 1, NEW t \in 0 .. n - 1, NEW row,
         \A i \in 0 .. n - 1 : row[i] \in Value, f # t
  PROVE  /\ Part(row, f, t, n) # <<>> /\ Head(Part(row, f, t, n)) = row[f]
         /\ Part(row, Step(f, n), t, n) = Tail(Part(row, f, t, n))
<1> DEFINE G == Gap(f, t, n)
           s == Part(row, f, t, n)
           u == Part(row, Step(f, n), t, n)
<1>1. /\ Step(f, n) \in 0 .. n - 1 /\ Gap(Step(f, n), t, n) = G - 1
      /\ G \in Nat \ {0} /\ G <= n - 1
  BY StepIndex, GapStep
<1>2. s \in Seq(Value) /\ Len(s) = G /\ s # <<>>
  BY PartSeq
<1>3. u \in Seq(Value) /\ Len(u) = G - 1
  BY <1>1, PartSeq
<1>4. \A k \in 1 .. G : s[k] = row[IF f + k - 1 < n THEN f + k - 1 ELSE f + k - 1 - n]
  BY PartSlots
<1>5. \A k \in 1 .. G - 1 :
        u[k] = row[IF Step(f, n) + k - 1 < n THEN Step(f, n) + k - 1 ELSE Step(f, n) + k - 1 - n]
  BY <1>1, PartSlots
<1>6. \A k \in 1 .. G - 1 :
        (IF Step(f, n) + k - 1 < n THEN Step(f, n) + k - 1 ELSE Step(f, n) + k - 1 - n)
          = (IF f + (k + 1) - 1 < n THEN f + (k + 1) - 1 ELSE f + (k + 1) - 1 - n)
  BY <1>1 DEF Step
<1>7. \A k \in 1 .. G - 1 : u[k] = s[k + 1]
  <2> SUFFICES ASSUME NEW k \in 1 .. G - 1 PROVE u[k] = s[k + 1]
    OBVIOUS
  <2>1. k + 1 \in 1 .. G
    BY <1>1
  <2> HIDE DEF s, u
  <2> QED
    BY <1>4, <1>5, <1>6, <2>1
<1>8. s[1] = row[f]
  <2>1. 1 \in 1 .. G /\ (IF f + 1 - 1 < n THEN f + 1 - 1 ELSE f + 1 - 1 - n) = f
    BY <1>1
  <2> HIDE DEF s
  <2> QED
    BY <1>4, <2>1
<1> HIDE DEF G, s, u
<1>9. /\ Head(s) = s[1] /\ Tail(s) \in Seq(Value) /\ Len(Tail(s)) = G - 1
      /\ \A k \in 1 .. G - 1 : Tail(s)[k] = s[k + 1]
  BY <1>1, <1>2, HeadTailProperties
<1>10. u = Tail(s)
  BY <1>3, <1>7, <1>9, SeqEqual
<1> QED
  BY <1>2, <1>8, <1>9, <1>10 DEF s, u

LEMMA ItemsFromNextRing ==
  ASSUME TypesInv', OneCycle'
  PROVE  \A b \in Ring' : ItemsFrom'[b] = Held(b)' \o IF b = tailBlock' THEN <<>> ELSE ItemsFrom'[next'[b]]
<1>1. (TypesInv /\ OneCycle =>
        \A b \in Ring : ItemsFrom[b] = Held(b) \o IF b = tailBlock THEN <<>> ELSE ItemsFrom[next[b]])'
  BY ItemsFromRing, PTL
<1> QED
  BY <1>1

LEMMA HeldFacts ==
  TypesInv =>
    \A b \in Ring :
      /\ Held(b) = Part(data[b], First(b), tail[b], size[b])
      /\ Held(b) \in Seq(Value)
      /\ Held(b) = <<>> <=> First(b) = tail[b]
<1> SUFFICES ASSUME TypesInv, NEW b \in Ring
             PROVE  /\ Held(b) = Part(data[b], First(b), tail[b], size[b])
                    /\ Held(b) \in Seq(Value)
                    /\ Held(b) = <<>> <=> First(b) = tail[b]
  OBVIOUS
<1>1. First(b) = FirstSlot(b) /\ First(b) \in 0 .. size[b] - 1
  BY Afters
<1>2. /\ size[b] \in Nat \ {0, 1} /\ tail[b] \in 0 .. size[b] - 1
      /\ b \in Blocks /\ size[b] <= TopSize /\ TopSize \in Nat
  BY BlockFacts
<1>3. Held(b) = Part(data[b], First(b), tail[b], size[b])
  BY <1>1 DEF Held, InBlock, Part
<1>4. \A i \in 0 .. size[b] - 1 : data[b][i] \in Value
  BY <1>2 DEF TypesInv, IndexTypes
<1> QED
  BY <1>1, <1>2, <1>3, <1>4, PartSeq

LEMMA ItemsSeq == TypesInv /\ OneCycle => \A b \in Ring : ItemsFrom[b] \in Seq(Value)
<1> SUFFICES ASSUME TypesInv, OneCycle PROVE \A b \in Ring : ItemsFrom[b] \in Seq(Value)
  OBVIOUS
<1> DEFINE P == {b \in Ring : ItemsFrom[b] \in Seq(Value)}
<1>1. \A b \in Ring : ItemsFrom[b] = Held(b) \o IF b = tailBlock THEN <<>> ELSE ItemsFrom[next[b]]
  BY ItemsFromRing
<1>2. \A b \in Ring : Held(b) \in Seq(Value)
  BY HeldFacts
<1>3. <<>> \in Seq(Value)
  BY EmptySeq
<1>4. tailBlock \in P
  <2>1. ItemsFrom[tailBlock] = Held(tailBlock) \o <<>>
    BY <1>1, RingBlocks
  <2> QED
    BY <1>2, <1>3, <2>1, RingBlocks, ConcatProperties
<1>5. ASSUME NEW b \in Ring, b # tailBlock, next[b] \in P PROVE b \in P
  <2>1. ItemsFrom[b] = Held(b) \o ItemsFrom[next[b]]
    BY <1>1, <1>5
  <2> QED
    BY <1>2, <1>5, <2>1, ConcatProperties
<1> HIDE DEF P
<1>6. Ring \subseteq P
  BY <1>4, <1>5, Backwards
<1> QED
  BY <1>6 DEF P

(* The elements from the blocks that have some do not change with what     *)
(* the other blocks hold; x is the block whose elements may change, if any *)
LEMMA ItemsKept ==
  ASSUME QueueInv, OneCycle, QueueInv', OneCycle', tailBlock' = tailBlock, Ring \subseteq Ring',
         NEW x, x \in Ring => x = frontBlock,
         \A b \in Ring : Active(b) /\ b # x => Held(b)' = Held(b),
         \A b \in Ring : b # tailBlock => next'[b] = next[b]
  PROVE  \A b \in Ring : Active(b) /\ b # x => ItemsFrom'[b] = ItemsFrom[b]
<1> DEFINE P == {b \in Ring : Active(b) /\ b # x => ItemsFrom'[b] = ItemsFrom[b]}
<1>1. \A b \in Ring : ItemsFrom[b] = Held(b) \o IF b = tailBlock THEN <<>> ELSE ItemsFrom[next[b]]
  BY ItemsFromRing DEF QueueInv
<1>2. \A b \in Ring' : ItemsFrom'[b] = Held(b)' \o IF b = tailBlock' THEN <<>> ELSE ItemsFrom'[next'[b]]
  BY ItemsFromNextRing DEF QueueInv
<1>3. TypesInv /\ tailBlock \in Ring /\ \A b \in Ring : next[b] \in Ring
  BY RingBlocks, BlockFacts DEF QueueInv
<1>4. tailBlock \in P
  BY <1>1, <1>2, <1>3
<1>5. ASSUME NEW b \in Ring, b # tailBlock, next[b] \in P PROVE b \in P
  <2> SUFFICES ASSUME Active(b), b # x PROVE ItemsFrom'[b] = ItemsFrom[b]
    OBVIOUS
  <2>1. Active(next[b]) /\ next[b] # x
    BY <1>3, <1>5 DEF QueueInv, ActiveInv, Active
  <2>2. ItemsFrom'[next[b]] = ItemsFrom[next[b]]
    BY <1>5, <2>1
  <2>3. ItemsFrom'[b] = Held(b)' \o ItemsFrom'[next[b]]
    BY <1>2, <1>5
  <2>4. ItemsFrom[b] = Held(b) \o ItemsFrom[next[b]]
    BY <1>1, <1>5
  <2> QED
    BY <2>2, <2>3, <2>4
<1> HIDE DEF P
<1>6. Ring \subseteq P
  BY <1>3, <1>4, <1>5, Backwards
<1> QED
  BY <1>6 DEF P

LEMMA HeldSame ==
  ASSUME NEW b, size'[b] = size[b], data'[b] = data[b], tail'[b] = tail[b],
         FirstSlot(b)' = FirstSlot(b)
  PROVE  Held(b)' = Held(b)
BY DEF Held, InBlock

LEMMA HeldQuiet ==
  ASSUME NEW b, UNCHANGED <<size, data, tail, front>>,
         \/ UNCHANGED <<cpc, frontBlock>>
         \/ cpc # "release" /\ cpc' # "release"
  PROVE  Held(b)' = Held(b)
<1>1. FirstSlot(b)' = FirstSlot(b)
  BY DEF FirstSlot, After
<1> QED
  BY <1>1, HeldSame

(* A slot at the tail of a block is not part of the queue yet.             *)
LEMMA HeldBeyond ==
  ASSUME TypesInv, NEW b \in Ring, NEW c \in Ring, NEW v, WroteSlot(b, tail[b], v),
         UNCHANGED <<size, tail, front, cpc, frontBlock>>
  PROVE  Held(c)' = Held(c)
<1>1. FirstSlot(c)' = FirstSlot(c) /\ First(c) = FirstSlot(c)
  BY Afters DEF FirstSlot, After
<1>2. /\ size[c] \in Nat \ {0, 1} /\ tail[c] \in 0 .. size[c] - 1 /\ First(c) \in 0 .. size[c] - 1
      /\ tail[b] \in 0 .. size[b] - 1
  BY BlockFacts, Afters
<1>3. \A i \in 0 .. size[c] - 1 : data'[c][i] = IF c = b /\ i = tail[b] THEN v ELSE data[c][i]
  BY <1>2, OneSlot
<1>4. \A i \in 0 .. size[c] - 1 : InRange(First(c), tail[c], i) => data'[c][i] = data[c][i]
  <2>1. ~InRange(First(c), tail[c], tail[c])
    BY <1>2, RangeStep
  <2> QED
    BY <1>3, <2>1
<1>5. Part(data'[c], First(c), tail[c], size[c]) = Part(data[c], First(c), tail[c], size[c])
  <2> DEFINE n == size[c]
             f == First(c)
             t == tail[c]
             row == data[c]
             new == data'[c]
  <2>1. /\ n \in Nat \ {0, 1} /\ f \in 0 .. n - 1 /\ t \in 0 .. n - 1
        /\ \A i \in 0 .. n - 1 : InRange(f, t, i) => new[i] = row[i]
    BY <1>2, <1>4
  <2> HIDE DEF n, f, t, row, new
  <2>2. Part(new, f, t, n) = Part(row, f, t, n)
    BY <2>1, PartSame
  <2> QED
    BY <2>2 DEF n, f, t, row, new
<1> QED
  BY <1>1, <1>5 DEF Held, InBlock, Part

LEMMA ItemsQuiet ==
  ASSUME QueueInv, OneCycle, QueueInv', OneCycle',
         \/ UNCHANGED vars
         \/ \E e \in Elements, alloc \in BOOLEAN : BeginEnqueue(e, alloc)
         \/ CheckTailBlock \/ WriteElement \/ ChooseBlock \/ LoadNextFront \/ WriteNextBlock
         \/ PublishNextTail \/ AllocFails \/ AllocBlock
         \/ \E operation \in {"dequeue", "pop", "peek"} : BeginDequeue(operation)
         \/ CheckFrontBlock \/ LookBeyond \/ Recheck \/ LoadNextBlock \/ ReleaseSlot \/ PeekElement
  PROVE  Items' = Items
<1>0. TypesInv /\ frontBlock \in Ring /\ tailBlock \in Ring /\ next[tailBlock] \in Ring
  BY RingBlocks DEF QueueInv
<1>1. /\ Ring \subseteq Ring' /\ UNCHANGED <<frontBlock, tailBlock>>
      /\ \A b \in Ring : b # tailBlock => next'[b] = next[b]
  <2>1. CASE AllocBlock
    BY <1>0, <2>1, AllocEffect
  <2>2. CASE ~AllocBlock
    BY <2>2 DEF Ring, vars, ringVars, BeginEnqueue, CheckTailBlock,
       WriteElement, ChooseBlock, LoadNextFront, WriteNextBlock, PublishNextTail,
       AllocFails, BeginDequeue, CheckFrontBlock, LookBeyond, Recheck,
       LoadNextBlock, ReleaseSlot, PeekElement
  <2> QED
    BY <2>1, <2>2
<1>2. ASSUME NEW b \in Ring, Active(b) PROVE Held(b)' = Held(b)
  <2>1. CASE \/ UNCHANGED vars
             \/ \E e \in Elements, alloc \in BOOLEAN : BeginEnqueue(e, alloc)
             \/ CheckTailBlock \/ ChooseBlock \/ LoadNextFront \/ AllocFails
    BY <2>1, HeldQuiet DEF vars, ringVars, consumerVars, BeginEnqueue, CheckTailBlock, ChooseBlock,
       LoadNextFront, AllocFails
  <2>2. CASE \/ \E operation \in {"dequeue", "pop", "peek"} : BeginDequeue(operation)
             \/ CheckFrontBlock \/ LookBeyond \/ Recheck \/ LoadNextBlock \/ PeekElement
    <3>1. UNCHANGED <<size, data, tail, front>>
      BY <2>2 DEF ringVars, BeginDequeue, CheckFrontBlock, LookBeyond, Recheck, LoadNextBlock,
         PeekElement
    <3>2. cpc # "release" /\ cpc' # "release"
      BY <2>2 DEF BeginDequeue, CheckFrontBlock, LookBeyond, Recheck, LoadNextBlock,
         PeekElement, LeaveDequeue
    <3> QED
      BY <3>1, <3>2, HeldQuiet
  <2>3. CASE WriteElement
    <3>1. WroteSlot(tailBlock, tail[tailBlock], element)
      BY <2>3 DEF WriteElement, WroteSlot
    <3> QED
      BY <1>0, <2>3, <3>1, HeldBeyond DEF WriteElement, ringVars, consumerVars
  <2>4. CASE WriteNextBlock
    <3>1. WroteSlot(next[tailBlock], tail[next[tailBlock]], element)
      BY <2>4 DEF WriteNextBlock, WroteSlot
    <3> QED
      BY <1>0, <2>4, <3>1, HeldBeyond DEF WriteNextBlock, ringVars, consumerVars
  <2>5. CASE PublishNextTail
    <3>1. ppc = "publishNext" /\ tail' = [tail EXCEPT ![next[tailBlock]] = After(next[tailBlock], @)]
          /\ UNCHANGED <<size, data, front, cpc, frontBlock>>
      BY <2>5 DEF PublishNextTail, ringVars, consumerVars
    <3>2. b # next[tailBlock]
      BY <1>0, <1>2, <3>1 DEF QueueInv, ActiveInv, Active, ProducerInv
    <3>3. tail'[b] = tail[b]
      BY <1>0, <3>1, <3>2, RingBlocks DEF TypesInv, IndexTypes
    <3>4. FirstSlot(b)' = FirstSlot(b)
      BY <3>1 DEF FirstSlot, After
    <3> QED
      BY <3>1, <3>3, <3>4, HeldSame
  <2>6. CASE AllocBlock
    <3>1. b \in Blocks \ {blocks + 1} /\ size'[b] = size[b] /\ tail'[b] = tail[b] /\ data'[b] = data[b]
          /\ UNCHANGED <<front, frontBlock, cpc>>
      BY <1>0, <2>6, AllocEffect, RingBlocks
    <3>2. FirstSlot(b)' = FirstSlot(b)
      BY <3>1 DEF FirstSlot, After
    <3> QED
      BY <3>1, <3>2, HeldSame
  <2>7. CASE ReleaseSlot
    <3>1. /\ cpc = "release" /\ cpc' = "idle" /\ UNCHANGED <<size, data, tail, frontBlock>>
          /\ front' = [front EXCEPT ![frontBlock] = After(frontBlock, @)]
      BY <2>7 DEF ReleaseSlot, LeaveDequeue, ringVars
    <3>2. FirstSlot(b)' = FirstSlot(b)
      BY <1>0, <3>1, RingBlocks DEF FirstSlot, TypesInv, IndexTypes
    <3> QED
      BY <3>1, <3>2, HeldSame
  <2> QED
    BY <2>1, <2>2, <2>3, <2>4, <2>5, <2>6, <2>7
<1>3. \A b \in Ring : Active(b) /\ b # 0 => ItemsFrom'[b] = ItemsFrom[b]
  <2>1. 0 \notin Ring
    BY DEF Ring
  <2> QED
    BY <1>1, <1>2, <2>1, ItemsKept
<1>4. Active(frontBlock) /\ frontBlock # 0
  BY <1>0 DEF Active, Ring
<1> QED
  BY <1>0, <1>1, <1>3, <1>4 DEF Items

(* The first element of two sequences, one after the other *)
LEMMA HeadTailConcat ==
  ASSUME NEW V, NEW s \in Seq(V), NEW u \in Seq(V), s # <<>>
  PROVE  /\ s \o u # <<>> /\ Head(s \o u) = Head(s)
         /\ Tail(s) \o u = Tail(s \o u)
<1>1. /\ s \o u \in Seq(V) /\ Len(s \o u) = Len(s) + Len(u)
      /\ \A i \in 1 .. Len(s) + Len(u) :
           (s \o u)[i] = IF i <= Len(s) THEN s[i] ELSE u[i - Len(s)]
  BY ConcatProperties
<1>2. Len(s) \in Nat \ {0} /\ Len(u) \in Nat
  BY EmptySeq, LenProperties
<1>3. s \o u # <<>>
  BY <1>1, <1>2, EmptySeq
<1>4. /\ Tail(s) \in Seq(V) /\ Len(Tail(s)) = Len(s) - 1
      /\ \A i \in 1 .. Len(s) - 1 : Tail(s)[i] = s[i + 1]
  BY HeadTailProperties
<1>5. /\ Tail(s \o u) \in Seq(V) /\ Len(Tail(s \o u)) = Len(s) + Len(u) - 1
      /\ \A i \in 1 .. Len(s) + Len(u) - 1 : Tail(s \o u)[i] = (s \o u)[i + 1]
  BY <1>1, <1>3, HeadTailProperties
<1>6. /\ Tail(s) \o u \in Seq(V) /\ Len(Tail(s) \o u) = Len(s) - 1 + Len(u)
      /\ \A i \in 1 .. Len(s) - 1 + Len(u) :
           (Tail(s) \o u)[i] = IF i <= Len(s) - 1 THEN Tail(s)[i] ELSE u[i - (Len(s) - 1)]
  BY <1>4, ConcatProperties
<1>7. ASSUME NEW i \in 1 .. Len(s) - 1 + Len(u) PROVE (Tail(s) \o u)[i] = Tail(s \o u)[i]
  <2>1. i + 1 \in 1 .. Len(s) + Len(u) /\ i \in 1 .. Len(s) + Len(u) - 1
    BY <1>2
  <2>2. Tail(s \o u)[i] = IF i + 1 <= Len(s) THEN s[i + 1] ELSE u[i + 1 - Len(s)]
    BY <1>1, <1>5, <2>1
  <2>3. i + 1 - Len(s) = i - (Len(s) - 1) /\ (i + 1 <= Len(s) <=> i <= Len(s) - 1)
    BY <1>2
  <2> QED
    BY <1>2, <1>4, <1>6, <2>2, <2>3
<1>8. Tail(s) \o u = Tail(s \o u)
  BY <1>2, <1>5, <1>6, <1>7, SeqEqual
<1>9. Head(s \o u) = Head(s)
  BY <1>1, <1>2
<1> QED
  BY <1>3, <1>8, <1>9

(* The consumer moves on from an empty block.                              *)
LEMMA ItemsCross ==
  ASSUME QueueInv, OneCycle, QueueInv', OneCycle', AdvanceFrontBlock
  PROVE  Items' = Items
<1>0. TypesInv /\ frontBlock \in Ring /\ next[frontBlock] \in Ring
  BY RingBlocks, BlockFacts DEF QueueInv
<1>1. /\ cpc = "cross" /\ cpc' = "take" /\ frontBlock' = nextBlock
      /\ UNCHANGED <<blocks, size, next, front, tail, data, tailBlock>>
  BY DEF AdvanceFrontBlock, ringVars
<1>2. /\ frontBlock # tailBlock /\ front[frontBlock] = tail[frontBlock]
      /\ nextBlock = next[frontBlock]
  BY <1>1 DEF QueueInv, ConsumerInv
<1>3. \A b \in Ring : Held(b)' = Held(b)
  BY <1>1, HeldQuiet
<1>4. \A b \in Ring : Active(b) /\ b # 0 => ItemsFrom'[b] = ItemsFrom[b]
  <2>1. 0 \notin Ring /\ Ring' = Ring
    BY <1>1 DEF Ring
  <2> QED
    BY <1>1, <1>3, <2>1, ItemsKept
<1>5. Active(next[frontBlock]) /\ next[frontBlock] # 0
  BY <1>0, <1>2 DEF QueueInv, ActiveInv, Active, Ring
<1>6. Items' = ItemsFrom[next[frontBlock]]
  BY <1>0, <1>1, <1>2, <1>4, <1>5 DEF Items
<1>7. Items = Held(frontBlock) \o ItemsFrom[next[frontBlock]]
  BY <1>0, <1>2, ItemsFromRing DEF Items, QueueInv
<1>8. Held(frontBlock) = <<>>
  BY <1>0, <1>1, <1>2, HeldFacts DEF First
<1>9. ItemsFrom[next[frontBlock]] \in Seq(Value)
  BY <1>0, ItemsSeq DEF QueueInv
<1> QED
  BY <1>6, <1>7, <1>8, <1>9, ConcatEmptySeq

(* The consumer takes the first element.                                   *)
LEMMA ItemsTake ==
  ASSUME QueueInv, OneCycle, QueueInv', OneCycle', TakeElement
  PROVE  /\ Items # <<>> /\ Head(Items) = data[frontBlock][front[frontBlock]]
         /\ Items' = Tail(Items)
<1> DEFINE b == frontBlock
           rest == IF b = tailBlock THEN <<>> ELSE ItemsFrom[next[b]]
<1>0. TypesInv /\ b \in Ring /\ next[b] \in Ring /\ TypesInv'
  BY RingBlocks, BlockFacts DEF QueueInv
<1>1. /\ cpc = "take" /\ cpc' = "release" /\ op # "peek"
      /\ data' = [data EXCEPT ![b][front[b]] = NoElement]
      /\ UNCHANGED <<blocks, size, next, front, tail, frontBlock, tailBlock, nextBlock>>
  BY DEF TakeElement, ringVars
<1>2. front[b] # tail[b]
  BY <1>0, <1>1, EndFacts DEF QueueInv, ConsumerInv
<1>3. \A c \in Ring : c # b => Held(c)' = Held(c)
  <2> SUFFICES ASSUME NEW c \in Ring, c # b PROVE Held(c)' = Held(c)
    OBVIOUS
  <2>1. data'[c] = data[c]
    BY <1>0, <1>1, RingBlocks DEF TypesInv, IndexTypes
  <2>2. FirstSlot(c)' = FirstSlot(c)
    BY <1>1 DEF FirstSlot
  <2> QED
    BY <1>1, <2>1, <2>2, HeldSame
<1>4. \A c \in Ring : Active(c) /\ c # b => ItemsFrom'[c] = ItemsFrom[c]
  <2>1. Ring' = Ring
    BY <1>1 DEF Ring
  <2> QED
    BY <1>0, <1>1, <1>3, <2>1, ItemsKept
<1>5. Items = Held(b) \o rest
  BY <1>0, ItemsFromRing DEF Items, QueueInv
<1>6. Items' = Held(b)' \o rest
  <2>1. \A c \in Ring' : ItemsFrom'[c] = Held(c)' \o IF c = tailBlock' THEN <<>> ELSE ItemsFrom'[next'[c]]
    BY <1>0, ItemsFromNextRing
  <2>2. b \in Ring'
    BY <1>0, <1>1 DEF Ring
  <2>3. ItemsFrom'[b] = Held(b)' \o IF b = tailBlock THEN <<>> ELSE ItemsFrom'[next[b]]
    BY <1>0, <1>1, <2>1, <2>2
  <2>4. b # tailBlock => ItemsFrom'[next[b]] = ItemsFrom[next[b]]
    BY <1>0, <1>4 DEF QueueInv, ActiveInv, Active
  <2> QED
    BY <1>1, <2>3, <2>4 DEF Items
<1>7. rest \in Seq(Value)
  BY <1>0, ItemsSeq, EmptySeq DEF QueueInv
<1> DEFINE n == size[b]
           f == front[b]
           t == tail[b]
           row == data[b]
           new == data'[b]
<1>8. /\ n \in Nat \ {0, 1} /\ f \in 0 .. n - 1 /\ t \in 0 .. n - 1 /\ f # t
      /\ \A i \in 0 .. n - 1 : row[i] \in Value
  <2>1. n \in Nat \ {0, 1} /\ n <= TopSize /\ f \in 0 .. n - 1 /\ t \in 0 .. n - 1 /\ b \in Blocks
        /\ TopSize \in Nat
    BY <1>0, BlockFacts
  <2>2. data \in [Blocks -> [0 .. TopSize - 1 -> Value]]
    BY <1>0 DEF TypesInv, IndexTypes
  <2> QED
    BY <1>2, <2>1, <2>2
<1>9. \A i \in 0 .. n - 1 : new[i] = IF i = f THEN NoElement ELSE row[i]
  <2>1. WroteSlot(b, f, NoElement) /\ f \in 0 .. size[b] - 1
    BY <1>1, <1>8 DEF WroteSlot
  <2> HIDE DEF f, b
  <2> QED
    BY <1>0, <2>1, OneSlot
<1>10. Held(b) = Part(row, f, t, n)
  BY <1>0, <1>1, HeldFacts DEF First
<1>11. Held(b)' = Part(new, Step(f, n), t, n)
  <2>1. FirstSlot(b)' = Step(f, n)
    BY <1>0, <1>1, <1>8, Afters DEF FirstSlot, After
  <2> QED
    BY <1>1, <2>1 DEF Held, InBlock, Part
<1> HIDE DEF n, f, t, row, new
<1>12. Part(new, Step(f, n), t, n) = Part(row, Step(f, n), t, n)
  <2>1. Step(f, n) \in 0 .. n - 1
    BY <1>8, StepIndex
  <2>2. \A i \in 0 .. n - 1 : InRange(Step(f, n), t, i) => new[i] = row[i]
    BY <1>8, <1>9, RangeStep
  <2> QED
    BY <1>8, <2>1, <2>2, PartSame
<1>13. /\ Held(b) # <<>> /\ Head(Held(b)) = row[f] /\ Held(b)' = Tail(Held(b))
       /\ Held(b) \in Seq(Value)
  BY <1>0, <1>8, <1>10, <1>11, <1>12, PartTail, HeldFacts
<1> HIDE DEF rest, b
<1>14. /\ Held(b) \o rest # <<>> /\ Head(Held(b) \o rest) = Head(Held(b))
       /\ Tail(Held(b)) \o rest = Tail(Held(b) \o rest)
  BY <1>7, <1>13, HeadTailConcat
<1> QED
  BY <1>5, <1>6, <1>13, <1>14 DEF b, f, row

LEMMA ConcatAppend ==
  ASSUME NEW V, NEW s \in Seq(V), NEW u \in Seq(V), NEW e \in V
  PROVE  s \o Append(u, e) = Append(s \o u, e)
<1>1. <<e>> \in Seq(V) /\ s \o u \in Seq(V)
  BY ConcatProperties
<1>2. Append(u, e) = u \o <<e>> /\ Append(s \o u, e) = (s \o u) \o <<e>>
  BY <1>1, AppendIsConcat
<1> QED
  BY <1>1, <1>2, ConcatAssociative

(* The producer adds an element to tailBlock.                              *)
LEMMA ItemsPublish ==
  ASSUME QueueInv, OneCycle, QueueInv', OneCycle', PublishTail
  PROVE  element \in Elements /\ Items' = Append(Items, element)
<1> DEFINE b == tailBlock
           P == {c \in Ring : ItemsFrom'[c] = Append(ItemsFrom[c], element)}
<1>0. TypesInv /\ TypesInv' /\ b \in Ring /\ \A c \in Ring : next[c] \in Ring
  BY RingBlocks, BlockFacts DEF QueueInv
<1>1. /\ ppc = "publish" /\ tail' = [tail EXCEPT ![b] = After(b, tail[b])]
      /\ UNCHANGED <<blocks, size, next, front, data, frontBlock, tailBlock, cpc>>
  BY DEF PublishTail, ringVars, consumerVars
<1>2. element \in Elements /\ element \in Value
  BY <1>1 DEF QueueInv, TypesInv, CallTypes, Value
<1>3. \A c \in Ring : c # b => Held(c)' = Held(c)
  <2> SUFFICES ASSUME NEW c \in Ring, c # b PROVE Held(c)' = Held(c)
    OBVIOUS
  <2>1. tail'[c] = tail[c]
    BY <1>0, <1>1, RingBlocks DEF TypesInv, IndexTypes
  <2>2. FirstSlot(c)' = FirstSlot(c)
    BY <1>1 DEF FirstSlot, After
  <2> QED
    BY <1>1, <2>1, <2>2, HeldSame
<1> DEFINE n == size[b]
           f == First(b)
           t == tail[b]
           row == data[b]
<1>4. /\ n \in Nat \ {0, 1} /\ f \in 0 .. n - 1 /\ t \in 0 .. n - 1 /\ Step(t, n) # f
      /\ \A i \in 0 .. n - 1 : row[i] \in Value
      /\ row[t] = element
  <2>1. n \in Nat \ {0, 1} /\ n <= TopSize /\ t \in 0 .. n - 1 /\ b \in Blocks /\ TopSize \in Nat
    BY <1>0, BlockFacts
  <2>2. data \in [Blocks -> [0 .. TopSize - 1 -> Value]]
    BY <1>0 DEF TypesInv, IndexTypes
  <2>3. Step(t, n) # localFront[b] /\ row[t] = element
    BY <1>0, <1>1, <2>1, Afters DEF QueueInv, ProducerInv
  <2>4. f \in 0 .. n - 1 /\ Step(t, n) # f
    BY <1>0, <2>3, EndFacts
  <2> QED
    BY <2>1, <2>2, <2>3, <2>4
<1>5. Held(b) = Part(row, f, t, n) /\ Held(b) \in Seq(Value)
  BY <1>0, HeldFacts
<1>6. Held(b)' = Part(row, f, Step(t, n), n)
  <2>1. FirstSlot(b)' = f
    BY <1>0, <1>1, Afters DEF FirstSlot, After
  <2>2. tail'[b] = Step(t, n)
    BY <1>0, <1>1, <1>4, Afters, RingBlocks DEF TypesInv, IndexTypes
  <2> QED
    BY <1>1, <2>1, <2>2 DEF Held, InBlock, Part
<1> HIDE DEF n, f, t, row
<1>7. Held(b)' = Append(Held(b), element)
  BY <1>4, <1>5, <1>6, PartAppend
<1>8. \A c \in Ring : ItemsFrom[c] = Held(c) \o IF c = b THEN <<>> ELSE ItemsFrom[next[c]]
  BY <1>0, ItemsFromRing DEF QueueInv
<1>9. \A c \in Ring : ItemsFrom'[c] = Held(c)' \o IF c = b THEN <<>> ELSE ItemsFrom'[next[c]]
  <2>1. \A c \in Ring' : ItemsFrom'[c] = Held(c)' \o IF c = tailBlock' THEN <<>> ELSE ItemsFrom'[next'[c]]
    BY <1>0, ItemsFromNextRing
  <2>2. Ring' = Ring
    BY <1>1 DEF Ring
  <2> QED
    BY <1>1, <2>1, <2>2
<1>10. \A c \in Ring : Held(c) \in Seq(Value) /\ ItemsFrom[c] \in Seq(Value)
  BY <1>0, HeldFacts, ItemsSeq
<1>11. b \in P
  <2>1. Append(Held(b), element) \in Seq(Value)
    BY <1>2, <1>5, AppendProperties
  <2>2. ItemsFrom[b] = Held(b)
    BY <1>0, <1>5, <1>8, ConcatEmptySeq
  <2>3. ItemsFrom'[b] = Append(Held(b), element)
    <3>1. ItemsFrom'[b] = Append(Held(b), element) \o <<>>
      BY <1>0, <1>1, <1>7, <1>9
    <3> QED
      BY <2>1, <3>1, ConcatEmptySeq
  <2> QED
    BY <1>0, <2>2, <2>3
<1>12. ASSUME NEW c \in Ring, c # b, next[c] \in P PROVE c \in P
  <2>1. /\ ItemsFrom'[c] = Held(c) \o Append(ItemsFrom[next[c]], element)
        /\ ItemsFrom[c] = Held(c) \o ItemsFrom[next[c]]
    BY <1>3, <1>8, <1>9, <1>12
  <2>2. Held(c) \in Seq(Value) /\ ItemsFrom[next[c]] \in Seq(Value)
    BY <1>0, <1>10
  <2>3. ItemsFrom'[c] = Append(ItemsFrom[c], element)
    BY <1>2, <2>1, <2>2, ConcatAppend
  <2> QED
    BY <2>3
<1> HIDE DEF P
<1>13. Ring \subseteq P
  BY <1>0, <1>11, <1>12, Backwards
<1>14. frontBlock \in P
  BY <1>0, <1>13, RingBlocks
<1> QED
  BY <1>1, <1>2, <1>14 DEF P, Items

(* The producer moves on to a block in which the element is.               *)
LEMMA ItemsAdvance ==
  ASSUME QueueInv, OneCycle, QueueInv', OneCycle', AdvanceTailBlock
  PROVE  element \in Elements /\ Items' = Append(Items, element)
<1> DEFINE m == next[tailBlock]
           P == {c \in Ring : c = m \/ ItemsFrom'[c] = Append(ItemsFrom[c], element)}
<1>0. /\ TypesInv /\ TypesInv' /\ tailBlock \in Ring /\ m \in Ring
      /\ \A c \in Ring : next[c] \in Ring
  BY RingBlocks, BlockFacts DEF QueueInv
<1>1. /\ ppc = "advance" /\ tailBlock' = m
      /\ UNCHANGED <<blocks, size, next, front, tail, data, frontBlock, cpc>>
  BY DEF AdvanceTailBlock, ringVars, consumerVars
<1>2. element \in Elements /\ element \in Value
  BY <1>1 DEF QueueInv, TypesInv, CallTypes, Value
<1>3. m # frontBlock /\ tail[m] = After(m, front[m]) /\ data[m][front[m]] = element
  BY <1>1 DEF QueueInv, ProducerInv
<1>4. m # tailBlock
  <2>1. ~Active(m)
    BY <1>1, <1>3 DEF Active, Shown, Filling
  <2> QED
    BY <2>1 DEF QueueInv, ActiveInv
<1>5. \A c \in Ring : Held(c)' = Held(c)
  BY <1>1, HeldQuiet
<1>6. Held(m) = <<element>>
  <2> DEFINE n == size[m]
             f == front[m]
             row == data[m]
  <2>1. n \in Nat \ {0, 1} /\ n <= TopSize /\ f \in 0 .. n - 1 /\ m \in Blocks /\ TopSize \in Nat
    BY <1>0, BlockFacts
  <2>2. data \in [Blocks -> [0 .. TopSize - 1 -> Value]]
    BY <1>0 DEF TypesInv, IndexTypes
  <2>3. Step(f, n) # f /\ \A i \in 0 .. n - 1 : row[i] \in Value
    BY <2>1, <2>2, StepIndex
  <2>4. Held(m) = Part(row, f, Step(f, n), n)
    BY <1>0, <1>3, <2>1, HeldFacts, Afters DEF First
  <2> HIDE DEF m, n, f, row
  <2>5. Part(row, f, Step(f, n), n) = Append(Part(row, f, f, n), row[f])
    BY <2>1, <2>3, PartAppend
  <2>6. Part(row, f, f, n) = <<>>
    BY <2>1, <2>3, PartSeq
  <2> QED
    BY <1>3, <2>4, <2>5, <2>6 DEF row, f
<1>8. \A c \in Ring : ItemsFrom[c] = Held(c) \o IF c = tailBlock THEN <<>> ELSE ItemsFrom[next[c]]
  BY <1>0, ItemsFromRing DEF QueueInv
<1>9. \A c \in Ring : ItemsFrom'[c] = Held(c) \o IF c = m THEN <<>> ELSE ItemsFrom'[next[c]]
  <2>1. \A c \in Ring' : ItemsFrom'[c] = Held(c)' \o IF c = tailBlock' THEN <<>> ELSE ItemsFrom'[next'[c]]
    BY <1>0, ItemsFromNextRing
  <2>2. Ring' = Ring
    BY <1>1 DEF Ring
  <2> QED
    BY <1>1, <1>5, <2>1, <2>2
<1>10. \A c \in Ring : Held(c) \in Seq(Value) /\ ItemsFrom[c] \in Seq(Value)
  BY <1>0, HeldFacts, ItemsSeq
<1>11. tailBlock \in P
  <2>1. ItemsFrom[tailBlock] = Held(tailBlock)
    BY <1>0, <1>8, <1>10, ConcatEmptySeq
  <2>2. ItemsFrom'[m] = <<element>>
    BY <1>0, <1>6, <1>9, <1>10, ConcatEmptySeq
  <2>3. ItemsFrom'[tailBlock] = Held(tailBlock) \o <<element>>
    BY <1>0, <1>4, <1>9, <2>2
  <2>4. Append(Held(tailBlock), element) = Held(tailBlock) \o <<element>>
    BY <1>0, <1>2, <1>10, AppendIsConcat
  <2> QED
    BY <1>0, <2>1, <2>3, <2>4
<1>12. ASSUME NEW c \in Ring, c # tailBlock, next[c] \in P PROVE c \in P
  <2>0. CASE c = m
    BY <2>0
  <2>1. CASE c # m
    <3>1. next[c] # m
      BY <1>0, <1>12 DEF TypesInv, BlocksOK
    <3>2. /\ ItemsFrom'[c] = Held(c) \o Append(ItemsFrom[next[c]], element)
          /\ ItemsFrom[c] = Held(c) \o ItemsFrom[next[c]]
      BY <1>8, <1>9, <1>12, <2>1, <3>1
    <3>3. Held(c) \in Seq(Value) /\ ItemsFrom[next[c]] \in Seq(Value)
      BY <1>0, <1>10
    <3>4. ItemsFrom'[c] = Append(ItemsFrom[c], element)
      BY <1>2, <3>2, <3>3, ConcatAppend
    <3> QED
      BY <3>4
  <2> QED
    BY <2>0, <2>1
<1> HIDE DEF P
<1>13. Ring \subseteq P
  BY <1>0, <1>11, <1>12, Backwards
<1>14. frontBlock \in P
  BY <1>0, <1>13, RingBlocks
<1> QED
  BY <1>1, <1>2, <1>3, <1>14 DEF P, Items
-----------------------------------------------------------------------------
(***************************************************************************)
(* The queue is a FIFO queue                                               *)
(***************************************************************************)
LEMMA FirstItem ==
  ASSUME QueueInv, OneCycle, NEW b \in Ring, cpc # "release", front[b] # tail[b]
  PROVE  ItemsFrom[b] # <<>> /\ Head(ItemsFrom[b]) = data[b][front[b]]
<1> DEFINE n == size[b]
           f == front[b]
           t == tail[b]
           row == data[b]
           rest == IF b = tailBlock THEN <<>> ELSE ItemsFrom[next[b]]
<1>0. TypesInv /\ next[b] \in Ring
  BY BlockFacts DEF QueueInv
<1>1. /\ n \in Nat \ {0, 1} /\ f \in 0 .. n - 1 /\ t \in 0 .. n - 1 /\ f # t
      /\ \A i \in 0 .. n - 1 : row[i] \in Value
  <2>1. n \in Nat \ {0, 1} /\ n <= TopSize /\ f \in 0 .. n - 1 /\ t \in 0 .. n - 1 /\ b \in Blocks
        /\ TopSize \in Nat
    BY <1>0, BlockFacts
  <2>2. data \in [Blocks -> [0 .. TopSize - 1 -> Value]]
    BY <1>0 DEF TypesInv, IndexTypes
  <2> QED
    BY <2>1, <2>2
<1>2. Held(b) = Part(row, f, t, n) /\ Held(b) \in Seq(Value)
  BY <1>0, HeldFacts DEF First
<1>3. ItemsFrom[b] = Held(b) \o rest
  BY <1>0, ItemsFromRing
<1>4. rest \in Seq(Value)
  BY <1>0, ItemsSeq, EmptySeq
<1> HIDE DEF n, f, t, row, rest
<1>5. Held(b) # <<>> /\ Head(Held(b)) = row[f]
  BY <1>1, <1>2, PartTail
<1>6. Held(b) \o rest # <<>> /\ Head(Held(b) \o rest) = Head(Held(b))
  BY <1>2, <1>4, <1>5, HeadTailConcat
<1> QED
  BY <1>3, <1>5, <1>6 DEF row, f

(* peek finds an element, the first one.                                   *)
LEMMA ItemsPeek ==
  ASSUME QueueInv, OneCycle, PeekElement
  PROVE  Items # <<>> /\ result' = Head(Items)
<1>0. TypesInv /\ frontBlock \in Ring /\ next[frontBlock] \in Ring
  BY RingBlocks, BlockFacts DEF QueueInv
<1>1. /\ cpc = "take" /\ cpc # "release"
      /\ LET b == IF nextBlock = 0 THEN frontBlock ELSE nextBlock IN result' = data[b][front[b]]
  BY DEF PeekElement
<1>2. CASE nextBlock = 0
  <2>1. front[frontBlock] # tail[frontBlock]
    BY <1>0, <1>1, <1>2, EndFacts DEF QueueInv, ConsumerInv
  <2> QED
    BY <1>0, <1>1, <1>2, <2>1, FirstItem DEF Items
<1>3. CASE nextBlock # 0
  <2>1. /\ frontBlock # tailBlock /\ front[frontBlock] = tail[frontBlock]
        /\ nextBlock = next[frontBlock]
    BY <1>3 DEF QueueInv, ConsumerInv
  <2>2. front[nextBlock] # tail[nextBlock]
    BY <1>0, <2>1 DEF QueueInv, ActiveInv, Active, Shown
  <2>3. ItemsFrom[nextBlock] # <<>> /\ Head(ItemsFrom[nextBlock]) = data[nextBlock][front[nextBlock]]
    BY <1>0, <1>1, <2>1, <2>2, FirstItem
  <2>4. Items = Held(frontBlock) \o ItemsFrom[nextBlock]
    BY <1>0, <2>1, ItemsFromRing DEF Items
  <2>5. Held(frontBlock) = <<>>
    BY <1>0, <1>1, <2>1, HeldFacts DEF First
  <2>6. Items = ItemsFrom[nextBlock]
    BY <1>0, <2>1, <2>4, <2>5, ItemsSeq, ConcatEmptySeq
  <2> QED
    BY <1>1, <1>3, <2>3, <2>6
<1> QED
  BY <1>2, <1>3

(* A consumer that finds frontBlock empty while there is an element goes   *)
(* on: tailBlock is another block.                                         *)
LEMMA NothingInFront ==
  ASSUME QueueInv, OneCycle, cpc # "release", front[frontBlock] = tail[frontBlock],
         frontBlock = tailBlock
  PROVE  Items = <<>>
<1>0. TypesInv /\ frontBlock \in Ring
  BY RingBlocks DEF QueueInv
<1>1. Held(frontBlock) = <<>>
  BY <1>0, HeldFacts DEF First
<1>2. Items = Held(frontBlock) \o <<>>
  BY <1>0, ItemsFromRing DEF Items
<1> QED
  BY <1>1, <1>2, EmptySeq, ConcatEmptySeq

(* What a step does to the elements *)
LEMMA ItemsStep ==
  ASSUME QueueInv, OneCycle, QueueInv', OneCycle', [Next]_vars
  PROVE  \/ PublishTail \/ AdvanceTailBlock \/ TakeElement
         \/ Items' = Items
BY ItemsQuiet, ItemsCross DEF Next, ProducerStep, ConsumerStep

LEMMA AnswerStep ==
  ASSUME QueueInv, OneCycle, QueueInv', OneCycle', AnswerInv, [Next]_vars
  PROVE  AnswerInv'
<1>0. TypesInv /\ frontBlock \in Ring
  BY RingBlocks DEF QueueInv
<1>1. CASE PublishTail \/ AdvanceTailBlock
  <2>1. element \in Elements /\ Items' = Append(Items, element)
    BY <1>1, ItemsPublish, ItemsAdvance
  <2>2. Items \in Seq(Value) /\ element \in Value
    BY <1>0, <2>1, ItemsSeq DEF Items, Value
  <2>3. Items' # <<>>
    BY <2>1, <2>2, AppendProperties
  <2>4. CASE PublishTail
    BY <2>3, <2>4 DEF PublishTail, consumerVars, AnswerInv
  <2>5. CASE AdvanceTailBlock
    <3>1. ppc = "advance" /\ tailBlock' = next[tailBlock] /\ next[tailBlock] # frontBlock
          /\ UNCHANGED <<frontBlock, cpc, sawEmpty>>
      BY <2>5 DEF AdvanceTailBlock, consumerVars, QueueInv, ProducerInv
    <3> QED
      BY <2>3, <3>1 DEF AnswerInv
  <2> QED
    BY <1>1, <2>4, <2>5
<1>2. CASE TakeElement
  BY <1>2 DEF TakeElement, AnswerInv
<1>3. CASE Items' = Items
  <2>1. CASE CheckFrontBlock
    <3>1. cpc = "check" /\ UNCHANGED <<frontBlock, tailBlock, sawEmpty>>
          /\ cpc' \in {"take", "look"}
          /\ (cpc' = "look" => front[frontBlock] = tail[frontBlock])
      BY <2>1 DEF CheckFrontBlock
    <3>2. cpc' = "look" /\ ~sawEmpty => frontBlock # tailBlock
      BY <3>1, NothingInFront DEF AnswerInv
    <3> QED
      BY <3>1, <3>2 DEF AnswerInv
  <2>2. CASE \E operation \in {"dequeue", "pop", "peek"} : BeginDequeue(operation)
    BY <1>3, <2>2 DEF BeginDequeue, AnswerInv
  <2>3. CASE LookBeyond \/ Recheck \/ LoadNextBlock \/ AdvanceFrontBlock \/ ReleaseSlot \/ PeekElement
    BY <2>3 DEF LookBeyond, Recheck, LoadNextBlock, AdvanceFrontBlock, ReleaseSlot, PeekElement,
       LeaveDequeue, AnswerInv
  <2>4. CASE \/ UNCHANGED vars
             \/ \E e \in Elements, alloc \in BOOLEAN : BeginEnqueue(e, alloc)
             \/ CheckTailBlock \/ WriteElement \/ ChooseBlock \/ LoadNextFront \/ WriteNextBlock
             \/ PublishNextTail \/ AllocFails \/ AllocBlock
    <3>1. UNCHANGED <<cpc, sawEmpty, frontBlock, tailBlock>>
      BY <2>4 DEF vars, consumerVars, BeginEnqueue, CheckTailBlock, WriteElement, ChooseBlock,
         LoadNextFront, WriteNextBlock, PublishNextTail, AllocFails, AllocBlock
    <3> QED
      BY <1>3, <3>1 DEF AnswerInv
  <2> QED
    BY <1>1, <1>2, <2>1, <2>2, <2>3, <2>4 DEF Next, ProducerStep, ConsumerStep
<1> QED
  BY <1>1, <1>2, <1>3, ItemsStep

FullInv == QueueInv /\ OneCycle /\ AnswerInv /\ occupied \in Nat

LEMMA StartEmpty == Init => FullInv /\ Items = <<>>
<1> SUFFICES ASSUME Init PROVE FullInv /\ Items = <<>>
  OBVIOUS
<1>1. QueueInv /\ OneCycle
  BY QueueStart, CycleStart
<1>2. /\ cpc = "idle" /\ occupied = 0 /\ frontBlock = 1 /\ tailBlock = 1
      /\ front = [b \in Blocks |-> 0] /\ tail = [b \in Blocks |-> 0]
  BY DEF Init
<1>3. front[frontBlock] = tail[frontBlock]
  BY <1>1, <1>2, RingBlocks DEF QueueInv
<1>4. Items = <<>>
  BY <1>1, <1>2, <1>3, NothingInFront
<1> QED
  BY <1>1, <1>2, <1>4 DEF FullInv, AnswerInv

LEMMA FullStep == FullInv /\ [Next]_vars => FullInv'
<1> SUFFICES ASSUME FullInv, [Next]_vars PROVE FullInv'
  OBVIOUS
<1>1. QueueInv' /\ OneCycle'
  BY QueueStep, CycleStep DEF FullInv
<1>2. AnswerInv'
  BY <1>1, AnswerStep DEF FullInv
<1>3. Occupied \in Nat
  <2>1. Items \in Seq(Value)
    BY ItemsSeq, RingBlocks DEF Items, FullInv, QueueInv
  <2>2. Len(Items) \in Nat
    BY <2>1, LenProperties
  <2> QED
    BY <2>2 DEF Occupied
<1>4. occupied' \in {occupied, 0, Occupied}
  BY DEF Next, ProducerStep, ConsumerStep, vars, producerVars, LeaveEnqueue, BeginEnqueue,
     CheckTailBlock, WriteElement, PublishTail, ChooseBlock, LoadNextFront, WriteNextBlock,
     PublishNextTail, AllocFails, AllocBlock, AdvanceTailBlock, BeginDequeue, CheckFrontBlock,
     LookBeyond, Recheck, LoadNextBlock, AdvanceFrontBlock, TakeElement, ReleaseSlot, PeekElement
<1> QED
  BY <1>1, <1>2, <1>3, <1>4 DEF FullInv

LEMMA FullInvariant == Spec => []FullInv
BY StartEmpty, FullStep, PTL DEF Spec

(***************************************************************************)
(* Every variable keeps its type: no index leaves its block, and no block  *)
(* is larger than the constructor's or MAX_BLOCK_SIZE.                     *)
(***************************************************************************)
THEOREM QueueTypes == Spec => []TypeOK
<1>1. FullInv => TypeOK
  <2> SUFFICES ASSUME FullInv PROVE TypeOK
    OBVIOUS
  <2>1. RingTypes /\ IndexTypes /\ CallTypes /\ occupied \in Nat
    BY DEF FullInv, QueueInv, TypesInv
  <2>2. largestBlkSz \in 1 .. TopSize
    BY <2>1, InitialSizes DEF RingTypes
  <2> QED
    BY <2>1, <2>2 DEF TypeOK, RingTypes, IndexTypes, CallTypes, Ring, Value
<1> QED
  BY <1>1, FullInvariant, PTL

(***************************************************************************)
(* The ring of blocks implements a FIFO queue: what the consumer takes is  *)
(* the oldest element, what it peeks at too, an element is in the queue    *)
(* once the producer has published it, and the consumer is told that there *)
(* is none only if there was none when its call began.                     *)
(***************************************************************************)
THEOREM QueueIsFifo == Spec => ImplementsFifoQueue
<1>1. Init => Abstract!Init
  BY StartEmpty DEF Init, Abstract!Init
<1>2. FullInv /\ FullInv' /\ [Next]_vars => [Abstract!Next]_Abstract!vars
  <2> SUFFICES ASSUME FullInv, FullInv', [Next]_vars PROVE [Abstract!Next]_Abstract!vars
    OBVIOUS
  <2>0. QueueInv /\ OneCycle /\ QueueInv' /\ OneCycle' /\ AnswerInv
    BY DEF FullInv
  <2>1. CASE PublishTail \/ AdvanceTailBlock
    <3>1. element \in Elements /\ Items' = Append(Items, element)
      BY <2>0, <2>1, ItemsPublish, ItemsAdvance
    <3>2. UNCHANGED <<cpc, result, sawEmpty>>
      BY <2>1 DEF PublishTail, AdvanceTailBlock, consumerVars
    <3>3. Abstract!Enqueue
      BY <3>1, <3>2 DEF Abstract!Enqueue
    <3> QED
      BY <3>3 DEF Abstract!Next
  <2>2. CASE TakeElement
    <3>1. /\ Items # <<>> /\ Head(Items) = data[frontBlock][front[frontBlock]]
          /\ Items' = Tail(Items)
      BY <2>0, <2>2, ItemsTake
    <3>2. /\ cpc = "take" /\ cpc' = "release" /\ UNCHANGED sawEmpty
          /\ result' \in {data[frontBlock][front[frontBlock]], NoElement}
      BY <2>2 DEF TakeElement
    <3>3. Abstract!Dequeue
      BY <3>1, <3>2 DEF Abstract!Dequeue
    <3> QED
      BY <3>3 DEF Abstract!Next
  <2>3. CASE PeekElement
    <3>1. Items # <<>> /\ result' = Head(Items) /\ Items' = Items
      BY <2>0, <2>3, ItemsPeek, ItemsQuiet
    <3>2. cpc = "take" /\ cpc' = "idle" /\ sawEmpty' = FALSE
      BY <2>3 DEF PeekElement, LeaveDequeue
    <3>3. Abstract!Peek
      BY <3>1, <3>2 DEF Abstract!Peek, Abstract!Leave
    <3> QED
      BY <3>3 DEF Abstract!Next
  <2>4. CASE \E operation \in {"dequeue", "pop", "peek"} : BeginDequeue(operation)
    <3>1. Items' = Items
      BY <2>0, <2>4, ItemsQuiet
    <3>2. cpc = "idle" /\ cpc' = "check" /\ result' = NoElement /\ sawEmpty' = (Items = <<>>)
      BY <2>4 DEF BeginDequeue
    <3>3. Abstract!Begin
      BY <3>1, <3>2 DEF Abstract!Begin
    <3> QED
      BY <3>3 DEF Abstract!Next
  <2>5. CASE LookBeyond
    <3>1. Items' = Items
      BY <2>0, <2>5, ItemsQuiet
    <3>2. CASE frontBlock # tailBlock /\ cpc' = "recheck" /\ UNCHANGED <<op, sawEmpty>>
      <4>1. cpc = "look" /\ UNCHANGED result
        BY <2>5 DEF LookBeyond
      <4> QED
        BY <3>1, <3>2, <4>1 DEF Abstract!vars
    <3>3. CASE frontBlock = tailBlock /\ LeaveDequeue
      <4>1. cpc = "look" /\ cpc' = "idle" /\ sawEmpty' = FALSE /\ UNCHANGED result
        BY <2>5, <3>3 DEF LookBeyond, LeaveDequeue
      <4>2. sawEmpty
        BY <2>0, <3>3, <4>1 DEF AnswerInv
      <4>3. Abstract!FindNone
        BY <3>1, <4>1, <4>2 DEF Abstract!FindNone, Abstract!Leave
      <4> QED
        BY <4>3 DEF Abstract!Next
    <3> QED
      BY <2>5, <3>2, <3>3 DEF LookBeyond
  <2>6. CASE ReleaseSlot
    <3>1. Items' = Items
      BY <2>0, <2>6, ItemsQuiet
    <3>2. cpc = "release" /\ cpc' = "idle" /\ sawEmpty' = FALSE /\ UNCHANGED result
      BY <2>6 DEF ReleaseSlot, LeaveDequeue
    <3>3. Abstract!Return
      BY <3>1, <3>2 DEF Abstract!Return, Abstract!Leave
    <3> QED
      BY <3>3 DEF Abstract!Next
  <2>7. CASE CheckFrontBlock \/ Recheck \/ LoadNextBlock \/ AdvanceFrontBlock
    <3>1. Items' = Items
      BY <2>0, <2>7, ItemsQuiet, ItemsCross
    <3>2. /\ cpc \notin {"idle", "release"} /\ cpc' \notin {"idle", "release"}
          /\ UNCHANGED <<result, sawEmpty>>
      BY <2>7 DEF CheckFrontBlock, Recheck, LoadNextBlock, AdvanceFrontBlock
    <3> QED
      BY <3>1, <3>2 DEF Abstract!vars
  <2>8. CASE \/ UNCHANGED vars
             \/ \E e \in Elements, alloc \in BOOLEAN : BeginEnqueue(e, alloc)
             \/ CheckTailBlock \/ WriteElement \/ ChooseBlock \/ LoadNextFront \/ WriteNextBlock
             \/ PublishNextTail \/ AllocFails \/ AllocBlock
    <3>1. Items' = Items
      BY <2>0, <2>8, ItemsQuiet
    <3>2. UNCHANGED <<cpc, result, sawEmpty>>
      BY <2>8 DEF vars, consumerVars, BeginEnqueue, CheckTailBlock, WriteElement, ChooseBlock,
         LoadNextFront, WriteNextBlock, PublishNextTail, AllocFails, AllocBlock
    <3> QED
      BY <3>1, <3>2 DEF Abstract!vars
  <2> QED
    BY <2>1, <2>2, <2>3, <2>4, <2>5, <2>6, <2>7, <2>8 DEF Next, ProducerStep, ConsumerStep
<1> QED
  BY <1>1, <1>2, FullInvariant, PTL DEF Spec, ImplementsFifoQueue, Abstract!Spec
-----------------------------------------------------------------------------
(***************************************************************************)
(* There is room for MaxSize elements                                      *)
(***************************************************************************)
FullBlock(b) == Step(tail[b], size[b]) = front[b]

(* The blocks the producer has left are full until the consumer gets       *)
(* there, and tailBlock is when the producer looks for another one.        *)
RoomInv ==
  /\ blocks >= InitialBlockCount /\ largestBlkSz >= InitialBlockSize
  /\ \A b \in Ring : size[b] >= InitialBlockSize
  /\ \A b \in Ring : Active(b) /\ b # frontBlock /\ b # tailBlock => FullBlock(b)
  /\ ppc \in {"full", "reuse", "writeNext", "publishNext", "alloc", "advance"}
       /\ tailBlock # frontBlock => FullBlock(tailBlock)
  /\ ppc = "full" /\ next[tailBlock] = frontBlock => occupied >= MaxSize

Room == InitialBlockSize - 1

LEMMA MoreTimes ==
  ASSUME NEW a \in Nat, NEW b \in Nat, NEW d \in Nat, a <= b
  PROVE  a * d <= b * d
<1>1. PICK c \in Nat : b = a + c
  <2>1. b - a \in Nat /\ b = a + (b - a)
    OBVIOUS
  <2> QED
    BY <2>1
<1>2. (a + c) * d = a * d + c * d /\ a * d \in Nat /\ c * d \in Nat
  OBVIOUS
<1> QED
  BY <1>1, <1>2

(* What the constructor makes holds MaxSize elements, one block aside.     *)
LEMMA ConstructorRoom ==
  ASSUME NEW n \in Nat, n >= InitialBlockCount
  PROVE  /\ Room \in Nat \ {0}
         /\ n = 1 => Room >= MaxSize
         /\ n >= 2 => (n - 1) * Room >= MaxSize
<1>1. /\ MaxSize \in Nat \ {0} /\ MAX_BLOCK_SIZE \in Nat \ {0, 1}
      /\ InitialBlockSize \in Nat \ {0, 1} /\ InitialBlockCount \in Nat
  BY QueueAssumption, InitialSizes
<1>2. CASE ~SeveralBlocks
  <2>1. CeilToPow2(MaxSize + 1) \in MaxSize + 1 .. 2 * (MaxSize + 1) - 1
    <3>1. MaxSize + 1 \in Nat \ {0}
      BY <1>1
    <3> QED
      BY <3>1, CeilIsPow2
  <2>2. Room \in Nat \ {0} /\ Room >= MaxSize
    BY <1>1, <1>2, <2>1 DEF Room, InitialBlockSize
  <2>3. n >= 2 => 1 * Room <= (n - 1) * Room
    <3>1. n >= 2 => n - 1 \in Nat /\ 1 <= n - 1
      OBVIOUS
    <3> QED
      BY <2>2, <3>1, MoreTimes
  <2>4. 1 * Room = Room
    BY <2>2
  <2>5. n >= 2 => (n - 1) * Room \in Nat
    <3>1. n >= 2 => n - 1 \in Nat
      OBVIOUS
    <3> QED
      BY <2>2, <3>1
  <2> QED
    BY <1>1, <2>2, <2>3, <2>4, <2>5
<1>3. CASE SeveralBlocks
  <2> DEFINE d == MAX_BLOCK_SIZE - 1
             a == MaxSize + 2 * MAX_BLOCK_SIZE - 3
             q == a \div d
  <2>1. Room = d /\ d \in Nat \ {0} /\ a \in Nat /\ a = MaxSize + 2 * d - 1 /\ n >= q
    BY <1>1, <1>3 DEF Room, InitialBlockSize, InitialBlockCount
  <2> HIDE DEF a, d
  <2>2. q \in Nat /\ a = d * q + (a % d) /\ a % d \in 0 .. d - 1
    BY <2>1
  <2> HIDE DEF q
  <2>3. d * q = q * d /\ q * d \in Nat
    BY <2>1, <2>2
  <2>4. q * d >= MaxSize + d
    BY <1>1, <2>1, <2>2, <2>3
  <2>5. q >= 2
    <3>1. CASE q = 0
      BY <1>1, <2>1, <2>4, <3>1
    <3>2. CASE q = 1
      BY <1>1, <2>1, <2>4, <3>2
    <3> QED
      BY <2>2, <3>1, <3>2
  <2>6. (q - 1) * d = q * d - d
    BY <2>1, <2>2
  <2>7. (q - 1) * d <= (n - 1) * d
    <3>1. q - 1 \in Nat /\ n - 1 \in Nat /\ q - 1 <= n - 1
      BY <2>1, <2>2, <2>5
    <3> QED
      BY <2>1, <3>1, MoreTimes
  <2>8. (n - 1) * d \in Int
    BY <2>1
  <2> QED
    BY <1>1, <2>1, <2>2, <2>3, <2>4, <2>5, <2>6, <2>7, <2>8
<1> QED
  BY <1>2, <1>3

(* Every block is the next of one. *)
LEMMA Predecessor ==
  ASSUME TypesInv, OneCycle, NEW b \in Ring
  PROVE  \E c \in Ring : next[c] = b
<1> DEFINE S == {next[c] : c \in Ring}
<1>1. S \subseteq Ring /\ S # {}
  BY BlockFacts
<1>2. \A c \in S : next[c] \in S
  BY <1>1
<1> HIDE DEF S
<1>3. S = Ring
  BY <1>1, <1>2 DEF OneCycle
<1> QED
  BY <1>3 DEF S

(* When the producer has come round to frontBlock every block has elements *)
LEMMA AllActive ==
  ASSUME QueueInv, OneCycle, next[tailBlock] = frontBlock, NEW b \in Ring
  PROVE  Active(b)
<1> DEFINE S == {c \in Ring : ~Active(c)}
<1>1. TypesInv /\ tailBlock \in Ring /\ Active(tailBlock) /\ \A c \in Ring : next[c] \in Ring
  BY RingBlocks, BlockFacts DEF QueueInv, ActiveInv
<1>2. ASSUME NEW c \in S PROVE next[c] \in S
  <2>1. c # tailBlock /\ next[c] # frontBlock
    BY <1>1 DEF TypesInv, BlocksOK
  <2>2. ~Shown(next[c])
    BY <2>1 DEF QueueInv, ActiveInv
  <2> QED
    BY <1>1, <2>1, <2>2 DEF Active
<1>3. S \subseteq Ring /\ tailBlock \notin S
  BY <1>1
<1> HIDE DEF S
<1>4. S = {}
  BY <1>1, <1>2, <1>3 DEF OneCycle
<1> QED
  BY <1>4 DEF S

(* D is a run of blocks, from b to tailBlock, with that many elements.     *)
RunOf(D, b) ==
  /\ D \subseteq Ring /\ b \in D /\ tailBlock \in D
  /\ \A c \in D \ {tailBlock} : next[c] \in D
  /\ \A c \in D : next[c] = b => b = frontBlock
  /\ Cardinality(D \ {frontBlock}) * Room <= Len(ItemsFrom[b])

LEMMA FiniteRing == TypesInv => IsFiniteSet(Ring) /\ Cardinality(Ring) = blocks /\ blocks \in Nat \ {0}
<1>1. TypesInv => blocks \in Nat \ {0}
  BY QueueAssumption DEF TypesInv, RingTypes, Blocks
<1> QED
  BY <1>1, FS_Interval DEF Ring

LEMMA RunFromFront ==
  ASSUME QueueInv, OneCycle, RoomInv, next[tailBlock] = frontBlock, tailBlock # frontBlock,
         FullBlock(tailBlock)
  PROVE  (blocks - 1) * Room <= Len(Items)
<1>0. /\ TypesInv /\ tailBlock \in Ring /\ frontBlock \in Ring
      /\ \A c \in Ring : next[c] \in Ring
      /\ \A c, d \in Ring : next[c] = next[d] => c = d
  BY RingBlocks, BlockFacts DEF QueueInv, TypesInv, BlocksOK
<1>1. Room \in Nat \ {0} /\ IsFiniteSet(Ring) /\ Cardinality(Ring) = blocks /\ blocks \in Nat \ {0}
  BY <1>0, ConstructorRoom, FiniteRing DEF RoomInv
<1>2. ASSUME NEW b \in Ring, b # frontBlock
      PROVE  Held(b) \in Seq(Value) /\ Len(Held(b)) \in Nat /\ Room <= Len(Held(b))
  <2>1. FullBlock(b) /\ First(b) = front[b]
    BY <1>2, AllActive DEF RoomInv, First
  <2> DEFINE n == size[b]
             f == front[b]
             t == tail[b]
             row == data[b]
  <2>2. /\ n \in Nat \ {0, 1} /\ n <= TopSize /\ f \in 0 .. n - 1 /\ t \in 0 .. n - 1 /\ b \in Blocks
        /\ TopSize \in Nat
    BY <1>0, BlockFacts
  <2>3. data \in [Blocks -> [0 .. TopSize - 1 -> Value]]
    BY <1>0 DEF TypesInv, IndexTypes
  <2>4. \A i \in 0 .. n - 1 : row[i] \in Value
    BY <2>2, <2>3
  <2>5. n >= InitialBlockSize /\ Step(t, n) = f /\ Held(b) = Part(row, f, t, n)
    BY <1>0, <2>1, HeldFacts DEF RoomInv, FullBlock
  <2> HIDE DEF n, f, t, row
  <2>6. Held(b) \in Seq(Value) /\ Len(Held(b)) = n - 1
    <3>1. Part(row, f, t, n) \in Seq(Value) /\ Len(Part(row, f, t, n)) = Gap(f, t, n)
      BY <2>2, <2>4, PartSeq
    <3>2. Step(t, n) = f /\ n \in Nat \ {0, 1} /\ f \in 0 .. n - 1 /\ t \in 0 .. n - 1
      BY <2>2, <2>5
    <3>3. Gap(f, t, n) = n - 1
      BY ONLY <3>2, GapStep
    <3> QED
      BY <2>5, <3>1, <3>3
  <2> QED
    BY <2>2, <2>5, <2>6, InitialSizes DEF Room
<1>3. \A b \in Ring : ItemsFrom[b] \in Seq(Value) /\ Len(ItemsFrom[b]) \in Nat /\ Held(b) \in Seq(Value)
                      /\ Len(Held(b)) \in Nat
  <2>1. \A b \in Ring : ItemsFrom[b] \in Seq(Value) /\ Held(b) \in Seq(Value)
    BY <1>0, ItemsSeq, HeldFacts
  <2> QED
    BY <2>1, LenProperties
<1>4. \A b \in Ring : ItemsFrom[b] = Held(b) \o IF b = tailBlock THEN <<>> ELSE ItemsFrom[next[b]]
  BY <1>0, ItemsFromRing
<1>5. RunOf({tailBlock}, tailBlock)
  <2>1. ItemsFrom[tailBlock] = Held(tailBlock)
    BY <1>0, <1>3, <1>4, ConcatEmptySeq
  <2>2. Cardinality({tailBlock} \ {frontBlock}) = 1
    <3>1. {tailBlock} \ {frontBlock} = {tailBlock}
      OBVIOUS
    <3>2. Cardinality({tailBlock}) = 1
      BY FS_Singleton
    <3> QED
      BY <3>1, <3>2
  <2>3. 1 * Room = Room
    BY <1>1
  <2>4. Cardinality({tailBlock} \ {frontBlock}) * Room <= Len(ItemsFrom[tailBlock])
    <3>1. Room <= Len(ItemsFrom[tailBlock])
      BY <1>0, <1>2, <2>1
    <3> QED
      BY <2>2, <2>3, <3>1
  <2> QED
    BY <1>0, <2>4 DEF RunOf
<1> DEFINE Left == {Cardinality(Ring \ D) : D \in {E \in SUBSET Ring : \E b : RunOf(E, b)}}
<1>6. Left \subseteq Nat /\ Left # {}
  <2>1. \A D \in SUBSET Ring : Cardinality(Ring \ D) \in Nat
    BY <1>1, FS_Subset, FS_CardinalityType
  <2>2. {tailBlock} \in SUBSET Ring
    BY <1>0
  <2> QED
    BY <1>5, <2>1, <2>2
<1>7. PICK x \in Left : \A y \in Left : x <= y
  BY <1>6, LeastNatural
<1>8. PICK D \in SUBSET Ring : (\E b : RunOf(D, b)) /\ x = Cardinality(Ring \ D)
  OBVIOUS
<1>9. PICK b : RunOf(D, b)
  BY <1>8
<1>10. /\ b \in D /\ b \in Ring /\ tailBlock \in D
       /\ \A c \in D \ {tailBlock} : next[c] \in D
       /\ \A c \in D : next[c] = b => b = frontBlock
       /\ Cardinality(D \ {frontBlock}) * Room <= Len(ItemsFrom[b])
  BY <1>9 DEF RunOf
<1>11. ASSUME b # frontBlock PROVE FALSE
  <2>1. PICK c \in Ring : next[c] = b
    BY <1>0, <1>10, Predecessor
  <2>2. c \notin D /\ c # tailBlock
    BY <1>10, <1>11, <2>1
  <2>3. \A d \in D \cup {c} : next[d] = c => c = frontBlock
    BY <1>10, <2>1, <2>2
  <2>4. \A d \in (D \cup {c}) \ {tailBlock} : next[d] \in D \cup {c}
    BY <1>10, <2>1
  <2>5. Len(ItemsFrom[c]) = Len(Held(c)) + Len(ItemsFrom[b])
    <3>1. ItemsFrom[c] = Held(c) \o ItemsFrom[b]
      BY <1>4, <2>1, <2>2
    <3> QED
      BY <1>3, <1>10, <3>1, ConcatProperties
  <2>6. IsFiniteSet(D \ {frontBlock}) /\ Cardinality(D \ {frontBlock}) \in Nat
    <3>1. D \ {frontBlock} \subseteq Ring
      OBVIOUS
    <3> QED
      BY <1>1, <3>1, FS_Subset, FS_CardinalityType
  <2>7. Cardinality((D \cup {c}) \ {frontBlock}) * Room <= Len(ItemsFrom[c])
    <3>1. CASE c = frontBlock
      <4>1. (D \cup {c}) \ {frontBlock} = D \ {frontBlock}
        BY <3>1
      <4> DEFINE m == Cardinality(D \ {frontBlock}) * Room
      <4>2. m \in Nat /\ m <= Len(ItemsFrom[b])
        BY <1>1, <1>10, <2>6
      <4> HIDE DEF m
      <4>3. m <= Len(ItemsFrom[c])
        BY <1>3, <1>10, <2>1, <2>5, <4>2
      <4> QED
        BY <4>1, <4>3 DEF m
    <3>2. CASE c # frontBlock
      <4> DEFINE k == Cardinality(D \ {frontBlock})
      <4>1. (D \cup {c}) \ {frontBlock} = (D \ {frontBlock}) \cup {c} /\ c \notin D \ {frontBlock}
        BY <2>2, <3>2
      <4>2. Cardinality((D \cup {c}) \ {frontBlock}) = k + 1
        BY <2>6, <4>1, FS_AddElement
      <4>3. k \in Nat /\ k * Room <= Len(ItemsFrom[b])
        BY <1>10, <2>6
      <4> HIDE DEF k
      <4>4. (k + 1) * Room = k * Room + Room /\ k * Room \in Nat
        BY <1>1, <4>3
      <4>5. Room <= Len(Held(c))
        BY <1>2, <3>2
      <4> QED
        BY <1>1, <1>3, <1>10, <2>1, <2>5, <4>2, <4>3, <4>4, <4>5
    <3> QED
      BY <3>1, <3>2
  <2>8. RunOf(D \cup {c}, c) /\ D \cup {c} \in SUBSET Ring
    BY <1>10, <2>3, <2>4, <2>7 DEF RunOf
  <2>9. Cardinality(Ring \ (D \cup {c})) \in Left
    BY <2>8
  <2>10. Ring \ (D \cup {c}) = (Ring \ D) \ {c}
    OBVIOUS
  <2>11. Cardinality((Ring \ D) \ {c}) = x - 1
    BY <1>1, <1>8, <2>2, FS_Subset, FS_RemoveElement
  <2>12. x \in Nat
    BY <1>6
  <2>13. x - 1 \in Left
    BY <2>9, <2>10, <2>11
  <2>14. x <= x - 1
    BY <1>7, <2>13
  <2> QED
    BY <2>12, <2>14
<1>12. D = Ring
  BY <1>0, <1>8, <1>10, <1>11 DEF OneCycle
<1>13. Cardinality(Ring \ {frontBlock}) = blocks - 1
  BY <1>0, <1>1, FS_RemoveElement
<1> QED
  BY <1>10, <1>11, <1>12, <1>13 DEF Items

LEMMA RefusedRoom ==
  ASSUME QueueInv, OneCycle, RoomInv, next[tailBlock] = frontBlock, FullBlock(tailBlock)
  PROVE  Occupied >= MaxSize
<1>0. /\ TypesInv /\ tailBlock \in Ring /\ frontBlock \in Ring /\ MaxSize \in Nat
      /\ blocks \in Nat \ {0} /\ blocks >= InitialBlockCount /\ Room \in Nat \ {0}
      /\ Cardinality(Ring) = blocks
  BY RingBlocks, FiniteRing, ConstructorRoom, QueueAssumption DEF QueueInv, RoomInv
<1>1. Items \in Seq(Value) /\ Len(Items) \in Nat
  <2>1. Items \in Seq(Value)
    BY <1>0, ItemsSeq DEF Items
  <2> QED
    BY <2>1, LenProperties
<1>2. CASE tailBlock # frontBlock
  <2>1. (blocks - 1) * Room <= Len(Items)
    BY <1>2, RunFromFront
  <2>2. blocks >= 2
    BY <1>0, <1>2 DEF Ring
  <2>3. (blocks - 1) * Room >= MaxSize
    BY <1>0, <2>2, ConstructorRoom
  <2>4. (blocks - 1) * Room \in Nat
    <3>1. blocks - 1 \in Nat
      BY <1>0
    <3> QED
      BY <1>0, <3>1
  <2>5. Len(Items) >= MaxSize
    BY <1>0, <1>1, <2>1, <2>3, <2>4
  <2> QED
    BY <1>0, <1>1, <2>5 DEF Occupied
<1>3. CASE tailBlock = frontBlock
  <2>1. Ring = {tailBlock}
    BY <1>0, <1>3 DEF OneCycle
  <2>2. Cardinality({tailBlock}) = 1
    BY FS_Singleton
  <2>3. blocks = 1
    BY <1>0, <2>1, <2>2
  <2>4. Room >= MaxSize
    BY <1>0, <2>3, ConstructorRoom
  <2> DEFINE b == tailBlock
             n == size[b]
             f == front[b]
             t == tail[b]
             row == data[b]
  <2>5. /\ n \in Nat \ {0, 1} /\ n <= TopSize /\ f \in 0 .. n - 1 /\ t \in 0 .. n - 1 /\ b \in Blocks
        /\ TopSize \in Nat
    BY <1>0, BlockFacts
  <2>6. data \in [Blocks -> [0 .. TopSize - 1 -> Value]]
    BY <1>0 DEF TypesInv, IndexTypes
  <2>7. \A i \in 0 .. n - 1 : row[i] \in Value
    BY <2>5, <2>6
  <2>8. /\ n >= InitialBlockSize /\ Step(t, n) = f
        /\ Held(b) = Part(row, First(b), t, n) /\ Held(b) \in Seq(Value)
    BY <1>0, HeldFacts DEF RoomInv, FullBlock
  <2>9. Items = Held(b)
    <3>1. Items = Held(b) \o <<>>
      BY <1>0, <1>3, ItemsFromRing DEF Items
    <3> QED
      BY <2>8, <3>1, ConcatEmptySeq
  <2>10. First(b) = (IF cpc = "release" THEN Step(f, n) ELSE f) /\ First(b) \in 0 .. n - 1
    BY <1>0, <1>3, Afters DEF First, Step
  <2> HIDE DEF n, f, t, row
  <2>11. Gap(f, t, n) = n - 1 /\ f # t /\ Gap(Step(f, n), t, n) = n - 2
    <3>1. Gap(f, t, n) = n - 1
      BY <2>5, <2>8, GapStep
    <3>2. f # t
      BY <2>5, <3>1, GapStep
    <3>3. Gap(Step(f, n), t, n) = Gap(f, t, n) - 1
      BY <2>5, <3>2, GapStep
    <3> QED
      BY <2>5, <3>1, <3>2, <3>3
  <2> DEFINE g == First(b)
  <2> HIDE DEF b, g
  <2>12. Len(Part(row, g, t, n)) = Gap(g, t, n)
    BY <2>5, <2>7, <2>10, PartSeq DEF g
  <2>13. Len(Items) + (IF cpc = "release" THEN 1 ELSE 0) = n - 1
    BY <2>5, <2>8, <2>9, <2>10, <2>11, <2>12 DEF g
  <2>14. n - 1 >= Room
    BY <2>5, <2>8, InitialSizes DEF Room
  <2> QED
    BY <1>0, <2>4, <2>5, <2>13, <2>14 DEF Occupied
<1> QED
  BY <1>2, <1>3

Looking == {"full", "reuse", "writeNext", "publishNext", "alloc", "advance"}

(* What a step that moves no index leaves of it *)
LEMMA RoomSame ==
  ASSUME QueueInv, OneCycle, RoomInv,
         UNCHANGED <<blocks, size, largestBlkSz, next, front, tail, frontBlock, tailBlock>>,
         ppc = "advance" <=> ppc' = "advance",
         \/ CheckTailBlock
         \/ ppc' \in Looking => ppc \in Looking,
         \/ CheckTailBlock
         \/ ppc' = "full" => ppc = "full" /\ occupied' = occupied
  PROVE  RoomInv'
<1>0. Ring' = Ring /\ tailBlock \in Ring /\ TypesInv
  BY RingBlocks DEF Ring, QueueInv
<1>1. \A b \in Ring : (Active(b)' <=> Active(b)) /\ (FullBlock(b)' <=> FullBlock(b))
  BY DEF Active, Shown, Filling, FullBlock
<1>2. ppc' = "full" /\ CheckTailBlock => FullBlock(tailBlock) /\ occupied' = Occupied
  <2>1. After(tailBlock, tail[tailBlock]) = Step(tail[tailBlock], size[tailBlock])
    BY <1>0, Afters, BlockFacts
  <2> QED
    BY <2>1 DEF CheckTailBlock, FullBlock
<1>3. ppc' = "full" /\ next[tailBlock] = frontBlock => occupied' >= MaxSize
  <2>1. CASE CheckTailBlock
    BY <1>2, <2>1, RefusedRoom
  <2>2. CASE ppc' = "full" => ppc = "full" /\ occupied' = occupied
    BY <2>2 DEF RoomInv
  <2> QED
    BY <2>1, <2>2
<1>4. ppc' \in Looking /\ tailBlock # frontBlock => FullBlock(tailBlock)
  <2>1. CASE CheckTailBlock
    <3>1. ppc' \in Looking => ppc' = "full"
      BY <2>1 DEF CheckTailBlock, Looking
    <3> QED
      BY <1>2, <2>1, <3>1
  <2>2. CASE ppc' \in Looking => ppc \in Looking
    BY <2>2 DEF RoomInv, Looking
  <2> QED
    BY <2>1, <2>2
<1>5. (FullBlock(tailBlock)' <=> FullBlock(tailBlock)) /\ Active(tailBlock)
  BY DEF FullBlock, QueueInv, ActiveInv
<1> QED
  BY <1>0, <1>1, <1>3, <1>4, <1>5 DEF RoomInv, Looking

LEMMA RoomPublish ==
  ASSUME QueueInv, RoomInv, PublishTail
  PROVE  RoomInv'
<1>1. /\ ppc = "publish" /\ ppc' = "idle"
      /\ tail' = [tail EXCEPT ![tailBlock] = After(tailBlock, @)]
      /\ UNCHANGED <<blocks, size, largestBlkSz, next, front, frontBlock, tailBlock>>
  BY DEF PublishTail, LeaveEnqueue, ringVars
<1>2. /\ tailBlock \in Blocks /\ tail \in [Blocks -> 0 .. TopSize - 1]
      /\ Ring' = Ring /\ Ring \subseteq Blocks
  BY <1>1, RingBlocks DEF QueueInv, TypesInv, IndexTypes, Ring
<1>3. \A c \in Ring \ {tailBlock} : tail'[c] = tail[c]
  BY <1>1, <1>2
<1>4. ASSUME NEW c \in Ring, c # tailBlock, Active(c)', c # frontBlock
      PROVE  FullBlock(c)'
  <2>1. tail'[c] = tail[c]
    BY <1>3, <1>4
  <2>2. Active(c)
    BY <1>1, <1>4, <2>1 DEF Active, Shown, Filling
  <2>3. FullBlock(c)
    BY <1>4, <2>2 DEF RoomInv
  <2> QED
    BY <1>1, <2>1, <2>3 DEF FullBlock
<1> QED
  BY <1>1, <1>2, <1>4 DEF RoomInv

LEMMA RoomPublishNext ==
  ASSUME QueueInv, RoomInv, PublishNextTail
  PROVE  RoomInv'
<1> DEFINE n == next[tailBlock]
<1>1. /\ ppc = "publishNext" /\ ppc' = "advance"
      /\ tail' = [tail EXCEPT ![n] = After(n, @)]
      /\ UNCHANGED <<blocks, size, largestBlkSz, next, front, frontBlock, tailBlock>>
  BY DEF PublishNextTail, ringVars
<1>2. /\ tailBlock \in Ring /\ n \in Ring /\ tail \in [Blocks -> 0 .. TopSize - 1]
      /\ Ring' = Ring /\ Ring \subseteq Blocks
  BY <1>1, RingBlocks DEF QueueInv, TypesInv, IndexTypes, Ring
<1>3. n # frontBlock /\ n # tailBlock
  <2>1. n # frontBlock /\ ~Shown(n) /\ Active(tailBlock)
    BY <1>1, <1>2 DEF QueueInv, ProducerInv, ActiveInv
  <2> QED
    BY <2>1 DEF Active
<1>4. \A c \in Ring \ {n} : tail'[c] = tail[c]
  BY <1>1, <1>2
<1>5. \A c \in Ring : c = n => ~Active(c)'
  BY <1>1, <1>3 DEF Active, Shown, Filling
<1>6. \A c \in Ring : c # n => (Active(c)' <=> Active(c)) /\ (FullBlock(c)' <=> FullBlock(c))
  BY <1>1, <1>4 DEF Active, Shown, Filling, FullBlock
<1>7. \A c \in Ring : Active(c)' => c # n
  BY <1>5
<1>8. tailBlock # frontBlock => FullBlock(tailBlock)'
  <2>1. \A c \in Ring : c # n => (FullBlock(c)' <=> FullBlock(c))
    BY <1>6
  <2>2. tailBlock # frontBlock => FullBlock(tailBlock)
    BY <1>1 DEF RoomInv
  <2>3. tail'[tailBlock] = tail[tailBlock]
    BY <1>2, <1>3, <1>4
  <2> QED
    BY <1>1, <2>2, <2>3 DEF FullBlock
<1> HIDE DEF n
<1> QED
  BY <1>1, <1>2, <1>6, <1>7, <1>8 DEF RoomInv

LEMMA RoomAlloc ==
  ASSUME QueueInv, RoomInv, AllocBlock
  PROVE  RoomInv'
<1> DEFINE b == blocks + 1
<1>1. /\ b \notin Ring /\ Ring' = Ring \cup {b} /\ blocks' = b /\ next'[tailBlock] = b
      /\ \A c \in Blocks \ {b} : size'[c] = size[c] /\ tail'[c] = tail[c]
      /\ ppc = "alloc" /\ ppc' = "advance"
      /\ UNCHANGED <<front, frontBlock, tailBlock>>
  BY AllocEffect DEF QueueInv
<1>2. /\ tailBlock \in Ring /\ frontBlock \in Ring /\ Ring \subseteq Blocks
      /\ blocks \in Nat /\ largestBlkSz \in Nat /\ size \in [Blocks -> 0 .. TopSize]
      /\ b \in Blocks
  <2>1. blocks \in Nat /\ largestBlkSz \in Nat /\ size \in [Blocks -> 0 .. TopSize]
    BY QueueAssumption, InitialSizes DEF QueueInv, TypesInv, RingTypes, Blocks
  <2>2. b \in Blocks
    BY AllocEffect DEF QueueInv
  <2> QED
    BY <2>1, <2>2, RingBlocks DEF QueueInv
<1>3. size'[b] = largestBlkSz' /\ largestBlkSz' \in {largestBlkSz, 2 * largestBlkSz}
  BY <1>2 DEF AllocBlock
<1> HIDE DEF b
<1>4. blocks' >= InitialBlockCount /\ largestBlkSz' >= InitialBlockSize
  BY <1>1, <1>2, <1>3, InitialSizes, QueueAssumption DEF RoomInv, b
<1>5. \A c \in Ring' : size'[c] >= InitialBlockSize
  BY <1>1, <1>2, <1>3, <1>4 DEF RoomInv
<1>6. \A c \in Ring' : c = b => ~Active(c)'
  BY <1>1, <1>2 DEF Active, Shown, Filling
<1>7. \A c \in Ring : (Active(c)' <=> Active(c)) /\ (FullBlock(c)' <=> FullBlock(c))
  BY <1>1, <1>2 DEF Active, Shown, Filling, FullBlock
<1>8. tailBlock # frontBlock => FullBlock(tailBlock)'
  <2>1. tail'[tailBlock] = tail[tailBlock] /\ size'[tailBlock] = size[tailBlock]
    BY <1>1, <1>2
  <2> QED
    BY <1>1, <2>1 DEF RoomInv, FullBlock
<1> QED
  BY <1>1, <1>4, <1>5, <1>6, <1>7, <1>8 DEF RoomInv

LEMMA RoomAdvance ==
  ASSUME QueueInv, RoomInv, AdvanceTailBlock
  PROVE  RoomInv'
<1>1. /\ ppc = "advance" /\ ppc' = "idle" /\ tailBlock' = next[tailBlock]
      /\ UNCHANGED <<blocks, size, largestBlkSz, next, front, tail, frontBlock>>
  BY DEF AdvanceTailBlock, LeaveEnqueue, ringVars
<1>2. Ring' = Ring
  BY <1>1 DEF Ring
<1>3. ASSUME NEW c \in Ring, Active(c)', c # frontBlock, c # tailBlock'
      PROVE  FullBlock(c)'
  <2>1. Active(c)
    BY <1>1, <1>3 DEF Active, Shown, Filling
  <2>2. FullBlock(c)
    BY <1>1, <1>3, <2>1 DEF RoomInv
  <2> QED
    BY <1>1, <2>2 DEF FullBlock
<1> QED
  BY <1>1, <1>2, <1>3 DEF RoomInv

LEMMA RoomRelease ==
  ASSUME QueueInv, RoomInv, ReleaseSlot
  PROVE  RoomInv'
<1>1. /\ front' = [front EXCEPT ![frontBlock] = After(frontBlock, @)]
      /\ UNCHANGED <<blocks, size, largestBlkSz, next, tail, frontBlock, tailBlock, ppc, occupied>>
  BY DEF ReleaseSlot, ringVars, producerVars
<1>2. /\ Ring' = Ring /\ Ring \subseteq Blocks /\ front \in [Blocks -> 0 .. TopSize - 1]
      /\ tailBlock \in Ring
  BY <1>1, RingBlocks DEF QueueInv, TypesInv, IndexTypes, Ring
<1>3. \A c \in Ring \ {frontBlock} : front'[c] = front[c]
  BY <1>1, <1>2
<1>4. \A c \in Ring : c # frontBlock => (Active(c)' <=> Active(c)) /\ (FullBlock(c)' <=> FullBlock(c))
  BY <1>1, <1>3 DEF Active, Shown, Filling, FullBlock
<1>5. tailBlock # frontBlock => (FullBlock(tailBlock)' <=> FullBlock(tailBlock))
  BY <1>1, <1>2, <1>3 DEF FullBlock
<1> QED
  BY <1>1, <1>2, <1>4, <1>5 DEF RoomInv

(* The block the consumer leaves is empty, and is not tailBlock. *)
LEMMA RoomCross ==
  ASSUME QueueInv, RoomInv, AdvanceFrontBlock
  PROVE  RoomInv'
<1>1. /\ cpc = "cross" /\ frontBlock' = nextBlock
      /\ UNCHANGED <<blocks, size, largestBlkSz, next, front, tail, tailBlock, ppc, occupied>>
  BY DEF AdvanceFrontBlock, ringVars, producerVars
<1>2. /\ Ring' = Ring /\ tailBlock \in Ring /\ frontBlock \in Ring
      /\ frontBlock # tailBlock /\ front[frontBlock] = tail[frontBlock]
      /\ nextBlock = next[frontBlock]
  BY <1>1, RingBlocks DEF QueueInv, ConsumerInv, Ring
<1>3. next[tailBlock] # next[frontBlock]
  BY <1>2 DEF QueueInv, TypesInv, BlocksOK
<1>4. ASSUME NEW c \in Ring, Active(c)', c # frontBlock', c # tailBlock
      PROVE  FullBlock(c)'
  <2>1. Shown(c) /\ c # frontBlock
    BY <1>1, <1>2, <1>4 DEF Active, Shown, Filling
  <2>2. FullBlock(c)
    BY <1>4, <2>1 DEF RoomInv, Active
  <2> QED
    BY <1>1, <2>2 DEF FullBlock
<1>5. FullBlock(tailBlock)' <=> FullBlock(tailBlock)
  BY <1>1 DEF FullBlock
<1> QED
  BY <1>1, <1>2, <1>3, <1>4, <1>5 DEF RoomInv

LEMMA RoomStep ==
  ASSUME QueueInv, OneCycle, RoomInv, [Next]_vars
  PROVE  RoomInv'
<1>1. CASE \/ UNCHANGED vars
           \/ \E e \in Elements, alloc \in BOOLEAN : BeginEnqueue(e, alloc)
           \/ \E operation \in {"dequeue", "pop", "peek"} : BeginDequeue(operation)
           \/ CheckTailBlock \/ WriteElement \/ ChooseBlock \/ LoadNextFront \/ WriteNextBlock
           \/ AllocFails \/ CheckFrontBlock \/ LookBeyond \/ Recheck \/ LoadNextBlock
           \/ TakeElement \/ PeekElement
  <2>1. UNCHANGED <<blocks, size, largestBlkSz, next, front, tail, frontBlock, tailBlock>>
    BY <1>1 DEF vars, ringVars, BeginEnqueue, BeginDequeue, CheckTailBlock, WriteElement,
       ChooseBlock, LoadNextFront, WriteNextBlock, AllocFails, CheckFrontBlock, LookBeyond,
       Recheck, LoadNextBlock, TakeElement, PeekElement
  <2>2. CheckTailBlock => ppc = "check" /\ ppc' \in {"write", "full"}
    BY DEF CheckTailBlock
  <2>3. CASE \/ \E e \in Elements, alloc \in BOOLEAN : BeginEnqueue(e, alloc)
             \/ WriteElement \/ ChooseBlock \/ LoadNextFront \/ WriteNextBlock \/ AllocFails
    <3>1. /\ ppc # "advance" /\ ppc' # "advance" /\ ppc' # "full"
          /\ ppc' \in Looking => ppc \in Looking
      BY <2>3 DEF BeginEnqueue, WriteElement, ChooseBlock, LoadNextFront, WriteNextBlock,
         AllocFails, LeaveEnqueue, Looking
    <3> QED
      BY <2>1, <3>1, RoomSame
  <2>4. CASE \/ UNCHANGED vars
             \/ \E operation \in {"dequeue", "pop", "peek"} : BeginDequeue(operation)
             \/ CheckFrontBlock \/ LookBeyond \/ Recheck \/ LoadNextBlock
             \/ TakeElement \/ PeekElement
    <3>1. UNCHANGED <<ppc, occupied>>
      BY <2>4 DEF vars, producerVars, BeginDequeue, CheckFrontBlock, LookBeyond, Recheck,
         LoadNextBlock, TakeElement, PeekElement
    <3> QED
      BY <2>1, <3>1, RoomSame
  <2>5. CASE CheckTailBlock
    BY <2>1, <2>2, <2>5, RoomSame
  <2> QED
    BY <1>1, <2>3, <2>4, <2>5
<1> QED
  BY <1>1, RoomPublish, RoomPublishNext, RoomAlloc, RoomAdvance, RoomRelease, RoomCross
     DEF Next, ProducerStep, ConsumerStep

LEMMA RoomStart == Init => RoomInv
<1> SUFFICES ASSUME Init PROVE RoomInv
  OBVIOUS
<1>1. /\ blocks = InitialBlockCount /\ largestBlkSz = InitialBlockSize
      /\ size = [b \in Blocks |-> IF b <= blocks THEN InitialBlockSize ELSE 0]
      /\ front = [b \in Blocks |-> 0] /\ tail = [b \in Blocks |-> 0]
      /\ frontBlock = 1 /\ ppc = "idle"
  BY DEF Init
<1>2. InitialBlockCount \in 1 .. MaxBlocks /\ InitialBlockSize \in 2 .. TopSize /\ MaxBlocks \in Nat
      /\ TopSize \in Nat
  BY InitialSizes, QueueAssumption
<1>3. \A b \in Ring : b \in Blocks /\ size[b] = InitialBlockSize /\ front[b] = 0 /\ tail[b] = 0
  BY <1>1, <1>2 DEF Ring, Blocks
<1>4. \A b \in Ring : Active(b) => b = frontBlock
  BY <1>3 DEF Active, Shown
<1> QED
  BY <1>1, <1>2, <1>3, <1>4 DEF RoomInv

(***************************************************************************)
(* The constructor makes room for maxSize elements: try_enqueue returns    *)
(* false only if that many slots were in use when it looked, whatever      *)
(* blocks they were in.                                                    *)
(***************************************************************************)
THEOREM RoomForMaxSize == Spec => RefusedOnlyWhenFull
<1>1. Init => FullInv /\ RoomInv
  BY StartEmpty, RoomStart
<1>2. FullInv /\ RoomInv /\ [Next]_vars => (FullInv /\ RoomInv)'
  BY FullStep, RoomStep DEF FullInv
<1>3. FullInv /\ RoomInv /\ [Next]_vars
        => [ppc = "full" /\ ppc' = "idle" => occupied >= MaxSize]_vars
  <2> SUFFICES ASSUME FullInv, RoomInv, Next, ppc = "full", ppc' = "idle"
               PROVE  occupied >= MaxSize
    BY DEF vars, producerVars
  <2>1. ChooseBlock
    BY DEF Next, ProducerStep, ConsumerStep, producerVars, LeaveEnqueue, BeginEnqueue,
       CheckTailBlock, WriteElement, PublishTail, LoadNextFront, WriteNextBlock,
       PublishNextTail, AllocFails, AllocBlock, AdvanceTailBlock, BeginDequeue, CheckFrontBlock,
       LookBeyond, Recheck, LoadNextBlock, AdvanceFrontBlock, TakeElement, ReleaseSlot, PeekElement
  <2> QED
    BY <2>1 DEF ChooseBlock, RoomInv
<1> QED
  BY <1>1, <1>2, <1>3, PTL DEF Spec, RefusedOnlyWhenFull
=============================================================================
