----------------------------- MODULE SpscQueue -----------------------------
(***************************************************************************)
(* lockFreeQueue of queue_lock_free.h: a ring of circular buffers (blocks) *)
(* shared by one producer and one consumer. The producer fills tailBlock   *)
(* and moves it on to the next block of the ring when it is full, or puts  *)
(* a new block behind it; the consumer empties frontBlock and moves it     *)
(* towards tailBlock.                                                      *)
(*                                                                         *)
(* A step reads or writes at most one word that the other thread writes    *)
(* or reads too. Memory is sequentially consistent: the fences of the code *)
(* are taken to do their work.                                             *)
(***************************************************************************)
EXTENDS Integers, Sequences

CONSTANTS
  Elements,        (* the values enqueued                                  *)
  NoElement,       (* an empty slot, and a consumer that got nothing       *)
  MaxSize,         (* the constructor's argument maxSize                   *)
  MAX_BLOCK_SIZE,  (* the template's argument                              *)
  MaxBlocks        (* bound: malloc fails for more than MaxBlocks blocks   *)

(* No odd number but 1 divides a power of 2. *)
IsPow2(p) == \A d \in 1 .. p : p % d = 0 /\ d # 1 => d % 2 = 0

(* ceilToPow2 *)
CeilToPow2(x) == CHOOSE p \in x .. 2 * x - 1 : IsPow2(p)

(* The blocks the constructor makes, and their size. *)
SeveralBlocks == CeilToPow2(MaxSize + 1) > 2 * MAX_BLOCK_SIZE

(* Mutant: as many blocks as maxSize elements fill. *)
InitialBlockCountTight ==
  IF SeveralBlocks THEN (MaxSize + MAX_BLOCK_SIZE - 2) \div (MAX_BLOCK_SIZE - 1)
                   ELSE 1

InitialBlockCount ==
  IF SeveralBlocks THEN (MaxSize + 2 * MAX_BLOCK_SIZE - 3) \div (MAX_BLOCK_SIZE - 1)
                   ELSE 1

InitialBlockSize ==
  IF SeveralBlocks THEN MAX_BLOCK_SIZE ELSE CeilToPow2(MaxSize + 1)

ASSUME QueueAssumption ==
  /\ NoElement \notin Elements
  /\ MaxSize \in Nat \ {0}
  /\ MAX_BLOCK_SIZE \in Nat \ {0, 1} /\ IsPow2(MAX_BLOCK_SIZE)
  /\ MaxBlocks \in Nat /\ MaxBlocks >= InitialBlockCount

Blocks == 1 .. MaxBlocks

(* The largest block there can be. *)
TopSize == IF InitialBlockSize > MAX_BLOCK_SIZE THEN InitialBlockSize ELSE MAX_BLOCK_SIZE

VARIABLES
  blocks,        (* number of blocks made                                  *)
  size,          (* sizeMask + 1 of each block                             *)
  largestBlkSz,
  front, tail,   (* of each block: written by the consumer, the producer   *)
  localTail,     (* of each block: the consumer's copy of tail             *)
  localFront,    (* of each block: the producer's copy of front            *)
  next,          (* of each block: the ring                                *)
  data,          (* of each block: the slots                               *)
  frontBlock, tailBlock,
  ppc,           (* where the producer is                                  *)
  element,       (* the producer's argument                                *)
  canAlloc,      (* enqueue, or try_enqueue                                *)
  cpc,           (* where the consumer is                                  *)
  op,            (* "dequeue", "pop", "peek" or "none"                    *)
  nextBlock,     (* the consumer's local nextBlock, 0 if it has none       *)
  result,        (* what the consumer's last call gave it                  *)
  occupied,      (* history: slots in use when the producer found no room  *)
  sawEmpty       (* history: no element was there when the call began      *)

ringVars     == <<blocks, size, largestBlkSz, next>>
producerVars == <<ppc, element, canAlloc, occupied>>
consumerVars == <<cpc, op, nextBlock, result, sawEmpty>>
vars == <<ringVars, front, tail, localTail, localFront, data, frontBlock, tailBlock,
          producerVars, consumerVars>>

Init ==
  /\ blocks = InitialBlockCount
  /\ size = [b \in Blocks |-> IF b <= blocks THEN InitialBlockSize ELSE 0]
  /\ largestBlkSz = InitialBlockSize
  /\ front = [b \in Blocks |-> 0] /\ tail = [b \in Blocks |-> 0]
  /\ localTail = [b \in Blocks |-> 0] /\ localFront = [b \in Blocks |-> 0]
  /\ next = [b \in Blocks |-> IF b < blocks THEN b + 1 ELSE 1]
  /\ data = [b \in Blocks |-> [i \in 0 .. TopSize - 1 |-> NoElement]]
  /\ frontBlock = 1 /\ tailBlock = 1
  /\ ppc = "idle" /\ element = NoElement /\ canAlloc = FALSE /\ occupied = 0
  /\ cpc = "idle" /\ op = "none" /\ nextBlock = 0
  /\ result = NoElement /\ sawEmpty = FALSE

(* Mutant: the index runs over the end of the block. *)
AfterNoWrap(b, i) == i + 1

After(b, i) == (i + 1) % size[b]
-----------------------------------------------------------------------------
(***************************************************************************)
(* The contents of the queue                                               *)
(***************************************************************************)

(* The elements of a block, from slot i up to its tail. *)
InBlock(b, i) ==
  [k \in 1 .. (tail[b] - i) % size[b] |-> data[b][(i + k - 1) % size[b]]]

(* The first slot the consumer has not taken yet. *)
FirstSlot(b) ==
  IF cpc = "release" /\ b = frontBlock THEN After(b, front[b]) ELSE front[b]

(* What the blocks hold from one of them to tailBlock along the ring *)
ItemsFrom[b \in Blocks] ==
  InBlock(b, FirstSlot(b)) \o IF b = tailBlock THEN <<>> ELSE ItemsFrom[next[b]]

Items == ItemsFrom[frontBlock]

(* Slots the producer cannot have: a slot taken but not yet released too. *)
Occupied == Len(Items) + IF cpc = "release" THEN 1 ELSE 0
-----------------------------------------------------------------------------
(***************************************************************************)
(* The producer: inner_enqueue                                             *)
(***************************************************************************)

BeginEnqueue(e, alloc) ==
  /\ ppc = "idle"
  /\ ppc' = "check"
  /\ element' = e
  /\ canAlloc' = alloc
  /\ UNCHANGED <<ringVars, front, tail, localTail, localFront, data,
                 frontBlock, tailBlock, occupied, consumerVars>>

(* The producer's call ends, and its locals with it. *)
LeaveEnqueue ==
  /\ ppc' = "idle"
  /\ element' = NoElement
  /\ canAlloc' = FALSE
  /\ occupied' = 0

(* Mutant: the slot that tells a full block from an empty one is used. *)
CheckTailBlockNoSpare ==
  /\ ppc = "check"
  /\ localFront' = [localFront EXCEPT ![tailBlock] = front[tailBlock]]
  /\ ppc' = "write"
  /\ UNCHANGED <<ringVars, front, tail, localTail, data, frontBlock, tailBlock,
                 element, canAlloc, occupied, consumerVars>>

(* Is there room in tailBlock? front is loaded only if localFront says no. *)
CheckTailBlock ==
  /\ ppc = "check"
  /\ LET nextTail == After(tailBlock, tail[tailBlock])
     IN  IF nextTail # localFront[tailBlock]
         THEN /\ ppc' = "write"
              /\ UNCHANGED <<localFront, occupied>>
         ELSE /\ localFront' = [localFront EXCEPT ![tailBlock] = front[tailBlock]]
              /\ ppc' = IF nextTail # front[tailBlock] THEN "write" ELSE "full"
              /\ occupied' = IF nextTail # front[tailBlock] THEN 0 ELSE Occupied
  /\ UNCHANGED <<ringVars, front, tail, localTail, data, frontBlock, tailBlock,
                 element, canAlloc, consumerVars>>

WriteElement ==
  /\ ppc = "write"
  /\ data' = [data EXCEPT ![tailBlock][tail[tailBlock]] = element]
  /\ ppc' = "publish"
  /\ UNCHANGED <<ringVars, front, tail, localTail, localFront, frontBlock, tailBlock,
                 element, canAlloc, occupied, consumerVars>>

PublishTail ==
  /\ ppc = "publish"
  /\ tail' = [tail EXCEPT ![tailBlock] = After(tailBlock, @)]
  /\ LeaveEnqueue
  /\ UNCHANGED <<ringVars, front, localTail, localFront, data, frontBlock, tailBlock,
                 consumerVars>>

(* Mutant: try_enqueue looks again instead of returning false. *)
ChooseBlockLooksAgain ==
  /\ ppc = "full"
  /\ ppc' = IF next[tailBlock] # frontBlock THEN "reuse"
            ELSE IF canAlloc THEN "alloc" ELSE "check"
  /\ UNCHANGED <<ringVars, front, tail, localTail, localFront, data, frontBlock,
                 tailBlock, element, canAlloc, occupied, consumerVars>>

(* tailBlock is full: the next block of the ring is free unless it is      *)
(* frontBlock. Then a new one is made, or the call returns false.          *)
ChooseBlock ==
  /\ ppc = "full"
  /\ \/ /\ next[tailBlock] # frontBlock \/ canAlloc
        /\ ppc' = IF next[tailBlock] # frontBlock THEN "reuse" ELSE "alloc"
        /\ UNCHANGED <<element, canAlloc, occupied>>
     \/ next[tailBlock] = frontBlock /\ ~canAlloc /\ LeaveEnqueue
  /\ UNCHANGED <<ringVars, front, tail, localTail, localFront, data, frontBlock,
                 tailBlock, consumerVars>>

LoadNextFront ==
  /\ ppc = "reuse"
  /\ LET b == next[tailBlock] IN localFront' = [localFront EXCEPT ![b] = front[b]]
  /\ ppc' = "writeNext"
  /\ UNCHANGED <<ringVars, front, tail, localTail, data, frontBlock, tailBlock,
                 element, canAlloc, occupied, consumerVars>>

WriteNextBlock ==
  /\ ppc = "writeNext"
  /\ LET b == next[tailBlock] IN data' = [data EXCEPT ![b][tail[b]] = element]
  /\ ppc' = "publishNext"
  /\ UNCHANGED <<ringVars, front, tail, localTail, localFront, frontBlock, tailBlock,
                 element, canAlloc, occupied, consumerVars>>

PublishNextTail ==
  /\ ppc = "publishNext"
  /\ LET b == next[tailBlock] IN tail' = [tail EXCEPT ![b] = After(b, @)]
  /\ ppc' = "advance"
  /\ UNCHANGED <<ringVars, front, localTail, localFront, data, frontBlock, tailBlock,
                 element, canAlloc, occupied, consumerVars>>

(* make_block fails, and enqueue returns false. *)
AllocFails ==
  /\ ppc = "alloc"
  /\ LeaveEnqueue
  /\ UNCHANGED <<ringVars, front, tail, localTail, localFront, data, frontBlock,
                 tailBlock, consumerVars>>

(* A new block with the element in it; it enters the ring with the store   *)
(* to tailBlock_->next.                                                    *)
AllocBlock ==
  /\ ppc = "alloc"
  /\ blocks < MaxBlocks
  /\ LET b == blocks + 1
         newSize == IF largestBlkSz >= MAX_BLOCK_SIZE THEN largestBlkSz
                                                      ELSE 2 * largestBlkSz
     IN  /\ blocks' = b
         /\ largestBlkSz' = newSize
         /\ size' = [size EXCEPT ![b] = newSize]
         /\ data' = [data EXCEPT ![b][0] = element]
         /\ tail' = [tail EXCEPT ![b] = 1]
         /\ localTail' = [localTail EXCEPT ![b] = 1]
         /\ next' = [next EXCEPT ![b] = next[tailBlock], ![tailBlock] = b]
  /\ ppc' = "advance"
  /\ UNCHANGED <<front, localFront, frontBlock, tailBlock,
                 element, canAlloc, occupied, consumerVars>>

(* tailBlock = tailBlockNext, or newBlock *)
AdvanceTailBlock ==
  /\ ppc = "advance"
  /\ tailBlock' = next[tailBlock]
  /\ LeaveEnqueue
  /\ UNCHANGED <<ringVars, front, tail, localTail, localFront, data, frontBlock,
                 consumerVars>>
-----------------------------------------------------------------------------
(***************************************************************************)
(* The consumer: try_dequeue, pop and peek                                 *)
(***************************************************************************)

(* The consumer's call ends, and its locals with it. *)
LeaveDequeue ==
  /\ cpc' = "idle"
  /\ op' = "none"
  /\ sawEmpty' = FALSE

(* pop and peek follow try_dequeue step by step: pop drops the element,    *)
(* and peek hands out its address and moves nothing.                       *)
BeginDequeue(operation) ==
  /\ cpc = "idle"
  /\ cpc' = "check"
  /\ op' = operation
  /\ result' = NoElement
  /\ sawEmpty' = (Items = <<>>)
  /\ UNCHANGED <<ringVars, front, tail, localTail, localFront, data,
                 frontBlock, tailBlock, nextBlock, producerVars>>

(* Is there an element in frontBlock? tail is loaded only if localTail     *)
(* says no.                                                                *)
CheckFrontBlock ==
  /\ cpc = "check"
  /\ IF front[frontBlock] # localTail[frontBlock]
     THEN cpc' = "take" /\ UNCHANGED localTail
     ELSE /\ localTail' = [localTail EXCEPT ![frontBlock] = tail[frontBlock]]
          /\ cpc' = IF front[frontBlock] # tail[frontBlock] THEN "take" ELSE "look"
  /\ UNCHANGED <<ringVars, front, tail, localFront, data, frontBlock, tailBlock,
                 op, nextBlock, result, sawEmpty, producerVars>>

(* Mutant: an empty queue is looked at again. *)
LookBeyondAgain ==
  /\ cpc = "look"
  /\ cpc' = IF frontBlock # tailBlock THEN "recheck" ELSE "check"
  /\ UNCHANGED <<ringVars, front, tail, localTail, localFront, data, frontBlock,
                 tailBlock, op, nextBlock, result, sawEmpty, producerVars>>

(* frontBlock is empty. If it is tailBlock too, there is no element. *)
LookBeyond ==
  /\ cpc = "look"
  /\ \/ frontBlock # tailBlock /\ cpc' = "recheck" /\ UNCHANGED <<op, sawEmpty>>
     \/ frontBlock = tailBlock /\ LeaveDequeue
  /\ UNCHANGED <<ringVars, front, tail, localTail, localFront, data, frontBlock,
                 tailBlock, nextBlock, result, producerVars>>

(* Mutant: the consumer leaves frontBlock without looking at it again. *)
RecheckSkipped ==
  /\ cpc = "recheck"
  /\ cpc' = "hop"
  /\ UNCHANGED <<ringVars, front, tail, localTail, localFront, data, frontBlock,
                 tailBlock, op, nextBlock, result, sawEmpty, producerVars>>

(* The producer has moved on, perhaps after it filled frontBlock again. *)
Recheck ==
  /\ cpc = "recheck"
  /\ localTail' = [localTail EXCEPT ![frontBlock] = tail[frontBlock]]
  /\ cpc' = IF front[frontBlock] # tail[frontBlock] THEN "take" ELSE "hop"
  /\ UNCHANGED <<ringVars, front, tail, localFront, data, frontBlock, tailBlock,
                 op, nextBlock, result, sawEmpty, producerVars>>

(* The next block has an element. *)
LoadNextBlock ==
  /\ cpc = "hop"
  /\ nextBlock' = next[frontBlock]
  /\ localTail' = IF op = "peek" THEN localTail
                  ELSE [localTail EXCEPT ![nextBlock'] = tail[nextBlock']]
  /\ cpc' = IF op = "peek" THEN "take" ELSE "cross"
  /\ UNCHANGED <<ringVars, front, tail, localFront, data, frontBlock, tailBlock,
                 op, result, sawEmpty, producerVars>>

(* frontBlock = nextBlock *)
AdvanceFrontBlock ==
  /\ cpc = "cross"
  /\ frontBlock' = nextBlock
  /\ nextBlock' = 0
  /\ cpc' = "take"
  /\ UNCHANGED <<ringVars, front, tail, localTail, localFront, data, tailBlock,
                 op, result, sawEmpty, producerVars>>

(* The element is moved out of its slot and destroyed. *)
TakeElement ==
  /\ cpc = "take" /\ op # "peek"
  /\ LET i == front[frontBlock]
     IN  /\ result' = IF op = "pop" THEN NoElement ELSE data[frontBlock][i]
         /\ data' = [data EXCEPT ![frontBlock][i] = NoElement]
  /\ cpc' = "release"
  /\ UNCHANGED <<ringVars, front, tail, localTail, localFront, frontBlock, tailBlock,
                 op, nextBlock, sawEmpty, producerVars>>

(* The slot is given back to the producer. *)
ReleaseSlot ==
  /\ cpc = "release"
  /\ front' = [front EXCEPT ![frontBlock] = After(frontBlock, @)]
  /\ LeaveDequeue
  /\ UNCHANGED <<ringVars, tail, localTail, localFront, data, frontBlock, tailBlock,
                 nextBlock, result, producerVars>>

(* peek returns the first element of frontBlock, or of the next block. *)
PeekElement ==
  /\ cpc = "take" /\ op = "peek"
  /\ LET b == IF nextBlock = 0 THEN frontBlock ELSE nextBlock
     IN  result' = data[b][front[b]]
  /\ nextBlock' = 0
  /\ LeaveDequeue
  /\ UNCHANGED <<ringVars, front, tail, localTail, localFront, data, frontBlock,
                 tailBlock, producerVars>>
-----------------------------------------------------------------------------
ProducerStep ==
  \/ CheckTailBlock \/ WriteElement \/ PublishTail \/ ChooseBlock
  \/ LoadNextFront \/ WriteNextBlock \/ PublishNextTail
  \/ AllocFails \/ AllocBlock \/ AdvanceTailBlock

ConsumerStep ==
  \/ CheckFrontBlock \/ LookBeyond \/ Recheck \/ LoadNextBlock
  \/ AdvanceFrontBlock \/ TakeElement \/ ReleaseSlot \/ PeekElement

Next ==
  \/ \E e \in Elements, alloc \in BOOLEAN : BeginEnqueue(e, alloc)
  \/ ProducerStep
  \/ \E operation \in {"dequeue", "pop", "peek"} : BeginDequeue(operation)
  \/ ConsumerStep

Spec == Init /\ [][Next]_vars

(* A call that has begun goes on, without help from the other thread. *)
FairSpec == Spec /\ WF_vars(ProducerStep) /\ WF_vars(ConsumerStep)
-----------------------------------------------------------------------------
(* Every variable has a value of its kind. *)
TypeOK ==
  /\ blocks \in Blocks
  /\ size \in [Blocks -> 0 .. TopSize] /\ largestBlkSz \in 1 .. TopSize
  /\ \A f \in {front, tail, localTail, localFront} : f \in [Blocks -> 0 .. TopSize - 1]
  /\ next \in [Blocks -> Blocks]
  /\ data \in [Blocks -> [0 .. TopSize - 1 -> Elements \cup {NoElement}]]
  /\ frontBlock \in 1 .. blocks /\ tailBlock \in 1 .. blocks
  /\ ppc \in {"idle", "check", "write", "publish", "full", "reuse", "writeNext",
              "publishNext", "alloc", "advance"}
  /\ element \in Elements \cup {NoElement} /\ canAlloc \in BOOLEAN
  /\ occupied \in Nat
  /\ cpc \in {"idle", "check", "look", "recheck", "hop", "cross", "take", "release"}
  /\ op \in {"none", "dequeue", "pop", "peek"} /\ nextBlock \in 0 .. MaxBlocks
  /\ result \in Elements \cup {NoElement} /\ sawEmpty \in BOOLEAN

(***************************************************************************)
(* Every slot from a block's front up to its tail holds an element, and no *)
(* slot outside does, the ones being written or taken at this moment       *)
(* excepted: no element is overwritten, lost in a block that was left, or  *)
(* destroyed twice.                                                        *)
(***************************************************************************)
Filled(b) ==
  {(FirstSlot(b) + k) % size[b] : k \in 0 .. ((tail[b] - FirstSlot(b)) % size[b]) - 1}

BeingWritten(b) ==
  CASE ppc = "publish" /\ b = tailBlock -> {tail[b]}
    [] ppc = "publishNext" /\ b = next[tailBlock] -> {tail[b]}
    [] OTHER -> {}

SlotsMatchIndices ==
  \A b \in 1 .. blocks : \A i \in 0 .. size[b] - 1 :
    data[b][i] # NoElement <=> i \in Filled(b) \cup BeingWritten(b)

(***************************************************************************)
(* The constructor makes room for maxSize elements: try_enqueue returns    *)
(* false only if that many slots were in use when it looked, wherever in   *)
(* the blocks of the ring the elements are.                                *)
(***************************************************************************)
RefusedOnlyWhenFull ==
  [][ppc = "full" /\ ppc' = "idle" => occupied >= MaxSize]_vars

(***************************************************************************)
(* The queue is a FIFO queue to its consumer, which is told that there is  *)
(* no element only if there was none when it asked.                        *)
(***************************************************************************)
Abstract == INSTANCE FifoQueue
  WITH items <- Items,
       call <- CASE cpc = "idle" -> "idle" [] cpc = "release" -> "done" [] OTHER -> "busy"

ImplementsFifoQueue == Abstract!Spec

(***************************************************************************)
(* No call waits for the other thread ("lock free"): each one returns,     *)
(* whether or not the other thread ever calls again.                       *)
(***************************************************************************)
CallsReturn ==
  /\ ppc = "check" ~> ppc = "idle"
  /\ cpc = "check" ~> cpc = "idle"
=============================================================================
