----------------------------- MODULE FifoQueue -----------------------------
(***************************************************************************)
(* What a queue with one producer and one consumer promises: elements come *)
(* out in the order in which they went in, and the consumer is told that   *)
(* there is none only if there was none when it asked.                     *)
(***************************************************************************)
EXTENDS Sequences

CONSTANTS
  Elements,
  NoElement   (* the consumer was told that there is none, or got nothing  *)

VARIABLES
  items,      (* the elements in the queue                                 *)
  call,       (* the consumer: "idle", "busy" in a call, "done" with it    *)
  result,     (* what the consumer got                                     *)
  sawEmpty    (* the queue was empty when the consumer's call began        *)

vars == <<items, call, result, sawEmpty>>

Init ==
  /\ items = <<>>
  /\ call = "idle"
  /\ result = NoElement
  /\ sawEmpty = FALSE

Enqueue ==
  /\ \E e \in Elements : items' = Append(items, e)
  /\ UNCHANGED <<call, result, sawEmpty>>

Begin ==
  /\ call = "idle"
  /\ call' = "busy"
  /\ result' = NoElement
  /\ sawEmpty' = (items = <<>>)
  /\ UNCHANGED items

Leave == call' = "idle" /\ sawEmpty' = FALSE

(* The consumer takes the oldest element; pop does not hand it out. *)
Dequeue ==
  /\ call = "busy"
  /\ items # <<>>
  /\ items' = Tail(items)
  /\ result' \in {Head(items), NoElement}
  /\ call' = "done"
  /\ UNCHANGED sawEmpty

Peek ==
  /\ call = "busy"
  /\ items # <<>>
  /\ result' = Head(items)
  /\ Leave
  /\ UNCHANGED items

FindNone ==
  /\ call = "busy"
  /\ sawEmpty
  /\ Leave
  /\ UNCHANGED <<items, result>>

Return ==
  /\ call = "done"
  /\ Leave
  /\ UNCHANGED <<items, result>>

Next == Enqueue \/ Begin \/ Dequeue \/ Peek \/ FindNone \/ Return

Spec == Init /\ [][Next]_vars
=============================================================================
