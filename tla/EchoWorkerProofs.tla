-------------------------- MODULE EchoWorkerProofs --------------------------
(***************************************************************************)
(* No buffer of echo_worker is used after it was freed, and none is freed  *)
(* twice, for requests of any length, cut anywhere, and any number of      *)
(* connections that have the id. A reply that nothing disturbs closes when *)
(* it has what it announced, and not before; what comes after that is what *)
(* an empty line in the rest of the text calls for.                        *)
(***************************************************************************)
EXTENDS EchoWorker, SequenceTheorems, FiniteSetTheorems, TLAPS

(* An element of states: its len comes from strtod, and is not looked at.  *)
IsState(s) ==
  s = [len |-> s.len, finished |-> s.finished, buffer |-> s.buffer, content |-> s.content]

StateInv ==
  /\ IsState(state) /\ state.finished \in BOOLEAN /\ state.buffer \in Nat
  /\ state # NoState => state.buffer \in DOMAIN freed
  /\ pc \in {"read", "client", "text", "erase"}
  /\ pc \in {"client", "text"} => state.finished

ListInv ==
  /\ freed \in Seq(Nat)
  /\ outbox \in Seq([ref : Nat, deleter : Nat, close : BOOLEAN])
  /\ listed \in BOOLEAN /\ (~listed => outbox = <<>>)

(* What packages refer to is there, and a package with a deleter is the    *)
(* last one that refers to the buffer.                                     *)
RefInv ==
  /\ \A k \in DOMAIN outbox :
       /\ outbox[k].ref # 0 => outbox[k].ref \in DOMAIN freed /\ freed[outbox[k].ref] = 0
       /\ outbox[k].deleter # 0 => outbox[k].deleter \in DOMAIN freed
  /\ \A k, l \in DOMAIN outbox :
       k < l /\ outbox[k].deleter # 0 =>
         outbox[l].ref # outbox[k].deleter /\ outbox[l].deleter # outbox[k].deleter

Pending(b) == \E k \in DOMAIN outbox : outbox[k].deleter = b
Used(b) == InUse /\ state.buffer = b

(* A buffer is in one of four places, among them the one from which there  *)
(* is no return.                                                           *)
BufferInv ==
  \A b \in DOMAIN freed :
    /\ freed[b] \in {0, 1}
    /\ freed[b] = 1 \/ Pending(b) \/ Used(b) \/ b \in leaked
    /\ freed[b] = 1 => ~Pending(b) /\ ~Used(b) /\ b \notin leaked
    /\ Pending(b) => ~Used(b) /\ b \notin leaked
    /\ Used(b) => b \notin leaked

EchoInv == StateInv /\ ListInv /\ RefInv /\ BufferInv /\ leaked \subseteq DOMAIN freed
-----------------------------------------------------------------------------
(***************************************************************************)
(* What the operators return                                               *)
(***************************************************************************)

(* Running deleters changes no other buffer. *)
LEMMA DeletedProperties ==
  ASSUME NEW bufs \in Seq(Nat), NEW D
  PROVE  /\ Deleted(bufs, D) \in Seq(Nat)
         /\ DOMAIN Deleted(bufs, D) = DOMAIN bufs
         /\ \A b \in DOMAIN bufs :
              Deleted(bufs, D)[b] = IF b \in D THEN bufs[b] + 1 ELSE bufs[b]
<1>1. Len(bufs) \in Nat /\ DOMAIN bufs = 1 .. Len(bufs) /\ \A b \in DOMAIN bufs : bufs[b] \in Nat
  BY LenProperties, ElementOfSeq
<1>2. Deleted(bufs, D) \in [1 .. Len(bufs) -> Nat]
  BY <1>1 DEF Deleted
<1>3. Deleted(bufs, D) \in Seq(Nat)
  BY <1>1, <1>2, SeqDef
<1> QED
  BY <1>1, <1>3 DEF Deleted

(* Nothing runs for a package without a deleter. *)
LEMMA DeletedNone ==
  ASSUME NEW bufs \in Seq(Nat)
  PROVE  Deleted(bufs, {0}) = bufs
<1>1. Deleted(bufs, {0}) \in Seq(Nat) /\ DOMAIN bufs = 1 .. Len(bufs) /\ Len(bufs) \in Nat
      /\ DOMAIN Deleted(bufs, {0}) = 1 .. Len(bufs)
  BY DeletedProperties, LenProperties
<1>2. Len(Deleted(bufs, {0})) = Len(bufs)
  BY <1>1, LenProperties
<1>3. \A b \in 1 .. Len(bufs) : Deleted(bufs, {0})[b] = bufs[b]
  BY <1>1 DEF Deleted
<1> QED
  BY <1>1, <1>2, <1>3, SeqEqual

(* The fields of a state that a change of others leaves alone. *)
LEMMA AppendedState ==
  ASSUME NEW s, IsState(s), NEW c, NEW t, t = [s EXCEPT !.content = c]
  PROVE  IsState(t) /\ t.finished = s.finished /\ t.buffer = s.buffer
BY DEF IsState

LEMMA FinishedState ==
  ASSUME NEW s, IsState(s), NEW x,
         NEW t, t = [s EXCEPT !.finished = TRUE, !.len = x, !.content = <<>>]
  PROVE  IsState(t) /\ t.finished = TRUE /\ t.buffer = s.buffer
BY DEF IsState

LEMMA LenState ==
  ASSUME NEW s, IsState(s), NEW x, NEW t, t = [s EXCEPT !.len = x]
  PROVE  IsState(t) /\ t.finished = s.finished /\ t.buffer = s.buffer
BY DEF IsState

LEMMA BufferState ==
  ASSUME NEW s, IsState(s), NEW x, NEW t, t = [s EXCEPT !.buffer = x]
  PROVE  IsState(t) /\ t.finished = s.finished /\ t.buffer = x
BY DEF IsState

(* A state of its own has a buffer of its own. *)
LEMMA ThisConnProperties ==
  ASSUME EchoInv
  PROVE  /\ IsState(ThisConn) /\ ThisConn.finished = state.finished
         /\ Buffers \in Seq(Nat) /\ ThisConn.buffer \in Nat \ {0}
         /\ DOMAIN Buffers = DOMAIN freed \cup {ThisConn.buffer}
         /\ \A b \in DOMAIN freed : Buffers[b] = freed[b]
         /\ state = NoState => ThisConn.buffer \notin DOMAIN freed /\ Buffers[ThisConn.buffer] = 0
         /\ state # NoState => ThisConn = state /\ Buffers = freed
<1> USE DEF EchoInv, StateInv, ListInv
<1>1. Len(freed) \in Nat /\ DOMAIN freed = 1 .. Len(freed)
  BY LenProperties
<1>2. CASE state = NoState
  <2>1. ThisConn = [state EXCEPT !.buffer = Len(freed) + 1] /\ Buffers = Append(freed, 0)
    BY <1>2 DEF ThisConn, Buffers
  <2>2. IsState(ThisConn) /\ ThisConn.finished = state.finished /\ ThisConn.buffer = Len(freed) + 1
    BY <2>1, BufferState DEF IsState
  <2>3. /\ Append(freed, 0) \in Seq(Nat) /\ DOMAIN Append(freed, 0) = 1 .. Len(freed) + 1
        /\ Append(freed, 0)[Len(freed) + 1] = 0
        /\ \A b \in 1 .. Len(freed) : Append(freed, 0)[b] = freed[b]
    BY <1>1
  <2> QED
    BY <1>1, <1>2, <2>1, <2>2, <2>3
<1>3. CASE state # NoState
  BY <1>1, <1>3 DEF ThisConn, Buffers
<1> QED
  BY <1>2, <1>3
-----------------------------------------------------------------------------
(***************************************************************************)
(* asyn_write                                                              *)
(***************************************************************************)

(* What Write does to the list and to the buffers. *)
LEMMA WriteProperties ==
  ASSUME ListInv, NEW bufs \in Seq(Nat), NEW ref \in Nat, NEW deleter \in Nat,
         NEW close \in BOOLEAN, Write(bufs, ref, deleter, close)
  PROVE  /\ ListInv'
         /\ listed => /\ freed' = bufs
                      /\ DOMAIN outbox' = DOMAIN outbox \cup {Len(outbox) + 1}
                      /\ outbox'[Len(outbox) + 1].ref = ref
                      /\ outbox'[Len(outbox) + 1].deleter = deleter
                      /\ \A k \in DOMAIN outbox : outbox'[k] = outbox[k]
         /\ ~listed => freed' = Deleted(bufs, {deleter}) /\ outbox = <<>> /\ outbox' = <<>>
<1> USE DEF ListInv
<1> DEFINE p == [ref |-> ref, deleter |-> deleter, close |-> close]
<1>1. Len(outbox) \in Nat /\ DOMAIN outbox = 1 .. Len(outbox)
  BY LenProperties
<1>2. CASE listed
  <2>1. outbox' = Append(outbox, p) /\ freed' = bufs /\ listed' = listed
    BY <1>2 DEF Write
  <2>2. p \in [ref : Nat, deleter : Nat, close : BOOLEAN]
    OBVIOUS
  <2>3. outbox' \in Seq([ref : Nat, deleter : Nat, close : BOOLEAN])
    BY <2>1, <2>2
  <2>4. /\ DOMAIN outbox' = 1 .. Len(outbox) + 1 /\ outbox'[Len(outbox) + 1] = p
        /\ \A k \in DOMAIN outbox : outbox'[k] = outbox[k]
    BY <1>1, <2>1, <2>2
  <2> QED
    BY <1>1, <1>2, <2>1, <2>3, <2>4
<1>3. CASE ~listed
  <2>1. outbox' = outbox /\ outbox = <<>> /\ freed' = Deleted(bufs, {deleter}) /\ listed' = listed
    BY <1>3 DEF Write
  <2> QED
    BY <1>3, <2>1, DeletedProperties
<1> QED
  BY <1>2, <1>3

(* A package without a deleter may refer to a buffer that is there and has *)
(* no deleter in the list. Nothing else changes.                           *)
LEMMA WritePlain ==
  ASSUME ListInv, RefInv, NEW bufs \in Seq(Nat), NEW ref \in Nat, NEW close \in BOOLEAN,
         Write(bufs, ref, 0, close),
         DOMAIN freed \subseteq DOMAIN bufs, \A b \in DOMAIN freed : bufs[b] = freed[b],
         ref # 0 => ref \in DOMAIN freed /\ freed[ref] = 0 /\ ~Pending(ref)
  PROVE  /\ ListInv' /\ RefInv' /\ freed' = bufs
         /\ \A b \in Nat \ {0} : Pending(b)' <=> Pending(b)
<1>1. Len(outbox) \in Nat /\ DOMAIN outbox = 1 .. Len(outbox)
  BY LenProperties DEF ListInv
<1>2. ListInv' /\ freed' = bufs
  BY WriteProperties, DeletedNone
<1>3. CASE listed
  <2>1. /\ DOMAIN outbox' = DOMAIN outbox \cup {Len(outbox) + 1}
        /\ outbox'[Len(outbox) + 1].ref = ref
        /\ outbox'[Len(outbox) + 1].deleter = 0
        /\ \A k \in DOMAIN outbox : outbox'[k] = outbox[k]
    BY <1>3, WriteProperties
  <2>2. RefInv'
    BY <1>1, <1>2, <2>1 DEF RefInv, Pending
  <2>3. \A b \in Nat \ {0} : Pending(b)' <=> Pending(b)
    BY <1>1, <2>1 DEF Pending
  <2> QED
    BY <1>2, <2>2, <2>3
<1>4. CASE ~listed
  <2>1. outbox' = outbox /\ outbox = <<>>
    BY <1>4, WriteProperties
  <2> QED
    BY <1>2, <2>1 DEF RefInv, Pending
<1> QED
  BY <1>3, <1>4

(* The last package that refers to a buffer has the deleter for it, or the *)
(* deleter runs at once.                                                   *)
LEMMA WriteLast ==
  ASSUME ListInv, RefInv, NEW b \in DOMAIN freed, freed[b] = 0, ~Pending(b),
         NEW close \in BOOLEAN, Write(freed, b, b, close)
  PROVE  /\ ListInv' /\ RefInv' /\ DOMAIN freed' = DOMAIN freed
         /\ \A c \in DOMAIN freed : c # b => freed'[c] = freed[c] /\ (Pending(c)' <=> Pending(c))
         /\ \/ freed'[b] = 0 /\ Pending(b)'
            \/ freed'[b] = 1 /\ ~Pending(b)'
<1>1. /\ Len(outbox) \in Nat /\ DOMAIN outbox = 1 .. Len(outbox)
      /\ Len(freed) \in Nat /\ DOMAIN freed = 1 .. Len(freed) /\ freed \in Seq(Nat)
  BY LenProperties DEF ListInv
<1>a. b \in Nat /\ freed \in Seq(Nat)
  BY <1>1
<1>2. ListInv'
  BY <1>a, WriteProperties
<1>3. CASE listed
  <2>1. /\ freed' = freed
        /\ DOMAIN outbox' = DOMAIN outbox \cup {Len(outbox) + 1}
        /\ outbox'[Len(outbox) + 1].ref = b
        /\ outbox'[Len(outbox) + 1].deleter = b
        /\ \A k \in DOMAIN outbox : outbox'[k] = outbox[k]
    <3>1. freed' = freed
      BY <1>3 DEF Write
    <3>4. DOMAIN outbox' = DOMAIN outbox \cup {Len(outbox) + 1}
      BY <1>a, <1>3, WriteProperties
    <3>2. /\ outbox'[Len(outbox) + 1].ref = b
          /\ outbox'[Len(outbox) + 1].deleter = b
      BY <1>a, <1>3, WriteProperties
    <3>3. \A k \in DOMAIN outbox : outbox'[k] = outbox[k]
      BY <1>a, <1>3, WriteProperties
    <3> QED
      BY <3>1, <3>2, <3>3, <3>4
  <2>2. RefInv'
    BY <1>1, <2>1 DEF RefInv, Pending
  <2>3. \A c \in DOMAIN freed : c # b => (Pending(c)' <=> Pending(c))
    BY <1>1, <2>1 DEF Pending
  <2>4. Pending(b)'
    BY <1>1, <2>1 DEF Pending
  <2> QED
    BY <1>2, <2>1, <2>2, <2>3, <2>4
<1>4. CASE ~listed
  <2>1. freed' = Deleted(freed, {b}) /\ outbox' = outbox /\ outbox = <<>>
    BY <1>4 DEF Write, ListInv
  <2>2. /\ DOMAIN freed' = DOMAIN freed
        /\ \A c \in DOMAIN freed : freed'[c] = IF c = b THEN 1 ELSE freed[c]
    BY <1>1, <2>1, DeletedProperties
  <2>3. DOMAIN outbox = {} /\ DOMAIN outbox' = {}
    BY <2>1
  <2>4. RefInv' /\ \A c : ~Pending(c) /\ ~Pending(c)'
    BY <2>3 DEF RefInv, Pending
  <2> QED
    BY <1>2, <2>2, <2>4
<1> QED
  BY <1>3, <1>4
-----------------------------------------------------------------------------
(***************************************************************************)
(* Every step keeps the invariant.                                         *)
(***************************************************************************)

(* The processor *)
LEMMA ProcessorStep ==
  ASSUME EchoInv, Connect \/ Deliver \/ FailingRecv \/ SendFirst \/ Leave \/ CollectGarbage
  PROVE  EchoInv'
<1>1. /\ Len(outbox) \in Nat /\ DOMAIN outbox = 1 .. Len(outbox)
      /\ freed \in Seq(Nat) /\ DOMAIN freed \subseteq Nat \ {0}
  BY LenProperties DEF EchoInv, ListInv
<1>2. CASE Connect \/ Deliver \/ FailingRecv \/ Leave
  <2>1. /\ UNCHANGED <<outbox, state, freed, leaked>> /\ listed' \in {listed, TRUE}
        /\ pc' = pc \/ (pc = "read" /\ pc' = "erase")
    BY <1>2 DEF Connect, Deliver, FailingRecv, Leave, workerVars, listVars, bufferVars
  <2>2. StateInv' /\ ListInv'
    <3>1. pc' \in {"read", "client", "text", "erase"} /\ (pc' \in {"client", "text"} => pc' = pc)
      BY <2>1 DEF EchoInv, StateInv
    <3>2. StateInv'
      BY <2>1, <3>1, Zenon DEF EchoInv, StateInv
    <3>a. listed' \in BOOLEAN /\ (~listed' => ~listed)
      <4>1. listed \in BOOLEAN
        BY DEF EchoInv, ListInv
      <4>2. CASE listed' = TRUE
        BY <4>2
      <4>3. CASE listed' = listed
        BY <4>1, <4>3
      <4> QED
        BY <2>1, <4>2, <4>3
    <3>3. ListInv'
      BY <2>1, <3>a, Zenon DEF EchoInv, ListInv
    <3> QED
      BY <3>2, <3>3
  <2>3. RefInv' /\ \A b : (Pending(b)' <=> Pending(b)) /\ (Used(b)' <=> Used(b))
    BY <2>1 DEF EchoInv, RefInv, Pending, Used, InUse
  <2> QED
    BY <2>1, <2>2, <2>3 DEF EchoInv, BufferInv
<1>3. CASE SendFirst
  <2> DEFINE d == outbox[1].deleter
  <2>1. /\ outbox # <<>> /\ outbox' = Tail(outbox) /\ freed' = Deleted(freed, {d})
        /\ UNCHANGED <<state, pc, leaked, listed>>
    <3>1. Head(outbox) = outbox[1]
      BY <1>1, <1>3 DEF SendFirst, EchoInv, ListInv
    <3> QED
      BY <1>3, <3>1 DEF SendFirst, workerVars
  <2>2. /\ DOMAIN outbox' = 1 .. Len(outbox) - 1 /\ 1 \in DOMAIN outbox
        /\ \A k \in DOMAIN outbox' : outbox'[k] = outbox[k + 1] /\ k + 1 \in DOMAIN outbox
    BY <1>1, <2>1 DEF EchoInv, ListInv
  <2>3. /\ freed' \in Seq(Nat) /\ DOMAIN freed' = DOMAIN freed
        /\ \A b \in DOMAIN freed : freed'[b] = IF b = d THEN freed[b] + 1 ELSE freed[b]
    BY <1>1, <2>1, DeletedProperties
  <2>4. StateInv' /\ ListInv'
    BY <2>1, <2>3 DEF EchoInv, StateInv, ListInv
  <2>5. \A b \in DOMAIN freed : Pending(b) <=> (Pending(b)' \/ b = d)
    <3>1. \A k \in DOMAIN outbox : k = 1 \/ (k - 1 \in DOMAIN outbox' /\ outbox[k] = outbox'[k - 1])
      BY <1>1, <2>2
    <3>2. \A b : Pending(b) => Pending(b)' \/ b = d
      BY <3>1 DEF Pending
    <3> QED
      BY <2>2, <3>2 DEF Pending
  <2>a. \A k \in DOMAIN outbox' : d # 0 => outbox'[k].ref # d /\ outbox'[k].deleter # d
    <3>1. \A l \in DOMAIN outbox : 1 < l /\ d # 0 => outbox[l].ref # d /\ outbox[l].deleter # d
      BY <2>2 DEF EchoInv, RefInv
    <3>2. \A k \in DOMAIN outbox' : 1 < k + 1
      BY <1>1, <2>2
    <3> QED
      BY <2>2, <3>1, <3>2
  <2> HIDE DEF d
  <2>6. \A b \in DOMAIN freed : b = d => ~Pending(b)'
    BY <1>1, <2>a DEF Pending
  <2>7. RefInv'
    <3>1. \A k \in DOMAIN outbox' :
            /\ outbox'[k].ref # 0 => outbox'[k].ref \in DOMAIN freed /\ freed[outbox'[k].ref] = 0
            /\ outbox'[k].deleter # 0 => outbox'[k].deleter \in DOMAIN freed
      BY <2>2 DEF EchoInv, RefInv
    <3>2. \A k \in DOMAIN outbox' :
            outbox'[k].ref # 0 => freed'[outbox'[k].ref] = 0
      BY <1>1, <2>3, <2>a, <3>1
    <3>3. \A k, l \in DOMAIN outbox' :
            k < l /\ outbox'[k].deleter # 0 =>
              outbox'[l].ref # outbox'[k].deleter /\ outbox'[l].deleter # outbox'[k].deleter
      BY <1>1, <2>2 DEF EchoInv, RefInv
    <3> QED
      BY <2>3, <3>1, <3>2, <3>3 DEF RefInv
  <2>8. \A b : Used(b)' <=> Used(b)
    BY <2>1 DEF Used, InUse
  <2>9. BufferInv'
    <3> SUFFICES ASSUME NEW b \in DOMAIN freed
                 PROVE  /\ freed'[b] \in {0, 1}
                        /\ freed'[b] = 1 \/ Pending(b)' \/ Used(b) \/ b \in leaked
                        /\ freed'[b] = 1 => ~Pending(b)' /\ ~Used(b) /\ b \notin leaked
                        /\ Pending(b)' => ~Used(b) /\ b \notin leaked
                        /\ Used(b) => b \notin leaked
      BY <2>1, <2>3, <2>8 DEF BufferInv
    <3> QED
      BY <2>3, <2>5, <2>6 DEF EchoInv, BufferInv
  <2> QED
    BY <2>1, <2>3, <2>4, <2>7, <2>9 DEF EchoInv
<1>4. CASE CollectGarbage
  <2> DEFINE D == {outbox[k].deleter : k \in DOMAIN outbox}
  <2>1. /\ outbox' = <<>> /\ freed' = Deleted(freed, D) /\ listed' \in BOOLEAN
        /\ UNCHANGED <<state, pc, leaked>>
    BY <1>4 DEF CollectGarbage, workerVars
  <2>a. \A b : Pending(b) <=> b \in D
    BY DEF Pending
  <2> HIDE DEF D
  <2>2. /\ freed' \in Seq(Nat) /\ DOMAIN freed' = DOMAIN freed
        /\ \A b \in DOMAIN freed : freed'[b] = IF Pending(b) THEN freed[b] + 1 ELSE freed[b]
    BY <1>1, <2>1, <2>a, DeletedProperties
  <2>3. DOMAIN outbox' = {}
    BY <2>1
  <2>4. StateInv' /\ ListInv'
    BY <2>1, <2>2 DEF EchoInv, StateInv, ListInv
  <2>5. RefInv' /\ \A b : ~Pending(b)'
    BY <2>3 DEF RefInv, Pending
  <2>6. BufferInv'
    BY <2>1, <2>2, <2>5 DEF EchoInv, BufferInv, Used, InUse
  <2> QED
    BY <2>1, <2>2, <2>4, <2>5, <2>6 DEF EchoInv
<1> QED
  BY <1>2, <1>3, <1>4

(* The buffer of a state without all headers: a new one if there was none. *)
LEMMA HeaderBuffer ==
  ASSUME EchoInv, ~ThisConn.finished, freed' = Buffers, leaked' = leaked,
         \A b \in Nat \ {0} : Pending(b)' <=> Pending(b),
         \A b \in Nat : Used(b)' <=> b = ThisConn.buffer
  PROVE  BufferInv' /\ leaked' \subseteq DOMAIN freed'
<1> DEFINE u == ThisConn.buffer
<1>1. /\ u \in Nat \ {0} /\ DOMAIN freed' = DOMAIN freed \cup {u}
      /\ \A b \in DOMAIN freed : freed'[b] = freed[b]
      /\ state = NoState => u \notin DOMAIN freed /\ freed'[u] = 0
      /\ state # NoState => ThisConn = state /\ u \in DOMAIN freed
  BY ThisConnProperties DEF EchoInv, StateInv
<1>2. DOMAIN freed \subseteq Nat \ {0} /\ leaked \subseteq DOMAIN freed
  BY LenProperties DEF EchoInv, ListInv
<1>3. \A b \in DOMAIN freed : Used(b) <=> b = u
  <2>1. CASE state = NoState
    BY <1>1, <2>1 DEF Used, InUse
  <2>2. CASE state # NoState
    BY <1>1, <2>2 DEF Used, InUse
  <2> QED
    BY <2>1, <2>2
<1>4. state = NoState => ~Pending(u) /\ u \notin leaked
  BY <1>1, <1>2 DEF EchoInv, RefInv, Pending
<1> HIDE DEF u
<1>5. \A b \in DOMAIN freed' : Used(b)' <=> b = u
  BY <1>1, <1>2 DEF u
<1>6. \A b \in DOMAIN freed' : Pending(b)' <=> Pending(b)
  BY <1>1, <1>2
<1>7. BufferInv'
  <2> SUFFICES ASSUME NEW b \in DOMAIN freed'
               PROVE  /\ freed'[b] \in {0, 1}
                      /\ freed'[b] = 1 \/ Pending(b) \/ b = u \/ b \in leaked
                      /\ freed'[b] = 1 => ~Pending(b) /\ b # u /\ b \notin leaked
                      /\ Pending(b) => b # u /\ b \notin leaked
                      /\ b = u => b \notin leaked
    BY <1>5, <1>6 DEF BufferInv
  <2>1. CASE b \in DOMAIN freed
    BY <1>1, <1>3, <2>1 DEF EchoInv, BufferInv
  <2>2. CASE b \notin DOMAIN freed
    BY <1>1, <1>4, <2>2
  <2> QED
    BY <2>1, <2>2
<1> QED
  BY <1>1, <1>2, <1>7

(* A piece of the headers is appended to the buffer. *)
LEMMA MoreHeaderStep ==
  ASSUME EchoInv, MoreHeader
  PROVE  EchoInv'
<1>1. /\ IsState(ThisConn) /\ ThisConn.finished = state.finished
      /\ Buffers \in Seq(Nat) /\ ThisConn.buffer \in Nat \ {0}
      /\ DOMAIN Buffers = DOMAIN freed \cup {ThisConn.buffer}
      /\ \A b \in DOMAIN freed : Buffers[b] = freed[b]
  BY ThisConnProperties
<1>2. /\ pc = "read" /\ ~ThisConn.finished /\ freed' = Buffers
      /\ UNCHANGED <<listed, outbox, pc, leaked>>
      /\ \E c : state' = [ThisConn EXCEPT !.content = c]
  BY DEF MoreHeader, listVars
<1>3. IsState(state') /\ state'.finished = ThisConn.finished /\ state'.buffer = ThisConn.buffer
  <2>1. PICK c : state' = [ThisConn EXCEPT !.content = c]
    BY <1>2
  <2> QED
    BY <1>1, <2>1, AppendedState
<1>4. state' # NoState
  BY <1>1, <1>3 DEF NoState
<1>5. StateInv' /\ ListInv'
  BY <1>1, <1>2, <1>3 DEF EchoInv, StateInv, ListInv
<1>6. RefInv' /\ \A b : Pending(b)' <=> Pending(b)
  BY <1>1, <1>2 DEF EchoInv, RefInv, Pending
<1>7. \A b : Used(b)' <=> b = ThisConn.buffer
  BY <1>2, <1>3, <1>4 DEF Used, InUse
<1>8. BufferInv' /\ leaked' \subseteq DOMAIN freed'
  BY <1>2, <1>6, <1>7, HeaderBuffer
<1> QED
  BY <1>5, <1>6, <1>8 DEF EchoInv

(* The headers are complete, and the response header is written. *)
LEMMA HeaderFinishedStep ==
  ASSUME EchoInv, HeaderFinished
  PROVE  EchoInv'
<1>1. /\ IsState(ThisConn) /\ ThisConn.finished = state.finished
      /\ Buffers \in Seq(Nat) /\ ThisConn.buffer \in Nat \ {0}
      /\ DOMAIN Buffers = DOMAIN freed \cup {ThisConn.buffer}
      /\ \A b \in DOMAIN freed : Buffers[b] = freed[b]
  BY ThisConnProperties
<1>2. /\ pc = "read" /\ ~ThisConn.finished /\ pc' = "client" /\ leaked' = leaked
      /\ Write(Buffers, 0, 0, FALSE)
  BY DEF HeaderFinished
<1>3. PICK n : state' = [ThisConn EXCEPT !.finished = TRUE, !.len = n, !.content = <<>>]
  BY DEF HeaderFinished
<1>5. IsState(state') /\ state'.finished = TRUE /\ state'.buffer = ThisConn.buffer
  BY <1>1, <1>3, FinishedState
<1>6. ListInv' /\ RefInv' /\ freed' = Buffers /\ \A b \in Nat \ {0} : Pending(b)' <=> Pending(b)
  BY <1>1, <1>2, WritePlain DEF EchoInv
<1>7. state' # NoState
  BY <1>1, <1>5 DEF NoState
<1>8. StateInv'
  BY <1>1, <1>2, <1>5, <1>6 DEF StateInv
<1>9. \A b : Used(b)' <=> b = ThisConn.buffer
  BY <1>2, <1>5, <1>7 DEF Used, InUse
<1>10. BufferInv' /\ leaked' \subseteq DOMAIN freed'
  BY <1>2, <1>6, <1>9, HeaderBuffer
<1> QED
  BY <1>6, <1>8, <1>10 DEF EchoInv

(* A buffer in use is in no other place. *)
LEMMA UsedBuffer ==
  ASSUME EchoInv, pc \in {"client", "text"}
  PROVE  /\ state # NoState /\ state.finished = TRUE
         /\ state.buffer \in DOMAIN freed /\ freed[state.buffer] = 0
         /\ ~Pending(state.buffer) /\ state.buffer \notin leaked
         /\ \A b : Used(b) <=> b = state.buffer
<1>1. state # NoState /\ state.finished = TRUE /\ state.buffer \in DOMAIN freed
  BY DEF EchoInv, StateInv, NoState
<1>2. \A b : Used(b) <=> b = state.buffer
  BY <1>1 DEF Used, InUse
<1> QED
  BY <1>1, <1>2 DEF EchoInv, BufferInv

(* The package with the deleter ends the use of the buffer. *)
LEMMA LastPackage ==
  ASSUME EchoInv, pc \in {"client", "text"}, NEW close \in BOOLEAN,
         Write(freed, state.buffer, state.buffer, close),
         leaked' = leaked, \A b : ~Used(b)', StateInv'
  PROVE  EchoInv'
<1>u. PICK u : u = state.buffer
  OBVIOUS
<1>1. /\ u \in DOMAIN freed /\ freed[u] = 0 /\ ~Pending(u) /\ u \notin leaked
      /\ \A b : Used(b) <=> b = u
  BY <1>u, UsedBuffer
<1>2. Write(freed, u, u, close)
  BY <1>u
<1>3. /\ ListInv' /\ RefInv' /\ DOMAIN freed' = DOMAIN freed
      /\ \A c \in DOMAIN freed : c # u => freed'[c] = freed[c] /\ (Pending(c)' <=> Pending(c))
      /\ \/ freed'[u] = 0 /\ Pending(u)'
         \/ freed'[u] = 1 /\ ~Pending(u)'
  BY <1>1, <1>2, WriteLast DEF EchoInv
<1>4. BufferInv'
  <2> SUFFICES ASSUME NEW b \in DOMAIN freed
               PROVE  /\ freed'[b] \in {0, 1}
                      /\ freed'[b] = 1 \/ Pending(b)' \/ b \in leaked
                      /\ freed'[b] = 1 => ~Pending(b)' /\ b \notin leaked
                      /\ Pending(b)' => b \notin leaked
    BY <1>3 DEF BufferInv
  <2>1. CASE b = u
    <3>1. \/ freed'[u] = 0 /\ Pending(u)'
          \/ freed'[u] = 1 /\ ~Pending(u)'
      BY <1>3
    <3>2. u \notin leaked
      BY <1>1
    <3> QED
      BY <2>1, <3>1, <3>2
  <2>2. CASE b # u
    BY <1>1, <1>3, <2>2 DEF EchoInv, BufferInv
  <2> QED
    BY <2>1, <2>2
<1> QED
  BY <1>3, <1>4 DEF EchoInv

(* The buffers that there are stay the same. *)
LEMMA WriteKeepsDomain ==
  ASSUME NEW bufs \in Seq(Nat), NEW ref, NEW deleter, NEW close, Write(bufs, ref, deleter, close)
  PROVE  DOMAIN freed' = DOMAIN bufs
<1>1. freed' \in {bufs, Deleted(bufs, {deleter})}
  BY DEF Write
<1> QED
  BY <1>1, DeletedProperties

(* The client's headers: the last package, or one without a deleter. *)
LEMMA EchoClientHeaderStep ==
  ASSUME EchoInv, EchoClientHeader
  PROVE  EchoInv'
<1> DEFINE u == state.buffer
<1>1. /\ state # NoState /\ state.finished = TRUE
      /\ u \in DOMAIN freed /\ freed[u] = 0 /\ ~Pending(u) /\ u \notin leaked
      /\ \A b : Used(b) <=> b = u
  BY UsedBuffer DEF EchoClientHeader
<1>2. /\ freed \in Seq(Nat) /\ DOMAIN freed \subseteq Nat \ {0}
      /\ leaked \subseteq DOMAIN freed
  BY LenProperties DEF EchoInv, ListInv
<1>3. CASE state.len # 0
  <2>1. /\ Write(freed, u, 0, FALSE) /\ state' = state /\ pc' \in {"text", "read"}
        /\ leaked' = IF pc' = "text" THEN leaked ELSE leaked \cup {u}
    BY <1>3 DEF EchoClientHeader
  <2> HIDE DEF u
  <2>2. ListInv' /\ RefInv' /\ freed' = freed /\ \A b \in Nat \ {0} : Pending(b)' <=> Pending(b)
    BY <1>1, <1>2, <2>1, WritePlain DEF EchoInv
  <2>3. StateInv'
    BY <1>1, <2>1, <2>2 DEF EchoInv, StateInv
  <2>4. CASE pc' = "text"
    <3>1. \A b : Used(b)' <=> b = u
      BY <1>1, <2>1, <2>4 DEF Used, InUse, u
    <3>2. BufferInv'
      BY <1>1, <1>2, <2>1, <2>2, <2>4, <3>1 DEF EchoInv, BufferInv
    <3> QED
      BY <1>2, <2>1, <2>2, <2>3, <2>4, <3>2 DEF EchoInv
  <2>5. CASE pc' = "read"
    <3>1. \A b : ~Used(b)'
      BY <1>1, <2>1, <2>5 DEF Used, InUse
    <3>2. BufferInv'
      BY <1>1, <1>2, <2>1, <2>2, <2>5, <3>1 DEF EchoInv, BufferInv
    <3> QED
      BY <1>1, <1>2, <2>1, <2>2, <2>3, <2>5, <3>2 DEF EchoInv
  <2> QED
    BY <2>1, <2>4, <2>5
<1>4. CASE state.len = 0
  <2>1. /\ Write(freed, state.buffer, state.buffer, TRUE)
        /\ state' = state /\ pc = "client" /\ pc' = "erase" /\ leaked' = leaked
    BY <1>4 DEF EchoClientHeader
  <2>2. \A b : ~Used(b)'
    BY <1>1, <2>1 DEF Used, InUse
  <2>3. StateInv'
    <3>1. DOMAIN freed' = DOMAIN freed
      BY <1>2, <2>1, WriteKeepsDomain
    <3> QED
      BY <1>1, <2>1, <3>1 DEF EchoInv, StateInv
  <2> QED
    BY <2>1, <2>2, <2>3, LastPackage
<1> QED
  BY <1>3, <1>4

(* The text that came with the headers *)
LEMMA EchoTextStep ==
  ASSUME EchoInv, EchoText
  PROVE  EchoInv'
<1>1. /\ Write(freed, state.buffer, state.buffer, FALSE)
      /\ pc = "text" /\ pc' = "read" /\ leaked' = leaked
      /\ state' = [state EXCEPT !.len = @ - text]
  BY DEF EchoText
<1>2. /\ state # NoState /\ state.finished = TRUE /\ state.buffer \in DOMAIN freed
      /\ IsState(state) /\ state.buffer \in Nat
  BY <1>1, UsedBuffer DEF EchoInv, StateInv
<1>3. IsState(state') /\ state'.finished = TRUE /\ state'.buffer = state.buffer
  BY <1>1, <1>2, LenState
<1>4. \A b : ~Used(b)'
  BY <1>1, <1>3 DEF Used, InUse
<1>5. DOMAIN freed' = DOMAIN freed
  BY <1>1, WriteKeepsDomain DEF EchoInv, ListInv
<1>6. StateInv'
  BY <1>1, <1>2, <1>3, <1>5 DEF StateInv
<1> QED
  BY <1>1, <1>4, <1>6, LastPackage

(* A package after the headers refers to no buffer. *)
LEMMA EchoBodyStep ==
  ASSUME EchoInv, EchoBody
  PROVE  EchoInv'
<1> DEFINE len == state.len - Head(inbox).size
<1>1. /\ pc = "read" /\ pc' \in {"read", "erase"} /\ state.finished /\ leaked' = leaked
      /\ Write(freed, 0, 0, len <= 0)
      /\ state' = [state EXCEPT !.len = len]
  BY DEF EchoBody
<1>2. freed \in Seq(Nat) /\ DOMAIN freed \subseteq Nat \ {0}
  BY LenProperties DEF EchoInv, ListInv
<1>3. ListInv' /\ RefInv' /\ freed' = freed /\ \A b \in Nat \ {0} : Pending(b)' <=> Pending(b)
  <2>1. (len <= 0) \in BOOLEAN
    OBVIOUS
  <2> QED
    BY <1>1, <1>2, <2>1, WritePlain DEF EchoInv
<1> HIDE DEF len
<1>4. StateInv' /\ \A b : ~Used(b)'
  <2>1. IsState(state') /\ state'.finished = state.finished /\ state'.buffer = state.buffer
    BY <1>1, LenState DEF EchoInv, StateInv
  <2>2. state # NoState /\ state.finished = TRUE
    BY <1>1 DEF EchoInv, StateInv, NoState
  <2> QED
    BY <1>1, <1>3, <2>1, <2>2 DEF EchoInv, StateInv, Used, InUse
<1>5. \A b : ~Used(b)
  BY <1>1 DEF Used, InUse
<1>6. BufferInv'
  BY <1>1, <1>2, <1>3, <1>4, <1>5 DEF EchoInv, BufferInv
<1> QED
  BY <1>1, <1>3, <1>4, <1>6 DEF EchoInv

(* Whatever state is erased, its buffer was handed over, or is lost. *)
LEMMA EraseStep ==
  ASSUME EchoInv, Erase
  PROVE  EchoInv'
<1>1. pc = "erase" /\ pc' = "read" /\ UNCHANGED <<listed, outbox, freed>>
  BY DEF Erase, listVars
<1>2. ListInv' /\ RefInv' /\ \A b : Pending(b)' <=> Pending(b)
  BY <1>1 DEF EchoInv, ListInv, RefInv, Pending
<1>3. CASE state' = state /\ leaked' = leaked
  <2>1. StateInv' /\ \A b : Used(b)' <=> Used(b)
    BY <1>1, <1>3 DEF EchoInv, StateInv, Used, InUse
  <2> QED
    BY <1>1, <1>2, <1>3, <2>1 DEF EchoInv, BufferInv
<1>4. CASE /\ state' = NoState
           /\ leaked' = IF state # NoState /\ ~state.finished THEN leaked \cup {state.buffer}
                                                              ELSE leaked
  <2>1. StateInv' /\ \A b : ~Used(b)'
    BY <1>1, <1>4 DEF StateInv, IsState, NoState, Used, InUse
  <2>2. \A b : Used(b) <=> state # NoState /\ ~state.finished /\ b = state.buffer
    BY <1>1 DEF Used, InUse
  <2>3. leaked' \subseteq DOMAIN freed'
    BY <1>1, <1>4 DEF EchoInv, StateInv
  <2>4. \A b : b \in leaked' <=> b \in leaked \/ Used(b)
    BY <1>4, <2>2
  <2>5. BufferInv'
    <3> SUFFICES ASSUME NEW b \in DOMAIN freed
                 PROVE  /\ freed[b] \in {0, 1}
                        /\ freed[b] = 1 \/ Pending(b) \/ b \in leaked'
                        /\ freed[b] = 1 => ~Pending(b) /\ b \notin leaked'
                        /\ Pending(b) => b \notin leaked'
      BY <1>1, <1>2, <2>1 DEF BufferInv
    <3> QED
      BY <2>4 DEF EchoInv, BufferInv
  <2> QED
    BY <1>2, <2>1, <2>3, <2>5 DEF EchoInv
<1> QED
  BY <1>3, <1>4 DEF Erase

LEMMA EchoInvInductive ==
  /\ Init => EchoInv
  /\ EchoInv /\ [Next]_vars => EchoInv'
<1>1. Init => EchoInv
  <2> SUFFICES ASSUME Init PROVE EchoInv
    OBVIOUS
  <2>1. StateInv /\ ListInv
    <3>1. IsState(NoState) /\ NoState.finished = FALSE /\ NoState.buffer = 0
      BY DEF IsState, NoState
    <3>2. StateInv
      <4>1. state = NoState /\ pc = "read"
        BY DEF Init
      <4>2. IsState(state) /\ state.finished = FALSE /\ state.buffer = 0
        BY <3>1, <4>1, Zenon
      <4>3. state.buffer \in Nat
        BY <4>2
      <4>4. state.finished \in BOOLEAN
        BY <4>2, Zenon
      <4> QED
        BY <4>1, <4>2, <4>3, <4>4, Zenon DEF StateInv
    <3>3. ListInv
      BY EmptySeq DEF Init, ListInv
    <3> QED
      BY <3>2, <3>3
  <2>2. DOMAIN outbox = {} /\ DOMAIN freed = {} /\ leaked = {}
    BY DEF Init
  <2> QED
    BY <2>1, <2>2 DEF EchoInv, RefInv, BufferInv
<1>2. ASSUME EchoInv, [Next]_vars PROVE EchoInv'
  <2>1. CASE UNCHANGED vars
    <3>1. UNCHANGED <<state, pc, freed, outbox, listed, leaked>>
      BY <2>1 DEF vars, workerVars, listVars, bufferVars
    <3>2. StateInv' /\ ListInv'
      BY <1>2, <3>1 DEF EchoInv, StateInv, ListInv
    <3>3. RefInv' /\ \A b : (Pending(b)' <=> Pending(b)) /\ (Used(b)' <=> Used(b))
      BY <1>2, <3>1 DEF EchoInv, RefInv, Pending, Used, InUse
    <3> QED
      BY <1>2, <3>1, <3>2, <3>3 DEF EchoInv, BufferInv
  <2>2. CASE Next
    BY <1>2, <2>2, ProcessorStep, MoreHeaderStep, HeaderFinishedStep,
       EchoClientHeaderStep, EchoTextStep, EchoBodyStep, EraseStep DEF Next
  <2> QED
    BY <1>2, <2>1, <2>2
<1> QED
  BY <1>1, <1>2

(* EchoInv holds whatever the clients, the processor and echo_worker do.   *)
THEOREM EchoInvHolds == Spec => []EchoInv
BY EchoInvInductive, PTL DEF Spec
-----------------------------------------------------------------------------
(* echo_worker and write_handler use no buffer that a deleter has freed,   *)
(* although packages are sent, cancelled and refused at any time.          *)
THEOREM BuffersOutliveReferences == Spec => []NoUseAfterFree
<1>1. EchoInv => NoUseAfterFree
  <2> SUFFICES ASSUME EchoInv PROVE NoUseAfterFree
    OBVIOUS
  <2>1. InUse => state.buffer \in DOMAIN freed /\ Used(state.buffer)
    BY DEF EchoInv, StateInv, Used, InUse
  <2>2. InUse => freed[state.buffer] = 0
    BY <2>1 DEF EchoInv, BufferInv
  <2> QED
    BY <2>2 DEF NoUseAfterFree, EchoInv, RefInv
<1> QED
  BY <1>1, EchoInvHolds, PTL

(* Every buffer is freed once, is about to be, or is one of those that     *)
(* never get a deleter; none is freed twice.                               *)
THEOREM BuffersFreedOnce == Spec => []BufferFreedOnce
<1>1. EchoInv => BufferFreedOnce
  <2> SUFFICES ASSUME EchoInv, NEW b \in DOMAIN freed
               PROVE  freed[b] + Cardinality({k \in DOMAIN outbox : outbox[k].deleter = b})
                      + (IF InUse /\ state.buffer = b THEN 1 ELSE 0)
                      + (IF b \in leaked THEN 1 ELSE 0) = 1
    BY DEF BufferFreedOnce
  <2> DEFINE K == {k \in DOMAIN outbox : outbox[k].deleter = b}
  <2>1. b # 0 /\ DOMAIN outbox \subseteq Nat
    BY LenProperties DEF EchoInv, ListInv
  <2>2. Cardinality(K) = IF Pending(b) THEN 1 ELSE 0
    <3>1. CASE ~Pending(b)
      <4>1. K = {}
        BY <3>1 DEF Pending
      <4> QED
        BY <3>1, <4>1, FS_EmptySet
    <3>2. CASE Pending(b)
      <4>1. PICK k \in DOMAIN outbox : outbox[k].deleter = b
        BY <3>2 DEF Pending
      <4>2. \A l \in K : l = k
        BY <2>1, <4>1 DEF EchoInv, RefInv
      <4>3. K = {k}
        BY <4>1, <4>2
      <4> QED
        BY <3>2, <4>3, FS_Singleton
    <3> QED
      BY <3>1, <3>2
  <2> HIDE DEF K
  <2>3. freed[b] + Cardinality(K) + (IF Used(b) THEN 1 ELSE 0) + (IF b \in leaked THEN 1 ELSE 0) = 1
    BY <2>2 DEF EchoInv, BufferInv
  <2> QED
    BY <2>3 DEF K, Used
<1> QED
  BY <1>1, EchoInvHolds, PTL
-----------------------------------------------------------------------------
(***************************************************************************)
(* The reply to a request                                                  *)
(***************************************************************************)
States == [len : Int, finished : BOOLEAN, buffer : Nat, content : Seq(Units)]
Packages == [data : Seq(Units), size : Int, conn : Nat]

ReplyTypes ==
  /\ conn \in 0 .. MaxConns /\ request \in Requests \cup {<<>>} /\ sent \in Nat
  /\ alive \in {"open", "closed", "collected"}
  /\ inbox \in Seq(Packages) /\ Len(inbox) <= MaxInbox
  /\ \A k \in DOMAIN inbox : inbox[k].conn <= conn
  /\ state \in States /\ hand \in 0 .. conn
  /\ headers \in Nat /\ text \in Nat
  /\ reply \in Replies

(* s is what r has from behind its unit m up to its unit n.                *)
IsPart(r, s, m, n) ==
  /\ s \in Seq(Units) /\ m <= n /\ n <= Len(r) /\ Len(s) = n - m
  /\ \A i \in 1 .. n - m : s[i] = r[m + i]

(* The packages in the inbox have what follows read, in its order: at says *)
(* where each begins.                                                      *)
PiecesInv ==
  /\ request \in Requests /\ sent <= Len(request)
  /\ \E at \in [1 .. Len(inbox) + 1 -> Nat] :
       /\ at[1] = reply.read /\ at[Len(inbox) + 1] = sent
       /\ \A k \in 1 .. Len(inbox) + 1 : at[k] <= sent
       /\ \A k \in 1 .. Len(inbox) :
            /\ at[k] < at[k + 1] /\ IsPart(request, inbox[k].data, at[k], at[k + 1])
            /\ inbox[k].size = at[k + 1] - at[k]

TextLen == Len(request) - HeaderEnd(request)

(* The stages of a reply. len is what is still to be echoed, unless all    *)
(* the text came with the headers.                                         *)
InHeaders ==
  /\ pc = "read" /\ ~state.finished
  /\ IsPart(request, state.content, 0, reply.read) /\ HeaderEnd(state.content) = 0
  /\ reply.announced = -1 /\ reply.written = 0
  /\ ~reply.closed /\ ~reply.afterClose /\ ~reply.whole

Answered ==
  /\ pc \in {"read", "client", "text"}
  /\ HeaderEnd(request) <= reply.read /\ state.finished
  /\ reply.announced # -1 /\ ~reply.closed /\ ~reply.afterClose
  /\ reply.announced = reply.written + state.len + (IF pc = "client" THEN headers ELSE 0)
  /\ pc # "read" =>
       /\ state.len = Parsed(TextLen) /\ text = reply.read - HeaderEnd(request)
       /\ reply.whole <=> Parsed(TextLen) # 0 /\ reply.read = Len(request)
       /\ pc = "text" => state.len # 0
  /\ pc = "read" =>
       IF reply.whole THEN reply.read = Len(request)
       ELSE /\ reply.read < Len(request)
            /\ state.len = Parsed(TextLen) - (reply.read - HeaderEnd(request))

(* What follows an early end is collected as headers until an empty line.  *)
ReplyDone ==
  /\ reply.closed /\ reply.announced # -1 /\ reply.written >= reply.announced
  /\ reply.taken <= reply.read
  /\ reply.afterClose => \E i \in reply.taken + 1 .. reply.read : request[i] = EmptyLine
  /\ ~reply.afterClose /\ pc # "read" => pc = "erase" /\ reply.taken = reply.read
  /\ ~reply.afterClose /\ pc = "read" =>
       /\ ~state.finished
       /\ IsPart(request, state.content, reply.taken, reply.read) /\ HeaderEnd(state.content) = 0

ReplyInv ==
  reply.followed => PiecesInv /\ (InHeaders \/ Answered \/ ReplyDone)
-----------------------------------------------------------------------------
LEMMA LeastNatural ==
  ASSUME NEW T, T \subseteq Nat, T # {}
  PROVE  \E x \in T : \A y \in T : x <= y
<1>1. PICK x \in T : \A y \in T : ~(<<y, x>> \in OpToRel(<, Nat))
  BY NatLessThanWellFounded, WFMin
<1>2. \A y \in T : ~(y < x)
  BY <1>1 DEF OpToRel
<1> QED
  BY <1>2

(* The number that is read is not above the one that was written.          *)
LEMMA ParsedBounds ==
  ASSUME NEW n \in Nat
  PROVE  Parsed(n) \in 0 .. n
<1>1. CASE n = 0
  BY <1>1 DEF Parsed
<1>2. CASE n # 0
  <2> DEFINE weights == {w \in 1 .. n : w = 1 \/ \E k \in 1 .. n : w = Power(k)}
             heaviest == CHOOSE w \in weights : \A v \in weights : v <= w
             T == {n - w : w \in weights}
  <2>1. 1 \in weights /\ weights \subseteq 1 .. n
    BY <1>2
  <2>2. Parsed(n) = n % heaviest
    BY <1>2 DEF Parsed
  <2>3. T \subseteq Nat /\ T # {}
    <3> HIDE DEF weights
    <3> QED
      BY <2>1
  <2>4. PICK x \in T : \A y \in T : x <= y
    <3> HIDE DEF T
    <3> QED
      BY <2>3, LeastNatural
  <2>5. PICK w \in weights : x = n - w
    BY <2>4
  <2> HIDE DEF weights
  <2>6. \A v \in weights : v <= w
    BY <2>1, <2>4, <2>5
  <2>7. heaviest \in weights
    BY <2>5, <2>6
  <2> HIDE DEF heaviest
  <2> QED
    BY <2>1, <2>2, <2>7
<1> QED
  BY <1>1, <1>2

(* strstr finds the first place, if there is one.                          *)
LEMMA FirstPlace ==
  ASSUME NEW c \in Seq(Units), NEW I, I \subseteq 1 .. Len(c), NEW f,
         f = IF I # {} THEN Min(I) ELSE 0
  PROVE  /\ f \in 0 .. Len(c) /\ (f = 0 <=> I = {})
         /\ f # 0 => f \in I /\ \A i \in I : f <= i
<1>1. Len(c) \in Nat
  BY LenProperties
<1>2. CASE I = {}
  BY <1>1, <1>2
<1>3. CASE I # {}
  <2>1. I \subseteq Nat
    BY <1>1
  <2>2. \E x \in I : \A y \in I : x <= y
    BY <1>3, <2>1, LeastNatural
  <2>3. Min(I) \in I /\ \A y \in I : Min(I) <= y
    BY <2>2 DEF Min
  <2>4. f \in I /\ \A y \in I : f <= y
    BY <1>3, <2>3
  <2>5. f \in 1 .. Len(c)
    BY <2>4
  <2> QED
    BY <1>1, <1>3, <2>4, <2>5
<1> QED
  BY <1>2, <1>3

LEMMA HeaderEndFinds ==
  ASSUME NEW c \in Seq(Units)
  PROVE  /\ HeaderEnd(c) \in 0 .. Len(c)
         /\ HeaderEnd(c) = 0 <=> \A i \in 1 .. Len(c) : c[i] # EmptyLine
         /\ HeaderEnd(c) # 0 => /\ c[HeaderEnd(c)] = EmptyLine
                                /\ \A i \in 1 .. Len(c) : c[i] = EmptyLine => HeaderEnd(c) <= i
<1> DEFINE I == {i \in 1 .. Len(c) : c[i] = EmptyLine}
<1>1. HeaderEnd(c) = IF I # {} THEN Min(I) ELSE 0
  BY DEF HeaderEnd, SelectInSeq
<1>2. I \subseteq 1 .. Len(c)
  OBVIOUS
<1>3. \A i \in 1 .. Len(c) : i \in I <=> c[i] = EmptyLine
  OBVIOUS
<1> HIDE DEF I
<1> QED
  BY <1>1, <1>2, <1>3, FirstPlace

(* The place of the first number *)
NumberAt(c) == SelectInSeq(c, LAMBDA u : u \in Nat)

LEMMA NumberAtFinds ==
  ASSUME NEW c \in Seq(Units)
  PROVE  /\ NumberAt(c) \in 0 .. Len(c)
         /\ NumberAt(c) = 0 <=> \A i \in 1 .. Len(c) : c[i] \notin Nat
         /\ NumberAt(c) # 0 => /\ c[NumberAt(c)] \in Nat
                               /\ \A i \in 1 .. Len(c) : c[i] \in Nat => NumberAt(c) <= i
         /\ Declared(c) = IF NumberAt(c) = 0 THEN 0 ELSE c[NumberAt(c)]
         /\ Declared(c) \in Nat
<1> DEFINE I == {i \in 1 .. Len(c) : c[i] \in Nat}
<1>1. NumberAt(c) = IF I # {} THEN Min(I) ELSE 0
  BY DEF NumberAt, SelectInSeq
<1>2. I \subseteq 1 .. Len(c)
  OBVIOUS
<1>3. \A i \in 1 .. Len(c) : i \in I <=> c[i] \in Nat
  OBVIOUS
<1> HIDE DEF I
<1>4. /\ NumberAt(c) \in 0 .. Len(c)
      /\ NumberAt(c) = 0 <=> \A i \in 1 .. Len(c) : c[i] \notin Nat
      /\ NumberAt(c) # 0 => /\ c[NumberAt(c)] \in Nat
                            /\ \A i \in 1 .. Len(c) : c[i] \in Nat => NumberAt(c) <= i
  BY <1>1, <1>2, <1>3, FirstPlace
<1>5. Declared(c) = IF NumberAt(c) = 0 THEN 0 ELSE c[NumberAt(c)]
  BY DEF Declared, NumberAt
<1> QED
  BY <1>4, <1>5

(* A request has headers, and the text they announce.                      *)
LEMMA RequestProperties ==
  ASSUME NEW r \in Requests
  PROVE  /\ r \in Seq(Units) /\ Len(r) \in Nat /\ HeaderEnd(r) \in 1 .. Len(r)
         /\ SubSeq(r, 1, HeaderEnd(r)) \in Seq(Units)
         /\ Len(SubSeq(r, 1, HeaderEnd(r))) = HeaderEnd(r)
         /\ \A i \in 1 .. HeaderEnd(r) : SubSeq(r, 1, HeaderEnd(r))[i] = r[i]
         /\ Declared(SubSeq(r, 1, HeaderEnd(r))) = Len(r) - HeaderEnd(r)
<1>1. IsRequest(r)
  BY EchoAssumption
<1>2. r \in Seq(Units) /\ Len(r) \in Nat /\ HeaderEnd(r) \in 1 .. Len(r)
  BY <1>1, HeaderEndFinds, LenProperties DEF IsRequest
<1>3. /\ SubSeq(r, 1, HeaderEnd(r)) \in Seq(Units)
      /\ Len(SubSeq(r, 1, HeaderEnd(r))) = HeaderEnd(r)
      /\ \A i \in 1 .. HeaderEnd(r) : SubSeq(r, 1, HeaderEnd(r))[i] = r[i]
  BY <1>2, SubSeqProperties
<1> QED
  BY <1>1, <1>2, <1>3 DEF IsRequest

(* However much of the request is in the buffer: once the empty line is    *)
(* there, the headers end where they do, and the length is the text's.     *)
LEMMA BufferHasHeaders ==
  ASSUME NEW r \in Requests, NEW n \in Nat, NEW c, IsPart(r, c, 0, n), HeaderEnd(c) # 0
  PROVE  HeaderEnd(c) = HeaderEnd(r) /\ HeaderEnd(r) <= n /\ Declared(c) = Len(r) - HeaderEnd(r)
<1> DEFINE e == HeaderEnd(r)
           h == SubSeq(r, 1, e)
<1>1. /\ r \in Seq(Units) /\ Len(r) \in Nat /\ e \in 1 .. Len(r)
      /\ h \in Seq(Units) /\ Len(h) = e /\ \A i \in 1 .. e : h[i] = r[i]
      /\ Declared(h) = Len(r) - e
  BY RequestProperties
<1>2. c \in Seq(Units) /\ Len(c) = n /\ n <= Len(r) /\ \A i \in 1 .. n : c[i] = r[i]
  BY DEF IsPart
<1>3. HeaderEnd(c) = e /\ e <= n
  <2>1. HeaderEnd(c) \in 1 .. n /\ c[HeaderEnd(c)] = EmptyLine
        /\ \A i \in 1 .. n : c[i] = EmptyLine => HeaderEnd(c) <= i
    BY <1>2, HeaderEndFinds
  <2>2. r[e] = EmptyLine /\ \A i \in 1 .. Len(r) : r[i] = EmptyLine => e <= i
    BY <1>1, HeaderEndFinds
  <2>3. e <= HeaderEnd(c)
    <3>1. PICK f : f = HeaderEnd(c)
      OBVIOUS
    <3> HIDE DEF e
    <3>2. f \in 1 .. Len(r) /\ r[f] = EmptyLine
      BY <1>1, <1>2, <2>1, <3>1
    <3> QED
      BY <2>2, <3>1, <3>2
  <2>4. HeaderEnd(c) <= e
    BY <1>1, <1>2, <2>1, <2>2, <2>3
  <2> QED
    BY <1>1, <2>1, <2>3, <2>4
<1> HIDE DEF e, h
<1>4. CASE NumberAt(h) = 0
  <2>1. Len(r) = e /\ \A i \in 1 .. e : h[i] \notin Nat
    BY <1>1, <1>4, NumberAtFinds
  <2>2. \A i \in 1 .. n : c[i] \notin Nat
    BY <1>1, <1>2, <2>1
  <2>3. Declared(c) = 0
    BY <1>2, <2>2, NumberAtFinds
  <2> QED
    BY <1>1, <1>3, <2>1, <2>3 DEF e
<1>5. CASE NumberAt(h) # 0
  <2>1. /\ NumberAt(h) \in 1 .. e /\ h[NumberAt(h)] \in Nat
        /\ \A i \in 1 .. e : h[i] \in Nat => NumberAt(h) <= i
        /\ Declared(h) = h[NumberAt(h)]
    BY <1>1, <1>5, NumberAtFinds
  <2>2. c[NumberAt(h)] = h[NumberAt(h)] /\ NumberAt(h) \in 1 .. n
    BY <1>1, <1>2, <1>3, <2>1
  <2>3. NumberAt(c) \in 1 .. n /\ c[NumberAt(c)] \in Nat /\ NumberAt(c) <= NumberAt(h)
        /\ Declared(c) = c[NumberAt(c)]
    BY <1>2, <2>1, <2>2, NumberAtFinds
  <2>4. NumberAt(c) \in 1 .. e /\ h[NumberAt(c)] = c[NumberAt(c)]
    BY <1>1, <1>2, <1>3, <2>1, <2>3
  <2>5. NumberAt(c) = NumberAt(h)
    BY <1>1, <2>1, <2>3, <2>4
  <2> QED
    BY <1>1, <1>3, <2>1, <2>2, <2>3, <2>5 DEF e
<1> QED
  BY <1>4, <1>5

(* A package that follows what is in the buffer is appended to it.         *)
LEMMA PartAppended ==
  ASSUME NEW r, NEW l \in Nat, NEW m \in Nat, NEW n \in Nat, NEW s, NEW t,
         IsPart(r, s, l, m), IsPart(r, t, m, n)
  PROVE  IsPart(r, s \o t \o <<>>, l, n)
<1>1. /\ s \in Seq(Units) /\ Len(s) = m - l /\ l <= m /\ \A i \in 1 .. m - l : s[i] = r[l + i]
      /\ t \in Seq(Units) /\ Len(t) = n - m /\ m <= n /\ n <= Len(r)
      /\ \A i \in 1 .. n - m : t[i] = r[m + i]
  BY DEF IsPart
<1> DEFINE u == s \o t
<1>2. /\ u \in Seq(Units) /\ Len(u) = n - l
      /\ \A i \in 1 .. n - l : u[i] = IF i <= m - l THEN s[i] ELSE t[i - (m - l)]
  <2>1. Len(s) + Len(t) = n - l
    BY <1>1
  <2>2. /\ u \in Seq(Units) /\ Len(u) = Len(s) + Len(t)
        /\ \A i \in 1 .. Len(s) + Len(t) : u[i] = IF i <= Len(s) THEN s[i] ELSE t[i - Len(s)]
    BY <1>1, ConcatProperties
  <2> HIDE DEF u
  <2> QED
    BY <1>1, <2>1, <2>2
<1>3. \A i \in 1 .. n - l : u[i] = r[l + i]
  <2> SUFFICES ASSUME NEW i \in 1 .. n - l PROVE u[i] = r[l + i]
    OBVIOUS
  <2> HIDE DEF u
  <2>1. CASE i <= m - l
    BY <1>1, <1>2, <2>1
  <2>2. CASE ~(i <= m - l)
    <3>1. i - (m - l) \in 1 .. n - m /\ m + (i - (m - l)) = l + i
      BY <1>1, <2>2
    <3>2. t[i - (m - l)] = r[m + (i - (m - l))]
      BY <1>1, <3>1
    <3> QED
      BY <1>2, <2>2, <3>1, <3>2
  <2> QED
    BY <2>1, <2>2
<1>4. u \o <<>> = u
  BY <1>2, ConcatEmptySeq
<1> HIDE DEF u
<1>5. IsPart(r, u, l, n)
  BY <1>1, <1>2, <1>3 DEF IsPart
<1> QED
  BY <1>4, <1>5 DEF u

(***************************************************************************)
(* What the history of a reply records                                     *)
(***************************************************************************)
LEMMA ReplyRecords ==
  /\ NewReply \in Replies /\ Unfollowed \in Replies /\ ~Unfollowed.followed
  /\ NewReply.announced = -1 /\ NewReply.read = 0 /\ NewReply.written = 0
  /\ ~NewReply.closed /\ ~NewReply.afterClose /\ ~NewReply.whole
BY DEF NewReply, Unfollowed, Replies

LEMMA FollowProperties ==
  ASSUME ReplyTypes, NEW r \in Replies
  PROVE  /\ Follow(r) \in Replies
         /\ Follow(r).followed => reply.followed /\ Follow(r) = r
BY ReplyRecords DEF Follow

LEMMA TookProperties ==
  ASSUME NEW r \in Replies, NEW n \in Nat, NEW q, q = Took(r, n)
  PROVE  /\ q \in Replies /\ q.read = r.read + n
         /\ q.announced = r.announced /\ q.written = r.written /\ q.closed = r.closed
         /\ q.afterClose = r.afterClose /\ q.taken = r.taken /\ q.whole = r.whole
<1>1. r.read \in Nat /\ r.read + n \in Nat
  BY DEF Replies
<1>2. q = [r EXCEPT !.read = r.read + n]
  BY DEF Took
<1> QED
  BY <1>1, <1>2 DEF Replies

LEMMA AnnouncedProperties ==
  ASSUME NEW r \in Replies, NEW length \in Nat, NEW m \in Nat, NEW t, t = Announced(r, length, m)
  PROVE  /\ t \in Replies /\ t.read = r.read /\ t.written = r.written /\ t.closed = r.closed
         /\ t.afterClose = r.afterClose /\ t.taken = r.taken
         /\ r.announced # -1 => t.announced = r.announced
         /\ r.announced = -1 => /\ t.announced = length + m
                                /\ t.whole <=> length # 0 /\ r.read = Len(request)
<1>1. CASE r.announced # -1
  BY <1>1 DEF Announced
<1>2. CASE r.announced = -1
  <2> DEFINE all == length # 0 /\ r.read = Len(request)
  <2>1. t = [r EXCEPT !.announced = length + m, !.whole = all]
    BY <1>2 DEF Announced
  <2>2. all \in BOOLEAN /\ length + m \in Nat
    OBVIOUS
  <2>3. all <=> length # 0 /\ r.read = Len(request)
    OBVIOUS
  <2> HIDE DEF all
  <2>4. /\ t \in Replies /\ t.announced = length + m /\ t.whole = all
        /\ t.read = r.read /\ t.written = r.written /\ t.closed = r.closed
        /\ t.afterClose = r.afterClose /\ t.taken = r.taken
    BY <2>1, <2>2 DEF Replies
  <2> QED
    BY <1>2, <2>3, <2>4
<1> QED
  BY <1>1, <1>2

LEMMA WroteProperties ==
  ASSUME NEW r \in Replies, NEW n \in Nat, NEW close \in BOOLEAN, NEW q, q = Wrote(r, n, close)
  PROVE  /\ q \in Replies /\ q.written = r.written + n
         /\ q.closed <=> r.closed \/ close
         /\ q.afterClose <=> r.afterClose \/ r.closed
         /\ q.taken = IF close /\ ~r.closed THEN r.read ELSE r.taken
         /\ q.announced = r.announced /\ q.read = r.read /\ q.whole = r.whole
<1> DEFINE c == r.closed \/ close
           a == r.afterClose \/ r.closed
           t == IF close /\ ~r.closed THEN r.read ELSE r.taken
           w == r.written + n
<1>1. q = [r EXCEPT !.written = w, !.closed = c, !.afterClose = a, !.taken = t]
  BY DEF Wrote
<1>2. w \in Nat /\ t \in Nat
  BY DEF Replies
<1>3. c \in BOOLEAN /\ a \in BOOLEAN
  OBVIOUS
<1>4. (c <=> r.closed \/ close) /\ (a <=> r.afterClose \/ r.closed)
  OBVIOUS
<1>5. w = r.written + n /\ t = IF close /\ ~r.closed THEN r.read ELSE r.taken
  OBVIOUS
<1> HIDE DEF c, a, t, w
<1>6. /\ q \in Replies /\ q.written = w /\ q.closed = c /\ q.afterClose = a /\ q.taken = t
      /\ q.announced = r.announced /\ q.read = r.read /\ q.whole = r.whole
  BY <1>1, <1>2, <1>3 DEF Replies
<1> QED
  BY <1>4, <1>5, <1>6
-----------------------------------------------------------------------------
(* What a state is when some of its fields have changed *)
LEMMA StateCollected ==
  ASSUME NEW s \in States, NEW c \in Seq(Units), NEW t, t = [s EXCEPT !.content = c]
  PROVE  t \in States /\ t.finished = s.finished /\ t.content = c
BY DEF States

LEMMA StateFinished ==
  ASSUME NEW s \in States, NEW n \in Int,
         NEW t, t = [s EXCEPT !.finished = TRUE, !.len = n, !.content = <<>>]
  PROVE  t \in States /\ t.finished = TRUE /\ t.len = n
<1>1. <<>> \in Seq(Units)
  BY EmptySeq
<1> QED
  BY <1>1 DEF States

LEMMA StateCounted ==
  ASSUME NEW s \in States, NEW n \in Int, NEW t, t = [s EXCEPT !.len = n]
  PROVE  t \in States /\ t.finished = s.finished /\ t.len = n
BY DEF States

LEMMA NoStateProperties ==
  NoState \in States /\ NoState.finished = FALSE /\ NoState.content = <<>>
<1>1. <<>> \in Seq(Units)
  BY EmptySeq
<1> QED
  BY <1>1 DEF NoState, States

(* states[connection_id] keeps what it has, and has nothing if it is new.  *)
LEMMA ThisConnTypes ==
  ASSUME EchoInv, state \in States
  PROVE  /\ ThisConn \in States
         /\ ThisConn.content = state.content /\ ThisConn.finished = state.finished
<1>1. ThisConn = [len |-> state.len, finished |-> state.finished, buffer |-> ThisConn.buffer,
                  content |-> state.content]
  <2>1. CASE state = NoState
    BY <2>1 DEF ThisConn, States
  <2>2. CASE state # NoState
    BY <2>2 DEF ThisConn, States
  <2> QED
    BY <2>1, <2>2
<1>2. ThisConn.buffer \in Nat
  BY ThisConnProperties
<1> QED
  BY <1>1, <1>2 DEF States

(* Nothing is behind the unit where nothing has been taken.                *)
LEMMA PartEmpty ==
  ASSUME NEW r \in Requests, NEW n \in 0 .. Len(r)
  PROVE  IsPart(r, <<>>, n, n) /\ HeaderEnd(<<>>) = 0
<1>1. r \in Seq(Units) /\ Len(r) \in Nat
  BY RequestProperties
<1>2. <<>> \in Seq(Units) /\ Len(<<>>) = 0
  BY EmptySeq
<1>3. HeaderEnd(<<>>) \in 0 .. 0
  BY <1>2, HeaderEndFinds
<1> QED
  BY <1>1, <1>2, <1>3 DEF IsPart

(* What is left of the inbox when echo_worker has taken a package from it  *)
LEMMA TakePackage ==
  ASSUME ReplyTypes, inbox # <<>>, inbox' = Tail(inbox), NEW n, n = Len(Head(inbox).data)
  PROVE  /\ Head(inbox) \in Packages /\ n \in Nat /\ Head(inbox).conn \in 0 .. conn
         /\ inbox' \in Seq(Packages) /\ Len(inbox') <= MaxInbox
         /\ \A k \in DOMAIN inbox' : inbox'[k].conn <= conn
         /\ PiecesInv =>
              /\ IsPart(request, Head(inbox).data, reply.read, reply.read + n)
              /\ n > 0 /\ Head(inbox).size = n /\ reply.read + n <= sent
              /\ UNCHANGED <<request, sent>> /\ reply'.read = reply.read + n => PiecesInv'
<1>1. /\ inbox \in Seq(Packages) /\ Len(inbox) \in Nat \ {0} /\ DOMAIN inbox = 1 .. Len(inbox)
      /\ Len(inbox) <= MaxInbox /\ MaxInbox \in Nat /\ conn \in Nat /\ sent \in Nat
      /\ \A k \in 1 .. Len(inbox) : inbox[k] \in Packages /\ inbox[k].conn <= conn
  BY LenProperties, ElementOfSeq, EchoAssumption DEF ReplyTypes
<1>2. /\ Head(inbox) = inbox[1]
      /\ inbox' \in Seq(Packages) /\ Len(inbox') = Len(inbox) - 1
      /\ DOMAIN inbox' = 1 .. Len(inbox) - 1
      /\ \A k \in 1 .. Len(inbox) - 1 : inbox'[k] = inbox[k + 1]
  BY <1>1
<1>3. inbox[1] \in Packages /\ inbox[1].data \in Seq(Units) /\ inbox[1].conn \in 0 .. conn
  BY <1>1 DEF Packages
<1>4. n \in Nat
  BY <1>2, <1>3, LenProperties
<1>5. ASSUME PiecesInv
      PROVE  /\ IsPart(request, Head(inbox).data, reply.read, reply.read + n)
             /\ n > 0 /\ Head(inbox).size = n /\ reply.read + n <= sent
             /\ UNCHANGED <<request, sent>> /\ reply'.read = reply.read + n => PiecesInv'
  <2>1. PICK at \in [1 .. Len(inbox) + 1 -> Nat] :
          /\ at[1] = reply.read /\ at[Len(inbox) + 1] = sent
          /\ \A k \in 1 .. Len(inbox) + 1 : at[k] <= sent
          /\ \A k \in 1 .. Len(inbox) :
               /\ at[k] < at[k + 1] /\ IsPart(request, inbox[k].data, at[k], at[k + 1])
               /\ inbox[k].size = at[k + 1] - at[k]
    BY <1>5 DEF PiecesInv
  <2>2. 1 \in 1 .. Len(inbox) /\ at[1] \in Nat /\ at[2] \in Nat /\ at[2] <= sent
    BY <1>1, <2>1
  <2>3. n = at[2] - at[1]
    BY <1>2, <2>1, <2>2 DEF IsPart
  <2>4. at[1] < at[2] /\ IsPart(request, inbox[1].data, at[1], at[2]) /\ inbox[1].size = at[2] - at[1]
    BY <2>1, <2>2
  <2>5. reply.read + n = at[2]
    BY <2>1, <2>2, <2>3
  <2>6. ASSUME UNCHANGED <<request, sent>>, reply'.read = reply.read + n PROVE PiecesInv'
    <3> DEFINE at2 == [k \in 1 .. Len(inbox) |-> at[k + 1]]
    <3>1. at2 \in [1 .. Len(inbox') + 1 -> Nat] /\ at2[1] = reply'.read /\ at2[Len(inbox') + 1] = sent'
      BY <1>1, <1>2, <2>1, <2>5, <2>6
    <3>2. \A k \in 1 .. Len(inbox') + 1 : at2[k] <= sent'
      BY <1>1, <1>2, <2>1, <2>6
    <3>3. \A k \in 1 .. Len(inbox') :
            /\ at2[k] < at2[k + 1] /\ IsPart(request', inbox'[k].data, at2[k], at2[k + 1])
            /\ inbox'[k].size = at2[k + 1] - at2[k]
      <4> SUFFICES ASSUME NEW k \in 1 .. Len(inbox')
                   PROVE  /\ at2[k] < at2[k + 1]
                          /\ IsPart(request', inbox'[k].data, at2[k], at2[k + 1])
                          /\ inbox'[k].size = at2[k + 1] - at2[k]
        OBVIOUS
      <4>1. k + 1 \in 1 .. Len(inbox) /\ inbox'[k] = inbox[k + 1]
        BY <1>1, <1>2
      <4>2. at2[k] = at[k + 1] /\ at2[k + 1] = at[k + 1 + 1]
        BY <1>1, <1>2, <4>1
      <4> QED
        BY <2>1, <2>6, <4>1, <4>2
    <3> HIDE DEF at2
    <3> QED
      BY <1>5, <2>6, <3>1, <3>2, <3>3 DEF PiecesInv
  <2> QED
    BY <1>2, <2>1, <2>2, <2>3, <2>4, <2>5, <2>6
<1> QED
  BY <1>1, <1>2, <1>3, <1>4, <1>5

(* A piece that is received follows the others.                            *)
LEMMA AddPackage ==
  ASSUME ReplyTypes, PiecesInv, NEW to \in sent + 1 .. Len(request), NEW p \in Packages,
         IsPart(request, p.data, sent, to), p.size = to - sent, inbox' = Append(inbox, p),
         UNCHANGED request, sent' = to, reply'.read = reply.read
  PROVE  PiecesInv'
<1>1. /\ inbox \in Seq(Packages) /\ Len(inbox) \in Nat /\ sent \in Nat /\ to \in Nat
      /\ Len(request) \in Nat
  BY LenProperties, RequestProperties DEF ReplyTypes, PiecesInv
<1>2. /\ Len(inbox') = Len(inbox) + 1 /\ inbox'[Len(inbox) + 1] = p
      /\ \A k \in 1 .. Len(inbox) : inbox'[k] = inbox[k]
  BY <1>1, AppendProperties
<1>3. PICK at \in [1 .. Len(inbox) + 1 -> Nat] :
        /\ at[1] = reply.read /\ at[Len(inbox) + 1] = sent
        /\ \A k \in 1 .. Len(inbox) + 1 : at[k] <= sent
        /\ \A k \in 1 .. Len(inbox) :
             /\ at[k] < at[k + 1] /\ IsPart(request, inbox[k].data, at[k], at[k + 1])
             /\ inbox[k].size = at[k + 1] - at[k]
  BY DEF PiecesInv
<1> DEFINE at2 == [k \in 1 .. Len(inbox) + 2 |-> IF k = Len(inbox) + 2 THEN to ELSE at[k]]
<1>4. /\ at2 \in [1 .. Len(inbox') + 1 -> Nat]
      /\ at2[1] = reply'.read /\ at2[Len(inbox') + 1] = sent'
  BY <1>1, <1>2, <1>3
<1>5. \A k \in 1 .. Len(inbox') + 1 : at2[k] <= sent'
  <2> SUFFICES ASSUME NEW k \in 1 .. Len(inbox) + 2 PROVE at2[k] <= to
    BY <1>1, <1>2
  <2>1. CASE k = Len(inbox) + 2
    BY <1>1, <2>1
  <2>2. CASE k # Len(inbox) + 2
    <3>1. k \in 1 .. Len(inbox) + 1 /\ at2[k] = at[k]
      BY <1>1, <2>2
    <3>2. at[k] \in Nat /\ at[k] <= sent
      BY <1>3, <3>1
    <3> QED
      BY <1>1, <3>1, <3>2
  <2> QED
    BY <2>1, <2>2
<1>6. \A k \in 1 .. Len(inbox') :
        /\ at2[k] < at2[k + 1] /\ IsPart(request', inbox'[k].data, at2[k], at2[k + 1])
        /\ inbox'[k].size = at2[k + 1] - at2[k]
  <2> SUFFICES ASSUME NEW k \in 1 .. Len(inbox')
               PROVE  /\ at2[k] < at2[k + 1]
                      /\ IsPart(request', inbox'[k].data, at2[k], at2[k + 1])
                      /\ inbox'[k].size = at2[k + 1] - at2[k]
    OBVIOUS
  <2>1. CASE k = Len(inbox) + 1
    <3>1. at2[k] = sent /\ at2[k + 1] = to /\ inbox'[k] = p
      BY <1>1, <1>2, <1>3, <2>1
    <3> QED
      BY <1>1, <3>1
  <2>2. CASE k # Len(inbox) + 1
    <3>1. k \in 1 .. Len(inbox) /\ at2[k] = at[k] /\ at2[k + 1] = at[k + 1] /\ inbox'[k] = inbox[k]
      BY <1>1, <1>2, <2>2
    <3> QED
      BY <1>3, <3>1
  <2> QED
    BY <2>1, <2>2
<1>7. request' \in Requests /\ sent' <= Len(request')
  BY <1>1 DEF PiecesInv
<1> HIDE DEF at2
<1> QED
  BY <1>4, <1>5, <1>6, <1>7 DEF PiecesInv

(* What does not concern what echo_worker has taken *)
LEMMA SamePieces ==
  ASSUME PiecesInv, UNCHANGED <<request, sent, inbox>>, reply'.read = reply.read
  PROVE  PiecesInv'
BY DEF PiecesInv

(* What does not concern the worker and its place in the request *)
LEMMA SameStage ==
  ASSUME UNCHANGED <<request, state, pc, headers, text, reply>>
  PROVE  /\ InHeaders => InHeaders'
         /\ Answered => Answered'
         /\ ReplyDone => ReplyDone'
BY DEF InHeaders, Answered, ReplyDone, TextLen

(* Once another request was seen in the rest, all that comes is allowed.   *)
LEMMA StaysDone ==
  ASSUME ReplyTypes, ReplyDone, reply.afterClose, UNCHANGED request, reply' \in Replies,
         reply'.closed, reply'.afterClose, reply'.announced = reply.announced,
         reply'.taken = reply.taken, reply'.read >= reply.read, reply'.written >= reply.written
  PROVE  ReplyDone'
<1>1. /\ reply.read \in Nat /\ reply.taken \in Nat /\ reply'.read \in Nat
      /\ reply.written \in Nat /\ reply'.written \in Nat /\ reply.announced \in Int
  BY DEF ReplyTypes, Replies
<1>2. PICK i \in reply.taken + 1 .. reply.read : request[i] = EmptyLine
  BY DEF ReplyDone
<1>3. i \in reply'.taken + 1 .. reply'.read /\ request'[i] = EmptyLine
  BY <1>1, <1>2
<1>4. reply'.taken <= reply'.read /\ reply'.written >= reply'.announced /\ reply'.announced # -1
  BY <1>1 DEF ReplyDone
<1> QED
  BY <1>3, <1>4 DEF ReplyDone

LEMMA ReplyNumbers ==
  ASSUME ReplyTypes
  PROVE  /\ reply.read \in Nat /\ reply.taken \in Nat /\ reply.written \in Nat
         /\ reply.announced \in Int /\ state.len \in Int /\ headers \in Nat /\ text \in Nat
         /\ reply.closed \in BOOLEAN /\ reply.afterClose \in BOOLEAN /\ reply.whole \in BOOLEAN
         /\ state.finished \in BOOLEAN
BY DEF ReplyTypes, Replies, States

LEMMA RequestNumbers ==
  ASSUME PiecesInv
  PROVE  /\ Len(request) \in Nat /\ HeaderEnd(request) \in 1 .. Len(request) /\ TextLen \in Nat
         /\ Parsed(TextLen) \in 0 .. TextLen /\ TextLen = Len(request) - HeaderEnd(request)
<1>1. request \in Requests
  BY DEF PiecesInv
<1>2. Len(request) \in Nat /\ HeaderEnd(request) \in 1 .. Len(request)
  BY <1>1, RequestProperties
<1>3. TextLen \in Nat /\ TextLen = Len(request) - HeaderEnd(request)
  BY <1>2 DEF TextLen
<1> QED
  BY <1>2, <1>3, ParsedBounds
-----------------------------------------------------------------------------
(***************************************************************************)
(* Every step keeps the stages of the reply.                               *)
(***************************************************************************)
LEMMA ReplyStart == Init => ReplyTypes /\ ReplyInv
<1> SUFFICES ASSUME Init PROVE ReplyTypes /\ ReplyInv
  OBVIOUS
<1>1. inbox = <<>> /\ inbox \in Seq(Packages) /\ Len(inbox) = 0 /\ DOMAIN inbox = {}
  BY EmptySeq DEF Init
<1>2. conn \in 0 .. MaxConns /\ Len(inbox) <= MaxInbox /\ hand \in 0 .. conn /\ sent \in Nat
  BY <1>1, EchoAssumption DEF Init
<1>3. state \in States /\ reply = Unfollowed
  BY NoStateProperties DEF Init
<1>4. ReplyTypes
  BY <1>1, <1>2, <1>3, ReplyRecords DEF Init, ReplyTypes
<1> QED
  BY <1>3, <1>4, ReplyRecords DEF ReplyInv

LEMMA ReplyConnect ==
  ASSUME ReplyTypes, Connect
  PROVE  ReplyTypes' /\ ReplyInv'
<1>1. /\ conn < MaxConns /\ conn' = conn + 1 /\ request' \in Requests /\ sent' = 0
      /\ alive' = "open" /\ UNCHANGED <<inbox, state, headers, text>>
      /\ \/ reply' = Unfollowed
         \/ state = NoState /\ pc = "read" /\ inbox = <<>> /\ reply' = NewReply
      /\ (pc' = pc /\ hand' = hand) \/ (state # NoState /\ hand' = conn')
  BY DEF Connect
<1>2. conn' \in 0 .. MaxConns /\ hand' \in 0 .. conn'
  BY <1>1, EchoAssumption DEF ReplyTypes
<1>3. ReplyTypes'
  <2>1. \A k \in DOMAIN inbox' : inbox'[k].conn <= conn'
    <3> SUFFICES ASSUME NEW k \in DOMAIN inbox PROVE inbox[k].conn <= conn + 1
      BY <1>1
    <3>1. inbox[k] \in Packages /\ inbox[k].conn <= conn /\ conn \in Nat
      BY ElementOfSeq DEF ReplyTypes
    <3> QED
      BY <3>1 DEF Packages
  <2>2. reply' \in Replies
    BY <1>1, ReplyRecords
  <2> QED
    BY <1>1, <1>2, <2>1, <2>2 DEF ReplyTypes
<1>4. CASE reply' = Unfollowed
  BY <1>3, <1>4, ReplyRecords DEF ReplyInv
<1>5. CASE state = NoState /\ pc = "read" /\ inbox = <<>> /\ reply' = NewReply
  <2>1. state'.content = <<>> /\ state'.finished = FALSE /\ pc' = "read" /\ Len(inbox') = 0
    BY <1>1, <1>5, NoStateProperties
  <2>2. Len(request') \in Nat
    BY <1>1, RequestProperties
  <2>3. PiecesInv'
    <3> DEFINE at == [k \in 1 .. 1 |-> 0]
    <3>1. at \in [1 .. Len(inbox') + 1 -> Nat] /\ at[1] = reply'.read
          /\ at[Len(inbox') + 1] = sent' /\ \A k \in 1 .. Len(inbox') + 1 : at[k] <= sent'
      BY <1>1, <1>5, <2>1, ReplyRecords
    <3> HIDE DEF at
    <3>2. \A k \in 1 .. Len(inbox') : FALSE
      BY <2>1
    <3>3. sent' <= Len(request')
      BY <1>1, <2>2
    <3> QED
      BY <1>1, <3>1, <3>2, <3>3 DEF PiecesInv
  <2>4. IsPart(request', <<>>, 0, 0) /\ HeaderEnd(<<>>) = 0
    BY <1>1, <2>2, PartEmpty
  <2>5. InHeaders'
    BY <1>5, <2>1, <2>4, ReplyRecords DEF InHeaders
  <2> QED
    BY <1>3, <2>3, <2>5 DEF ReplyInv
<1> QED
  BY <1>1, <1>4, <1>5

LEMMA ReplyDeliver ==
  ASSUME ReplyTypes, ReplyInv, Deliver
  PROVE  ReplyTypes' /\ ReplyInv'
<1>1. PICK to \in sent + 1 .. Len(request) :
        /\ sent' = to
        /\ inbox' = Append(inbox, [data |-> SubSeq(request, sent + 1, to),
                                   size |-> to - sent, conn |-> conn])
  BY DEF Deliver
<1>2. /\ Len(inbox) < MaxInbox
      /\ UNCHANGED <<conn, request, alive, state, pc, hand, headers, text, reply>>
  BY DEF Deliver, workerVars
<1>3. /\ inbox \in Seq(Packages) /\ Len(inbox) \in Nat /\ DOMAIN inbox = 1 .. Len(inbox)
      /\ MaxInbox \in Nat /\ conn \in Nat /\ sent \in Nat /\ to \in Nat
      /\ request \in Seq(Units) /\ Len(request) \in Nat
  <2>1. request \in Seq(Units)
    BY RequestProperties, EmptySeq DEF ReplyTypes
  <2> QED
    BY <2>1, LenProperties, EchoAssumption DEF ReplyTypes
<1> DEFINE d == SubSeq(request, sent + 1, to)
           p == [data |-> d, size |-> to - sent, conn |-> conn]
<1>4. d \in Seq(Units) /\ IsPart(request, d, sent, to)
  <2>1. \A i \in sent + 1 .. to : request[i] \in Units
    BY <1>3
  <2>2. /\ d \in Seq(Units) /\ Len(d) = to - sent
        /\ \A i \in 1 .. to - sent : d[i] = request[sent + i]
    <3>1. /\ d \in Seq(Units) /\ Len(d) = to - (sent + 1) + 1
          /\ \A i \in 1 .. to - (sent + 1) + 1 : d[i] = request[sent + 1 + i - 1]
      BY <1>3, <2>1, SubSeqProperties
    <3> HIDE DEF d
    <3>2. to - (sent + 1) + 1 = to - sent /\ \A i \in 1 .. to - sent : sent + 1 + i - 1 = sent + i
      BY <1>3
    <3> QED
      BY <3>1, <3>2
  <2> HIDE DEF d
  <2> QED
    BY <1>3, <2>2 DEF IsPart
<1> HIDE DEF d
<1>5. p \in Packages /\ p.data = d /\ p.size = to - sent /\ p.conn = conn
  BY <1>3, <1>4 DEF Packages
<1>6. inbox' = Append(inbox, p)
  BY <1>1 DEF d
<1> HIDE DEF p
<1>7. /\ inbox' \in Seq(Packages) /\ Len(inbox') = Len(inbox) + 1
      /\ inbox'[Len(inbox) + 1] = p
      /\ \A k \in 1 .. Len(inbox) : inbox'[k] = inbox[k]
  BY <1>3, <1>5, <1>6, AppendProperties
<1>8. ReplyTypes'
  <2>1. \A k \in DOMAIN inbox' : inbox'[k].conn <= conn'
    <3>1. DOMAIN inbox' = 1 .. Len(inbox) + 1
      BY <1>7, LenProperties
    <3>2. \A k \in 1 .. Len(inbox) : inbox[k].conn <= conn
      BY <1>3 DEF ReplyTypes
    <3> QED
      BY <1>2, <1>3, <1>5, <1>7, <3>1, <3>2
  <2>2. sent' \in Nat /\ Len(inbox') <= MaxInbox
    BY <1>1, <1>2, <1>3, <1>7
  <2> QED
    BY <1>2, <1>7, <2>1, <2>2 DEF ReplyTypes
<1>9. PiecesInv => PiecesInv'
  BY <1>1, <1>2, <1>4, <1>5, <1>6, AddPackage
<1> QED
  BY <1>2, <1>8, <1>9, SameStage DEF ReplyInv

LEMMA ReplyFailingRecv ==
  ASSUME ReplyTypes, FailingRecv
  PROVE  ReplyTypes' /\ ReplyInv'
<1> DEFINE p == [data |-> <<>>, size |-> -1, conn |-> conn]
<1>1. /\ Len(inbox) < MaxInbox /\ inbox' = Append(inbox, p) /\ reply' = Unfollowed
      /\ UNCHANGED <<conn, request, sent, alive, state, pc, hand, headers, text>>
  BY DEF FailingRecv, clientVars, workerVars
<1>2. /\ inbox \in Seq(Packages) /\ Len(inbox) \in Nat /\ DOMAIN inbox = 1 .. Len(inbox)
      /\ conn \in Nat /\ MaxInbox \in Nat
  BY LenProperties, EchoAssumption DEF ReplyTypes
<1>3. p \in Packages /\ p.conn = conn
  BY <1>2, EmptySeq DEF Packages
<1> HIDE DEF p
<1>4. /\ inbox' \in Seq(Packages) /\ Len(inbox') = Len(inbox) + 1
      /\ inbox'[Len(inbox) + 1] = p
      /\ \A k \in 1 .. Len(inbox) : inbox'[k] = inbox[k]
  BY <1>1, <1>2, <1>3, AppendProperties
<1>5. \A k \in DOMAIN inbox' : inbox'[k].conn <= conn'
  <2>1. DOMAIN inbox' = 1 .. Len(inbox) + 1
    BY <1>4, LenProperties
  <2>2. \A k \in 1 .. Len(inbox) : inbox[k].conn <= conn
    BY <1>2 DEF ReplyTypes
  <2> QED
    BY <1>1, <1>2, <1>3, <1>4, <2>1, <2>2
<1>6. ReplyTypes'
  <2>1. Len(inbox') <= MaxInbox /\ reply' \in Replies
    BY <1>1, <1>2, <1>4, ReplyRecords
  <2> QED
    BY <1>1, <1>4, <1>5, <2>1 DEF ReplyTypes
<1> QED
  BY <1>1, <1>6, ReplyRecords DEF ReplyInv

(* Sending, closing and collecting, and a stuttering step *)
LEMMA ReplyRest ==
  ASSUME ReplyTypes, ReplyInv, SendFirst \/ Leave \/ CollectGarbage \/ UNCHANGED vars
  PROVE  ReplyTypes' /\ ReplyInv'
<1>1. /\ alive' \in {"open", "closed", "collected"}
      /\ UNCHANGED <<conn, request, sent, inbox, state, pc, hand, headers, text, reply>>
  BY DEF SendFirst, Leave, CollectGarbage, vars, clientVars, workerVars, ReplyTypes
<1>2. ReplyTypes' /\ (PiecesInv => PiecesInv')
  BY <1>1, SamePieces DEF ReplyTypes
<1> QED
  BY <1>1, <1>2, SameStage DEF ReplyInv

LEMMA ReplyMoreHeader ==
  ASSUME EchoInv, ReplyTypes, ReplyInv, MoreHeader
  PROVE  ReplyTypes' /\ ReplyInv'
<1> DEFINE n == Len(Head(inbox).data)
           q == Took(reply, n)
<1>1. PICK old \in Remains :
        /\ HeaderEnd(Appended(old)) = 0
        /\ state' = [ThisConn EXCEPT !.content = Appended(old)]
        /\ reply' = IF old = <<>> THEN Follow(q) ELSE Unfollowed
  BY DEF MoreHeader
<1>2. /\ pc = "read" /\ inbox # <<>> /\ ~ThisConn.finished /\ inbox' = Tail(inbox)
      /\ UNCHANGED <<conn, request, sent, alive, pc, hand, headers, text>>
  BY DEF MoreHeader, clientVars
<1>3. /\ Head(inbox) \in Packages /\ n \in Nat
      /\ inbox' \in Seq(Packages) /\ Len(inbox') <= MaxInbox
      /\ \A k \in DOMAIN inbox' : inbox'[k].conn <= conn
      /\ PiecesInv =>
           /\ IsPart(request, Head(inbox).data, reply.read, reply.read + n)
           /\ UNCHANGED <<request, sent>> /\ reply'.read = reply.read + n => PiecesInv'
  BY <1>2, TakePackage
<1>4. ThisConn \in States /\ ThisConn.content = state.content /\ ThisConn.finished = state.finished
  BY ThisConnTypes DEF ReplyTypes
<1>5. Appended(old) \in Seq(Units) /\ Appended(old) = state.content \o Head(inbox).data \o old
  <2>1. old \in Seq(Units) /\ Head(inbox).data \in Seq(Units) /\ state.content \in Seq(Units)
    BY <1>3, EchoAssumption DEF Packages, ReplyTypes, States
  <2> QED
    BY <1>4, <2>1, ConcatProperties DEF Appended
<1>6. /\ q \in Replies /\ q.read = reply.read + n
      /\ q.announced = reply.announced /\ q.written = reply.written /\ q.closed = reply.closed
      /\ q.afterClose = reply.afterClose /\ q.taken = reply.taken /\ q.whole = reply.whole
  BY <1>3, TookProperties DEF ReplyTypes
<1> HIDE DEF n, q
<1>7. state' \in States /\ state'.finished = state.finished /\ state'.content = Appended(old)
  BY <1>1, <1>4, <1>5, StateCollected
<1>8. reply' \in Replies /\ (reply'.followed => old = <<>> /\ reply.followed /\ reply' = q)
  BY <1>1, <1>6, FollowProperties, ReplyRecords
<1>9. ReplyTypes'
  BY <1>2, <1>3, <1>7, <1>8 DEF ReplyTypes
<1>10. ASSUME reply'.followed PROVE PiecesInv' /\ (InHeaders' \/ ReplyDone')
  <2>1. old = <<>> /\ reply' = q /\ PiecesInv /\ (InHeaders \/ Answered \/ ReplyDone)
    BY <1>8, <1>10 DEF ReplyInv
  <2>2. PiecesInv'
    BY <1>2, <1>3, <1>6, <2>1
  <2>3. /\ IsPart(request, Head(inbox).data, reply.read, reply.read + n)
        /\ reply.read \in Nat /\ reply.taken \in Nat /\ reply.written \in Nat /\ reply.read + n \in Nat
    BY <1>3, <2>1, ReplyNumbers
  <2>4. state'.content = state.content \o Head(inbox).data \o <<>> /\ HeaderEnd(state'.content) = 0
        /\ ~state'.finished /\ pc' = "read" /\ request' = request
    BY <1>1, <1>2, <1>4, <1>5, <1>7, <2>1
  <2>5. CASE InHeaders
    <3>1. IsPart(request, state'.content, 0, reply.read + n)
      BY <2>3, <2>4, <2>5, PartAppended DEF InHeaders
    <3> QED
      BY <1>6, <2>1, <2>2, <2>4, <2>5, <3>1 DEF InHeaders
  <2>6. CASE ReplyDone /\ ~reply.afterClose
    <3>1. IsPart(request, state'.content, reply.taken, reply.read + n)
      BY <1>2, <2>3, <2>4, <2>6, PartAppended DEF ReplyDone
    <3>2. reply'.taken <= reply'.read
      BY <1>3, <1>6, <2>1, <2>3, <2>6 DEF ReplyDone
    <3> QED
      BY <1>6, <2>1, <2>2, <2>4, <2>6, <3>1, <3>2 DEF ReplyDone
  <2>7. CASE ReplyDone /\ reply.afterClose
    <3>1. /\ reply' \in Replies /\ reply'.closed /\ reply'.afterClose
          /\ reply'.announced = reply.announced /\ reply'.taken = reply.taken
      BY <1>6, <2>1, <2>7 DEF ReplyDone
    <3>2. reply'.read >= reply.read /\ reply'.written >= reply.written
      BY <1>3, <1>6, <2>1, <2>3
    <3> QED
      BY <2>2, <2>4, <2>7, <3>1, <3>2, StaysDone
  <2>8. ~Answered
    BY <1>2, <1>4 DEF Answered
  <2> QED
    BY <2>1, <2>5, <2>6, <2>7, <2>8
<1> QED
  BY <1>9, <1>10 DEF ReplyInv

LEMMA HeaderEndThere ==
  ASSUME NEW c \in Seq(Units), HeaderEnd(c) # 0
  PROVE  HeaderEnd(c) \in 1 .. Len(c) /\ c[HeaderEnd(c)] = EmptyLine /\ Len(c) \in Nat
<1>1. Len(c) \in Nat
  OBVIOUS
<1>2. HeaderEnd(c) \in 0 .. Len(c) /\ c[HeaderEnd(c)] = EmptyLine
  BY HeaderEndFinds
<1> QED
  BY <1>1, <1>2

LEMMA PartHasEmptyLine ==
  ASSUME NEW r, NEW m \in Nat, NEW n \in Nat, NEW c \in Seq(Units),
         IsPart(r, c, m, n), HeaderEnd(c) # 0
  PROVE  \E j \in m + 1 .. n : r[j] = EmptyLine
<1>1. PICK e : e = HeaderEnd(c)
  OBVIOUS
<1>2. e \in 1 .. Len(c) /\ c[e] = EmptyLine
  BY <1>1, HeaderEndThere
<1>3. Len(c) = n - m /\ \A i \in 1 .. n - m : c[i] = r[m + i]
  BY DEF IsPart
<1>4. e \in 1 .. n - m /\ r[m + e] = EmptyLine
  BY <1>2, <1>3
<1>5. m + e \in m + 1 .. n
  BY <1>4
<1> QED
  BY <1>4, <1>5

LEMMA ReplyHeaderFinished ==
  ASSUME EchoInv, ReplyTypes, ReplyInv, HeaderFinished
  PROVE  ReplyTypes' /\ ReplyInv'
<1>n. PICK n : n = Len(Head(inbox).data)
  OBVIOUS
<1>t. PICK took : took = Took(reply, n)
  OBVIOUS
<1>1. PICK old \in Remains :
        LET content == Appended(old)
            len == Parsed(Declared(content))
        IN /\ HeaderEnd(content) # 0
           /\ state' = [ThisConn EXCEPT !.finished = TRUE, !.len = len, !.content = <<>>]
           /\ headers' = HeaderEnd(content) - 1
           /\ text' = Len(content) - HeaderEnd(content)
           /\ reply' = IF old = <<>> THEN Follow(Wrote(Announced(took, len, headers'), 0, FALSE))
                                     ELSE Unfollowed
  BY <1>n, <1>t DEF HeaderFinished
<1>2. /\ pc = "read" /\ inbox # <<>> /\ ~ThisConn.finished /\ inbox' = Tail(inbox)
      /\ pc' = "client" /\ hand' = Head(inbox).conn
      /\ UNCHANGED <<conn, request, sent, alive>>
  BY DEF HeaderFinished, clientVars
<1>3. /\ Head(inbox) \in Packages /\ n \in Nat /\ Head(inbox).conn \in 0 .. conn
      /\ inbox' \in Seq(Packages) /\ Len(inbox') <= MaxInbox
      /\ \A k \in DOMAIN inbox' : inbox'[k].conn <= conn
      /\ PiecesInv =>
           /\ IsPart(request, Head(inbox).data, reply.read, reply.read + n)
           /\ reply.read + n <= sent
           /\ UNCHANGED <<request, sent>> /\ reply'.read = reply.read + n => PiecesInv'
  BY <1>2, <1>n, TakePackage
<1>4. ThisConn \in States /\ ThisConn.content = state.content /\ ThisConn.finished = state.finished
  BY ThisConnTypes DEF ReplyTypes
<1>c. PICK c : c = Appended(old)
  OBVIOUS
<1>l. PICK len : len = Parsed(Declared(c))
  OBVIOUS
<1>k. PICK k : k = headers'
  OBVIOUS
<1>s. PICK said : said = Announced(took, len, k)
  OBVIOUS
<1>q. PICK q : q = Wrote(said, 0, FALSE)
  OBVIOUS
<1>5. c \in Seq(Units) /\ c = state.content \o Head(inbox).data \o old
  <2>1. old \in Seq(Units) /\ Head(inbox).data \in Seq(Units) /\ state.content \in Seq(Units)
    BY <1>3, EchoAssumption DEF Packages, ReplyTypes, States
  <2> QED
    BY <1>4, <1>c, <2>1, ConcatProperties DEF Appended
<1>6. /\ took \in Replies /\ took.read = reply.read + n
      /\ took.announced = reply.announced /\ took.written = reply.written
      /\ took.closed = reply.closed /\ took.afterClose = reply.afterClose
      /\ took.taken = reply.taken /\ took.whole = reply.whole
  <2>1. n \in Nat /\ reply \in Replies
    BY <1>3 DEF ReplyTypes
  <2> QED
    BY <1>t, <2>1, TookProperties
<1>7. /\ HeaderEnd(c) # 0
      /\ state' = [ThisConn EXCEPT !.finished = TRUE, !.len = len, !.content = <<>>]
      /\ k = HeaderEnd(c) - 1 /\ text' = Len(c) - HeaderEnd(c)
      /\ reply' = IF old = <<>> THEN Follow(q) ELSE Unfollowed
  BY <1>1, <1>c, <1>l, <1>k, <1>s, <1>q
<1>a. HeaderEnd(c) \in 1 .. Len(c) /\ c[HeaderEnd(c)] = EmptyLine /\ Len(c) \in Nat
  <2>1. HeaderEnd(c) # 0 /\ c \in Seq(Units)
    BY <1>5, <1>7
  <2> QED
    BY <2>1, HeaderEndThere
<1>8. len \in Nat
  <2>1. Declared(c) \in Nat
    BY <1>5, NumberAtFinds
  <2>2. Parsed(Declared(c)) \in 0 .. Declared(c)
    BY <2>1, ParsedBounds
  <2> QED
    BY <1>l, <2>1, <2>2
<1>9. k \in Nat /\ headers' = k /\ text' \in Nat
  <2>1. k = HeaderEnd(c) - 1 /\ text' = Len(c) - HeaderEnd(c)
    BY <1>7
  <2>2. PICK e : e = HeaderEnd(c)
    OBVIOUS
  <2> QED
    BY <1>a, <1>k, <2>1, <2>2
<1>10. /\ said \in Replies /\ said.read = took.read /\ said.written = took.written
       /\ said.closed = took.closed /\ said.afterClose = took.afterClose /\ said.taken = took.taken
       /\ took.announced # -1 => said.announced = took.announced
       /\ took.announced = -1 => /\ said.announced = len + k
                                 /\ said.whole <=> len # 0 /\ took.read = Len(request)
  <2>1. took \in Replies /\ len \in Nat /\ k \in Nat /\ said = Announced(took, len, k)
    BY <1>6, <1>8, <1>9, <1>s
  <2>2. /\ said \in Replies /\ said.read = took.read /\ said.written = took.written
        /\ said.closed = took.closed /\ said.afterClose = took.afterClose /\ said.taken = took.taken
    BY <2>1, AnnouncedProperties
  <2>3. took.announced # -1 => said.announced = took.announced
    BY <2>1, AnnouncedProperties
  <2>4. took.announced = -1 => said.announced = len + k
    BY <2>1, AnnouncedProperties
  <2>5. took.announced = -1 => (said.whole <=> len # 0 /\ took.read = Len(request))
    BY <2>1, AnnouncedProperties
  <2> QED
    BY <2>2, <2>3, <2>4, <2>5
<1>11. /\ q \in Replies /\ q.written = said.written + 0 /\ (q.closed <=> said.closed)
       /\ (q.afterClose <=> said.afterClose \/ said.closed)
       /\ q.taken = said.taken
       /\ q.announced = said.announced /\ q.read = said.read /\ q.whole = said.whole
  BY <1>10, <1>q, WroteProperties
<1>12. state' \in States /\ state'.finished = TRUE /\ state'.len = len
  <2>1. len \in Int
    BY <1>8
  <2> QED
    BY <1>4, <1>7, <2>1, StateFinished
<1>13. reply' \in Replies /\ (reply'.followed => old = <<>> /\ reply.followed /\ reply' = q)
  BY <1>7, <1>11, FollowProperties, ReplyRecords
<1>14. ReplyTypes'
  BY <1>2, <1>3, <1>9, <1>12, <1>13 DEF ReplyTypes
<1>15. ASSUME reply'.followed PROVE PiecesInv' /\ (Answered' \/ ReplyDone')
  <2>1. old = <<>> /\ reply' = q /\ PiecesInv /\ (InHeaders \/ Answered \/ ReplyDone)
    BY <1>13, <1>15 DEF ReplyInv
  <2>2. PiecesInv'
    BY <1>2, <1>3, <1>6, <1>10, <1>11, <2>1
  <2>3. /\ IsPart(request, Head(inbox).data, reply.read, reply.read + n)
        /\ reply.read \in Nat /\ reply.taken \in Nat /\ reply.written \in Nat
        /\ reply.read + n \in Nat /\ reply.closed \in BOOLEAN
    BY <1>3, <2>1, ReplyNumbers
  <2>4. c = state.content \o Head(inbox).data \o <<>> /\ pc' = "client" /\ request' = request
    BY <1>2, <1>5, <2>1
  <2>5. ASSUME InHeaders PROVE Answered'
    <3>1. IsPart(request, c, 0, reply.read + n)
      BY <2>3, <2>4, <2>5, PartAppended DEF InHeaders
    <3>2. request \in Requests
      BY <2>1 DEF PiecesInv
    <3>3. /\ HeaderEnd(c) = HeaderEnd(request) /\ HeaderEnd(request) <= reply.read + n
          /\ Declared(c) = Len(request) - HeaderEnd(request)
      BY <1>7, <2>3, <3>1, <3>2, BufferHasHeaders
    <3>4. len = Parsed(TextLen) /\ Len(c) = reply.read + n
      <4>1. len = Parsed(TextLen)
        BY <1>l, <3>3 DEF TextLen
      <4> QED
        BY <2>3, <3>1, <4>1 DEF IsPart
    <3>5. /\ reply'.read = reply.read + n /\ reply'.announced = len + k
          /\ reply'.whole <=> len # 0 /\ reply.read + n = Len(request)
          /\ ~reply'.closed /\ ~reply'.afterClose /\ reply'.written = reply.written
      <4>1. took.announced = -1 /\ ~took.closed /\ ~took.afterClose
        BY <1>6, <2>5 DEF InHeaders
      <4> QED
        BY <1>6, <1>10, <1>11, <2>1, <2>3, <4>1
    <3>6. reply.written = 0
      BY <2>5 DEF InHeaders
    <3>7. reply'.announced = reply'.written + state'.len + headers' /\ reply'.announced # -1
      <4>1. reply'.written = 0 /\ state'.len = len /\ reply'.announced = len + k /\ headers' = k
        BY <1>9, <1>12, <3>5, <3>6
      <4>3. len + k = 0 + len + k /\ len + k # -1
        BY <1>8, <1>9
      <4> QED
        BY <4>1, <4>3
    <3>8. TextLen' = TextLen
      BY <2>4 DEF TextLen
    <3>9. text' = reply'.read - HeaderEnd(request')
      BY <1>7, <2>4, <3>3, <3>4, <3>5
    <3> QED
      BY <1>12, <2>4, <3>3, <3>4, <3>5, <3>7, <3>8, <3>9 DEF Answered
  <2>6. ASSUME ReplyDone, ~reply.afterClose PROVE ReplyDone'
    <3>1. IsPart(request, c, reply.taken, reply.read + n)
      BY <1>2, <2>3, <2>4, <2>6, PartAppended DEF ReplyDone
    <3>4. PICK j \in reply.taken + 1 .. reply.read + n : request[j] = EmptyLine
      <4>1. HeaderEnd(c) # 0 /\ c \in Seq(Units)
        BY <1>5, <1>7
      <4> QED
        BY <2>3, <3>1, <4>1, PartHasEmptyLine
    <3>6. /\ reply'.closed /\ reply'.afterClose /\ reply'.announced = reply.announced
          /\ reply'.taken = reply.taken /\ reply'.read = reply.read + n
          /\ reply'.written = reply.written
      <4>1. took.announced # -1 /\ took.closed
        BY <1>6, <2>6 DEF ReplyDone
      <4> QED
        BY <1>6, <1>10, <1>11, <2>1, <2>3, <4>1
    <3>7. reply'.announced # -1 /\ reply'.written >= reply'.announced /\ reply'.taken <= reply'.read
      BY <1>3, <2>3, <2>6, <3>6 DEF ReplyDone
    <3> QED
      BY <2>4, <3>4, <3>6, <3>7 DEF ReplyDone
  <2>7. ASSUME ReplyDone, reply.afterClose PROVE ReplyDone'
    <3>1. /\ reply' \in Replies /\ reply'.closed /\ reply'.afterClose
          /\ reply'.announced = reply.announced /\ reply'.taken = reply.taken
          /\ reply'.read = reply.read + n /\ reply'.written = reply.written
      <4>1. took.announced # -1 /\ took.closed /\ took.afterClose
        BY <1>6, <2>7 DEF ReplyDone
      <4> QED
        BY <1>6, <1>10, <1>11, <2>1, <2>3, <4>1
    <3>2. reply'.read >= reply.read /\ reply'.written >= reply.written
      BY <1>3, <2>3, <3>1
    <3> QED
      BY <2>4, <2>7, <3>1, <3>2, StaysDone
  <2>8. ~Answered
    BY <1>2, <1>4 DEF Answered
  <2> QED
    BY <2>1, <2>2, <2>5, <2>6, <2>7, <2>8
<1> QED
  BY <1>14, <1>15 DEF ReplyInv


(* echo_worker has not taken more than was received.                       *)
LEMMA ReadSoFar ==
  ASSUME ReplyTypes, PiecesInv
  PROVE  reply.read <= sent /\ sent <= Len(request) /\ reply.read <= Len(request)
<1>1. reply.read \in Nat /\ sent \in Nat /\ Len(request) \in Nat /\ Len(inbox) \in Nat
  BY ReplyNumbers, RequestNumbers, LenProperties DEF ReplyTypes
<1>2. sent <= Len(request)
  BY DEF PiecesInv
<1>3. reply.read <= sent
  <2>1. 1 \in 1 .. Len(inbox) + 1
    BY <1>1
  <2> QED
    BY <2>1 DEF PiecesInv
<1> QED
  BY <1>1, <1>2, <1>3

(* Between two packages there is nothing left to write for the headers, so *)
(* the reply is where it is in the text.                                   *)
LEMMA ReplyClientHeader ==
  ASSUME ReplyTypes, ReplyInv, EchoClientHeader
  PROVE  ReplyTypes' /\ ReplyInv'
<1>c. PICK close : close = (state.len = 0)
  OBVIOUS
<1>q. PICK q : q = Wrote(reply, headers, close)
  OBVIOUS
<1>1. /\ pc = "client" /\ reply' = Follow(q) /\ headers' = 0
      /\ text' = IF pc' = "text" THEN text ELSE 0
      /\ UNCHANGED <<conn, request, sent, alive, inbox, state>>
  BY <1>c, <1>q DEF EchoClientHeader, clientVars
<1>2. /\ state.len # 0 => pc' = (IF text > 0 THEN "text" ELSE "read") /\ hand' \in {hand, 0}
      /\ state.len = 0 => pc' = "erase" /\ hand' = hand
  BY DEF EchoClientHeader
<1>3. close \in BOOLEAN /\ (close <=> state.len = 0)
  BY <1>c
<1>4. reply \in Replies /\ headers \in Nat /\ text \in Nat /\ text' \in Nat
  BY <1>1 DEF ReplyTypes
<1>5. /\ q \in Replies /\ q.written = reply.written + headers
      /\ (q.closed <=> reply.closed \/ close)
      /\ (q.afterClose <=> reply.afterClose \/ reply.closed)
      /\ q.taken = IF close /\ ~reply.closed THEN reply.read ELSE reply.taken
      /\ q.announced = reply.announced /\ q.read = reply.read /\ q.whole = reply.whole
  BY <1>3, <1>4, <1>q, WroteProperties
<1>6. reply' \in Replies /\ (reply'.followed => reply.followed /\ reply' = q)
  BY <1>1, <1>5, FollowProperties
<1>7. ReplyTypes'
  <2>1. hand' \in 0 .. conn /\ headers' \in Nat
    BY <1>1, <1>2 DEF ReplyTypes
  <2> QED
    BY <1>1, <1>4, <1>6, <2>1 DEF ReplyTypes
<1>8. ASSUME reply'.followed PROVE PiecesInv' /\ (Answered' \/ ReplyDone')
  <2>1. reply' = q /\ PiecesInv /\ (InHeaders \/ Answered \/ ReplyDone)
    BY <1>6, <1>8 DEF ReplyInv
  <2>2. PiecesInv'
    BY <1>1, <1>5, <2>1, SamePieces
  <2>3. /\ reply.read \in Nat /\ reply.taken \in Nat /\ reply.written \in Nat
        /\ reply.announced \in Int /\ state.len \in Int
        /\ reply.read <= Len(request) /\ Len(request) \in Nat /\ HeaderEnd(request) \in Nat
        /\ HeaderEnd(request) <= Len(request) /\ TextLen' = TextLen
    BY <1>1, <2>1, ReplyNumbers, RequestNumbers, ReadSoFar DEF TextLen
  <2>4. ~InHeaders
    BY <1>1 DEF InHeaders
  <2>5. ASSUME ReplyDone PROVE ReplyDone'
    <3>1. reply.afterClose /\ reply.closed
      BY <1>1, <2>5 DEF ReplyDone
    <3>2. /\ reply'.closed /\ reply'.afterClose /\ reply'.announced = reply.announced
          /\ reply'.taken = reply.taken /\ reply'.read = reply.read
          /\ reply'.written = reply.written + headers
      BY <1>5, <2>1, <3>1
    <3>3. reply'.read >= reply.read /\ reply'.written >= reply.written
      BY <1>4, <2>3, <3>2
    <3> QED
      BY <1>1, <1>6, <2>5, <3>1, <3>2, <3>3, StaysDone
  <2>6. ASSUME Answered, state.len = 0 PROVE ReplyDone'
    <3>1. /\ ~reply.closed /\ ~reply.afterClose /\ reply.announced # -1
          /\ reply.announced = reply.written + state.len + headers
      BY <1>1, <2>6 DEF Answered
    <3>2. /\ reply'.closed /\ ~reply'.afterClose /\ reply'.taken = reply'.read
          /\ reply'.read = reply.read /\ reply'.announced = reply.announced
          /\ reply'.written = reply.written + headers
      BY <1>3, <1>5, <2>1, <2>6, <3>1
    <3>3. reply'.written >= reply'.announced /\ reply'.taken <= reply'.read
      BY <1>4, <2>3, <2>6, <3>1, <3>2
    <3> QED
      BY <1>2, <2>6, <3>1, <3>2, <3>3 DEF ReplyDone
  <2>7. ASSUME Answered, state.len # 0 PROVE Answered'
    <3>1. /\ ~reply.closed /\ ~reply.afterClose /\ reply.announced # -1
          /\ reply.announced = reply.written + state.len + headers
          /\ HeaderEnd(request) <= reply.read /\ state.finished
          /\ state.len = Parsed(TextLen) /\ text = reply.read - HeaderEnd(request)
          /\ (reply.whole <=> Parsed(TextLen) # 0 /\ reply.read = Len(request))
      BY <1>1, <2>7 DEF Answered
    <3>2. /\ ~reply'.closed /\ ~reply'.afterClose /\ reply'.read = reply.read
          /\ reply'.announced = reply.announced /\ reply'.whole = reply.whole
          /\ reply'.written = reply.written + headers
      BY <1>3, <1>5, <2>1, <2>7, <3>1
    <3>3. reply'.announced = reply'.written + state'.len + 0
      BY <1>1, <1>4, <2>3, <3>1, <3>2
    <3>4. CASE text > 0
      <4>1. pc' = "text" /\ text' = text
        BY <1>1, <1>2, <2>7, <3>4
      <4> QED
        BY <1>1, <2>3, <2>7, <3>1, <3>2, <3>3, <4>1 DEF Answered
    <3>5. CASE ~(text > 0)
      <4>1. pc' = "read"
        BY <1>2, <2>7, <3>5
      <4>2. reply.read = HeaderEnd(request)
        BY <1>4, <2>3, <3>1, <3>5
      <4>3. ~reply.whole => reply.read < Len(request)
        BY <2>3, <2>7, <3>1
      <4>4. state.len = Parsed(TextLen) - (reply.read - HeaderEnd(request))
        BY <2>3, <3>1, <4>2
      <4> QED
        BY <1>1, <2>3, <3>1, <3>2, <3>3, <4>1, <4>3, <4>4 DEF Answered
    <3> QED
      BY <3>4, <3>5
  <2> QED
    BY <2>1, <2>2, <2>4, <2>5, <2>6, <2>7
<1> QED
  BY <1>7, <1>8 DEF ReplyInv

LEMMA ReplyText ==
  ASSUME ReplyTypes, ReplyInv, EchoText
  PROVE  ReplyTypes' /\ ReplyInv'
<1>q. PICK q : q = Wrote(reply, text, FALSE)
  OBVIOUS
<1>l. PICK l : l = state.len - text
  OBVIOUS
<1>1. /\ pc = "text" /\ pc' = "read" /\ hand' = 0 /\ text' = 0 /\ reply' = Follow(q)
      /\ state' = [state EXCEPT !.len = l]
      /\ UNCHANGED <<conn, request, sent, alive, inbox, headers>>
  BY <1>q, <1>l DEF EchoText, clientVars
<1>2. reply \in Replies /\ text \in Nat /\ state \in States /\ state.len \in Int /\ conn \in Nat
  BY ReplyNumbers, EchoAssumption DEF ReplyTypes
<1>3. l \in Int
  BY <1>2, <1>l
<1>4. state' \in States /\ state'.finished = state.finished /\ state'.len = l
  BY <1>1, <1>2, <1>3, StateCounted
<1>5. /\ q \in Replies /\ q.written = reply.written + text
      /\ (q.closed <=> reply.closed) /\ (q.afterClose <=> reply.afterClose \/ reply.closed)
      /\ q.taken = reply.taken
      /\ q.announced = reply.announced /\ q.read = reply.read /\ q.whole = reply.whole
  <2>1. PICK close \in BOOLEAN : close = FALSE
    OBVIOUS
  <2>2. q = Wrote(reply, text, close)
    BY <1>q, <2>1
  <2>3. /\ q \in Replies /\ q.written = reply.written + text
        /\ (q.closed <=> reply.closed \/ close)
        /\ (q.afterClose <=> reply.afterClose \/ reply.closed)
        /\ q.taken = IF close /\ ~reply.closed THEN reply.read ELSE reply.taken
        /\ q.announced = reply.announced /\ q.read = reply.read /\ q.whole = reply.whole
    BY <1>2, <2>2, WroteProperties
  <2> QED
    BY <2>1, <2>3
<1>6. reply' \in Replies /\ (reply'.followed => reply.followed /\ reply' = q)
  BY <1>1, <1>5, FollowProperties
<1>7. ReplyTypes'
  <2>1. hand' \in 0 .. conn /\ text' \in Nat
    BY <1>1, <1>2
  <2> QED
    BY <1>1, <1>4, <1>6, <2>1 DEF ReplyTypes
<1>8. ASSUME reply'.followed PROVE PiecesInv' /\ (Answered' \/ ReplyDone')
  <2>1. reply' = q /\ PiecesInv /\ (InHeaders \/ Answered \/ ReplyDone)
    BY <1>6, <1>8 DEF ReplyInv
  <2>2. PiecesInv'
    BY <1>1, <1>5, <2>1, SamePieces
  <2>3. /\ reply.read \in Nat /\ reply.taken \in Nat /\ reply.written \in Nat
        /\ reply.announced \in Int
        /\ reply.read <= Len(request) /\ Len(request) \in Nat /\ HeaderEnd(request) \in Nat
        /\ HeaderEnd(request) <= Len(request) /\ TextLen' = TextLen
    BY <1>1, <2>1, ReplyNumbers, RequestNumbers, ReadSoFar DEF TextLen
  <2>4. ~InHeaders
    BY <1>1 DEF InHeaders
  <2>5. ASSUME ReplyDone PROVE ReplyDone'
    <3>1. reply.afterClose /\ reply.closed
      BY <1>1, <2>5 DEF ReplyDone
    <3>2. /\ reply'.closed /\ reply'.afterClose /\ reply'.announced = reply.announced
          /\ reply'.taken = reply.taken /\ reply'.read = reply.read
          /\ reply'.written = reply.written + text
      BY <1>5, <2>1, <3>1
    <3>3. reply'.read >= reply.read /\ reply'.written >= reply.written
      BY <1>2, <2>3, <3>2
    <3> QED
      BY <1>1, <1>6, <2>5, <3>1, <3>2, <3>3, StaysDone
  <2>6. ASSUME Answered PROVE Answered'
    <3>1. /\ ~reply.closed /\ ~reply.afterClose /\ reply.announced # -1
          /\ reply.announced = reply.written + state.len + 0
          /\ HeaderEnd(request) <= reply.read /\ state.finished /\ state.len # 0
          /\ state.len = Parsed(TextLen) /\ text = reply.read - HeaderEnd(request)
          /\ (reply.whole <=> Parsed(TextLen) # 0 /\ reply.read = Len(request))
      BY <1>1, <2>6 DEF Answered
    <3>2. /\ ~reply'.closed /\ ~reply'.afterClose /\ reply'.read = reply.read
          /\ reply'.announced = reply.announced /\ reply'.whole = reply.whole
          /\ reply'.written = reply.written + text
      BY <1>5, <2>1, <3>1
    <3>3. reply'.announced = reply'.written + state'.len + 0
      <4>1. /\ reply.announced = reply.written + state.len + 0
            /\ reply'.announced = reply.announced /\ reply'.written = reply.written + text
            /\ state'.len = state.len - text
        BY <1>4, <1>l, <3>1, <3>2
      <4>2. reply.written \in Int /\ state.len \in Int /\ text \in Int
        BY <1>2, <2>3
      <4> QED
        BY <4>1, <4>2
    <3>4. ~reply.whole => reply.read < Len(request)
      BY <2>3, <3>1
    <3>5. state'.len = Parsed(TextLen) - (reply.read - HeaderEnd(request))
      BY <1>4, <1>l, <3>1
    <3>6. reply.whole => reply.read = Len(request)
      BY <3>1
    <3> QED
      BY <1>1, <1>4, <2>3, <3>1, <3>2, <3>3, <3>4, <3>5, <3>6 DEF Answered
  <2> QED
    BY <2>1, <2>2, <2>4, <2>5, <2>6
<1> QED
  BY <1>7, <1>8 DEF ReplyInv

(* A package is the last one when len says so; the reply then has what was *)
(* announced.                                                              *)
LEMMA ReplyBody ==
  ASSUME ReplyTypes, ReplyInv, EchoBody
  PROVE  ReplyTypes' /\ ReplyInv'
<1>n. PICK n : n = Len(Head(inbox).data)
  OBVIOUS
<1>l. PICK l : l = state.len - Head(inbox).size
  OBVIOUS
<1>c. PICK close : close = (l <= 0)
  OBVIOUS
<1>t. PICK took : took = Took(reply, n)
  OBVIOUS
<1>q. PICK q : q = Wrote(took, n, close)
  OBVIOUS
<1>1. /\ pc = "read" /\ inbox # <<>> /\ state.finished /\ inbox' = Tail(inbox)
      /\ state' = [state EXCEPT !.len = l] /\ reply' = Follow(q)
      /\ pc' = IF close THEN "erase" ELSE "read"
      /\ hand' = IF close THEN Head(inbox).conn ELSE 0
      /\ UNCHANGED <<conn, request, sent, alive, headers, text>>
  <2>1. LET len == state.len - Head(inbox).size
            m == Len(Head(inbox).data)
        IN /\ state' = [state EXCEPT !.len = len]
           /\ pc' = IF len <= 0 THEN "erase" ELSE "read"
           /\ hand' = IF len <= 0 THEN Head(inbox).conn ELSE 0
           /\ reply' = Follow(Wrote(Took(reply, m), m, len <= 0))
    BY DEF EchoBody
  <2>2. /\ pc = "read" /\ inbox # <<>> /\ state.finished /\ inbox' = Tail(inbox)
        /\ UNCHANGED <<conn, request, sent, alive, headers, text>>
    BY DEF EchoBody, clientVars
  <2> QED
    BY <1>n, <1>l, <1>c, <1>t, <1>q, <2>1, <2>2
<1>2. /\ Head(inbox) \in Packages /\ n \in Nat /\ Head(inbox).conn \in 0 .. conn
      /\ inbox' \in Seq(Packages) /\ Len(inbox') <= MaxInbox
      /\ \A k \in DOMAIN inbox' : inbox'[k].conn <= conn
      /\ PiecesInv =>
           /\ n > 0 /\ Head(inbox).size = n /\ reply.read + n <= sent
           /\ UNCHANGED <<request, sent>> /\ reply'.read = reply.read + n => PiecesInv'
  BY <1>1, <1>n, TakePackage
<1>3. /\ reply \in Replies /\ state \in States /\ state.len \in Int /\ conn \in Nat
      /\ Head(inbox).size \in Int
  BY <1>2, ReplyNumbers, EchoAssumption DEF ReplyTypes, Packages
<1>4. l \in Int
  BY <1>3, <1>l
<1>5. close \in BOOLEAN /\ (close <=> l <= 0)
  <2>1. close \in BOOLEAN
    BY <1>4, <1>c
  <2>2. close <=> l <= 0
    BY <1>4, <1>c
  <2> QED
    BY <2>1, <2>2
<1>6. state' \in States /\ state'.finished = state.finished /\ state'.len = l
  <2>1. state \in States /\ l \in Int /\ state' = [state EXCEPT !.len = l]
    BY <1>1, <1>3, <1>4
  <2> QED
    BY <2>1, StateCounted
<1>7. /\ took \in Replies /\ took.read = reply.read + n
      /\ took.announced = reply.announced /\ took.written = reply.written
      /\ took.closed = reply.closed /\ took.afterClose = reply.afterClose
      /\ took.taken = reply.taken /\ took.whole = reply.whole
  BY <1>2, <1>3, <1>t, TookProperties
<1>8. /\ q \in Replies /\ q.written = took.written + n
      /\ (q.closed <=> took.closed \/ close)
      /\ (q.afterClose <=> took.afterClose \/ took.closed)
      /\ q.taken = IF close /\ ~took.closed THEN took.read ELSE took.taken
      /\ q.announced = took.announced /\ q.read = took.read /\ q.whole = took.whole
  <2>1. took \in Replies /\ n \in Nat /\ close \in BOOLEAN /\ q = Wrote(took, n, close)
    BY <1>2, <1>5, <1>7, <1>q
  <2> QED
    BY <2>1, WroteProperties
<1>9. reply' \in Replies /\ (reply'.followed => reply.followed /\ reply' = q)
  BY <1>1, <1>8, FollowProperties
<1>10. ReplyTypes'
  <2>1. hand' \in 0 .. conn
    BY <1>1, <1>2, <1>3
  <2> QED
    BY <1>1, <1>2, <1>6, <1>9, <2>1 DEF ReplyTypes
<1>11. ASSUME reply'.followed PROVE PiecesInv' /\ (Answered' \/ ReplyDone')
  <2>1. reply' = q /\ PiecesInv /\ (InHeaders \/ Answered \/ ReplyDone)
    BY <1>9, <1>11 DEF ReplyInv
  <2>2. /\ reply'.read = reply.read + n /\ reply'.announced = reply.announced
        /\ reply'.written = reply.written + n /\ reply'.whole = reply.whole
    BY <1>7, <1>8, <2>1
  <2>3. PiecesInv' /\ n > 0 /\ l = state.len - n /\ reply.read + n <= sent
    BY <1>1, <1>2, <1>l, <2>1, <2>2
  <2>4. /\ reply.read \in Nat /\ reply.taken \in Nat /\ reply.written \in Nat
        /\ reply.announced \in Int /\ sent \in Nat /\ sent <= Len(request)
        /\ Len(request) \in Nat /\ HeaderEnd(request) \in Nat
        /\ TextLen \in Nat /\ TextLen = Len(request) - HeaderEnd(request)
        /\ Parsed(TextLen) \in Int /\ Parsed(TextLen) <= TextLen /\ TextLen' = TextLen
    <3>1. TextLen' = TextLen
      BY <1>1 DEF TextLen
    <3>2. Parsed(TextLen) \in Int /\ Parsed(TextLen) <= TextLen
      BY <2>1, RequestNumbers
    <3> QED
      BY <2>1, <3>1, <3>2, ReplyNumbers, RequestNumbers, ReadSoFar DEF ReplyTypes
  <2>5. ~InHeaders
    BY <1>1 DEF InHeaders
  <2>6. ASSUME ReplyDone PROVE ReplyDone'
    <3>1. reply.afterClose /\ reply.closed
      BY <1>1, <2>6 DEF ReplyDone
    <3>2. reply'.closed /\ reply'.afterClose /\ reply'.taken = reply.taken
      BY <1>7, <1>8, <2>1, <3>1
    <3>3. reply'.read >= reply.read /\ reply'.written >= reply.written
      BY <1>2, <2>2, <2>4
    <3> QED
      BY <1>1, <1>9, <2>2, <2>6, <3>1, <3>2, <3>3, StaysDone
  <2>7. ASSUME Answered PROVE Answered' \/ ReplyDone'
    <3>1. /\ ~reply.closed /\ ~reply.afterClose /\ reply.announced # -1
          /\ HeaderEnd(request) <= reply.read
          /\ reply.announced = reply.written + state.len + 0
      BY <1>1, <2>7 DEF Answered
    <3>2. reply.read < Len(request)
      BY <1>2, <2>3, <2>4
    <3>3. ~reply.whole /\ state.len = Parsed(TextLen) - (reply.read - HeaderEnd(request))
      BY <1>1, <2>4, <2>7, <3>2 DEF Answered
    <3>4. reply'.announced = reply'.written + l + 0
      <4>1. /\ reply.announced = reply.written + state.len + 0
            /\ reply'.announced = reply.announced /\ reply'.written = reply.written + n
            /\ l = state.len - n
        BY <2>2, <2>3, <3>1
      <4>2. reply.written \in Int /\ state.len \in Int /\ n \in Int
        BY <1>2, <1>3, <2>4
      <4> QED
        BY <4>1, <4>2
    <3>5. ~reply'.afterClose /\ reply'.announced # -1
      BY <1>7, <1>8, <2>1, <2>2, <3>1
    <3>6. CASE close
      <4>1. reply'.closed /\ reply'.taken = reply'.read /\ pc' = "erase" /\ l <= 0
        BY <1>1, <1>5, <1>7, <1>8, <2>1, <3>1, <3>6
      <4>2. reply'.written \in Int /\ reply'.written >= reply'.announced
        <5>1. /\ reply'.announced = reply'.written + l + 0 /\ reply'.written = reply.written + n
              /\ reply.written \in Nat /\ n \in Nat /\ l \in Int /\ l <= 0
          BY <1>2, <1>4, <2>2, <2>4, <3>4, <4>1
        <5> QED
          BY <5>1
      <4>3. reply'.taken <= reply'.read
        BY <1>2, <2>2, <2>4, <4>1
      <4> QED
        BY <3>5, <4>1, <4>2, <4>3 DEF ReplyDone
    <3>7. CASE ~close
      <4>1. ~reply'.closed /\ pc' = "read" /\ l > 0
        BY <1>1, <1>4, <1>5, <1>7, <1>8, <2>1, <3>1, <3>7
      <4>2. l = Parsed(TextLen) - (reply.read + n - HeaderEnd(request))
        BY <1>2, <1>3, <2>3, <2>4, <3>3
      <4>3. reply.read + n < Len(request) /\ HeaderEnd(request) <= reply.read + n
        <5>1. PICK p : p = Parsed(TextLen)
          OBVIOUS
        <5>2. PICK h : h = HeaderEnd(request)
          OBVIOUS
        <5>3. PICK m : m = Len(request)
          OBVIOUS
        <5>4. /\ n \in Nat /\ l \in Int /\ l > 0 /\ p \in Int /\ p <= m - h
              /\ h \in Nat /\ m \in Nat /\ reply.read \in Nat /\ h <= reply.read
              /\ l = p - (reply.read + n - h)
          BY <1>2, <1>4, <2>4, <3>1, <4>1, <4>2, <5>1, <5>2, <5>3
        <5> QED
          BY <5>2, <5>3, <5>4
      <4> QED
        <5>1. HeaderEnd(request') = HeaderEnd(request) /\ Len(request') = Len(request)
          BY <1>1
        <5>2. /\ pc' = "read" /\ state'.finished /\ state'.len = l /\ ~reply'.whole
              /\ reply'.read = reply.read + n
          BY <1>1, <1>6, <2>2, <3>3, <4>1
        <5>3. reply'.read < Len(request') /\ HeaderEnd(request') <= reply'.read
          BY <4>3, <5>1, <5>2
        <5>4. state'.len = Parsed(TextLen') - (reply'.read - HeaderEnd(request'))
          <6>1. TextLen' = TextLen
            BY <2>4
          <6>2. Parsed(TextLen') = Parsed(TextLen)
            BY <6>1
          <6>3. PICK h : h = HeaderEnd(request) /\ h = HeaderEnd(request')
            BY <5>1
          <6>4. PICK p : p = Parsed(TextLen) /\ p = Parsed(TextLen')
            BY <6>2
          <6>5. l = p - (reply.read + n - h)
            BY <4>2, <6>3, <6>4
          <6>6. state'.len = p - (reply'.read - h)
            <7>1. p \in Int /\ h \in Nat /\ n \in Nat /\ reply.read \in Nat
              BY <1>2, <2>4, <6>3, <6>4
            <7>2. reply'.read = reply.read + n /\ state'.len = l
              BY <5>2
            <7> QED
              BY <6>5, <7>1, <7>2
          <6> QED
            BY <6>3, <6>4, <6>6
        <5>5. reply'.announced = reply'.written + state'.len + 0
          BY <3>4, <5>2
        <5> QED
          BY <3>5, <4>1, <5>2, <5>3, <5>4, <5>5 DEF Answered
    <3> QED
      BY <1>5, <3>6, <3>7
  <2> QED
    BY <2>1, <2>3, <2>5, <2>6, <2>7
<1> QED
  BY <1>10, <1>11 DEF ReplyInv

(* When the state is erased, the rest of the request meets a new one.      *)
LEMMA ReplyErase ==
  ASSUME ReplyTypes, ReplyInv, Erase
  PROVE  ReplyTypes' /\ ReplyInv'
<1>1. /\ pc = "erase" /\ pc' = "read" /\ hand' = 0
      /\ UNCHANGED <<conn, request, sent, alive, inbox, headers, text>>
      /\ \/ state' = NoState /\ reply' = reply
         \/ state' = state /\ reply' = Unfollowed
  BY DEF Erase, clientVars
<1>2. ReplyTypes'
  <2>1. state' \in States /\ reply' \in Replies /\ hand' \in 0 .. conn
    BY <1>1, NoStateProperties, ReplyRecords, EchoAssumption DEF ReplyTypes
  <2> QED
    BY <1>1, <2>1 DEF ReplyTypes
<1>3. ASSUME reply'.followed PROVE PiecesInv' /\ ReplyDone'
  <2>1. state' = NoState /\ reply' = reply
    BY <1>1, <1>3, ReplyRecords
  <2>2. PiecesInv /\ ReplyDone
    BY <1>1, <1>3, <2>1 DEF ReplyInv, InHeaders, Answered
  <2>3. PiecesInv'
    BY <1>1, <2>1, <2>2, SamePieces
  <2>4. CASE reply.afterClose
    BY <1>1, <2>1, <2>2, <2>3, <2>4 DEF ReplyDone
  <2>5. CASE ~reply.afterClose
    <3>1. reply.taken = reply.read
      BY <1>1, <2>2, <2>5 DEF ReplyDone
    <3>2. request \in Requests /\ reply.read \in 0 .. Len(request)
      BY <2>2, ReplyNumbers, RequestNumbers, ReadSoFar DEF PiecesInv
    <3>3. IsPart(request, <<>>, reply.taken, reply.read) /\ HeaderEnd(<<>>) = 0
      BY <3>1, <3>2, PartEmpty
    <3>4. state'.content = <<>> /\ ~state'.finished
      BY <2>1, NoStateProperties
    <3> QED
      BY <1>1, <2>1, <2>2, <2>3, <2>5, <3>3, <3>4 DEF ReplyDone
  <2> QED
    BY <2>3, <2>4, <2>5
<1> QED
  BY <1>2, <1>3 DEF ReplyInv

(* The stages of a reply are inductive together with what the buffers need. *)
LEMMA ReplyInvHolds == Spec => [](EchoInv /\ ReplyTypes /\ ReplyInv)
<1>1. EchoInv /\ ReplyTypes /\ ReplyInv /\ [Next]_vars => ReplyTypes' /\ ReplyInv'
  <2> SUFFICES ASSUME EchoInv, ReplyTypes, ReplyInv, [Next]_vars PROVE ReplyTypes' /\ ReplyInv'
    OBVIOUS
  <2>1. CASE Connect \/ Deliver \/ FailingRecv
    BY <2>1, ReplyConnect, ReplyDeliver, ReplyFailingRecv
  <2>2. CASE SendFirst \/ Leave \/ CollectGarbage \/ UNCHANGED vars
    BY <2>2, ReplyRest
  <2>3. CASE MoreHeader \/ HeaderFinished
    BY <2>3, ReplyMoreHeader, ReplyHeaderFinished
  <2>4. CASE EchoClientHeader \/ EchoText \/ EchoBody \/ Erase
    BY <2>4, ReplyClientHeader, ReplyText, ReplyBody, ReplyErase
  <2> QED
    BY <2>1, <2>2, <2>3, <2>4 DEF Next
<1> QED
  BY <1>1, ReplyStart, EchoInvInductive, PTL DEF Spec
-----------------------------------------------------------------------------
(* The variables of echo_worker and of what it works with keep their kinds: *)
(* in particular, the length of the client's headers is not negative.      *)
THEOREM EchoTypes == Spec => []TypeOK
<1>1. EchoInv /\ ReplyTypes => TypeOK
  <2> SUFFICES ASSUME EchoInv, ReplyTypes PROVE TypeOK
    OBVIOUS
  <2>1. /\ listed \in BOOLEAN /\ (~listed => outbox = <<>>)
        /\ state # NoState => state.buffer \in DOMAIN freed
        /\ pc \in {"read", "client", "text", "erase"}
        /\ freed \in Seq(Nat) /\ leaked \subseteq DOMAIN freed
    BY DEF EchoInv, StateInv, ListInv
  <2>2. state.len \in Int /\ state.finished \in BOOLEAN /\ state.content \in Seq(Units)
    BY DEF ReplyTypes, States
  <2>3. /\ conn \in 0 .. MaxConns /\ request \in Requests \cup {<<>>}
        /\ {sent, headers, text} \subseteq Nat
        /\ alive \in {"open", "closed", "collected"}
        /\ Len(inbox) <= MaxInbox /\ hand \in 0 .. conn /\ reply \in Replies
    BY DEF ReplyTypes
  <2> QED
    BY <2>1, <2>2, <2>3 DEF TypeOK
<1> QED
  BY <1>1, ReplyInvHolds, PTL

(* Whatever the pieces a request came in, its connection is told to close  *)
(* once the request has been echoed, unless all of the text came with the  *)
(* end of the headers.                                                     *)
THEOREM EchoedThenClosed == Spec => []ReplyCloses
<1>1. ReplyTypes /\ ReplyInv => ReplyCloses
  <2> SUFFICES ASSUME ReplyTypes, ReplyInv, AllEchoed, ~reply.whole PROVE reply.closed
    BY DEF ReplyCloses
  <2>1. PiecesInv /\ (InHeaders \/ Answered \/ ReplyDone)
        /\ pc = "read" /\ sent = Len(request) /\ Len(inbox) = 0
    BY EmptySeq DEF AllEchoed, ReplyInv
  <2>2. reply.read = Len(request) /\ request \in Requests
    BY <2>1 DEF PiecesInv
  <2>3. ~Answered
    BY <2>1, <2>2, RequestNumbers DEF Answered
  <2>4. ~InHeaders
    <3> SUFFICES ASSUME InHeaders PROVE FALSE
      OBVIOUS
    <3>1. IsPart(request, state.content, 0, Len(request)) /\ HeaderEnd(state.content) = 0
      BY <2>2 DEF InHeaders
    <3>2. /\ request \in Seq(Units) /\ Len(request) \in Nat
          /\ HeaderEnd(request) \in 1 .. Len(request)
      BY <2>2, RequestProperties
    <3>3. request[HeaderEnd(request)] = EmptyLine
      BY <3>2, HeaderEndThere
    <3>4. /\ state.content \in Seq(Units) /\ Len(state.content) = Len(request)
          /\ \A i \in 1 .. Len(request) : state.content[i] = request[i]
      BY <3>1, <3>2 DEF IsPart
    <3>5. \A i \in 1 .. Len(request) : state.content[i] # EmptyLine
      BY <3>1, <3>4, HeaderEndFinds
    <3> QED
      BY <3>2, <3>3, <3>4, <3>5
  <2> QED
    BY <2>1, <2>3, <2>4 DEF ReplyDone
<1> QED
  BY <1>1, ReplyInvHolds, PTL

(* The connection is not told to close before the reply has what it        *)
(* announced; something is written after that only if there is an empty    *)
(* line in what followed an early end.                                     *)
THEOREM ClosedAfterReply == Spec => []ClosesAfterReply
<1>1. ReplyTypes /\ ReplyInv => ClosesAfterReply
  <2> SUFFICES ASSUME ReplyTypes, ReplyInv, reply.followed
               PROVE  /\ reply.closed => reply.written >= reply.announced
                      /\ reply.afterClose =>
                           \E i \in reply.taken + 1 .. sent : request[i] = EmptyLine
    BY DEF ClosesAfterReply
  <2>1. PiecesInv /\ (InHeaders \/ Answered \/ ReplyDone)
    BY DEF ReplyInv
  <2>2. reply.closed => reply.written >= reply.announced
    BY <2>1 DEF InHeaders, Answered, ReplyDone
  <2>3. ASSUME reply.afterClose
        PROVE  \E i \in reply.taken + 1 .. sent : request[i] = EmptyLine
    <3>1. PICK i \in reply.taken + 1 .. reply.read : request[i] = EmptyLine
      BY <2>1, <2>3 DEF InHeaders, Answered, ReplyDone
    <3>2. reply.read <= sent /\ reply.read \in Nat /\ reply.taken \in Nat /\ sent \in Nat
      BY <2>1, ReadSoFar, ReplyNumbers DEF ReplyTypes
    <3> QED
      BY <3>1, <3>2
  <2> QED
    BY <2>2, <2>3
<1> QED
  BY <1>1, ReplyInvHolds, PTL
=============================================================================
