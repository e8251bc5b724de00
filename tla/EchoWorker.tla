----------------------------- MODULE EchoWorker -----------------------------
(***************************************************************************)
(* echo_worker of echo_http.cpp: it collects the headers of a request in a *)
(* buffer, answers with a response header, and sends back the client's     *)
(* headers and text, partly by reference to the buffer, which a deleter    *)
(* frees when the package is sent or cancelled. What it knows of a request *)
(* is in states, under the connection_id: this module follows one id and   *)
(* the connections that have it one after the other.                       *)
(*                                                                         *)
(* Data is a sequence of units of length 1: an empty line, a header line   *)
(* with a Content-Length, or anything else. No package cuts a unit in two, *)
(* what is received has no NUL in it, and the buffer's 1000 bytes are      *)
(* enough. A package that is received into keeps what it had behind that.  *)
(*                                                                         *)
(* echo_worker reads a package's connection_id where it takes the state,   *)
(* writes and erases. That a connection_info has another id by then is     *)
(* modelled where it erases; the rest is the subject of Connections. The   *)
(* client is external, and the processor is reduced to what an id's list   *)
(* of packages goes through.                                               *)
(***************************************************************************)
EXTENDS Integers, Sequences, SequencesExt, FiniteSets

CONSTANTS
  Requests,    (* the requests: sequences of units                         *)
  Remains,     (* what a package may still have from earlier               *)
  Radix,       (* of the number in Content-Length, 10                      *)
  MaxConns,    (* bound: connections with this id                          *)
  MaxInbox     (* bound: packages in data_package_queue                    *)

EmptyLine == -2
Line == -1
Units == {EmptyLine, Line} \cup Nat     (* a number: its Content-Length    *)

(* strstr(buffer, "\r\n\r\n") in the whole buffer; 0 if it is not there    *)
HeaderEnd(content) == SelectInSeq(content, LAMBDA u : u = EmptyLine)

(* strstr(buffer, "Content-Length"), and the number after it; 0 without it *)
Declared(content) ==
  LET at == SelectInSeq(content, LAMBDA u : u \in Nat)
  IN IF at = 0 THEN 0 ELSE content[at]

(* A request's headers have the length of its text, which may be anything. *)
IsRequest(r) ==
  /\ r \in Seq(Units)
  /\ HeaderEnd(r) # 0
  /\ Declared(SubSeq(r, 1, HeaderEnd(r))) = Len(r) - HeaderEnd(r)

ASSUME EchoAssumption ==
  /\ \A r \in Requests : IsRequest(r)
  /\ Remains \subseteq Seq(Units)
  /\ Radix \in Nat \ {0, 1}
  /\ MaxConns \in Nat /\ MaxInbox \in Nat

VARIABLES
  conn,        (* number of the connections so far                         *)
  request,     (* what the client of the last one sends                    *)
  sent,        (* units of it that were received                           *)
  alive,       (* "open", "closed", or "collected"                         *)
  inbox,       (* data_package_queue: data, data_length, connection        *)
  listed,      (* write_cache has an entry for the id                      *)
  outbox,      (* the list there                                           *)
  state,       (* states[connection_id], or NoState                        *)
  pc,          (* place of echo_worker                                     *)
  hand,        (* connection of the package that it handles, 0: none       *)
  headers,     (* len_client_header                                        *)
  text,        (* len_text_data                                            *)
  freed,       (* of each buffer allocated so far: how often it was freed  *)
  leaked,      (* history: buffers that nobody will free                   *)
  reply        (* history: the reply to the last connection's request      *)

clientVars  == <<conn, request, sent>>
listVars    == <<listed, outbox>>
workerVars  == <<state, pc, hand, headers, text>>
bufferVars  == <<freed, leaked>>
vars == <<clientVars, alive, inbox, listVars, workerVars, bufferVars, reply>>

(* what a state is when states has none for the id *)
NoState == [len |-> -1, finished |-> FALSE, buffer |-> 0, content |-> <<>>]

(***************************************************************************)
(* What reply records: the Content-Length of the first response header (-1 *)
(* before it); the client's units that were written back; whether a        *)
(* package with status CLOSE was written, and anything after that; the     *)
(* units of the request that echo_worker has taken, and had taken when it  *)
(* closed; whether there is text, and all of it came with the headers. A   *)
(* reply is not followed if an earlier connection left work behind, if a   *)
(* package had old content behind what was received, if recv failed, or if *)
(* the state was not erased.                                               *)
(***************************************************************************)
NewReply == [followed |-> TRUE, announced |-> -1, written |-> 0, closed |-> FALSE,
             afterClose |-> FALSE, read |-> 0, taken |-> 0, whole |-> FALSE]

Unfollowed == [NewReply EXCEPT !.followed = FALSE]

Replies == [followed : BOOLEAN, announced : Nat \cup {-1}, written : Nat, closed : BOOLEAN,
            afterClose : BOOLEAN, read : Nat, taken : Nat, whole : BOOLEAN]

Follow(r) == IF reply.followed THEN r ELSE Unfollowed

Took(r, n) == [r EXCEPT !.read = @ + n]

Announced(r, len, n) ==
  IF r.announced # -1 THEN r
  ELSE [r EXCEPT !.announced = len + n, !.whole = len # 0 /\ r.read = Len(request)]

Wrote(r, n, close) ==
  [r EXCEPT !.written = @ + n, !.closed = @ \/ close, !.afterClose = @ \/ r.closed,
            !.taken = IF close /\ ~r.closed THEN r.read ELSE @]

Init ==
  /\ conn = 0 /\ request = <<>> /\ sent = 0 /\ alive = "collected"
  /\ inbox = <<>> /\ listed = FALSE /\ outbox = <<>>
  /\ state = NoState /\ pc = "read" /\ hand = 0 /\ headers = 0 /\ text = 0
  /\ freed = <<>> /\ leaked = {}
  /\ reply = Unfollowed
-----------------------------------------------------------------------------
(***************************************************************************)
(* The client and the processor                                            *)
(***************************************************************************)

(* accept_handler: a client gets the id; emplace keeps an entry that is    *)
(* still there. The connection_info may be the one of another id through   *)
(* which echo_worker is about to erase a state: that will be this id's.    *)
Connect ==
  /\ alive = "collected" /\ conn < MaxConns
  /\ conn' = conn + 1
  /\ request' \in Requests
  /\ sent' = 0
  /\ alive' = "open"
  /\ listed' = TRUE
  /\ reply' = IF state = NoState /\ pc = "read" /\ inbox = <<>> /\ outbox = <<>>
              THEN NewReply ELSE Unfollowed
  /\ \/ UNCHANGED <<pc, hand>>
     \/ pc = "read" /\ state # NoState /\ pc' = "erase" /\ hand' = conn'
  /\ UNCHANGED <<inbox, outbox, state, headers, text, bufferVars>>

(* read_handler: a part of the request is received and delivered. *)
Deliver ==
  /\ alive = "open" /\ Len(inbox) < MaxInbox
  /\ \E to \in sent + 1 .. Len(request) :
       /\ sent' = to
       /\ inbox' = Append(inbox, [data |-> SubSeq(request, sent + 1, to),
                                  size |-> to - sent, conn |-> conn])
  /\ UNCHANGED <<conn, request, alive, listVars, workerVars, bufferVars, reply>>

(* recv fails; -1 in a size_t is greater than 0, and the package is        *)
(* delivered as it is. Bound: only as the first disturbance of a reply.    *)
FailingRecv ==
  /\ alive = "open" /\ Len(inbox) < MaxInbox /\ reply.followed
  /\ inbox' = Append(inbox, [data |-> <<>>, size |-> -1, conn |-> conn])
  /\ reply' = Unfollowed
  /\ UNCHANGED <<clientVars, alive, listVars, workerVars, bufferVars>>

(* The buffers after the deleters of some of them have run; 0 is none. *)
Deleted(bufs, deleters) ==
  [b \in DOMAIN bufs |-> IF b \in deleters THEN bufs[b] + 1 ELSE bufs[b]]

(* write_handler sends the first package. *)
SendFirst ==
  /\ alive = "open" /\ outbox # <<>>
  /\ freed' = Deleted(freed, {Head(outbox).deleter})
  /\ alive' = IF Head(outbox).close THEN "closed" ELSE "open"
  /\ outbox' = Tail(outbox)
  /\ UNCHANGED <<clientVars, inbox, listed, workerVars, leaked, reply>>

(* The client leaves, and read_handler closes the connection. *)
Leave ==
  /\ alive = "open"
  /\ alive' = "closed"
  /\ UNCHANGED <<clientVars, inbox, listVars, workerVars, bufferVars, reply>>

(* Mutant: the collector does not run the deleters. *)
CollectGarbageNoDeleter ==
  /\ alive = "closed"
  /\ alive' = "collected"
  /\ listed' = (outbox = <<>>)
  /\ outbox' = <<>>
  /\ UNCHANGED <<clientVars, inbox, workerVars, bufferVars, reply>>

(* connection_resource_gc cancels what is pending. The entry stays if the  *)
(* list is empty.                                                          *)
CollectGarbage ==
  /\ alive = "closed"
  /\ alive' = "collected"
  /\ freed' = Deleted(freed, {outbox[k].deleter : k \in DOMAIN outbox})
  /\ listed' = (outbox = <<>>)
  /\ outbox' = <<>>
  /\ UNCHANGED <<clientVars, inbox, workerVars, leaked, reply>>
-----------------------------------------------------------------------------
(***************************************************************************)
(* echo_worker                                                             *)
(***************************************************************************)

(* Mutant: the constructor does not set buffer. *)
ThisConnNoBuffer == [state EXCEPT !.len = @]

(* states[connection_id], whose constructor allocates a buffer *)
ThisConn == IF state = NoState THEN [state EXCEPT !.buffer = Len(freed) + 1] ELSE state

Buffers == IF state = NoState THEN Append(freed, 0) ELSE freed

(* asyn_write of a package that refers to buffer ref (0: has its own data) *)
(* with a deleter for buffer deleter (0: none); without an entry the       *)
(* deleter runs at once.                                                   *)
Write(bufs, ref, deleter, close) ==
  /\ outbox' = IF listed THEN Append(outbox, [ref |-> ref, deleter |-> deleter, close |-> close])
                         ELSE outbox
  /\ freed' = IF listed THEN bufs ELSE Deleted(bufs, {deleter})
  /\ UNCHANGED listed

(* length_start + 17 is the second digit of the number. *)
Power(k) == Radix ^ k

Parsed(n) ==
  LET weights == {w \in 1 .. n : w = 1 \/ \E k \in 1 .. n : w = Power(k)}
  IN IF n = 0 THEN 0 ELSE n % (CHOOSE w \in weights : \A v \in weights : v <= w)

(* strcat: what is behind the received data is appended with it. *)
Appended(old) == ThisConn.content \o Head(inbox).data \o old

MoreHeader ==
  /\ pc = "read" /\ inbox # <<>> /\ ~ThisConn.finished
  /\ \E old \in Remains :
       /\ HeaderEnd(Appended(old)) = 0
       /\ state' = [ThisConn EXCEPT !.content = Appended(old)]
       /\ reply' = IF old = <<>> THEN Follow(Took(reply, Len(Head(inbox).data))) ELSE Unfollowed
  /\ freed' = Buffers
  /\ inbox' = Tail(inbox)
  /\ UNCHANGED <<clientVars, alive, listVars, pc, hand, headers, text, leaked>>

(* The headers are complete: the response header is written. The buffer is *)
(* not searched again.                                                     *)
HeaderFinished ==
  /\ pc = "read" /\ inbox # <<>> /\ ~ThisConn.finished
  /\ \E old \in Remains :
       LET content == Appended(old)
           len == Parsed(Declared(content))
           took == Took(reply, Len(Head(inbox).data))
       IN /\ HeaderEnd(content) # 0
          /\ state' = [ThisConn EXCEPT !.finished = TRUE, !.len = len, !.content = <<>>]
          /\ headers' = HeaderEnd(content) - 1
          /\ text' = Len(content) - HeaderEnd(content)
          /\ reply' = IF old = <<>> THEN Follow(Wrote(Announced(took, len, headers'), 0, FALSE))
                                    ELSE Unfollowed
  /\ Write(Buffers, 0, 0, FALSE)
  /\ inbox' = Tail(inbox)
  /\ pc' = "client" /\ hand' = Head(inbox).conn
  /\ UNCHANGED <<clientVars, alive, leaked>>

(* Mutant: the package with the headers has the deleter, too. *)
EchoClientHeaderDeletes ==
  /\ pc = "client"
  /\ reply' = Follow(Wrote(reply, headers, state.len = 0))
  /\ Write(freed, state.buffer, state.buffer, state.len = 0)
  /\ pc' = IF state.len = 0 THEN "erase" ELSE IF text > 0 THEN "text" ELSE "read"
  /\ UNCHANGED <<clientVars, alive, inbox, state, hand, headers, text, leaked>>

(* The client's headers, by reference: the last package if there is no     *)
(* text, else one without a deleter.                                       *)
EchoClientHeader ==
  /\ pc = "client"
  /\ reply' = Follow(Wrote(reply, headers, state.len = 0))
  /\ IF state.len # 0
     THEN /\ Write(freed, state.buffer, 0, FALSE)
          /\ pc' = IF text > 0 THEN "text" ELSE "read"
          /\ hand' = IF text > 0 THEN hand ELSE 0
          /\ leaked' = IF text > 0 THEN leaked ELSE leaked \cup {state.buffer}
     ELSE /\ Write(freed, state.buffer, state.buffer, TRUE)
          /\ pc' = "erase"
          /\ UNCHANGED <<hand, leaked>>
  /\ headers' = 0 /\ text' = IF pc' = "text" THEN text ELSE 0
  /\ UNCHANGED <<clientVars, alive, inbox, state>>

(* The text that came with the headers, by reference and with the deleter *)
EchoText ==
  /\ pc = "text"
  /\ reply' = Follow(Wrote(reply, text, FALSE))
  /\ state' = [state EXCEPT !.len = @ - text]
  /\ Write(freed, state.buffer, state.buffer, FALSE)
  /\ pc' = "read" /\ hand' = 0 /\ text' = 0
  /\ UNCHANGED <<clientVars, alive, inbox, headers, leaked>>

(* Mutant: the package is not subtracted from len. *)
EchoBodyNotCounted ==
  /\ pc = "read" /\ inbox # <<>> /\ state.finished
  /\ LET n == Len(Head(inbox).data)
     IN reply' = Follow(Wrote(Took(reply, n), n, state.len <= 0))
  /\ Write(freed, 0, 0, state.len <= 0)
  /\ pc' = IF state.len <= 0 THEN "erase" ELSE "read"
  /\ hand' = IF state.len <= 0 THEN Head(inbox).conn ELSE 0
  /\ inbox' = Tail(inbox)
  /\ UNCHANGED <<clientVars, alive, state, headers, text, leaked>>

(* Mutant: the state is not erased after the last package. *)
EchoBodyKeepsState ==
  /\ pc = "read" /\ inbox # <<>> /\ state.finished
  /\ LET len == state.len - Head(inbox).size
         n == Len(Head(inbox).data)
     IN /\ state' = [state EXCEPT !.len = len]
        /\ Write(freed, 0, 0, len <= 0)
        /\ reply' = Follow(Wrote(Took(reply, n), n, len <= 0))
  /\ inbox' = Tail(inbox)
  /\ UNCHANGED <<clientVars, alive, pc, hand, headers, text, leaked>>

(* A package after the headers is sent back as it is. *)
EchoBody ==
  /\ pc = "read" /\ inbox # <<>> /\ state.finished
  /\ LET len == state.len - Head(inbox).size
         n == Len(Head(inbox).data)
     IN /\ state' = [state EXCEPT !.len = len]
        /\ Write(freed, 0, 0, len <= 0)
        /\ pc' = IF len <= 0 THEN "erase" ELSE "read"
        /\ hand' = IF len <= 0 THEN Head(inbox).conn ELSE 0
        /\ reply' = Follow(Wrote(Took(reply, n), n, len <= 0))
  /\ inbox' = Tail(inbox)
  /\ UNCHANGED <<clientVars, alive, headers, text, leaked>>

(* states.erase: this id's state, with a buffer nobody else knows if its   *)
(* headers are not complete; or another one's, if the connection_info was  *)
(* recycled since.                                                         *)
Erase ==
  /\ pc = "erase"
  /\ \/ /\ state' = NoState
        /\ leaked' = IF state # NoState /\ ~state.finished THEN leaked \cup {state.buffer}
                                                           ELSE leaked
        /\ UNCHANGED reply
     \/ /\ hand # conn \/ alive = "collected"
        /\ reply' = Unfollowed
        /\ UNCHANGED <<state, leaked>>
  /\ pc' = "read" /\ hand' = 0
  /\ UNCHANGED <<clientVars, alive, inbox, listVars, headers, text, freed>>

Next ==
  \/ Connect \/ Deliver \/ FailingRecv \/ SendFirst \/ Leave \/ CollectGarbage
  \/ MoreHeader \/ HeaderFinished \/ EchoClientHeader \/ EchoText \/ EchoBody \/ Erase

Spec == Init /\ [][Next]_vars
-----------------------------------------------------------------------------
(* Every variable has a value of its kind. *)
TypeOK ==
  /\ conn \in 0 .. MaxConns /\ request \in Requests \cup {<<>>}
  /\ {sent, headers, text} \subseteq Nat
  /\ alive \in {"open", "closed", "collected"}
  /\ Len(inbox) <= MaxInbox
  /\ listed \in BOOLEAN /\ (~listed => outbox = <<>>)
  /\ state.len \in Int /\ state.finished \in BOOLEAN /\ state.content \in Seq(Units)
  /\ state # NoState => state.buffer \in DOMAIN freed
  /\ pc \in {"read", "client", "text", "erase"} /\ hand \in 0 .. conn
  /\ freed \in Seq(Nat) /\ leaked \subseteq DOMAIN freed
  /\ reply \in Replies

(* The worker still reads or refers to the buffer of its state. *)
InUse == state # NoState /\ (~state.finished \/ pc \in {"client", "text"})

(***************************************************************************)
(* No package in the list refers to a buffer that was freed, and the       *)
(* worker uses none: only the last package that refers to a buffer has the *)
(* deleter, so the buffer outlives the packages before it, whether they    *)
(* are sent, cancelled by the collector or refused by asyn_write.          *)
(***************************************************************************)
NoUseAfterFree ==
  /\ \A k \in DOMAIN outbox : outbox[k].ref # 0 => freed[outbox[k].ref] = 0
  /\ InUse => freed[state.buffer] = 0

(***************************************************************************)
(* A buffer is freed once. Until then the worker uses it, or one package   *)
(* has its deleter, or it is one of those nobody frees: those whose        *)
(* headers came without text, which never get a deleter (line 98), and     *)
(* those whose state was erased for another id (lines 119, 135).           *)
(***************************************************************************)
BufferFreedOnce ==
  \A b \in DOMAIN freed :
    LET pending == Cardinality({k \in DOMAIN outbox : outbox[k].deleter = b})
        used == IF InUse /\ state.buffer = b THEN 1 ELSE 0
        lost == IF b \in leaked THEN 1 ELSE 0
    IN freed[b] + pending + used + lost = 1

(* The request of the current connection is answered as far as it came.    *)
AllEchoed == reply.followed /\ pc = "read" /\ inbox = <<>> /\ sent = Len(request)

(***************************************************************************)
(* "Connection: close": whatever the pieces a request came in, the         *)
(* connection is told to close once all of it has been echoed -- unless    *)
(* all the text came in the package that ended the headers: then nobody    *)
(* looks at len again, and the connection stays open.                      *)
(***************************************************************************)
ReplyCloses == AllEchoed /\ ~reply.whole => reply.closed

(***************************************************************************)
(* The connection is not told to close before the reply has as much as its *)
(* Content-Length announced (which is less than the request had, because   *)
(* of Parsed). The text that comes after that is taken for the headers of  *)
(* another request: something is written after the package that closes the *)
(* connection only if there is an empty line in that text.                 *)
(***************************************************************************)
ClosesAfterReply ==
  reply.followed =>
    /\ reply.closed => reply.written >= reply.announced
    /\ reply.afterClose => \E i \in reply.taken + 1 .. sent : request[i] = EmptyLine
=============================================================================
