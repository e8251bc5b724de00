----------------------------- MODULE MCDispatch -----------------------------
(* Instances of Dispatch for TLC; see the .cfg files for the constants.    *)
EXTENDS Dispatch

(* epoll_wait reports between one event and a full epoll_events. *)
AnyBatch == 1 .. MAX_CONNECT

(* fewer events than threads, and more *)
FewAndMany == {2, 4}
=============================================================================
