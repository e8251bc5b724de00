--------------------------- MODULE MCPackagePool ---------------------------
(* Two dispatch threads, the collector and the application; three packages. *)
EXTENDS PackagePool, TLC

CONSTANTS dispatcher, helper, collector, application

FourUsers == {dispatcher, helper, collector, application}
AnyUser == Permutations(FourUsers)
=============================================================================
