------------------------------ MODULE MCFibers ------------------------------
(* Programs for the fibers of Fibers.tla. *)
EXTENDS Fibers

\* Every fiber may do anything.
AnyOps == [f \in Fibers |-> FiberOps]

=============================================================================
