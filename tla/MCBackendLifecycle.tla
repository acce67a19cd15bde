------------------------ MODULE MCBackendLifecycle ------------------------
(***************************************************************************)
(* Instances of BackendLifecycle for TLC.  The safety runs treat callers   *)
(* of the same kind as interchangeable.                                    *)
(***************************************************************************)
EXTENDS BackendLifecycle, TLC

Symmetry == Permutations(Tasks) \cup Permutations(Closers)

=============================================================================
