---------------------------- MODULE MCNativePool ----------------------------
(* Small instances of NativePool.  Leases and clients are interchangeable: *)
(* no action or property names one.                                        *)
EXTENDS NativePool, TLC

Symmetry == Permutations(Lease) \cup Permutations(Client)
=============================================================================
