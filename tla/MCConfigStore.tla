----------------------------- MODULE MCConfigStore -----------------------------
(* Small instances of ConfigStore.                                         *)
EXTENDS ConfigStore
=============================================================================
