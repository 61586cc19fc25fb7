--------------------------- MODULE MCDesktopRecovery ---------------------------
(* Small instances of DesktopRecovery.                                     *)
EXTENDS DesktopRecovery, TLC
=============================================================================
