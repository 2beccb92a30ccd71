--------------------------- MODULE MCObservations ---------------------------
(***************************************************************************)
(* Observations for TLC.  Two disks, each around the warning threshold and *)
(* at the critical 95, so that either may be the worse one.  A certificate *)
(* on both sides of the first day of its warning period and of its last    *)
(* day, and an expired one.                                                *)
(***************************************************************************)
EXTENDS Observations

TwoDisks == <<"/", "/data">>
DiskPairs == {<<84, 84>>, <<85, 84>>, <<95, 85>>, <<84, 95>>}
CertificateSeconds == {-4, 2, 5, 6}
=============================================================================
