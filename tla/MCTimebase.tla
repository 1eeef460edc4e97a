----------------------------- MODULE MCTimebase -----------------------------
(* Small instances of Timebase for TLC. *)
EXTENDS Timebase

BothKinds == {"ZDA", "RMC"}
AllKinds == SentenceKinds
Honest == {0}
Lagging == {-1, 0}
=============================================================================
