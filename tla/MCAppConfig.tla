---------------------------- MODULE MCAppConfig -----------------------------
(* A small instance of AppConfig for TLC: a name may be saved, saved back and *)
(* replaced by a third one. *)
EXTENDS AppConfig
CONSTANTS clock2, lab, roof

ThreeNames == {clock2, lab, roof}
=============================================================================
