---------------------------- MODULE MCNtpServer -----------------------------
(* Small instances of NtpServer for TLC. *)
EXTENDS NtpServer

RmcOnly == {"RMC"}
Honest == {0}
=============================================================================
