----------------------------- MODULE WiznetSpi -----------------------------
(***************************************************************************)
(* How an access to the W5500 ends (wiznet_spi.c, wiznet_send_command).    *)
(* The SPI lock is held for one transaction, so two tasks interleave       *)
(* between any two accesses.                                               *)
(***************************************************************************)
EXTENDS Naturals

\* A transaction fails when the lock is not had within 50 ms or the bus reports
\* an error: nothing is written, and a register of up to four bytes reads as
\* zero.
Results == {"ok", "failed"}

\* A command is written to Sn_CR, which is then read until the chip has cleared
\* it.  The command is reported as failed when it was not written ("unsent"),
\* and also when the chip has it but Sn_CR could not be read or was not cleared
\* in time ("unseen").
CommandResults == {"ok", "unsent", "unseen"}

Executed(result) == result # "unsent"

\* The failures so far, counted against a bound.
Counted(failures, result) == failures + (IF result = "ok" THEN 0 ELSE 1)
=============================================================================
