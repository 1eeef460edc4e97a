------------------------------- MODULE NtpTime -------------------------------
(***************************************************************************)
(* The timestamp that ntp_time.c makes of a timebase snapshot and the      *)
(* timer: 32 bits of seconds since 1900 and 32 bits of fraction, with the  *)
(* widths and the ticks per second as constants.  The clock of this module *)
(* is the timer; snapshots are taken as edges are captured or missed.      *)
(***************************************************************************)
EXTENDS Integers

CONSTANTS
  Second,       \* MICROSECONDS_PER_SECOND
  SecondsMod,   \* 2^32, the range of ntp_seconds
  FractionMod,  \* 2^32, the range of ntp_fraction
  EpochOffset,  \* NTP_UNIX_EPOCH_OFFSET
  MaxAge,       \* most ticks from a snapshot's edge to its use
  LastSecond    \* bound: the last UTC second

\* A tick is no finer than the fraction, and a snapshot much younger than an era.
ASSUME WidthAssumption ==
  /\ {Second, SecondsMod, FractionMod} \subseteq Nat \ {0}
  /\ Second <= FractionMod
  /\ EpochOffset \in Nat /\ LastSecond \in Nat
  /\ MaxAge \in Nat /\ MaxAge < (SecondsMod \div 2) * Second

VARIABLES
  now,   \* esp_timer_get_time(): tick 0 is UTC second 0
  unix,  \* the snapshot: the UTC second of its edge ...
  stamp  \* ... and the timer at the edge

ntpTimeVars == <<now, unix, stamp>>

\* ntp_time_from_unix.
NtpSeconds(seconds) == (seconds + EpochOffset) % SecondsMod
NtpFraction(ticks) == (ticks * FractionMod) \div Second

\* Mutant: whole seconds since the edge are not carried over.
NtpTimeFromPpsTruncated ==
  [seconds  |-> NtpSeconds(unix),
   fraction |-> NtpFraction((now - stamp) % Second)]

\* ntp_time_from_pps.
NtpTimeFromPps ==
  [seconds  |-> NtpSeconds(unix + (now - stamp) \div Second),
   fraction |-> NtpFraction((now - stamp) % Second)]

\* The two words read as one number, as a client does.
Era == SecondsMod * FractionMod
Ntp == NtpTimeFromPps.seconds * FractionMod + NtpTimeFromPps.fraction

NtpTimeInit == now = 0 /\ unix = 0 /\ stamp = 0

\* A tick passes; where it begins a second, the edge is captured or missed.
Tick ==
  /\ now < LastSecond * Second
  /\ now' = now + 1
  /\ \/ /\ now' % Second = 0
        /\ unix' = now' \div Second
        /\ stamp' = now'
     \/ /\ now' - stamp <= MaxAge
        /\ UNCHANGED <<unix, stamp>>

NtpTimeSpec == NtpTimeInit /\ [][Tick]_ntpTimeVars

\* Whichever edge the snapshot is of, and across the end of an NTP era, two
\* timestamps one tick apart differ by one tick to within the fraction's unit,
\* in the arithmetic that a client uses (RFC 5905: modulo 2^64).
Advances ==
  [][LET step == (Ntp' - Ntp) % Era
     IN  /\ step * Second > FractionMod - Second
         /\ step * Second < FractionMod + Second]_ntpTimeVars

=============================================================================
