----------------------------- MODULE W5500Filter -----------------------------
(***************************************************************************)
(* The multicast filter of the W5500 (esp_eth_mac_w5500.c).  The chip has  *)
(* one bit that blocks all IPv4 multicast; the driver counts the groups    *)
(* and sets the bit when the last one is left.  The TCP/IP task joins and  *)
(* leaves groups for mDNS; lwIP is external, calls the driver once for each *)
(* group it joins or leaves, and does not look at the result.              *)
(*                                                                         *)
(* IPv6 groups return before they touch anything.  set_all_multicast has   *)
(* no caller here and is left out.                                         *)
(***************************************************************************)
EXTENDS Naturals, WiznetSpi

CONSTANTS
  Groups,    \* IPv4 groups
  CountMod   \* the count wraps here, 256

ASSUME FilterAssumption == CountMod \in Nat \ {0}

VARIABLES
  members,   \* the groups that lwIP has joined
  count,     \* mcast_v4_cnt
  blocked,   \* W5500_SMR_MAC_BLOCK_MCAST in Sn_MR
  refused    \* history: an add_mac_filter returned an error

filterVars == <<members, count, blocked, refused>>

\* w5500_setup_default blocks multicast.
FilterInit == members = {} /\ count = 0 /\ blocked = TRUE /\ refused = FALSE

\* emac_w5500_set_block_ip4_mcast: Sn_MR is read and written.
SetBlock(block, result) == blocked' = IF result = "ok" THEN block ELSE blocked

\* emac_w5500_add_mac_filter
Join ==
  /\ \E g \in Groups \ members : members' = members \cup {g}
  /\ IF count = 0
     THEN \E result \in Results :
            /\ SetBlock(FALSE, result)
            /\ count' = IF result = "ok" THEN 1 ELSE 0
            /\ refused' = (refused \/ result # "ok")
     ELSE count' = (count + 1) % CountMod /\ UNCHANGED <<blocked, refused>>

\* Mutant: whoever leaves blocks.
LeaveBlocks ==
  /\ \E g \in members : members' = members \ {g}
  /\ count' = IF count > 0 THEN count - 1 ELSE 0
  /\ \E result \in Results : SetBlock(TRUE, result)
  /\ UNCHANGED refused

\* emac_w5500_rm_mac_filter: the address is not asked whether it was added.
Leave ==
  /\ \E g \in members : members' = members \ {g}
  /\ count' = IF count > 0 THEN count - 1 ELSE 0
  /\ IF count' = 0 THEN \E result \in Results : SetBlock(TRUE, result)
     ELSE UNCHANGED blocked
  /\ UNCHANGED refused

FilterNext == Join \/ Leave

FilterSpec == FilterInit /\ [][FilterNext]_filterVars

\* mDNS is heard as long as lwIP is in a group, also after a bit that could not be
\* set again when the last group was left.  A join that was refused is the
\* exception: leaving that group takes away the count of another one.
JoinedHeard == members # {} /\ ~refused => ~blocked
=============================================================================
