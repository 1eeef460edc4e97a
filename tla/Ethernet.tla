------------------------------ MODULE Ethernet ------------------------------
(***************************************************************************)
(* The network state that the status pages show (ethernet.c).  The driver  *)
(* and the DHCP client (ESP-IDF, external) post events to the default event *)
(* loop; its task calls the two handlers of ethernet.c and the driver's own *)
(* ones, which start and stop the DHCP client.  Events are handled in the   *)
(* order they were posted, after the fact they tell of may be over.         *)
(*                                                                          *)
(* An address stands for address, netmask and gateway, which are written    *)
(* together.  Nothing calls esp_eth_stop, so ETHERNET_EVENT_STOP is not     *)
(* posted, and no handler is registered for the loss of an address.         *)
(***************************************************************************)
EXTENDS Naturals, Sequences

CONSTANTS
  Addresses, \* what DHCP may assign
  None,      \* no address
  MaxEvents  \* bound: events that wait in the loop

ASSUME EthernetAssumption == None \notin Addresses /\ MaxEvents \in Nat \ {0}

VARIABLES
  started,   \* esp_eth_start was called
  link,      \* the link as the driver last saw it
  dhcp,      \* the DHCP client runs
  lease,     \* the address of the network interface
  loop,      \* the events that wait for the event-loop task
  ethernet   \* ethernet_state

ethVars == <<started, link, dhcp, lease, loop, ethernet>>

EthInit ==
  /\ started = FALSE
  /\ link = FALSE
  /\ dhcp = FALSE
  /\ lease = None
  /\ loop = <<>>
  /\ ethernet = [running |-> FALSE, link_up |-> FALSE, ipv4 |-> None]

-----------------------------------------------------------------------------
(***************************************************************************)
(* Who posts: ethernet_start, the driver and the DHCP client.              *)
(***************************************************************************)

Event(kind, address) == [kind |-> kind, address |-> address]

Post(event) ==
  /\ Len(loop) < MaxEvents
  /\ loop' = Append(loop, event)

\* The handlers are registered before esp_eth_start.
Start ==
  /\ ~started
  /\ started' = TRUE
  /\ Post(Event("start", None))
  /\ UNCHANGED <<link, dhcp, lease, ethernet>>

LinkChanges ==
  /\ started
  /\ link' = ~link
  /\ Post(Event(IF link' THEN "connected" ELSE "disconnected", None))
  /\ UNCHANGED <<started, dhcp, lease, ethernet>>

\* An answer may arrive while the end of the link waits in the loop.
Bind ==
  /\ dhcp
  /\ \E a \in Addresses \ {lease} :
       /\ lease' = a
       /\ Post(Event("got_ip", a))
  /\ UNCHANGED <<started, link, dhcp, ethernet>>

\* The lease runs out, and nobody in src/ is told.
Expire ==
  /\ lease # None
  /\ lease' = None
  /\ UNCHANGED <<started, link, dhcp, loop, ethernet>>

-----------------------------------------------------------------------------
(***************************************************************************)
(* ethernet_event_handler and ethernet_got_ip_handler.                     *)
(***************************************************************************)

Dispatch(kind) ==
  /\ loop # <<>>
  /\ Head(loop).kind = kind
  /\ loop' = Tail(loop)

HandleStart ==
  /\ Dispatch("start")
  /\ ethernet' = [ethernet EXCEPT !.running = TRUE]
  /\ UNCHANGED <<started, link, dhcp, lease>>

HandleConnected ==
  /\ Dispatch("connected")
  /\ ethernet' = [ethernet EXCEPT !.link_up = TRUE]
  /\ dhcp' = TRUE
  /\ UNCHANGED <<started, link, lease>>

\* Mutant: the case falls through into ETHERNET_EVENT_STOP.
HandleDisconnectedFalls ==
  /\ Dispatch("disconnected")
  /\ ethernet' = [running |-> FALSE, link_up |-> FALSE, ipv4 |-> None]
  /\ dhcp' = FALSE
  /\ lease' = None
  /\ UNCHANGED <<started, link>>

HandleDisconnected ==
  /\ Dispatch("disconnected")
  /\ ethernet' = [ethernet EXCEPT !.link_up = FALSE, !.ipv4 = None]
  /\ dhcp' = FALSE
  /\ lease' = None
  /\ UNCHANGED <<started, link>>

\* Mutant: who has an address has a link.
HandleGotIpLinkUp ==
  /\ Dispatch("got_ip")
  /\ ethernet' = [ethernet EXCEPT !.link_up = TRUE, !.ipv4 = Head(loop).address]
  /\ UNCHANGED <<started, link, dhcp, lease>>

\* Mutant: an address is kept until the link is lost.
HandleGotIpOnce ==
  /\ Dispatch("got_ip")
  /\ ethernet' = IF ethernet.ipv4 = None
                 THEN [ethernet EXCEPT !.ipv4 = Head(loop).address]
                 ELSE ethernet
  /\ UNCHANGED <<started, link, dhcp, lease>>

HandleGotIp ==
  /\ Dispatch("got_ip")
  /\ ethernet' = [ethernet EXCEPT !.ipv4 = Head(loop).address]
  /\ UNCHANGED <<started, link, dhcp, lease>>

EthernetTask ==
  \/ HandleStart \/ HandleConnected \/ HandleDisconnected \/ HandleGotIp

Network == LinkChanges \/ Bind \/ Expire

EthNext == Start \/ Network \/ EthernetTask

EthSpec == EthInit /\ [][EthNext]_ethVars

-----------------------------------------------------------------------------
(***************************************************************************)
(* Properties.                                                             *)
(***************************************************************************)

Kinds == {"start", "connected", "disconnected", "got_ip"}
MaybeAddress == Addresses \cup {None}

\* The type invariant; the link is shown up only on a running interface, and
\* only a running DHCP client holds an address.
EthTypeOK ==
  /\ started \in BOOLEAN /\ link \in BOOLEAN /\ dhcp \in BOOLEAN
  /\ lease \in MaybeAddress
  /\ loop \in Seq([kind: Kinds, address: MaybeAddress])
  /\ Len(loop) <= MaxEvents
  /\ ethernet \in [running: BOOLEAN, link_up: BOOLEAN, ipv4: MaybeAddress]
  /\ ethernet.link_up => ethernet.running
  /\ lease # None => dhcp

\* A link that flaps faster than the loop task runs leaves the right state
\* behind: as soon as no event waits, ethernet_state has the driver's link.
LinkSettled ==
  loop = <<>> => ethernet.running = started /\ ethernet.link_up = link

\* Whatever addresses came and went, also one that was bound before the end of
\* its link was handled and is shown on a dead link: as soon as no event waits,
\* an interface that has an address is shown with that one.
AddressShown == loop = <<>> /\ lease # None => ethernet.ipv4 = lease

(***************************************************************************)
(* The inductive invariant behind these properties.                        *)
(***************************************************************************)

\* The start of Ethernet is the first event, and is waited for until handled.
StartInv ==
  /\ ~started => loop = <<>> /\ ~ethernet.running /\ ~link /\ ~dhcp
  /\ started /\ ~ethernet.running => loop # <<>> /\ Head(loop).kind = "start"

LinkKinds == {"connected", "disconnected"}

Waits(kinds) == \E i \in 1 .. Len(loop) : loop[i].kind \in kinds

\* The event at i is the last of its kinds that waits.
Last(kinds, i) ==
  /\ loop[i].kind \in kinds
  /\ \A j \in i + 1 .. Len(loop) : loop[j].kind \notin kinds

\* The last event about the link tells of its present state; if there is none
\* left, ethernet_state does.
LinkInv ==
  /\ \A i \in 1 .. Len(loop) :
       Last(LinkKinds, i) => (loop[i].kind = "connected" <=> link)
  /\ ~Waits(LinkKinds) => ethernet.link_up = link

\* While the interface has an address and the end of the link does not wait, the
\* same holds of its address.
AddressInv ==
  lease # None /\ ~Waits({"disconnected"}) =>
    /\ \A i \in 1 .. Len(loop) :
         Last({"got_ip"}, i) => loop[i].address = lease
    /\ ~Waits({"got_ip"}) => ethernet.ipv4 = lease

EthInv == EthTypeOK /\ StartInv /\ LinkInv /\ AddressInv

=============================================================================
