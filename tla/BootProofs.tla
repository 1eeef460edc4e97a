------------------------------ MODULE BootProofs -----------------------------
(* Proofs about the Ethernet component and start-up. *)
EXTENDS Boot, SequenceTheorems, TLAPS

-----------------------------------------------------------------------------
(***************************************************************************)
(* The driver and the address.                                             *)
(***************************************************************************)

Events == [kind: Kinds, address: MaybeAddress]

\* What Post does to the events that wait.
LEMMA PostAppends ==
  ASSUME EthTypeOK, NEW event \in Events, Post(event)
  PROVE  /\ loop' \in Seq(Events) /\ Len(loop') <= MaxEvents
         /\ Len(loop) \in Nat /\ Len(loop') = Len(loop) + 1
         /\ \A i \in 1 .. Len(loop) : loop'[i] = loop[i]
         /\ loop'[Len(loop')] = event
         /\ loop # <<>> => Head(loop') = Head(loop)
         /\ loop = <<>> => Head(loop') = event
         /\ loop' # <<>>
<1>1. loop \in Seq(Events) /\ Len(loop) <= MaxEvents
  BY DEF EthTypeOK, Events
<1>2. loop' = Append(loop, event) /\ Len(loop) < MaxEvents
  BY DEF Post
<1> QED
  BY <1>1, <1>2, AppendProperties, EthernetAssumption

\* What Dispatch does to them.
LEMMA DispatchShifts ==
  ASSUME EthTypeOK, NEW kind, Dispatch(kind)
  PROVE  /\ loop' \in Seq(Events) /\ Len(loop') <= MaxEvents
         /\ Len(loop') \in Nat /\ Len(loop) = Len(loop') + 1
         /\ \A i \in 1 .. Len(loop') : loop'[i] = loop[i + 1]
         /\ loop[1] = Head(loop) /\ loop[1].kind = kind
         /\ loop[1] \in Events
<1>1. loop \in Seq(Events) /\ Len(loop) <= MaxEvents /\ loop # <<>>
  BY DEF EthTypeOK, Events, Dispatch
<1>2. loop' = Tail(loop) /\ Head(loop).kind = kind
  BY DEF Dispatch
<1>3. /\ loop' \in Seq(Events)
      /\ Len(loop) \in Nat /\ Len(loop') = Len(loop) - 1
      /\ \A i \in 1 .. Len(loop') : loop'[i] = loop[i + 1]
  BY <1>1, <1>2
<1>4. loop[1] = Head(loop) /\ loop[1] \in Events /\ Len(loop') \in Nat
  BY <1>1, <1>3
<1> QED
  BY <1>1, <1>2, <1>3, <1>4, EthernetAssumption

\* The interface is started once, and nothing waits before that.
LEMMA StartKeeps ==
  ASSUME EthInv, Start
  PROVE  EthInv'
<1> DEFINE event == Event("start", None)
<1>1. event \in Events /\ event.kind = "start"
  BY DEF Event, Events, Kinds, MaybeAddress
<1>2. /\ EthTypeOK /\ StartInv /\ ~started /\ started' /\ Post(event)
      /\ UNCHANGED <<link, dhcp, lease, ethernet>>
  BY DEF EthInv, Start
<1>3. loop = <<>> /\ ~ethernet.running /\ ~link /\ lease = None
  BY <1>2 DEF StartInv, EthTypeOK
<1>4. /\ loop' \in Seq(Events) /\ Len(loop') <= MaxEvents /\ Len(loop') = 1
      /\ loop'[1] = event /\ Head(loop').kind = "start" /\ loop' # <<>>
  BY <1>1, <1>2, <1>3, PostAppends
<1>5. EthTypeOK'
  BY <1>2, <1>4 DEF EthTypeOK, Events
<1>6. StartInv'
  BY <1>2, <1>4 DEF StartInv
<1>7. ethernet.link_up = link
  BY <1>3 DEF EthInv, LinkInv, Waits
<1>8. LinkInv'
  BY <1>1, <1>2, <1>4, <1>7 DEF LinkInv, Last, Waits, LinkKinds
<1>9. AddressInv'
  BY <1>2, <1>3 DEF AddressInv
<1> QED
  BY <1>5, <1>6, <1>8, <1>9 DEF EthInv

\* The new event tells of the new state of the link.
LEMMA LinkChangesKeeps ==
  ASSUME EthInv, LinkChanges
  PROVE  EthInv'
<1> DEFINE event == Event(IF link' THEN "connected" ELSE "disconnected", None)
<1>1. /\ EthTypeOK /\ StartInv /\ started /\ Post(event) /\ link' = ~link
      /\ UNCHANGED <<started, dhcp, lease, ethernet>>
  BY DEF EthInv, LinkChanges
<1>2. event \in Events /\ event.kind \in LinkKinds
      /\ (event.kind = "connected" <=> link')
  BY <1>1 DEF Event, Events, Kinds, MaybeAddress, LinkKinds, EthTypeOK
<1> HIDE DEF event
<1>3. /\ loop' \in Seq(Events) /\ Len(loop') <= MaxEvents
      /\ Len(loop) \in Nat /\ Len(loop') = Len(loop) + 1
      /\ \A i \in 1 .. Len(loop) : loop'[i] = loop[i]
      /\ loop'[Len(loop')] = event
      /\ loop # <<>> => Head(loop') = Head(loop)
      /\ loop' # <<>>
  BY <1>1, <1>2, PostAppends
<1>4. EthTypeOK'
  BY <1>1, <1>3 DEF EthTypeOK, Events
<1>5. StartInv'
  BY <1>1, <1>3 DEF StartInv
<1>6. LinkInv'
  <2>1. ASSUME NEW i \in 1 .. Len(loop'), Last(LinkKinds, i)'
        PROVE  i = Len(loop')
    BY <1>2, <1>3, <2>1 DEF Last
  <2>2. Waits(LinkKinds)'
    BY <1>2, <1>3 DEF Waits
  <2> QED
    BY <1>2, <1>3, <2>1, <2>2 DEF LinkInv
<1>7. AddressInv'
  <2> SUFFICES ASSUME lease # None, ~Waits({"disconnected"})'
               PROVE  /\ \A i \in 1 .. Len(loop') :
                           Last({"got_ip"}, i)' => loop'[i].address = lease
                      /\ ~Waits({"got_ip"})' => ethernet.ipv4 = lease
    BY <1>1 DEF AddressInv
  <2>1. ~Waits({"disconnected"})
    BY <1>3 DEF Waits
  <2>2. event.kind # "got_ip"
    BY <1>2 DEF LinkKinds
  <2>3. ASSUME NEW i \in 1 .. Len(loop'), Last({"got_ip"}, i)'
        PROVE  loop'[i].address = lease
    <3>1. i \in 1 .. Len(loop) /\ Last({"got_ip"}, i)
      BY <1>3, <2>2, <2>3 DEF Last
    <3> QED
      BY <1>3, <2>1, <3>1 DEF EthInv, AddressInv
  <2>4. ~Waits({"got_ip"})' => ~Waits({"got_ip"})
    BY <1>3 DEF Waits
  <2> QED
    BY <2>1, <2>3, <2>4 DEF EthInv, AddressInv
<1> QED
  BY <1>4, <1>5, <1>6, <1>7 DEF EthInv

\* The new event carries the new address.
LEMMA BindKeeps ==
  ASSUME EthInv, Bind
  PROVE  EthInv'
<1>1. PICK a \in Addresses : lease' = a /\ Post(Event("got_ip", a))
  BY DEF Bind
<1> DEFINE event == Event("got_ip", a)
<1>2. /\ EthTypeOK /\ StartInv /\ started /\ Post(event) /\ dhcp
      /\ UNCHANGED <<started, link, dhcp, ethernet>>
  BY <1>1 DEF EthInv, Bind, StartInv
<1>3. event \in Events /\ event.kind = "got_ip" /\ event.address = lease'
  BY <1>1 DEF Event, Events, Kinds, MaybeAddress
<1> HIDE DEF event
<1>4. /\ loop' \in Seq(Events) /\ Len(loop') <= MaxEvents
      /\ Len(loop) \in Nat /\ Len(loop') = Len(loop) + 1
      /\ \A i \in 1 .. Len(loop) : loop'[i] = loop[i]
      /\ loop'[Len(loop')] = event
      /\ loop # <<>> => Head(loop') = Head(loop)
      /\ loop' # <<>>
  BY <1>2, <1>3, PostAppends
<1>5. EthTypeOK'
  BY <1>1, <1>2, <1>4 DEF EthTypeOK, Events, MaybeAddress
<1>6. StartInv'
  BY <1>2, <1>4 DEF StartInv
<1>7. LinkInv'
  <2>1. event.kind \notin LinkKinds
    BY <1>3 DEF LinkKinds
  <2>2. ASSUME NEW i \in 1 .. Len(loop'), Last(LinkKinds, i)'
        PROVE  loop'[i].kind = "connected" <=> link'
    <3>1. i \in 1 .. Len(loop) /\ Last(LinkKinds, i)
      BY <1>4, <2>1, <2>2 DEF Last
    <3> QED
      BY <1>2, <1>4, <3>1 DEF EthInv, LinkInv
  <2>3. ~Waits(LinkKinds)' => ~Waits(LinkKinds)
    BY <1>4 DEF Waits
  <2> QED
    BY <1>2, <2>2, <2>3 DEF EthInv, LinkInv
<1>8. AddressInv'
  <2>1. ASSUME NEW i \in 1 .. Len(loop'), Last({"got_ip"}, i)'
        PROVE  i = Len(loop')
    BY <1>3, <1>4, <2>1 DEF Last
  <2>2. Waits({"got_ip"})'
    BY <1>3, <1>4 DEF Waits
  <2> QED
    BY <1>3, <1>4, <2>1, <2>2 DEF AddressInv
<1> QED
  BY <1>5, <1>6, <1>7, <1>8 DEF EthInv

LEMMA ExpireKeeps ==
  ASSUME EthInv, Expire
  PROVE  EthInv'
BY DEF EthInv, EthTypeOK, StartInv, LinkInv, AddressInv, Last, Waits, Expire,
       MaybeAddress

\* Events that wait move up by one: who was last of its kinds still is.
LEMMA LastShifts ==
  ASSUME EthTypeOK, NEW kind, Dispatch(kind), NEW kinds, NEW i \in 1 .. Len(loop')
  PROVE  /\ i + 1 \in 1 .. Len(loop)
         /\ Last(kinds, i)' => Last(kinds, i + 1)
         /\ loop'[i] = loop[i + 1]
<1>1. /\ Len(loop') \in Nat /\ Len(loop) = Len(loop') + 1
      /\ \A k \in 1 .. Len(loop') : loop'[k] = loop[k + 1]
  BY DispatchShifts
<1>2. i + 1 \in 1 .. Len(loop) /\ loop'[i] = loop[i + 1]
  BY <1>1
<1>3. ASSUME Last(kinds, i)', NEW j \in i + 2 .. Len(loop)
      PROVE  loop[j].kind \notin kinds
  <2>1. j - 1 \in i + 1 .. Len(loop') /\ j - 1 \in 1 .. Len(loop') /\ (j - 1) + 1 = j
    BY <1>1
  <2>2. loop'[j - 1] = loop[j]
    BY <1>1, <2>1
  <2> QED
    BY <1>3, <2>1, <2>2 DEF Last
<1> QED
  BY <1>2, <1>3 DEF Last

\* Nothing waits after the step that the step did not leave there.
LEMMA WaitsShifts ==
  ASSUME EthTypeOK, NEW kind, Dispatch(kind), NEW kinds
  PROVE  /\ kind \notin kinds /\ ~Waits(kinds)' => ~Waits(kinds)
         /\ kind \in kinds /\ ~Waits(kinds)' => Last(kinds, 1)
         /\ Len(loop) \in Nat /\ 1 \in 1 .. Len(loop) /\ loop[1].kind = kind
<1>1. /\ Len(loop') \in Nat /\ Len(loop) = Len(loop') + 1
      /\ \A k \in 1 .. Len(loop') : loop'[k] = loop[k + 1]
      /\ loop[1].kind = kind
  BY DispatchShifts
<1>2. ASSUME ~Waits(kinds)', NEW j \in 2 .. Len(loop)
      PROVE  loop[j].kind \notin kinds
  <2>1. j - 1 \in 1 .. Len(loop') /\ (j - 1) + 1 = j
    BY <1>1
  <2>2. loop'[j - 1] = loop[j]
    BY <1>1, <2>1
  <2> QED
    BY <1>2, <2>1, <2>2 DEF Waits
<1>3. 1 \in 1 .. Len(loop) /\ Len(loop) \in Nat
  BY <1>1
<1>4. ASSUME ~Waits(kinds)', kind \notin kinds, NEW j \in 1 .. Len(loop)
      PROVE  loop[j].kind \notin kinds
  <2>1. j = 1 \/ j \in 2 .. Len(loop)
    BY <1>3
  <2> QED
    BY <1>1, <1>2, <1>4, <2>1
<1> QED
  BY <1>1, <1>2, <1>3, <1>4 DEF Waits, Last

\* The link's part of the invariant survives an event that is not about it.
LEMMA LinkInvShifts ==
  ASSUME EthTypeOK, LinkInv, NEW kind, Dispatch(kind), kind \notin LinkKinds,
         link' = link, ethernet'.link_up = ethernet.link_up
  PROVE  LinkInv'
<1>1. ASSUME NEW i \in 1 .. Len(loop'), Last(LinkKinds, i)'
      PROVE  loop'[i].kind = "connected" <=> link'
  <2>1. /\ i + 1 \in 1 .. Len(loop) /\ Last(LinkKinds, i + 1)
        /\ loop'[i] = loop[i + 1]
    BY <1>1, LastShifts
  <2> QED
    BY <2>1 DEF LinkInv
<1>2. ~Waits(LinkKinds)' => ~Waits(LinkKinds)
  BY WaitsShifts
<1> QED
  BY <1>1, <1>2 DEF LinkInv

\* So does the address's part.
LEMMA AddressInvShifts ==
  ASSUME EthTypeOK, AddressInv, NEW kind, Dispatch(kind),
         kind \notin {"disconnected", "got_ip"},
         lease' = lease, ethernet'.ipv4 = ethernet.ipv4
  PROVE  AddressInv'
<1> SUFFICES ASSUME lease # None, ~Waits({"disconnected"})'
             PROVE  /\ \A i \in 1 .. Len(loop') :
                         Last({"got_ip"}, i)' => loop'[i].address = lease
                    /\ ~Waits({"got_ip"})' => ethernet'.ipv4 = lease
  BY DEF AddressInv
<1>1. ~Waits({"disconnected"})
  BY WaitsShifts
<1>2. ASSUME NEW i \in 1 .. Len(loop'), Last({"got_ip"}, i)'
      PROVE  loop'[i].address = lease
  <2>1. /\ i + 1 \in 1 .. Len(loop) /\ Last({"got_ip"}, i + 1)
        /\ loop'[i] = loop[i + 1]
    BY <1>2, LastShifts
  <2> QED
    BY <1>1, <2>1 DEF AddressInv
<1>3. ~Waits({"got_ip"})' => ~Waits({"got_ip"})
  BY WaitsShifts
<1> QED
  BY <1>1, <1>2, <1>3 DEF AddressInv

LEMMA HandleStartKeeps ==
  ASSUME EthInv, HandleStart
  PROVE  EthInv'
<1>1. /\ EthTypeOK /\ StartInv /\ LinkInv /\ AddressInv /\ Dispatch("start")
      /\ ethernet' = [ethernet EXCEPT !.running = TRUE]
      /\ UNCHANGED <<started, link, dhcp, lease>>
  BY DEF EthInv, HandleStart
<1>2. /\ ethernet' \in [running: BOOLEAN, link_up: BOOLEAN, ipv4: MaybeAddress]
      /\ ethernet'.running = TRUE /\ ethernet'.link_up = ethernet.link_up
      /\ ethernet'.ipv4 = ethernet.ipv4
  BY <1>1 DEF EthTypeOK
<1>3. loop' \in Seq(Events) /\ Len(loop') <= MaxEvents /\ loop # <<>>
  BY <1>1, DispatchShifts DEF Dispatch
<1>4. EthTypeOK'
  BY <1>1, <1>2, <1>3 DEF EthTypeOK, Events
<1>5. StartInv'
  BY <1>1, <1>2, <1>3 DEF StartInv
<1>6. LinkInv'
  BY <1>1, <1>2, LinkInvShifts DEF LinkKinds
<1>7. AddressInv'
  BY <1>1, <1>2, AddressInvShifts
<1> QED
  BY <1>4, <1>5, <1>6, <1>7 DEF EthInv

LEMMA HandleConnectedKeeps ==
  ASSUME EthInv, HandleConnected
  PROVE  EthInv'
<1>1. /\ EthTypeOK /\ StartInv /\ LinkInv /\ AddressInv /\ Dispatch("connected")
      /\ ethernet' = [ethernet EXCEPT !.link_up = TRUE]
      /\ dhcp' = TRUE
      /\ UNCHANGED <<started, link, lease>>
  BY DEF EthInv, HandleConnected
<1>2. /\ ethernet' \in [running: BOOLEAN, link_up: BOOLEAN, ipv4: MaybeAddress]
      /\ ethernet'.running = ethernet.running /\ ethernet'.link_up = TRUE
      /\ ethernet'.ipv4 = ethernet.ipv4
  BY <1>1 DEF EthTypeOK
<1>3. /\ loop' \in Seq(Events) /\ Len(loop') <= MaxEvents /\ loop # <<>>
      /\ Head(loop).kind = "connected"
  BY <1>1, DispatchShifts DEF Dispatch
<1>4. started /\ ethernet.running
  BY <1>1, <1>3 DEF StartInv, EthTypeOK
<1>5. EthTypeOK'
  BY <1>1, <1>2, <1>3, <1>4 DEF EthTypeOK, Events
<1>6. StartInv'
  BY <1>1, <1>2, <1>4 DEF StartInv
<1>7. LinkInv'
  <2>1. ASSUME NEW i \in 1 .. Len(loop'), Last(LinkKinds, i)'
        PROVE  loop'[i].kind = "connected" <=> link'
    <3>1. /\ i + 1 \in 1 .. Len(loop) /\ Last(LinkKinds, i + 1)
          /\ loop'[i] = loop[i + 1]
      BY <1>1, <2>1, LastShifts
    <3> QED
      BY <1>1, <3>1 DEF LinkInv
  <2>2. ~Waits(LinkKinds)' => ethernet'.link_up = link'
    <3>1. /\ ~Waits(LinkKinds)' => Last(LinkKinds, 1)
          /\ 1 \in 1 .. Len(loop) /\ loop[1].kind = "connected"
      BY <1>1, WaitsShifts DEF LinkKinds
    <3> QED
      BY <1>1, <1>2, <3>1 DEF LinkInv, EthTypeOK
  <2> QED
    BY <2>1, <2>2 DEF LinkInv
<1>8. AddressInv'
  BY <1>1, <1>2, AddressInvShifts
<1> QED
  BY <1>5, <1>6, <1>7, <1>8 DEF EthInv

LEMMA HandleDisconnectedKeeps ==
  ASSUME EthInv, HandleDisconnected
  PROVE  EthInv'
<1>1. /\ EthTypeOK /\ StartInv /\ LinkInv /\ Dispatch("disconnected")
      /\ ethernet' = [ethernet EXCEPT !.link_up = FALSE, !.ipv4 = None]
      /\ dhcp' = FALSE /\ lease' = None
      /\ UNCHANGED <<started, link>>
  BY DEF EthInv, HandleDisconnected
<1>2. /\ ethernet' \in [running: BOOLEAN, link_up: BOOLEAN, ipv4: MaybeAddress]
      /\ ethernet'.running = ethernet.running /\ ethernet'.link_up = FALSE
  BY <1>1 DEF EthTypeOK, MaybeAddress
<1>3. /\ loop' \in Seq(Events) /\ Len(loop') <= MaxEvents /\ loop # <<>>
      /\ Head(loop).kind = "disconnected"
  BY <1>1, DispatchShifts DEF Dispatch
<1>4. started /\ ethernet.running
  BY <1>1, <1>3 DEF StartInv, EthTypeOK
<1>5. EthTypeOK'
  BY <1>1, <1>2, <1>3 DEF EthTypeOK, Events, MaybeAddress
<1>6. StartInv'
  BY <1>1, <1>2, <1>4 DEF StartInv
<1>7. LinkInv'
  <2>1. ASSUME NEW i \in 1 .. Len(loop'), Last(LinkKinds, i)'
        PROVE  loop'[i].kind = "connected" <=> link'
    <3>1. /\ i + 1 \in 1 .. Len(loop) /\ Last(LinkKinds, i + 1)
          /\ loop'[i] = loop[i + 1]
      BY <1>1, <2>1, LastShifts
    <3> QED
      BY <1>1, <3>1 DEF LinkInv
  <2>2. ~Waits(LinkKinds)' => ethernet'.link_up = link'
    <3>1. /\ ~Waits(LinkKinds)' => Last(LinkKinds, 1)
          /\ 1 \in 1 .. Len(loop) /\ loop[1].kind = "disconnected"
      BY <1>1, WaitsShifts DEF LinkKinds
    <3> QED
      BY <1>1, <1>2, <3>1 DEF LinkInv, EthTypeOK
  <2> QED
    BY <2>1, <2>2 DEF LinkInv
<1>8. AddressInv'
  BY <1>1 DEF AddressInv
<1> QED
  BY <1>5, <1>6, <1>7, <1>8 DEF EthInv

LEMMA HandleGotIpKeeps ==
  ASSUME EthInv, HandleGotIp
  PROVE  EthInv'
<1>1. /\ EthTypeOK /\ StartInv /\ LinkInv /\ AddressInv /\ Dispatch("got_ip")
      /\ ethernet' = [ethernet EXCEPT !.ipv4 = Head(loop).address]
      /\ UNCHANGED <<started, link, dhcp, lease>>
  BY DEF EthInv, HandleGotIp
<1>2. /\ loop' \in Seq(Events) /\ Len(loop') <= MaxEvents /\ loop # <<>>
      /\ Head(loop) \in Events /\ Head(loop).kind = "got_ip"
      /\ Head(loop) = loop[1]
  BY <1>1, DispatchShifts DEF Dispatch
<1>3. /\ ethernet' \in [running: BOOLEAN, link_up: BOOLEAN, ipv4: MaybeAddress]
      /\ ethernet'.running = ethernet.running
      /\ ethernet'.link_up = ethernet.link_up
      /\ ethernet'.ipv4 = loop[1].address
  BY <1>1, <1>2 DEF EthTypeOK, Events
<1>4. started /\ ethernet.running
  BY <1>1, <1>2 DEF StartInv, EthTypeOK
<1>5. EthTypeOK'
  BY <1>1, <1>2, <1>3 DEF EthTypeOK, Events
<1>6. StartInv'
  BY <1>1, <1>3, <1>4 DEF StartInv
<1>7. LinkInv'
  BY <1>1, <1>3, LinkInvShifts DEF LinkKinds
<1>8. AddressInv'
  <2> SUFFICES ASSUME lease # None, ~Waits({"disconnected"})'
               PROVE  /\ \A i \in 1 .. Len(loop') :
                           Last({"got_ip"}, i)' => loop'[i].address = lease
                      /\ ~Waits({"got_ip"})' => ethernet'.ipv4 = lease
    BY <1>1 DEF AddressInv
  <2>1. ~Waits({"disconnected"})
    BY <1>1, WaitsShifts
  <2>2. ASSUME NEW i \in 1 .. Len(loop'), Last({"got_ip"}, i)'
        PROVE  loop'[i].address = lease
    <3>1. /\ i + 1 \in 1 .. Len(loop) /\ Last({"got_ip"}, i + 1)
          /\ loop'[i] = loop[i + 1]
      BY <1>1, <2>2, LastShifts
    <3> QED
      BY <1>1, <2>1, <3>1 DEF AddressInv
  <2>3. ASSUME ~Waits({"got_ip"})'
        PROVE  ethernet'.ipv4 = lease
    <3>1. Last({"got_ip"}, 1) /\ 1 \in 1 .. Len(loop)
      BY <1>1, <2>3, WaitsShifts
    <3> QED
      BY <1>1, <1>3, <2>1, <3>1 DEF AddressInv
  <2> QED
    BY <2>2, <2>3
<1> QED
  BY <1>5, <1>6, <1>7, <1>8 DEF EthInv

-----------------------------------------------------------------------------

LEMMA EthInitEstablishes == EthInit => EthInv
<1> SUFFICES ASSUME EthInit PROVE EthInv
  OBVIOUS
<1>1. loop \in Seq([kind: Kinds, address: MaybeAddress]) /\ Len(loop) = 0
  BY EmptySeq DEF EthInit
<1>2. /\ ethernet \in [running: BOOLEAN, link_up: BOOLEAN, ipv4: MaybeAddress]
      /\ ethernet.link_up = FALSE /\ lease \in MaybeAddress
  BY DEF EthInit, MaybeAddress
<1>3. EthTypeOK
  <2>1. Len(loop) <= MaxEvents
    BY <1>1, EthernetAssumption
  <2> QED
    BY <1>1, <1>2, <2>1 DEF EthInit, EthTypeOK
<1>4. 1 .. Len(loop) = {}
  BY <1>1
<1>5. StartInv
  BY DEF EthInit, StartInv
<1>6. LinkInv
  BY <1>4 DEF EthInit, LinkInv
<1>7. AddressInv
  BY DEF EthInit, AddressInv
<1> QED
  BY <1>3, <1>5, <1>6, <1>7 DEF EthInv

LEMMA EthStepKeeps == EthInv /\ [EthNext]_ethVars => EthInv'
<1> SUFFICES ASSUME EthInv, [EthNext]_ethVars PROVE EthInv'
  OBVIOUS
<1>1. CASE Start
  BY <1>1, StartKeeps
<1>2. CASE LinkChanges
  BY <1>2, LinkChangesKeeps
<1>3. CASE Bind
  BY <1>3, BindKeeps
<1>4. CASE Expire
  BY <1>4, ExpireKeeps
<1>5. CASE HandleStart
  BY <1>5, HandleStartKeeps
<1>6. CASE HandleConnected
  BY <1>6, HandleConnectedKeeps
<1>7. CASE HandleDisconnected
  BY <1>7, HandleDisconnectedKeeps
<1>8. CASE HandleGotIp
  BY <1>8, HandleGotIpKeeps
<1>9. CASE UNCHANGED ethVars
  BY <1>9 DEF ethVars, EthInv, EthTypeOK, StartInv, LinkInv, AddressInv, Last,
              Waits
<1> QED
  BY <1>1, <1>2, <1>3, <1>4, <1>5, <1>6, <1>7, <1>8, <1>9
     DEF EthNext, Network, EthernetTask

\* With no event left to handle the invariant speaks of ethernet_state alone.
LEMMA InvSettles == EthInv => LinkSettled /\ AddressShown
<1> SUFFICES ASSUME EthInv, loop = <<>>
             PROVE  /\ ethernet.running = started /\ ethernet.link_up = link
                    /\ lease # None => ethernet.ipv4 = lease
  BY DEF LinkSettled, AddressShown
<1>1. \A kinds : ~Waits(kinds)
  BY DEF Waits
<1>2. ethernet.running = started
  BY DEF EthInv, EthTypeOK, StartInv
<1> QED
  BY <1>1, <1>2 DEF EthInv, LinkInv, AddressInv

\* The network state has the right type, and no link is shown up on an interface
\* that is not running, whatever the order of events.
THEOREM EthernetTyped == EthSpec => []EthTypeOK
<1>1. EthInv => EthTypeOK
  BY DEF EthInv
<1> QED
  BY <1>1, EthInitEstablishes, EthStepKeeps, PTL DEF EthSpec

\* For any number of link changes, addresses and waiting events: when none waits,
\* ethernet_state shows the link as it is.
THEOREM LinkIsSettled == EthSpec => []LinkSettled
BY EthInitEstablishes, EthStepKeeps, InvSettles, PTL DEF EthSpec

\* And the address of the interface, if it has one.
THEOREM AddressIsShown == EthSpec => []AddressShown
BY EthInitEstablishes, EthStepKeeps, InvSettles, PTL DEF EthSpec


-----------------------------------------------------------------------------
(***************************************************************************)
(* Start-up.                                                               *)
(***************************************************************************)

LEMMA PowerOnTyped ==
  /\ PowerOn.health \in HealthType
  /\ PowerOn.health.pc = "idle" /\ PowerOn.health.running = FALSE
  /\ PowerOn.ntp \in NtpType /\ PowerOn.ntp.transmitted = FALSE
  /\ PowerOn.pc = "config" /\ PowerOn.listening = FALSE
  /\ PowerOn.server_running = FALSE /\ PowerOn.web = FALSE
  /\ PowerOn.display = FALSE /\ PowerOn.valid = FALSE
BY DEF PowerOn, NoRequest, HealthType, NtpType

LEMMA BootInitEstablishes == BootInit => BootInv
<1> SUFFICES ASSUME BootInit PROVE BootInv
  OBVIOUS
<1>1. EthInv /\ EthTypeOK
  BY EthInitEstablishes DEF BootInit, EthInv
<1>2. started = FALSE
  BY DEF BootInit, EthInit
<1>3. pc \in Steps /\ reboots \in 0 .. MaxReboots
  BY PowerOnTyped, RebootAssumption DEF BootInit, Steps, Fatal
<1>4. BootTypeOK
  BY <1>1, <1>3, PowerOnTyped DEF BootInit, BootTypeOK
<1>5. OrderInv
  BY <1>2, PowerOnTyped DEF BootInit, OrderInv
<1>6. ServiceInv
  BY PowerOnTyped DEF BootInit, ServiceInv
<1> QED
  BY <1>1, <1>4, <1>5, <1>6 DEF BootInv

\* A reboot puts every variable but the number of reboots back to the start.
LEMMA RebootKeeps ==
  ASSUME BootInv, Reboot
  PROVE  BootInv'
<1>1. EthInit'
  BY DEF Reboot, EthInit
<1>2. EthInv' /\ EthTypeOK'
  BY <1>1, EthInitEstablishes, PTL DEF EthInv
<1>3. pc' \in Steps /\ reboots' \in 0 .. MaxReboots
  BY PowerOnTyped, RebootAssumption
     DEF Reboot, Steps, Fatal, BootInv, BootTypeOK
<1>4. BootTypeOK'
  BY <1>2, <1>3, PowerOnTyped DEF Reboot, BootTypeOK
<1>5. OrderInv'
  BY PowerOnTyped DEF Reboot, OrderInv
<1>6. ServiceInv'
  BY PowerOnTyped DEF Reboot, ServiceInv
<1> QED
  BY <1>2, <1>4, <1>5, <1>6 DEF BootInv

\* Ethernet, once started and seen to run, stays so in each of its steps.
LEMMA RunningStays ==
  ASSUME EthInv, [EthNext]_ethVars
  PROVE  /\ EthInv' /\ EthTypeOK'
         /\ started => started'
         /\ ethernet.running => ethernet'.running
<1>1. EthInv' /\ EthTypeOK'
  BY EthStepKeeps DEF EthInv
<1> QED
  BY <1>1 DEF EthInv, EthTypeOK, EthNext, ethVars, Start, Network, LinkChanges,
     Bind, Expire, EthernetTask, HandleStart, HandleConnected,
     HandleDisconnected, HandleGotIp

\* A step of app_main: its place and the flags move on together, and what the
\* services have read is left alone.
LEMMA AppMainKeeps ==
  ASSUME BootInv, AppMain
  PROVE  BootInv'
<1> USE DEF AppMain, Returns, ConfigInit, DisplayInit, UartStart, PpsStart,
            EthernetStart, MdnsStart, NtpStart, NtpRunning, WebStart, OledStart
<1>1. [EthNext]_ethVars
  BY DEF ethVars, EthNext
<1>2. UNCHANGED <<valid, ntp, health, reboots>>
  OBVIOUS
<1>3. EthInv' /\ EthTypeOK' /\ (ethernet.running => ethernet'.running)
  BY <1>1, RunningStays DEF BootInv
<1>4. BootTypeOK /\ OrderInv /\ ServiceInv
  BY DEF BootInv
<1>5. pc' \in Steps /\ display' \in BOOLEAN
  BY <1>4 DEF BootTypeOK, Steps, Fatal
<1>6. OrderInv'
  <2>1. CASE EthernetStart
    BY <1>4, <2>1 DEF OrderInv, Start
  <2>2. CASE ~EthernetStart
    BY <1>4, <2>2 DEF OrderInv, ethVars
  <2> QED
    BY <2>1, <2>2
<1>7. /\ listening' \in BOOLEAN /\ server_running' \in BOOLEAN /\ web' \in BOOLEAN
      /\ (server_running => server_running') /\ (web => web')
  BY <1>4 DEF BootTypeOK
<1>8. /\ web' => server_running'
      /\ server_running' => listening'
      /\ listening' => started'
  BY <1>6 DEF OrderInv
<1> HIDE DEF AppMain, Returns, ConfigInit, DisplayInit, UartStart, PpsStart,
            EthernetStart, MdnsStart, NtpStart, NtpRunning, WebStart, OledStart
<1>9. BootTypeOK'
  BY <1>2, <1>3, <1>4, <1>5, <1>7, <1>8 DEF BootTypeOK
<1>10. ServiceInv'
  BY <1>2, <1>3, <1>4, <1>7 DEF ServiceInv
<1> QED
  BY <1>3, <1>6, <1>9, <1>10 DEF BootInv

LEMMA PollKeeps ==
  ASSUME BootInv, Poll
  PROVE  BootInv'
<1>1. EthInv' /\ EthTypeOK' /\ UNCHANGED ethernet /\ UNCHANGED started
  BY RunningStays DEF Poll, BootInv, ethVars
<1>2. BootTypeOK'
  BY <1>1 DEF Poll, BootInv, BootTypeOK
<1> QED
  BY <1>1, <1>2 DEF Poll, BootInv, OrderInv, ServiceInv

\* A request is answered only when the timebase is valid, and then app_main is
\* past the start of the NTP server.
LEMMA NtpRequestKeeps ==
  ASSUME BootInv, NtpRequest
  PROVE  BootInv'
<1>1. /\ EthInv' /\ EthTypeOK' /\ BootTypeOK /\ OrderInv /\ ServiceInv
      /\ UNCHANGED <<ethernet, started, pc, listening, server_running, web,
                     display, valid, health, reboots>>
      /\ ntp' = [received |-> TRUE, transmitted |-> ntp.transmitted \/ valid]
  BY RunningStays DEF NtpRequest, BootInv, ethVars
<1>2. ntp' \in NtpType /\ ntp'.transmitted = (ntp.transmitted \/ valid)
  BY <1>1 DEF NtpType, BootTypeOK
<1>3. BootTypeOK'
  BY <1>1, <1>2 DEF BootTypeOK
<1>4. OrderInv'
  BY <1>1 DEF OrderInv
<1>5. valid => server_running
  BY <1>1 DEF OrderInv
<1>6. ServiceInv'
  BY <1>1, <1>2, <1>5 DEF ServiceInv
<1> QED
  BY <1>1, <1>3, <1>4, <1>6 DEF BootInv

\* What a step of the health request has to preserve.
LEMMA HealthKeeps ==
  ASSUME BootInv, NEW update \in HealthType, Health(update),
         update.pc # "idle" => web,
         update.running => ethernet.running,
         update.pc \in {"ntp", "answer"} /\ update.running /\ update.valid
           => update.together,
         update.pc = "answer" => update.ntp
  PROVE  BootInv'
<1>1. /\ EthInv' /\ EthTypeOK' /\ BootTypeOK /\ OrderInv /\ ServiceInv
      /\ UNCHANGED <<ethernet, started, pc, listening, server_running, web,
                     display, valid, ntp, reboots>>
      /\ health' = update
  BY RunningStays DEF Health, BootInv, ethVars
<1>2. BootTypeOK'
  BY <1>1 DEF BootTypeOK
<1>3. OrderInv'
  BY <1>1 DEF OrderInv
<1>4. ServiceInv'
  BY <1>1 DEF ServiceInv
<1> QED
  BY <1>1, <1>2, <1>3, <1>4 DEF BootInv

LEMMA HealthRequestKeeps ==
  ASSUME BootInv, HealthEthernet \/ HealthTimebase \/ HealthNtp \/ HealthAnswer
  PROVE  BootInv'
<1>1. BootTypeOK /\ OrderInv /\ ServiceInv /\ health \in HealthType
  BY DEF BootInv, BootTypeOK
<1>2. /\ ethernet.running \in BOOLEAN /\ valid \in BOOLEAN
      /\ server_running \in BOOLEAN
  BY <1>1 DEF BootTypeOK, EthTypeOK
<1>3. NoRequest \in HealthType
  BY DEF NoRequest, HealthType
<1>4. CASE HealthEthernet
  <2> DEFINE update ==
        [NoRequest EXCEPT !.pc = "timebase", !.running = ethernet.running]
  <2>1. /\ update \in HealthType /\ update.pc = "timebase"
        /\ update.running = ethernet.running
    BY <1>2 DEF NoRequest, HealthType
  <2>2. web /\ Health(update)
    BY <1>4 DEF HealthEthernet
  <2> HIDE DEF update
  <2> QED
    BY <2>1, <2>2, HealthKeeps
<1>5. CASE HealthTimebase
  <2> DEFINE update ==
        [health EXCEPT !.pc = "ntp", !.valid = valid,
           !.together = ethernet.running /\ valid /\ server_running]
  <2>1. health.pc = "timebase" /\ Health(update)
    BY <1>5 DEF HealthTimebase
  <2>2. /\ update \in HealthType /\ update.pc = "ntp"
        /\ update.running = health.running /\ update.valid = valid
        /\ update.together = (ethernet.running /\ valid /\ server_running)
    BY <1>1, <1>2 DEF HealthType
  <2>3. web /\ server_running /\ (health.running => ethernet.running)
    BY <1>1, <2>1 DEF ServiceInv, OrderInv
  <2> HIDE DEF update
  <2> QED
    BY <2>1, <2>2, <2>3, HealthKeeps
<1>6. CASE HealthNtp
  <2> DEFINE update == [health EXCEPT !.pc = "answer", !.ntp = server_running]
  <2>1. health.pc = "ntp" /\ Health(update)
    BY <1>6 DEF HealthNtp
  <2>2. /\ update \in HealthType /\ update.pc = "answer"
        /\ update.running = health.running /\ update.valid = health.valid
        /\ update.together = health.together /\ update.ntp = server_running
    BY <1>1, <1>2 DEF HealthType
  <2>3. web /\ server_running
    BY <1>1, <2>1 DEF ServiceInv, OrderInv
  <2> HIDE DEF update
  <2> QED
    BY <1>1, <2>1, <2>2, <2>3, HealthKeeps DEF ServiceInv
<1>7. CASE HealthAnswer
  <2>1. NoRequest.pc = "idle" /\ NoRequest.running = FALSE
    BY DEF NoRequest
  <2> QED
    BY <1>3, <1>7, <2>1, HealthKeeps DEF HealthAnswer
<1> QED
  BY <1>4, <1>5, <1>6, <1>7

\* The network goes on while the device is started and serves.
LEMMA NetworkKeeps ==
  ASSUME BootInv, NetworkSide \/ EventLoop
  PROVE  BootInv'
<1>1. [EthNext]_ethVars /\ UNCHANGED <<devVars, reboots>>
  BY DEF NetworkSide, EventLoop, EthNext
<1>2. /\ EthInv' /\ EthTypeOK' /\ (started => started')
      /\ (ethernet.running => ethernet'.running)
      /\ BootTypeOK /\ OrderInv /\ ServiceInv
  BY <1>1, RunningStays DEF BootInv
<1>3. started' = started
  BY DEF NetworkSide, EventLoop, Network, LinkChanges, Bind, Expire,
         EthernetTask, HandleStart, HandleConnected, HandleDisconnected,
         HandleGotIp
<1>4. BootTypeOK'
  BY <1>1, <1>2 DEF BootTypeOK, devVars
<1>5. OrderInv'
  BY <1>1, <1>2, <1>3 DEF OrderInv, devVars
<1>6. ServiceInv'
  BY <1>1, <1>2 DEF ServiceInv, devVars
<1> QED
  BY <1>2, <1>4, <1>5, <1>6 DEF BootInv

LEMMA BootStepKeeps == BootInv /\ [BootNext]_bootVars => BootInv'
<1> SUFFICES ASSUME BootInv, [BootNext]_bootVars PROVE BootInv'
  OBVIOUS
<1>1. CASE AppMain
  BY <1>1, AppMainKeeps
<1>2. CASE Poll
  BY <1>2, PollKeeps
<1>3. CASE Services
  BY <1>3, NtpRequestKeeps, HealthRequestKeeps DEF Services
<1>4. CASE NetworkSide \/ EventLoop
  BY <1>4, NetworkKeeps
<1>5. CASE StartFails \/ HandlerAborts \/ Restart
  BY <1>5, RebootKeeps DEF StartFails, HandlerAborts, Restart
<1>6. CASE UNCHANGED bootVars
  <2>1. [EthNext]_ethVars /\ UNCHANGED <<devVars, reboots, ethVars>>
    BY <1>6 DEF bootVars
  <2>2. EthInv' /\ EthTypeOK' /\ BootTypeOK /\ OrderInv /\ ServiceInv
    BY <2>1, RunningStays DEF BootInv
  <2> QED
    BY <2>1, <2>2
       DEF BootInv, BootTypeOK, OrderInv, ServiceInv, devVars, ethVars
<1> QED
  BY <1>1, <1>2, <1>3, <1>4, <1>5, <1>6 DEF BootNext

LEMMA BootInvSuffices == BootInv => HealthTruthful
BY DEF BootInv, ServiceInv, HealthTruthful, Answer

\* However the steps of the start, of the network and of a health request
\* interleave, with any number of reboots: "ok" tells of one moment at which
\* Ethernet, timebase and NTP server were well, and once Ethernet has been seen to
\* run, the timebase is the only reason to refuse.
THEOREM HealthIsTruthful == BootSpec => []HealthTruthful
BY BootInitEstablishes, BootStepKeeps, BootInvSuffices, PTL DEF BootSpec

==============================================================================
