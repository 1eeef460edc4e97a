----------------------------- MODULE WiznetProofs ----------------------------
(* Proofs about the W5500 driver: the multicast filter, and both rings. *)
EXTENDS W5500Filter, WiznetTx, WiznetRx, FiniteSets, FiniteSetTheorems, TLAPS

-----------------------------------------------------------------------------
(***************************************************************************)
(* The multicast filter.  As long as there are fewer groups than the count *)
(* can tell apart, and no join was refused, the count is the number of     *)
(* groups joined, and multicast is let through while there are any.        *)
(***************************************************************************)

FewGroups == IsFiniteSet(Groups) /\ Cardinality(Groups) < CountMod

Counts ==
  ~refused => count = Cardinality(members) /\ (count > 0 => ~blocked)

FilterInv ==
  /\ members \in SUBSET Groups /\ count \in Nat
  /\ blocked \in BOOLEAN /\ refused \in BOOLEAN
  /\ Counts

LEMMA FilterStarts == FilterInit => FilterInv
<1> SUFFICES ASSUME FilterInit PROVE FilterInv
  OBVIOUS
<1>1. members = {} /\ count = 0 /\ blocked = TRUE /\ refused = FALSE
  BY DEF FilterInit
<1>2. Cardinality(members) = 0
  BY <1>1, FS_EmptySet
<1>3. Counts
  BY <1>1, <1>2 DEF Counts
<1>4. members \in SUBSET Groups /\ count \in Nat
  BY <1>1
<1>5. blocked \in BOOLEAN /\ refused \in BOOLEAN
  BY <1>1, Zenon
<1> QED  BY <1>3, <1>4, <1>5, Zenon DEF FilterInv

LEMMA MembersFinite ==
  ASSUME FewGroups, NEW M \in SUBSET Groups
  PROVE  IsFiniteSet(M) /\ Cardinality(M) \in Nat /\ Cardinality(M) < CountMod
<1>1. IsFiniteSet(M) /\ Cardinality(M) <= Cardinality(Groups)
  BY FS_Subset DEF FewGroups
<1>2. Cardinality(M) \in Nat /\ Cardinality(Groups) \in Nat
  BY <1>1, FS_CardinalityType DEF FewGroups
<1> QED  BY <1>1, <1>2, FilterAssumption DEF FewGroups

LEMMA JoinKeeps ==
  ASSUME FewGroups, FilterInv, Join
  PROVE  FilterInv'
<1> USE DEF FilterInv
<1>1. PICK g \in Groups \ members : members' = members \cup {g}
  BY DEF Join
<1>2. members' \in SUBSET Groups
  BY <1>1
<1>3. IsFiniteSet(members) /\ Cardinality(members) \in Nat
  BY MembersFinite
<1>4. Cardinality(members') = Cardinality(members) + 1 /\ Cardinality(members') < CountMod
  BY <1>1, <1>2, <1>3, FS_AddElement, MembersFinite
<1>5. CASE count = 0
  <2>1. PICK result \in Results :
          /\ SetBlock(FALSE, result)
          /\ count' = IF result = "ok" THEN 1 ELSE 0
          /\ refused' = (refused \/ result # "ok")
    BY <1>5 DEF Join
  <2>2. blocked' \in BOOLEAN /\ refused' \in BOOLEAN /\ count' \in Nat
    BY <2>1 DEF SetBlock
  <2>3. ~refused' => ~refused /\ result = "ok" /\ count' = 1 /\ blocked' = FALSE
    BY <2>1 DEF SetBlock
  <2>4. ~refused => Cardinality(members) = 0
    BY <1>5 DEF Counts
  <2>5. Counts'
    BY <2>3, <2>4, <1>4 DEF Counts
  <2> QED  BY <1>2, <2>2, <2>5
<1>6. CASE count # 0
  <2>1. count' = (count + 1) % CountMod /\ blocked' = blocked /\ refused' = refused
    BY <1>6 DEF Join
  <2>2. CountMod \in Nat \ {0}
    BY FilterAssumption
  <2>3. count' \in Nat
    BY <2>1, <2>2
  <2>4. Counts'
    <3> SUFFICES ASSUME ~refused
                 PROVE  count' = Cardinality(members') /\ ~blocked
      BY <2>1 DEF Counts
    <3>1. count = Cardinality(members) /\ ~blocked
      BY <1>6 DEF Counts
    <3>2. (count + 1) \in 0 .. CountMod - 1
      BY <3>1, <1>3, <1>4, <2>2
    <3> QED  BY <3>1, <3>2, <1>4, <2>1, <2>2
  <2> QED  BY <1>2, <2>1, <2>3, <2>4
<1> QED  BY <1>5, <1>6

LEMMA LeaveKeeps ==
  ASSUME FewGroups, FilterInv, Leave
  PROVE  FilterInv'
<1> USE DEF FilterInv
<1>1. PICK g \in members : members' = members \ {g}
  BY DEF Leave
<1>2. members' \in SUBSET Groups
  BY <1>1
<1>3. IsFiniteSet(members) /\ Cardinality(members) \in Nat /\ Cardinality(members') \in Nat
  BY <1>2, MembersFinite
<1>4. Cardinality(members') = Cardinality(members) - 1
  BY <1>1, <1>3, FS_RemoveElement
<1>5. count' = (IF count > 0 THEN count - 1 ELSE 0) /\ refused' = refused
  BY DEF Leave
<1>6. count' \in Nat
  BY <1>5
<1>7. blocked' \in BOOLEAN /\ (count' # 0 => blocked' = blocked)
  BY DEF Leave, SetBlock
<1>8. Counts'
  <2> SUFFICES ASSUME ~refused
               PROVE  count' = Cardinality(members') /\ (count' > 0 => ~blocked')
    BY <1>5 DEF Counts
  <2>1. count = Cardinality(members) /\ (count > 0 => ~blocked)
    BY DEF Counts
  <2>2. count > 0
    BY <2>1, <1>3, <1>4
  <2> QED  BY <2>1, <2>2, <1>3, <1>4, <1>5, <1>6, <1>7
<1> QED  BY <1>2, <1>5, <1>6, <1>7, <1>8

\* However groups are joined and left, and whichever writes of Sn_MR fail
\* (emac_w5500_add_mac_filter, emac_w5500_rm_mac_filter), multicast is let through
\* while lwIP is in a group, unless a join was refused.
THEOREM JoinedAlwaysHeard == FewGroups => (FilterSpec => []JoinedHeard)
<1> SUFFICES ASSUME FewGroups PROVE FilterSpec => []JoinedHeard
  OBVIOUS
<1>1. FilterInit => FilterInv
  BY FilterStarts
<1>2. FilterInv /\ [FilterNext]_filterVars => FilterInv'
  <2> SUFFICES ASSUME FilterInv, [FilterNext]_filterVars PROVE FilterInv'
    OBVIOUS
  <2>1. CASE Join
    BY <2>1, JoinKeeps
  <2>2. CASE Leave
    BY <2>2, LeaveKeeps
  <2>3. CASE UNCHANGED filterVars
    BY <2>3 DEF filterVars, FilterInv, Counts
  <2> QED  BY <2>1, <2>2, <2>3 DEF FilterNext
<1>3. FilterInv => JoinedHeard
  <2> SUFFICES ASSUME FilterInv, members # {}, ~refused PROVE ~blocked
    BY DEF JoinedHeard
  <2>1. IsFiniteSet(members) /\ Cardinality(members) \in Nat
    BY MembersFinite DEF FilterInv
  <2>2. Cardinality(members) # 0
    BY <2>1, FS_EmptySet
  <2> QED  BY <2>1, <2>2 DEF FilterInv, Counts
<1> QED  BY <1>1, <1>2, <1>3, PTL DEF FilterSpec


-----------------------------------------------------------------------------
(***************************************************************************)
(* Pointers.  They wrap at a multiple of the size of the ring, so that a   *)
(* wrapped pointer names the same unit as the position it stands for.      *)
(***************************************************************************)

LEMMA Parts ==
  ASSUME NEW a \in Int, NEW n \in Nat \ {0}
  PROVE  /\ a % n \in 0 .. n - 1 /\ a \div n \in Int
         /\ a = n * (a \div n) + (a % n)
<1>1. a \div n \in Int
  BY SMT
<1>2. a % n \in 0 .. n - 1
  BY SMT
<1>3. a = n * (a \div n) + (a % n)
  BY SMT
<1> QED  BY <1>1, <1>2, <1>3

LEMMA RemainderIs ==
  ASSUME NEW n \in Nat \ {0}, NEW q \in Int, NEW r \in 0 .. n - 1
  PROVE  (n * q + r) % n = r
<1> DEFINE a == n * q + r  p == a \div n  s == a % n
<1>1. n * q \in Int
  OBVIOUS
<1>2. a \in Int
  BY <1>1
<1>3. p \in Int /\ s \in 0 .. n - 1 /\ a = n * p + s
  <2> HIDE DEF a
  <2> QED  BY <1>2, Parts
<1>4. n * q + r = n * p + s
  BY <1>3
<1> SUFFICES s = r
  OBVIOUS
<1> HIDE DEF a, p, s
<1>5. n * (q - p) = s - r
  BY <1>3, <1>4
<1>6. CASE q - p >= 1
  <2>1. n * (q - p) >= n
    BY <1>3, <1>6
  <2> QED  BY <2>1, <1>3, <1>5
<1>7. CASE q - p <= -1
  <2>1. n * (q - p) <= -n
    BY <1>3, <1>7
  <2> QED  BY <2>1, <1>3, <1>5
<1>8. CASE q - p = 0
  <2>1. n * (q - p) = 0
    BY <1>8
  <2> QED  BY <2>1, <1>3, <1>5
<1> QED  BY <1>3, <1>6, <1>7, <1>8

LEMMA Shifted ==
  ASSUME NEW n \in Nat \ {0}, NEW a \in Int, NEW q \in Int
  PROVE  (a + n * q) % n = a % n
<1> DEFINE d == a \div n  r == a % n
<1>1. d \in Int /\ r \in 0 .. n - 1 /\ a = n * d + r
  BY Parts
<1> HIDE DEF d, r
<1>2. a + n * q = n * (d + q) + r
  BY <1>1
<1>3. d + q \in Int
  BY <1>1
<1>4. (n * (d + q) + r) % n = r
  BY <1>1, <1>3, RemainderIs
<1>5. (a + n * q) % n = r
  BY <1>2, <1>4
<1> QED  BY <1>5 DEF r

LEMMA Small ==
  ASSUME NEW n \in Nat \ {0}, NEW r \in 0 .. n - 1
  PROVE  r % n = r
<1>1. (n * 0 + r) % n = r
  BY RemainderIs
<1> QED  BY <1>1

\* A ring of n units whose pointers wrap at m.
Wraps(m, n) ==
  /\ n \in Nat \ {0} /\ m \in Nat \ {0} /\ m > n
  /\ \E turns \in Int : m = n * turns

LEMMA WrapsIf ==
  ASSUME NEW m \in Nat, NEW n \in Nat, n > 0, m > n, m % n = 0
  PROVE  Wraps(m, n)
<1>1. n \in Nat \ {0} /\ m \in Nat \ {0}
  OBVIOUS
<1> DEFINE t == m \div n
<1>2. m = n * t + (m % n) /\ t \in Int
  BY <1>1, Parts
<1> HIDE DEF t
<1>3. m = n * t
  BY <1>1, <1>2
<1> QED  BY <1>1, <1>2, <1>3 DEF Wraps

\* A wrapped pointer and the position it stands for.
LEMMA WrappedIs ==
  ASSUME NEW m, NEW n, Wraps(m, n), NEW a \in Nat
  PROVE  /\ a % m \in 0 .. m - 1
         /\ \E q \in Int : a % m = a + m * q
         /\ \E q \in Int : a % m = a + n * q
<1>1. n \in Nat \ {0} /\ m \in Nat \ {0} /\ a \in Int
  BY DEF Wraps
<1> DEFINE d == a \div m  r == a % m
<1>2. d \in Int /\ r \in 0 .. m - 1 /\ a = m * d + r
  BY <1>1, Parts, Zenon
<1> HIDE DEF d, r
<1>3. -d \in Int /\ r = a + m * (-d)
  BY <1>1, <1>2
<1>4. PICK turns \in Int : m = n * turns
  BY DEF Wraps
<1>5. turns * (-d) \in Int /\ m * (-d) = n * (turns * (-d))
  BY <1>1, <1>2, <1>4
<1>6. r = a + n * (turns * (-d))
  BY <1>3, <1>5
<1>7. (\E q \in Int : r = a + m * q) /\ (\E q \in Int : r = a + n * q)
  BY <1>3, <1>5, <1>6, Zenon
<1>8. r \in 0 .. m - 1
  BY <1>2
<1> QED  BY <1>7, <1>8 DEF r

LEMMA WrapsAgain ==
  ASSUME NEW m, NEW n, Wraps(m, n), NEW a \in Nat, NEW k \in Nat
  PROVE  /\ ((a % m) + k) % m = (a + k) % m
         /\ ((a % m) + k) % n = (a + k) % n
<1>1. n \in Nat \ {0} /\ m \in Nat \ {0} /\ a + k \in Int
  BY DEF Wraps
<1>2. PICK q \in Int : a % m = a + m * q
  BY WrappedIs
<1>3. (a % m) + k = (a + k) + m * q
  <2>1. m * q \in Int
    BY <1>1
  <2> QED  BY <1>2, <2>1
<1>4. ((a + k) + m * q) % m = (a + k) % m
  BY <1>1, Shifted
<1>5. PICK p \in Int : a % m = a + n * p
  BY WrappedIs
<1>6. (a % m) + k = (a + k) + n * p
  <2>1. n * p \in Int
    BY <1>1
  <2> QED  BY <1>5, <2>1
<1>7. ((a + k) + n * p) % n = (a + k) % n
  BY <1>1, Shifted
<1> QED  BY <1>3, <1>4, <1>6, <1>7

\* The distance of two positions that lie in the ring is that of their pointers.
LEMMA DistanceIs ==
  ASSUME NEW m, NEW n, Wraps(m, n), NEW a \in Nat, NEW b \in Nat, a <= b, b - a <= n
  PROVE  ((b % m) - (a % m)) % m = b - a
<1>1. PICK q \in Int : a % m = a + m * q
  BY WrappedIs
<1>2. PICK p \in Int : b % m = b + m * p
  BY WrappedIs
<1>3. m \in Nat \ {0} /\ m > n /\ n \in Nat
  BY DEF Wraps
<1>4. (b % m) - (a % m) = (b - a) + m * (p - q)
  <2>1. m * q \in Int /\ m * p \in Int /\ m * (p - q) = m * p - m * q
    BY <1>3
  <2> QED  BY <1>1, <1>2, <2>1
<1>5. ((b - a) + m * (p - q)) % m = (b - a) % m
  <2>1. b - a \in Int /\ p - q \in Int
    OBVIOUS
  <2> QED  BY <2>1, <1>3, Shifted
<1>6. (b - a) % m = b - a
  <2>1. b - a \in 0 .. m - 1
    BY <1>3
  <2> QED  BY <2>1, <1>3, Small
<1> QED  BY <1>4, <1>5, <1>6

\* Seen from the pointer of b, the unit of a position is as far away as the
\* position, modulo the ring.
LEMMA UnitFrom ==
  ASSUME NEW m, NEW n, Wraps(m, n), NEW a \in Nat, NEW b \in Nat
  PROVE  a % n \in 0 .. n - 1 /\ ((a % n) - (b % m)) % n = (a - b) % n
<1>1. n \in Nat \ {0}
  BY DEF Wraps
<1>2. PICK q \in Int : b % m = b + n * q
  BY WrappedIs
<1> DEFINE d == a \div n  u == a % n
<1>3. d \in Int /\ u \in 0 .. n - 1 /\ a = n * d + u
  BY <1>1, Parts, SMTT(30)
<1> HIDE DEF d, u
<1>4. u - (b % m) = (a - b) + n * (-d - q)
  <2>1. /\ n * d \in Int /\ n * q \in Int
        /\ n * (-d - q) = -(n * d) - n * q
    BY <1>1, <1>3
  <2> QED  BY <1>2, <1>3, <2>1
<1>5. ((a - b) + n * (-d - q)) % n = (a - b) % n
  <2>1. a - b \in Int /\ -d - q \in Int
    BY <1>3
  <2> QED  BY <2>1, <1>1, Shifted
<1>6. (u - (b % m)) % n = (a - b) % n
  BY <1>4, <1>5
<1> QED  BY <1>3, <1>6 DEF u

\* Behind the pointer ...
LEMMA UnitBehind ==
  ASSUME NEW m, NEW n, Wraps(m, n), NEW b \in Nat, NEW k \in 0 .. n - 1
  PROVE  (b + k) % n \in 0 .. n - 1 /\ (((b + k) % n) - (b % m)) % n = k
<1>1. b + k \in Nat /\ (b + k) - b = k /\ n \in Nat \ {0}
  BY DEF Wraps
<1>2. k % n = k
  BY <1>1, Small
<1>3. /\ (b + k) % n \in 0 .. n - 1
      /\ (((b + k) % n) - (b % m)) % n = ((b + k) - b) % n
  <2> DEFINE a == b + k
  <2>1. a \in Nat
    BY <1>1
  <2> HIDE DEF a
  <2>2. a % n \in 0 .. n - 1 /\ ((a % n) - (b % m)) % n = (a - b) % n
    BY <2>1, UnitFrom
  <2> QED  BY <2>2 DEF a
<1> QED  BY <1>1, <1>2, <1>3

\* ... and before it.
LEMMA UnitBefore ==
  ASSUME NEW m, NEW n, Wraps(m, n), NEW a \in Nat, NEW b \in Nat, NEW k \in Nat,
         a < b, (b - a) + k <= n
  PROVE  a % n \in 0 .. n - 1 /\ ~(((a % n) - (b % m)) % n < k)
<1>1. n \in Nat \ {0}
  BY DEF Wraps
<1>2. (a - b) + n * 1 = n - (b - a)
  BY <1>1
<1>3. ((a - b) + n * 1) % n = (a - b) % n
  <2>1. a - b \in Int /\ 1 \in Int
    OBVIOUS
  <2> QED  BY <2>1, <1>1, Shifted
<1>4. (n - (b - a)) % n = n - (b - a)
  <2>1. n - (b - a) \in 0 .. n - 1
    BY <1>1
  <2> QED  BY <2>1, <1>1, Small
<1>5. (a - b) % n = n - (b - a)
  BY <1>2, <1>3, <1>4
<1>6. a % n \in 0 .. n - 1 /\ ((a % n) - (b % m)) % n = (a - b) % n
  BY UnitFrom
<1> QED  BY <1>1, <1>5, <1>6


-----------------------------------------------------------------------------
(***************************************************************************)
(* The pointers of TX memory.                                              *)
(***************************************************************************)

LEMMA TxWraps == Wraps(TxMod, TxSize)
  BY WiznetTxAssumption, WrapsIf

LEMMA TxSizes == TxSize \in Nat \ {0} /\ TxMod \in Nat \ {0} /\ TxMod > TxSize
  BY WiznetTxAssumption

LEMMA TxWrapsAgain ==
  ASSUME NEW a \in Nat, NEW k \in Nat
  PROVE  Wrapped(a % TxMod, k) = (a + k) % TxMod
<1>1. ((a % TxMod) + k) % TxMod = (a + k) % TxMod
  BY TxWraps, WrapsAgain
<1> QED  BY <1>1 DEF Wrapped

LEMMA SameUnit ==
  ASSUME NEW a \in Nat, NEW k \in Nat
  PROVE  Unit((a % TxMod) + k) = Unit(a + k)
<1>1. ((a % TxMod) + k) % TxSize = (a + k) % TxSize
  BY TxWraps, WrapsAgain
<1> QED  BY <1>1 DEF Unit

LEMMA TxDistance ==
  ASSUME NEW a \in Nat, NEW b \in Nat, a <= b, b - a <= TxSize
  PROVE  ((b % TxMod) - (a % TxMod)) % TxMod = b - a
  BY TxWraps, DistanceIs

LEMMA TxUnitFrom ==
  ASSUME NEW a \in Nat, NEW b \in Nat
  PROVE  /\ Unit(a) \in 0 .. TxSize - 1
         /\ (Unit(a) - (b % TxMod)) % TxSize = (a - b) % TxSize
  BY TxWraps, UnitFrom DEF Unit

LEMMA TxUnitBehind ==
  ASSUME NEW b \in Nat, NEW k \in 0 .. TxSize - 1
  PROVE  (Unit(b + k) - (b % TxMod)) % TxSize = k
<1>1. (((b + k) % TxSize) - (b % TxMod)) % TxSize = k
  BY TxWraps, UnitBehind
<1> QED  BY <1>1 DEF Unit

LEMMA TxUnitBefore ==
  ASSUME NEW a \in Nat, NEW b \in Nat, NEW n \in Nat,
         a < b, (b - a) + n <= TxSize
  PROVE  ~((Unit(a) - (b % TxMod)) % TxSize < n)
<1>1. ~(((a % TxSize) - (b % TxMod)) % TxSize < n)
  BY TxWraps, UnitBefore
<1> QED  BY <1>1 DEF Unit

-----------------------------------------------------------------------------
(***************************************************************************)
(* The transmit side.  What lies in TX memory is described by positions    *)
(* that do not wrap: at[i - 1] to at[i] is the frame of the i-th SEND      *)
(* command that is not finished, and id[i] is that frame.                  *)
(***************************************************************************)

TxPlaces == {"idle", "space", "copy", "move", "send", "poll", "clear"}
Passing == {"space", "copy", "move", "send"}

TxType ==
  /\ txMem = [p \in 0 .. TxSize - 1 |-> txMem[p]]
  /\ txWr \in 0 .. TxMod - 1 /\ txRd \in Nat /\ pending \in Seq(Nat)
  /\ frames \in Nat
  /\ tx \in [pc : TxPlaces, id : Nat, len : Nat, offset : Nat]
  /\ tx.pc # "idle" => tx.id = frames /\ tx.len \in 1 .. TxSize
  /\ txOpen \in BOOLEAN /\ sendBit \in BOOLEAN
  /\ unsent \in BOOLEAN /\ unclaimed \in BOOLEAN

\* A frame of n units lies in the memory from the position on.
Holds(cells, from, id, n) ==
  \A k \in 0 .. n - 1 : cells[Unit(from + k)] = Piece(id, k, n)

\* The frames of the SEND commands p, later than the last one sent and in order.
InFlight(cells, front, p, wire, top, at, id) ==
  /\ at \in [0 .. Len(p) -> Nat] /\ id \in [1 .. Len(p) -> Nat]
  /\ at[0] % TxMod = front
  /\ \A i, j \in 0 .. Len(p) : i < j => at[i] < at[j]
  /\ at[Len(p)] - at[0] <= TxSize
  /\ \A i \in 1 .. Len(p) :
       /\ at[i] % TxMod = p[i]
       /\ Holds(cells, at[i - 1], id[i], at[i] - at[i - 1])
       /\ wire < id[i] /\ id[i] <= top
  /\ \A i, j \in 1 .. Len(p) : i < j => id[i] < id[j]

\* The call t, behind what is in flight from start to end.
Behind(cells, back, start, end, t) ==
  /\ (end + (IF t.pc = "send" THEN t.len ELSE 0)) % TxMod = back
  /\ t.pc \in {"copy", "move", "send"} => (end - start) + t.len <= TxSize
  /\ t.pc \in {"move", "send"} => Holds(cells, end, t.id, t.len)
  /\ t.pc = "move" => t.offset = back

\* The last frame whose SEND command may be in flight.
Newest == IF tx.pc \in Passing THEN frames - 1 ELSE frames

Ring(at, id) ==
  /\ InFlight(txMem, txRd, pending, onWire, Newest, at, id)
  /\ Behind(txMem, txWr, at[0], at[Len(pending)], tx)
  /\ tx.pc = "poll" /\ unclaimed = FALSE /\ pending # <<>> => id[Len(pending)] = tx.id

RingInv ==
  /\ txOpen = TRUE /\ unsent = FALSE => \E at, id : Ring(at, id)
  /\ txOpen = FALSE => pending = <<>>
  /\ unsent = FALSE => onWire \in Nat /\ onWire <= Newest

\* As long as every SEND was claimed, none is in flight when a call begins.
ClaimInv ==
  unclaimed = FALSE /\ unsent = FALSE =>
    /\ tx.pc \in Passing \cup {"idle"} => pending = <<>> /\ sendBit = FALSE
    /\ tx.pc = "poll" => \/ pending = <<>> /\ (sendBit = TRUE => onWire = tx.id)
                         \/ Len(pending) = 1 /\ sendBit = FALSE
    /\ tx.pc = "clear" => pending = <<>> /\ onWire = tx.id

TxInv == TxType /\ RingInv /\ ClaimInv /\ mangled = FALSE /\ early = FALSE

LEMMA TxStarts == TxInit => TxInv
<1> SUFFICES ASSUME TxInit PROVE TxInv
  OBVIOUS
<1> USE DEF TxInit
<1>1. TxType
  <2>1. /\ txOpen \in BOOLEAN /\ sendBit \in BOOLEAN
        /\ unsent \in BOOLEAN /\ unclaimed \in BOOLEAN
    BY Zenon
  <2>2. txMem = [p \in 0 .. TxSize - 1 |-> txMem[p]]
    BY Zenon
  <2>3. /\ tx \in [pc : TxPlaces, id : Nat, len : Nat, offset : Nat]
        /\ tx.pc = "idle"
    BY DEF TxIdle, TxPlaces
  <2>4. txWr \in 0 .. TxMod - 1 /\ txRd \in Nat /\ pending \in Seq(Nat) /\ frames \in Nat
    BY TxSizes
  <2> QED  BY <2>1, <2>2, <2>3, <2>4, Zenon DEF TxType
<1>2. tx.pc = "idle"
  BY DEF TxIdle
<1>3. Newest = 0
  BY <1>2 DEF Newest, Passing
<1>4. RingInv
  <2>1. onWire \in Nat /\ onWire <= Newest
    BY <1>3
  <2>2. txOpen = FALSE /\ pending = <<>>
    OBVIOUS
  <2> QED  BY <2>1, <2>2, Zenon DEF RingInv
<1>5. ClaimInv
  <2>1. pending = <<>> /\ sendBit = FALSE /\ tx.pc # "poll" /\ tx.pc # "clear"
    BY <1>2
  <2> QED  BY <2>1, Zenon DEF ClaimInv
<1> QED  BY <1>1, <1>4, <1>5, Zenon DEF TxInv

-----------------------------------------------------------------------------
(***************************************************************************)
(* The chip: the frame at the head leaves.                                 *)
(***************************************************************************)

LEMMA HeadIs ==
  ASSUME NEW at, NEW id, NEW top \in Int, TxType, pending # <<>>,
         InFlight(txMem, txRd, pending, onWire, top, at, id)
  PROVE  /\ FrameIn(txRd, (Head(pending) - txRd) % TxMod) = id[1]
         /\ Head(pending) = at[1] % TxMod
<1>1. pending \in Seq(Nat) /\ Len(pending) \in Nat \ {0} /\ Head(pending) = pending[1]
  BY DEF TxType
<1>2. 0 \in 0 .. Len(pending) /\ 1 \in 0 .. Len(pending) /\ 1 \in 1 .. Len(pending)
      /\ Len(pending) \in 0 .. Len(pending)
  BY <1>1
<1> DEFINE n == at[1] - at[0]
<1>3. /\ at[0] \in Nat /\ at[1] \in Nat /\ at[Len(pending)] \in Nat /\ at[0] < at[1]
      /\ at[0] % TxMod = txRd /\ at[1] % TxMod = pending[1] /\ id[1] \in Nat
      /\ at[Len(pending)] - at[0] <= TxSize
  BY <1>2 DEF InFlight
<1>4. Holds(txMem, at[0], id[1], n)
  <2>1. /\ \A i \in 1 .. Len(pending) : Holds(txMem, at[i - 1], id[i], at[i] - at[i - 1])
    BY DEF InFlight
  <2>2. Holds(txMem, at[1 - 1], id[1], at[1] - at[1 - 1])
    BY <1>2, <2>1, Zenon
  <2>3. 1 - 1 = 0
    OBVIOUS
  <2> QED  BY <2>2, <2>3
<1>5. n <= TxSize /\ n \in Nat \ {0} /\ TxSize \in Nat
  <2> DEFINE total == Len(pending)
  <2>0. total \in Nat \ {0}
    BY <1>1
  <2>1. CASE total = 1
    BY <2>1, <1>3, TxSizes
  <2>2. CASE total # 1
    <3>1. 1 < total
      <4> HIDE DEF total
      <4> QED  BY <2>0, <2>2
    <3>2. at[1] < at[Len(pending)]
      BY <1>2, <3>1 DEF InFlight
    <3> QED  BY <3>2, <1>3, TxSizes
  <2> QED  BY <2>1, <2>2
<1>6. (pending[1] - txRd) % TxMod = n
  <2>1. ((at[1] % TxMod) - (at[0] % TxMod)) % TxMod = at[1] - at[0]
    BY <1>3, <1>5, TxDistance
  <2> QED  BY <2>1, <1>3
<1> HIDE DEF n
<1>7. \A k \in 0 .. n - 1 : txMem[Unit(txRd + k)] = Piece(id[1], k, n)
  <2> SUFFICES ASSUME NEW k \in 0 .. n - 1 PROVE txMem[Unit(txRd + k)] = Piece(id[1], k, n)
    OBVIOUS
  <2>1. k \in Nat
    BY <1>5
  <2>2. Unit(txRd + k) = Unit(at[0] + k)
    BY <2>1, <1>3, SameUnit
  <2>3. txMem[Unit(at[0] + k)] = Piece(id[1], k, n)
    BY <1>4 DEF Holds
  <2> QED  BY <2>2, <2>3
<1>8. txMem[Unit(txRd)][1] = id[1]
  <2>1. 0 \in 0 .. n - 1 /\ txRd + 0 = txRd
    BY <1>5 DEF TxType
  <2>2. txMem[Unit(txRd + 0)] = Piece(id[1], 0, n)
    BY <1>7, <2>1
  <2>3. Piece(id[1], 0, n)[1] = id[1]
    BY DEF Piece
  <2> QED  BY <2>1, <2>2, <2>3
<1>9. FrameIn(txRd, n) = id[1]
  BY <1>7, <1>8, Zenon DEF FrameIn
<1> QED  BY <1>1, <1>3, <1>6, <1>9

\* What is in flight after the head has left.
LEMMA TailInFlight ==
  ASSUME NEW cells, NEW front, NEW p \in Seq(Nat), p # <<>>, NEW wire, NEW top,
         NEW at, NEW id, InFlight(cells, front, p, wire, top, at, id)
  PROVE  /\ \E at2, id2 :
              /\ InFlight(cells, at[1] % TxMod, Tail(p), id[1], top, at2, id2)
              /\ at2[0] = at[1] /\ at2[Len(Tail(p))] = at[Len(p)]
              /\ Len(p) > 1 => id2[Len(Tail(p))] = id[Len(p)]
         /\ id[1] <= top /\ id[1] \in Nat /\ at[0] < at[1]
<1> DEFINE at2 == [i \in 0 .. Len(p) - 1 |-> at[i + 1]]
           id2 == [i \in 1 .. Len(p) - 1 |-> id[i + 1]]
           n == Len(p) - 1
<1>1. Len(p) \in Nat \ {0} /\ n \in Nat /\ Len(Tail(p)) = n
      /\ \A i \in 1 .. n : Tail(p)[i] = p[i + 1]
  OBVIOUS
<1>2. /\ at \in [0 .. Len(p) -> Nat] /\ id \in [1 .. Len(p) -> Nat]
      /\ \A i, j \in 0 .. Len(p) : i < j => at[i] < at[j]
      /\ at[Len(p)] - at[0] <= TxSize
      /\ \A i \in 1 .. Len(p) :
           /\ at[i] % TxMod = p[i]
           /\ Holds(cells, at[i - 1], id[i], at[i] - at[i - 1])
           /\ wire < id[i] /\ id[i] <= top
      /\ \A i, j \in 1 .. Len(p) : i < j => id[i] < id[j]
  BY DEF InFlight
<1>3. /\ at2 \in [0 .. n -> Nat] /\ \A i \in 0 .. n : at2[i] = at[i + 1]
  BY <1>1, <1>2
<1>4. /\ id2 \in [1 .. n -> Nat] /\ \A i \in 1 .. n : id2[i] = id[i + 1]
  BY <1>1, <1>2
<1>5. at2[0] = at[1] /\ at2[n] = at[Len(p)] /\ (n > 0 => id2[n] = id[Len(p)])
  BY <1>1, <1>3, <1>4
<1> HIDE DEF at2, id2
<1>6. \A i, j \in 0 .. n : i < j => at2[i] < at2[j]
  BY <1>1, <1>2, <1>3
<1>7. at2[n] - at2[0] <= TxSize
  <2>1. at[0] < at[1] /\ at[0] \in Nat /\ at[1] \in Nat /\ at[Len(p)] \in Nat
    <3>1. 0 \in 0 .. Len(p) /\ 1 \in 0 .. Len(p) /\ Len(p) \in 0 .. Len(p)
      BY <1>1
    <3>2. at[0] \in Nat /\ at[1] \in Nat /\ at[Len(p)] \in Nat
      BY <3>1, <1>2, Zenon
    <3>3. 0 < 1 => at[0] < at[1]
      BY <3>1, <1>2, Zenon
    <3> QED  BY <3>2, <3>3
  <2>2. at[Len(p)] - at[0] <= TxSize /\ TxSize \in Nat
    BY <1>2, TxSizes
  <2>3. at[Len(p)] - at[1] <= TxSize
    BY <2>1, <2>2
  <2> QED  BY <2>3, <1>5
<1>8. ASSUME NEW i \in 1 .. n
      PROVE  /\ at2[i] % TxMod = Tail(p)[i]
             /\ Holds(cells, at2[i - 1], id2[i], at2[i] - at2[i - 1])
             /\ id[1] < id2[i] /\ id2[i] <= top
  <2>1. i + 1 \in 1 .. Len(p) /\ 1 \in 1 .. Len(p) /\ (i + 1) - 1 = i
    BY <1>1
  <2>2. i \in 0 .. n /\ i - 1 \in 0 .. n
    BY <1>1
  <2>3. at2[i] = at[i + 1] /\ at2[i - 1] = at[i] /\ id2[i] = id[i + 1]
    BY <1>3, <1>4, <2>2
  <2>4. Holds(cells, at[(i + 1) - 1], id[i + 1], at[i + 1] - at[(i + 1) - 1])
    BY <1>2, <2>1
  <2>5. at[i + 1] % TxMod = p[i + 1] /\ id[i + 1] <= top
    BY <1>2, <2>1
  <2>6. id[1] < id[i + 1]
    BY <1>1, <1>2, <2>1
  <2> QED  BY <2>1, <2>3, <2>4, <2>5, <2>6, <1>1
<1>9. \A i, j \in 1 .. n : i < j => id2[i] < id2[j]
  BY <1>1, <1>2, <1>4
<1>10. InFlight(cells, at[1] % TxMod, Tail(p), id[1], top, at2, id2)
  BY <1>1, <1>3, <1>4, <1>5, <1>6, <1>7, <1>8, <1>9, Zenon DEF InFlight
<1>11. id[1] <= top /\ id[1] \in Nat /\ at[0] < at[1]
  BY <1>1, <1>2, SMTT(30)
<1>12. Len(p) > 1 => n > 0
  BY <1>1
<1> QED  BY <1>1, <1>5, <1>10, <1>11, <1>12, Zenon

LEMMA FinishSendKeeps ==
  ASSUME TxInv, FinishSend
  PROVE  TxInv'
<1> USE DEF TxInv
<1> DEFINE gone == FrameIn(txRd, (Head(pending) - txRd) % TxMod)
<1>1. /\ pending # <<>> /\ pending' = Tail(pending) /\ txRd' = Head(pending)
      /\ mangled' = (mangled \/ (~unsent /\ gone <= onWire))
      /\ onWire' = IF gone = 0 THEN onWire ELSE gone
      /\ sendBit' = TRUE
      /\ UNCHANGED <<txMem, txWr, txOpen, early, unclaimed, unsent, tx, frames>>
  BY DEF FinishSend
<1>2. pending \in Seq(Nat) /\ Len(pending) \in Nat \ {0} /\ pending' \in Seq(Nat)
      /\ Len(pending') = Len(pending) - 1 /\ Head(pending) \in Nat
  BY <1>1 DEF TxType
<1>3. TxType'
  BY <1>1, <1>2, Zenon DEF TxType
<1>4. txOpen = TRUE
  BY <1>1, Zenon DEF RingInv, TxType
<1>5. Newest' = Newest
  BY <1>1 DEF Newest
<1> HIDE DEF gone
<1>6. CASE unsent = TRUE
  BY <1>1, <1>3, <1>4, <1>6, Zenon DEF RingInv, ClaimInv
<1>7. CASE unsent = FALSE
  <2>1. PICK at, id : Ring(at, id)
    BY <1>4, <1>7, Zenon DEF RingInv
  <2>2. InFlight(txMem, txRd, pending, onWire, Newest, at, id)
    BY <2>1, Zenon DEF Ring
  <2>3. Newest \in Int /\ onWire \in Nat
    <3>1. frames \in Int
      BY DEF TxType
    <3>2. Newest \in Int
      BY <3>1 DEF Newest
    <3> QED  BY <1>7, <3>2 DEF RingInv
  <2>4. gone = id[1] /\ txRd' = at[1] % TxMod
    BY <2>2, <2>3, <1>1, HeadIs DEF gone
  <2>a. PICK at2, id2 :
          /\ InFlight(txMem, at[1] % TxMod, Tail(pending), id[1], Newest, at2, id2)
          /\ at2[0] = at[1] /\ at2[Len(Tail(pending))] = at[Len(pending)]
          /\ Len(pending) > 1 => id2[Len(Tail(pending))] = id[Len(pending)]
    <3>1. pending \in Seq(Nat) /\ pending # <<>>
      BY <1>1, <1>2
    <3> HIDE <1>1, <1>2
    <3> QED  BY <2>2, <3>1, TailInFlight
  <2>b. id[1] <= Newest /\ id[1] \in Nat /\ at[0] < at[1]
    BY <2>2, <1>1, <1>2, TailInFlight, Zenon
  <2>5. /\ InFlight(txMem, at[1] % TxMod, pending', id[1], Newest, at2, id2)
        /\ at2[0] = at[1] /\ at2[Len(pending')] = at[Len(pending)]
        /\ Len(pending) > 1 => id2[Len(pending')] = id[Len(pending)]
        /\ id[1] <= Newest /\ id[1] \in Nat /\ at[0] < at[1]
    BY <2>a, <2>b, <1>1, Zenon
  <2>6. onWire < id[1]
    <3>1. 1 \in 1 .. Len(pending)
      BY <1>2
    <3> QED  BY <2>2, <3>1 DEF InFlight
  <2>7. onWire' = id[1] /\ ~(gone <= onWire)
    BY <2>3, <2>4, <2>5, <2>6, <1>1
  <2>8. mangled' = FALSE
    BY <2>7, <1>1, Zenon
  <2>9. Behind(txMem, txWr, at2[0], at2[Len(pending')], tx)
    <3>1. Behind(txMem, txWr, at[0], at[Len(pending)], tx)
      BY <2>1, Zenon DEF Ring
    <3>2. /\ at[0] \in Nat /\ at[1] \in Nat /\ at[Len(pending)] \in Nat
      <4>1. 0 \in 0 .. Len(pending) /\ 1 \in 0 .. Len(pending) /\ Len(pending) \in 0 .. Len(pending)
        BY <1>2
      <4> QED  BY <4>1, <2>2 DEF InFlight
    <3>3. tx.len \in Nat
      BY DEF TxType
    <3>4. (at[Len(pending)] - at[0]) + tx.len <= TxSize =>
            (at[Len(pending)] - at[1]) + tx.len <= TxSize
      BY <3>2, <3>3, <2>5, TxSizes, SMTT(30)
    <3> QED  BY <3>1, <3>4, <2>5, Zenon DEF Behind
  <2>10. ASSUME tx.pc = "poll", unclaimed = FALSE, pending' # <<>>
         PROVE  id2[Len(pending')] = tx.id
    <3>1. Len(pending) > 1
      BY <2>10, <1>2
    <3>2. id[Len(pending)] = tx.id
      BY <2>1, <2>10, <1>1, Zenon DEF Ring
    <3> QED  BY <3>1, <3>2, <2>5
  <2>11. Ring(at2, id2)'
    BY <2>4, <2>5, <2>7, <2>9, <2>10, <1>1, <1>5, Zenon DEF Ring
  <2>12. RingInv'
    <3>1. onWire' \in Nat /\ onWire' <= Newest'
      BY <2>5, <2>7, <1>5
    <3> QED  BY <3>1, <2>11, <1>1, <1>4, Zenon DEF RingInv
  <2>13. ClaimInv'
    <3> SUFFICES ASSUME unclaimed = FALSE
                 PROVE  /\ tx.pc \notin Passing \cup {"idle"}
                        /\ tx.pc # "clear"
                        /\ tx.pc = "poll" => pending' = <<>> /\ onWire' = tx.id
      BY <1>1, Zenon DEF ClaimInv
    <3>1. tx.pc \notin Passing \cup {"idle"} /\ tx.pc # "clear"
      BY <1>1, <1>7, Zenon DEF ClaimInv
    <3>2. ASSUME tx.pc = "poll" PROVE pending' = <<>> /\ onWire' = tx.id
      <4>1. Len(pending) = 1
        BY <1>1, <1>7, <3>2, Zenon DEF ClaimInv
      <4>2. id[Len(pending)] = tx.id
        BY <2>1, <3>2, <1>1, Zenon DEF Ring
      <4>3. Len(pending') = 0
        BY <4>1, <1>2
      <4> QED  BY <4>1, <4>2, <4>3, <2>7, <1>2
    <3> QED  BY <3>1, <3>2
  <2> QED  BY <2>8, <2>12, <2>13, <1>1, <1>3, Zenon
<1> QED  BY <1>6, <1>7, Zenon DEF TxType

-----------------------------------------------------------------------------
(***************************************************************************)
(* The steps that leave the ring alone.                                    *)
(***************************************************************************)

LEMMA HigherTop ==
  ASSUME NEW cells, NEW front, NEW p, NEW wire, NEW top \in Int, NEW limit \in Int,
         top <= limit, NEW at, NEW id, InFlight(cells, front, p, wire, top, at, id)
  PROVE  InFlight(cells, front, p, wire, limit, at, id)
<1>1. ASSUME NEW i \in 1 .. Len(p) PROVE id[i] <= limit
  BY SMTT(30) DEF InFlight
<1> QED  BY <1>1, Zenon DEF InFlight

LEMMA NewestIs ==
  ASSUME TxType
  PROVE  Newest \in Int /\ tx \in [pc : TxPlaces, id : Nat, len : Nat, offset : Nat]
         /\ frames \in Nat
<1>1. frames \in Nat
  BY DEF TxType
<1>2. Newest \in Int
  BY <1>1 DEF Newest
<1> QED  BY <1>1, <1>2, Zenon DEF TxType

LEMMA RingRests ==
  ASSUME TxType, TxType', RingInv,
         UNCHANGED <<txMem, txWr, txRd, pending, onWire, txOpen, unsent>>,
         Newest <= Newest',
         \A at, id : Ring(at, id) => Behind(txMem, txWr, at[0], at[Len(pending)], tx'),
         tx'.pc = "poll" /\ unclaimed' = FALSE =>
           tx.pc = "poll" /\ unclaimed = FALSE /\ tx'.id = tx.id
  PROVE  RingInv'
<1>1. Newest \in Int /\ Newest' \in Int
  <2>1. Newest \in Int
    BY NewestIs
  <2>2. frames' \in Nat
    BY DEF TxType
  <2>3. Newest' \in Int
    BY <2>2 DEF Newest
  <2> QED  BY <2>1, <2>3
<1>2. ASSUME NEW at, NEW id, Ring(at, id) PROVE Ring(at, id)'
  <2>1. InFlight(txMem, txRd, pending, onWire, Newest', at, id)
    <3>1. InFlight(txMem, txRd, pending, onWire, Newest, at, id)
      BY <1>2, Zenon DEF Ring
    <3> QED  BY <3>1, <1>1, HigherTop
  <2>2. Behind(txMem, txWr, at[0], at[Len(pending)], tx')
    BY <1>2, Zenon
  <2>3. tx.pc = "poll" /\ unclaimed = FALSE /\ pending # <<>> => id[Len(pending)] = tx.id
    BY <1>2, Zenon DEF Ring
  <2> QED  BY <2>1, <2>2, <2>3, Zenon DEF Ring
<1>3. unsent = FALSE => onWire \in Nat /\ onWire <= Newest'
  <2> SUFFICES ASSUME unsent = FALSE PROVE onWire \in Nat /\ onWire <= Newest'
    OBVIOUS
  <2>1. onWire \in Nat /\ onWire <= Newest
    BY Zenon DEF RingInv
  <2> QED  BY <2>1, <1>1
<1>4. txOpen = TRUE /\ unsent = FALSE => \E at, id : Ring(at, id)'
  BY <1>2, Zenon DEF RingInv
<1>5. txOpen = FALSE => pending = <<>>
  BY Zenon DEF RingInv
<1> QED  BY <1>3, <1>4, <1>5, Zenon DEF RingInv

LEMMA TransmitKeeps ==
  ASSUME TxInv, Transmit
  PROVE  TxInv'
<1> USE DEF TxInv
<1>1. PICK n \in TxLengths :
        tx' = [TxIdle EXCEPT !.pc = "space", !.id = frames + 1, !.len = n]
  BY Zenon DEF Transmit
<1>2. /\ tx.pc = "idle" /\ frames' = frames + 1
      /\ UNCHANGED <<txMem, txWr, txRd, pending, sendBit, txOpen, onWire, mangled,
                     early, unclaimed, unsent>>
  BY DEF Transmit, txChip, txHistory
<1>3. n \in 1 .. TxSize /\ n \in Nat /\ frames \in Nat
  BY WiznetTxAssumption, SMTT(30) DEF TxType
<1>4. tx' = [pc |-> "space", id |-> frames + 1, len |-> n, offset |-> 0]
  BY <1>1 DEF TxIdle
<1>5. /\ tx' \in [pc : TxPlaces, id : Nat, len : Nat, offset : Nat]
      /\ tx'.pc = "space" /\ tx'.id = frames' /\ tx'.len = n /\ frames' \in Nat
  BY <1>2, <1>3, <1>4 DEF TxPlaces
<1>6. TxType'
  BY <1>2, <1>3, <1>5, Zenon DEF TxType
<1>7. Newest = frames /\ Newest' = frames
  BY <1>2, <1>3, <1>5 DEF Newest, Passing
<1>8. ASSUME NEW at, NEW id, Ring(at, id)
      PROVE  Behind(txMem, txWr, at[0], at[Len(pending)], tx')
  <2>1. Behind(txMem, txWr, at[0], at[Len(pending)], tx)
    BY <1>8, Zenon DEF Ring
  <2>2. (at[Len(pending)] + 0) % TxMod = txWr
    BY <2>1, <1>2 DEF Behind
  <2> QED  BY <2>2, <1>5 DEF Behind
<1>9. RingInv'
  <2>1. tx'.pc # "poll"
    BY <1>5
  <2>2. Newest <= Newest'
    BY <1>3, <1>7
  <2> QED  BY <2>1, <2>2, <1>2, <1>6, <1>8, RingRests, Zenon
<1>10. ClaimInv'
  <2>1. tx'.pc # "poll" /\ tx'.pc # "clear" /\ tx.pc \in Passing \cup {"idle"}
    BY <1>2, <1>5
  <2> QED  BY <2>1, <1>2, Zenon DEF ClaimInv
<1> QED  BY <1>2, <1>6, <1>9, <1>10, Zenon

LEMMA IdleIs ==
  /\ TxIdle \in [pc : TxPlaces, id : Nat, len : Nat, offset : Nat]
  /\ TxIdle.pc = "idle"
  BY DEF TxIdle, TxPlaces

\* A call that ends before the SEND command is given up without a trace; so is one
\* after it, but it leaves a SEND to the chip.
LEMMA EndKeeps ==
  ASSUME TxInv, tx' = TxIdle, tx.pc # "send",
         UNCHANGED <<txMem, txWr, txRd, pending, txOpen, onWire, mangled,
                     early, unsent, frames>>,
         sendBit' \in BOOLEAN, unclaimed' \in BOOLEAN,
         \/ tx.pc \in Passing /\ sendBit' = sendBit /\ unclaimed' = unclaimed
         \/ tx.pc = "clear" /\ sendBit' = FALSE /\ unclaimed' = unclaimed
         \/ unclaimed' = TRUE
  PROVE  TxInv'
<1> USE DEF TxInv
<1>1. tx' \in [pc : TxPlaces, id : Nat, len : Nat, offset : Nat] /\ tx'.pc = "idle"
  BY IdleIs
<1>2. TxType'
  BY <1>1, Zenon DEF TxType
<1>3. Newest <= Newest'
  <2>1. frames \in Nat
    BY DEF TxType
  <2> QED  BY <2>1, <1>1 DEF Newest, Passing
<1>4. ASSUME NEW at, NEW id, Ring(at, id)
      PROVE  Behind(txMem, txWr, at[0], at[Len(pending)], tx')
  <2>1. Behind(txMem, txWr, at[0], at[Len(pending)], tx)
    BY <1>4, Zenon DEF Ring
  <2>2. (at[Len(pending)] + 0) % TxMod = txWr
    BY <2>1 DEF Behind
  <2> QED  BY <2>2, <1>1 DEF Behind
<1>5. RingInv'
  <2>1. tx'.pc # "poll"
    BY <1>1
  <2> QED  BY <2>1, <1>2, <1>3, <1>4, RingRests, Zenon
<1>6. ClaimInv'
  <2>1. tx'.pc # "poll" /\ tx'.pc # "clear" /\ TRUE # FALSE
    BY <1>1
  <2> QED  BY <2>1, Zenon DEF ClaimInv
<1> QED  BY <1>2, <1>5, <1>6, Zenon

\* What the chip says is free is what lies behind the frames in flight.
LEMMA FreeIs ==
  ASSUME TxType, NEW at, NEW id, Ring(at, id), tx.pc # "send"
  PROVE  /\ Free = TxSize - (at[Len(pending)] - at[0])
         /\ at[Len(pending)] \in Nat /\ at[0] \in Nat
         /\ at[Len(pending)] % TxMod = txWr
<1>1. Len(pending) \in Nat
  BY DEF TxType
<1>2. InFlight(txMem, txRd, pending, onWire, Newest, at, id)
  BY Zenon DEF Ring
<1>3. Behind(txMem, txWr, at[0], at[Len(pending)], tx)
  BY Zenon DEF Ring
<1> DEFINE total == Len(pending)
<1>4. 0 \in 0 .. total /\ total \in 0 .. total /\ total \in Nat
  BY <1>1
<1>5. at[0] \in Nat /\ at[total] \in Nat /\ at[total] - at[0] <= TxSize /\ at[0] % TxMod = txRd
  BY <1>2, <1>4 DEF InFlight
<1>6. at[0] <= at[total]
  <2>1. CASE total = 0
    BY <2>1, <1>5
  <2>2. CASE total # 0
    <3>1. 0 < total
      <4> HIDE DEF total
      <4> QED  BY <2>2, <1>4
    <3>2. at[0] < at[total]
      BY <3>1, <1>2, <1>4 DEF InFlight
    <3> QED  BY <3>2, <1>5
  <2> QED  BY <2>1, <2>2
<1>7. (at[total] + 0) % TxMod = txWr
  BY <1>3 DEF Behind
<1>8. at[total] % TxMod = txWr
  BY <1>5, <1>7
<1>9. ((at[total] % TxMod) - (at[0] % TxMod)) % TxMod = at[total] - at[0]
  BY <1>5, <1>6, TxDistance
<1>10. (txWr - txRd) % TxMod = at[total] - at[0]
  BY <1>5, <1>8, <1>9
<1> QED  BY <1>5, <1>8, <1>10 DEF Free

LEMMA CheckFreeKeeps ==
  ASSUME TxInv, CheckFree
  PROVE  TxInv'
<1> USE DEF TxInv
<1>1. /\ tx.pc = "space"
      /\ UNCHANGED <<txMem, txWr, txRd, pending, sendBit, txOpen, onWire, mangled,
                     early, unclaimed, unsent, frames>>
      /\ \/ tx' = TxIdle
         \/ tx' = [tx EXCEPT !.pc = "copy"] /\ tx.len <= Free
  BY DEF CheckFree, txChip, txHistory
<1>2. CASE tx' = TxIdle
  <2>1. sendBit \in BOOLEAN /\ unclaimed \in BOOLEAN
    BY Zenon DEF TxType
  <2>2. tx.pc # "send" /\ tx.pc \in Passing
    BY <1>1 DEF Passing
  <2> QED  BY <2>1, <2>2, <1>1, <1>2, EndKeeps, Zenon
<1>3. CASE tx' = [tx EXCEPT !.pc = "copy"] /\ tx.len <= Free
  <2>1. tx \in [pc : TxPlaces, id : Nat, len : Nat, offset : Nat]
    BY Zenon DEF TxType
  <2>2. /\ tx' \in [pc : TxPlaces, id : Nat, len : Nat, offset : Nat]
        /\ tx'.pc = "copy" /\ tx'.id = tx.id /\ tx'.len = tx.len /\ tx.len \in Nat
    BY <1>3, <2>1 DEF TxPlaces
  <2>3. tx.id = frames /\ tx.len \in 1 .. TxSize
    BY <1>1 DEF TxType
  <2>4. TxType'
    BY <1>1, <2>2, <2>3, Zenon DEF TxType
  <2>5. Newest' = Newest
    BY <1>1, <2>2 DEF Newest, Passing
  <2>6. ASSUME NEW at, NEW id, Ring(at, id)
        PROVE  Behind(txMem, txWr, at[0], at[Len(pending)], tx')
    <3>1. /\ Free = TxSize - (at[Len(pending)] - at[0])
          /\ at[Len(pending)] \in Nat /\ at[0] \in Nat
          /\ at[Len(pending)] % TxMod = txWr
      BY <1>1, <2>6, FreeIs
    <3>2. (at[Len(pending)] - at[0]) + tx.len <= TxSize
      BY <1>3, <2>2, <3>1, TxSizes
    <3>3. (at[Len(pending)] + 0) % TxMod = txWr
      BY <3>1
    <3> QED  BY <2>2, <3>2, <3>3 DEF Behind
  <2>7. RingInv'
    <3>1. tx'.pc # "poll" /\ Newest <= Newest'
      BY <2>2, <2>5, NewestIs
    <3> QED  BY <3>1, <1>1, <2>4, <2>6, RingRests, Zenon
  <2>8. ClaimInv'
    <3>1. tx'.pc # "poll" /\ tx'.pc # "clear" /\ tx.pc \in Passing \cup {"idle"}
      BY <1>1, <2>2 DEF Passing
    <3> QED  BY <3>1, <1>1, Zenon DEF ClaimInv
  <2> QED  BY <1>1, <2>4, <2>7, <2>8, Zenon
<1> QED  BY <1>1, <1>2, <1>3

\* The steps of the poll, and of the timer task and the cable beside it.
LEMMA PollKeeps ==
  ASSUME TxInv, SeeSent \/ GiveUp \/ ReturnOk
  PROVE  TxInv'
<1> USE DEF TxInv
<1>t. /\ sendBit \in BOOLEAN /\ unclaimed \in BOOLEAN
      /\ tx \in [pc : TxPlaces, id : Nat, len : Nat, offset : Nat]
  BY Zenon DEF TxType
<1>1. CASE GiveUp
  <2>1. /\ tx.pc = "poll" /\ tx' = TxIdle /\ unclaimed' = TRUE
        /\ UNCHANGED <<txMem, txWr, txRd, pending, sendBit, txOpen, onWire, mangled,
                       early, unsent, frames>>
    BY <1>1 DEF GiveUp, txChip
  <2>2. tx.pc # "send" /\ TRUE \in BOOLEAN
    BY <2>1
  <2> QED  BY <2>1, <2>2, <1>t, EndKeeps, Zenon
<1>2. CASE SeeSent
  <2>1. PICK result \in Results :
          /\ result = "ok" => sendBit
          /\ unclaimed' = (unclaimed \/ result # "ok")
          /\ tx' = IF result = "ok" THEN [tx EXCEPT !.pc = "clear"] ELSE TxIdle
    BY <1>2, Zenon DEF SeeSent
  <2>2. /\ tx.pc = "poll"
        /\ UNCHANGED <<txMem, txWr, txRd, pending, sendBit, txOpen, onWire, mangled,
                       early, unsent, frames>>
    BY <1>2 DEF SeeSent, txChip
  <2>3. CASE result # "ok"
    <3>1. unclaimed' = TRUE /\ tx' = TxIdle
      BY <2>1, <2>3, Zenon
    <3>2. tx.pc # "send" /\ TRUE \in BOOLEAN
      BY <2>2
    <3> QED  BY <3>1, <3>2, <2>2, <1>t, EndKeeps, Zenon
  <2>4. CASE result = "ok"
    <3>1. sendBit = TRUE /\ unclaimed' = unclaimed /\ tx' = [tx EXCEPT !.pc = "clear"]
      BY <2>1, <2>4, <1>t, Zenon
    <3>2. /\ tx' \in [pc : TxPlaces, id : Nat, len : Nat, offset : Nat]
          /\ tx'.pc = "clear" /\ tx'.id = tx.id /\ tx'.len = tx.len
      BY <3>1, <1>t DEF TxPlaces
    <3>3. tx.id = frames /\ tx.len \in 1 .. TxSize
      BY <2>2 DEF TxType
    <3>4. TxType'
      BY <3>1, <3>2, <3>3, <2>2, Zenon DEF TxType
    <3>5. Newest' = Newest /\ Newest <= Newest'
      <4>1. Newest' = Newest
        BY <3>2, <2>2 DEF Newest, Passing
      <4> QED  BY <4>1, NewestIs
    <3>6. ASSUME NEW at, NEW id, Ring(at, id)
          PROVE  Behind(txMem, txWr, at[0], at[Len(pending)], tx')
      <4>1. Behind(txMem, txWr, at[0], at[Len(pending)], tx)
        BY <3>6, Zenon DEF Ring
      <4>2. (at[Len(pending)] + 0) % TxMod = txWr
        BY <4>1, <2>2 DEF Behind
      <4> QED  BY <4>2, <3>2 DEF Behind
    <3>7. RingInv'
      <4>1. tx'.pc # "poll"
        BY <3>2
      <4> QED  BY <4>1, <2>2, <3>4, <3>5, <3>6, RingRests, Zenon
    <3>8. ClaimInv'
      <4>1. tx'.pc \notin Passing \cup {"idle"} /\ tx'.pc # "poll" /\ TRUE # FALSE
        BY <3>2 DEF Passing
      <4> QED  BY <4>1, <2>2, <3>1, <3>2, Zenon DEF ClaimInv
    <3> QED  BY <2>2, <3>4, <3>7, <3>8, Zenon
  <2> QED  BY <2>3, <2>4
<1>3. CASE ReturnOk
  <2>1. PICK result \in Results :
          /\ sendBit' = (sendBit /\ result # "ok")
          /\ early' = (early \/ (result = "ok" /\ ~LeftBehind /\ onWire < tx.id))
          /\ unclaimed' = (unclaimed \/ result # "ok")
    BY <1>3, Zenon DEF ReturnOk
  <2>2. /\ tx.pc = "clear" /\ tx' = TxIdle
        /\ UNCHANGED <<txMem, txWr, txRd, pending, txOpen, onWire, mangled,
                       unsent, frames>>
    BY <1>3 DEF ReturnOk
  <2>3. early' = early
    <3>1. ~LeftBehind => unclaimed = FALSE /\ unsent = FALSE
      BY Zenon DEF LeftBehind, TxType
    <3>2. ~LeftBehind => onWire = tx.id
      BY <3>1, <2>2, Zenon DEF ClaimInv
    <3>3. tx.id \in Nat /\ ~(tx.id < tx.id)
      BY <1>t
    <3>4. early' = FALSE
      BY <2>1, <3>2, <3>3, Zenon
    <3> QED  BY <3>4
  <2>4. tx.pc # "send"
    BY <2>2
  <2>5. CASE result = "ok"
    <3>1. sendBit' = FALSE /\ unclaimed' = unclaimed
      BY <2>1, <2>5, <1>t, Zenon
    <3>2. FALSE \in BOOLEAN
      OBVIOUS
    <3> QED  BY <3>1, <3>2, <2>2, <2>3, <2>4, <1>t, EndKeeps, Zenon
  <2>6. CASE result # "ok"
    <3>1. unclaimed' = TRUE /\ sendBit' = sendBit
      BY <2>1, <2>6, <1>t, Zenon
    <3>2. TRUE \in BOOLEAN
      OBVIOUS
    <3> QED  BY <3>1, <3>2, <2>2, <2>3, <2>4, <1>t, EndKeeps, Zenon
  <2> QED  BY <2>5, <2>6
<1> QED  BY <1>1, <1>2, <1>3

-----------------------------------------------------------------------------
(***************************************************************************)
(* The steps that write the ring.                                          *)
(***************************************************************************)

\* What is in flight does not notice a write to units it does not occupy.
LEMMA OtherMemory ==
  ASSUME NEW cells, NEW cells2, NEW front, NEW p \in Seq(Nat), NEW wire, NEW top, NEW at, NEW id,
         InFlight(cells, front, p, wire, top, at, id),
         \A a \in Nat : at[0] <= a /\ a < at[Len(p)] => cells2[Unit(a)] = cells[Unit(a)]
  PROVE  InFlight(cells2, front, p, wire, top, at, id)
<1> DEFINE n == Len(p)
<1>1. n \in Nat
  OBVIOUS
<1>2. ASSUME NEW i \in 1 .. n
      PROVE  Holds(cells2, at[i - 1], id[i], at[i] - at[i - 1])
  <2>1. Holds(cells, at[i - 1], id[i], at[i] - at[i - 1])
    BY DEF InFlight
  <2>2. i - 1 \in 0 .. n /\ i \in 0 .. n /\ 0 \in 0 .. n /\ n \in 0 .. n
    BY <1>1
  <2>3. at[i - 1] \in Nat /\ at[i] \in Nat /\ at[0] \in Nat /\ at[n] \in Nat
    BY <2>2 DEF InFlight
  <2>4. at[0] <= at[i - 1]
    <3>1. CASE i - 1 = 0
      BY <3>1, <2>3
    <3>2. CASE i - 1 # 0
      <4>1. 0 < i - 1
        <5> HIDE DEF n
        <5> QED  BY <3>2, <2>2, <1>1
      <4>2. at[0] < at[i - 1]
        BY <4>1, <2>2 DEF InFlight
      <4> QED  BY <4>2, <2>3
    <3> QED  BY <3>1, <3>2
  <2>5. at[i] <= at[n]
    <3>1. CASE i = n
      BY <3>1, <2>3
    <3>2. CASE i # n
      <4>1. i < n
        <5> HIDE DEF n
        <5> QED  BY <3>2, <2>2, <1>1
      <4>2. at[i] < at[n]
        BY <4>1, <2>2 DEF InFlight
      <4> QED  BY <4>2, <2>3
    <3> QED  BY <3>1, <3>2
  <2>6. ASSUME NEW k \in 0 .. (at[i] - at[i - 1]) - 1
        PROVE  cells2[Unit(at[i - 1] + k)] = Piece(id[i], k, at[i] - at[i - 1])
    <3> DEFINE a == at[i - 1] + k
    <3>1. a \in Nat /\ at[0] <= a /\ a < at[n]
      BY <2>3, <2>4, <2>5, SMTT(30)
    <3> HIDE DEF a
    <3>2. cells2[Unit(a)] = cells[Unit(a)]
      BY <3>1
    <3>3. cells[Unit(at[i - 1] + k)] = Piece(id[i], k, at[i] - at[i - 1])
      BY <2>1 DEF Holds
    <3> QED  BY <3>2, <3>3 DEF a
  <2> QED  BY <2>6 DEF Holds
<1> QED  BY <1>2, Zenon DEF InFlight

LEMMA CopyFrameKeeps ==
  ASSUME TxInv, CopyFrame
  PROVE  TxInv'
<1> USE DEF TxInv
<1>1. /\ tx.pc = "copy"
      /\ UNCHANGED <<txWr, txRd, pending, sendBit, txOpen, onWire, mangled,
                     early, unclaimed, unsent, frames>>
      /\ \/ txMem' = txMem /\ tx' = TxIdle
         \/ /\ txMem' = [p \in DOMAIN txMem |->
                           LET k == (p - txWr) % TxSize
                           IN  IF k < tx.len THEN Piece(tx.id, k, tx.len)
                               ELSE txMem[p]]
            /\ tx' = [tx EXCEPT !.pc = "move", !.offset = txWr]
  BY DEF CopyFrame, txHistory
<1>t. /\ sendBit \in BOOLEAN /\ unclaimed \in BOOLEAN
      /\ tx \in [pc : TxPlaces, id : Nat, len : Nat, offset : Nat]
  BY Zenon DEF TxType
<1>2. CASE txMem' = txMem /\ tx' = TxIdle
  <2>1. tx.pc # "send" /\ tx.pc \in Passing
    BY <1>1 DEF Passing
  <2> QED  BY <2>1, <1>1, <1>2, <1>t, EndKeeps, Zenon
<1>3. CASE /\ txMem' = [p \in DOMAIN txMem |->
                           LET k == (p - txWr) % TxSize
                           IN  IF k < tx.len THEN Piece(tx.id, k, tx.len)
                               ELSE txMem[p]]
           /\ tx' = [tx EXCEPT !.pc = "move", !.offset = txWr]
  <2>1. tx.id = frames /\ tx.len \in 1 .. TxSize /\ txWr \in Nat /\ TxSize \in Nat \ {0}
    BY <1>1, TxSizes DEF TxType
  <2>2. /\ tx' \in [pc : TxPlaces, id : Nat, len : Nat, offset : Nat]
        /\ tx'.pc = "move" /\ tx'.id = tx.id /\ tx'.len = tx.len /\ tx'.offset = txWr
    BY <1>3, <1>t, <2>1 DEF TxPlaces
  <2>3. DOMAIN txMem = 0 .. TxSize - 1
    BY Zenon DEF TxType
  <2>4. txMem' = [p \in 0 .. TxSize - 1 |-> txMem'[p]]
    BY <1>3, <2>3, Zenon
  <2>5. ASSUME NEW u \in 0 .. TxSize - 1
        PROVE  txMem'[u] = IF (u - txWr) % TxSize < tx.len
                           THEN Piece(tx.id, (u - txWr) % TxSize, tx.len) ELSE txMem[u]
    BY <1>3, <2>3
  <2>6. TxType'
    BY <1>1, <2>1, <2>2, <2>4, Zenon DEF TxType
  <2>7. Newest' = Newest
    BY <1>1, <2>2 DEF Newest, Passing
  <2>8. ASSUME NEW at, NEW id, Ring(at, id) PROVE Ring(at, id)'
    <3> DEFINE end == at[Len(pending)]
    <3>1. end \in Nat /\ at[0] \in Nat /\ end % TxMod = txWr
      BY <1>1, <2>8, FreeIs
    <3>2. InFlight(txMem, txRd, pending, onWire, Newest, at, id)
          /\ Behind(txMem, txWr, at[0], end, tx)
      BY <2>8, Zenon DEF Ring
    <3>3. (end - at[0]) + tx.len <= TxSize
      BY <3>2, <1>1 DEF Behind
    <3>4. InFlight(txMem', txRd, pending, onWire, Newest, at, id)
      <4>1. ASSUME NEW a \in Nat, at[0] <= a, a < end
            PROVE  txMem'[Unit(a)] = txMem[Unit(a)]
        <5>1. tx.len \in Nat /\ (end - a) + tx.len <= TxSize
          BY <3>1, <3>3, <4>1, <2>1
        <5>2. ~((Unit(a) - (end % TxMod)) % TxSize < tx.len)
          BY <5>1, <4>1, <3>1, TxUnitBefore
        <5>3. Unit(a) \in 0 .. TxSize - 1
          BY <3>1, TxUnitFrom
        <5> QED  BY <5>2, <5>3, <3>1, <2>5
      <4>2. pending \in Seq(Nat)
        BY DEF TxType
      <4> QED  BY <4>1, <4>2, <3>2, OtherMemory
    <3>5. Holds(txMem', end, tx.id, tx.len)
      <4>1. ASSUME NEW k \in 0 .. tx.len - 1
            PROVE  txMem'[Unit(end + k)] = Piece(tx.id, k, tx.len)
        <5>1. k \in 0 .. TxSize - 1 /\ end + k \in Nat /\ k < tx.len
          BY <2>1, <3>1
        <5>2. (Unit(end + k) - txWr) % TxSize = k
          BY <5>1, <3>1, TxUnitBehind
        <5>3. Unit(end + k) \in 0 .. TxSize - 1
          BY <5>1, <3>1, TxUnitFrom
        <5> QED  BY <5>1, <5>2, <5>3, <2>5
      <4> QED  BY <4>1 DEF Holds
    <3>6. (end + 0) % TxMod = txWr
      BY <3>1
    <3>7. Behind(txMem', txWr, at[0], end, tx')
      BY <2>2, <3>3, <3>5, <3>6 DEF Behind
    <3>8. tx'.pc # "poll"
      BY <2>2
    <3> QED  BY <1>1, <2>7, <3>4, <3>7, <3>8, Zenon DEF Ring
  <2>9. RingInv'
    BY <1>1, <2>7, <2>8, Zenon DEF RingInv
  <2>10. ClaimInv'
    <3>1. tx'.pc # "poll" /\ tx'.pc # "clear" /\ tx.pc \in Passing \cup {"idle"}
      BY <1>1, <2>2 DEF Passing
    <3> QED  BY <3>1, <1>1, Zenon DEF ClaimInv
  <2> QED  BY <1>1, <2>6, <2>9, <2>10, Zenon
<1> QED  BY <1>1, <1>2, <1>3

LEMMA MoveWritePointerKeeps ==
  ASSUME TxInv, MoveWritePointer
  PROVE  TxInv'
<1> USE DEF TxInv
<1>1. /\ tx.pc = "move"
      /\ UNCHANGED <<txMem, txRd, pending, sendBit, txOpen, onWire, mangled,
                     early, unclaimed, unsent, frames>>
      /\ \/ txWr' = txWr /\ tx' = TxIdle
         \/ txWr' = Wrapped(tx.offset, tx.len) /\ tx' = [tx EXCEPT !.pc = "send"]
  BY DEF MoveWritePointer, txHistory
<1>t. /\ sendBit \in BOOLEAN /\ unclaimed \in BOOLEAN
      /\ tx \in [pc : TxPlaces, id : Nat, len : Nat, offset : Nat]
  BY Zenon DEF TxType
<1>2. CASE txWr' = txWr /\ tx' = TxIdle
  <2>1. tx.pc # "send" /\ tx.pc \in Passing
    BY <1>1 DEF Passing
  <2> QED  BY <2>1, <1>1, <1>2, <1>t, EndKeeps, Zenon
<1>3. CASE txWr' = Wrapped(tx.offset, tx.len) /\ tx' = [tx EXCEPT !.pc = "send"]
  <2>1. tx.id = frames /\ tx.len \in 1 .. TxSize
    BY <1>1 DEF TxType
  <2>2. /\ tx' \in [pc : TxPlaces, id : Nat, len : Nat, offset : Nat]
        /\ tx'.pc = "send" /\ tx'.id = tx.id /\ tx'.len = tx.len
    BY <1>3, <1>t DEF TxPlaces
  <2>3. txWr' \in 0 .. TxMod - 1
    <3>1. tx.offset + tx.len \in Int
      BY <1>t
    <3> QED  BY <3>1, <1>3, Parts, TxSizes DEF Wrapped
  <2>4. TxType'
    BY <1>1, <2>1, <2>2, <2>3, Zenon DEF TxType
  <2>5. Newest' = Newest
    BY <1>1, <2>2 DEF Newest, Passing
  <2>6. ASSUME NEW at, NEW id, Ring(at, id) PROVE Ring(at, id)'
    <3> DEFINE end == at[Len(pending)]
    <3>1. end \in Nat /\ at[0] \in Nat /\ end % TxMod = txWr
      BY <1>1, <2>6, FreeIs
    <3>2. InFlight(txMem, txRd, pending, onWire, Newest, at, id)
          /\ Behind(txMem, txWr, at[0], end, tx)
      BY <2>6, Zenon DEF Ring
    <3>3. /\ (end - at[0]) + tx.len <= TxSize /\ Holds(txMem, end, tx.id, tx.len)
          /\ tx.offset = txWr
      BY <3>2, <1>1 DEF Behind
    <3>4. (end + tx.len) % TxMod = txWr'
      <4>1. Wrapped(end % TxMod, tx.len) = (end + tx.len) % TxMod
        BY <3>1, <1>t, TxWrapsAgain
      <4> QED  BY <4>1, <3>1, <3>3, <1>3
    <3>5. Behind(txMem, txWr', at[0], end, tx')
      BY <2>2, <3>3, <3>4 DEF Behind
    <3>6. tx'.pc # "poll"
      BY <2>2
    <3> QED  BY <1>1, <2>5, <3>2, <3>5, <3>6, Zenon DEF Ring
  <2>7. RingInv'
    BY <1>1, <2>5, <2>6, Zenon DEF RingInv
  <2>8. ClaimInv'
    <3>1. tx'.pc # "poll" /\ tx'.pc # "clear" /\ tx.pc \in Passing \cup {"idle"}
      BY <1>1, <2>2 DEF Passing
    <3> QED  BY <3>1, <1>1, Zenon DEF ClaimInv
  <2> QED  BY <1>1, <2>4, <2>7, <2>8, Zenon
<1> QED  BY <1>1, <1>2, <1>3

\* One more SEND command: the frame that lies behind those in flight.
LEMMA OneMore ==
  ASSUME pending \in Seq(Nat), onWire \in Int, frames \in Nat, NEW at, NEW id,
         InFlight(txMem, txRd, pending, onWire, frames - 1, at, id),
         NEW n \in 1 .. TxSize, (at[Len(pending)] - at[0]) + n <= TxSize,
         Holds(txMem, at[Len(pending)], frames, n), onWire < frames
  PROVE  \E at2, id2 :
           /\ InFlight(txMem, txRd, Append(pending, (at[Len(pending)] + n) % TxMod),
                       onWire, frames, at2, id2)
           /\ at2[Len(pending) + 1] = at[Len(pending)] + n /\ at2[0] = at[0]
           /\ id2[Len(pending) + 1] = frames
<1> DEFINE m == Len(pending)
           end == at[m] + n
           at2 == [i \in 0 .. m + 1 |-> IF i = m + 1 THEN end ELSE at[i]]
           id2 == [i \in 1 .. m + 1 |-> IF i = m + 1 THEN frames ELSE id[i]]
           q == Append(pending, end % TxMod)
<1>1. /\ at \in [0 .. m -> Nat] /\ id \in [1 .. m -> Nat] /\ at[0] % TxMod = txRd
      /\ \A i, j \in 0 .. m : i < j => at[i] < at[j]
      /\ at[m] - at[0] <= TxSize
      /\ \A i \in 1 .. m :
           /\ at[i] % TxMod = pending[i]
           /\ Holds(txMem, at[i - 1], id[i], at[i] - at[i - 1])
           /\ onWire < id[i] /\ id[i] <= frames - 1
      /\ \A i, j \in 1 .. m : i < j => id[i] < id[j]
  BY DEF InFlight
<1>2. m \in Nat /\ TxSize \in Nat /\ n \in Nat \ {0}
  BY TxSizes
<1>3. at[m] \in Nat /\ end \in Nat /\ at[0] \in Nat
  <2>1. 0 \in 0 .. m /\ m \in 0 .. m
    BY <1>2
  <2> HIDE DEF m
  <2>2. at[m] \in Nat /\ at[0] \in Nat
    BY <2>1, <1>1
  <2> QED  BY <2>2, <1>2
<1>4. end % TxMod \in Nat
  BY <1>3, WrappedIs, TxSizes
<1>5. /\ Len(q) = m + 1 /\ q[m + 1] = end % TxMod /\ \A i \in 1 .. m : q[i] = pending[i]
  <2> DEFINE e == end % TxMod
  <2> HIDE DEF e, end
  <2> SUFFICES /\ Len(Append(pending, e)) = Len(pending) + 1 /\ Append(pending, e)[Len(pending) + 1] = e
               /\ \A i \in 1 .. Len(pending) : Append(pending, e)[i] = pending[i]
    BY Zenon DEF e
  <2>1. e \in Nat
    BY <1>4 DEF e
  <2> QED  BY <2>1
<1> HIDE DEF q
<1>6. /\ at2 \in [0 .. m + 1 -> Nat] /\ at2[m + 1] = end
      /\ \A i \in 0 .. m : at2[i] = at[i]
  <2> HIDE DEF m, end
  <2> QED  BY <1>1, <1>2, <1>3, SMTT(30)
<1>7. /\ id2 \in [1 .. m + 1 -> Nat] /\ id2[m + 1] = frames
      /\ \A i \in 1 .. m : id2[i] = id[i]
  <2>1. id \in [1 .. m -> Nat] /\ m + 1 \in 1 .. m + 1 /\ frames \in Nat
    BY <1>1, <1>2
  <2> HIDE DEF m
  <2>2. \A i \in 1 .. m + 1 : i # m + 1 => i \in 1 .. m
    BY <1>2
  <2>3. \A i \in 1 .. m : i \in 1 .. m + 1 /\ i # m + 1
    BY <1>2
  <2> QED  BY <2>1, <2>2, <2>3, Zenon
<1>8. /\ end = at[m] + n
  OBVIOUS
<1> HIDE DEF at2, id2, end, m
<1>9. at2[0] = at[0]
  BY <1>2, <1>6
<1>10. \A i, j \in 0 .. m + 1 : i < j => at2[i] < at2[j]
  <2> SUFFICES ASSUME NEW i \in 0 .. m + 1, NEW j \in 0 .. m + 1, i < j
               PROVE  at2[i] < at2[j]
    OBVIOUS
  <2>1. CASE j \in 0 .. m
    <3>1. i \in 0 .. m
      BY <2>1, <1>2
    <3> QED  BY <2>1, <3>1, <1>1, <1>6
  <2>2. CASE j = m + 1
    <3>1. i \in 0 .. m /\ m \in 0 .. m
      BY <2>2, <1>2
    <3>2. at[i] <= at[m]
      <4>1. CASE i = m
        BY <4>1, <1>3
      <4>2. CASE i < m
        <5>1. at[i] < at[m] /\ at[i] \in Nat
          BY <4>2, <3>1, <1>1
        <5> QED  BY <5>1, <1>3
      <4> QED  BY <4>1, <4>2, <3>1, <1>2
    <3>3. at[i] \in Nat
      BY <3>1, <1>1
    <3> QED  BY <2>2, <3>1, <3>2, <3>3, <1>2, <1>3, <1>6, <1>8, SMTT(30)
  <2> QED  BY <2>1, <2>2, <1>2
<1>11. at2[m + 1] - at2[0] <= TxSize
  <2>1. (at[m] - at[0]) + n <= TxSize
    BY DEF m
  <2> QED  BY <2>1, <1>2, <1>3, <1>6, <1>8, <1>9, SMTT(30)
<1>12. ASSUME NEW i \in 1 .. m + 1
       PROVE  /\ at2[i] % TxMod = q[i]
              /\ Holds(txMem, at2[i - 1], id2[i], at2[i] - at2[i - 1])
              /\ onWire < id2[i] /\ id2[i] <= frames
  <2>1. CASE i \in 1 .. m
    <3>1. i - 1 \in 0 .. m /\ i \in 0 .. m
      BY <2>1, <1>2
    <3>2. at2[i] = at[i] /\ at2[i - 1] = at[i - 1] /\ id2[i] = id[i] /\ q[i] = pending[i]
      BY <2>1, <3>1, <1>5, <1>6, <1>7
    <3>3. id[i] <= frames - 1 /\ id[i] \in Nat /\ onWire < id[i]
      BY <2>1, <1>1
    <3> QED  BY <2>1, <3>2, <3>3, <1>1
  <2>2. CASE i = m + 1
    <3>1. i - 1 = m /\ m \in 0 .. m
      BY <2>2, <1>2
    <3>2. at2[i] = end /\ at2[i - 1] = at[m] /\ id2[i] = frames /\ q[i] = end % TxMod
      BY <2>2, <3>1, <1>5, <1>6, <1>7
    <3>3. end - at[m] = n
      BY <1>2, <1>3, <1>8
    <3>4. Holds(txMem, at[m], frames, n)
      BY DEF m
    <3> QED  BY <3>2, <3>3, <3>4
  <2> QED  BY <2>1, <2>2, <1>2
<1>13. \A i, j \in 1 .. m + 1 : i < j => id2[i] < id2[j]
  <2> SUFFICES ASSUME NEW i \in 1 .. m + 1, NEW j \in 1 .. m + 1, i < j
               PROVE  id2[i] < id2[j]
    OBVIOUS
  <2>0. i \in 1 .. m
    BY <1>2
  <2>1. CASE j \in 1 .. m
    BY <2>0, <2>1, <1>1, <1>7
  <2>2. CASE j = m + 1
    <3>1. id[i] <= frames - 1 /\ id[i] \in Nat
      BY <2>0, <1>1
    <3> QED  BY <2>0, <2>2, <3>1, <1>7
  <2> QED  BY <2>1, <2>2, <1>2
<1>14. InFlight(txMem, txRd, q, onWire, frames, at2, id2)
  BY <1>1, <1>5, <1>6, <1>7, <1>9, <1>10, <1>11, <1>12, <1>13, Zenon DEF InFlight
<1>15. at2[m + 1] = at[m] + n /\ id2[m + 1] = frames
  BY <1>6, <1>7, <1>8
<1>16. InFlight(txMem, txRd, Append(pending, (at[m] + n) % TxMod), onWire, frames, at2, id2)
  BY <1>14, <1>8, Zenon DEF q
<1> QED  BY <1>9, <1>15, <1>16, Zenon DEF m

LEMMA SendKeeps ==
  ASSUME TxInv, Send
  PROVE  TxInv'
<1> USE DEF TxInv
<1>1. PICK result \in CommandResults :
        /\ pending' = IF Executed(result) /\ txOpen THEN Append(pending, txWr) ELSE pending
        /\ unsent' = (unsent \/ (result = "unsent" /\ txOpen))
        /\ unclaimed' = (unclaimed \/ result = "unseen")
        /\ tx' = IF result = "ok" THEN [tx EXCEPT !.pc = "poll"] ELSE TxIdle
  BY Zenon DEF Send
<1>2. /\ tx.pc = "send"
      /\ UNCHANGED <<txMem, txWr, txRd, sendBit, txOpen, onWire, mangled, early, frames>>
  BY DEF Send
<1>t. /\ sendBit \in BOOLEAN /\ unclaimed \in BOOLEAN /\ unsent \in BOOLEAN
      /\ txOpen \in BOOLEAN
      /\ tx \in [pc : TxPlaces, id : Nat, len : Nat, offset : Nat]
  BY Zenon DEF TxType
<1>3. /\ tx.id = frames /\ tx.len \in 1 .. TxSize /\ frames \in Nat /\ txWr \in Nat
      /\ pending \in Seq(Nat)
  BY <1>2, TxSizes DEF TxType
<1>4. /\ tx' \in [pc : TxPlaces, id : Nat, len : Nat, offset : Nat]
      /\ \/ tx'.pc = "poll" /\ tx'.id = tx.id /\ tx'.len = tx.len /\ result = "ok"
         \/ tx'.pc = "idle" /\ result # "ok"
  <2>1. CASE result = "ok"
    <3>1. tx' = [tx EXCEPT !.pc = "poll"]
      BY <1>1, <2>1, Zenon
    <3> QED  BY <2>1, <3>1, <1>t DEF TxPlaces
  <2>2. CASE result # "ok"
    BY <1>1, <2>2, IdleIs, Zenon
  <2> QED  BY <2>1, <2>2
<1>5. unsent' \in BOOLEAN /\ unclaimed' \in BOOLEAN
  BY <1>1, Zenon
<1>6. Append(pending, txWr) \in Seq(Nat) /\ pending' \in Seq(Nat)
  <2>1. Append(pending, txWr) \in Seq(Nat)
    BY <1>3
  <2> QED  BY <2>1, <1>1, <1>3, Zenon
<1>7. TxType'
  BY <1>2, <1>3, <1>4, <1>5, <1>6, Zenon DEF TxType
<1>8. Newest = frames - 1 /\ Newest' = frames
  BY <1>2, <1>4 DEF Newest, Passing
<1>9. unsent' = FALSE => unsent = FALSE
  BY <1>1, <1>t, Zenon
<1>10. unsent' = FALSE => onWire' \in Nat /\ onWire' <= Newest'
  <2> SUFFICES ASSUME unsent' = FALSE PROVE onWire' \in Nat /\ onWire' <= Newest'
    OBVIOUS
  <2>1. onWire \in Nat /\ onWire <= Newest
    BY <1>9, Zenon DEF RingInv
  <2> QED  BY <2>1, <1>2, <1>3, <1>8
<1>11. txOpen = FALSE => pending' = <<>>
  BY <1>1, Zenon DEF RingInv
<1>12. ASSUME txOpen = TRUE, unsent' = FALSE
       PROVE  (\E at, id : Ring(at, id)') /\ pending' = Append(pending, txWr)
  <2>1. result # "unsent" /\ unsent = FALSE /\ pending' = Append(pending, txWr)
    BY <1>1, <1>12, <1>t, Zenon DEF Executed
  <2>2. PICK at, id : Ring(at, id)
    BY <2>1, <1>12, Zenon DEF RingInv
  <2> DEFINE m == Len(pending)
  <2>3. /\ InFlight(txMem, txRd, pending, onWire, frames - 1, at, id)
        /\ Behind(txMem, txWr, at[0], at[m], tx)
    BY <2>2, <1>8, Zenon DEF Ring
  <2>4. /\ (at[m] + tx.len) % TxMod = txWr /\ (at[m] - at[0]) + tx.len <= TxSize
        /\ Holds(txMem, at[m], frames, tx.len)
    BY <2>3, <1>2, <1>3 DEF Behind
  <2>5. onWire \in Int /\ onWire < frames
    <3>1. onWire \in Nat /\ onWire <= frames - 1
      BY <2>1, <1>8, Zenon DEF RingInv
    <3> QED  BY <3>1, <1>3
  <2>6. PICK at2, id2 :
           /\ InFlight(txMem, txRd, Append(pending, (at[m] + tx.len) % TxMod), onWire, frames, at2, id2)
           /\ at2[m + 1] = at[m] + tx.len /\ at2[0] = at[0]
           /\ id2[m + 1] = frames
    <3> DEFINE n == tx.len
    <3>1. /\ pending \in Seq(Nat) /\ n \in 1 .. TxSize /\ frames \in Nat
          /\ Holds(txMem, at[Len(pending)], frames, n)
          /\ (at[Len(pending)] - at[0]) + n <= TxSize
      BY <2>4, <1>3
    <3> HIDE DEF n
    <3>2. InFlight(txMem, txRd, pending, onWire, frames - 1, at, id)
      BY <2>3
    <3>3. \E at2, id2 :
           /\ InFlight(txMem, txRd, Append(pending, (at[Len(pending)] + n) % TxMod),
                       onWire, frames, at2, id2)
           /\ at2[Len(pending) + 1] = at[Len(pending)] + n /\ at2[0] = at[0]
           /\ id2[Len(pending) + 1] = frames
      BY <3>2, <2>5, <3>1, OneMore, Zenon
    <3> QED  BY <3>3, Zenon DEF n
  <2>7. InFlight(txMem, txRd, pending', onWire, Newest', at2, id2)
    BY <2>1, <2>4, <2>6, <1>8, Zenon
  <2>8. Len(pending') = m + 1
    BY <2>1, <1>3
  <2>9. at[m] \in Nat
    <3>1. m \in 0 .. m
      BY <1>3
    <3> QED  BY <3>1, <2>3 DEF InFlight
  <2>10. (at2[m + 1] + 0) % TxMod = txWr
    BY <2>4, <2>6, <2>9, <1>3
  <2>11. Behind(txMem, txWr, at2[0], at2[m + 1], tx')
    BY <2>10, <1>4 DEF Behind
  <2>12. Ring(at2, id2)'
    <3>1. tx'.pc = "poll" => id2[m + 1] = tx'.id
      BY <2>6, <1>3, <1>4
    <3> HIDE DEF m
    <3> QED  BY <3>1, <2>7, <2>8, <2>11, <1>2, Zenon DEF Ring
  <2> QED  BY <2>1, <2>12, Zenon
<1>13. RingInv'
  BY <1>2, <1>10, <1>11, <1>12, Zenon DEF RingInv
<1>14. ClaimInv'
  <2> SUFFICES ASSUME unclaimed' = FALSE, unsent' = FALSE PROVE ClaimInv'
    BY Zenon DEF ClaimInv
  <2>1. unclaimed = FALSE /\ unsent = FALSE /\ result # "unseen"
    BY <1>1, <1>9, <1>t, Zenon
  <2>2. pending = <<>> /\ sendBit = FALSE
    <3>1. tx.pc \in Passing \cup {"idle"}
      BY <1>2 DEF Passing
    <3> QED  BY <2>1, <3>1, Zenon DEF ClaimInv
  <2>3. Len(Append(pending, txWr)) = 1
    BY <2>2, <1>3
  <2>4. CASE txOpen = FALSE
    <3>1. pending' = <<>> /\ sendBit' = FALSE /\ tx'.pc # "clear" /\ FALSE # TRUE
      BY <1>2, <1>4, <1>11, <2>2, <2>4
    <3> QED  BY <3>1, Zenon DEF ClaimInv
  <2>5. CASE txOpen = TRUE
    <3>1. pending' = Append(pending, txWr) /\ sendBit' = FALSE
      BY <1>2, <1>12, <2>2, <2>5, Zenon
    <3>2. result = "ok"
      <4>1. result # "unsent"
        BY <1>1, <2>5, <1>t, Zenon
      <4> QED  BY <4>1, <2>1 DEF CommandResults
    <3>3. tx'.pc = "poll" /\ tx'.pc \notin Passing \cup {"idle"} /\ tx'.pc # "clear"
      BY <3>2, <1>4 DEF Passing
    <3> QED  BY <3>1, <3>3, <2>3, Zenon DEF ClaimInv
  <2> QED  BY <2>4, <2>5, <1>t
<1> QED  BY <1>2, <1>7, <1>13, <1>14, Zenon

-----------------------------------------------------------------------------
(***************************************************************************)
(* The timer task and the cable.                                           *)
(***************************************************************************)

\* Steps beside the call that do not touch the ring.
LEMMA BesideKeeps ==
  ASSUME TxInv,
         UNCHANGED <<txMem, txWr, txRd, pending, txOpen, onWire, mangled, early,
                     unsent, frames, tx>>,
         sendBit' \in BOOLEAN, unclaimed' \in BOOLEAN,
         sendBit' = sendBit \/ sendBit' = FALSE,
         unclaimed' = unclaimed \/ unclaimed' = TRUE
  PROVE  TxInv'
<1> USE DEF TxInv
<1>1. TxType'
  BY Zenon DEF TxType
<1>2. Newest <= Newest'
  <2>1. Newest' = Newest
    BY DEF Newest
  <2> QED  BY <2>1, NewestIs
<1>3. \A at, id : Ring(at, id) => Behind(txMem, txWr, at[0], at[Len(pending)], tx')
  BY Zenon DEF Ring
<1>4. unclaimed' = FALSE => unclaimed = FALSE
  BY Zenon
<1>5. RingInv'
  BY <1>1, <1>2, <1>3, <1>4, RingRests, Zenon
<1>6. ClaimInv'
  BY <1>4, Zenon DEF ClaimInv
<1> QED  BY <1>1, <1>5, <1>6, Zenon

LEMMA OpenSocketKeeps ==
  ASSUME TxInv, OpenSocket
  PROVE  TxInv'
<1> USE DEF TxInv
<1>1. PICK result \in CommandResults :
        /\ txOpen' = (txOpen \/ Executed(result))
        /\ txRd' = IF Executed(result) THEN txWr ELSE txRd
        /\ pending' = IF Executed(result) THEN <<>> ELSE pending
  BY Zenon DEF OpenSocket
<1>2. /\ tx.pc = "idle"
      /\ UNCHANGED <<txMem, txWr, sendBit, unclaimed, unsent, onWire, mangled, early,
                     frames, tx>>
  BY DEF OpenSocket, Elsewhere
<1>t. /\ sendBit \in BOOLEAN /\ unclaimed \in BOOLEAN /\ txOpen \in BOOLEAN
  BY Zenon DEF TxType
<1>3. CASE ~Executed(result)
  <2>1. txOpen' = txOpen /\ txRd' = txRd /\ pending' = pending
    BY <1>1, <1>3, <1>t, Zenon
  <2> QED  BY <2>1, <1>2, <1>t, BesideKeeps, Zenon
<1>4. CASE Executed(result)
  <2>1. txOpen' = TRUE /\ txRd' = txWr /\ pending' = <<>>
    BY <1>1, <1>4, Zenon
  <2>2. txWr \in 0 .. TxMod - 1 /\ <<>> \in Seq(Nat)
    BY DEF TxType
  <2>3. txWr \in Nat /\ txWr % TxMod = txWr /\ TRUE \in BOOLEAN
    BY <2>2, Small, TxSizes
  <2>4. TxType'
    BY <1>2, <2>1, <2>2, <2>3, Zenon DEF TxType
  <2> DEFINE w == txWr
             at == [i \in 0 .. 0 |-> w]
             id == [i \in 1 .. 0 |-> 0]
  <2>5. PICK at2 : at2 \in [0 .. 0 -> Nat] /\ at2[0] = txWr
    <3>1. at \in [0 .. 0 -> Nat] /\ at[0] = txWr
      BY <2>3
    <3> QED  BY <3>1, Zenon
  <2>6. PICK id2 : id2 \in [1 .. 0 -> Nat]
    <3>1. id \in [1 .. 0 -> Nat]
      OBVIOUS
    <3> QED  BY <3>1, Zenon
  <2>7. InFlight(txMem, txWr, <<>>, onWire, Newest, at2, id2)
    <3>1. at2[0] - at2[0] <= TxSize
      BY <2>3, <2>5, TxSizes
    <3>2. Len(<<>>) = 0
      OBVIOUS
    <3>3. \A i, j \in 0 .. 0 : ~(i < j)
      OBVIOUS
    <3>4. \A i \in 1 .. 0 : FALSE
      OBVIOUS
    <3> QED  BY <3>1, <3>2, <3>3, <3>4, <2>3, <2>5, <2>6, Zenon DEF InFlight
  <2>8. Behind(txMem, txWr, at2[0], at2[0], tx)
    <3>1. (at2[0] + 0) % TxMod = txWr
      BY <2>3, <2>5
    <3> QED  BY <3>1, <1>2 DEF Behind
  <2>9. Newest' = Newest
    BY <1>2 DEF Newest
  <2>10. Ring(at2, id2)'
    <3>1. Len(pending') = 0
      BY <2>1
    <3> QED  BY <3>1, <2>1, <2>7, <2>8, <2>9, <1>2, Zenon DEF Ring
  <2>11. RingInv'
    <3>1. unsent = FALSE => onWire \in Nat /\ onWire <= Newest
      BY Zenon DEF RingInv
    <3> QED  BY <3>1, <2>1, <2>9, <2>10, <1>2, Zenon DEF RingInv
  <2>12. ClaimInv'
    <3>1. tx.pc \in Passing \cup {"idle"} /\ tx.pc # "poll" /\ tx.pc # "clear"
      BY <1>2
    <3> QED  BY <3>1, <2>1, <1>2, Zenon DEF ClaimInv
  <2> QED  BY <1>2, <2>4, <2>11, <2>12, Zenon
<1> QED  BY <1>3, <1>4

LEMMA CloseSocketKeeps ==
  ASSUME TxInv, CloseSocket
  PROVE  TxInv'
<1> USE DEF TxInv
<1>1. PICK result \in CommandResults :
        /\ txOpen' = (txOpen /\ ~Executed(result))
        /\ pending' = IF Executed(result) THEN <<>> ELSE pending
        /\ unclaimed' = (sendBit \/ tx.pc # "idle" \/ ~Executed(result))
  BY Zenon DEF CloseSocket
<1>2. UNCHANGED <<txMem, txWr, txRd, sendBit, unsent, onWire, mangled, early, frames, tx>>
  BY DEF CloseSocket, Elsewhere
<1>t. /\ sendBit \in BOOLEAN /\ unclaimed \in BOOLEAN /\ txOpen \in BOOLEAN
  BY Zenon DEF TxType
<1>3. CASE ~Executed(result)
  <2>1. txOpen' = txOpen /\ pending' = pending /\ unclaimed' = TRUE
    BY <1>1, <1>3, <1>t, Zenon
  <2>2. TRUE \in BOOLEAN
    OBVIOUS
  <2> QED  BY <2>1, <2>2, <1>2, <1>t, BesideKeeps, Zenon
<1>4. CASE Executed(result)
  <2>1. txOpen' = FALSE /\ pending' = <<>>
    BY <1>1, <1>4, Zenon
  <2>2. unclaimed' \in BOOLEAN /\ FALSE \in BOOLEAN
    BY <1>1, Zenon
  <2>3. <<>> \in Seq(Nat)
    OBVIOUS
  <2>4. TxType'
    BY <1>2, <2>1, <2>2, <2>3, Zenon DEF TxType
  <2>5. Newest' = Newest
    BY <1>2 DEF Newest
  <2>6. RingInv'
    <3>1. unsent = FALSE => onWire \in Nat /\ onWire <= Newest
      BY Zenon DEF RingInv
    <3>2. FALSE # TRUE
      OBVIOUS
    <3> QED  BY <3>1, <3>2, <2>1, <2>5, <1>2, Zenon DEF RingInv
  <2>7. unclaimed' = FALSE => sendBit = FALSE /\ tx.pc = "idle"
    BY <1>1, <1>t, Zenon
  <2>8. ClaimInv'
    <3>1. tx.pc = "idle" => tx.pc # "poll" /\ tx.pc # "clear"
      OBVIOUS
    <3> QED  BY <3>1, <2>1, <2>7, <1>2, Zenon DEF ClaimInv
  <2> QED  BY <1>2, <2>4, <2>6, <2>8, Zenon
<1> QED  BY <1>3, <1>4

LEMMA TimerKeeps ==
  ASSUME TxInv, TxFlap \/ LinkLost \/ AwaitSent \/ UNCHANGED transmitVars
  PROVE  TxInv'
<1>t. sendBit \in BOOLEAN /\ unclaimed \in BOOLEAN
  BY Zenon DEF TxInv, TxType
<1>1. CASE TxFlap \/ LinkLost \/ UNCHANGED transmitVars
  <2>1. UNCHANGED <<txMem, txWr, txRd, pending, txOpen, onWire, mangled, early,
                    unsent, frames, tx, sendBit, unclaimed>>
    BY <1>1 DEF TxFlap, LinkLost, transmitVars, txChip, txHistory, Elsewhere
  <2> QED  BY <2>1, <1>t, BesideKeeps, Zenon
<1>2. CASE AwaitSent
  <2>1. PICK result \in Results :
          /\ sendBit' = (sendBit /\ result # "ok")
          /\ unclaimed' = (unclaimed \/ result # "ok")
    BY <1>2, Zenon DEF AwaitSent
  <2>2. UNCHANGED <<txMem, txWr, txRd, pending, txOpen, onWire, mangled, early,
                    unsent, frames, tx>>
    BY <1>2 DEF AwaitSent, Elsewhere
  <2>3. /\ sendBit' \in BOOLEAN /\ unclaimed' \in BOOLEAN
        /\ sendBit' = sendBit \/ sendBit' = FALSE
        /\ unclaimed' = unclaimed \/ unclaimed' = TRUE
    BY <2>1, <1>t, Zenon
  <2> QED  BY <2>2, <2>3, BesideKeeps, Zenon
<1> QED  BY <1>1, <1>2

LEMMA TxInvariant == TxSpec => []TxInv
<1>1. TxInit => TxInv
  BY TxStarts
<1>2. TxInv /\ [TxNext]_transmitVars => TxInv'
  BY FinishSendKeeps, TransmitKeeps, CheckFreeKeeps, CopyFrameKeeps,
     MoveWritePointerKeeps, SendKeeps, PollKeeps, OpenSocketKeeps, CloseSocketKeeps,
     TimerKeeps, Zenon DEF TxNext, TransmitTask, StopTask
<1> QED  BY <1>1, <1>2, PTL DEF TxSpec

\* Whatever the size of TX memory and the lengths of the frames, however many sends
\* time out, whatever fails and however often the link flaps: until a SEND command
\* fails to reach the chip, no frame is written over one that is still to be sent,
\* and frames leave as they were passed, each once and in order.
THEOREM WireAlwaysIntact == TxSpec => []WireIntact
<1>1. TxInv => WireIntact
  BY Zenon DEF TxInv, WireIntact
<1> QED  BY <1>1, TxInvariant, PTL

\* In the same generality, ESP_OK is never returned before the frame was sent, unless
\* a SEND was left to the chip.
THEOREM OkAlwaysMeansSent == TxSpec => []OkMeansSent
<1>1. TxInv => OkMeansSent
  BY Zenon DEF TxInv, OkMeansSent
<1> QED  BY <1>1, TxInvariant, PTL


-----------------------------------------------------------------------------
(***************************************************************************)
(* The receive side.  What lies in RX memory is described by positions     *)
(* that do not wrap: at[i - 1] to at[i] is the i-th frame that was not     *)
(* released, id[i] is its number, and RX_RD is the pointer of at[r].       *)
(***************************************************************************)

RxPlaces == {"wait", "status", "clear", "size", "head", "payload", "advance", "recv",
             "drain", "drained", "test"}
RxCall == [pc : RxPlaces, flush : BOOLEAN, offset : Nat, len : Nat, remain : Nat,
           frame : Nat]

RxType ==
  /\ mem \in [0 .. RingSize - 1 -> Nat \X Nat]
  /\ wr \in Nat /\ rd \in Nat /\ taken \in Nat /\ sent \in Nat /\ last \in Nat
  /\ rx \in RxCall
  /\ recvBit \in BOOLEAN /\ simr \in BOOLEAN /\ more \in BOOLEAN
  /\ status \in BOOLEAN /\ interfered \in BOOLEAN /\ torn \in BOOLEAN
  /\ skipped \in BOOLEAN /\ damaged \in BOOLEAN

\* The frame f of n units lies in the memory from the position on.
Stored(mm, from, f, n) ==
  /\ n >= 2 /\ mm[At(from)] = Header(f, n)
  /\ \A k \in 1 .. n - 1 : mm[At(from + k)] = Payload(f)

\* The m frames in the ring, later than the last one delivered and in order.
Layout(mm, start, end, before, top, m, at, id) ==
  /\ m \in Nat /\ at \in [0 .. m -> Nat] /\ id \in [1 .. m -> Nat] /\ before <= top
  /\ at[0] % PtrMod = start /\ at[m] % PtrMod = end
  /\ at[m] - at[0] <= RingSize
  /\ \A i, j \in 0 .. m : i < j => at[i] < at[j]
  /\ \A i \in 1 .. m : /\ Stored(mm, at[i - 1], id[i], at[i] - at[i - 1])
                       /\ before < id[i] /\ id[i] <= top
  /\ \A i, j \in 1 .. m : i < j => id[i] < id[j]

Takes == {"size", "head", "payload", "advance"}

\* The call t takes the frame at the head, behind which the pointer p then stands.
Place(t, again, p, before, top, m, at, id, r) ==
  /\ r \in 0 .. m /\ at[r] % PtrMod = p
  /\ t.pc \in Takes => r = 0
  /\ t.pc = "test" /\ again = TRUE => r = 0
  /\ t.pc \in Takes \ {"size"} => m > 0
  /\ t.pc \in {"payload", "advance"} => t.offset = p /\ t.len = at[1] - at[0]
  /\ t.pc = "advance" /\ t.flush = FALSE => t.frame = id[1]
  /\ t.pc = "recv" /\ t.flush = FALSE =>
       before < t.frame /\ t.frame <= top /\ \A i \in r + 1 .. m : t.frame < id[i]
  /\ t.pc # "drain" /\ t.pc # "drained"

\* Without a failure the frames in the ring are those that are not delivered, and
\* the RX task sees all of them or is told of them.
Calm(t, again, other, up, enabled, miss, before, top, bit, m, at, id, r) ==
  /\ t.flush = FALSE /\ miss = FALSE
  /\ other \notin {"drained", "disable", "close"} /\ (up = TRUE => enabled = TRUE)
  /\ before + m = top /\ \A i \in 1 .. m : id[i] = before + i
  /\ t.pc # "recv" => r = 0
  /\ t.pc = "recv" => r = 1 /\ m > 0 /\ t.frame = before + 1 /\ t.len = at[1] - at[0]
  /\ t.pc \in {"head", "payload", "advance", "recv"} =>
       bit = TRUE \/ t.remain = at[m] - at[0]
  /\ t.pc \in {"wait", "status"} => bit = TRUE \/ m = 0
  /\ t.pc = "test" /\ again = FALSE => bit = TRUE \/ m = 0

RxRing(m, at, id, r) ==
  /\ Layout(mem, taken, wr, last, sent, m, at, id)
  /\ Place(rx, more, rd, last, sent, m, at, id, r)
  /\ interfered = FALSE =>
       Calm(rx, more, timer, status, simr, skipped, last, sent, recvBit, m, at, id, r)

RxRingInv == torn = FALSE => \E m, at, id, r : RxRing(m, at, id, r)

RxInv == RxType /\ RxRingInv /\ damaged = FALSE /\ (interfered = FALSE => torn = FALSE)

LEMMA RxWraps == Wraps(PtrMod, RingSize)
<1>1. /\ PtrMod \in Nat /\ RingSize \in Nat /\ RingSize > 0 /\ PtrMod > RingSize
      /\ PtrMod % RingSize = 0
  BY WiznetRxAssumption
<1> QED  BY <1>1, WrapsIf

LEMMA RxSizes ==
  /\ RingSize \in Nat \ {0} /\ PtrMod \in Nat \ {0} /\ PtrMod > RingSize
  /\ \A n \in Sizes : n \in Nat /\ 2 <= n /\ n <= RingSize
  BY WiznetRxAssumption

LEMMA RxStarts == RxInit => RxInv
<1> SUFFICES ASSUME RxInit PROVE RxInv
  OBVIOUS
<1> USE DEF RxInit
<1>1. RxType
  <2>1. /\ recvBit \in BOOLEAN /\ simr \in BOOLEAN /\ more \in BOOLEAN
        /\ status \in BOOLEAN /\ interfered \in BOOLEAN /\ torn \in BOOLEAN
        /\ skipped \in BOOLEAN /\ damaged \in BOOLEAN
    BY Zenon
  <2>2. mem \in [0 .. RingSize - 1 -> Nat \X Nat]
    <3>1. Payload(0) \in Nat \X Nat
      BY DEF Payload
    <3> QED  BY <3>1, Zenon
  <2>3. rx \in RxCall
    BY DEF RxCall, RxPlaces, Idle
  <2>4. wr \in Nat /\ rd \in Nat /\ taken \in Nat /\ sent \in Nat /\ last \in Nat
    OBVIOUS
  <2> QED  BY <2>1, <2>2, <2>3, <2>4, Zenon DEF RxType
<1>2. RxRing(0, [i \in 0 .. 0 |-> 0], [i \in 1 .. 0 |-> 0], 0)
  <2> DEFINE at == [i \in 0 .. 0 |-> 0]  id == [i \in 1 .. 0 |-> 0]
  <2>1. at \in [0 .. 0 -> Nat] /\ id \in [1 .. 0 -> Nat] /\ at[0] = 0
    OBVIOUS
  <2>2. 0 % PtrMod = 0
    <3>1. 0 \in 0 .. PtrMod - 1
      BY RxSizes
    <3> QED  BY <3>1, RxSizes, Small
  <2> HIDE DEF at, id
  <2>3. Layout(mem, taken, wr, last, sent, 0, at, id)
    BY <2>1, <2>2, RxSizes DEF Layout
  <2>4. rx.pc = "wait" /\ rx.flush = FALSE
    BY DEF Idle
  <2>5. Place(rx, more, rd, last, sent, 0, at, id, 0)
    BY <2>1, <2>2, <2>4 DEF Place, Takes
  <2>6. Calm(rx, more, timer, status, simr, skipped, last, sent, recvBit, 0, at, id, 0)
    <3>1. skipped = FALSE /\ (status = TRUE => simr = TRUE)
      BY Zenon
    <3>2. /\ timer \notin {"drained", "disable", "close"}
          /\ last + 0 = sent /\ \A i \in 1 .. 0 : id[i] = last + i
      OBVIOUS
    <3> QED  BY <2>4, <3>1, <3>2 DEF Calm
  <2> QED  BY <2>3, <2>5, <2>6, Zenon DEF RxRing, at, id
<1>3. RxRingInv
  BY <1>2, Zenon DEF RxRingInv
<1>4. damaged = FALSE /\ torn = FALSE
  BY Zenon
<1> QED  BY <1>1, <1>3, <1>4, Zenon DEF RxInv

-----------------------------------------------------------------------------
(***************************************************************************)
(* The positions of the frames in the ring.                                *)
(***************************************************************************)

LEMMA RxEnds ==
  ASSUME NEW mm, NEW start, NEW end, NEW before, NEW top, NEW m, NEW at, NEW id,
         Layout(mm, start, end, before, top, m, at, id), NEW i \in 0 .. m
  PROVE  /\ m \in Nat /\ at[0] \in Nat /\ at[i] \in Nat /\ at[m] \in Nat
         /\ at[0] <= at[i] /\ at[i] <= at[m] /\ (i > 0 => at[0] < at[i])
<1>1. m \in Nat /\ 0 \in 0 .. m /\ m \in 0 .. m
  BY DEF Layout
<1>2. at[0] \in Nat /\ at[i] \in Nat /\ at[m] \in Nat
  BY <1>1 DEF Layout
<1>3. i > 0 => at[0] < at[i]
  <2>1. 0 < i => at[0] < at[i]
    BY <1>1 DEF Layout
  <2> QED  BY <2>1, <1>1
<1>4. i < m => at[i] < at[m]
  BY <1>1 DEF Layout
<1>5. i = 0 \/ i > 0
  BY <1>1
<1>6. i = m \/ i < m
  BY <1>1
<1>7. at[0] <= at[i]
  BY <1>2, <1>3, <1>5
<1>8. at[i] <= at[m]
  BY <1>2, <1>4, <1>6
<1> QED  BY <1>1, <1>2, <1>3, <1>7, <1>8

LEMMA ReceivedIs ==
  ASSUME NEW before, NEW top, NEW m, NEW at, NEW id,
         Layout(mem, taken, wr, before, top, m, at, id)
  PROVE  Received = at[m] - at[0] /\ (Received = 0 => m = 0)
<1>1. m \in Nat /\ m \in 0 .. m
  BY DEF Layout
<1>2. /\ at[0] \in Nat /\ at[m] \in Nat /\ at[0] <= at[m] /\ (m > 0 => at[0] < at[m])
  BY <1>1, RxEnds
<1>3. /\ at[0] % PtrMod = taken /\ at[m] % PtrMod = wr /\ at[m] - at[0] <= RingSize
  BY DEF Layout
<1>4. ((at[m] % PtrMod) - (at[0] % PtrMod)) % PtrMod = at[m] - at[0]
  <2> DEFINE a == at[0]  b == at[m]
  <2>1. a \in Nat /\ b \in Nat /\ a <= b /\ b - a <= RingSize
    BY <1>2, <1>3
  <2> HIDE DEF a, b
  <2>2. ((b % PtrMod) - (a % PtrMod)) % PtrMod = b - a
    BY <2>1, RxWraps, DistanceIs
  <2> QED  BY <2>2 DEF a, b
<1>5. Received = at[m] - at[0]
  BY <1>3, <1>4 DEF Received
<1> QED  BY <1>1, <1>2, <1>5

\* RX_RD as of the last RECV command is the first position.
LEMMA AtStart ==
  ASSUME NEW mm, NEW start, NEW end, NEW before, NEW top, NEW m, NEW at, NEW id,
         Layout(mm, start, end, before, top, m, at, id), NEW r \in 0 .. m,
         at[r] % PtrMod = start
  PROVE  r = 0
<1>1. m \in Nat
  BY DEF Layout
<1>2. /\ at[0] \in Nat /\ at[r] \in Nat /\ at[m] \in Nat /\ at[0] <= at[r]
      /\ at[r] <= at[m] /\ (r > 0 => at[0] < at[r])
  BY RxEnds
<1>3. at[0] % PtrMod = start /\ at[m] - at[0] <= RingSize /\ RingSize \in Nat
  BY RxSizes DEF Layout
<1> DEFINE a == at[0]  b == at[r]
<1>4. a \in Nat /\ b \in Nat /\ a <= b /\ b - a <= RingSize
  BY <1>2, <1>3
<1>5. b % PtrMod = a % PtrMod /\ (r > 0 => a < b)
  BY <1>2, <1>3
<1> HIDE DEF a, b
<1>6. ((b % PtrMod) - (a % PtrMod)) % PtrMod = b - a
  BY <1>4, RxWraps, DistanceIs
<1>7. ((a % PtrMod) - (a % PtrMod)) % PtrMod = a - a
  <2>1. a <= a /\ a - a <= RingSize
    BY <1>3, <1>4
  <2> QED  BY <2>1, <1>4, RxWraps, DistanceIs
<1>8. b - a = a - a
  BY <1>5, <1>6, <1>7
<1> QED  BY <1>1, <1>4, <1>5, <1>8

\* What the pointer of the head reads.
LEMMA FirstIs ==
  ASSUME NEW mm, NEW start, NEW end, NEW before, NEW top, NEW m, NEW at, NEW id,
         Layout(mm, start, end, before, top, m, at, id), m > 0
  PROVE  /\ at[1] \in Nat /\ at[0] \in Nat /\ at[1] - at[0] \in Nat
         /\ at[1] - at[0] >= 2 /\ at[1] - at[0] <= RingSize
         /\ id[1] \in Nat /\ before < id[1] /\ id[1] <= top
         /\ mm[At(start)] = Header(id[1], at[1] - at[0])
         /\ \A k \in 1 .. (at[1] - at[0]) - 1 : mm[At(start + k)] = Payload(id[1])
         /\ Plus(start, at[1] - at[0]) = at[1] % PtrMod
<1>1. m \in Nat /\ 1 \in 1 .. m /\ 0 \in 0 .. m /\ 1 \in 0 .. m /\ m \in 0 .. m
  BY DEF Layout
<1>2. /\ at[0] \in Nat /\ at[1] \in Nat /\ at[0] < at[1] /\ at[1] <= at[m]
      /\ at[m] \in Nat
  <2>1. 1 > 0
    OBVIOUS
  <2> QED  BY <1>1, <2>1, RxEnds
<1>3. /\ at[0] % PtrMod = start /\ at[m] - at[0] <= RingSize
      /\ Stored(mm, at[1 - 1], id[1], at[1] - at[1 - 1])
      /\ before < id[1] /\ id[1] <= top /\ id[1] \in Nat
  BY <1>1 DEF Layout
<1> DEFINE a == at[0]  n == at[1] - at[0]
<1>4. a \in Nat /\ n \in Nat /\ n >= 2 /\ n <= RingSize /\ Stored(mm, a, id[1], n)
  <2>1. 1 - 1 = 0
    OBVIOUS
  <2>2. Stored(mm, at[0], id[1], at[1] - at[0])
    BY <1>3, <2>1
  <2>3. at[1] - at[0] >= 2
    BY <2>2 DEF Stored
  <2>4. at[1] - at[0] <= RingSize /\ at[1] - at[0] \in Nat
    BY <1>2, <1>3, RxSizes
  <2> QED  BY <1>2, <2>2, <2>3, <2>4
<1>5. a % PtrMod = start /\ at[1] = a + n
  BY <1>2, <1>3
<1> HIDE DEF a, n
<1>6. \A k \in Nat : (start + k) % PtrMod = (a + k) % PtrMod
                     /\ (start + k) % RingSize = (a + k) % RingSize
  <2>1. ASSUME NEW k \in Nat
        PROVE  /\ ((a % PtrMod) + k) % PtrMod = (a + k) % PtrMod
               /\ ((a % PtrMod) + k) % RingSize = (a + k) % RingSize
    BY <1>4, RxWraps, WrapsAgain, ZenonT(30)
  <2> QED  BY <2>1, <1>5
<1>7. mm[At(start)] = Header(id[1], n)
  <2>1. (start + 0) % RingSize = (a + 0) % RingSize
    BY <1>6
  <2>2. a + 0 = a
    BY <1>4
  <2>3. start + 0 = start
    <3>1. a % PtrMod \in Nat
      BY <1>4, RxSizes, RxWraps, WrappedIs
    <3> QED  BY <3>1, <1>5
  <2>4. start % RingSize = a % RingSize
    BY <2>1, <2>2, <2>3
  <2>5. mm[a % RingSize] = Header(id[1], n)
    BY <1>4 DEF Stored, At
  <2> QED  BY <2>4, <2>5 DEF At
<1>8. \A k \in 1 .. n - 1 : mm[At(start + k)] = Payload(id[1])
  <2> SUFFICES ASSUME NEW k \in 1 .. n - 1
               PROVE  mm[(start + k) % RingSize] = Payload(id[1])
    BY DEF At
  <2>1. k \in Nat
    BY <1>4
  <2>2. mm[(a + k) % RingSize] = Payload(id[1])
    BY <1>4 DEF Stored, At
  <2> QED  BY <2>1, <2>2, <1>6
<1>9. Plus(start, n) = at[1] % PtrMod
  BY <1>4, <1>5, <1>6 DEF Plus
<1> QED  BY <1>2, <1>3, <1>4, <1>7, <1>8, <1>9 DEF n

\* The first r frames are released; the last one delivered is now f.
LEMMA Dropped ==
  ASSUME NEW m, NEW at, NEW id,
         Layout(mem, taken, wr, last, sent, m, at, id), NEW r \in 0 .. m,
         NEW f, f <= sent, \A i \in r + 1 .. m : f < id[i]
  PROVE  \E at2, id2 :
           /\ Layout(mem, at[r] % PtrMod, wr, f, sent, m - r, at2, id2)
           /\ \A i \in 0 .. m - r : at2[i] = at[i + r]
           /\ \A i \in 1 .. m - r : id2[i] = id[i + r]
<1> DEFINE n == m - r
           at2 == [i \in 0 .. n |-> at[i + r]]
           id2 == [i \in 1 .. n |-> id[i + r]]
<1>1. m \in Nat /\ r \in Nat /\ n \in Nat /\ n + r = m /\ 0 + r = r
  BY DEF Layout
<1>2. /\ at \in [0 .. m -> Nat] /\ id \in [1 .. m -> Nat]
      /\ at[m] % PtrMod = wr /\ at[m] - at[0] <= RingSize
      /\ \A i, j \in 0 .. m : i < j => at[i] < at[j]
      /\ \A i \in 1 .. m : /\ Stored(mem, at[i - 1], id[i], at[i] - at[i - 1])
                           /\ last < id[i] /\ id[i] <= sent
      /\ \A i, j \in 1 .. m : i < j => id[i] < id[j]
  BY DEF Layout
<1>3. /\ \A i \in 0 .. n : i + r \in 0 .. m
      /\ \A i \in 1 .. n : i + r \in 1 .. m /\ i + r \in r + 1 .. m
  BY <1>1
<1> HIDE DEF n
<1>4. at2 \in [0 .. n -> Nat] /\ \A i \in 0 .. n : at2[i] = at[i + r]
  BY <1>2, <1>3
<1>5. id2 \in [1 .. n -> Nat] /\ \A i \in 1 .. n : id2[i] = id[i + r]
  BY <1>2, <1>3
<1> HIDE DEF at2, id2
<1>6. 0 \in 0 .. n /\ n \in 0 .. n
  BY <1>1
<1>7. at2[0] = at[r] /\ at2[n] = at[m]
  BY <1>1, <1>4, <1>6
<1>8. at2[n] - at2[0] <= RingSize
  <2>1. at[0] \in Nat /\ at[r] \in Nat /\ at[m] \in Nat /\ at[0] <= at[r]
    BY RxEnds
  <2>2. at[m] - at[r] <= RingSize
    BY <2>1, <1>2, RxSizes
  <2> QED  BY <2>2, <1>7
<1>9. \A i, j \in 0 .. n : i < j => at2[i] < at2[j]
  <2> SUFFICES ASSUME NEW i \in 0 .. n, NEW j \in 0 .. n, i < j PROVE at2[i] < at2[j]
    OBVIOUS
  <2>1. i + r < j + r
    BY <1>1
  <2> QED  BY <2>1, <1>2, <1>3, <1>4
<1>10. ASSUME NEW i \in 1 .. n
       PROVE  /\ Stored(mem, at2[i - 1], id2[i], at2[i] - at2[i - 1])
              /\ f < id2[i] /\ id2[i] <= sent
  <2>1. i + r \in 1 .. m /\ i + r \in r + 1 .. m
    BY <1>3
  <2>2. i \in 0 .. n /\ i - 1 \in 0 .. n /\ (i - 1) + r = (i + r) - 1
    BY <1>1
  <2>3. at2[i] = at[i + r] /\ at2[i - 1] = at[(i + r) - 1] /\ id2[i] = id[i + r]
    BY <2>2, <1>4, <1>5
  <2>4. /\ Stored(mem, at[(i + r) - 1], id[i + r], at[i + r] - at[(i + r) - 1])
        /\ id[i + r] <= sent
    BY <2>1, <1>2
  <2>5. f < id[i + r]
    BY <2>1
  <2> QED  BY <2>3, <2>4, <2>5
<1>11. \A i, j \in 1 .. n : i < j => id2[i] < id2[j]
  <2> SUFFICES ASSUME NEW i \in 1 .. n, NEW j \in 1 .. n, i < j PROVE id2[i] < id2[j]
    OBVIOUS
  <2>1. i + r < j + r
    BY <1>1
  <2> QED  BY <2>1, <1>2, <1>3, <1>5
<1>12. Layout(mem, at[r] % PtrMod, wr, f, sent, n, at2, id2)
  <2>1. at2[0] % PtrMod = at[r] % PtrMod /\ at2[n] % PtrMod = wr
    BY <1>2, <1>7
  <2> QED  BY <2>1, <1>1, <1>4, <1>5, <1>8, <1>9, <1>10, <1>11, Zenon DEF Layout
<1> QED  BY <1>4, <1>5, <1>12, ZenonT(40) DEF n

\* A write to units that hold no frame is not noticed.
LEMMA OtherRxMemory ==
  ASSUME NEW mm2, NEW m, NEW at, NEW id,
         Layout(mem, taken, wr, last, sent, m, at, id),
         \A a \in Nat : at[0] <= a /\ a < at[m] => mm2[At(a)] = mem[At(a)]
  PROVE  Layout(mm2, taken, wr, last, sent, m, at, id)
<1>1. ASSUME NEW i \in 1 .. m
      PROVE  Stored(mm2, at[i - 1], id[i], at[i] - at[i - 1])
  <2>1. Stored(mem, at[i - 1], id[i], at[i] - at[i - 1])
    BY DEF Layout
  <2>2. m \in Nat /\ i - 1 \in 0 .. m /\ i \in 0 .. m
    BY DEF Layout
  <2>3. at[i - 1] \in Nat /\ at[0] \in Nat /\ at[0] <= at[i - 1]
    BY <2>2, RxEnds
  <2>4. at[i] \in Nat /\ at[m] \in Nat /\ at[i] <= at[m]
    BY <2>2, RxEnds
  <2> DEFINE n == at[i] - at[i - 1]
  <2>5. n >= 2 /\ n \in Int /\ at[i - 1] + n <= at[m]
    <3>1. n >= 2
      BY <2>1 DEF Stored
    <3> QED  BY <3>1, <2>3, <2>4
  <2> HIDE DEF n
  <2>6. Stored(mem, at[i - 1], id[i], n)
    BY <2>1 DEF n
  <2>7. mm2[At(at[i - 1])] = Header(id[i], n)
    <3>1. at[i - 1] < at[m]
      BY <2>3, <2>4, <2>5
    <3>2. mm2[At(at[i - 1])] = mem[At(at[i - 1])]
      BY <3>1, <2>3
    <3> QED  BY <3>2, <2>6 DEF Stored
  <2>8. ASSUME NEW k \in 1 .. n - 1
        PROVE  mm2[At(at[i - 1] + k)] = Payload(id[i])
    <3> DEFINE a == at[i - 1] + k
    <3>1. a \in Nat /\ at[0] <= a /\ a < at[m]
      BY <2>3, <2>4, <2>5
    <3> HIDE DEF a
    <3>2. mm2[At(a)] = mem[At(a)]
      BY <3>1
    <3>3. mem[At(at[i - 1] + k)] = Payload(id[i])
      BY <2>6 DEF Stored
    <3> QED  BY <3>2, <3>3 DEF a
  <2>9. Stored(mm2, at[i - 1], id[i], n)
    BY <2>5, <2>7, <2>8, Zenon DEF Stored
  <2> QED  BY <2>9 DEF n
<1> QED  BY <1>1, Zenon DEF Layout

\* A frame more.
LEMMA Appended ==
  ASSUME NEW mm, NEW m, NEW at, NEW id, last \in Nat, sent \in Nat,
         Layout(mm, taken, wr, last, sent, m, at, id), NEW n \in Nat,
         (at[m] - at[0]) + n <= RingSize, Stored(mm, at[m], sent + 1, n)
  PROVE  \E at2, id2 :
           /\ Layout(mm, taken, Plus(wr, n), last, sent + 1, m + 1, at2, id2)
           /\ \A i \in 0 .. m : at2[i] = at[i]
           /\ \A i \in 1 .. m : id2[i] = id[i]
           /\ id2[m + 1] = sent + 1
<1> DEFINE stop == at[m] + n
           at2 == [i \in 0 .. m + 1 |-> IF i = m + 1 THEN stop ELSE at[i]]
           id2 == [i \in 1 .. m + 1 |-> IF i = m + 1 THEN sent + 1 ELSE id[i]]
<1>1. /\ m \in Nat /\ at \in [0 .. m -> Nat] /\ id \in [1 .. m -> Nat]
      /\ at[0] % PtrMod = taken /\ at[m] % PtrMod = wr /\ last <= sent
      /\ \A i, j \in 0 .. m : i < j => at[i] < at[j]
      /\ \A i \in 1 .. m : /\ Stored(mm, at[i - 1], id[i], at[i] - at[i - 1])
                           /\ last < id[i] /\ id[i] <= sent
      /\ \A i, j \in 1 .. m : i < j => id[i] < id[j]
  BY DEF Layout
<1>2. n >= 2 /\ RingSize \in Nat
  BY RxSizes DEF Stored
<1>3. at[m] \in Nat /\ at[0] \in Nat /\ stop \in Nat /\ at[m] < stop /\ stop - at[m] = n
  <2>1. 0 \in 0 .. m /\ m \in 0 .. m
    BY <1>1
  <2>2. at[m] \in Nat /\ at[0] \in Nat
    BY <2>1, <1>1
  <2> QED  BY <2>2, <1>2
<1>4. stop % PtrMod = Plus(wr, n)
  <2> DEFINE a == at[m]
  <2>1. a \in Nat /\ a % PtrMod = wr
    BY <1>1, <1>3
  <2> HIDE DEF a
  <2>2. ((a % PtrMod) + n) % PtrMod = (a + n) % PtrMod
    BY <2>1, RxWraps, WrapsAgain
  <2> QED  BY <2>1, <2>2 DEF Plus, a
<1>5. /\ at2 \in [0 .. m + 1 -> Nat] /\ at2[m + 1] = stop
      /\ \A i \in 0 .. m : at2[i] = at[i]
  <2> HIDE DEF stop
  <2> QED  BY <1>1, <1>3
<1>6. /\ id2 \in [1 .. m + 1 -> Nat] /\ id2[m + 1] = sent + 1
      /\ \A i \in 1 .. m : id2[i] = id[i]
  <2>1. m + 1 \in 1 .. m + 1 /\ sent + 1 \in Nat
    BY <1>1
  <2>2. \A i \in 1 .. m + 1 : i # m + 1 => i \in 1 .. m
    BY <1>1
  <2>3. \A i \in 1 .. m : i \in 1 .. m + 1 /\ i # m + 1
    BY <1>1
  <2> QED  BY <2>1, <2>2, <2>3, <1>1, Zenon
<1> HIDE DEF at2, id2, stop
<1>7. at2[0] = at[0]
  BY <1>1, <1>5
<1>8. \A i, j \in 0 .. m + 1 : i < j => at2[i] < at2[j]
  <2> SUFFICES ASSUME NEW i \in 0 .. m + 1, NEW j \in 0 .. m + 1, i < j
               PROVE  at2[i] < at2[j]
    OBVIOUS
  <2>1. i \in 0 .. m /\ at2[i] = at[i]
    BY <1>1, <1>5
  <2>2. CASE j \in 0 .. m
    BY <2>1, <2>2, <1>1, <1>5
  <2>3. CASE j = m + 1
    <3>1. at[i] <= at[m] /\ at[i] \in Nat
      BY <2>1, RxEnds
    <3> QED  BY <2>1, <2>3, <3>1, <1>3, <1>5
  <2> QED  BY <2>2, <2>3, <1>1
<1>9. at2[m + 1] - at2[0] <= RingSize
  BY <1>2, <1>3, <1>5, <1>7
<1>10. ASSUME NEW i \in 1 .. m + 1
       PROVE  /\ Stored(mm, at2[i - 1], id2[i], at2[i] - at2[i - 1])
              /\ last < id2[i] /\ id2[i] <= sent + 1
  <2>1. CASE i \in 1 .. m
    <3>1. i - 1 \in 0 .. m /\ i \in 0 .. m
      BY <2>1, <1>1
    <3>2. at2[i] = at[i] /\ at2[i - 1] = at[i - 1] /\ id2[i] = id[i]
      BY <2>1, <3>1, <1>5, <1>6
    <3>3. id[i] <= sent /\ id[i] \in Nat /\ last < id[i]
      BY <2>1, <1>1
    <3> QED  BY <2>1, <3>2, <3>3, <1>1
  <2>2. CASE i = m + 1
    <3>1. i - 1 = m /\ m \in 0 .. m
      BY <2>2, <1>1
    <3>2. at2[i] = stop /\ at2[i - 1] = at[m] /\ id2[i] = sent + 1
      BY <2>2, <3>1, <1>5, <1>6
    <3>3. last < sent + 1 /\ sent + 1 <= sent + 1
      BY <1>1
    <3> QED  BY <3>2, <3>3, <1>3
  <2> QED  BY <2>1, <2>2, <1>1
<1>11. \A i, j \in 1 .. m + 1 : i < j => id2[i] < id2[j]
  <2> SUFFICES ASSUME NEW i \in 1 .. m + 1, NEW j \in 1 .. m + 1, i < j
               PROVE  id2[i] < id2[j]
    OBVIOUS
  <2>1. i \in 1 .. m
    BY <1>1
  <2>2. CASE j \in 1 .. m
    BY <2>1, <2>2, <1>1, <1>6
  <2>3. CASE j = m + 1
    <3>1. id[i] <= sent /\ id[i] \in Nat
      BY <2>1, <1>1
    <3> QED  BY <2>1, <2>3, <3>1, <1>6
  <2> QED  BY <2>2, <2>3, <1>1
<1>12. Layout(mm, taken, Plus(wr, n), last, sent + 1, m + 1, at2, id2)
  <2>1. m + 1 \in Nat /\ at2[0] % PtrMod = taken /\ at2[m + 1] % PtrMod = Plus(wr, n)
        /\ last <= sent + 1
    BY <1>1, <1>4, <1>5, <1>7
  <2> QED  BY <2>1, <1>5, <1>6, <1>8, <1>9, <1>10, <1>11, Zenon DEF Layout
<1> QED  BY <1>5, <1>6, <1>12, Zenon

-----------------------------------------------------------------------------
(***************************************************************************)
(* Types.                                                                  *)
(***************************************************************************)

LEMMA CallFields ==
  ASSUME NEW t \in RxCall
  PROVE  /\ t.pc \in RxPlaces /\ t.flush \in BOOLEAN
         /\ t.offset \in Nat /\ t.len \in Nat /\ t.remain \in Nat /\ t.frame \in Nat
  BY Zenon DEF RxCall

LEMMA OverIs ==
  /\ Over \in RxCall /\ Over.pc = "test" /\ Over.flush = FALSE
  /\ Idle \in RxCall /\ Idle.pc = "wait" /\ Idle.flush = FALSE
  BY DEF Over, Idle, RxCall, RxPlaces

LEMMA ReceivedType == RxType => Received \in Nat
<1> SUFFICES ASSUME RxType PROVE Received \in Nat
  OBVIOUS
<1>1. wr - taken \in Int /\ PtrMod \in Nat \ {0}
  BY RxSizes DEF RxType
<1>2. (wr - taken) % PtrMod \in 0 .. PtrMod - 1
  BY <1>1, Parts
<1> QED  BY <1>1, <1>2 DEF Received

LEMMA PlusType ==
  ASSUME NEW p \in Nat, NEW n \in Nat
  PROVE  Plus(p, n) \in Nat
<1>1. p + n \in Int /\ PtrMod \in Nat \ {0}
  BY RxSizes
<1>2. (p + n) % PtrMod \in 0 .. PtrMod - 1
  BY <1>1, Parts
<1> QED  BY <1>1, <1>2 DEF Plus

LEMMA AtType ==
  ASSUME NEW p \in Int
  PROVE  At(p) \in 0 .. RingSize - 1
  BY RxSizes, Parts DEF At

LEMMA LengthsType ==
  ASSUME RxType, NEW p \in Int
  PROVE  Lengths(mem[At(p)]) \subseteq Nat
<1>1. mem[At(p)] \in Nat \X Nat
  BY AtType DEF RxType
<1>2. mem[At(p)][2] \in Nat
  BY <1>1
<1>3. {0} \cup Sizes \subseteq Nat
  BY RxSizes
<1> QED  BY <1>2, <1>3 DEF Lengths

LEMMA FrameAtType ==
  ASSUME RxType, NEW p \in Int, NEW n
  PROVE  FrameAt(p, n) \in Nat
<1>1. mem[At(p)] \in Nat \X Nat
  BY AtType DEF RxType
<1>2. mem[At(p)][1] \in Nat
  BY <1>1
<1> QED  BY <1>2 DEF FrameAt

\* The call of the RX task, whatever the access returns.
LEMMA RxCallKeeps ==
  ASSUME RxType, RxTask
  PROVE  rx' \in RxCall
<1>1. /\ rx.pc \in RxPlaces /\ rx.flush \in BOOLEAN /\ rx \in RxCall
      /\ rx.offset \in Nat /\ rx.len \in Nat /\ rx.remain \in Nat /\ rx.frame \in Nat
  BY CallFields, Zenon DEF RxType
<1>2. \A p \in RxPlaces : [rx EXCEPT !.pc = p] \in RxCall
  BY <1>1, Zenon DEF RxCall
<1>3. {"wait", "status", "clear", "size", "recv", "drained"} \subseteq RxPlaces
  BY DEF RxPlaces
<1>4. CASE TakeNotification
  BY <1>2, <1>3, <1>4, Zenon DEF TakeNotification
<1>5. CASE ReadStatus
  <2>1. rx' = [rx EXCEPT !.pc = "clear"] \/ rx' = [rx EXCEPT !.pc = "wait"]
    BY <1>5, Zenon DEF ReadStatus
  <2>2. "clear" \in RxPlaces /\ "wait" \in RxPlaces
    BY DEF RxPlaces
  <2> QED  BY <2>1, <2>2, <1>2, Zenon
<1>6. CASE ClearStatus
  <2>1. rx' = [rx EXCEPT !.pc = "size"] /\ "size" \in RxPlaces
    BY <1>6 DEF ClearStatus, RxPlaces
  <2> QED  BY <2>1, <1>2, Zenon
<1>7. CASE ReadSize
  <2>1. rx' = Over \/ rx' = [rx EXCEPT !.pc = "head", !.remain = Received]
    BY <1>7, Zenon DEF ReadSize
  <2>2. "head" \in RxPlaces /\ Received \in Nat
    BY ReceivedType DEF RxPlaces
  <2>3. [rx EXCEPT !.pc = "head", !.remain = Received] \in RxCall
    BY <1>1, <2>2, Zenon DEF RxCall
  <2> QED  BY <2>1, <2>3, OverIs
<1>8. CASE ReadHead
  <2>1. \/ rx' = Over \/ rx' = [rx EXCEPT !.pc = "size", !.flush = TRUE]
        \/ \E n \in Lengths(mem[At(rd)]), p \in {"advance", "drain", "payload"} :
             rx' = [rx EXCEPT !.pc = p, !.offset = rd, !.len = n]
    BY <1>8, Zenon DEF ReadHead
  <2>2. ASSUME NEW n \in Nat, NEW p \in {"advance", "drain", "payload"},
               rx' = [rx EXCEPT !.pc = p, !.offset = rd, !.len = n]
        PROVE  rx' \in RxCall
    <3>1. p \in RxPlaces /\ rd \in Nat
      BY <2>2 DEF RxPlaces, RxType
    <3> QED  BY <1>1, <2>2, <3>1, Zenon DEF RxCall
  <2>3. Lengths(mem[At(rd)]) \subseteq Nat
    <3>1. rd \in Int
      BY DEF RxType
    <3> QED  BY <3>1, LengthsType
  <2>4. [rx EXCEPT !.pc = "size", !.flush = TRUE] \in RxCall
    <3>1. "size" \in RxPlaces /\ TRUE \in BOOLEAN
      BY DEF RxPlaces
    <3> QED  BY <1>1, <3>1, Zenon DEF RxCall
  <2> QED  BY <2>1, <2>2, <2>3, <2>4, OverIs, Zenon
<1>9. CASE ReadPayload
  <2>1. \/ rx' = Over
        \/ rx' = [rx EXCEPT !.pc = "advance", !.frame = FrameAt(rx.offset, rx.len)]
    BY <1>9, Zenon DEF ReadPayload
  <2>2. "advance" \in RxPlaces /\ FrameAt(rx.offset, rx.len) \in Nat
    <3>1. rx.offset \in Int
      BY <1>1
    <3> QED  BY <3>1, FrameAtType DEF RxPlaces
  <2>3. [rx EXCEPT !.pc = "advance", !.frame = FrameAt(rx.offset, rx.len)] \in RxCall
    BY <1>1, <2>2, Zenon DEF RxCall
  <2> QED  BY <2>1, <2>3, OverIs
<1>10. CASE Advance
  <2>1. rx' = Over \/ rx' = [rx EXCEPT !.pc = "recv"]
    BY <1>10, Zenon DEF Advance
  <2> QED  BY <2>1, <1>2, <1>3, OverIs, Zenon
<1>11. CASE Release \/ DrainRelease
  BY <1>11, OverIs DEF Release, DrainRelease
<1>12. CASE DrainPointer
  <2>1. rx' = Over \/ rx' = [rx EXCEPT !.pc = "drained"]
    BY <1>12, Zenon DEF DrainPointer
  <2> QED  BY <2>1, <1>2, <1>3, OverIs, Zenon
<1>13. CASE Test
  <2>1. \/ rx' = [Idle EXCEPT !.pc = "size"]
        \/ rx' = [Idle EXCEPT !.pc = "wait"]
    BY <1>13, Zenon DEF Test
  <2>2. "size" \in RxPlaces /\ "wait" \in RxPlaces
    BY DEF RxPlaces
  <2> QED  BY <2>1, <2>2, OverIs, Zenon DEF RxCall
<1> QED  BY <1>4, <1>5, <1>6, <1>7, <1>8, <1>9, <1>10, <1>11, <1>12, <1>13 DEF RxTask

LEMMA RxTaskTypes ==
  ASSUME RxType, RxTask
  PROVE  /\ UNCHANGED <<mem, wr, simr, status, sent, timer>>
         /\ rd' \in {rd, wr} \/ rd' = Plus(rx.offset, rx.len)
         /\ taken' = taken \/ taken' = rd
         /\ last' \in {last, 0, rx.frame}
         /\ recvBit' \in BOOLEAN /\ more' \in BOOLEAN /\ interfered' \in BOOLEAN
         /\ torn' \in BOOLEAN /\ damaged' \in BOOLEAN /\ skipped' \in BOOLEAN
<1>1. /\ recvBit \in BOOLEAN /\ more \in BOOLEAN /\ interfered \in BOOLEAN
      /\ torn \in BOOLEAN /\ damaged \in BOOLEAN /\ skipped \in BOOLEAN
  BY Zenon DEF RxType
<1>2. CASE TakeNotification
  BY <1>1, <1>2, Zenon DEF TakeNotification, chipVars, linkVars, history, delivered
<1>3. CASE ReadStatus
  BY <1>1, <1>3, Zenon DEF ReadStatus, chipVars, linkVars, history, delivered, Disturb, Interfere, Spend
<1>4. CASE ClearStatus
  BY <1>1, <1>4, Zenon DEF ClearStatus, chipVars, linkVars, history, delivered, Disturb, Interfere, Spend
<1>5. CASE ReadSize
  BY <1>1, <1>5, Zenon DEF ReadSize, chipVars, linkVars, history, delivered, Disturb, Interfere, Spend
<1>6. CASE ReadHead
  BY <1>1, <1>6, Zenon DEF ReadHead, chipVars, linkVars, history, delivered, Disturb, Interfere, Spend
<1>7. CASE ReadPayload
  BY <1>1, <1>7, Zenon DEF ReadPayload, chipVars, linkVars, history, delivered, Disturb, Interfere, Spend
<1>8. CASE Advance
  BY <1>1, <1>8, Zenon DEF Advance, chipVars, linkVars, history, delivered, Disturb, Interfere, Spend
<1>9. CASE Release
  BY <1>1, <1>9, Zenon DEF Release, chipVars, linkVars, history, delivered, Disturb, Interfere, Spend, Input
<1>10. CASE DrainPointer
  BY <1>1, <1>10, Zenon DEF DrainPointer, chipVars, linkVars, history, delivered, Disturb, Interfere, Spend
<1>11. CASE DrainRelease
  BY <1>1, <1>11, Zenon DEF DrainRelease, chipVars, linkVars, history, delivered, Disturb, Interfere, Spend
<1>12. CASE Test
  BY <1>1, <1>12, Zenon DEF Test, chipVars, linkVars, history, delivered
<1> QED  BY <1>2, <1>3, <1>4, <1>5, <1>6, <1>7, <1>8, <1>9, <1>10, <1>11, <1>12, Zenon DEF RxTask

LEMMA TimerTypes ==
  ASSUME RxType, TimerTask
  PROVE  /\ UNCHANGED <<mem, wr, sent, last, damaged, skipped, recvBit, rx>>
         /\ rd' = rd \/ rd' = wr
         /\ taken' = taken \/ taken' = rd
         /\ more' \in BOOLEAN /\ simr' \in BOOLEAN /\ status' \in BOOLEAN
         /\ interfered' \in BOOLEAN /\ torn' \in BOOLEAN
<1>1. /\ more \in BOOLEAN /\ simr \in BOOLEAN /\ status \in BOOLEAN
      /\ interfered \in BOOLEAN /\ torn \in BOOLEAN
  BY Zenon DEF RxType
<1>2. CASE CheckLink
  BY <1>1, <1>2, Zenon DEF CheckLink, chipVars, history, rxVars, delivered, Interfere, Spend
<1>3. CASE Open
  BY <1>1, <1>3, Zenon DEF Open, chipVars, history, rxVars, delivered, Interfere, Spend
<1>4. CASE Enable
  BY <1>1, <1>4, Zenon DEF Enable, chipVars, history, rxVars, delivered, Interfere, Spend
<1>5. CASE AwaitSend
  BY <1>1, <1>5, Zenon DEF AwaitSend, chipVars, history, rxVars, delivered, Interfere, Spend
<1>6. CASE StopDrain
  BY <1>1, <1>6, Zenon DEF StopDrain, chipVars, history, rxVars, delivered, Interfere, Spend
<1>7. CASE StopRelease
  BY <1>1, <1>7, Zenon DEF StopRelease, chipVars, history, rxVars, delivered, Interfere, Spend
<1>8. CASE Disable
  BY <1>1, <1>8, Zenon DEF Disable, chipVars, history, rxVars, delivered, Interfere, Spend
<1>9. CASE Close
  BY <1>1, <1>9, Zenon DEF Close, chipVars, history, rxVars, delivered, Interfere, Spend
<1> QED  BY <1>2, <1>3, <1>4, <1>5, <1>6, <1>7, <1>8, <1>9, Zenon DEF TimerTask

LEMMA RxTypeKeeps ==
  ASSUME RxType, [RxNext]_receiverVars
  PROVE  RxType'
<1> USE DEF RxType
<1>1. CASE UNCHANGED receiverVars \/ Flap
  <2>1. UNCHANGED <<mem, wr, rd, taken, sent, last, rx, recvBit, simr, more, status,
                    interfered, torn, skipped, damaged>>
    BY <1>1, Zenon DEF receiverVars, Flap, chipVars, linkVars, history, delivered
  <2> QED  BY <2>1, Zenon
<1>2. CASE Arrive
  <2>1. PICK n \in Sizes :
          /\ mem' = [p \in DOMAIN mem |->
                       LET k == (p - wr) % RingSize
                       IN  IF k = 0 THEN Header(sent + 1, n)
                           ELSE IF k < n THEN Payload(sent + 1) ELSE mem[p]]
          /\ wr' = Plus(wr, n)
    BY <1>2, Zenon DEF Arrive
  <2>2. /\ UNCHANGED <<rd, taken, simr, rx, more, status, interfered, torn, last, skipped,
                       damaged>>
        /\ sent' = sent + 1 /\ recvBit' = TRUE
    BY <1>2, Zenon DEF Arrive, linkVars, delivered
  <2>3. n \in Nat
    BY RxSizes
  <2>4. wr' \in Nat
    BY <2>1, <2>3, PlusType
  <2>5. Header(sent + 1, n) \in Nat \X Nat /\ Payload(sent + 1) \in Nat \X Nat
    BY <2>3 DEF Header, Payload
  <2>6. DOMAIN mem = 0 .. RingSize - 1 /\ \A p \in 0 .. RingSize - 1 : mem[p] \in Nat \X Nat
    BY Zenon
  <2>7. mem' \in [0 .. RingSize - 1 -> Nat \X Nat]
    BY <2>1, <2>5, <2>6, Zenon
  <2>8. sent' \in Nat
    BY <2>2
  <2> QED  BY <2>2, <2>4, <2>7, <2>8, Zenon
<1>3. CASE RxTask
  <2>1. /\ UNCHANGED <<mem, wr, simr, status, sent, timer>>
        /\ rd' \in {rd, wr} \/ rd' = Plus(rx.offset, rx.len)
        /\ taken' = taken \/ taken' = rd
        /\ last' \in {last, 0, rx.frame}
        /\ recvBit' \in BOOLEAN /\ more' \in BOOLEAN /\ interfered' \in BOOLEAN
        /\ torn' \in BOOLEAN /\ damaged' \in BOOLEAN /\ skipped' \in BOOLEAN
    BY <1>3, RxTaskTypes
  <2>2. rx' \in RxCall
    BY <1>3, RxCallKeeps
  <2>3. rx.offset \in Nat /\ rx.len \in Nat /\ rx.frame \in Nat
    BY CallFields
  <2>4. rd' \in Nat /\ taken' \in Nat /\ last' \in Nat
    <3>1. Plus(rx.offset, rx.len) \in Nat
      BY <2>3, PlusType
    <3> QED  BY <2>1, <2>3, <3>1
  <2> QED  BY <2>1, <2>2, <2>4, Zenon
<1>4. CASE TimerTask
  BY <1>4, TimerTypes, Zenon
<1> QED  BY <1>1, <1>2, <1>3, <1>4, Zenon DEF RxNext

-----------------------------------------------------------------------------
(***************************************************************************)
(* The RX task takes a frame.                                              *)
(***************************************************************************)

\* A step that leaves the frames in the ring as they are.
LEMMA RxRests ==
  ASSUME NEW m, NEW at, NEW id, NEW r, NEW r2, RxRing(m, at, id, r),
         UNCHANGED <<mem, taken, wr, last, sent>>,
         Place(rx', more', rd', last, sent, m, at, id, r2),
         interfered' = FALSE =>
           Calm(rx', more', timer', status', simr', skipped', last, sent, recvBit',
                m, at, id, r2)
  PROVE  RxRingInv'
<1>1. Layout(mem', taken', wr', last', sent', m, at, id)
  BY Zenon DEF RxRing
<1>2. RxRing(m, at, id, r2)'
  BY <1>1, Zenon DEF RxRing
<1> QED  BY <1>2, Zenon DEF RxRingInv

LEMMA NoticeKeeps ==
  ASSUME RxInv, TakeNotification \/ ReadStatus \/ ClearStatus \/ Test, torn' = FALSE
  PROVE  RxRingInv' /\ damaged' = FALSE
<1> USE DEF RxInv
<1>0. /\ torn = FALSE
      /\ UNCHANGED <<mem, taken, wr, last, sent, rd, timer, status, simr, skipped, more,
                     damaged>>
      /\ interfered' = FALSE => interfered = FALSE
  <2>1. torn \in BOOLEAN /\ interfered \in BOOLEAN
    BY Zenon DEF RxType
  <2>2. CASE TakeNotification \/ Test
    BY <2>1, <2>2, Zenon DEF TakeNotification, Test, chipVars, linkVars, history, delivered
  <2>3. CASE ReadStatus
    BY <2>1, <2>3, Zenon DEF ReadStatus, Interfere, Spend, chipVars, linkVars, delivered
  <2>4. CASE ClearStatus
    BY <2>1, <2>4, Zenon DEF ClearStatus, Spend, linkVars, delivered
  <2> QED  BY <2>2, <2>3, <2>4
<1>1. PICK m, at, id, r : RxRing(m, at, id, r)
  BY <1>0, Zenon DEF RxRingInv
<1>2. /\ Layout(mem, taken, wr, last, sent, m, at, id)
      /\ Place(rx, more, rd, last, sent, m, at, id, r)
      /\ interfered = FALSE =>
           Calm(rx, more, timer, status, simr, skipped, last, sent, recvBit, m, at, id, r)
  BY <1>1, Zenon DEF RxRing
<1>t. /\ rx.pc \in RxPlaces /\ rx.flush \in BOOLEAN /\ rx \in RxCall
      /\ more \in BOOLEAN /\ recvBit \in BOOLEAN
  BY CallFields, Zenon DEF RxType
<1>3. CASE TakeNotification
  <2>1. /\ rx.pc = "wait" /\ rx' = [rx EXCEPT !.pc = "status"] /\ recvBit' = recvBit
    BY <1>3 DEF TakeNotification, chipVars
  <2>2. rx'.pc = "status" /\ rx'.flush = rx.flush
    BY <2>1, <1>t DEF RxCall
  <2>3. Place(rx', more', rd', last, sent, m, at, id, r)
    BY <1>0, <1>2, <2>1, <2>2 DEF Place, Takes
  <2>4. ASSUME interfered' = FALSE
        PROVE  Calm(rx', more', timer', status', simr', skipped', last, sent, recvBit',
                    m, at, id, r)
    BY <1>0, <1>2, <2>1, <2>2, <2>4 DEF Calm
  <2> QED  BY <1>0, <1>1, <2>3, <2>4, RxRests, Zenon
<1>4. CASE ReadStatus
  <2>1. /\ rx.pc = "status" /\ recvBit' = recvBit
        /\ rx' = [rx EXCEPT !.pc = "clear"] \/ rx' = [rx EXCEPT !.pc = "wait"]
    BY <1>4, Zenon DEF ReadStatus, chipVars
  <2>2. (rx'.pc = "clear" \/ rx'.pc = "wait") /\ rx'.flush = rx.flush
    BY <2>1, <1>t DEF RxCall
  <2>3. Place(rx', more', rd', last, sent, m, at, id, r)
    BY <1>0, <1>2, <2>1, <2>2 DEF Place, Takes
  <2>4. ASSUME interfered' = FALSE
        PROVE  Calm(rx', more', timer', status', simr', skipped', last, sent, recvBit',
                    m, at, id, r)
    BY <1>0, <1>2, <2>1, <2>2, <2>4 DEF Calm
  <2> QED  BY <1>0, <1>1, <2>3, <2>4, RxRests, Zenon
<1>5. CASE ClearStatus
  <2>1. rx.pc = "clear" /\ rx' = [rx EXCEPT !.pc = "size"]
    BY <1>5 DEF ClearStatus
  <2>2. rd = taken
    BY <1>5, <1>0, Zenon DEF ClearStatus
  <2>3. rx'.pc = "size" /\ rx'.flush = rx.flush
    BY <2>1, <1>t DEF RxCall
  <2>4. r \in 0 .. m /\ at[r] % PtrMod = taken
    BY <1>2, <2>2 DEF Place
  <2>5. r = 0
    BY <2>4, <1>2, AtStart
  <2>6. Place(rx', more', rd', last, sent, m, at, id, r)
    BY <1>0, <2>2, <2>3, <2>4, <2>5 DEF Place, Takes
  <2>7. ASSUME interfered' = FALSE
        PROVE  Calm(rx', more', timer', status', simr', skipped', last, sent, recvBit',
                    m, at, id, r)
    BY <1>0, <1>2, <2>1, <2>3, <2>5, <2>7 DEF Calm
  <2> QED  BY <1>0, <1>1, <2>6, <2>7, RxRests, Zenon
<1>6. CASE Test
  <2>1. /\ rx.pc = "test" /\ recvBit' = recvBit
        /\ more = TRUE => rx' = [Idle EXCEPT !.pc = "size"]
        /\ more = FALSE => rx' = [Idle EXCEPT !.pc = "wait"]
    BY <1>6, Zenon DEF Test, chipVars
  <2>2. /\ more = TRUE => rx'.pc = "size" /\ rx'.flush = FALSE
        /\ more = FALSE => rx'.pc = "wait" /\ rx'.flush = FALSE
    BY <2>1, OverIs DEF RxCall
  <2>3. more = TRUE \/ more = FALSE
    BY <1>t, Zenon
  <2>4. Place(rx', more', rd', last, sent, m, at, id, r)
    BY <1>0, <1>2, <2>1, <2>2, <2>3 DEF Place, Takes
  <2>5. ASSUME interfered' = FALSE
        PROVE  Calm(rx', more', timer', status', simr', skipped', last, sent, recvBit',
                    m, at, id, r)
    BY <1>0, <1>2, <2>1, <2>2, <2>3, <2>5 DEF Calm
  <2> QED  BY <1>0, <1>1, <2>4, <2>5, RxRests, Zenon
<1> QED  BY <1>0, <1>3, <1>4, <1>5, <1>6

LEMMA ReadSizeKeeps ==
  ASSUME RxInv, ReadSize, torn' = FALSE
  PROVE  RxRingInv' /\ damaged' = FALSE
<1> USE DEF RxInv
<1>0. /\ rx.pc = "size" /\ torn = FALSE
      /\ UNCHANGED <<mem, taken, wr, last, sent, rd, timer, status, simr, skipped, more,
                     recvBit, damaged>>
  BY Zenon DEF ReadSize, Disturb, chipVars, linkVars, delivered
<1>t. interfered \in BOOLEAN /\ rx \in RxCall
  BY Zenon DEF RxType
<1>1. PICK m, at, id, r : RxRing(m, at, id, r)
  BY <1>0, Zenon DEF RxRingInv
<1>2. /\ Layout(mem, taken, wr, last, sent, m, at, id)
      /\ Place(rx, more, rd, last, sent, m, at, id, r)
      /\ interfered = FALSE =>
           Calm(rx, more, timer, status, simr, skipped, last, sent, recvBit, m, at, id, r)
  BY <1>1, Zenon DEF RxRing
<1>3. PICK result \in Results :
        /\ interfered' = (interfered \/ result # "ok")
        /\ rx' = IF result # "ok" \/ Received = 0 THEN Over
                 ELSE [rx EXCEPT !.pc = "head", !.remain = Received]
  BY Zenon DEF ReadSize, Disturb
<1>4. interfered' = FALSE => interfered = FALSE /\ result = "ok"
  BY <1>3, <1>t, Zenon
<1>5. Received = at[m] - at[0] /\ (Received = 0 => m = 0) /\ m \in Nat /\ r = 0
  <2>1. Received = at[m] - at[0] /\ (Received = 0 => m = 0)
    BY <1>2, ReceivedIs
  <2>2. m \in Nat /\ r = 0
    BY <1>0, <1>2 DEF Layout, Place, Takes
  <2> QED  BY <2>1, <2>2
<1>6. CASE result # "ok" \/ Received = 0
  <2>1. rx'.pc = "test" /\ rx'.flush = FALSE
    BY <1>3, <1>6, OverIs
  <2>2. Place(rx', more', rd', last, sent, m, at, id, r)
    BY <1>0, <1>2, <1>5, <2>1 DEF Place, Takes
  <2>3. ASSUME interfered' = FALSE
        PROVE  Calm(rx', more', timer', status', simr', skipped', last, sent, recvBit',
                    m, at, id, r)
    <3>1. m = 0 /\ interfered = FALSE
      BY <1>4, <1>5, <1>6, <2>3
    <3> QED  BY <1>0, <1>2, <1>5, <2>1, <3>1 DEF Calm
  <2> QED  BY <1>0, <1>1, <2>2, <2>3, RxRests, Zenon
<1>7. CASE ~(result # "ok" \/ Received = 0)
  <2>1. rx' = [rx EXCEPT !.pc = "head", !.remain = Received]
    BY <1>3, <1>7, Zenon
  <2>2. rx'.pc = "head" /\ rx'.flush = rx.flush /\ rx'.remain = Received
    BY <2>1, <1>t DEF RxCall
  <2>3. m > 0
    <3>1. m # 0
      <4>1. m = 0 => at[m] - at[0] = 0
        <5>1. m = 0 => at[m] = at[0] /\ at[0] \in Nat
          BY <1>2, <1>5 DEF Layout
        <5> QED  BY <5>1
      <4> QED  BY <4>1, <1>5, <1>7
    <3> QED  BY <3>1, <1>5
  <2>4. Place(rx', more', rd', last, sent, m, at, id, r)
    BY <1>0, <1>2, <1>5, <2>2, <2>3 DEF Place, Takes
  <2>5. ASSUME interfered' = FALSE
        PROVE  Calm(rx', more', timer', status', simr', skipped', last, sent, recvBit',
                    m, at, id, r)
    BY <1>0, <1>2, <1>4, <1>5, <2>2, <2>5 DEF Calm
  <2> QED  BY <1>0, <1>1, <2>4, <2>5, RxRests, Zenon
<1> QED  BY <1>0, <1>6, <1>7

LEMMA ReadHeadKeeps ==
  ASSUME RxInv, ReadHead, torn' = FALSE
  PROVE  RxRingInv' /\ damaged' = FALSE
<1> USE DEF RxInv
<1>0. /\ rx.pc = "head" /\ torn = FALSE
      /\ UNCHANGED <<mem, taken, wr, last, sent, rd, timer, status, simr, skipped,
                     recvBit, damaged>>
  BY Zenon DEF ReadHead, Disturb, Interfere, chipVars, linkVars, delivered
<1>t. interfered \in BOOLEAN /\ rx \in RxCall /\ rx.flush \in BOOLEAN /\ more \in BOOLEAN
  BY CallFields, Zenon DEF RxType
<1>1. PICK m, at, id, r : RxRing(m, at, id, r)
  BY <1>0, Zenon DEF RxRingInv
<1>2. /\ Layout(mem, taken, wr, last, sent, m, at, id)
      /\ Place(rx, more, rd, last, sent, m, at, id, r)
      /\ interfered = FALSE =>
           Calm(rx, more, timer, status, simr, skipped, last, sent, recvBit, m, at, id, r)
  BY <1>1, Zenon DEF RxRing
<1>3. m > 0 /\ r = 0 /\ rd = taken
  BY <1>0, <1>2 DEF Layout, Place, Takes
<1> DEFINE n == at[1] - at[0]
<1>4. n \in Nat /\ n >= 2 /\ mem[At(rd)] = Header(id[1], n)
  BY <1>2, <1>3, FirstIs
<1> HIDE DEF n
<1>5. Lengths(mem[At(rd)]) = {n}
  <2>1. mem[At(rd)][2] = n /\ n # 0
    BY <1>4 DEF Header
  <2> QED  BY <2>1 DEF Lengths, Plausible
<1>6. \/ rx' = Over /\ interfered' = TRUE /\ more' = more
      \/ /\ rx' = [rx EXCEPT !.pc = IF rx.flush THEN "advance"
                                    ELSE IF n = 0 THEN "drain" ELSE "payload",
                             !.offset = rd, !.len = n]
         /\ interfered' = interfered /\ more' = more
      \/ rx' = [rx EXCEPT !.pc = "size", !.flush = TRUE] /\ interfered' = TRUE
  <2>1. "failed" # "ok"
    OBVIOUS
  <2> QED  BY <2>1, <1>5, <1>t, Zenon DEF ReadHead, Disturb, Interfere
<1>7. CASE rx' = Over /\ interfered' = TRUE /\ more' = more
  <2>1. rx'.pc = "test" /\ rx'.flush = FALSE
    BY <1>7, OverIs
  <2>2. Place(rx', more', rd', last, sent, m, at, id, r)
    BY <1>0, <1>2, <1>3, <2>1 DEF Place, Takes
  <2> QED  BY <1>0, <1>1, <1>7, <2>2, RxRests, Zenon
<1>8. CASE rx' = [rx EXCEPT !.pc = "size", !.flush = TRUE] /\ interfered' = TRUE
  <2>1. rx'.pc = "size" /\ rx'.flush = TRUE
    BY <1>8, <1>t DEF RxCall
  <2>2. Place(rx', more', rd', last, sent, m, at, id, r)
    BY <1>0, <1>2, <1>3, <2>1 DEF Place, Takes
  <2> QED  BY <1>0, <1>1, <1>8, <2>2, RxRests, Zenon
<1>9. CASE /\ rx' = [rx EXCEPT !.pc = IF rx.flush THEN "advance"
                                      ELSE IF n = 0 THEN "drain" ELSE "payload",
                               !.offset = rd, !.len = n]
           /\ interfered' = interfered /\ more' = more
  <2>1. n # 0
    BY <1>4
  <2>2. PICK p \in {"advance", "payload"} :
          /\ rx' = [rx EXCEPT !.pc = p, !.offset = rd, !.len = n]
          /\ p = "advance" => rx.flush = TRUE
    BY <1>9, <1>t, <2>1, Zenon
  <2>3. /\ rx'.pc = p /\ rx'.flush = rx.flush /\ rx'.offset = rd /\ rx'.len = n
        /\ rx'.remain = rx.remain
    BY <2>2, <1>t DEF RxCall
  <2>4. rx'.flush = FALSE => rx'.pc = "payload"
    BY <2>2, <2>3
  <2>5. Place(rx', more', rd', last, sent, m, at, id, r)
    BY <1>0, <1>2, <1>3, <2>2, <2>3, <2>4 DEF Place, Takes, n
  <2>6. ASSUME interfered' = FALSE
        PROVE  Calm(rx', more', timer', status', simr', skipped', last, sent, recvBit',
                    m, at, id, r)
    BY <1>0, <1>2, <1>3, <1>9, <2>2, <2>3, <2>6 DEF Calm
  <2> QED  BY <1>0, <1>1, <2>5, <2>6, RxRests, Zenon
<1> QED  BY <1>0, <1>6, <1>7, <1>8, <1>9

LEMMA ReadPayloadKeeps ==
  ASSUME RxInv, ReadPayload, torn' = FALSE
  PROVE  RxRingInv' /\ damaged' = FALSE
<1> USE DEF RxInv
<1>0. /\ rx.pc = "payload" /\ torn = FALSE /\ more' = FALSE
      /\ UNCHANGED <<mem, taken, wr, last, sent, rd, timer, status, simr, skipped,
                     recvBit, damaged>>
  BY Zenon DEF ReadPayload, Disturb, chipVars, linkVars, delivered
<1>t. interfered \in BOOLEAN /\ rx \in RxCall /\ rx.flush \in BOOLEAN
  BY CallFields, Zenon DEF RxType
<1>1. PICK m, at, id, r : RxRing(m, at, id, r)
  BY <1>0, Zenon DEF RxRingInv
<1>2. /\ Layout(mem, taken, wr, last, sent, m, at, id)
      /\ Place(rx, more, rd, last, sent, m, at, id, r)
      /\ interfered = FALSE =>
           Calm(rx, more, timer, status, simr, skipped, last, sent, recvBit, m, at, id, r)
  BY <1>1, Zenon DEF RxRing
<1> DEFINE n == at[1] - at[0]
<1>3. m > 0 /\ r = 0 /\ rd = taken /\ rx.offset = rd /\ rx.len = n
  BY <1>0, <1>2 DEF Layout, Place, Takes
<1>4. /\ n \in Nat /\ n >= 2 /\ mem[At(rd)] = Header(id[1], n)
      /\ \A k \in 1 .. n - 1 : mem[At(rd + k)] = Payload(id[1])
  BY <1>2, <1>3, FirstIs
<1> HIDE DEF n
<1>5. FrameAt(rx.offset, rx.len) = id[1]
  <2>1. mem[At(rd)][1] = id[1] /\ Plausible(mem[At(rd)])
    BY <1>4 DEF Header, Plausible
  <2>2. 1 \in 1 .. n - 1
    BY <1>4
  <2>3. {mem[At(rd + k)] : k \in 1 .. n - 1} = {Payload(id[1])}
    BY <1>4, <2>2, Zenon
  <2>4. FrameAt(rd, n) = id[1]
    BY <2>1, <2>3, Zenon DEF FrameAt
  <2> QED  BY <2>4, <1>3
<1>6. PICK result \in Results :
        /\ interfered' = (interfered \/ result # "ok")
        /\ rx' = IF result = "ok"
                 THEN [rx EXCEPT !.pc = "advance", !.frame = FrameAt(rx.offset, rx.len)]
                 ELSE Over
  BY Zenon DEF ReadPayload, Disturb
<1>7. interfered' = FALSE => interfered = FALSE /\ result = "ok"
  BY <1>6, <1>t, Zenon
<1>8. CASE result = "ok"
  <2>1. rx' = [rx EXCEPT !.pc = "advance", !.frame = id[1]]
    BY <1>5, <1>6, <1>8
  <2>2. /\ rx'.pc = "advance" /\ rx'.flush = rx.flush /\ rx'.offset = rx.offset
        /\ rx'.len = rx.len /\ rx'.remain = rx.remain /\ rx'.frame = id[1]
    BY <2>1, <1>t DEF RxCall
  <2>3. Place(rx', more', rd', last, sent, m, at, id, r)
    BY <1>0, <1>2, <1>3, <2>2 DEF Place, Takes, n
  <2>4. ASSUME interfered' = FALSE
        PROVE  Calm(rx', more', timer', status', simr', skipped', last, sent, recvBit',
                    m, at, id, r)
    BY <1>0, <1>2, <1>3, <1>7, <2>2, <2>4 DEF Calm
  <2> QED  BY <1>0, <1>1, <2>3, <2>4, RxRests, Zenon
<1>9. CASE result # "ok"
  <2>1. rx'.pc = "test" /\ rx'.flush = FALSE
    BY <1>6, <1>9, OverIs
  <2>2. Place(rx', more', rd', last, sent, m, at, id, r)
    BY <1>0, <1>2, <1>3, <2>1 DEF Place, Takes
  <2> QED  BY <1>0, <1>1, <1>7, <1>9, <2>2, RxRests, Zenon
<1> QED  BY <1>0, <1>8, <1>9

LEMMA AdvanceKeeps ==
  ASSUME RxInv, Advance, torn' = FALSE
  PROVE  RxRingInv' /\ damaged' = FALSE
<1> USE DEF RxInv
<1>0. /\ rx.pc = "advance" /\ torn = FALSE
      /\ UNCHANGED <<mem, taken, wr, last, sent, timer, status, simr, skipped, more,
                     recvBit, damaged>>
  BY Zenon DEF Advance, Disturb, linkVars, delivered
<1>t. interfered \in BOOLEAN /\ rx \in RxCall /\ rx.flush \in BOOLEAN
  BY CallFields, Zenon DEF RxType
<1>1. PICK m, at, id, r : RxRing(m, at, id, r)
  BY <1>0, Zenon DEF RxRingInv
<1>2. /\ Layout(mem, taken, wr, last, sent, m, at, id)
      /\ Place(rx, more, rd, last, sent, m, at, id, r)
      /\ interfered = FALSE =>
           Calm(rx, more, timer, status, simr, skipped, last, sent, recvBit, m, at, id, r)
  BY <1>1, Zenon DEF RxRing
<1>3. /\ m > 0 /\ r = 0 /\ rd = taken /\ rx.offset = rd /\ rx.len = at[1] - at[0]
      /\ rx.flush = FALSE => rx.frame = id[1]
  BY <1>0, <1>2 DEF Layout, Place, Takes
<1>4. /\ Plus(taken, at[1] - at[0]) = at[1] % PtrMod
      /\ last < id[1] /\ id[1] <= sent /\ m \in Nat /\ 1 \in 0 .. m
      /\ \A i \in 1 + 1 .. m : id[1] < id[i]
  <2>1. /\ Plus(taken, at[1] - at[0]) = at[1] % PtrMod
        /\ last < id[1] /\ id[1] <= sent
    BY <1>2, <1>3, FirstIs
  <2>2. m \in Nat /\ 1 \in 0 .. m /\ 1 \in 1 .. m
    BY <1>2, <1>3 DEF Layout
  <2>3. \A i, j \in 1 .. m : i < j => id[i] < id[j]
    BY <1>2 DEF Layout
  <2>4. ASSUME NEW i \in 1 + 1 .. m PROVE id[1] < id[i]
    <3>1. i \in 1 .. m /\ 1 < i
      BY <2>2
    <3> QED  BY <3>1, <2>2, <2>3
  <2> QED  BY <2>1, <2>2, <2>4
<1>5. PICK result \in Results :
        /\ interfered' = (interfered \/ result # "ok")
        /\ rd' = IF result = "ok" THEN Plus(rx.offset, rx.len) ELSE rd
        /\ rx' = IF result = "ok" THEN [rx EXCEPT !.pc = "recv"] ELSE Over
  BY Zenon DEF Advance, Disturb
<1>6. interfered' = FALSE => interfered = FALSE /\ result = "ok"
  BY <1>5, <1>t, Zenon
<1>7. CASE result = "ok"
  <2>1. rx' = [rx EXCEPT !.pc = "recv"] /\ rd' = at[1] % PtrMod
    BY <1>3, <1>4, <1>5, <1>7
  <2>2. /\ rx'.pc = "recv" /\ rx'.flush = rx.flush /\ rx'.len = rx.len
        /\ rx'.remain = rx.remain /\ rx'.frame = rx.frame
    BY <2>1, <1>t DEF RxCall
  <2>3. Place(rx', more', rd', last, sent, m, at, id, 1)
    BY <1>3, <1>4, <2>1, <2>2 DEF Place, Takes
  <2>4. ASSUME interfered' = FALSE
        PROVE  Calm(rx', more', timer', status', simr', skipped', last, sent, recvBit',
                    m, at, id, 1)
    <3>1. Calm(rx, more, timer, status, simr, skipped, last, sent, recvBit, m, at, id, r)
      BY <1>2, <1>6, <2>4
    <3>2. rx.frame = last + 1
      <4>1. rx.frame = id[1] /\ 1 \in 1 .. m
        BY <1>3, <1>4, <3>1 DEF Calm
      <4> QED  BY <3>1, <4>1 DEF Calm
    <3> QED  BY <1>0, <1>3, <2>2, <3>1, <3>2 DEF Calm
  <2> QED  BY <1>0, <1>1, <2>3, <2>4, RxRests, Zenon
<1>8. CASE result # "ok"
  <2>1. rx'.pc = "test" /\ rx'.flush = FALSE /\ rd' = rd
    BY <1>5, <1>8, OverIs
  <2>2. Place(rx', more', rd', last, sent, m, at, id, r)
    BY <1>0, <1>2, <1>3, <2>1 DEF Place, Takes
  <2> QED  BY <1>0, <1>1, <1>6, <1>8, <2>2, RxRests, Zenon
<1> QED  BY <1>0, <1>7, <1>8

LEMMA ReleaseKeeps ==
  ASSUME RxInv, Release, torn' = FALSE
  PROVE  RxRingInv' /\ damaged' = FALSE
<1> USE DEF RxInv
<1>0. /\ rx.pc = "recv" /\ torn = FALSE /\ rx' = Over
      /\ UNCHANGED <<mem, rd, wr, sent, timer, status, simr, recvBit>>
  BY Zenon DEF Release, Disturb, linkVars
<1>t. /\ interfered \in BOOLEAN /\ rx \in RxCall /\ rx.flush \in BOOLEAN
      /\ last \in Nat /\ rx.frame \in Nat /\ sent \in Nat
      /\ rx.remain \in Nat /\ rx.len \in Nat
  BY CallFields, Zenon DEF RxType
<1>o. rx'.pc = "test" /\ rx'.flush = FALSE
  BY <1>0, OverIs
<1>1. PICK m, at, id, r : RxRing(m, at, id, r)
  BY <1>0, Zenon DEF RxRingInv
<1>2. /\ Layout(mem, taken, wr, last, sent, m, at, id)
      /\ Place(rx, more, rd, last, sent, m, at, id, r)
      /\ interfered = FALSE =>
           Calm(rx, more, timer, status, simr, skipped, last, sent, recvBit, m, at, id, r)
  BY <1>1, Zenon DEF RxRing
<1>3. /\ r \in 0 .. m /\ at[r] % PtrMod = rd /\ m \in Nat
      /\ last <= sent
      /\ rx.flush = FALSE => /\ last < rx.frame /\ rx.frame <= sent
                             /\ \A i \in r + 1 .. m : rx.frame < id[i]
  BY <1>0, <1>2 DEF Place, Layout
<1>4. PICK result \in CommandResults :
        /\ interfered' = (interfered \/ result # "ok")
        /\ taken' = IF Executed(result) THEN rd ELSE taken
        /\ more' = (result = "ok" /\ rx.remain # rx.len)
        /\ IF result = "ok" /\ ~rx.flush
           THEN Input(rx.frame) ELSE UNCHANGED delivered
  BY Zenon DEF Release, Disturb
<1>5. interfered' = FALSE => interfered = FALSE /\ result = "ok"
  BY <1>4, <1>t, Zenon
<1>6. CASE ~Executed(result)
  <2>1. result # "ok"
    BY <1>6 DEF Executed
  <2>2. taken' = taken /\ more' = FALSE /\ UNCHANGED <<last, damaged, skipped>>
    BY <1>4, <1>6, <2>1, Zenon DEF delivered
  <2>3. Place(rx', more', rd', last, sent, m, at, id, r)
    BY <1>0, <1>2, <1>o, <2>2 DEF Place, Takes
  <2> QED  BY <1>0, <1>1, <1>5, <2>1, <2>2, <2>3, RxRests, Zenon
<1>7. CASE Executed(result)
  <2>1. taken' = at[r] % PtrMod
    BY <1>3, <1>4, <1>7
  <2>2. /\ last' \in Nat /\ damaged' = FALSE /\ last' <= sent
        /\ \A i \in r + 1 .. m : last' < id[i]
        /\ result = "ok" /\ rx.flush = FALSE =>
             /\ last' = rx.frame
             /\ skipped' = (skipped \/ (~interfered /\ rx.frame # last + 1))
    <3>1. CASE result = "ok" /\ ~rx.flush
      <4>1. /\ last' = rx.frame
            /\ damaged' = (damaged \/ (~torn /\ rx.frame <= last))
            /\ skipped' = (skipped \/ (~interfered /\ rx.frame # last + 1))
        BY <1>0, <1>4, <3>1, Zenon DEF Input
      <4>2. rx.flush = FALSE
        BY <3>1, <1>t, Zenon
      <4>3. ~(rx.frame <= last)
        BY <1>3, <1>t, <4>2
      <4>4. damaged' = FALSE
        BY <4>1, <4>3, Zenon
      <4> QED  BY <4>1, <4>2, <4>4, <1>3, <1>t
    <3>2. CASE ~(result = "ok" /\ ~rx.flush)
      <4>1. last' = last /\ damaged' = FALSE
        BY <1>4, <3>2, Zenon DEF delivered
      <4>2. ASSUME NEW i \in r + 1 .. m PROVE last < id[i]
        <5>1. i \in 1 .. m
          BY <1>3
        <5> QED  BY <5>1, <1>2 DEF Layout
      <4>3. ~(result = "ok" /\ rx.flush = FALSE)
        BY <3>2, Zenon
      <4> QED  BY <4>1, <4>2, <4>3, <1>3, <1>t
    <3> QED  BY <3>1, <3>2
  <2>3. PICK at2, id2 :
          /\ Layout(mem, at[r] % PtrMod, wr, last', sent, m - r, at2, id2)
          /\ \A i \in 0 .. m - r : at2[i] = at[i + r]
          /\ \A i \in 1 .. m - r : id2[i] = id[i + r]
    <3> DEFINE f == last'
    <3>1. f <= sent /\ \A i \in r + 1 .. m : f < id[i]
      BY <2>2
    <3> HIDE DEF f
    <3>3. Layout(mem, taken, wr, last, sent, m, at, id)
      BY <1>2
    <3>4. r \in 0 .. m
      BY <1>3
    <3>2. \E at2, id2 :
            /\ Layout(mem, at[r] % PtrMod, wr, f, sent, m - r, at2, id2)
            /\ \A i \in 0 .. m - r : at2[i] = at[i + r]
            /\ \A i \in 1 .. m - r : id2[i] = id[i + r]
      BY <3>1, <3>3, <3>4, Dropped
    <3> QED  BY <3>2 DEF f
  <2>4. m - r \in Nat /\ 0 \in 0 .. m - r /\ at2[0] = at[r]
    <3>1. m - r \in Nat /\ 0 \in 0 .. m - r /\ 0 + r = r
      BY <1>3
    <3> QED  BY <3>1, <2>3
  <2>5. Layout(mem', taken', wr', last', sent', m - r, at2, id2)
    BY <1>0, <2>1, <2>3
  <2>6. Place(rx', more', rd', last', sent', m - r, at2, id2, 0)
    BY <1>3, <1>0, <1>o, <2>4 DEF Place, Takes
  <2>7. ASSUME interfered' = FALSE
        PROVE  Calm(rx', more', timer', status', simr', skipped', last', sent', recvBit',
                    m - r, at2, id2, 0)
    <3>1. result = "ok" /\ interfered = FALSE
          /\ Calm(rx, more, timer, status, simr, skipped, last, sent, recvBit, m, at, id, r)
      BY <1>2, <1>5, <2>7
    <3>2. /\ rx.flush = FALSE /\ skipped = FALSE /\ r = 1 /\ m > 0
          /\ timer \notin {"drained", "disable", "close"} /\ (status = TRUE => simr = TRUE)
          /\ last + m = sent /\ (\A i \in 1 .. m : id[i] = last + i)
          /\ rx.frame = last + 1 /\ rx.len = at[1] - at[0]
          /\ recvBit = TRUE \/ rx.remain = at[m] - at[0]
      BY <1>0, <3>1 DEF Calm
    <3>3. last' = last + 1 /\ skipped' = FALSE
      BY <2>2, <3>1, <3>2, Zenon
    <3>4. last' + (m - r) = sent
      BY <1>3, <1>t, <3>2, <3>3
    <3>5. \A i \in 1 .. m - r : id2[i] = last' + i
      <4> SUFFICES ASSUME NEW i \in 1 .. m - r PROVE id2[i] = last' + i
        OBVIOUS
      <4>1. i + 1 \in 1 .. m /\ id2[i] = id[i + 1]
        BY <1>3, <2>3, <3>2
      <4> QED  BY <4>1, <1>t, <3>2, <3>3
    <3>6. more' = FALSE => recvBit = TRUE \/ m - r = 0
      <4>1. SUFFICES ASSUME more' = FALSE, rx.remain = at[m] - at[0]
                     PROVE  m - r = 0
        BY <3>2
      <4>2. rx.remain = rx.len
        BY <4>1, <1>4, <3>1, Zenon
      <4>3. 0 \in 0 .. m /\ 1 \in 0 .. m /\ m \in 0 .. m
        BY <1>3, <3>2
      <4>4. at[0] \in Nat /\ at[1] \in Nat /\ at[m] \in Nat
        BY <1>2, <4>3, Zenon DEF Layout
      <4>5. at[m] = at[1]
        BY <3>2, <4>1, <4>2, <4>4
      <4>6. 1 < m => at[1] < at[m]
        BY <1>2, <4>3, Zenon DEF Layout
      <4> QED  BY <1>3, <3>2, <4>4, <4>5, <4>6
    <3> QED  BY <1>0, <1>o, <3>2, <3>3, <3>4, <3>5, <3>6 DEF Calm
  <2>8. RxRing(m - r, at2, id2, 0)'
    BY <2>5, <2>6, <2>7, Zenon DEF RxRing
  <2> QED  BY <2>2, <2>8, Zenon DEF RxRingInv
<1> QED  BY <1>6, <1>7

-----------------------------------------------------------------------------
(***************************************************************************)
(* A frame arrives.                                                        *)
(***************************************************************************)

LEMMA ArriveKeeps ==
  ASSUME RxInv, Arrive, torn' = FALSE
  PROVE  RxRingInv' /\ damaged' = FALSE
<1> USE DEF RxInv
<1>0. /\ torn = FALSE /\ sent' = sent + 1 /\ recvBit' = TRUE
      /\ UNCHANGED <<rd, taken, simr, timer, status, rx, more, last, damaged, skipped,
                     interfered>>
  BY Zenon DEF Arrive, linkVars, delivered
<1>t. /\ interfered \in BOOLEAN /\ last \in Nat /\ sent \in Nat /\ rx.pc \in RxPlaces
      /\ rx.flush \in BOOLEAN /\ rx.frame \in Nat
      /\ DOMAIN mem = 0 .. RingSize - 1
  BY CallFields, Zenon DEF RxType
<1>1. PICK m, at, id, r : RxRing(m, at, id, r)
  BY <1>0, Zenon DEF RxRingInv
<1>2. /\ Layout(mem, taken, wr, last, sent, m, at, id)
      /\ Place(rx, more, rd, last, sent, m, at, id, r)
      /\ interfered = FALSE =>
           Calm(rx, more, timer, status, simr, skipped, last, sent, recvBit, m, at, id, r)
  BY <1>1, Zenon DEF RxRing
<1>3. PICK n \in Sizes :
        /\ Received + n <= RingSize
        /\ mem' = [p \in DOMAIN mem |->
                     LET k == (p - wr) % RingSize
                     IN  IF k = 0 THEN Header(sent + 1, n)
                         ELSE IF k < n THEN Payload(sent + 1) ELSE mem[p]]
        /\ wr' = Plus(wr, n)
  BY Zenon DEF Arrive
<1>4. n \in Nat /\ n >= 2 /\ n <= RingSize /\ RingSize \in Nat \ {0}
  BY RxSizes
<1>5. /\ m \in Nat /\ m \in 0 .. m /\ 0 \in 0 .. m /\ r \in 0 .. m
      /\ at[m] % PtrMod = wr
  BY <1>2 DEF Layout, Place
<1>6. /\ at[0] \in Nat /\ at[m] \in Nat /\ at[0] <= at[m]
      /\ (at[m] - at[0]) + n <= RingSize
  <2>1. Received = at[m] - at[0]
    BY <1>2, ReceivedIs
  <2>2. at[0] \in Nat /\ at[m] \in Nat /\ at[0] <= at[m]
    BY <1>2, <1>5, RxEnds
  <2> QED  BY <2>1, <2>2, <1>3
<1>7. ASSUME NEW u \in 0 .. RingSize - 1
      PROVE  mem'[u] = IF (u - wr) % RingSize = 0 THEN Header(sent + 1, n)
                       ELSE IF (u - wr) % RingSize < n THEN Payload(sent + 1)
                       ELSE mem[u]
  BY <1>3, <1>t
<1> DEFINE end == at[m]
<1>8. end \in Nat /\ end % PtrMod = wr
  BY <1>5, <1>6
<1> HIDE DEF end
<1>9. ASSUME NEW a \in Nat, at[0] <= a, a < end
      PROVE  mem'[At(a)] = mem[At(a)]
  <2>1. (end - a) + n <= RingSize
    BY <1>4, <1>6, <1>9 DEF end
  <2>2. /\ a % RingSize \in 0 .. RingSize - 1
        /\ ~(((a % RingSize) - (end % PtrMod)) % RingSize < n)
    BY <2>1, <1>4, <1>8, <1>9, RxWraps, UnitBefore
  <2>3. (a % RingSize) - wr \in Int
    BY <2>2, <1>4 DEF RxType
  <2>4. ~(((a % RingSize) - wr) % RingSize < n) /\ ((a % RingSize) - wr) % RingSize # 0
    BY <2>2, <1>4, <1>8
  <2> QED  BY <2>2, <2>4, <1>7 DEF At
<1>10. ASSUME NEW k \in 0 .. n - 1
       PROVE  mem'[At(end + k)] = IF k = 0 THEN Header(sent + 1, n) ELSE Payload(sent + 1)
  <2>1. k \in 0 .. RingSize - 1 /\ k < n
    BY <1>4
  <2>2. /\ (end + k) % RingSize \in 0 .. RingSize - 1
        /\ (((end + k) % RingSize) - (end % PtrMod)) % RingSize = k
    BY <2>1, <1>8, RxWraps, UnitBehind
  <2> QED  BY <2>1, <2>2, <1>7, <1>8 DEF At
<1>11. Layout(mem', taken, wr, last, sent, m, at, id)
  <2>1. \A a \in Nat : at[0] <= a /\ a < at[m] => mem'[At(a)] = mem[At(a)]
    BY <1>9 DEF end
  <2> DEFINE new == mem'
  <2>2. \A a \in Nat : at[0] <= a /\ a < at[m] => new[At(a)] = mem[At(a)]
    BY <2>1
  <2> HIDE DEF new
  <2>3. Layout(new, taken, wr, last, sent, m, at, id)
    BY <2>2, <1>2, OtherRxMemory, Zenon
  <2> QED  BY <2>3 DEF new
<1>12. Stored(mem', at[m], sent + 1, n)
  <2>1. mem'[At(end + 0)] = Header(sent + 1, n)
    <3>1. 0 \in 0 .. n - 1
      BY <1>4
    <3> QED  BY <3>1, <1>10
  <2>2. end + 0 = end
    BY <1>8
  <2>3. ASSUME NEW k \in 1 .. n - 1 PROVE mem'[At(end + k)] = Payload(sent + 1)
    <3>1. k \in 0 .. n - 1 /\ k # 0
      BY <1>4
    <3> QED  BY <3>1, <1>10
  <2>4. Stored(mem', end, sent + 1, n)
    BY <2>1, <2>2, <2>3, <1>4 DEF Stored
  <2> QED  BY <2>4 DEF end
<1>13. PICK at2, id2 :
         /\ Layout(mem', taken, Plus(wr, n), last, sent + 1, m + 1, at2, id2)
         /\ \A i \in 0 .. m : at2[i] = at[i]
         /\ \A i \in 1 .. m : id2[i] = id[i]
         /\ id2[m + 1] = sent + 1
  <2> DEFINE new == mem'
  <2>1. Layout(new, taken, wr, last, sent, m, at, id) /\ Stored(new, at[m], sent + 1, n)
    BY <1>11, <1>12
  <2> HIDE DEF new
  <2>2. \E at2, id2 :
          /\ Layout(new, taken, Plus(wr, n), last, sent + 1, m + 1, at2, id2)
          /\ \A i \in 0 .. m : at2[i] = at[i]
          /\ \A i \in 1 .. m : id2[i] = id[i]
          /\ id2[m + 1] = sent + 1
    BY <2>1, <1>t, <1>4, <1>6, Appended
  <2> QED  BY <2>2 DEF new
<1>14. Layout(mem', taken', wr', last', sent', m + 1, at2, id2)
  BY <1>0, <1>3, <1>13
<1>15. /\ r \in 0 .. m + 1 /\ at2[r] = at[r] /\ at2[0] = at[0]
       /\ m > 0 => at2[1] = at[1] /\ id2[1] = id[1]
  <2>1. r \in 0 .. m + 1 /\ (m > 0 => 1 \in 0 .. m /\ 1 \in 1 .. m)
    BY <1>5
  <2> QED  BY <2>1, <1>5, <1>13
<1>16. Place(rx', more', rd', last', sent', m + 1, at2, id2, r)
  <2>1. ASSUME rx.pc = "recv", rx.flush = FALSE
        PROVE  /\ last < rx.frame /\ rx.frame <= sent + 1
               /\ \A i \in r + 1 .. m + 1 : rx.frame < id2[i]
    <3>1. /\ last < rx.frame /\ rx.frame <= sent
          /\ \A i \in r + 1 .. m : rx.frame < id[i]
      BY <1>2, <2>1 DEF Place
    <3>2. ASSUME NEW i \in r + 1 .. m + 1 PROVE rx.frame < id2[i]
      <4>1. CASE i = m + 1
        BY <4>1, <3>1, <1>13, <1>t
      <4>2. CASE i # m + 1
        <5>1. i \in r + 1 .. m /\ i \in 1 .. m
          BY <4>2, <1>5
        <5> QED  BY <5>1, <3>1, <1>13
      <4> QED  BY <4>1, <4>2
    <3> QED  BY <3>1, <3>2, <1>t
  <2>2. m + 1 > 0
    BY <1>5
  <2> QED  BY <1>0, <1>2, <1>15, <2>1, <2>2 DEF Place, Takes
<1>17. ASSUME interfered' = FALSE
       PROVE  Calm(rx', more', timer', status', simr', skipped', last', sent', recvBit',
                   m + 1, at2, id2, r)
  <2>1. Calm(rx, more, timer, status, simr, skipped, last, sent, recvBit, m, at, id, r)
    BY <1>0, <1>2, <1>17
  <2>2. last + m = sent /\ \A i \in 1 .. m : id[i] = last + i
    BY <2>1 DEF Calm
  <2>3. last + (m + 1) = sent + 1
    BY <2>2, <1>5, <1>t
  <2>4. \A i \in 1 .. m + 1 : id2[i] = last + i
    <3> SUFFICES ASSUME NEW i \in 1 .. m + 1 PROVE id2[i] = last + i
      OBVIOUS
    <3>1. CASE i = m + 1
      BY <3>1, <2>3, <1>13
    <3>2. CASE i # m + 1
      <4>1. i \in 1 .. m
        BY <3>2, <1>5
      <4> QED  BY <4>1, <2>2, <1>13
    <3> QED  BY <3>1, <3>2
  <2>5. rx.pc = "recv" => /\ r = 1 /\ m + 1 > 0 /\ rx.frame = last + 1
                          /\ rx.len = at2[1] - at2[0]
    BY <2>1, <1>5, <1>15 DEF Calm
  <2>6. /\ rx.flush = FALSE /\ skipped = FALSE
        /\ timer \notin {"drained", "disable", "close"} /\ (status = TRUE => simr = TRUE)
        /\ rx.pc # "recv" => r = 0
    BY <2>1 DEF Calm
  <2> QED  BY <1>0, <2>3, <2>4, <2>5, <2>6 DEF Calm
<1>18. RxRing(m + 1, at2, id2, r)'
  BY <1>14, <1>16, <1>17, Zenon DEF RxRing
<1> QED  BY <1>0, <1>18, Zenon DEF RxRingInv

-----------------------------------------------------------------------------
(***************************************************************************)
(* The timer task.                                                         *)
(***************************************************************************)

Stopping == {"drained", "disable", "close"}

\* The steps of the timer task that leave the ring and the RX task alone.
LEMMA BesideRxKeeps ==
  ASSUME RxInv, torn' = torn, interfered' = FALSE => interfered = FALSE,
         UNCHANGED <<mem, wr, rd, taken, last, sent, rx, recvBit, more, skipped, damaged>>,
         timer \notin Stopping /\ (status = TRUE => simr = TRUE) /\ interfered' = FALSE
           => timer' \notin Stopping /\ (status' = TRUE => simr' = TRUE)
  PROVE  RxRingInv' /\ damaged' = FALSE
<1> USE DEF RxInv
<1>1. SUFFICES ASSUME torn' = FALSE PROVE RxRingInv'
  BY Zenon DEF RxRingInv
<1>2. PICK m, at, id, r : RxRing(m, at, id, r)
  BY <1>1, Zenon DEF RxRingInv
<1>3. /\ Place(rx, more, rd, last, sent, m, at, id, r)
      /\ interfered = FALSE =>
           Calm(rx, more, timer, status, simr, skipped, last, sent, recvBit, m, at, id, r)
  BY <1>2, Zenon DEF RxRing
<1>4. Place(rx', more', rd', last, sent, m, at, id, r)
  BY <1>3
<1>5. ASSUME interfered' = FALSE
      PROVE  Calm(rx', more', timer', status', simr', skipped', last, sent, recvBit',
                  m, at, id, r)
  <2>1. Calm(rx, more, timer, status, simr, skipped, last, sent, recvBit, m, at, id, r)
    BY <1>3, <1>5
  <2>2. timer' \notin Stopping /\ (status' = TRUE => simr' = TRUE)
    BY <1>5, <2>1, Zenon DEF Calm, Stopping
  <2> QED  BY <2>1, <2>2, Zenon DEF Calm, Stopping
<1> QED  BY <1>2, <1>4, <1>5, RxRests, Zenon

LEMMA LinkKeeps ==
  ASSUME RxInv,
         \/ Flap \/ CheckLink \/ Open \/ Enable \/ AwaitSend \/ Disable \/ Close
         \/ UNCHANGED receiverVars
  PROVE  RxRingInv' /\ damaged' = FALSE
<1> USE DEF RxInv
<1>t. /\ interfered \in BOOLEAN /\ status \in BOOLEAN /\ simr \in BOOLEAN
  BY Zenon DEF RxType
<1>1. CASE Flap \/ UNCHANGED receiverVars
  <2>1. UNCHANGED <<mem, wr, rd, taken, last, sent, rx, recvBit, more, skipped, damaged,
                    torn, interfered, timer, status, simr>>
    BY <1>1, Zenon DEF Flap, receiverVars, chipVars, linkVars, history, delivered
  <2> QED  BY <2>1, BesideRxKeeps, Zenon
<1>2. CASE CheckLink \/ Open \/ Enable \/ AwaitSend \/ Disable \/ Close
  <2>1. /\ torn' = torn
        /\ UNCHANGED <<mem, wr, rd, taken, last, sent, rx, recvBit, more, skipped, damaged>>
    BY <1>2, Zenon DEF CheckLink, Open, Enable, AwaitSend, Disable, Close, chipVars,
       history, rxVars, delivered, Interfere
  <2>2. interfered' = FALSE => interfered = FALSE
    BY <1>2, <1>t, Zenon DEF CheckLink, Open, Enable, AwaitSend, Disable, Close,
       history, Interfere
  <2>3. ASSUME timer \notin Stopping, status = TRUE => simr = TRUE
        PROVE  timer' \notin Stopping /\ (status' = TRUE => simr' = TRUE)
    <3>1. CASE CheckLink
      <4>1. timer' \in {"open", "send", "idle"}
        BY <3>1, Zenon DEF CheckLink
      <4>2. (status' = TRUE => status = TRUE) /\ simr' = simr
        BY <3>1, <1>t, Zenon DEF CheckLink, chipVars
      <4>3. timer' \notin Stopping
        BY <4>1 DEF Stopping
      <4> QED  BY <4>2, <4>3, <2>3, Zenon
    <3>2. CASE Open
      <4>1. timer' \in {"enable", "idle"} /\ status' = status /\ simr' = simr
        BY <3>2, Zenon DEF Open
      <4>2. timer' \notin Stopping
        BY <4>1 DEF Stopping
      <4> QED  BY <4>1, <4>2, <2>3, Zenon
    <3>3. CASE Enable
      <4>1. timer' = "idle" /\ (status' = TRUE => simr' = TRUE)
        BY <3>3, <1>t, Zenon DEF Enable
      <4>2. timer' \notin Stopping
        BY <4>1 DEF Stopping
      <4> QED  BY <4>1, <4>2, Zenon
    <3>4. CASE AwaitSend
      <4>1. timer' \in {"drain", "idle"} /\ status' = status /\ simr' = simr
        BY <3>4, Zenon DEF AwaitSend, chipVars
      <4>2. timer' \notin Stopping
        BY <4>1 DEF Stopping
      <4> QED  BY <4>1, <4>2, <2>3, Zenon
    <3>5. ~Disable /\ ~Close
      BY <2>3 DEF Disable, Close, Stopping
    <3> QED  BY <1>2, <3>1, <3>2, <3>3, <3>4, <3>5, Zenon
  <2> QED  BY <2>1, <2>2, <2>3, BesideRxKeeps, Zenon
<1> QED  BY <1>1, <1>2

LEMMA StopDrainKeeps ==
  ASSUME RxInv, StopDrain, torn' = FALSE
  PROVE  RxRingInv' /\ damaged' = FALSE
<1> USE DEF RxInv
<1>0. /\ torn = FALSE /\ ~Taking /\ interfered' = TRUE
      /\ UNCHANGED <<mem, wr, taken, last, sent, rx, more, damaged>>
      /\ rd' = rd \/ rd' = wr
  <2>1. torn \in BOOLEAN
    BY Zenon DEF RxType
  <2> QED  BY <2>1, Zenon DEF StopDrain, rxVars, delivered
<1>1. PICK m, at, id, r : RxRing(m, at, id, r)
  BY <1>0, Zenon DEF RxRingInv
<1>2. /\ Layout(mem, taken, wr, last, sent, m, at, id)
      /\ Place(rx, more, rd, last, sent, m, at, id, r)
  BY <1>1, Zenon DEF RxRing
<1>3. rx.pc \in {"wait", "status", "clear"}
  BY <1>0 DEF Taking
<1>4. CASE rd' = rd
  <2>1. Place(rx', more', rd', last, sent, m, at, id, r)
    BY <1>0, <1>2, <1>4
  <2> QED  BY <1>0, <1>1, <2>1, RxRests, Zenon
<1>5. CASE rd' = wr
  <2>1. m \in 0 .. m /\ at[m] % PtrMod = wr
    BY <1>2 DEF Layout
  <2>2. Place(rx', more', rd', last, sent, m, at, id, m)
    BY <1>0, <1>3, <1>5, <2>1 DEF Place, Takes
  <2> QED  BY <1>0, <1>1, <2>2, RxRests, Zenon
<1> QED  BY <1>0, <1>4, <1>5

LEMMA StopReleaseKeeps ==
  ASSUME RxInv, StopRelease, torn' = FALSE
  PROVE  RxRingInv' /\ damaged' = FALSE
<1> USE DEF RxInv
<1>0. /\ torn = FALSE /\ timer = "drained" /\ interfered' = interfered
      /\ UNCHANGED <<mem, wr, rd, last, sent, rx, damaged>>
      /\ taken' = taken \/ taken' = rd
      /\ more' = TRUE => more = TRUE
  <2>1. more \in BOOLEAN
    BY Zenon DEF RxType
  <2> QED  BY <2>1, Zenon DEF StopRelease, rxVars, delivered
<1>1. PICK m, at, id, r : RxRing(m, at, id, r)
  BY <1>0, Zenon DEF RxRingInv
<1>2. /\ Layout(mem, taken, wr, last, sent, m, at, id)
      /\ Place(rx, more, rd, last, sent, m, at, id, r)
      /\ interfered = FALSE =>
           Calm(rx, more, timer, status, simr, skipped, last, sent, recvBit, m, at, id, r)
  BY <1>1, Zenon DEF RxRing
<1>3. interfered' # FALSE
  BY <1>0, <1>2 DEF Calm
<1>4. CASE taken' = taken
  <2>1. Place(rx', more', rd', last, sent, m, at, id, r)
    BY <1>0, <1>2, Zenon DEF Place
  <2> QED  BY <1>0, <1>1, <1>3, <1>4, <2>1, RxRests, Zenon
<1>5. CASE taken' = rd
  <2>1. r \in 0 .. m /\ at[r] % PtrMod = rd /\ m \in Nat /\ last <= sent
    BY <1>2 DEF Place, Layout
  <2>2. \A i \in r + 1 .. m : last < id[i]
    <3> SUFFICES ASSUME NEW i \in r + 1 .. m PROVE last < id[i]
      OBVIOUS
    <3>1. i \in 1 .. m
      BY <2>1
    <3> QED  BY <3>1, <1>2 DEF Layout
  <2>3. Layout(mem, taken, wr, last, sent, m, at, id)
    BY <1>2
  <2>4. PICK at2, id2 :
          /\ Layout(mem, at[r] % PtrMod, wr, last, sent, m - r, at2, id2)
          /\ \A i \in 0 .. m - r : at2[i] = at[i + r]
          /\ \A i \in 1 .. m - r : id2[i] = id[i + r]
    <3>1. r \in 0 .. m
      BY <2>1
    <3> QED  BY <2>1, <2>2, <2>3, <3>1, Dropped
  <2>5. /\ m - r \in Nat /\ 0 \in 0 .. m - r /\ at2[0] = at[r]
        /\ r = 0 /\ m > 0 => at2[0] = at[0] /\ at2[1] = at[1] /\ id2[1] = id[1] /\ m - r > 0
    <3>1. m - r \in Nat /\ 0 \in 0 .. m - r /\ 0 + r = r
      BY <2>1
    <3>2. r = 0 /\ m > 0 => 1 \in 0 .. m - r /\ 1 \in 1 .. m - r /\ 1 + r = 1 /\ m - r > 0
      BY <2>1
    <3> QED  BY <3>1, <3>2, <2>4
  <2>6. Layout(mem', taken', wr', last', sent', m - r, at2, id2)
    BY <1>0, <1>5, <2>1, <2>4
  <2>7. ASSUME rx.pc = "recv", rx.flush = FALSE
        PROVE  /\ last < rx.frame /\ rx.frame <= sent
               /\ \A i \in 0 + 1 .. m - r : rx.frame < id2[i]
    <3>1. /\ last < rx.frame /\ rx.frame <= sent
          /\ \A i \in r + 1 .. m : rx.frame < id[i]
      BY <1>2, <2>7 DEF Place
    <3>2. ASSUME NEW i \in 0 + 1 .. m - r PROVE rx.frame < id2[i]
      <4>1. i \in 1 .. m - r /\ i + r \in r + 1 .. m
        BY <2>1
      <4> QED  BY <4>1, <3>1, <2>4
    <3> QED  BY <3>1, <3>2
  <2>8. Place(rx', more', rd', last', sent', m - r, at2, id2, 0)
    BY <1>0, <1>2, <2>1, <2>5, <2>7 DEF Place, Takes
  <2>9. RxRing(m - r, at2, id2, 0)'
    BY <2>6, <2>8, <1>3, Zenon DEF RxRing
  <2> QED  BY <1>0, <2>9, Zenon DEF RxRingInv
<1> QED  BY <1>0, <1>4, <1>5

-----------------------------------------------------------------------------
(***************************************************************************)
(* The theorems.                                                           *)
(***************************************************************************)

\* Once the ring is torn the history says no more, and without a failure the RX
\* task always begins where the chip was told it is.
LEMMA TornKeeps ==
  ASSUME RxInv, [RxNext]_receiverVars
  PROVE  /\ torn' = TRUE => damaged' = FALSE
         /\ interfered' = FALSE => torn' = FALSE
<1> USE DEF RxInv
<1>t. torn \in BOOLEAN /\ damaged \in BOOLEAN /\ interfered \in BOOLEAN /\ torn' \in BOOLEAN
  BY RxTypeKeeps, Zenon DEF RxType
<1>1. CASE Release
  <2>1. torn' = torn /\ (interfered' = FALSE => interfered = FALSE)
    BY <1>1, <1>t, Zenon DEF Release, Disturb
  <2>2. torn = TRUE => damaged' = damaged
    BY <1>1, <1>t, Zenon DEF Release, Input, delivered
  <2> QED  BY <2>1, <2>2, <1>t, Zenon
<1>2. CASE ClearStatus
  <2>1. damaged' = damaged /\ (interfered' = FALSE => interfered = FALSE)
    BY <1>2, <1>t, Zenon DEF ClearStatus, delivered
  <2>2. ASSUME interfered' = FALSE PROVE torn' = FALSE
    <3>1. rx.pc = "clear" /\ torn = FALSE /\ interfered = FALSE
      BY <1>2, <2>1, <2>2, Zenon DEF ClearStatus
    <3>2. PICK m, at, id, r : RxRing(m, at, id, r)
      BY <3>1, Zenon DEF RxRingInv
    <3>3. /\ Layout(mem, taken, wr, last, sent, m, at, id)
          /\ Place(rx, more, rd, last, sent, m, at, id, r)
          /\ Calm(rx, more, timer, status, simr, skipped, last, sent, recvBit, m, at, id, r)
      BY <3>1, <3>2, Zenon DEF RxRing
    <3>4. rd = taken
      BY <3>1, <3>3 DEF Layout, Place, Calm
    <3> QED  BY <1>2, <3>1, <3>4, Zenon DEF ClearStatus
  <2> QED  BY <2>1, <2>2, Zenon
<1>3. CASE StopDrain
  BY <1>3, Zenon DEF StopDrain, rxVars, delivered
<1>4. CASE \/ TakeNotification \/ ReadStatus \/ ReadSize \/ ReadHead \/ ReadPayload
           \/ Advance \/ DrainPointer \/ DrainRelease \/ Test
  <2>1. torn' = torn /\ damaged' = damaged /\ (interfered' = FALSE => interfered = FALSE)
    BY <1>4, <1>t, Zenon DEF TakeNotification, ReadStatus, ReadSize, ReadHead, ReadPayload,
       Advance, DrainPointer, DrainRelease, Test, Disturb, Interfere, history, delivered
  <2> QED  BY <2>1, Zenon
<1>5. CASE \/ Arrive \/ Flap \/ CheckLink \/ Open \/ Enable \/ AwaitSend \/ StopRelease
           \/ Disable \/ Close \/ UNCHANGED receiverVars
  <2>1. torn' = torn /\ damaged' = damaged /\ (interfered' = FALSE => interfered = FALSE)
    BY <1>5, <1>t, Zenon DEF Arrive, Flap, CheckLink, Open, Enable, AwaitSend, StopRelease,
       Disable, Close, receiverVars, rxVars, Interfere, history, delivered
  <2> QED  BY <2>1, Zenon
<1> QED  BY <1>1, <1>2, <1>3, <1>4, <1>5, Zenon DEF RxNext, RxTask, TimerTask

LEMMA RxInvariant == RxSpec => []RxInv
<1>1. RxInit => RxInv
  BY RxStarts
<1>2. RxInv /\ [RxNext]_receiverVars => RxInv'
  <2> SUFFICES ASSUME RxInv, [RxNext]_receiverVars PROVE RxInv'
    OBVIOUS
  <2>1. RxType'
    BY RxTypeKeeps, Zenon DEF RxInv
  <2>2. /\ torn' = TRUE => damaged' = FALSE
        /\ interfered' = FALSE => torn' = FALSE
    BY TornKeeps
  <2>3. torn' = TRUE \/ torn' = FALSE
    BY <2>1, Zenon DEF RxType
  <2>4. ASSUME torn' = FALSE PROVE RxRingInv' /\ damaged' = FALSE
    <3>1. ~DrainPointer /\ ~DrainRelease
      <4>1. torn = FALSE => rx.pc # "drain" /\ rx.pc # "drained"
        BY ZenonT(40) DEF RxInv, RxRingInv, RxRing, Place
      <4>2. ASSUME DrainPointer \/ DrainRelease PROVE torn = FALSE
        BY <2>4, <4>2, Zenon DEF DrainPointer, DrainRelease, Disturb
      <4> QED  BY <4>1, <4>2, Zenon DEF DrainPointer, DrainRelease
    <3> QED  BY <2>4, <3>1, NoticeKeeps, ReadSizeKeeps, ReadHeadKeeps, ReadPayloadKeeps,
                AdvanceKeeps, ReleaseKeeps, ArriveKeeps, LinkKeeps, StopDrainKeeps,
                StopReleaseKeeps, Zenon DEF RxNext, RxTask, TimerTask
  <2>5. torn' = TRUE => RxRingInv'
    BY Zenon DEF RxRingInv
  <2> QED  BY <2>1, <2>2, <2>3, <2>4, <2>5, Zenon DEF RxInv
<1> QED  BY <1>1, <1>2, PTL DEF RxSpec

\* Whatever the size of RX memory and the sizes of the frames, through any failures
\* and link losses: the stack is given frames undamaged, once and in the order of
\* their arrival, as long as the RX task begins where the chip was told it is.
THEOREM FramesAlwaysInOrder == RxSpec => []InOrder
<1>1. RxInv => InOrder
  BY Zenon DEF RxInv, InOrder
<1> QED  BY <1>1, RxInvariant, PTL

\* In the same generality, without a failure and without a link loss no frame is
\* lost: the RX task does not rest before every frame that arrived was delivered.
THEOREM NothingEverLost == RxSpec => []NothingLost
<1>1. RxInv => NothingLost
  <2> SUFFICES ASSUME RxInv, ~interfered, rx.pc = "wait", ~Low, timer = "idle", status
               PROVE  last = sent /\ ~skipped
    BY Zenon DEF NothingLost
  <2>1. /\ interfered = FALSE /\ torn = FALSE /\ status = TRUE
        /\ recvBit \in BOOLEAN /\ simr \in BOOLEAN
    BY Zenon DEF RxInv, RxType
  <2>2. PICK m, at, id, r : RxRing(m, at, id, r)
    BY <2>1, Zenon DEF RxInv, RxRingInv
  <2>3. Calm(rx, more, timer, status, simr, skipped, last, sent, recvBit, m, at, id, r)
    BY <2>1, <2>2, Zenon DEF RxRing
  <2>4. recvBit # TRUE
    BY <2>1, <2>3, Zenon DEF Calm, Low
  <2>5. m = 0 /\ skipped = FALSE /\ last + m = sent
    BY <2>3, <2>4 DEF Calm
  <2>6. last \in Nat
    BY DEF RxInv, RxType
  <2> QED  BY <2>5, <2>6
<1> QED  BY <1>1, RxInvariant, PTL

==============================================================================
