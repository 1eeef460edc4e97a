---------------------------- MODULE NtpPathProofs ----------------------------
(* Proofs about the NTP path diagnostics. *)
EXTENDS NtpPath, TLAPS

-----------------------------------------------------------------------------
(***************************************************************************)
(* The path diagnostics.                                                   *)
(***************************************************************************)

Slots == 0 .. HistorySize - 1
Held == IF reader.pc = "frame" THEN 1 ELSE 0
ReaderPlaces == {"idle", "frame", "ok"}
Sample == [sequence : Nat, start : Nat, sent : BOOLEAN, request : Nat]

PathType ==
  /\ reader \in [pc : ReaderPlaces, request : Nat]
  /\ requests = [history |-> requests.history, next |-> requests.next,
                 consumed |-> requests.consumed]
  /\ requests.next \in Nat /\ requests.history \in [Slots -> Nat]
  /\ mailbox \in Seq(Nat) /\ waiting \in Seq(Nat)
  /\ took = [request |-> took.request, sample |-> took.sample, reply |-> took.reply]
  /\ took.request \in Nat
  /\ shifted = [lost |-> shifted.lost, overwritten |-> shifted.overwritten]
  /\ shifted.lost \in BOOLEAN /\ shifted.overwritten \in BOOLEAN

\* While no sample was overwritten, the history holds every request that was not
\* taken yet.
FramesInv ==
  ~shifted.overwritten =>
    /\ requests.consumed \in 0 .. requests.next
    /\ requests.next - requests.consumed <= HistorySize
    /\ \A slot \in Slots : requests.history[slot] <= requests.next
    /\ \A f \in requests.consumed + 1 .. requests.next :
         requests.history[f % HistorySize] = f

\* The requests on their way to the callback are at least as late as the samples
\* that wait for them, and exactly those when none was lost.
MailboxInv ==
  ~shifted.overwritten =>
    /\ requests.consumed + Len(mailbox) + Held <= requests.next
    /\ \A i \in 1 .. Len(mailbox) :
         mailbox[i] >= requests.consumed + i /\ mailbox[i] <= requests.next
    /\ reader.pc = "frame" => reader.request = requests.next
    /\ ~shifted.lost =>
         /\ requests.consumed + Len(mailbox) + Held = requests.next
         /\ \A i \in 1 .. Len(mailbox) : mailbox[i] = requests.consumed + i

TookInv ==
  took.request # 0 /\ ~shifted.overwritten =>
    /\ took.sample \in 1 .. took.request
    /\ ~shifted.lost => took.sample = took.request

RequestInv == PathType /\ FramesInv /\ MailboxInv /\ TookInv

LEMMA Remainder ==
  ASSUME NEW a \in Nat, NEW n \in Nat \ {0}
  PROVE  /\ a % n \in 0 .. n - 1
         /\ a \div n \in Nat /\ a = n * (a \div n) + (a % n)
<1>1. a \div n \in Int
  BY SMT
<1>2. a % n \in 0 .. n - 1
  BY SMT
<1>3. a = n * (a \div n) + (a % n)
  BY SMT
<1>4. a \div n >= 0
  BY SMT
<1> QED  BY <1>1, <1>2, <1>3, <1>4

\* Two numbers less than n apart have different remainders.
LEMMA SlotsDiffer ==
  ASSUME NEW n \in Nat \ {0}, NEW a \in Nat, NEW b \in Nat,
         a < b, b - a < n
  PROVE  a % n # b % n
<1> SUFFICES ASSUME a % n = b % n PROVE FALSE
  OBVIOUS
<1> DEFINE q == a \div n  r == b \div n  s == a % n
<1>1. q \in Int /\ r \in Int /\ s \in 0 .. n - 1 /\ a = n * q + s /\ b = n * r + s
  BY Remainder
<1> HIDE DEF q, r, s
<1>2. b - a = n * (r - q)
  BY <1>1
<1>3. CASE r - q >= 1
  <2>1. n * (r - q) >= n
    BY <1>1, <1>3
  <2> QED  BY <1>2, <2>1
<1>4. CASE r - q <= 0
  <2>1. n * (r - q) <= 0
    BY <1>1, <1>4
  <2> QED  BY <1>2, <2>1
<1> QED  BY <1>1, <1>3, <1>4

LEMMA RequestStarts == PathInit => RequestInv
<1> SUFFICES ASSUME PathInit PROVE RequestInv
  OBVIOUS
<1> USE DEF PathInit
<1>1. shifted.lost = FALSE /\ shifted.overwritten = FALSE
  BY Zenon
<1>2. shifted = [lost |-> shifted.lost, overwritten |-> shifted.overwritten]
  BY <1>1, Zenon
<1>3. requests = [history |-> [slot \in Slots |-> 0], next |-> 0, consumed |-> 0]
  BY Zenon DEF Slots
<1>4. requests.history \in [Slots -> Nat]
  BY <1>3
<1>5. PathType
  <2>1. shifted.lost \in BOOLEAN /\ shifted.overwritten \in BOOLEAN
    BY <1>1, Zenon
  <2>2. requests = [history |-> requests.history, next |-> requests.next,
                    consumed |-> requests.consumed]
    BY <1>3, Zenon
  <2>3. requests.next \in Nat
    BY <1>3
  <2>4. reader \in [pc : ReaderPlaces, request : Nat]
    BY DEF ReaderPlaces
  <2>5. mailbox \in Seq(Nat) /\ waiting \in Seq(Nat)
    OBVIOUS
  <2>6. took = [request |-> took.request, sample |-> took.sample, reply |-> took.reply]
        /\ took.request \in Nat
    OBVIOUS
  <2> QED  BY <1>2, <1>4, <2>1, <2>2, <2>3, <2>4, <2>5, <2>6, Zenon DEF PathType
<1>6. FramesInv
  BY <1>3, PathAssumption DEF FramesInv, Slots
<1>7. MailboxInv
  BY <1>3 DEF MailboxInv, Held
<1>8. TookInv
  BY DEF TookInv
<1> QED  BY <1>5, <1>6, <1>7, <1>8 DEF RequestInv

LEMMA ReadRequestKeeps ==
  ASSUME RequestInv, ReadRequest
  PROVE  RequestInv'
<1> DEFINE frame == requests.next + 1
           slot == frame % HistorySize
<1>1. /\ requests' = [requests EXCEPT !.next = frame, !.history[slot] = frame]
      /\ reader' = [pc |-> "frame", request |-> frame]
      /\ shifted' = [shifted EXCEPT !.overwritten =
                          @ \/ frame - requests.consumed > HistorySize]
      /\ reader.pc = "idle"
      /\ UNCHANGED <<time, mailbox, server, replies, sendOk, waiting, took>>
  BY DEF ReadRequest
<1>t. PathType
  BY DEF RequestInv
<1>2. frame \in Nat /\ slot \in Slots /\ HistorySize \in Nat /\ HistorySize > 0
  <2>1. frame \in Nat
    BY <1>t DEF PathType
  <2> HIDE DEF frame
  <2> QED  BY <2>1, Remainder, PathAssumption DEF Slots
<1> HIDE DEF frame, slot
<1>3. /\ requests'.next = frame /\ requests'.consumed = requests.consumed
      /\ requests'.history = [requests.history EXCEPT ![slot] = frame]
      /\ requests' = [history |-> requests'.history, next |-> requests'.next,
                      consumed |-> requests'.consumed]
  BY <1>1, <1>t DEF PathType
<1>4. requests'.history \in [Slots -> Nat]
  BY <1>3, <1>2, <1>t DEF PathType
<1> DEFINE over == shifted.overwritten \/ frame - requests.consumed > HistorySize
<1>5. /\ shifted'.lost = shifted.lost /\ shifted'.overwritten = over
      /\ shifted' = [lost |-> shifted'.lost, overwritten |-> shifted'.overwritten]
      /\ over \in BOOLEAN
  BY <1>1, <1>t, Zenon DEF PathType
<1>6. PathType'
  <2>1. reader' \in [pc : ReaderPlaces, request : Nat]
    BY <1>1, <1>2 DEF ReaderPlaces
  <2>2. shifted'.lost \in BOOLEAN /\ shifted'.overwritten \in BOOLEAN
    BY <1>5, <1>t, Zenon DEF PathType
  <2>3. requests'.next \in Nat
    BY <1>3, <1>2
  <2>4. mailbox' \in Seq(Nat) /\ waiting' \in Seq(Nat)
    BY <1>1, <1>t, Zenon DEF PathType
  <2>5. /\ took' = [request |-> took'.request, sample |-> took'.sample, reply |-> took'.reply]
        /\ took'.request \in Nat
    BY <1>1, <1>t, Zenon DEF PathType
  <2> QED  BY <1>3, <1>4, <1>5, <2>1, <2>2, <2>3, <2>4, <2>5, Zenon DEF PathType
<1>7. ~shifted'.overwritten =>
        ~shifted.overwritten /\ ~(frame - requests.consumed > HistorySize)
  BY <1>5, Zenon
<1>8. FramesInv'
  <2> SUFFICES ASSUME ~shifted'.overwritten
               PROVE  /\ requests'.consumed \in 0 .. requests'.next
                      /\ requests'.next - requests'.consumed <= HistorySize
                      /\ \A s \in Slots : requests'.history[s] <= requests'.next
                      /\ \A f \in requests'.consumed + 1 .. requests'.next :
                           requests'.history[f % HistorySize] = f
    BY Zenon DEF FramesInv
  <2>1. /\ requests.consumed \in 0 .. requests.next
        /\ \A s \in Slots : requests.history[s] <= requests.next
        /\ \A f \in requests.consumed + 1 .. requests.next :
             requests.history[f % HistorySize] = f
        /\ ~(frame - requests.consumed > HistorySize)
    BY <1>7 DEF FramesInv, RequestInv
  <2>2. requests'.consumed \in 0 .. requests'.next
        /\ requests'.next - requests'.consumed <= HistorySize
    BY <2>1, <1>2, <1>3, <1>t DEF frame, PathType
  <2>3. \A s \in Slots : requests'.history[s] <= requests'.next
    BY <2>1, <1>2, <1>3, <1>t DEF frame, PathType
  <2>4. ASSUME NEW f \in requests'.consumed + 1 .. requests'.next
        PROVE  requests'.history[f % HistorySize] = f
    <3>1. f \in Nat /\ f % HistorySize \in Slots
      <4>1. f \in Nat
        BY <2>1, <1>2, <1>3
      <4> QED  BY <4>1, <1>2, Remainder DEF Slots
    <3>2. CASE f = frame
      BY <3>1, <3>2, <1>3, <1>t DEF slot, PathType
    <3>3. CASE f # frame
      <4>1. f < frame /\ frame - f < HistorySize /\ f \in requests.consumed + 1 .. requests.next
        BY <3>1, <3>3, <2>1, <1>2, <1>3, <1>t, SMTT(30) DEF frame, PathType
      <4>2. f % HistorySize # slot
        <5>1. HistorySize \in Nat \ {0} /\ frame \in Nat /\ f \in Nat
          BY <3>1, <1>2
        <5> QED  BY <4>1, <5>1, SlotsDiffer, Zenon DEF slot
      <4>3. requests.history[f % HistorySize] = f
        BY <2>1, <4>1
      <4> QED  BY <4>2, <4>3, <3>1, <1>3, <1>t DEF PathType
    <3> QED  BY <3>2, <3>3
  <2> QED  BY <2>2, <2>3, <2>4, Zenon
<1>9. MailboxInv'
  <2> SUFFICES ASSUME ~shifted'.overwritten
               PROVE  MailboxInv'
    BY Zenon DEF MailboxInv
  <2>1. Held = 0 /\ Held' = 1 /\ reader'.request = frame /\ reader'.pc = "frame"
    BY <1>1 DEF Held
  <2>2. ~shifted.overwritten /\ mailbox' = mailbox /\ shifted'.lost = shifted.lost
    BY <1>1, <1>5, <1>7
  <2>3. requests.consumed \in Nat /\ requests.next \in Nat /\ mailbox \in Seq(Nat)
    BY <2>2, <1>t DEF RequestInv, FramesInv, PathType
  <2>4. /\ requests.consumed + Len(mailbox) <= requests.next
        /\ \A i \in 1 .. Len(mailbox) :
             mailbox[i] >= requests.consumed + i /\ mailbox[i] <= requests.next
        /\ ~shifted.lost =>
             /\ requests.consumed + Len(mailbox) = requests.next
             /\ \A i \in 1 .. Len(mailbox) : mailbox[i] = requests.consumed + i
    BY <2>1, <2>2, <2>3 DEF RequestInv, MailboxInv
  <2>5. requests'.consumed + Len(mailbox') + Held' <= requests'.next
    BY <2>1, <2>2, <2>3, <2>4, <1>3 DEF frame
  <2>6. \A i \in 1 .. Len(mailbox') :
             mailbox'[i] >= requests'.consumed + i /\ mailbox'[i] <= requests'.next
    BY <2>2, <2>3, <2>4, <1>3 DEF frame
  <2>7. ~shifted'.lost =>
             /\ requests'.consumed + Len(mailbox') + Held' = requests'.next
             /\ \A i \in 1 .. Len(mailbox') : mailbox'[i] = requests'.consumed + i
    BY <2>1, <2>2, <2>3, <2>4, <1>3 DEF frame
  <2>8. reader'.request = requests'.next
    BY <2>1, <1>3
  <2> QED  BY <2>5, <2>6, <2>7, <2>8, Zenon DEF MailboxInv
<1>10. TookInv'
  BY <1>1, <1>5, <1>7, Zenon DEF TookInv, RequestInv
<1> QED  BY <1>6, <1>8, <1>9, <1>10 DEF RequestInv

LEMMA HandOverKeeps ==
  ASSUME RequestInv, HandOver
  PROVE  RequestInv'
<1>1. /\ reader.pc = "frame" /\ reader' = [reader EXCEPT !.pc = "idle"]
      /\ requests' = requests /\ took' = took /\ waiting' = waiting
  BY DEF HandOver
<1>t. PathType
  BY DEF RequestInv
<1>2. reader' \in [pc : ReaderPlaces, request : Nat] /\ reader'.pc = "idle"
      /\ reader.request \in Nat
  BY <1>1, <1>t DEF PathType, ReaderPlaces
<1>3. CASE mailbox' = Append(mailbox, reader.request) /\ UNCHANGED shifted
  <2>1. mailbox' \in Seq(Nat)
    BY <1>2, <1>3, <1>t DEF PathType
  <2>2. PathType'
    BY <1>1, <1>2, <1>3, <2>1, <1>t, Zenon DEF PathType
  <2>3. FramesInv' /\ TookInv'
    BY <1>1, <1>3, Zenon DEF FramesInv, TookInv, RequestInv
  <2>4. ASSUME ~shifted.overwritten
        PROVE  MailboxInv'
    <3>1. Held = 1 /\ Held' = 0
      BY <1>1, <1>2 DEF Held
    <3>2. requests.consumed \in Nat /\ requests.next \in Nat /\ mailbox \in Seq(Nat)
      BY <2>4, <1>t DEF RequestInv, FramesInv, PathType
    <3>3. /\ requests.consumed + Len(mailbox) + 1 <= requests.next
          /\ \A i \in 1 .. Len(mailbox) :
               mailbox[i] >= requests.consumed + i /\ mailbox[i] <= requests.next
          /\ reader.request = requests.next
          /\ ~shifted.lost =>
               /\ requests.consumed + Len(mailbox) + 1 = requests.next
               /\ \A i \in 1 .. Len(mailbox) : mailbox[i] = requests.consumed + i
      BY <1>1, <2>4, <3>1 DEF RequestInv, MailboxInv
    <3>4. /\ Len(mailbox') = Len(mailbox) + 1
          /\ mailbox'[Len(mailbox) + 1] = requests.next
          /\ \A i \in 1 .. Len(mailbox) : mailbox'[i] = mailbox[i]
      BY <1>2, <1>3, <3>2, <3>3
    <3>5. requests.consumed + Len(mailbox') + 0 <= requests.next
      BY <3>2, <3>3, <3>4
    <3>6. \A i \in 1 .. Len(mailbox') :
               mailbox'[i] >= requests.consumed + i /\ mailbox'[i] <= requests.next
      <4> SUFFICES ASSUME NEW i \in 1 .. Len(mailbox')
                   PROVE  mailbox'[i] >= requests.consumed + i /\ mailbox'[i] <= requests.next
        BY Zenon
      <4>1. CASE i = Len(mailbox) + 1
        BY <4>1, <3>2, <3>3, <3>4
      <4>2. CASE i \in 1 .. Len(mailbox)
        BY <4>2, <3>3, <3>4
      <4> QED  BY <4>1, <4>2, <3>2, <3>4
    <3>7. ~shifted.lost =>
               /\ requests.consumed + Len(mailbox') + 0 = requests.next
               /\ \A i \in 1 .. Len(mailbox') : mailbox'[i] = requests.consumed + i
      <4> SUFFICES ASSUME ~shifted.lost
                   PROVE  /\ requests.consumed + Len(mailbox') + 0 = requests.next
                          /\ \A i \in 1 .. Len(mailbox') : mailbox'[i] = requests.consumed + i
        BY Zenon
      <4>1. /\ requests.consumed + Len(mailbox) + 1 = requests.next
            /\ \A i \in 1 .. Len(mailbox) : mailbox[i] = requests.consumed + i
        BY <3>3, Zenon
      <4>2. ASSUME NEW i \in 1 .. Len(mailbox') PROVE mailbox'[i] = requests.consumed + i
        <5>1. CASE i = Len(mailbox) + 1
          BY <5>1, <4>1, <3>2, <3>4
        <5>2. CASE i \in 1 .. Len(mailbox)
          BY <5>2, <4>1, <3>4
        <5> QED  BY <5>1, <5>2, <3>2, <3>4
      <4>3. requests.consumed + Len(mailbox') + 0 = requests.next
        <5>1. Len(mailbox) \in Nat
          BY <3>2
        <5>2. requests.consumed + Len(mailbox) + 1 = requests.next
          BY <4>1, Zenon
        <5> QED  BY <5>1, <5>2, <3>2, <3>4
      <4> QED  BY <4>2, <4>3, Zenon
    <3> QED  BY <1>1, <1>2, <1>3, <3>1, <3>5, <3>6, <3>7, Zenon DEF MailboxInv
  <2>5. MailboxInv'
    BY <2>4, <1>3, Zenon DEF MailboxInv
  <2> QED  BY <2>2, <2>3, <2>5 DEF RequestInv
<1>4. CASE shifted' = [shifted EXCEPT !.lost = TRUE] /\ UNCHANGED mailbox
  <2>1. /\ shifted'.lost = TRUE /\ shifted'.overwritten = shifted.overwritten
        /\ shifted' = [lost |-> shifted'.lost, overwritten |-> shifted'.overwritten]
    BY <1>4, <1>t, Zenon DEF PathType
  <2>2. PathType'
    BY <1>1, <1>2, <1>4, <2>1, <1>t, Zenon DEF PathType
  <2>3. FramesInv' /\ TookInv'
    BY <1>1, <1>4, <2>1, Zenon DEF FramesInv, TookInv, RequestInv
  <2>4. ASSUME ~shifted.overwritten
        PROVE  MailboxInv'
    <3>1. Held = 1 /\ Held' = 0
      BY <1>1, <1>2 DEF Held
    <3>2. requests.consumed \in Nat /\ requests.next \in Nat /\ mailbox \in Seq(Nat)
      BY <2>4, <1>t DEF RequestInv, FramesInv, PathType
    <3>3. /\ requests.consumed + Len(mailbox) + 1 <= requests.next
          /\ \A i \in 1 .. Len(mailbox) :
               mailbox[i] >= requests.consumed + i /\ mailbox[i] <= requests.next
      BY <1>1, <2>4, <3>1 DEF RequestInv, MailboxInv
    <3>4. requests.consumed + Len(mailbox) + 0 <= requests.next
      BY <3>2, <3>3
    <3> QED  BY <1>1, <1>2, <1>4, <2>1, <3>1, <3>3, <3>4, Zenon DEF MailboxInv
  <2>5. MailboxInv'
    BY <2>4, <2>1, Zenon DEF MailboxInv
  <2> QED  BY <2>2, <2>3, <2>5 DEF RequestInv
<1> QED  BY <1>3, <1>4 DEF HandOver

LEMMA CallbackKeeps ==
  ASSUME RequestInv, Callback
  PROVE  RequestInv'
<1> DEFINE held == {requests.history[slot] : slot \in DOMAIN requests.history}
           frames == {f \in held : f > requests.consumed}
           chosen == IF frames = {} THEN 0 ELSE FirstOf(frames)
<1>1. /\ mailbox # <<>> /\ mailbox' = Tail(mailbox)
      /\ requests' = [requests EXCEPT
                            !.consumed = IF frames = {} THEN requests.consumed ELSE chosen]
      /\ took' = [request |-> Head(mailbox), sample |-> chosen, reply |-> 0]
      /\ reader' = reader /\ waiting' = waiting /\ shifted' = shifted
  BY DEF Callback
<1>t. PathType
  BY DEF RequestInv
<1>2. mailbox \in Seq(Nat) /\ Len(mailbox) \in Nat \ {0}
  BY <1>1, <1>t DEF PathType
<1>3. /\ Head(mailbox) = mailbox[1] /\ mailbox[1] \in Nat
      /\ mailbox' \in Seq(Nat) /\ Len(mailbox') = Len(mailbox) - 1
      /\ \A i \in 1 .. Len(mailbox') : mailbox'[i] = mailbox[i + 1]
  BY <1>1, <1>2
<1>4. /\ requests'.next = requests.next /\ requests'.history = requests.history
      /\ requests'.consumed = IF frames = {} THEN requests.consumed ELSE chosen
      /\ requests' = [history |-> requests'.history, next |-> requests'.next,
                      consumed |-> requests'.consumed]
  <2> HIDE DEF frames, chosen
  <2> QED  BY <1>1, <1>t, Zenon DEF PathType
<1>5. took'.request = mailbox[1] /\ took'.sample = chosen
      /\ took' = [request |-> took'.request, sample |-> took'.sample, reply |-> took'.reply]
  <2> HIDE DEF chosen
  <2> QED  BY <1>1, <1>3, Zenon
<1>6. PathType'
  BY <1>1, <1>3, <1>4, <1>5, <1>t, Zenon DEF PathType
<1>7. ASSUME ~shifted.overwritten
      PROVE  chosen = requests.consumed + 1 /\ frames # {}
             /\ requests.consumed \in Nat /\ requests.next \in Nat
             /\ requests.consumed + 1 <= mailbox[1] /\ mailbox[1] <= requests.next
  <2>1. /\ requests.consumed \in 0 .. requests.next /\ requests.next \in Nat
        /\ \A s \in Slots : requests.history[s] <= requests.next
        /\ \A f \in requests.consumed + 1 .. requests.next :
             requests.history[f % HistorySize] = f
        /\ requests.history \in [Slots -> Nat]
    BY <1>7, <1>t DEF FramesInv, RequestInv, PathType
  <2>2. 1 \in 1 .. Len(mailbox)
    BY <1>2
  <2>3. mailbox[1] >= requests.consumed + 1 /\ mailbox[1] <= requests.next
    BY <1>7, <2>2 DEF RequestInv, MailboxInv
  <2> DEFINE first == requests.consumed + 1
  <2>4. first \in Nat /\ first \in requests.consumed + 1 .. requests.next
    BY <2>1, <2>3, <1>3
  <2>5. first % HistorySize \in Slots
    BY <2>4, PathAssumption, Remainder DEF Slots
  <2>6. first \in frames
    <3>1. requests.history[first % HistorySize] = first
      BY <2>1, <2>4
    <3>2. first > requests.consumed
      BY <2>1
    <3> HIDE DEF first
    <3>3. first \in held
      BY <3>1, <2>5, <2>1
    <3> HIDE DEF held
    <3> QED  BY <3>2, <3>3
  <2>7. \A f \in frames : first <= f
    <3> SUFFICES ASSUME NEW f \in held, f > requests.consumed PROVE first <= f
      OBVIOUS
    <3>1. f \in Nat
      BY <2>1
    <3> HIDE DEF held
    <3> QED  BY <3>1, <2>1
  <2>8. \A f \in frames : f \in Nat
    BY <2>1
  <2>9. FirstOf(frames) = first
    <3> HIDE DEF frames, first
    <3>1. FirstOf(frames) \in frames /\ \A y \in frames : FirstOf(frames) <= y
      BY <2>6, <2>7, Zenon DEF FirstOf, Min
    <3>2. FirstOf(frames) <= first /\ first <= FirstOf(frames) /\ FirstOf(frames) \in Nat
      BY <3>1, <2>6, <2>7, <2>8, Zenon
    <3> QED  BY <3>2, <2>4
  <2> HIDE DEF frames
  <2> QED  BY <2>1, <2>3, <2>6, <2>9
<1> HIDE DEF frames, chosen
<1>8. ~shifted.overwritten => requests'.consumed = requests.consumed + 1
  BY <1>4, <1>7
<1>9. FramesInv'
  <2> SUFFICES ASSUME ~shifted.overwritten PROVE FramesInv'
    BY <1>1, Zenon DEF FramesInv
  <2>1. /\ requests.next - requests.consumed <= HistorySize
        /\ \A s \in Slots : requests.history[s] <= requests.next
        /\ \A f \in requests.consumed + 1 .. requests.next :
             requests.history[f % HistorySize] = f
    BY DEF FramesInv, RequestInv
  <2>2. requests'.consumed \in 0 .. requests'.next
    BY <1>4, <1>7, <1>8, <1>3
  <2>3. requests'.next - requests'.consumed <= HistorySize
    BY <2>1, <1>4, <1>7, <1>8, PathAssumption
  <2>4. \A f \in requests'.consumed + 1 .. requests'.next :
             requests'.history[f % HistorySize] = f
    BY <2>1, <1>4, <1>7, <1>8
  <2> QED  BY <2>1, <2>2, <2>3, <2>4, <1>4, Zenon DEF FramesInv
<1>10. MailboxInv'
  <2> SUFFICES ASSUME ~shifted.overwritten PROVE MailboxInv'
    BY <1>1, Zenon DEF MailboxInv
  <2>1. /\ requests.consumed + Len(mailbox) + Held <= requests.next
        /\ \A i \in 1 .. Len(mailbox) :
             mailbox[i] >= requests.consumed + i /\ mailbox[i] <= requests.next
        /\ reader.pc = "frame" => reader.request = requests.next
        /\ ~shifted.lost =>
             /\ requests.consumed + Len(mailbox) + Held = requests.next
             /\ \A i \in 1 .. Len(mailbox) : mailbox[i] = requests.consumed + i
    BY DEF RequestInv, MailboxInv
  <2>2. Held \in 0 .. 1 /\ Held' = Held
    BY <1>1 DEF Held
  <2>3. requests.consumed \in Nat /\ requests'.consumed = requests.consumed + 1
        /\ requests'.next = requests.next
    BY <1>4, <1>7, <1>8
  <2>4. requests'.consumed + Len(mailbox') + Held' <= requests'.next
    BY <2>1, <2>2, <2>3, <1>2, <1>3, <1>7
  <2>5. \A i \in 1 .. Len(mailbox') :
             mailbox'[i] >= requests'.consumed + i /\ mailbox'[i] <= requests'.next
    <3> SUFFICES ASSUME NEW i \in 1 .. Len(mailbox')
                 PROVE  mailbox'[i] >= requests'.consumed + i /\ mailbox'[i] <= requests'.next
      BY Zenon
    <3>1. i + 1 \in 1 .. Len(mailbox) /\ mailbox'[i] = mailbox[i + 1]
      BY <1>2, <1>3
    <3> QED  BY <2>1, <2>3, <3>1, <1>2, SMTT(30)
  <2>6. ~shifted'.lost =>
             /\ requests'.consumed + Len(mailbox') + Held' = requests'.next
             /\ \A i \in 1 .. Len(mailbox') : mailbox'[i] = requests'.consumed + i
    <3> SUFFICES ASSUME ~shifted.lost
                 PROVE  /\ requests'.consumed + Len(mailbox') + Held' = requests'.next
                        /\ \A i \in 1 .. Len(mailbox') : mailbox'[i] = requests'.consumed + i
      BY <1>1, Zenon
    <3>1. requests'.consumed + Len(mailbox') + Held' = requests'.next
      BY <2>1, <2>2, <2>3, <1>2, <1>3, <1>7
    <3>2. ASSUME NEW i \in 1 .. Len(mailbox') PROVE mailbox'[i] = requests'.consumed + i
      <4>1. i + 1 \in 1 .. Len(mailbox) /\ mailbox'[i] = mailbox[i + 1]
        BY <1>2, <1>3
      <4>2. mailbox[i + 1] = requests.consumed + (i + 1)
        BY <2>1, <4>1, Zenon
      <4>3. i \in Int
        OBVIOUS
      <4>4. mailbox'[i] = requests.consumed + (i + 1)
        BY <4>1, <4>2, Zenon
      <4> QED  BY <2>3, <4>3, <4>4
    <3> QED  BY <3>1, <3>2, Zenon
  <2>7. reader'.pc = "frame" => reader'.request = requests'.next
    BY <1>1, <2>1, <2>3
  <2> QED  BY <2>4, <2>5, <2>6, <2>7, Zenon DEF MailboxInv
<1>11. TookInv'
  <2> SUFFICES ASSUME ~shifted.overwritten
               PROVE  /\ took'.sample \in 1 .. took'.request
                      /\ ~shifted.lost => took'.sample = took'.request
    BY <1>1, Zenon DEF TookInv
  <2>1. ~shifted.lost => mailbox[1] = requests.consumed + 1
    <3>1. 1 \in 1 .. Len(mailbox)
      BY <1>2
    <3> QED  BY <3>1 DEF RequestInv, MailboxInv
  <2> QED  BY <2>1, <1>5, <1>7, <1>3
<1> QED  BY <1>6, <1>9, <1>10, <1>11 DEF RequestInv

\* The other steps of the transmit side leave the requests alone.
LEMMA ElsewhereKeeps ==
  ASSUME RequestInv, UNCHANGED <<requests, mailbox, shifted>>,
         reader' \in [pc : ReaderPlaces, request : Nat],
         reader'.pc = "frame" <=> reader.pc = "frame",
         reader'.request = reader.request \/ reader'.pc # "frame",
         took' = [took EXCEPT !.reply = took'.reply],
         waiting' \in Seq(Nat)
  PROVE  RequestInv'
<1>t. PathType
  BY DEF RequestInv
<1>1. /\ took'.request = took.request /\ took'.sample = took.sample
      /\ took' = [request |-> took'.request, sample |-> took'.sample, reply |-> took'.reply]
  <2> DEFINE r == took'.reply
  <2>1. took' = [took EXCEPT !.reply = r]
    OBVIOUS
  <2> HIDE DEF r
  <2> QED  BY <2>1, <1>t, Zenon DEF PathType
<1>2. PathType'
  BY <1>1, <1>t, Zenon DEF PathType
<1>3. FramesInv' /\ TookInv'
  BY <1>1, Zenon DEF FramesInv, TookInv, RequestInv
<1>4. Held' = Held
  BY DEF Held
<1>5. MailboxInv'
  <2>1. reader'.pc = "frame" => reader.pc = "frame" /\ reader'.request = reader.request
    OBVIOUS
  <2> QED  BY <1>4, <2>1, Zenon DEF MailboxInv, RequestInv
<1> QED  BY <1>2, <1>3, <1>5 DEF RequestInv

\* A reply is written in the call that began at or after its time stamp: what a
\* call finds among the samples is the one it wrote itself.
CallPlaces == {"idle", "send", "write", "command", "poll", "return"}

SampleType ==
  /\ time \in Nat \ {0}
  /\ replies = [history |-> replies.history, active |-> replies.active,
                sample |-> replies.sample, next |-> replies.next,
                consumed |-> replies.consumed]
  /\ replies.history \in [Slots -> Sample]
  /\ replies.sample \in Sample /\ replies.next \in Nat /\ replies.consumed \in Nat
  /\ server = [pc |-> server.pc, request |-> server.request,
               entry |-> server.entry, call |-> server.call]
  /\ server.pc \in CallPlaces /\ server.request \in Nat /\ server.entry \in Nat

OlderInv ==
  /\ replies.sample.start < time
  /\ \A slot \in Slots : replies.history[slot].start < time

\* The samples whose time stamp lies in the call.
Recent(slot) == replies.history[slot].start >= server.entry

OwnCall ==
  /\ server.request = took.request
  /\ server.pc = "command" => replies.sample.sent = FALSE
  /\ server.pc \in {"write", "command", "poll", "return"} =>
       /\ server.entry < time
       /\ \A slot \in Slots : Recent(slot) =>
            server.pc \in {"poll", "return"} /\ replies.history[slot] = replies.sample
       /\ replies.sample.start >= server.entry =>
            server.pc # "write" /\ replies.sample.request = server.request

CallInv == server.call = TRUE => OwnCall

TookReply == took.reply \in {0, took.request}

ReplyInv == SampleType /\ OlderInv /\ CallInv /\ TookReply

LEMMA ReplyStarts == PathInit => ReplyInv
<1> SUFFICES ASSUME PathInit PROVE ReplyInv
  OBVIOUS
<1> USE DEF PathInit
<1>1. NoTx \in Sample
  <2>1. 0 \in Nat /\ FALSE \in BOOLEAN
    OBVIOUS
  <2> QED  BY <2>1, Zenon DEF NoTx, Sample
<1>2. NoTx.start = 0
  BY DEF NoTx
<1> HIDE DEF NoTx
<1>3. /\ replies.history = [slot \in Slots |-> NoTx]
      /\ replies.sample = NoTx /\ replies.next = 0 /\ replies.consumed = 0
      /\ replies = [history |-> replies.history, active |-> replies.active,
                sample |-> replies.sample, next |-> replies.next,
                consumed |-> replies.consumed]
  BY Zenon DEF Slots
<1>4. /\ server = [pc |-> server.pc, request |-> server.request,
               entry |-> server.entry, call |-> server.call]
      /\ server.pc = "idle" /\ server.request = 0 /\ server.entry = 0
      /\ server.call = FALSE
  BY Zenon DEF NoCall
<1>5. replies.history \in [Slots -> Sample]
  BY <1>1, <1>3, Zenon
<1>6. /\ time \in Nat \ {0} /\ replies.next \in Nat /\ replies.consumed \in Nat
      /\ server.pc \in CallPlaces /\ server.request \in Nat /\ server.entry \in Nat
  BY <1>3, <1>4 DEF CallPlaces
<1>7. SampleType
  BY <1>1, <1>3, <1>4, <1>5, <1>6, Zenon DEF SampleType
<1>8. OlderInv
  <2>1. \A slot \in Slots : replies.history[slot].start = 0
    BY <1>2, <1>3, Zenon
  <2>2. replies.sample.start = 0 /\ time = 1
    BY <1>2, <1>3, Zenon
  <2>3. replies.sample.start < time /\ 0 < time
    BY <2>2
  <2> QED  BY <2>1, <2>2, <2>3, Zenon DEF OlderInv
<1>9. CallInv
  BY <1>4, Zenon DEF CallInv
<1>10. TookReply
  BY DEF TookReply
<1> QED  BY <1>7, <1>8, <1>9, <1>10, Zenon DEF ReplyInv

LEMMA CompletedIs ==
  ASSUME SampleType, OlderInv
  PROVE  /\ Completed = [history |-> Completed.history, active |-> Completed.active,
                         sample |-> Completed.sample, next |-> Completed.next,
                         consumed |-> Completed.consumed]
         /\ Completed.sample = replies.sample /\ Completed.next = replies.next
         /\ Completed.consumed = replies.consumed
         /\ Completed.history \in [Slots -> Sample]
         /\ \A slot \in Slots :
              \/ Completed.history[slot] = replies.history[slot]
              \/ replies.sample.sent # FALSE /\ Completed.history[slot] = replies.sample
<1> USE DEF SampleType
<1>1. CASE replies.active /\ replies.sample.sent
  <2> DEFINE h == [replies.history EXCEPT
                     ![replies.sample.sequence % HistorySize] = replies.sample]
  <2>1. Completed = [replies EXCEPT !.history = h, !.active = FALSE]
    BY <1>1, Zenon DEF Completed
  <2>2. h \in [Slots -> Sample] /\ \A slot \in Slots :
              h[slot] = replies.history[slot] \/ h[slot] = replies.sample
    BY Zenon
  <2> HIDE DEF h
  <2>3. Completed = [history |-> h, active |-> FALSE, sample |-> replies.sample,
                     next |-> replies.next, consumed |-> replies.consumed]
    BY <2>1, Zenon
  <2>4. replies.sample.sent # FALSE
    BY <1>1, Zenon
  <2> QED  BY <2>2, <2>3, <2>4, Zenon
<1>2. CASE ~(replies.active /\ replies.sample.sent)
  <2>1. Completed = replies
    BY <1>2, Zenon DEF Completed
  <2> QED  BY <2>1, Zenon
<1> QED  BY <1>1, <1>2, Zenon

\* Completing a sample, and whatever else leaves samples and call alone.
LEMMA SamplesKeep ==
  ASSUME ReplyInv,
         NEW pc \in CallPlaces,
         server' = [server EXCEPT !.pc = pc],
         \/ pc = server.pc
         \/ pc \in {"poll", "return"} /\ server.pc \in {"write", "command", "poll", "return"},
         replies'.sample = replies.sample \/
           /\ server.pc = "command" /\ pc = "poll"
           /\ replies'.sample = [replies.sample EXCEPT !.sent = TRUE],
         replies' = [history |-> replies'.history, active |-> replies'.active,
                     sample |-> replies'.sample, next |-> replies'.next,
                     consumed |-> replies'.consumed],
         replies'.history \in [Slots -> Sample],
         \A slot \in Slots :
           \/ replies'.history[slot] = replies.history[slot]
           \/ /\ replies.sample.sent # FALSE /\ replies'.history[slot] = replies.sample
              /\ replies'.sample = replies.sample,
         replies'.next = replies.next /\ replies'.consumed \in Nat,
         UNCHANGED time, 
         took'.request = took.request,
         took'.reply \in {0, took'.request}
  PROVE  ReplyInv'
<1> USE DEF ReplyInv
<1>1. /\ server' = [pc |-> server'.pc, request |-> server'.request,
                    entry |-> server'.entry, call |-> server'.call]
      /\ server'.pc = pc /\ server'.request = server.request
      /\ server'.entry = server.entry /\ server'.call = server.call
  BY Zenon DEF SampleType
<1>2. /\ replies'.sample \in Sample /\ replies'.sample.start = replies.sample.start
      /\ replies'.sample.request = replies.sample.request
  <2>1. CASE replies'.sample = replies.sample
    BY <2>1, Zenon DEF SampleType
  <2>2. CASE replies'.sample = [replies.sample EXCEPT !.sent = TRUE]
    <3>1. TRUE \in BOOLEAN
      OBVIOUS
    <3> QED  BY <2>2, <3>1, Zenon DEF SampleType, Sample
  <2> QED  BY <2>1, <2>2, Zenon
<1>3. SampleType'
  BY <1>1, <1>2, Zenon DEF SampleType
<1>4. \A slot \in Slots : \/ replies'.history[slot].start = replies.history[slot].start
                          \/ replies'.history[slot].start = replies.sample.start
  BY Zenon
<1>5. OlderInv'
  BY <1>2, <1>4, Zenon DEF OlderInv
<1>6. TookReply'
  BY Zenon DEF TookReply
<1>7. CallInv'
  <2> SUFFICES ASSUME server'.call = TRUE PROVE OwnCall'
    BY Zenon DEF CallInv
  <2>1. OwnCall
    BY <1>1, Zenon DEF CallInv
  <2>2. server'.request = took'.request
    BY <1>1, <2>1, Zenon DEF OwnCall
  <2>3. server'.pc = "command" => replies'.sample.sent = FALSE
    <3> SUFFICES ASSUME pc = "command" PROVE replies'.sample.sent = FALSE
      BY <1>1, Zenon
    <3>1. server.pc = "command" /\ pc # "poll"
      OBVIOUS
    <3>2. replies'.sample = replies.sample
      BY <3>1, Zenon
    <3> QED  BY <3>1, <3>2, <2>1, Zenon DEF OwnCall
  <2>4. ASSUME server'.pc \in {"write", "command", "poll", "return"}
        PROVE  /\ server'.entry < time'
               /\ \A slot \in Slots : Recent(slot)' =>
                    server'.pc \in {"poll", "return"} /\ replies'.history[slot] = replies'.sample
               /\ replies'.sample.start >= server'.entry =>
                    server'.pc # "write" /\ replies'.sample.request = server'.request
    <3>1. server.pc \in {"write", "command", "poll", "return"}
      BY <2>4, <1>1
    <3>2. /\ server.entry < time
          /\ \A slot \in Slots : Recent(slot) =>
               server.pc \in {"poll", "return"} /\ replies.history[slot] = replies.sample
          /\ replies.sample.start >= server.entry =>
               server.pc # "write" /\ replies.sample.request = server.request
      BY <3>1, <2>1, Zenon DEF OwnCall
    <3>3. server'.pc = "write" => server.pc = "write"
      BY <1>1
    <3>4. server.pc \in {"poll", "return"} => server'.pc \in {"poll", "return"}
      BY <1>1
    <3>5. ASSUME NEW slot \in Slots, Recent(slot)'
          PROVE  server'.pc \in {"poll", "return"} /\ replies'.history[slot] = replies'.sample
      <4>1. CASE replies'.history[slot] = replies.history[slot]
        <5>1. Recent(slot)
          BY <3>5, <4>1, <1>1, Zenon DEF Recent
        <5>2. server.pc \in {"poll", "return"} /\ replies.history[slot] = replies.sample
          BY <3>2, <5>1, Zenon
        <5>3. server.pc # "command"
          BY <5>2
        <5>4. replies'.sample = replies.sample
          BY <5>3, Zenon
        <5> QED  BY <5>2, <5>4, <4>1, <3>4, Zenon
      <4>2. CASE /\ replies.sample.sent # FALSE /\ replies'.history[slot] = replies.sample
                 /\ replies'.sample = replies.sample
        <5>1. replies.sample.start >= server.entry
          BY <3>5, <4>2, <1>1, Zenon DEF Recent
        <5>2. server.pc # "write"
          BY <3>2, <5>1, Zenon
        <5>3. server.pc # "command"
          BY <4>2, <2>1, Zenon DEF OwnCall
        <5>4. server.pc \in {"poll", "return"}
          BY <5>2, <5>3, <3>1
        <5> QED  BY <5>4, <4>2, <3>4, Zenon
      <4> QED  BY <4>1, <4>2, Zenon
    <3>6. replies'.sample.start >= server'.entry =>
               server'.pc # "write" /\ replies'.sample.request = server'.request
      BY <3>2, <3>3, <1>1, <1>2, Zenon
    <3> QED  BY <3>2, <3>5, <3>6, <1>1, Zenon
  <2> QED  BY <2>2, <2>3, <2>4, Zenon DEF OwnCall
<1> QED  BY <1>3, <1>5, <1>6, <1>7, Zenon

LEMMA SendReplyKeeps ==
  ASSUME ReplyInv, SendReply
  PROVE  ReplyInv'
<1> USE DEF ReplyInv
<1>1. PICK pc \in {"write", "return"} : server' = [server EXCEPT !.pc = pc, !.entry = time]
  BY Zenon DEF SendReply
<1>2. time' = time + 1 /\ replies' = replies /\ took' = took
  BY DEF SendReply
<1>3. /\ server' = [pc |-> server'.pc, request |-> server'.request,
                    entry |-> server'.entry, call |-> server'.call]
      /\ server'.pc = pc /\ server'.request = server.request
      /\ server'.entry = time /\ server'.call = server.call
  BY <1>1, Zenon DEF SampleType
<1>4. time \in Nat /\ time' \in Nat \ {0} /\ pc \in CallPlaces
  BY <1>2 DEF SampleType, CallPlaces
<1>5. SampleType'
  BY <1>2, <1>3, <1>4, Zenon DEF SampleType
<1>6. replies.sample.start \in Nat /\ \A slot \in Slots : replies.history[slot].start \in Nat
  BY DEF SampleType, Sample
<1>7. OlderInv'
  BY <1>2, <1>4, <1>6 DEF OlderInv
<1>8. ~(replies'.sample.start >= server'.entry) /\ \A slot \in Slots : ~Recent(slot)'
  BY <1>2, <1>3, <1>4, <1>6 DEF OlderInv, Recent
<1>9. pc # "command" /\ server'.entry < time'
  BY <1>2, <1>3, <1>4
<1>10. CallInv'
  BY <1>2, <1>3, <1>8, <1>9, Zenon DEF CallInv, OwnCall
<1>11. TookReply'
  BY <1>2, Zenon DEF TookReply
<1> QED  BY <1>5, <1>7, <1>10, <1>11, Zenon

LEMMA WriteReplyKeeps ==
  ASSUME ReplyInv, WriteReply
  PROVE  ReplyInv'
<1> USE DEF ReplyInv
<1>1. time' = time + 1 /\ took' = took /\ server.pc = "write" /\ time \in Nat
  BY DEF WriteReply, SampleType
<1>2. replies.sample.start \in Nat /\ \A slot \in Slots : replies.history[slot].start \in Nat
  BY DEF SampleType, Sample
<1>3. ASSUME server.call = TRUE
      PROVE  /\ \A slot \in Slots : ~Recent(slot)
             /\ ~(replies.sample.start >= server.entry)
             /\ server.entry < time
  <2>1. server.pc \in {"write", "command", "poll", "return"} /\ server.pc \notin {"poll", "return"}
    BY <1>1
  <2> QED  BY <1>1, <1>3, <2>1, Zenon DEF CallInv, OwnCall
<1>4. TookReply'
  BY <1>1, Zenon DEF TookReply
<1>5. CASE /\ replies' = [replies EXCEPT
                         !.active = TRUE, !.next = @ + 1,
                         !.sample = [NoTx EXCEPT !.sequence = replies.next + 1,
                                                 !.start = time,
                                                 !.request = server.request]]
           /\ server' = [server EXCEPT !.pc = "command"]
  <2> DEFINE n == replies.next + 1
             s == [NoTx EXCEPT !.sequence = n, !.start = time,
                               !.request = server.request]
  <2>1. NoTx \in Sample
    <3>1. 0 \in Nat /\ FALSE \in BOOLEAN
      OBVIOUS
    <3> QED  BY <3>1, Zenon DEF NoTx, Sample
  <2>2. n \in Nat
    BY DEF SampleType
  <2>3. replies' = [replies EXCEPT !.active = TRUE, !.next = n, !.sample = s]
    BY <1>5, Zenon
  <2>4. s \in Sample
    <3>1. server.request \in Nat
      BY DEF SampleType
    <3> HIDE DEF n
    <3> QED  BY <2>1, <2>2, <3>1, <1>1, Zenon DEF Sample
  <2>5. s.start = time /\ s.sent = FALSE /\ s.request = server.request
    <3>1. NoTx.sent = FALSE /\ NoTx = [sequence |-> NoTx.sequence, start |-> NoTx.start,
                                       sent |-> NoTx.sent, request |-> NoTx.request]
      BY Zenon DEF NoTx
    <3> HIDE DEF n
    <3> QED  BY <3>1, Zenon
  <2> HIDE DEF n, s
  <2>6. /\ replies' = [history |-> replies'.history, active |-> replies'.active,
                       sample |-> replies'.sample, next |-> replies'.next,
                       consumed |-> replies'.consumed]
        /\ replies'.history = replies.history /\ replies'.sample = s
        /\ replies'.next = n /\ replies'.consumed = replies.consumed
    BY <2>3, Zenon DEF SampleType
  <2>7. /\ server' = [pc |-> server'.pc, request |-> server'.request,
                      entry |-> server'.entry, call |-> server'.call]
        /\ server'.pc = "command" /\ server'.request = server.request
        /\ server'.entry = server.entry /\ server'.call = server.call
    BY <1>5, Zenon DEF SampleType
  <2>8. time' \in Nat \ {0} /\ "command" \in CallPlaces
    BY <1>1 DEF CallPlaces
  <2>9. SampleType'
    BY <2>2, <2>4, <2>6, <2>7, <2>8, Zenon DEF SampleType
  <2>10. OlderInv'
    BY <1>1, <1>2, <2>5, <2>6 DEF OlderInv
  <2>11. CallInv'
    <3> SUFFICES ASSUME server'.call = TRUE PROVE OwnCall'
      BY Zenon DEF CallInv
    <3>1. /\ \A slot \in Slots : ~Recent(slot)
          /\ server.entry < time /\ server.request = took.request
      BY <1>3, <2>7, Zenon DEF CallInv, OwnCall
    <3>2. \A slot \in Slots : ~Recent(slot)'
      BY <3>1, <2>6, <2>7, Zenon DEF Recent
    <3>3. server'.entry < time'
      BY <3>1, <1>1, <2>7 DEF SampleType
    <3>4. "command" # "write"
      OBVIOUS
    <3> QED  BY <3>1, <3>2, <3>3, <3>4, <1>1, <2>5, <2>6, <2>7, Zenon DEF OwnCall
  <2> QED  BY <2>9, <2>10, <2>11, <1>4, Zenon
<1>6. CASE replies' = [replies EXCEPT !.active = FALSE]
           /\ server' = [server EXCEPT !.pc = "return"]
  <2>6. /\ replies' = [history |-> replies'.history, active |-> replies'.active,
                       sample |-> replies'.sample, next |-> replies'.next,
                       consumed |-> replies'.consumed]
        /\ replies'.history = replies.history /\ replies'.sample = replies.sample
        /\ replies'.next = replies.next /\ replies'.consumed = replies.consumed
    BY <1>6, Zenon DEF SampleType
  <2>7. /\ server' = [pc |-> server'.pc, request |-> server'.request,
                      entry |-> server'.entry, call |-> server'.call]
        /\ server'.pc = "return" /\ server'.request = server.request
        /\ server'.entry = server.entry /\ server'.call = server.call
    BY <1>6, Zenon DEF SampleType
  <2>8. time' \in Nat \ {0} /\ "return" \in CallPlaces
    BY <1>1 DEF CallPlaces
  <2>9. SampleType'
    BY <2>6, <2>7, <2>8, Zenon DEF SampleType
  <2>10. OlderInv'
    BY <1>1, <1>2, <2>6 DEF OlderInv
  <2>11. CallInv'
    <3> SUFFICES ASSUME server'.call = TRUE PROVE OwnCall'
      BY Zenon DEF CallInv
    <3>1. /\ \A slot \in Slots : ~Recent(slot)
          /\ ~(replies.sample.start >= server.entry)
          /\ server.entry < time /\ server.request = took.request
      BY <1>3, <2>7, Zenon DEF CallInv, OwnCall
    <3>2. \A slot \in Slots : ~Recent(slot)'
      BY <3>1, <2>6, <2>7, Zenon DEF Recent
    <3>3. server'.entry < time'
      BY <3>1, <1>1, <2>7 DEF SampleType
    <3>4. "return" # "command"
      OBVIOUS
    <3> QED  BY <3>1, <3>2, <3>3, <3>4, <1>1, <2>6, <2>7, Zenon DEF OwnCall
  <2> QED  BY <2>9, <2>10, <2>11, <1>4, Zenon
<1> QED  BY <1>5, <1>6, Zenon DEF WriteReply

LEMMA ReturnKeeps ==
  ASSUME PathType, ReplyInv, Return
  PROVE  ReplyInv' /\ took' = [took EXCEPT !.reply = took'.reply]
<1> USE DEF ReplyInv
<1> DEFINE held == {replies.history[slot] : slot \in DOMAIN replies.history}
           samples == {s \in held : s.sequence > replies.consumed /\ InCall(s)}
           chosen == CHOOSE s \in samples : \A r \in samples : s.sequence <= r.sequence
<1>1. /\ server' = NoCall /\ server.pc = "return" /\ time' = time
      /\ \/ /\ server.call /\ samples # {}
            /\ replies' = [replies EXCEPT !.consumed = chosen.sequence]
            /\ took' = [took EXCEPT !.reply = chosen.request]
         \/ replies' = replies /\ took' = took
  BY Zenon DEF Return
<1>2. /\ server' = [pc |-> server'.pc, request |-> server'.request,
                    entry |-> server'.entry, call |-> server'.call]
      /\ server'.pc = "idle" /\ server'.request = 0 /\ server'.entry = 0
      /\ server'.call = FALSE
  BY <1>1, Zenon DEF NoCall
<1>3. "idle" \in CallPlaces /\ 0 \in Nat
  BY DEF CallPlaces
<1>4. CallInv'
  BY <1>2, Zenon DEF CallInv
<1>5. CASE replies' = replies /\ took' = took
  <2>1. SampleType' /\ OlderInv' /\ TookReply'
    BY <1>1, <1>2, <1>3, <1>5, Zenon DEF SampleType, OlderInv, TookReply
  <2>2. took' = [took EXCEPT !.reply = took'.reply]
    BY <1>5, Zenon DEF PathType
  <2> QED  BY <2>1, <2>2, <1>4, Zenon
<1>6. CASE /\ server.call /\ samples # {}
           /\ replies' = [replies EXCEPT !.consumed = chosen.sequence]
           /\ took' = [took EXCEPT !.reply = chosen.request]
  <2>1. /\ \A slot \in Slots : Recent(slot) => replies.history[slot] = replies.sample
        /\ replies.sample.start >= server.entry => replies.sample.request = server.request
        /\ server.request = took.request
    <3>1. server.call = TRUE
      BY <1>6, Zenon
    <3>2. server.pc \in {"write", "command", "poll", "return"}
      BY <1>1
    <3> QED  BY <3>1, <3>2, Zenon DEF CallInv, OwnCall
  <2>2. \A s \in samples : s = replies.sample /\ s.start >= server.entry
    <3> SUFFICES ASSUME NEW slot \in DOMAIN replies.history, InCall(replies.history[slot])
                 PROVE  /\ replies.history[slot] = replies.sample
                        /\ replies.history[slot].start >= server.entry
      BY Zenon
    <3>1. slot \in Slots
      BY Zenon DEF SampleType
    <3>2. Recent(slot)
      BY Zenon DEF Recent, InCall
    <3> QED  BY <3>1, <3>2, <2>1, Zenon DEF Recent
  <2> HIDE DEF samples
  <2>3. replies.sample.sequence <= replies.sample.sequence /\ replies.sample.sequence \in Nat
    BY DEF SampleType, Sample
  <2>4. chosen \in samples
    <3>1. PICK s \in samples : TRUE
      BY <1>6, Zenon
    <3>2. \A r \in samples : s.sequence <= r.sequence
      BY <3>1, <2>2, <2>3, Zenon
    <3> QED  BY <3>1, <3>2, Zenon
  <2>5. chosen = replies.sample /\ chosen.request = took.request
    BY <2>1, <2>2, <2>4, Zenon
  <2> HIDE DEF chosen
  <2> DEFINE c == chosen.sequence  q == chosen.request
  <2>6. c \in Nat /\ q = took.request
    BY <2>3, <2>5, Zenon
  <2>7. replies' = [replies EXCEPT !.consumed = c] /\ took' = [took EXCEPT !.reply = q]
    BY <1>6, Zenon
  <2> HIDE DEF c, q
  <2>8. /\ replies' = [history |-> replies'.history, active |-> replies'.active,
                       sample |-> replies'.sample, next |-> replies'.next,
                       consumed |-> replies'.consumed]
        /\ replies'.history = replies.history /\ replies'.sample = replies.sample
        /\ replies'.next = replies.next /\ replies'.consumed = c
    BY <2>7, Zenon DEF SampleType
  <2>9. SampleType' /\ OlderInv'
    BY <1>1, <1>2, <1>3, <2>6, <2>8, Zenon DEF SampleType, OlderInv
  <2>10. TookReply' /\ took' = [took EXCEPT !.reply = took'.reply]
    <3>1. took'.request = took.request /\ took'.reply = q
      BY <2>7, Zenon DEF PathType
    <3> QED  BY <3>1, <2>6, <2>7, Zenon DEF TookReply
  <2> QED  BY <2>9, <2>10, <1>4, Zenon
<1> QED  BY <1>1, <1>5, <1>6, Zenon


-----------------------------------------------------------------------------
PathInv == RequestInv /\ ReplyInv

LEMMA CallbackKeepsReplies ==
  ASSUME RequestInv, ReplyInv, Callback
  PROVE  ReplyInv'
<1> USE DEF ReplyInv
<1>1. mailbox \in Seq(Nat) /\ mailbox # <<>>
  BY DEF Callback, RequestInv, PathType
<1>2. Head(mailbox) \in Nat
  BY <1>1
<1>3. /\ took'.request = Head(mailbox) /\ took'.reply = 0
      /\ \/ server' = [NoCall EXCEPT !.pc = "send", !.request = Head(mailbox), !.call = TRUE]
         \/ server' = NoCall
      /\ replies' = replies /\ time' = time
  BY Zenon DEF Callback
<1>4. 0 \in Nat /\ "idle" \in CallPlaces /\ "send" \in CallPlaces
  BY DEF CallPlaces
<1>5. OlderInv' /\ TookReply'
  BY <1>3, Zenon DEF OlderInv, TookReply
<1>6. CASE server' = NoCall
  <2>1. /\ server' = [pc |-> server'.pc, request |-> server'.request,
                      entry |-> server'.entry, call |-> server'.call]
        /\ server'.pc = "idle" /\ server'.request = 0 /\ server'.entry = 0
        /\ server'.call = FALSE
    BY <1>6, Zenon DEF NoCall
  <2> QED  BY <1>3, <1>4, <1>5, <2>1, Zenon DEF CallInv, SampleType
<1>7. CASE server' = [NoCall EXCEPT !.pc = "send", !.request = Head(mailbox), !.call = TRUE]
  <2> DEFINE h == Head(mailbox)
  <2>1. server' = [pc |-> "send", request |-> h, entry |-> 0, call |-> TRUE]
    <3> HIDE DEF h
    <3>1. server' = [NoCall EXCEPT !.pc = "send", !.request = h, !.call = TRUE]
      BY <1>7, Zenon DEF h
    <3> QED  BY <3>1 DEF NoCall
  <2>2. /\ server' = [pc |-> server'.pc, request |-> server'.request,
                      entry |-> server'.entry, call |-> server'.call]
        /\ server'.pc = "send" /\ server'.request = h /\ server'.entry = 0
    <3> HIDE DEF h
    <3> QED  BY <2>1, Zenon
  <2>3. "send" \notin {"write", "command", "poll", "return"} /\ "send" # "command"
    OBVIOUS
  <2> HIDE DEF h
  <2>4. h \in Nat /\ took'.request = h
    BY <1>2, <1>3, Zenon DEF h
  <2>5. SampleType'
    BY <1>3, <1>4, <2>2, <2>4, Zenon DEF SampleType
  <2>6. CallInv'
    BY <2>2, <2>3, <2>4, Zenon DEF CallInv, OwnCall
  <2> QED  BY <1>5, <2>5, <2>6, Zenon
<1> QED  BY <1>3, <1>6, <1>7, Zenon

LEMMA SendWaitingKeeps ==
  ASSUME RequestInv, ReplyInv, SendWaiting
  PROVE  ReplyInv' /\ waiting' \in Seq(Nat)
<1> USE DEF ReplyInv
<1>1. waiting \in Seq(Nat) /\ waiting # <<>> /\ waiting' = Tail(waiting)
  BY DEF SendWaiting, RequestInv, PathType
<1>2. Head(waiting) \in Nat /\ waiting' \in Seq(Nat)
  BY <1>1
<1>3. /\ server' = [NoCall EXCEPT !.pc = "write", !.request = Head(waiting)]
      /\ replies' = replies /\ time' = time /\ took' = took
  BY DEF SendWaiting
<1> DEFINE h == Head(waiting)
<1>4. server' = [pc |-> "write", request |-> h, entry |-> 0, call |-> FALSE]
  <2>1. server' = [NoCall EXCEPT !.pc = "write", !.request = h]
    BY <1>3, Zenon
  <2> HIDE DEF h
  <2> QED  BY <2>1 DEF NoCall
<1>5. /\ server' = [pc |-> server'.pc, request |-> server'.request,
                    entry |-> server'.entry, call |-> server'.call]
      /\ server'.pc = "write" /\ server'.request = h /\ server'.entry = 0
      /\ server'.call = FALSE
  <2> HIDE DEF h
  <2> QED  BY <1>4, Zenon
<1>6. 0 \in Nat /\ "write" \in CallPlaces /\ h \in Nat
  BY <1>2 DEF CallPlaces
<1> HIDE DEF h
<1>7. SampleType'
  BY <1>3, <1>5, <1>6, Zenon DEF SampleType
<1>8. CallInv' /\ OlderInv' /\ TookReply'
  BY <1>3, <1>5, Zenon DEF CallInv, OlderInv, TookReply
<1> QED  BY <1>2, <1>7, <1>8, Zenon

\* The steps that change neither a request nor who is served.
LEMMA SampleSteps ==
  ASSUME RequestInv, ReplyInv,
         \/ StoreSendOk \/ SendOther \/ WriteCommand \/ PollSendOk
         \/ ReadRequest \/ HandOver \/ NoticeSendOk \/ Sent
  PROVE  ReplyInv'
<1> USE DEF ReplyInv
<1>1. took.reply \in {0, took.request}
  BY Zenon DEF TookReply
<1>2. replies.consumed \in Nat /\ replies.history \in [Slots -> Sample]
  BY Zenon DEF SampleType
<1>3. server = [server EXCEPT !.pc = server.pc] /\ server.pc \in CallPlaces
  BY Zenon DEF SampleType
<1>4. replies = [history |-> replies.history, active |-> replies.active,
                 sample |-> replies.sample, next |-> replies.next,
                 consumed |-> replies.consumed]
  BY Zenon DEF SampleType
<1>5. {"poll", "return"} \subseteq CallPlaces
  BY DEF CallPlaces
<1>6. CASE UNCHANGED <<server, replies, time, took>>
  BY <1>1, <1>2, <1>3, <1>4, <1>6, SamplesKeep, Zenon
<1>7. CASE SendOther
  <2>1. /\ server' = server /\ took' = took /\ time' = time
        /\ replies' = [replies EXCEPT !.active = FALSE]
    BY <1>7 DEF SendOther
  <2>2. /\ replies' = [history |-> replies'.history, active |-> replies'.active,
                       sample |-> replies'.sample, next |-> replies'.next,
                       consumed |-> replies'.consumed]
        /\ replies'.history = replies.history /\ replies'.sample = replies.sample
        /\ replies'.next = replies.next /\ replies'.consumed = replies.consumed
    BY <1>4, <2>1, Zenon
  <2> QED  BY <1>1, <1>2, <1>3, <2>1, <2>2, SamplesKeep, Zenon
<1>8. CASE StoreSendOk
  <2>1. server' = server /\ took' = took /\ time' = time /\ replies' = Completed
    BY <1>8 DEF StoreSendOk
  <2> QED  BY <1>1, <1>2, <1>3, <2>1, CompletedIs, SamplesKeep, Zenon
<1>9. CASE PollSendOk
  <2>1. /\ server' = [server EXCEPT !.pc = "return"] /\ took' = took /\ time' = time
        /\ replies' = Completed \/ replies' = replies
        /\ server.pc = "poll"
    BY <1>9 DEF PollSendOk
  <2>2. "return" \in {"poll", "return"} /\ server.pc \in {"write", "command", "poll", "return"}
    BY <2>1
  <2>3. CASE replies' = Completed
    BY <1>1, <1>2, <1>5, <2>1, <2>2, <2>3, CompletedIs, SamplesKeep, Zenon
  <2>4. CASE replies' = replies
    BY <1>1, <1>2, <1>4, <1>5, <2>1, <2>2, <2>4, SamplesKeep, Zenon
  <2> QED  BY <2>1, <2>3, <2>4, Zenon
<1>10. CASE WriteCommand
  <2>1. /\ took' = took /\ time' = time /\ server.pc = "command"
        /\ \/ /\ replies' = [replies EXCEPT !.sample.sent = TRUE]
              /\ server' = [server EXCEPT !.pc = "poll"]
           \/ replies' = replies /\ server' = [server EXCEPT !.pc = "return"]
    BY <1>10 DEF WriteCommand
  <2>2. {"poll", "return"} \subseteq CallPlaces /\ server.pc \in {"write", "command", "poll", "return"}
    BY <1>5, <2>1
  <2>3. CASE /\ replies' = [replies EXCEPT !.sample.sent = TRUE]
             /\ server' = [server EXCEPT !.pc = "poll"]
    <3> DEFINE s == [replies.sample EXCEPT !.sent = TRUE]
    <3>1. replies' = [replies EXCEPT !.sample = s]
      BY <2>3, Zenon
    <3>2. replies'.sample = s
      <4> HIDE DEF s
      <4> QED  BY <1>4, <3>1, Zenon
    <3>3. /\ replies' = [history |-> replies'.history, active |-> replies'.active,
                         sample |-> replies'.sample, next |-> replies'.next,
                         consumed |-> replies'.consumed]
          /\ replies'.history = replies.history
          /\ replies'.next = replies.next /\ replies'.consumed = replies.consumed
      <4> HIDE DEF s
      <4> QED  BY <1>4, <3>1, Zenon
    <3> QED  BY <1>1, <1>2, <2>1, <2>2, <2>3, <3>2, <3>3, SamplesKeep, Zenon
  <2>4. CASE replies' = replies /\ server' = [server EXCEPT !.pc = "return"]
    BY <1>1, <1>2, <1>4, <2>1, <2>2, <2>4, SamplesKeep, Zenon
  <2> QED  BY <2>1, <2>3, <2>4, Zenon
<1>11. ReadRequest \/ HandOver \/ NoticeSendOk \/ Sent => UNCHANGED <<server, replies, time, took>>
  BY DEF ReadRequest, HandOver, NoticeSendOk, Sent
<1> QED  BY <1>6, <1>7, <1>8, <1>9, <1>10, <1>11, Zenon

LEMMA PathInvariant == PathSpec => []PathInv
<1>1. PathInit => PathInv
  BY RequestStarts, ReplyStarts DEF PathInv
<1>2. PathInv /\ [PathNext]_pathVars => PathInv'
  <2> SUFFICES ASSUME RequestInv, ReplyInv, [PathNext]_pathVars PROVE RequestInv' /\ ReplyInv'
    BY Zenon DEF PathInv
  <2>t. /\ reader \in [pc : ReaderPlaces, request : Nat]
        /\ took = [took EXCEPT !.reply = took.reply] /\ waiting \in Seq(Nat)
    BY Zenon DEF RequestInv, PathType
  <2>1. CASE ReadRequest
    BY <2>1, ReadRequestKeeps, SampleSteps, Zenon
  <2>2. CASE HandOver
    BY <2>2, HandOverKeeps, SampleSteps, Zenon
  <2>3. CASE Callback
    BY <2>3, CallbackKeeps, CallbackKeepsReplies, Zenon
  <2>4. CASE NoticeSendOk \/ StoreSendOk
    <3>1. /\ UNCHANGED <<requests, mailbox, shifted, took, waiting>>
          /\ reader' = [pc |-> "ok", request |-> 0] \/ reader' = [pc |-> "idle", request |-> 0]
          /\ reader.pc = "idle" \/ reader.pc = "ok"
      BY <2>4, Zenon DEF NoticeSendOk, StoreSendOk
    <3>2. /\ reader' \in [pc : ReaderPlaces, request : Nat] /\ reader.pc # "frame"
          /\ reader'.pc # "frame"
      BY <3>1 DEF ReaderPlaces
    <3> QED  BY <2>4, <2>t, <3>1, <3>2, ElsewhereKeeps, SampleSteps, Zenon
  <2>5. CASE SendReply
    <3>1. server.request \in Nat /\ waiting \in Seq(Nat)
      BY <2>t DEF ReplyInv, SampleType
    <3>2. waiting' \in Seq(Nat)
      BY <2>5, <3>1 DEF SendReply
    <3>3. UNCHANGED <<requests, mailbox, shifted, took, reader>>
      BY <2>5, Zenon DEF SendReply
    <3> QED  BY <2>5, <2>t, <3>2, <3>3, ElsewhereKeeps, SendReplyKeeps, Zenon
  <2>6. CASE SendWaiting
    <3>1. UNCHANGED <<requests, mailbox, shifted, took, reader>>
      BY <2>6, Zenon DEF SendWaiting
    <3> QED  BY <2>6, <2>t, <3>1, SendWaitingKeeps, ElsewhereKeeps, Zenon
  <2>7. CASE SendOther \/ WriteCommand \/ Sent \/ PollSendOk
    <3>1. UNCHANGED <<requests, mailbox, shifted, took, reader, waiting>>
      BY <2>7, Zenon DEF SendOther, WriteCommand, Sent, PollSendOk
    <3> QED  BY <2>7, <2>t, <3>1, ElsewhereKeeps, SampleSteps, Zenon
  <2>8. CASE WriteReply
    <3>1. UNCHANGED <<requests, mailbox, shifted, took, reader, waiting>>
      BY <2>8, Zenon DEF WriteReply
    <3> QED  BY <2>8, <2>t, <3>1, ElsewhereKeeps, WriteReplyKeeps, Zenon
  <2>9. CASE Return
    <3>1. UNCHANGED <<requests, mailbox, shifted, reader, waiting>>
      BY <2>9, Zenon DEF Return
    <3>2. PathType
      BY DEF RequestInv
    <3> QED  BY <2>9, <2>t, <3>1, <3>2, ElsewhereKeeps, ReturnKeeps, Zenon
  <2>10. CASE UNCHANGED pathVars
    <3>1. UNCHANGED <<requests, mailbox, shifted, took, reader, waiting, server, replies, time>>
      BY <2>10, Zenon DEF pathVars
    <3> QED  BY <3>1, Zenon DEF RequestInv, ReplyInv, PathType, FramesInv, MailboxInv,
                  Held, TookInv, SampleType, OlderInv, CallInv, OwnCall, Recent, TookReply
  <2> QED  BY <2>1, <2>2, <2>3, <2>4, <2>5, <2>6, <2>7, <2>8, <2>9, <2>10, Zenon DEF PathNext
<1> QED  BY <1>1, <1>2, PTL DEF PathSpec

\* However long the history is and however many requests are read, whatever order
\* the RX task and the lwIP thread take their steps in, a callback that is answered
\* takes the sample of the reply it sent itself; and the sample of a request is its
\* own as long as no request was lost and no sample overwritten.
THEOREM SamplesAlwaysOwn == PathSpec => []OwnSamples
<1>1. PathInv => OwnSamples
  BY Zenon DEF PathInv, RequestInv, TookInv, ReplyInv, TookReply, OwnSamples
<1> QED  BY <1>1, PathInvariant, PTL

==============================================================================
