------------------------- MODULE HomaSchedulerProofs -------------------------
(***************************************************************************)
(* What the handlers of HomaScheduler make of a receiver, for any number of *)
(* senders and messages of any size, and what that says of the packets.     *)
(*                                                                          *)
(* The handlers are functions on the record of a receiver, put together     *)
(* from few that change something, so a property of receivers is proved     *)
(* once for each of those: a set of receivers that is closed under them     *)
(* (Closed) is one that no timer leaves, and an arrival leaves it only      *)
(* where handleInboundPkt does.  The first such set, Filers, has the        *)
(* messages of every sender sorted in its file, by keys that change while   *)
(* they are filed.  The second, Sound, has the counters of every message    *)
(* equal to the sums over its packets that have still to arrive.            *)
(*                                                                          *)
(* Without the bandwidth check the list of senders (SchedSenders) is known. *)
(* An event takes one sender out of it, grants it or hands its packet to    *)
(* its message, and puts it back, and every grant may pass the slot on to   *)
(* another sender.  Lined(out, n) are the receivers that list everyone but  *)
(* out in the right order and have the first n of the list tended: a grant  *)
(* timer or a packet that is on its way will see to them.  Removing a       *)
(* sender leads from Lined({}, K) to Lined({s}, K - 1), inserting one leads *)
(* back, and handleGrantSentEvent ends because every call that passes a     *)
(* slot on, but the first, follows the last grant of a message.  That is    *)
(* also why the grants of an event are for the best messages (Grading).     *)
(***************************************************************************)
EXTENDS HomaScheduler, FiniteFacts

-----------------------------------------------------------------------------
(* Messages, packets and the bytes they carry.                              *)

\* The bytes of a set of packets, and those of a whole message.
Bytes(S) == UNION {BytesOf(p) : p \in S}
Whole(m) == 0 .. MsgSize[m] - 1
Disjoint(S) == \A p, q \in S : p # q => BytesOf(p) \cap BytesOf(q) = {}
Apart(S, T) == \A p \in S : \A q \in T : BytesOf(p) \cap BytesOf(q) = {}

-----------------------------------------------------------------------------
(* Sets of bytes.                                                           *)

\* A byte is in the union when it is in one of the packets.
LEMMA BytesIn ==
  ASSUME NEW S, NEW b
  PROVE  b \in Bytes(S) <=> \E p \in S : b \in BytesOf(p)
BY DEF Bytes

LEMMA BytesUnion ==
  ASSUME NEW S, NEW T
  PROVE  Bytes(S \cup T) = Bytes(S) \cup Bytes(T)
BY DEF Bytes

LEMMA BytesSingle ==
  ASSUME NEW p
  PROVE  Bytes({p}) = BytesOf(p)
BY DEF Bytes

\* A packet or grant has as many bytes as its length says.
LEMMA BytesOfSize ==
  ASSUME NEW p, p.first \in Nat, p.len \in Nat
  PROVE  /\ IsFiniteSet(BytesOf(p))
         /\ Cardinality(BytesOf(p)) = p.len
         /\ p.len > 0 => p.first \in BytesOf(p)
<1> DEFINE a == p.first
           b == p.first + p.len - 1
<1>1. a \in Int /\ b \in Int /\ BytesOf(p) = a .. b /\ b = a + p.len - 1
  BY DEF BytesOf
<1> HIDE DEF a, b
<1>2. /\ IsFiniteSet(a .. b)
      /\ Cardinality(a .. b) = IF a > b THEN 0 ELSE b - a + 1
  BY <1>1, FS_Interval
<1>3. Cardinality(BytesOf(p)) = p.len
  BY <1>1, <1>2
<1>4. p.len > 0 => p.first \in BytesOf(p)
  BY DEF BytesOf
<1> QED BY <1>1, <1>2, <1>3, <1>4

\* Taking out n more bytes of the whole leaves n fewer.
LEMMA TakeOut ==
  ASSUME NEW m \in Msg, NEW B, NEW C, IsFiniteSet(C), C \subseteq Whole(m), B \cap C = {}
  PROVE  /\ Cardinality(C) <= Cardinality(Whole(m) \ B)
         /\ Cardinality(Whole(m) \ (B \cup C)) = Cardinality(Whole(m) \ B) - Cardinality(C)
         /\ Cardinality(Whole(m) \ B) \in Nat
<1>1. IsFiniteSet(Whole(m))
  BY MsgAssumption, FS_Interval DEF Whole
<1>2. IsFiniteSet(Whole(m) \ B)
  BY <1>1, FS_Difference
<1>3. C \in SUBSET (Whole(m) \ B)
  OBVIOUS
<1>4. Cardinality(C) <= Cardinality(Whole(m) \ B)
  BY <1>2, <1>3, FS_Subset
<1>5. Cardinality((Whole(m) \ B) \ C) =
        Cardinality(Whole(m) \ B) - Cardinality((Whole(m) \ B) \cap C)
  BY <1>2, FS_Difference
<1>6. /\ (Whole(m) \ B) \ C = Whole(m) \ (B \cup C)
      /\ (Whole(m) \ B) \cap C = C
  BY <1>3
<1>7. Cardinality(Whole(m) \ B) \in Nat
  BY <1>2, FS_CardinalityType
<1> QED BY <1>4, <1>5, <1>6, <1>7

\* The bytes of the whole message.
LEMMA WholeSize ==
  ASSUME NEW m \in Msg, NEW n \in Nat, n <= MsgSize[m]
  PROVE  /\ MsgSize[m] \in Nat \ {0}
         /\ Cardinality(Whole(m)) = MsgSize[m]
         /\ 0 .. n - 1 \subseteq Whole(m)
         /\ IsFiniteSet(0 .. n - 1)
         /\ Cardinality(0 .. n - 1) = n
<1>1. MsgSize[m] \in Nat \ {0}
  BY MsgAssumption
<1>2. \A k \in Nat : IsFiniteSet(0 .. k - 1) /\ Cardinality(0 .. k - 1) = k
  <2> TAKE k \in Nat
  <2> DEFINE b == k - 1
  <2>1. b \in Int /\ k = b + 1
    OBVIOUS
  <2> HIDE DEF b
  <2>2. IsFiniteSet(0 .. b) /\ Cardinality(0 .. b) = IF 0 > b THEN 0 ELSE b - 0 + 1
    BY <2>1, FS_Interval
  <2>3. Cardinality(0 .. b) = k
    BY <2>1, <2>2
  <2> QED BY <2>2, <2>3 DEF b
<1>3. 0 .. n - 1 \subseteq Whole(m)
  BY <1>1 DEF Whole
<1> QED BY <1>1, <1>2, <1>3 DEF Whole

\* Packets that do not overlap and are not empty are no more than their bytes.
LEMMA DisjointFinite ==
  ASSUME NEW S, Disjoint(S), \A p \in S : p.first \in Nat /\ p.len \in Nat /\ p.len > 0,
         IsFiniteSet(Bytes(S))
  PROVE  IsFiniteSet(S)
<1> DEFINE at == [p \in S |-> p.first]
<1>1. \A p \in S : at[p] \in BytesOf(p) /\ at[p] \in Bytes(S)
  BY BytesIn, BytesOfSize
<1>2. \A p, q \in S : at[p] = at[q] => p = q
  BY <1>1 DEF Disjoint
<1>3. at \in Injection(S, Bytes(S))
  BY <1>1, <1>2 DEF Injection, IsInjective
<1> HIDE DEF at
<1> QED BY <1>3, FS_Injection

-----------------------------------------------------------------------------
(* Sums of lengths.                                                         *)

\* The sums of the two byte counters of a set of messages.
LEMMA LeftSum ==
  ASSUME NEW out, NEW S, IsFiniteSet(S), \A m \in S : out[m].bytesLeft \in Nat
  PROVE  MapThenSumSet(LAMBDA m : out[m].bytesLeft, S) =
           Total([m \in S |-> out[m].bytesLeft], S)
<1> DEFINE f == [m \in S |-> out[m].bytesLeft]
           Rec(g) == g = [s \in SUBSET S |-> IF s = {} THEN 0
                            ELSE out[CHOOSE x \in s : TRUE].bytesLeft
                                    + g[s \ {CHOOSE x \in s : TRUE}]]
<1>1. \A s \in SUBSET S : s # {} =>
        f[CHOOSE x \in s : TRUE] = out[CHOOSE x \in s : TRUE].bytesLeft
  OBVIOUS
<1>2. \A g : AddsUp(g, f, S) <=> Rec(g)
  <2> HIDE DEF f
  <2> QED BY <1>1 DEF AddsUp
<1>3. \A x \in S : f[x] \in Nat
  OBVIOUS
<1>4. MapThenSumSet(LAMBDA m : out[m].bytesLeft, S) = (CHOOSE g : Rec(g))[S]
  BY DEF MapThenSumSet, MapThenFoldSet
<1> HIDE DEF f, Rec
<1>5. \E g : Rec(g)
  BY <1>2, <1>3, TotalsAddUp
<1>6. AddsUp(CHOOSE g : Rec(g), f, S)
  BY <1>2, <1>5
<1>7. (CHOOSE g : Rec(g))[S] = Total(f, S)
  BY <1>3, <1>6, AddsUpTotal
<1> QED BY <1>4, <1>7 DEF f

LEMMA NeedSum ==
  ASSUME NEW out, NEW S, IsFiniteSet(S), \A m \in S : out[m].bytesToSched \in Nat
  PROVE  MapThenSumSet(LAMBDA m : out[m].bytesToSched, S) =
           Total([m \in S |-> out[m].bytesToSched], S)
<1> DEFINE f == [m \in S |-> out[m].bytesToSched]
           Rec(g) == g = [s \in SUBSET S |-> IF s = {} THEN 0
                            ELSE out[CHOOSE x \in s : TRUE].bytesToSched
                                    + g[s \ {CHOOSE x \in s : TRUE}]]
<1>1. \A s \in SUBSET S : s # {} =>
        f[CHOOSE x \in s : TRUE] = out[CHOOSE x \in s : TRUE].bytesToSched
  OBVIOUS
<1>2. \A g : AddsUp(g, f, S) <=> Rec(g)
  <2> HIDE DEF f
  <2> QED BY <1>1 DEF AddsUp
<1>3. \A x \in S : f[x] \in Nat
  OBVIOUS
<1>4. MapThenSumSet(LAMBDA m : out[m].bytesToSched, S) = (CHOOSE g : Rec(g))[S]
  BY DEF MapThenSumSet, MapThenFoldSet
<1> HIDE DEF f, Rec
<1>5. \E g : Rec(g)
  BY <1>2, <1>3, TotalsAddUp
<1>6. AddsUp(CHOOSE g : Rec(g), f, S)
  BY <1>2, <1>5
<1>7. (CHOOSE g : Rec(g))[S] = Total(f, S)
  BY <1>3, <1>6, AddsUpTotal
<1> QED BY <1>4, <1>7 DEF f

\* Packets that do not overlap have as many bytes as the sum of their lengths.
LEMMA LenSumBytes ==
  ASSUME NEW S, IsFiniteSet(S), \A p \in S : p.first \in Nat /\ p.len \in Nat, Disjoint(S)
  PROVE  /\ MapThenSumSet(LAMBDA p : p.len, S) = Cardinality(Bytes(S))
         /\ IsFiniteSet(Bytes(S))
         /\ Total(Lens(S), S) = Cardinality(Bytes(S))
<1> DEFINE f == Lens(S)
           U == Units(f, S)
           at == [u \in U |-> u[1].first + u[2] - 1]
<1>1. \A x \in S : f[x] = x.len /\ f[x] \in Nat
  BY DEF Lens
<1> HIDE DEF f
<1>2. \A u : u \in U <=> \E x \in S : \E i \in 1 .. f[x] : u = <<x, i>>
  BY DEF Units, UnitsOf
<1> HIDE DEF U
<1>3. ASSUME NEW u \in U
      PROVE  at[u] \in Bytes(S) /\ u[1] \in S /\ at[u] \in BytesOf(u[1])
  <2>1. PICK x \in S : \E i \in 1 .. f[x] : u = <<x, i>>
    BY <1>2
  <2>2. PICK i \in 1 .. f[x] : u = <<x, i>>
    BY <2>1
  <2>3. x.first + i - 1 \in BytesOf(x)
    BY <1>1, <2>2 DEF BytesOf
  <2> QED BY <2>2, <2>3, BytesIn
<1>4. ASSUME NEW u \in U, NEW v \in U, at[u] = at[v]
      PROVE  u = v
  <2>1. u[1] = v[1]
    BY <1>3, <1>4 DEF Disjoint
  <2>2. /\ u = <<u[1], u[2]>> /\ v = <<v[1], v[2]>>
        /\ u[2] \in Int /\ v[2] \in Int /\ u[1].first \in Nat
    BY <1>1, <1>2
  <2>3. u[2] = v[2]
    BY <1>4, <2>1, <2>2
  <2> QED BY <2>1, <2>2, <2>3
<1>5. ASSUME NEW b \in Bytes(S)
      PROVE  \E u \in U : at[u] = b
  <2>1. PICK x \in S : b \in BytesOf(x)
    BY BytesIn
  <2>2. b - x.first + 1 \in 1 .. f[x] /\ b \in Int /\ x.first \in Int
    BY <1>1, <2>1 DEF BytesOf
  <2>3. <<x, b - x.first + 1>> \in U
    BY <1>2, <2>2
  <2>4. at[<<x, b - x.first + 1>>] = x.first + (b - x.first + 1) - 1
    BY <2>3
  <2> QED BY <2>2, <2>3, <2>4
<1>6. at \in Bijection(U, Bytes(S))
  BY <1>3, <1>4, <1>5 DEF Bijection, Injection, Surjection, IsInjective
<1> HIDE DEF at
<1>7. IsFiniteSet(U)
  BY <1>1, UnitsFinite DEF U
<1>8. IsFiniteSet(Bytes(S)) /\ Cardinality(Bytes(S)) = Cardinality(U)
  BY <1>6, <1>7, FS_Bijection DEF ExistsBijection
<1> QED BY <1>1, <1>8, LenSum DEF U, f, Total

-----------------------------------------------------------------------------
(* The request and unscheduled packets of a message.                        *)

\* The unscheduled part of a message is part of the message.
LEMMA UnschedBounds ==
  ASSUME NEW m \in Msg
  PROVE  /\ ReqPart(m) \in Nat
         /\ UnschedPart(m) \in Nat
         /\ TotalUnsched(m) \in Nat
         /\ TotalUnsched(m) <= MsgSize[m]
BY MsgAssumption, SizeAssumption
   DEF ReqPart, UnschedPart, TotalUnsched, Lesser

\* getReqUnschedDataPkts returns well-formed packets, at least the request.
LEMMA UnschedPktsType ==
  ASSUME NEW m \in Msg
  PROVE  /\ ReqUnschedDataPkts(m) \in SUBSET Pkt
         /\ ReqUnschedDataPkts(m) # {}
<1>1. ReqPkt(m) \in Pkt
  BY UnschedBounds DEF ReqPkt, Pkt, PktType
<1>2. ASSUME NEW k \in 0 .. UnschedPart(m), k * MaxUnschedData < UnschedPart(m)
      PROVE  UnschedPkt(m, k) \in Pkt
  <2>1. k * MaxUnschedData \in Nat
    BY UnschedBounds, SizeAssumption
  <2>2. Lesser(MaxUnschedData, UnschedPart(m) - k * MaxUnschedData) \in Nat
    BY <2>1, <1>2, UnschedBounds, SizeAssumption DEF Lesser
  <2> QED BY <2>1, <2>2, UnschedBounds DEF UnschedPkt, Pkt, PktType
<1> QED BY <1>1, <1>2 DEF ReqUnschedDataPkts

\* Where the k-th unscheduled packet lies.
LEMMA UnschedPktBytes ==
  ASSUME NEW m \in Msg, NEW k \in Nat, k * MaxUnschedData < UnschedPart(m)
  PROVE  /\ k * MaxUnschedData \in Nat
         /\ (k + 1) * MaxUnschedData = k * MaxUnschedData + MaxUnschedData
         /\ \A b : b \in BytesOf(UnschedPkt(m, k)) <=>
                     /\ b \in Int
                     /\ ReqPart(m) + k * MaxUnschedData <= b
                     /\ b < ReqPart(m) + (k + 1) * MaxUnschedData
                     /\ b < TotalUnsched(m)
<1>1. /\ MaxUnschedData \in Nat \ {0}
      /\ ReqPart(m) \in Nat
      /\ UnschedPart(m) \in Nat
      /\ TotalUnsched(m) = ReqPart(m) + UnschedPart(m)
  BY UnschedBounds, SizeAssumption DEF TotalUnsched
<1>2. /\ k * MaxUnschedData \in Nat
      /\ (k + 1) * MaxUnschedData = k * MaxUnschedData + MaxUnschedData
  BY <1>1
<1> DEFINE at == k * MaxUnschedData
<1>3. /\ UnschedPkt(m, k).first = ReqPart(m) + at
      /\ UnschedPkt(m, k).len = Lesser(MaxUnschedData, UnschedPart(m) - at)
  BY DEF UnschedPkt
<1>4. at \in Nat /\ at < UnschedPart(m)
  BY <1>2
<1> HIDE DEF at
<1>5. \A b : b \in BytesOf(UnschedPkt(m, k)) <=>
               /\ b \in Int
               /\ ReqPart(m) + at <= b
               /\ b < ReqPart(m) + (at + MaxUnschedData)
               /\ b < TotalUnsched(m)
  BY <1>1, <1>3, <1>4 DEF BytesOf, Lesser
<1> QED BY <1>2, <1>5 DEF at

\* The packets of getReqUnschedDataPkts divide the unscheduled bytes.
LEMMA UnschedPktsDivide ==
  ASSUME NEW m \in Msg
  PROVE  /\ ReqUnschedDataPkts(m) \subseteq {p \in Pkt : p.msg = m}
         /\ Disjoint(ReqUnschedDataPkts(m))
         /\ Bytes(ReqUnschedDataPkts(m)) = 0 .. TotalUnsched(m) - 1
<1> DEFINE K == {i \in 0 .. UnschedPart(m) : i * MaxUnschedData < UnschedPart(m)}
<1>1. /\ MaxUnschedData \in Nat \ {0}
      /\ ReqPart(m) \in Nat
      /\ UnschedPart(m) \in Nat
      /\ TotalUnsched(m) = ReqPart(m) + UnschedPart(m)
  BY UnschedBounds, SizeAssumption DEF TotalUnsched
<1>2. ReqUnschedDataPkts(m) = {ReqPkt(m)} \cup {UnschedPkt(m, k) : k \in K}
  BY DEF ReqUnschedDataPkts
<1>3. BytesOf(ReqPkt(m)) = 0 .. ReqPart(m) - 1
  BY <1>1 DEF BytesOf, ReqPkt
<1>4. \A k \in K : k \in Nat /\ k * MaxUnschedData < UnschedPart(m)
  BY <1>1
<1>5. ASSUME NEW k \in K, NEW l \in K, k < l
      PROVE  BytesOf(UnschedPkt(m, k)) \cap BytesOf(UnschedPkt(m, l)) = {}
  <2>1. (k + 1) * MaxUnschedData <= l * MaxUnschedData
    <3>1. k + 1 <= l /\ k + 1 \in Nat /\ l \in Nat
      BY <1>4, <1>5
    <3> QED BY <1>1, <3>1
  <2>2. (k + 1) * MaxUnschedData \in Nat /\ l * MaxUnschedData \in Nat
    BY <1>1, <1>4
  <2>3. \A b \in BytesOf(UnschedPkt(m, k)) :
          b \in Int /\ b < ReqPart(m) + (k + 1) * MaxUnschedData
    BY <1>4, UnschedPktBytes
  <2>4. \A b \in BytesOf(UnschedPkt(m, l)) :
          b \in Int /\ ReqPart(m) + l * MaxUnschedData <= b
    BY <1>4, UnschedPktBytes
  <2> QED BY <1>1, <2>1, <2>2, <2>3, <2>4
<1>6. \A k \in K : BytesOf(ReqPkt(m)) \cap BytesOf(UnschedPkt(m, k)) = {}
  <2>1. ASSUME NEW k \in K, NEW b \in BytesOf(UnschedPkt(m, k))
        PROVE  b \in Int /\ ReqPart(m) <= b
    <3>1. k * MaxUnschedData \in Nat /\ b \in Int /\ ReqPart(m) + k * MaxUnschedData <= b
      BY <1>4, UnschedPktBytes
    <3> QED BY <1>1, <3>1
  <2> QED BY <1>1, <1>3, <2>1
<1>7. Disjoint(ReqUnschedDataPkts(m))
  <2>1. ASSUME NEW k \in K, NEW l \in K, UnschedPkt(m, k) # UnschedPkt(m, l)
        PROVE  BytesOf(UnschedPkt(m, k)) \cap BytesOf(UnschedPkt(m, l)) = {}
    <3>1. k < l \/ l < k
      BY <1>4, <2>1
    <3> QED BY <1>5, <3>1
  <2> QED BY <1>2, <1>6, <2>1 DEF Disjoint
<1>8. ReqUnschedDataPkts(m) \subseteq {p \in Pkt : p.msg = m}
  BY <1>2, UnschedPktsType DEF ReqPkt, UnschedPkt
<1>9. ASSUME NEW b \in 0 .. TotalUnsched(m) - 1
      PROVE  \E p \in ReqUnschedDataPkts(m) : b \in BytesOf(p)
  <2>1. CASE b < ReqPart(m)
    BY <1>1, <1>2, <1>3, <2>1
  <2>2. CASE ReqPart(m) <= b
    <3> DEFINE x == b - ReqPart(m)
               k == x \div MaxUnschedData
    <3>1. x \in Nat /\ x < UnschedPart(m) /\ b \in Int /\ b < TotalUnsched(m)
      BY <1>1, <2>2
    <3> HIDE DEF x
    <3>2. k \in Nat /\ k * MaxUnschedData <= x /\ x < k * MaxUnschedData + MaxUnschedData
      BY <1>1, <3>1
    <3> HIDE DEF k
    <3>3. k * MaxUnschedData < UnschedPart(m)
      BY <1>1, <3>1, <3>2
    <3>4. k <= k * MaxUnschedData
      BY <1>1, <3>2
    <3>5. k \in K
      BY <1>1, <3>1, <3>2, <3>3, <3>4
    <3>6. /\ ReqPart(m) + k * MaxUnschedData <= b
          /\ b < ReqPart(m) + (k + 1) * MaxUnschedData
      <4>1. /\ b = ReqPart(m) + x
            /\ k * MaxUnschedData \in Nat
            /\ (k + 1) * MaxUnschedData = k * MaxUnschedData + MaxUnschedData
        BY <1>1, <3>1, <3>2, <3>3, UnschedPktBytes DEF x
      <4> QED BY <1>1, <3>1, <3>2, <4>1
    <3>7. b \in BytesOf(UnschedPkt(m, k))
      BY <3>1, <3>2, <3>3, <3>6, UnschedPktBytes
    <3> QED BY <1>2, <3>5, <3>7
  <2> QED BY <1>1, <2>1, <2>2
<1>10. ASSUME NEW p \in ReqUnschedDataPkts(m), NEW b \in BytesOf(p)
       PROVE  b \in 0 .. TotalUnsched(m) - 1
  <2>1. CASE p = ReqPkt(m)
    BY <1>1, <1>3, <2>1
  <2>2. ASSUME NEW k \in K, p = UnschedPkt(m, k)
        PROVE  b \in 0 .. TotalUnsched(m) - 1
    <3>1. /\ k * MaxUnschedData \in Nat
          /\ b \in Int
          /\ ReqPart(m) + k * MaxUnschedData <= b
          /\ b < TotalUnsched(m)
      BY <1>4, <2>2, UnschedPktBytes
    <3> QED BY <1>1, <3>1
  <2> QED BY <1>2, <2>1, <2>2
<1> QED BY <1>7, <1>8, <1>9, <1>10, BytesIn


-----------------------------------------------------------------------------
(* The types of the records that the handlers pass on.                      *)

Inbound == [open : BOOLEAN, bytesToGrant : Nat, bytesToReceive : Nat,
            totalBytesInFlight : 0 .. Word - 1, inflightGrants : SUBSET (Nat \X Nat)]

Inbounds == [Msg -> Inbound]
Files == [Host -> Seq(Msg)]
Timers == [Host -> BOOLEAN]
Prios == [Host -> 0 .. AllPrio]
Indices == [Host -> Nat]
Lists == Seq(Host)
Widths == {n \in Nat : n >= NumToKeepGranted}
Deliveries == [Msg -> Nat]

\* The assertions and errors
Labels ==
  {"mesgsToGrant: nothing erased", "remove: empty list", "remove: unlisted sender",
   "insert: nothing to grant", "insert: no room", "sendAndScheduleGrant: nothing to grant",
   "removeAt: no sender to grant", "handleGrantSent: old out of range",
   "handleGrantSent: cur out of range", "handleGrantSent: invalid position",
   "handleGrantSent: unbounded", "handleInboundPkt: unknown message",
   "fillinRxBytes: not in flight", "handleInboundPkt: complete but granted",
   "handlePktArrival: invalid old position", "oversub: not marked", "oversub: not recorded"}

Receivers ==
  [inbnd : Inbounds, toGrant : Files, timer : Timers, lastPrio : Prios, lastIdx : Indices,
   senders : Lists, headIdx : Nat, numToGrant : Widths, oversub : {"in", "ended", "none"},
   bwTimer : BOOLEAN, inflightUnsched : Int, inflightSched : Int, delivered : Deliveries,
   grants : SUBSET Grant, failed : SUBSET Labels]

\* A SchedState
Places == [s : Host, sInd : Int, headIdx : Nat, numSenders : Nat, numToGrant : Nat]

\* A scheduler in the middle of an event
Events == [r : Receivers, old : Places, cur : Places, going : BOOLEAN]

\* What the operations of SchedSenders leave alone
SameMesgs(r, q) ==
  /\ q.inbnd = r.inbnd /\ q.toGrant = r.toGrant /\ q.delivered = r.delivered
  /\ q.timer = r.timer /\ q.lastPrio = r.lastPrio /\ q.grants = r.grants
  /\ q.inflightUnsched = r.inflightUnsched /\ q.inflightSched = r.inflightSched

\* q is r with another list, or with an error
Relisted(r, q) ==
  /\ q \in Receivers /\ SameMesgs(r, q)
  /\ q.numToGrant = r.numToGrant /\ q.oversub = r.oversub /\ q.bwTimer = r.bwTimer

\* q has that list
HasList(q, list, head, last) == q.senders = list /\ q.headIdx = head /\ q.lastIdx = last

\* r without or with one more failure
Failing(r, label) == [r EXCEPT !.failed = r.failed \cup {label}]
Required(r, q) == q = r \/ \E label \in Labels : q = Failing(r, label)

LEMMA RequireStep ==
  ASSUME NEW r \in Receivers, NEW q, Required(r, q)
  PROVE  Relisted(r, q) /\ HasList(q, r.senders, r.headIdx, r.lastIdx)
BY DEF Receivers, Required, Failing, SameMesgs, Relisted, HasList

\* r with another list
Relist(r, list, head, last) == [r EXCEPT !.senders = list, !.headIdx = head, !.lastIdx = last]

LEMMA RelistStep ==
  ASSUME NEW r \in Receivers, NEW list \in Lists, NEW head \in Nat, NEW last \in Indices
  PROVE  /\ Relisted(r, Relist(r, list, head, last))
         /\ HasList(Relist(r, list, head, last), list, head, last)
         /\ Relist(r, list, head, last).failed = r.failed
BY DEF Receivers, SameMesgs, Relisted, HasList, Relist

LEMMA RelistedAgain ==
  ASSUME NEW r, NEW o, NEW q, Relisted(r, o), Relisted(o, q)
  PROVE  Relisted(r, q)
BY DEF Relisted, SameMesgs

\* The head of the list when sender i is taken out of it
HeadWithout(r, i) ==
  IF i = 1 /\ r.headIdx + Lesser(Len(r.senders) - 1, r.numToGrant) < SchedPrios
    THEN r.headIdx + 1 ELSE r.headIdx

LEMMA RemoveIthStep ==
  ASSUME NEW r \in Receivers, NEW i \in DOMAIN r.senders
  PROVE  /\ Relisted(r, RemoveIth(r, i))
         /\ HasList(RemoveIth(r, i), RemoveAt(r.senders, i), HeadWithout(r, i),
                    [r.lastIdx EXCEPT ![r.senders[i]] = r.headIdx + i - 1])
         /\ RemoveIth(r, i).failed = r.failed
<1> DEFINE q == RemoveIth(r, i)
           ind == r.headIdx + i - 1
           granted == Lesser(Len(r.senders) - 1, r.numToGrant)
           leaveRoom == i = 1 /\ ind + granted < SchedPrios
           list == RemoveAt(r.senders, i)
           head == IF leaveRoom THEN r.headIdx + 1 ELSE r.headIdx
           last == [r.lastIdx EXCEPT ![r.senders[i]] = ind]
<1>1. r.senders \in Seq(Host) /\ r.headIdx \in Nat /\ r.lastIdx \in Indices
  BY DEF Receivers, Lists
<1>2. i \in 1 .. Len(r.senders) /\ i \in Nat /\ Len(r.senders) \in Nat
  BY <1>1
<1>3. list \in Lists
  <2> DEFINE s == r.senders
  <2> HIDE DEF s
  <2>1. s \in Seq(Host) /\ i \in 1 .. Len(s)
    BY <1>1, <1>2 DEF s
  <2>2. RemoveAt(s, i) \in Seq(Host)
    BY <2>1 DEF RemoveAt
  <2> QED BY <2>2 DEF s, Lists
<1>4. ind \in Nat
  BY <1>1, <1>2
<1>5. head \in Nat
  BY <1>1
<1>6. last \in Indices
  <2> HIDE DEF ind
  <2> QED BY <1>1, <1>4 DEF Indices
<1>7. q = Relist(r, list, head, last)
  <2>1. q = [r EXCEPT !.senders = RemoveAt(@, i),
                      !.headIdx = IF leaveRoom THEN @ + 1 ELSE @,
                      !.lastIdx[r.senders[i]] = ind]
    BY DEF RemoveIth
  <2> HIDE DEF leaveRoom, ind, q
  <2> QED BY <2>1 DEF Receivers, Relist
<1>8. i = 1 => ind = r.headIdx
  BY <1>1
<1>9. head = HeadWithout(r, i)
  BY <1>8 DEF HeadWithout
<1> HIDE DEF list, head, last, q
<1>10. Relisted(r, q) /\ HasList(q, list, head, last) /\ q.failed = r.failed
  BY <1>3, <1>5, <1>6, <1>7, RelistStep
<1> QED BY <1>9, <1>10 DEF list, last, q

LEMMA AheadType ==
  ASSUME NEW r \in Receivers, NEW s
  PROVE  /\ Ahead(r, s) \in 0 .. Len(r.senders)
         /\ Len(r.senders) \in Nat
<1> DEFINE list == r.senders
           D == {i \in DOMAIN list : ~Better(r, Top(r, s), Top(r, list[i]))}
           n == Len(list)
<1>1. list \in Seq(Host) /\ n \in Nat /\ DOMAIN list = 1 .. n
  BY DEF Receivers, Lists
<1>2. Ahead(r, s) = Cardinality(D)
  BY DEF Ahead
<1>3. D \subseteq 1 .. n
  BY <1>1
<1> HIDE DEF D, n
<1>4. IsFiniteSet(1 .. n) /\ Cardinality(1 .. n) = n
  <2>1. 1 \in Int /\ n \in Int
    BY <1>1
  <2>2. IsFiniteSet(1 .. n) /\ Cardinality(1 .. n) = IF 1 > n THEN 0 ELSE n - 1 + 1
    BY <2>1, FS_Interval
  <2> QED BY <1>1, <2>2
<1>5. IsFiniteSet(D) /\ Cardinality(D) <= n
  BY <1>3, <1>4, FS_Subset
<1>6. Cardinality(D) \in Nat
  BY <1>5, FS_CardinalityType
<1> QED BY <1>1, <1>2, <1>5, <1>6 DEF n

LEMMA InsPointType ==
  ASSUME NEW r \in Receivers, NEW s \in Host, NEW at, at = InsPoint(r, s)
  PROVE  /\ at \in Places /\ at.s = s /\ at.numToGrant = r.numToGrant
         /\ r.toGrant[s] = <<>> => at.sInd = -1 /\ at.headIdx = r.headIdx
                                   /\ at.numSenders = Len(r.senders)
         /\ r.toGrant[s] # <<>> => at.sInd = at.headIdx + Ahead(r, s)
                                   /\ at.numSenders = Len(r.senders) + 1
<1> DEFINE before == Ahead(r, s)
           useRoom == before = 0 /\ r.headIdx > 0 /\ r.headIdx # r.lastIdx[s]
           head == IF useRoom THEN r.headIdx - 1 ELSE r.headIdx
           num == Len(r.senders) + 1
           shift == LeftShift(r, num, head)
           newHead == IF shift > 0 THEN head - shift ELSE head
<1>1. /\ before \in Nat /\ num \in Nat /\ Len(r.senders) \in Nat
      /\ r.headIdx \in Nat /\ r.numToGrant \in Nat /\ SchedPrios \in Nat
  BY AheadType, SchedAssumption DEF Receivers, Widths
<1>2. head \in Nat
  BY <1>1
<1>3. shift = Lesser(num, Lesser(r.numToGrant, SchedPrios)) - (SchedPrios - head)
  BY DEF LeftShift
<1> HIDE DEF num, head, before
<1>4. newHead \in Nat
  BY <1>1, <1>2, <1>3 DEF Lesser
<1>5. at = IF r.toGrant[s] = <<>>
             THEN [s |-> s, sInd |-> -1, headIdx |-> r.headIdx, numSenders |-> num - 1,
                   numToGrant |-> r.numToGrant]
             ELSE [s |-> s, sInd |-> newHead + before, headIdx |-> newHead,
                   numSenders |-> num, numToGrant |-> r.numToGrant]
  BY DEF InsPoint, num, head, before
<1>6. num - 1 = Len(r.senders) /\ num = Len(r.senders) + 1
  BY <1>1 DEF num
<1> HIDE DEF newHead
<1>7. CASE r.toGrant[s] = <<>>
  BY <1>1, <1>5, <1>6, <1>7 DEF Places
<1>8. CASE r.toGrant[s] # <<>>
  BY <1>1, <1>4, <1>5, <1>6, <1>8 DEF Places, before
<1> QED BY <1>7, <1>8

LEMMA InsertSenderStep ==
  ASSUME NEW r \in Receivers, NEW s \in Host
  PROVE  LET q == InsertSender(r, s)
         IN  /\ Relisted(r, q)
             /\ r.toGrant[s] # <<>> =>
                  /\ HasList(q, InsertAt(r.senders, Ahead(r, s) + 1, s),
                             InsPoint(r, s).headIdx, r.lastIdx)
                  /\ InsPoint(r, s).headIdx <= r.headIdx => q.failed = r.failed
<1> DEFINE q == InsertSender(r, s)
<1>1. CASE r.toGrant[s] = <<>>
  <2>1. Required(r, q)
    BY <1>1 DEF InsertSender, Require, Required, Failing, Labels
  <2>2. Relisted(r, q)
    <3> HIDE DEF q
    <3> QED BY <2>1, RequireStep
  <2> QED BY <1>1, <2>2
<1>2. CASE r.toGrant[s] # <<>>
  <2> DEFINE at == InsPoint(r, s)
             before == Ahead(r, s)
             list == InsertAt(r.senders, at.sInd - at.headIdx + 1, s)
             o == [r EXCEPT !.senders = list, !.headIdx = at.headIdx]
             room == at.headIdx >= 0 /\ at.headIdx =< r.headIdx
  <2>1. /\ at \in Places /\ at.sInd = at.headIdx + before
    BY <1>2, InsPointType
  <2>2. before \in 0 .. Len(r.senders)
    BY AheadType
  <2>3. at.headIdx \in Nat /\ at.sInd - at.headIdx + 1 = before + 1
    <3> HIDE DEF at, before
    <3> QED BY <2>1, <2>2 DEF Places
  <2>4. Required(o, q) /\ (room => q = o)
    <3>1. q = Require(o, room, "insert: no room")
      BY <1>2 DEF InsertSender
    <3> HIDE DEF o, room, q
    <3> QED BY <3>1 DEF Require, Required, Failing, Labels
  <2> HIDE DEF at, before, q
  <2>5. list = InsertAt(r.senders, before + 1, s) /\ list \in Lists
    <3> DEFINE t == r.senders
    <3>1. t \in Seq(Host) /\ before \in 0 .. Len(t)
      BY <2>2 DEF Receivers, Lists
    <3> HIDE DEF t
    <3>2. InsertAt(t, before + 1, s) \in Seq(Host)
      BY <3>1 DEF InsertAt
    <3> QED BY <2>3, <3>2 DEF t, Lists
  <2> HIDE DEF list
  <2> DEFINE head == at.headIdx
             last == r.lastIdx
  <2>6. last \in Indices /\ o = Relist(r, list, head, last)
    BY DEF Receivers, Relist
  <2>7. head \in Nat
    BY <2>3
  <2> HIDE DEF o, room, head, last
  <2>8. Relisted(r, o) /\ HasList(o, list, head, last) /\ o.failed = r.failed
    BY <2>5, <2>6, <2>7, RelistStep
  <2>9. /\ Relisted(o, q)
        /\ HasList(q, o.senders, o.headIdx, o.lastIdx)
        /\ room => q = o
    <3>1. o \in Receivers
      BY <2>8 DEF Relisted
    <3> QED BY <2>4, <3>1, RequireStep
  <2>10. Relisted(r, q)
    BY <2>8, <2>9, RelistedAgain
  <2>11. HasList(q, list, head, last)
    BY <2>8, <2>9 DEF HasList
  <2>12. at.headIdx =< r.headIdx => room
    BY <2>3 DEF room
  <2> QED BY <1>2, <2>5, <2>8, <2>9, <2>10, <2>11, <2>12 DEF head, last, at, before, q
<1> QED BY <1>1, <1>2

LEMMA RemoveSenderStep ==
  ASSUME NEW r \in Receivers, NEW s \in Host
  PROVE  Relisted(r, RemoveSender(r, s))
<1> DEFINE q == RemoveSender(r, s)
<1>1. CASE r.senders = <<>>
  <2> DEFINE o == [r EXCEPT !.headIdx = SchedPrios]
             list == r.senders
             last == r.lastIdx
  <2>1. Required(o, q)
    BY <1>1 DEF RemoveSender, Require, Required, Failing, Labels
  <2>2. /\ list \in Lists /\ last \in Indices /\ SchedPrios \in Nat
        /\ o = Relist(r, list, SchedPrios, last)
    BY SchedAssumption DEF Receivers, Relist
  <2> HIDE DEF o, list, last, q
  <2>3. Relisted(r, o) /\ o \in Receivers
    BY <2>2, RelistStep DEF Relisted
  <2>4. Relisted(o, q)
    BY <2>1, <2>3, RequireStep
  <2> QED BY <2>3, <2>4, RelistedAgain DEF q
<1>2. CASE r.senders # <<>> /\ r.toGrant[s] = <<>>
  BY <1>2 DEF RemoveSender, SameMesgs, Relisted
<1>3. CASE r.senders # <<>> /\ r.toGrant[s] # <<>> /\ ~Listed(r, s)
  <2>1. Required(r, q)
    BY <1>3 DEF RemoveSender, Require, Required, Failing, Labels
  <2> HIDE DEF q
  <2>2. Relisted(r, q)
    BY <2>1, RequireStep
  <2> QED BY <2>2 DEF q
<1>4. CASE r.senders # <<>> /\ r.toGrant[s] # <<>> /\ Listed(r, s)
  <2> DEFINE i == IndexOf(r, s)
  <2>1. i \in DOMAIN r.senders
    BY <1>4 DEF Listed, IndexOf
  <2>2. q = RemoveIth(r, i)
    BY <1>4 DEF RemoveSender
  <2> HIDE DEF i, q
  <2>3. Relisted(r, q)
    BY <2>1, <2>2, RemoveIthStep
  <2> QED BY <2>3 DEF q
<1> QED BY <1>1, <1>2, <1>3, <1>4

-----------------------------------------------------------------------------
(* sendAndScheduleGrant.                                                    *)

\* What is left to be granted of a message is a part of it.
Bounds(inbnd) ==
  \A m \in Msg : /\ inbnd[m].bytesToGrant <= MsgSize[m]
                 /\ ~inbnd[m].open => inbnd[m].bytesToGrant = 0

\* The files when sender s was granted
FilesGranted(r, s) == [r.toGrant EXCEPT ![s] = Rest(r, s)]

\* r with other messages, timers and grants
Regrant(r, inbnd, files, timer, prios, sched, grants) ==
  [r EXCEPT !.inbnd = inbnd, !.toGrant = files, !.timer = timer, !.lastPrio = prios,
            !.inflightSched = sched, !.grants = grants]

\* What sendAndScheduleGrant leaves alone
SameLists(r, q) ==
  /\ q.senders = r.senders /\ q.headIdx = r.headIdx /\ q.lastIdx = r.lastIdx
  /\ q.numToGrant = r.numToGrant /\ q.oversub = r.oversub /\ q.bwTimer = r.bwTimer
  /\ q.inflightUnsched = r.inflightUnsched /\ q.delivered = r.delivered

LEMMA RegrantStep ==
  ASSUME NEW r \in Receivers, NEW inbnd \in Inbounds, NEW files \in Files,
         NEW timer \in Timers, NEW prios \in Prios, NEW sched \in Int,
         NEW grants \in SUBSET Grant
  PROVE  LET q == Regrant(r, inbnd, files, timer, prios, sched, grants)
         IN  /\ q \in Receivers /\ SameLists(r, q)
             /\ q.inbnd = inbnd /\ q.toGrant = files /\ q.timer = timer
             /\ q.lastPrio = prios /\ q.inflightSched = sched /\ q.grants = grants
             /\ q.failed = r.failed
BY DEF Receivers, SameLists, Regrant

LEMMA OnWireType ==
  ASSUME NEW n \in Nat, NEW hdr \in {UnschedHdr, SchedHdr}
  PROVE  OnWire(n, hdr) \in Nat
<1> DEFINE cap == MaxEthPayload - hdr
           full == n \div cap
           partial == n % cap
           short == IF partial + hdr < MinEthPayload THEN MinEthPayload ELSE partial + hdr
           most == full * (MaxEthPayload + EthOverhead)
<1>1. /\ cap \in Nat \ {0} /\ hdr \in Nat /\ MinEthPayload \in Nat
      /\ EthOverhead \in Nat /\ MaxEthPayload \in Nat
  BY WireAssumption
<1>2. OnWire(n, hdr) = most + (IF full > 0 /\ partial = 0 THEN 0 ELSE short + EthOverhead)
  BY DEF OnWire
<1> HIDE DEF cap
<1>3. full \in Nat /\ partial \in Nat
  BY <1>1
<1> HIDE DEF full, partial
<1>4. short \in Nat
  BY <1>1, <1>3
<1>5. most \in Nat
  <2> DEFINE w == MaxEthPayload + EthOverhead
  <2>1. w \in Nat
    BY <1>1
  <2> HIDE DEF w
  <2>2. full * w \in Nat
    BY <1>3, <2>1
  <2> QED BY <2>2 DEF w
<1> HIDE DEF short, most
<1> QED BY <1>1, <1>2, <1>4, <1>5

\* The grant that sender s may get is one of the top message.
LEMMA GrantType ==
  ASSUME NEW r \in Receivers, Bounds(r.inbnd), NEW s \in Host, r.toGrant[s] # <<>>
  PROVE  /\ Top(r, s) \in Msg
         /\ r.inbnd[Top(r, s)] \in Inbound
         /\ GrantSize(r, s) \in Nat /\ GrantSize(r, s) <= GrantMax
         /\ GrantSize(r, s) <= r.inbnd[Top(r, s)].bytesToGrant
         /\ GrantOf(r, s) \in Grant
         /\ Granted(r, s) \in Inbound
         /\ InbndGranted(r, s) \in Inbounds
         /\ FilesGranted(r, s) \in Files
         /\ OnWire(GrantSize(r, s), SchedHdr) \in Nat
<1> DEFINE m == Top(r, s)
           f == r.toGrant[s]
           in == r.inbnd[m]
           n == GrantSize(r, s)
<1>1. f \in Seq(Msg) /\ f # <<>> /\ m = Head(f)
  BY DEF Receivers, Files, Top
<1> HIDE DEF f
<1>2. m \in Msg
  BY <1>1
<1> HIDE DEF m
<1>3. in \in Inbound /\ in.bytesToGrant <= MsgSize[m] /\ MsgSize[m] \in Nat
  BY <1>2, MsgAssumption DEF Receivers, Inbounds, Bounds
<1> HIDE DEF in
<1>4. /\ in.bytesToGrant \in Nat /\ in.totalBytesInFlight \in Nat
      /\ in.inflightGrants \in SUBSET (Nat \X Nat) /\ in.open \in BOOLEAN
      /\ in.bytesToReceive \in Nat
  BY <1>3, WireAssumption DEF Inbound
<1>5. n = Lesser(in.bytesToGrant, GrantMax)
  BY DEF GrantSize, in, m
<1> HIDE DEF n
<1>6. n \in Nat /\ n <= GrantMax /\ n <= in.bytesToGrant
  BY <1>4, <1>5, SizeAssumption DEF Lesser
<1>7. GrantOf(r, s) = [msg |-> m, first |-> MsgSize[m] - in.bytesToGrant, len |-> n]
  BY DEF GrantOf, in, m, n
<1>8. GrantOf(r, s) \in Grant /\ GrantOf(r, s).first \in Nat
  BY <1>2, <1>3, <1>4, <1>6, <1>7 DEF Grant
<1> DEFINE first == GrantOf(r, s).first
           wire == OnWire(n, SchedHdr)
<1>9. wire \in Nat
  BY <1>6, OnWireType
<1>10. Granted(r, s) = [in EXCEPT !.bytesToGrant = in.bytesToGrant - n,
                                  !.totalBytesInFlight = (in.totalBytesInFlight + wire) % Word,
                                  !.inflightGrants = in.inflightGrants \cup {<<first, n>>}]
  BY DEF Granted, in, m, n
<1> HIDE DEF wire, first
<1>11. Granted(r, s) \in Inbound
  <2> DEFINE a == in.bytesToGrant - n
             b == (in.totalBytesInFlight + wire) % Word
             c == in.inflightGrants \cup {<<first, n>>}
  <2>1. a \in Nat
    BY <1>4, <1>6
  <2>2. b \in 0 .. Word - 1
    BY <1>4, <1>9, WireAssumption
  <2>3. c \in SUBSET (Nat \X Nat)
    BY <1>4, <1>6, <1>8 DEF first
  <2>4. Granted(r, s) = [in EXCEPT !.bytesToGrant = a, !.totalBytesInFlight = b,
                                   !.inflightGrants = c]
    BY <1>10
  <2> HIDE DEF a, b, c
  <2> QED BY <1>3, <2>1, <2>2, <2>3, <2>4 DEF Inbound
<1>12. InbndGranted(r, s) \in Inbounds
  <2>1. InbndGranted(r, s) = [r.inbnd EXCEPT ![m] = Granted(r, s)] /\ r.inbnd \in Inbounds
    BY DEF InbndGranted, m, Receivers
  <2> QED BY <1>11, <2>1 DEF Inbounds
<1>13. FilesGranted(r, s) \in Files
  <2> DEFINE S == Seq(Msg)
  <2>1. Rest(r, s) \in S
    <3>1. Rest(r, s) = f \/ Rest(r, s) = Tail(f)
      BY DEF Rest, f
    <3> QED BY <1>1, <3>1
  <2>2. FilesGranted(r, s) = [r.toGrant EXCEPT ![s] = Rest(r, s)] /\ r.toGrant \in [Host -> S]
    BY DEF FilesGranted, Receivers, Files
  <2> HIDE DEF S
  <2>3. FilesGranted(r, s) \in [Host -> S]
    BY <2>1, <2>2
  <2> QED BY <2>3 DEF S, Files
<1> QED BY <1>2, <1>3, <1>6, <1>8, <1>9, <1>11, <1>12, <1>13 DEF m, in, n, wire

\* What sendAndScheduleGrant does: nothing, but perhaps fail; stop the timer of
\* the sender, when the window of its top message is full; or grant.
SendOutcome(r, s, prio, q) ==
  \/ Required(r, q)
  \/ q = Regrant(r, r.inbnd, r.toGrant, [r.timer EXCEPT ![s] = FALSE], r.lastPrio,
                 r.inflightSched, r.grants)
  \/ /\ r.toGrant[s] # <<>>
     /\ ~WindowFull(r.inbnd[Top(r, s)])
     /\ q = Regrant(r, InbndGranted(r, s), FilesGranted(r, s),
                    [r.timer EXCEPT ![s] = GrantsAgain(InbndGranted(r, s), Rest(r, s))],
                    [r.lastPrio EXCEPT ![s] =
                       GrantPrio(r, s, prio)],
                    r.inflightSched + OnWire(GrantSize(r, s), SchedHdr),
                    r.grants \cup {GrantOf(r, s)})

LEMMA SendCases ==
  ASSUME NEW r \in Receivers, NEW s \in Host, NEW prio
  PROVE  SendOutcome(r, s, prio, SendAndScheduleGrant(r, s, prio))
<1> DEFINE q == SendAndScheduleGrant(r, s, prio)
           grantPrio == GrantPrio(r, s, prio)
           set == r.timer[s] /\ r.lastPrio[s] <= grantPrio
<1>1. q = IF r.toGrant[s] = <<>>
            THEN Require(r, FALSE, "sendAndScheduleGrant: nothing to grant")
          ELSE IF set THEN r
          ELSE IF WindowFull(r.inbnd[Top(r, s)]) THEN [r EXCEPT !.timer[s] = FALSE]
          ELSE Granting(r, s, prio)
  BY DEF SendAndScheduleGrant
<1> HIDE DEF q, set
<1>2. CASE r.toGrant[s] = <<>>
  <2>1. Required(r, q)
    BY <1>1, <1>2 DEF Require, Required, Failing, Labels
  <2> QED BY <2>1 DEF SendOutcome, q
<1>3. CASE r.toGrant[s] # <<>> /\ set
  <2>1. Required(r, q)
    BY <1>1, <1>3 DEF Required
  <2> QED BY <2>1 DEF SendOutcome, q
<1>4. CASE r.toGrant[s] # <<>> /\ ~set /\ WindowFull(r.inbnd[Top(r, s)])
  <2>1. q = [r EXCEPT !.timer[s] = FALSE]
    BY <1>1, <1>4
  <2>2. q = Regrant(r, r.inbnd, r.toGrant, [r.timer EXCEPT ![s] = FALSE], r.lastPrio,
                    r.inflightSched, r.grants)
    BY <2>1 DEF Regrant, Receivers
  <2> QED BY <2>2 DEF SendOutcome, q
<1>5. CASE r.toGrant[s] # <<>> /\ ~set /\ ~WindowFull(r.inbnd[Top(r, s)])
  <2> DEFINE inbnd == InbndGranted(r, s)
             files == FilesGranted(r, s)
             again == GrantsAgain(inbnd, Rest(r, s))
             wire == OnWire(GrantSize(r, s), SchedHdr)
             grant == GrantOf(r, s)
  <2>1. q = [r EXCEPT !.inbnd = inbnd,
                      !.toGrant[s] = Rest(r, s),
                      !.timer[s] = again,
                      !.lastPrio[s] = grantPrio,
                      !.inflightSched = @ + wire,
                      !.grants = @ \cup {grant}]
    BY <1>1, <1>5 DEF Granting
  <2> HIDE DEF inbnd, again, grantPrio, wire, grant
  <2>2. q = Regrant(r, inbnd, files, [r.timer EXCEPT ![s] = again],
                    [r.lastPrio EXCEPT ![s] = grantPrio], r.inflightSched + wire,
                    r.grants \cup {grant})
    BY <2>1 DEF Regrant, Receivers, FilesGranted
  <2> QED BY <1>5, <2>2 DEF SendOutcome, inbnd, again, grantPrio, wire, grant, q
<1> QED BY <1>2, <1>3, <1>4, <1>5 DEF q

\* The priorities that may be asked for, and what is made of them
LEMMA PrioType ==
  ASSUME NEW i \in Nat
  PROVE  PrioForMesg(i) \in 0 .. AllPrio
BY SchedAssumption DEF PrioForMesg, Lesser

LEMMA SendType ==
  ASSUME NEW r \in Receivers, Bounds(r.inbnd), NEW s \in Host, NEW prio \in 0 .. AllPrio
  PROVE  /\ SendAndScheduleGrant(r, s, prio) \in Receivers
         /\ Bounds(SendAndScheduleGrant(r, s, prio).inbnd)
         /\ SameLists(r, SendAndScheduleGrant(r, s, prio))
<1> DEFINE q == SendAndScheduleGrant(r, s, prio)
<1>1. SendOutcome(r, s, prio, q)
  BY SendCases
<1>2. /\ r.inbnd \in Inbounds /\ r.toGrant \in Files /\ r.timer \in Timers
      /\ r.lastPrio \in Prios /\ r.inflightSched \in Int /\ r.grants \in SUBSET Grant
  BY DEF Receivers
<1> HIDE DEF q
<1>3. CASE Required(r, q)
  BY <1>3, RequireStep DEF Relisted, SameMesgs, HasList, SameLists, q
<1>4. CASE q = Regrant(r, r.inbnd, r.toGrant, [r.timer EXCEPT ![s] = FALSE], r.lastPrio,
                       r.inflightSched, r.grants)
  <2> DEFINE timer == [r.timer EXCEPT ![s] = FALSE]
  <2>1. timer \in Timers
    BY <1>2 DEF Timers
  <2> HIDE DEF timer
  <2> QED BY <1>2, <1>4, <2>1, RegrantStep DEF timer, q
<1>5. CASE /\ r.toGrant[s] # <<>>
           /\ ~WindowFull(r.inbnd[Top(r, s)])
           /\ q = Regrant(r, InbndGranted(r, s), FilesGranted(r, s),
                    [r.timer EXCEPT ![s] = GrantsAgain(InbndGranted(r, s), Rest(r, s))],
                    [r.lastPrio EXCEPT ![s] =
                       GrantPrio(r, s, prio)],
                    r.inflightSched + OnWire(GrantSize(r, s), SchedHdr),
                    r.grants \cup {GrantOf(r, s)})
  <2> DEFINE inbnd == InbndGranted(r, s)
             files == FilesGranted(r, s)
             timer == [r.timer EXCEPT ![s] = GrantsAgain(inbnd, Rest(r, s))]
             p == GrantPrio(r, s, prio)
             prios == [r.lastPrio EXCEPT ![s] = p]
             sched == r.inflightSched + OnWire(GrantSize(r, s), SchedHdr)
             grants == r.grants \cup {GrantOf(r, s)}
             m == Top(r, s)
  <2>1. /\ inbnd \in Inbounds /\ files \in Files /\ GrantOf(r, s) \in Grant
        /\ OnWire(GrantSize(r, s), SchedHdr) \in Nat
        /\ m \in Msg /\ GrantSize(r, s) \in Nat
        /\ GrantSize(r, s) <= r.inbnd[m].bytesToGrant
        /\ r.inbnd[m] \in Inbound
    BY <1>5, GrantType
  <2>2. timer \in Timers
    <3>1. GrantsAgain(inbnd, Rest(r, s)) \in BOOLEAN
      BY DEF GrantsAgain
    <3> QED BY <1>2, <3>1 DEF Timers
  <2>3. p \in 0 .. AllPrio
    BY SchedAssumption DEF GrantPrio, Lesser, SchedPktPrio
  <2>4. prios \in Prios
    <3> HIDE DEF p
    <3> QED BY <1>2, <2>3 DEF Prios
  <2>5. sched \in Int /\ grants \in SUBSET Grant
    BY <1>2, <2>1
  <2>6. Bounds(inbnd)
    <3> DEFINE in == r.inbnd[m]
               new == Granted(r, s)
               n == GrantSize(r, s)
    <3>1. /\ new.bytesToGrant = in.bytesToGrant - n /\ new.open = in.open
          /\ in.bytesToGrant \in Nat
      BY <2>1 DEF Granted, Inbound
    <3>2. \A k \in Msg : inbnd[k] = IF k = m THEN new ELSE r.inbnd[k]
      BY <1>2, <2>1 DEF InbndGranted, Inbounds
    <3>3. \A k \in Msg : MsgSize[k] \in Nat
      BY MsgAssumption
    <3>4. r.inbnd[m] = in /\ n \in Nat /\ n <= in.bytesToGrant
      BY <2>1
    <3> HIDE DEF in, new, n, inbnd, m
    <3> QED BY <2>1, <3>1, <3>2, <3>3, <3>4 DEF Bounds
  <2> HIDE DEF inbnd, files, timer, prios, sched, grants, p
  <2>7. q = Regrant(r, inbnd, files, timer, prios, sched, grants)
    BY <1>5 DEF inbnd, files, timer, prios, sched, grants, p
  <2>8. q \in Receivers /\ SameLists(r, q) /\ q.inbnd = inbnd
    BY <2>1, <2>2, <2>4, <2>5, <2>7, RegrantStep
  <2> QED BY <2>6, <2>8 DEF q
<1> QED BY <1>1, <1>3, <1>4, <1>5 DEF SendOutcome

-----------------------------------------------------------------------------
(* Handlers that only list senders and send grants.                         *)

\* What does not change when a sender is listed or removed, or a timer set
SameBytes(r, q) ==
  /\ q.inbnd = r.inbnd /\ q.toGrant = r.toGrant /\ q.delivered = r.delivered
  /\ q.grants = r.grants
  /\ q.inflightUnsched = r.inflightUnsched /\ q.inflightSched = r.inflightSched

\* A set of receivers that listing senders and sending grants do not leave
Closed(G) ==
  /\ \A r \in G : r \in Receivers /\ Bounds(r.inbnd)
  /\ \A r \in G : \A q \in Receivers : SameBytes(r, q) => q \in G
  /\ \A r \in G : \A s \in Host : \A prio \in 0 .. AllPrio :
       SendAndScheduleGrant(r, s, prio) \in G

EventsIn(G) == [r : G, old : Places, cur : Places, going : BOOLEAN]

LEMMA ClosedRelisted ==
  ASSUME NEW G, Closed(G), NEW r \in G, NEW q, Relisted(r, q)
  PROVE  q \in G
BY DEF Closed, Relisted, SameMesgs, SameBytes

LEMMA ClosedRequire ==
  ASSUME NEW G, Closed(G), NEW r \in G, NEW cond, NEW label \in Labels
  PROVE  Require(r, cond, label) \in G
<1>1. Required(r, Require(r, cond, label))
  BY DEF Require, Required, Failing
<1>2. r \in Receivers
  BY DEF Closed
<1> QED BY <1>1, <1>2, RequireStep, ClosedRelisted

LEMMA ClosedInsert ==
  ASSUME NEW G, Closed(G), NEW r \in G, NEW s \in Host
  PROVE  InsertSender(r, s) \in G
<1>1. r \in Receivers
  BY DEF Closed
<1> QED BY <1>1, InsertSenderStep, ClosedRelisted

LEMMA ClosedSend ==
  ASSUME NEW G, Closed(G), NEW r \in G, NEW s \in Host, NEW i \in Nat
  PROVE  SendAndScheduleGrant(r, s, PrioForMesg(i)) \in G
BY PrioType DEF Closed

LEMMA GrantAtIn ==
  ASSUME NEW G, Closed(G), NEW r \in G, NEW cur \in Places, NEW ind \in Int
  PROVE  GrantAt(r, cur, ind) \in EventsIn(G)
<1> DEFINE i == ind - r.headIdx + 1
           q == GrantAt(r, cur, ind)
<1>0. r \in Receivers /\ r.headIdx \in Nat /\ r.senders \in Seq(Host)
  BY DEF Closed, Receivers, Lists
<1>1. CASE i \notin DOMAIN r.senders
  <2> DEFINE o == Require(r, FALSE, "removeAt: no sender to grant")
  <2>1. o \in G
    BY ClosedRequire DEF Labels
  <2>2. q = [r |-> o, old |-> cur, cur |-> cur, going |-> FALSE]
    BY <1>1 DEF GrantAt, Settled
  <2> HIDE DEF o, q
  <2>3. q \in EventsIn(G)
    BY <2>1, <2>2 DEF EventsIn
  <2> QED BY <2>3 DEF q
<1>2. CASE i \in DOMAIN r.senders
  <2> DEFINE s == r.senders[i]
             o == RemoveIth(r, i)
             sent == SendAndScheduleGrant(o, s, PrioForMesg(ind))
             old == [cur EXCEPT !.s = s, !.sInd = ind]
             at == InsPoint(sent, s)
  <2>1. s \in Host /\ ind \in Nat
    <3>1. i \in 1 .. Len(r.senders)
      BY <1>0, <1>2
    <3>2. ind >= r.headIdx
      BY <1>0, <3>1
    <3> QED BY <1>0, <3>1, <3>2
  <2>2. o \in G
    <3>1. Relisted(r, o)
      BY <1>0, <1>2, RemoveIthStep
    <3> HIDE DEF o
    <3> QED BY <3>1, ClosedRelisted
  <2>3. sent \in G /\ sent \in Receivers
    <3> HIDE DEF o, s
    <3>1. sent \in G
      BY <2>1, <2>2, ClosedSend
    <3> QED BY <3>1 DEF Closed
  <2>4. q = [r |-> sent, old |-> old, cur |-> at, going |-> TRUE]
    BY <1>2 DEF GrantAt
  <2>5. old \in Places
    <3> HIDE DEF s
    <3> QED BY <2>1 DEF Places
  <2>6. at \in Places
    <3> HIDE DEF s, sent
    <3> QED BY <2>1, <2>3, InsPointType
  <2> HIDE DEF q, sent, old, at
  <2>7. q \in EventsIn(G)
    BY <2>3, <2>4, <2>5, <2>6 DEF EventsIn
  <2> QED BY <2>7 DEF q
<1> QED BY <1>1, <1>2

LEMMA SettledIn ==
  ASSUME NEW G, NEW r \in G, NEW cur \in Places
  PROVE  Settled(r, cur) \in EventsIn(G)
BY DEF Settled, EventsIn

LEMMA PassOnIn ==
  ASSUME NEW G, Closed(G), NEW st \in EventsIn(G)
  PROVE  PassOn(st) \in EventsIn(G)
<1> DEFINE r == Require(st.r, InRange(st.old), "handleGrantSent: old out of range")
           cur == st.cur
           back == IF cur.sInd >= 0 THEN InsertSender(r, cur.s) ELSE r
           o1 == Require(r, InRange(cur), "handleGrantSent: cur out of range")
           o2 == InsertSender(o1, cur.s)
           o3 == Require(r, FALSE, "handleGrantSent: invalid position")
           ind == cur.headIdx + cur.numToGrant - 1
           o4 == GrantAt(back, cur, ind)
           q == PassOn(st)
<1>1. st.r \in G /\ st.cur \in Places /\ st.cur.s \in Host /\ ind \in Int
  BY DEF EventsIn, Places
<1>2. r \in G
  BY <1>1, ClosedRequire DEF Labels
<1>3. q = IF ~st.going THEN st
          ELSE IF st.old.sInd = cur.sInd THEN Settled(o2, cur)
          ELSE IF cur.sInd >= 0 /\ cur.sInd < cur.headIdx THEN Settled(o3, cur)
          ELSE IF SlotIsFree(cur) THEN o4
          ELSE Settled(back, cur)
  BY DEF PassOn
<1> HIDE DEF r, q
<1>4. back \in G
  BY <1>1, <1>2, ClosedInsert
<1>5. o1 \in G /\ o3 \in G
  BY <1>2, ClosedRequire DEF Labels
<1> HIDE DEF o1, o3, back
<1>6. o2 \in G
  BY <1>1, <1>5, ClosedInsert
<1> HIDE DEF o2, ind
<1>7. o4 \in EventsIn(G)
  BY <1>1, <1>4, GrantAtIn
<1> HIDE DEF o4
<1>8. /\ Settled(o2, cur) \in EventsIn(G) /\ Settled(o3, cur) \in EventsIn(G)
      /\ Settled(back, cur) \in EventsIn(G)
  BY <1>1, <1>4, <1>5, <1>6, SettledIn
<1>9. q \in EventsIn(G)
  BY <1>3, <1>7, <1>8
<1> QED BY <1>9 DEF q

\* The recursion by which handleGrantSentEvent calls itself
CallsFrom(f, st, n) == f = [i \in 0 .. n |-> IF i = 0 THEN st ELSE PassOn(f[i - 1])]

\* There is such a function: a shortest one that does not exist would.
LEMMA CallsExist ==
  ASSUME NEW st, NEW n \in Nat
  PROVE  \E f : CallsFrom(f, st, n)
<1> DEFINE T == {k \in Nat : ~\E f : CallsFrom(f, st, k)}
<1>1. SUFFICES ASSUME T # {}
               PROVE  FALSE
  OBVIOUS
<1>2. PICK k \in T : \A j \in T : k <= j
  <2> HIDE DEF T
  <2>1. T \in SUBSET Nat
    BY DEF T
  <2> QED BY <1>1, <2>1, LeastElement
<1>3. k # 0
  <2> DEFINE f == [i \in {0} |-> st]
  <2>1. 0 .. 0 = {0}
    OBVIOUS
  <2>2. CallsFrom(f, st, 0)
    BY <2>1 DEF CallsFrom
  <2> QED BY <2>2
<1>4. k \in Nat /\ k - 1 \in Nat /\ k - 1 \notin T
  BY <1>2, <1>3
<1>5. PICK f : CallsFrom(f, st, k - 1)
  BY <1>4
<1> DEFINE g == [i \in 0 .. k |-> IF i = k THEN PassOn(f[k - 1]) ELSE f[i]]
<1>6. \A i \in 0 .. k - 1 : f[i] = IF i = 0 THEN st ELSE PassOn(f[i - 1])
  BY <1>5 DEF CallsFrom
<1>7. \A i \in 0 .. k : g[i] = IF i = 0 THEN st ELSE PassOn(g[i - 1])
  BY <1>3, <1>4, <1>6
<1>8. CallsFrom(g, st, k)
  <2>1. g = [i \in 0 .. k |-> g[i]]
    OBVIOUS
  <2> HIDE DEF g
  <2> QED BY <1>7, <2>1 DEF CallsFrom
<1> QED BY <1>2, <1>8

LEMMA HandleGrantSentIn ==
  ASSUME NEW G, Closed(G), NEW st \in EventsIn(G)
  PROVE  HandleGrantSent(st) \in G
<1> DEFINE calls == Cardinality(Msg) + 1
           after == CHOOSE f : CallsFrom(f, st, calls)
           T == {k \in 0 .. calls : after[k] \notin EventsIn(G)}
<1>1. calls \in Nat
  BY FiniteAssumption, FS_CardinalityType
<1>2. HandleGrantSent(st) =
        Require(after[calls].r, ~after[calls].going, "handleGrantSent: unbounded")
  BY DEF HandleGrantSent, CallsFrom
<1> HIDE DEF calls
<1>3. CallsFrom(after, st, calls)
  BY <1>1, CallsExist
<1> HIDE DEF after
<1>4. \A k \in 0 .. calls : after[k] = IF k = 0 THEN st ELSE PassOn(after[k - 1])
  BY <1>3 DEF CallsFrom
<1>5. T = {}
  <2>1. SUFFICES ASSUME T # {}
                 PROVE  FALSE
    OBVIOUS
  <2>2. PICK k \in T : \A j \in T : k <= j
    <3>1. T \in SUBSET Nat
      BY <1>1
    <3> HIDE DEF T
    <3> QED BY <2>1, <3>1, LeastElement
  <2>3. k # 0
    BY <1>4, <2>2
  <2>4. k - 1 \in 0 .. calls /\ k - 1 \notin T
    BY <1>1, <2>2, <2>3
  <2>5. after[k - 1] \in EventsIn(G) /\ after[k] = PassOn(after[k - 1])
    BY <1>4, <2>2, <2>3, <2>4
  <2>6. after[k] \in EventsIn(G)
    BY <2>5, PassOnIn
  <2> QED BY <2>2, <2>6
<1>6. after[calls] \in EventsIn(G)
  BY <1>1, <1>5
<1> DEFINE r == after[calls].r
<1>7. r \in G
  BY <1>6 DEF EventsIn
<1> HIDE DEF r
<1>8. Require(r, ~after[calls].going, "handleGrantSent: unbounded") \in G
  BY <1>7, ClosedRequire DEF Labels
<1> QED BY <1>2, <1>8 DEF r

LEMMA SendFirstIn ==
  ASSUME NEW G, Closed(G), NEW r \in G, NEW s \in Host, NEW at \in Places, at.sInd \in Nat
  PROVE  SendFirst(r, s, at) \in EventsIn(G)
<1> DEFINE sent == SendAndScheduleGrant(r, s, PrioForMesg(at.sInd))
           cur == InsPoint(sent, s)
           st == [r |-> sent, old |-> at, cur |-> cur, going |-> TRUE]
<1>1. sent \in G /\ sent \in Receivers
  <2>1. sent \in G
    BY ClosedSend
  <2> QED BY <2>1 DEF Closed
<1>2. cur \in Places
  <2> HIDE DEF sent
  <2> QED BY <1>1, InsPointType
<1>3. st \in EventsIn(G)
  <2> HIDE DEF sent, cur
  <2> QED BY <1>1, <1>2 DEF EventsIn
<1> QED BY <1>3 DEF SendFirst

LEMMA GrantSenderIn ==
  ASSUME NEW G, Closed(G), NEW r \in G, NEW s \in Host, NEW at \in Places, at.sInd \in Nat
  PROVE  GrantSender(r, s, at) \in G
BY SendFirstIn, HandleGrantSentIn DEF GrantSender

LEMMA HandlePktArrivalIn ==
  ASSUME NEW G, Closed(G), NEW r \in G, NEW old \in Places, NEW cur \in Places
  PROVE  HandlePktArrival(r, old, cur) \in G
<1> DEFINE last == cur.headIdx + Lesser(cur.numSenders, cur.numToGrant) - 1
           wasGranted == old.sInd >= 0 /\ old.sInd < old.numToGrant + old.headIdx
           check == Require(r, wasGranted => InRange(old),
                            "handlePktArrival: invalid old position")
           o1 == GrantAt(check, cur, last)
           b2 == InsertSender(check, cur.s)
           o2 == GrantAt(b2, cur, last)
           b3 == InsertSender(r, cur.s)
           o3 == SendFirst(r, cur.s, cur)
           st == IF cur.sInd < 0
                   THEN IF wasGranted THEN o1 ELSE Settled(r, cur)
                 ELSE IF cur.sInd >= cur.headIdx + cur.numToGrant
                   THEN IF wasGranted THEN o2 ELSE Settled(b3, cur)
                 ELSE o3
<1>1. /\ last \in Int /\ cur.s \in Host /\ cur.sInd \in Int
      /\ cur.headIdx + cur.numToGrant \in Int
  BY DEF Places, Lesser
<1>2. check \in G
  <2> HIDE DEF wasGranted
  <2> QED BY ClosedRequire DEF Labels
<1>3. HandlePktArrival(r, old, cur) = HandleGrantSent(st)
  BY DEF HandlePktArrival
<1> HIDE DEF check, last, wasGranted
<1>4. o1 \in EventsIn(G)
  BY <1>1, <1>2, GrantAtIn
<1>5. b2 \in G /\ b3 \in G
  BY <1>1, <1>2, ClosedInsert
<1> HIDE DEF b2, b3
<1>6. o2 \in EventsIn(G)
  BY <1>1, <1>5, GrantAtIn
<1>7. Settled(r, cur) \in EventsIn(G) /\ Settled(b3, cur) \in EventsIn(G)
  BY <1>5, SettledIn
<1>8. cur.sInd >= 0 => o3 \in EventsIn(G)
  BY <1>1, SendFirstIn
<1> HIDE DEF o1, o2, o3
<1>9. st \in EventsIn(G)
  BY <1>1, <1>4, <1>6, <1>7, <1>8
<1> HIDE DEF st
<1> QED BY <1>3, <1>9, HandleGrantSentIn

\* The timer of a sender fires.
LEMMA ProcessGrantTimerIn ==
  ASSUME NEW G, Closed(G), NEW r0 \in G, NEW s \in Host
  PROVE  ProcessGrantTimer(r0, s) \in G
<1> DEFINE off == [r0 EXCEPT !.timer[s] = FALSE]
           r1 == RemoveSender(off, s)
           at == InsPoint(r1, s)
           o1 == InsertSender(r1, s)
           o2 == GrantSender(r1, s, at)
           r2 == IF at.sInd < 0 THEN r1
                 ELSE IF at.sInd - at.headIdx >= r1.numToGrant THEN o1
                 ELSE o2
           q == ProcessGrantTimer(r0, s)
<1>1. off \in G /\ off \in Receivers
  <2>1. r0 \in Receivers
    BY DEF Closed
  <2> DEFINE timer == [r0.timer EXCEPT ![s] = FALSE]
  <2>2. timer \in Timers
    BY <2>1 DEF Receivers, Timers
  <2>3. off = [r0 EXCEPT !.timer = timer]
    BY <2>1 DEF Receivers
  <2> HIDE DEF off, timer
  <2>4. off \in Receivers /\ SameBytes(r0, off)
    BY <2>1, <2>2, <2>3 DEF Receivers, SameBytes
  <2> QED BY <2>4 DEF Closed
<1>2. q = IF r2.oversub = "in" /\ ~Oversubscribed(r2)
            THEN [r2 EXCEPT !.oversub = "ended"] ELSE r2
  BY DEF ProcessGrantTimer
<1> HIDE DEF off, q
<1>3. r1 \in G /\ r1 \in Receivers
  <2>1. r1 \in G
    BY <1>1, RemoveSenderStep, ClosedRelisted
  <2> QED BY <2>1 DEF Closed
<1> HIDE DEF r1
<1>4. at \in Places /\ at.sInd \in Int
  <2>1. at \in Places
    BY <1>3, InsPointType
  <2> QED BY <2>1 DEF Places
<1> HIDE DEF at
<1>5. o1 \in G
  BY <1>3, ClosedInsert
<1>6. at.sInd >= 0 => o2 \in G
  BY <1>3, <1>4, GrantSenderIn
<1> HIDE DEF o1, o2
<1>7. r2 \in G
  BY <1>3, <1>4, <1>5, <1>6
<1> HIDE DEF r2
<1>8. q \in G
  <2> DEFINE o == [r2 EXCEPT !.oversub = "ended"]
  <2>1. r2 \in Receivers
    BY <1>7 DEF Closed
  <2>2. o \in Receivers /\ SameBytes(r2, o)
    BY <2>1 DEF Receivers, SameBytes
  <2>3. o \in G
    BY <1>7, <2>2 DEF Closed
  <2> QED BY <1>2, <1>7, <2>3
<1> QED BY <1>8 DEF q

\* The bandwidth check finds a bubble.
LEMMA HandleBwUtilTimerIn ==
  ASSUME NEW G, Closed(G), NEW r0 \in G
  PROVE  HandleBwUtilTimer(r0) \in G
<1> DEFINE r1 == [r0 EXCEPT !.bwTimer = FALSE]
           r2 == [r1 EXCEPT !.numToGrant = @ + 1,
                            !.headIdx = IF @ > 0 THEN @ - 1 ELSE 0]
           n == r2.numToGrant
           ind == r2.headIdx + n - 1
           s == r2.senders[n]
           old == [s |-> s, sInd |-> ind, headIdx |-> r2.headIdx,
                   numSenders |-> Len(r2.senders), numToGrant |-> n]
           o == RemoveIth(r2, n)
           once == SendAndScheduleGrant(o, s, PrioForMesg(ind))
           r3 == SendAndScheduleGrant(once, s, PrioForMesg(ind))
           cur == InsPoint(r3, s)
           st == [r |-> r3, old |-> old, cur |-> cur, going |-> TRUE]
           end == HandleGrantSent(st)
           q == HandleBwUtilTimer(r0)
<1>1. r0 \in Receivers
  BY DEF Closed
<1>2. r1 \in Receivers /\ r1 \in G
  <2>1. r1 \in Receivers /\ SameBytes(r0, r1)
    BY <1>1 DEF Receivers, SameBytes
  <2> QED BY <2>1 DEF Closed
<1>3. q = IF ~Oversubscribed(r1) THEN r1 ELSE [end EXCEPT !.bwTimer = TRUE]
  BY DEF HandleBwUtilTimer
<1> HIDE DEF q, r1
<1>4. /\ r2 \in Receivers /\ r2 \in G
      /\ r2.senders = r1.senders /\ n = r1.numToGrant + 1 /\ n \in Nat
  <2> DEFINE wide == r1.numToGrant + 1
             head == IF r1.headIdx > 0 THEN r1.headIdx - 1 ELSE 0
  <2>1. wide \in Widths /\ head \in Nat /\ wide \in Nat
    BY <1>2, SchedAssumption DEF Receivers, Widths
  <2>2. r2 = [r1 EXCEPT !.numToGrant = wide, !.headIdx = head]
    BY <1>2 DEF Receivers
  <2> HIDE DEF r2, wide, head
  <2>3. /\ r2 \in Receivers /\ SameBytes(r1, r2)
        /\ r2.senders = r1.senders /\ r2.numToGrant = wide
    BY <1>2, <2>1, <2>2 DEF Receivers, SameBytes
  <2>4. r2 \in G
    BY <1>2, <2>3 DEF Closed
  <2> QED BY <2>1, <2>3, <2>4 DEF wide
<1>5. CASE Oversubscribed(r1)
  <2>1. n \in DOMAIN r2.senders /\ r2.headIdx \in Nat /\ n >= 1 /\ r2.senders \in Seq(Host)
    <3> HIDE DEF r2
    <3>1. /\ r2.senders \in Seq(Host) /\ r1.numToGrant \in Nat /\ r2.headIdx \in Nat
      BY <1>2, <1>4 DEF Receivers, Lists, Widths
    <3>2. r1.numToGrant < Len(r2.senders) /\ Len(r2.senders) \in Nat
      BY <1>4, <1>5, <3>1 DEF Oversubscribed
    <3>3. n \in 1 .. Len(r2.senders)
      <4> HIDE DEF n
      <4> QED BY <1>4, <3>1, <3>2
    <3> QED BY <3>1, <3>3
  <2> HIDE DEF r2
  <2>2. s \in Host /\ ind \in Nat /\ Len(r2.senders) \in Nat
    <3> HIDE DEF n
    <3> QED BY <2>1, <1>4
  <2>3. old \in Places
    <3> HIDE DEF s, n, ind
    <3> QED BY <1>4, <2>1, <2>2 DEF Places
  <2> HIDE DEF n, ind, s, old
  <2>4. o \in G
    BY <1>4, <2>1, RemoveIthStep, ClosedRelisted
  <2> HIDE DEF o
  <2>5. once \in G
    BY <2>2, <2>4, ClosedSend
  <2> HIDE DEF once
  <2>6. r3 \in G
    BY <2>2, <2>5, ClosedSend
  <2> HIDE DEF r3
  <2>7. cur \in Places
    <3>1. r3 \in Receivers
      BY <2>6 DEF Closed
    <3> QED BY <2>2, <3>1, InsPointType
  <2> HIDE DEF cur
  <2>8. st \in EventsIn(G)
    BY <2>3, <2>6, <2>7 DEF EventsIn
  <2> HIDE DEF st
  <2>9. end \in G
    BY <2>8, HandleGrantSentIn
  <2> HIDE DEF end
  <2>10. [end EXCEPT !.bwTimer = TRUE] \in G
    <3>1. end \in Receivers
      BY <2>9 DEF Closed
    <3>2. /\ [end EXCEPT !.bwTimer = TRUE] \in Receivers
          /\ SameBytes(end, [end EXCEPT !.bwTimer = TRUE])
      BY <3>1 DEF Receivers, SameBytes
    <3> QED BY <2>9, <3>2 DEF Closed
  <2>11. q \in G
    BY <1>3, <1>5, <2>10
  <2> QED BY <2>11 DEF q
<1>6. CASE ~Oversubscribed(r1)
  BY <1>2, <1>3, <1>6 DEF q
<1> QED BY <1>5, <1>6

-----------------------------------------------------------------------------
(* Sorted sequences.                                                        *)

\* R orders X strictly and totally.
StrictOrder(R, X) ==
  /\ \A x \in X : <<x, x>> \notin R
  /\ \A x, y, z \in X : <<x, y>> \in R /\ <<y, z>> \in R => <<x, z>> \in R
  /\ \A x, y \in X : x = y \/ <<x, y>> \in R \/ <<y, x>> \in R

InOrder(R, f) == \A i, j \in DOMAIN f : i < j => <<f[i], f[j]>> \in R
Elements(f) == {f[i] : i \in DOMAIN f}

\* A set of positions that holds all those before each of its own is an
\* initial segment.
LEMMA InitialSegment ==
  ASSUME NEW n \in Nat, NEW D \in SUBSET (1 .. n),
         \A i \in D : \A j \in 1 .. n : j < i => j \in D
  PROVE  D = 1 .. Cardinality(D) /\ Cardinality(D) \in 0 .. n
<1> DEFINE T == {k \in Nat : k > 0 /\ k \notin D}
<1>1. n + 1 \in T
  OBVIOUS
<1>2. PICK k \in T : \A j \in T : k <= j
  <2>1. T \in SUBSET Nat /\ T # {}
    BY <1>1
  <2> HIDE DEF T
  <2> QED BY <2>1, LeastElement
<1>3. k \in Nat /\ k > 0 /\ k \notin D /\ k <= n + 1
  BY <1>1, <1>2
<1>4. \A j \in Nat : j > 0 /\ j < k => j \in D
  BY <1>2
<1>5. \A i \in D : i < k
  BY <1>3
<1>6. D = 1 .. k - 1
  <2>1. \A i \in D : i \in 1 .. k - 1
    BY <1>3, <1>5
  <2>2. \A i \in 1 .. k - 1 : i \in D
    BY <1>3, <1>4
  <2> QED BY <2>1, <2>2
<1>7. Cardinality(1 .. k - 1) = k - 1
  <2> DEFINE e == k - 1
  <2>1. e \in Nat
    BY <1>3
  <2> HIDE DEF e
  <2>2. Cardinality(1 .. e) = IF 1 > e THEN 0 ELSE e - 1 + 1
    BY <2>1, FS_Interval
  <2>3. Cardinality(1 .. e) = e
    BY <2>1, <2>2
  <2> QED BY <2>3 DEF e
<1> QED BY <1>3, <1>6, <1>7

LEMMA RemoveAtElements ==
  ASSUME NEW X, NEW f \in Seq(X), NEW i \in DOMAIN f
  PROVE  /\ RemoveAt(f, i) \in Seq(X)
         /\ Len(RemoveAt(f, i)) = Len(f) - 1
         /\ Len(f) \in Nat /\ Len(f) > 0 /\ i \in 1 .. Len(f)
         /\ \A j \in 1 .. Len(f) - 1 :
              RemoveAt(f, i)[j] = IF j < i THEN f[j] ELSE f[j + 1]
<1> DEFINE n == Len(f)
           a == SubSeq(f, 1, i - 1)
           b == SubSeq(f, i + 1, n)
<1>1. n \in Nat /\ i \in 1 .. n
  OBVIOUS
<1>2. a \in Seq(X) /\ Len(a) = i - 1 /\ \A j \in 1 .. i - 1 : a[j] = f[j]
  BY <1>1
<1>3. b \in Seq(X) /\ Len(b) = n - i /\ \A j \in 1 .. n - i : b[j] = f[i + j]
  BY <1>1
<1>4. RemoveAt(f, i) = a \o b
  BY DEF RemoveAt
<1> HIDE DEF a, b
<1>5. /\ a \o b \in Seq(X) /\ Len(a \o b) = n - 1
      /\ \A j \in 1 .. n - 1 : (a \o b)[j] = IF j < i THEN a[j] ELSE b[j - (i - 1)]
  <2>0. a \in Seq(X) /\ b \in Seq(X)
    BY <1>2, <1>3
  <2>1. a \o b \in Seq(X) /\ Len(a \o b) = Len(a) + Len(b)
    BY <2>0
  <2>2. Len(a \o b) = n - 1
    BY <1>1, <1>2, <1>3, <2>1
  <2>3. \A j \in 1 .. Len(a) + Len(b) :
          (a \o b)[j] = IF j <= Len(a) THEN a[j] ELSE b[j - Len(a)]
    BY <2>0
  <2>4. \A j \in 1 .. n - 1 : j \in 1 .. Len(a) + Len(b) /\ (j <= Len(a) <=> j < i)
    BY <1>1, <1>2, <1>3
  <2> QED BY <1>2, <2>1, <2>2, <2>3, <2>4
<1>6. \A j \in 1 .. n - 1 : (a \o b)[j] = IF j < i THEN f[j] ELSE f[j + 1]
  BY <1>1, <1>2, <1>3, <1>5
<1> QED BY <1>1, <1>4, <1>5, <1>6

LEMMA InsertAtElements ==
  ASSUME NEW X, NEW f \in Seq(X), NEW i \in Nat, i >= 1, i <= Len(f) + 1, NEW x \in X
  PROVE  /\ InsertAt(f, i, x) \in Seq(X)
         /\ Len(InsertAt(f, i, x)) = Len(f) + 1
         /\ Len(f) \in Nat
         /\ \A j \in 1 .. Len(f) + 1 :
              InsertAt(f, i, x)[j] = IF j < i THEN f[j] ELSE IF j = i THEN x ELSE f[j - 1]
<1> DEFINE n == Len(f)
           a == SubSeq(f, 1, i - 1)
           b == SubSeq(f, i, n)
           c == <<x>> \o b
<1>1. n \in Nat /\ i \in 1 .. n + 1
  OBVIOUS
<1>2. a \in Seq(X) /\ Len(a) = i - 1 /\ \A j \in 1 .. i - 1 : a[j] = f[j]
  BY <1>1
<1>3. b \in Seq(X) /\ Len(b) = n - i + 1 /\ \A j \in 1 .. n - i + 1 : b[j] = f[i + j - 1]
  BY <1>1
<1>4. InsertAt(f, i, x) = (a \o <<x>>) \o b
  BY DEF InsertAt
<1> HIDE DEF a, b
<1> DEFINE d == a \o <<x>>
<1>5. /\ d \in Seq(X) /\ Len(d) = i
      /\ \A j \in 1 .. i : d[j] = IF j < i THEN a[j] ELSE x
  BY <1>1, <1>2
<1> HIDE DEF d
<1>6. /\ d \o b \in Seq(X) /\ Len(d \o b) = n + 1
      /\ \A j \in 1 .. n + 1 : (d \o b)[j] = IF j <= i THEN d[j] ELSE b[j - i]
  <2>1. d \o b \in Seq(X) /\ Len(d \o b) = Len(d) + Len(b)
    BY <1>3, <1>5
  <2>2. \A j \in 1 .. Len(d) + Len(b) :
          (d \o b)[j] = IF j <= Len(d) THEN d[j] ELSE b[j - Len(d)]
    BY <1>3, <1>5
  <2>3. Len(d) + Len(b) = n + 1 /\ Len(d) = i
    BY <1>1, <1>3, <1>5
  <2> QED BY <2>1, <2>2, <2>3
<1>7. \A j \in 1 .. n + 1 :
        (d \o b)[j] = IF j < i THEN f[j] ELSE IF j = i THEN x ELSE f[j - 1]
  <2> TAKE j \in 1 .. n + 1
  <2>1. CASE j <= i
    BY <1>1, <1>2, <1>5, <1>6, <2>1
  <2>2. CASE j > i
    <3>1. (d \o b)[j] = b[j - i] /\ j - i \in 1 .. n - i + 1
      BY <1>1, <1>6, <2>2
    <3>2. b[j - i] = f[i + (j - i) - 1] /\ i + (j - i) - 1 = j - 1
      BY <1>1, <1>3, <3>1
    <3> QED BY <1>1, <2>2, <3>1, <3>2
  <2>3. j <= i \/ j > i
    BY <1>1
  <2> QED BY <2>1, <2>2, <2>3
<1> QED BY <1>1, <1>4, <1>6, <1>7 DEF d

LEMMA SortedOnce ==
  ASSUME NEW X, NEW R, StrictOrder(R, X), NEW f \in Seq(X), InOrder(R, f)
  PROVE  \A i, j \in DOMAIN f : f[i] = f[j] => i = j
<1> SUFFICES ASSUME NEW i \in DOMAIN f, NEW j \in DOMAIN f, f[i] = f[j], i # j
             PROVE  FALSE
  OBVIOUS
<1>1. i \in Nat /\ j \in Nat /\ f[i] \in X
  OBVIOUS
<1>2. i < j \/ j < i
  BY <1>1
<1>3. <<f[i], f[i]>> \in R
  BY <1>2 DEF InOrder
<1> QED BY <1>1, <1>3 DEF StrictOrder

\* An element taken out of a sorted sequence
LEMMA SortedRemove ==
  ASSUME NEW X, NEW R, StrictOrder(R, X), NEW f \in Seq(X), InOrder(R, f), NEW i \in DOMAIN f
  PROVE  /\ RemoveAt(f, i) \in Seq(X)
         /\ InOrder(R, RemoveAt(f, i))
         /\ Elements(RemoveAt(f, i)) = Elements(f) \ {f[i]}
<1> DEFINE q == RemoveAt(f, i)
           n == Len(f)
<1>1. /\ q \in Seq(X) /\ Len(q) = n - 1 /\ n \in Nat /\ n > 0 /\ i \in 1 .. n
      /\ \A j \in 1 .. n - 1 : q[j] = IF j < i THEN f[j] ELSE f[j + 1]
  BY RemoveAtElements
<1>2. DOMAIN q = 1 .. n - 1 /\ DOMAIN f = 1 .. n
  BY <1>1
<1>3. \A j, k \in DOMAIN f : f[j] = f[k] => j = k
  BY SortedOnce
<1> HIDE DEF q, n
<1> DEFINE at(j) == IF j < i THEN j ELSE j + 1
<1>4. \A j \in 1 .. n - 1 : q[j] = f[at(j)] /\ at(j) \in 1 .. n /\ at(j) # i
  BY <1>1
<1>5. \A j, k \in 1 .. n - 1 : j < k => at(j) < at(k)
  BY <1>1
<1>6. \A k \in 1 .. n : k # i => \E j \in 1 .. n - 1 : at(j) = k
  <2> SUFFICES ASSUME NEW k \in 1 .. n, k # i
               PROVE  \E j \in 1 .. n - 1 : at(j) = k
    OBVIOUS
  <2>1. CASE k < i
    <3>1. k \in 1 .. n - 1 /\ at(k) = k
      BY <1>1, <2>1
    <3> QED BY <3>1
  <2>2. CASE k > i
    <3>1. k - 1 \in 1 .. n - 1 /\ at(k - 1) = k
      BY <1>1, <2>2
    <3> QED BY <3>1
  <2> QED BY <1>1, <2>1, <2>2
<1> HIDE DEF at
<1>7. InOrder(R, q)
  BY <1>2, <1>4, <1>5 DEF InOrder
<1>8. Elements(q) = Elements(f) \ {f[i]}
  <2>1. \A x \in Elements(q) : x \in Elements(f) \ {f[i]}
    BY <1>1, <1>2, <1>3, <1>4 DEF Elements
  <2>2. \A x \in Elements(f) \ {f[i]} : x \in Elements(q)
    <3> SUFFICES ASSUME NEW x \in Elements(f) \ {f[i]}
                 PROVE  x \in Elements(q)
      OBVIOUS
    <3>1. PICK k \in 1 .. n : x = f[k] /\ k # i
      BY <1>2 DEF Elements
    <3>2. PICK j \in 1 .. n - 1 : at(j) = k
      BY <1>6, <3>1
    <3> QED BY <1>2, <1>4, <3>1, <3>2 DEF Elements
  <2> QED BY <2>1, <2>2
<1> QED BY <1>1, <1>7, <1>8 DEF q

\* The positions of the elements that come before x
Prior(R, f, x) == {i \in DOMAIN f : <<f[i], x>> \in R}

\* An element filed behind those that come before it
LEMMA SortedInsert ==
  ASSUME NEW X, NEW R, StrictOrder(R, X), NEW f \in Seq(X), InOrder(R, f),
         NEW x \in X, x \notin Elements(f)
  PROVE  LET c == Cardinality(Prior(R, f, x))
         IN  /\ c \in 0 .. Len(f) /\ Len(f) \in Nat
             /\ InsertAt(f, c + 1, x) \in Seq(X)
             /\ InOrder(R, InsertAt(f, c + 1, x))
             /\ Elements(InsertAt(f, c + 1, x)) = Elements(f) \cup {x}
<1> DEFINE D == Prior(R, f, x)
           n == Len(f)
           c == Cardinality(D)
           i == c + 1
           q == InsertAt(f, i, x)
<1>1. n \in Nat /\ DOMAIN f = 1 .. n /\ \A j \in 1 .. n : f[j] \in X
  OBVIOUS
<1> HIDE DEF n
<1>2. D = 1 .. c /\ c \in 0 .. n
  <2>1. D \in SUBSET (1 .. n)
    BY <1>1 DEF Prior
  <2>2. ASSUME NEW k \in D, NEW j \in 1 .. n, j < k
        PROVE  j \in D
    <3>1. <<f[j], f[k]>> \in R /\ <<f[k], x>> \in R /\ f[k] \in X
      BY <1>1, <2>2 DEF InOrder, Prior
    <3> QED BY <1>1, <3>1 DEF StrictOrder, Prior
  <2> HIDE DEF D
  <2> QED BY <1>1, <2>1, <2>2, InitialSegment
<1> HIDE DEF c
<1>3. i \in Nat /\ i >= 1 /\ i <= n + 1
  BY <1>1, <1>2
<1>4. /\ q \in Seq(X) /\ Len(q) = n + 1
      /\ \A j \in 1 .. n + 1 : q[j] = IF j < i THEN f[j] ELSE IF j = i THEN x ELSE f[j - 1]
  <2> HIDE DEF i
  <2> QED BY <1>3, InsertAtElements DEF n
<1> HIDE DEF q
<1>5. DOMAIN q = 1 .. n + 1
  BY <1>1, <1>4
<1>6. \A j \in 1 .. n : j < i => <<f[j], x>> \in R
  <2> SUFFICES ASSUME NEW j \in 1 .. n, j < i
               PROVE  <<f[j], x>> \in R
    OBVIOUS
  <2>1. c \in Int /\ j \in Int /\ j >= 1 /\ j < c + 1
    BY <1>1, <1>2
  <2>2. j \in 1 .. c
    BY <2>1
  <2>3. j \in D
    BY <1>2, <2>2
  <2> QED BY <2>3 DEF Prior
<1>7. \A j \in 1 .. n : j >= i => <<x, f[j]>> \in R
  <2> SUFFICES ASSUME NEW j \in 1 .. n, j >= i
               PROVE  <<x, f[j]>> \in R
    OBVIOUS
  <2>1. j \notin D
    BY <1>2
  <2>2. <<f[j], x>> \notin R /\ f[j] \in X
    BY <1>1, <2>1 DEF Prior
  <2>3. f[j] # x
    BY <1>1 DEF Elements
  <2> QED BY <2>2, <2>3 DEF StrictOrder
<1> HIDE DEF i
<1>8. InOrder(R, q)
  <2> SUFFICES ASSUME NEW j \in 1 .. n + 1, NEW k \in 1 .. n + 1, j < k
               PROVE  <<q[j], q[k]>> \in R
    BY <1>5 DEF InOrder
  <2>1. CASE k < i
    <3>1. q[j] = f[j] /\ q[k] = f[k] /\ j \in 1 .. n /\ k \in 1 .. n
      BY <1>1, <1>3, <1>4, <2>1
    <3> QED BY <1>1, <3>1 DEF InOrder
  <2>2. CASE k = i
    <3>1. q[j] = f[j] /\ q[k] = x /\ j \in 1 .. n /\ j < i
      BY <1>1, <1>3, <1>4, <2>2
    <3> QED BY <1>6, <3>1
  <2>3. CASE k > i /\ j = i
    <3>1. q[j] = x /\ q[k] = f[k - 1] /\ k - 1 \in 1 .. n /\ k - 1 >= i
      BY <1>1, <1>3, <1>4, <2>3
    <3> QED BY <1>7, <3>1
  <2>4. CASE k > i /\ j < i
    <3>1. q[j] = f[j] /\ q[k] = f[k - 1] /\ k - 1 \in 1 .. n /\ j \in 1 .. n /\ j < k - 1
      BY <1>1, <1>3, <1>4, <2>4
    <3> QED BY <1>1, <3>1 DEF InOrder
  <2>5. CASE j > i
    <3>1. /\ q[j] = f[j - 1] /\ q[k] = f[k - 1] /\ k - 1 \in 1 .. n /\ j - 1 \in 1 .. n
          /\ j - 1 < k - 1
      BY <1>1, <1>3, <1>4, <2>5
    <3> QED BY <1>1, <3>1 DEF InOrder
  <2> QED BY <1>1, <1>3, <2>1, <2>2, <2>3, <2>4, <2>5
<1>9. Elements(q) = Elements(f) \cup {x}
  <2>1. \A y \in Elements(q) : y \in Elements(f) \cup {x}
    <3> SUFFICES ASSUME NEW j \in 1 .. n + 1
                 PROVE  q[j] \in Elements(f) \cup {x}
      BY <1>5 DEF Elements
    <3>1. CASE j < i
      <4>1. j \in 1 .. n /\ q[j] = f[j]
        BY <1>1, <1>3, <1>4, <3>1
      <4> QED BY <1>1, <4>1 DEF Elements
    <3>2. CASE j = i
      BY <1>3, <1>4, <3>2
    <3>3. CASE j > i
      <4>1. j - 1 \in 1 .. n /\ q[j] = f[j - 1]
        BY <1>1, <1>3, <1>4, <3>3
      <4> QED BY <1>1, <4>1 DEF Elements
    <3> QED BY <1>3, <3>1, <3>2, <3>3
  <2>2. \A y \in Elements(f) : y \in Elements(q)
    <3> SUFFICES ASSUME NEW j \in 1 .. n
                 PROVE  f[j] \in Elements(q)
      BY <1>1 DEF Elements
    <3>1. CASE j < i
      <4>1. j \in 1 .. n + 1 /\ q[j] = f[j]
        BY <1>1, <1>4, <3>1
      <4> QED BY <1>5, <4>1 DEF Elements
    <3>2. CASE j >= i
      <4>1. j + 1 \in 1 .. n + 1 /\ q[j + 1] = f[j]
        BY <1>1, <1>3, <1>4, <3>2
      <4> QED BY <1>5, <4>1 DEF Elements
    <3> QED BY <1>3, <3>1, <3>2
  <2>3. x \in Elements(q)
    <3>1. i \in 1 .. n + 1 /\ q[i] = x
      BY <1>1, <1>3, <1>4
    <3> QED BY <1>5, <3>1 DEF Elements
  <2> QED BY <2>1, <2>2, <2>3
<1> QED BY <1>1, <1>2, <1>4, <1>8, <1>9 DEF q, i, c, n, D

-----------------------------------------------------------------------------
(* mesgsToGrant: the messages of a sender that wait for grants, best first. *)

Order(r) == {x \in Msg \X Msg : Better(r, x[1], x[2])}
Waiting(r, s) == {m \in Msg : MsgSrc[m] = s /\ r.inbnd[m].bytesToGrant > 0}
FileExact(r, s) == InOrder(Order(r), r.toGrant[s]) /\ Elements(r.toGrant[s]) = Waiting(r, s)
Filing(r) == \A s \in Host : FileExact(r, s)

LEMMA BetterSame ==
  ASSUME NEW r, NEW q, NEW m \in Msg, NEW k \in Msg,
         q.inbnd[m].bytesToGrant = r.inbnd[m].bytesToGrant,
         q.inbnd[k].bytesToGrant = r.inbnd[k].bytesToGrant
  PROVE  Better(q, m, k) <=> Better(r, m, k)
BY DEF Better

\* CompareBytesToGrant is a strict total order of the messages.
LEMMA OrderStrict ==
  ASSUME NEW r \in Receivers
  PROVE  StrictOrder(Order(r), Msg)
<1>1. \A m \in Msg : r.inbnd[m].bytesToGrant \in Nat /\ MsgSize[m] \in Nat /\ m \in Nat
  BY MsgAssumption DEF Receivers, Inbounds, Inbound
<1>2. \A m, k \in Msg : <<m, k>> \in Order(r) <=> Better(r, m, k)
  BY DEF Order
<1>3. \A m \in Msg : ~Better(r, m, m)
  BY <1>1 DEF Better
<1>4. \A m, k, n \in Msg : Better(r, m, k) /\ Better(r, k, n) => Better(r, m, n)
  BY <1>1 DEF Better
<1>5. \A m, k \in Msg : m = k \/ Better(r, m, k) \/ Better(r, k, m)
  BY <1>1 DEF Better
<1> QED BY <1>2, <1>3, <1>4, <1>5 DEF StrictOrder

LEMMA OrderSame ==
  ASSUME NEW r, NEW q, NEW f \in Seq(Msg), InOrder(Order(r), f),
         \A m \in Elements(f) : q.inbnd[m].bytesToGrant = r.inbnd[m].bytesToGrant
  PROVE  InOrder(Order(q), f)
<1> SUFFICES ASSUME NEW i \in DOMAIN f, NEW j \in DOMAIN f, i < j
             PROVE  <<f[i], f[j]>> \in Order(q)
  BY DEF InOrder
<1>1. f[i] \in Msg /\ f[j] \in Msg /\ f[i] \in Elements(f) /\ f[j] \in Elements(f)
  BY DEF Elements
<1>2. <<f[i], f[j]>> \in Order(r)
  BY DEF InOrder
<1>3. Better(r, f[i], f[j])
  BY <1>2 DEF Order
<1>4. Better(q, f[i], f[j])
  BY <1>1, <1>3, BetterSame
<1> QED BY <1>1, <1>4 DEF Order

\* The first of a sorted sequence is still the first when it gets better.
LEMMA OrderHead ==
  ASSUME NEW r \in Receivers, NEW q \in Receivers, NEW f \in Seq(Msg), f # <<>>,
         InOrder(Order(r), f),
         q.inbnd[Head(f)].bytesToGrant <= r.inbnd[Head(f)].bytesToGrant,
         \A m \in Elements(f) : m # Head(f) =>
           q.inbnd[m].bytesToGrant = r.inbnd[m].bytesToGrant
  PROVE  InOrder(Order(q), f)
<1> SUFFICES ASSUME NEW i \in DOMAIN f, NEW j \in DOMAIN f, i < j
             PROVE  <<f[i], f[j]>> \in Order(q)
  BY DEF InOrder
<1>1. f[i] \in Msg /\ f[j] \in Msg /\ f[i] \in Elements(f) /\ f[j] \in Elements(f)
  BY DEF Elements
<1>2. <<f[i], f[j]>> \in Order(r)
  BY DEF InOrder
<1>3. Better(r, f[i], f[j])
  BY <1>2 DEF Order
<1>4. f[j] # Head(f)
  <2>1. StrictOrder(Order(r), Msg)
    BY OrderStrict
  <2>2. 1 \in DOMAIN f /\ Head(f) = f[1]
    OBVIOUS
  <2>3. i \in Int /\ j \in Int /\ 1 <= i
    OBVIOUS
  <2>4. j # 1
    BY <2>3
  <2> QED BY <2>1, <2>2, <2>4, SortedOnce
<1>5. q.inbnd[f[j]].bytesToGrant = r.inbnd[f[j]].bytesToGrant
  BY <1>1, <1>4
<1>6. q.inbnd[f[i]].bytesToGrant <= r.inbnd[f[i]].bytesToGrant
  <2>1. q.inbnd[f[i]].bytesToGrant \in Nat
    BY <1>1 DEF Receivers, Inbounds, Inbound
  <2>2. CASE f[i] = Head(f)
    BY <2>2
  <2>3. CASE f[i] # Head(f)
    BY <1>1, <2>1, <2>3
  <2> QED BY <2>2, <2>3
<1>7. \A m \in {f[i], f[j]} : /\ q.inbnd[m].bytesToGrant \in Nat
                              /\ r.inbnd[m].bytesToGrant \in Nat
                              /\ MsgSize[m] \in Nat /\ m \in Nat
  BY <1>1, MsgAssumption DEF Receivers, Inbounds, Inbound
<1>8. Better(q, f[i], f[j])
  BY <1>3, <1>5, <1>6, <1>7 DEF Better
<1> QED BY <1>1, <1>8 DEF Order

\* What is filed for another sender does not change with the messages of this one.
LEMMA FileSame ==
  ASSUME NEW r \in Receivers, NEW q \in Receivers, NEW t \in Host, FileExact(r, t),
         q.toGrant[t] = r.toGrant[t],
         \A m \in Msg : MsgSrc[m] = t =>
           q.inbnd[m].bytesToGrant = r.inbnd[m].bytesToGrant
  PROVE  FileExact(q, t)
<1> DEFINE f == r.toGrant[t]
<1>1. f \in Seq(Msg) /\ InOrder(Order(r), f) /\ Elements(f) = Waiting(r, t)
  BY DEF Receivers, Files, FileExact
<1>2. Waiting(q, t) = Waiting(r, t)
  BY DEF Waiting
<1>3. \A m \in Elements(f) : q.inbnd[m].bytesToGrant = r.inbnd[m].bytesToGrant
  BY <1>1 DEF Waiting
<1> HIDE DEF f
<1>4. InOrder(Order(q), f)
  BY <1>1, <1>3, OrderSame
<1> QED BY <1>1, <1>2, <1>4 DEF FileExact, f

LEMMA TailRemove ==
  ASSUME NEW f \in Seq(Msg), f # <<>>
  PROVE  /\ Tail(f) = RemoveAt(f, 1) /\ 1 \in DOMAIN f /\ f[1] = Head(f)
<1> DEFINE n == Len(f)
           q == RemoveAt(f, 1)
<1>1. 1 \in DOMAIN f /\ f[1] = Head(f) /\ n \in Nat /\ n > 0
  OBVIOUS
<1>2. q \in Seq(Msg) /\ Len(q) = n - 1 /\ \A j \in 1 .. n - 1 : q[j] = f[j + 1]
  BY <1>1, RemoveAtElements
<1>3. Tail(f) \in Seq(Msg) /\ Len(Tail(f)) = n - 1
      /\ \A j \in 1 .. n - 1 : Tail(f)[j] = f[j + 1]
  OBVIOUS
<1> DEFINE t == Tail(f)
<1> HIDE DEF q, t
<1>4. t = q
  <2>1. t \in Seq(Msg) /\ q \in Seq(Msg) /\ Len(t) = Len(q)
        /\ \A j \in 1 .. Len(t) : t[j] = q[j]
    BY <1>2, <1>3 DEF t
  <2>2. t = [j \in 1 .. Len(t) |-> t[j]] /\ q = [j \in 1 .. Len(q) |-> q[j]]
    BY <2>1
  <2> QED BY <2>1, <2>2
<1> QED BY <1>1, <1>4 DEF t, q

\* A grant takes bytes off the message that is filed first, and the message
\* out of the file with its last bytes.
LEMMA GrantedFiling ==
  ASSUME NEW r \in Receivers, NEW q \in Receivers, Filing(r), Bounds(r.inbnd),
         NEW s \in Host, r.toGrant[s] # <<>>,
         q.inbnd = InbndGranted(r, s), q.toGrant = FilesGranted(r, s)
  PROVE  Filing(q)
<1> DEFINE m == Top(r, s)
           f == r.toGrant[s]
           in == r.inbnd[m]
           n == GrantSize(r, s)
           new == Granted(r, s)
<1>1. /\ f \in Seq(Msg) /\ f # <<>> /\ m = Head(f)
      /\ InOrder(Order(r), f) /\ Elements(f) = Waiting(r, s)
  BY DEF Receivers, Files, Filing, FileExact, Top
<1>2. m \in Msg /\ MsgSrc[m] = s /\ in.bytesToGrant > 0 /\ m \in Elements(f)
  <2>1. m \in Elements(f)
    BY <1>1 DEF Elements
  <2> QED BY <1>1, <2>1 DEF Waiting
<1>3. /\ n \in Nat /\ n <= in.bytesToGrant /\ n > 0
      /\ in.bytesToGrant \in Nat /\ new.bytesToGrant = in.bytesToGrant - n
  <2>1. n \in Nat /\ n <= in.bytesToGrant /\ in \in Inbound
    BY GrantType
  <2>2. n > 0
    BY <1>2, SizeAssumption DEF GrantSize, Lesser
  <2> QED BY <2>1, <2>2 DEF Granted, Inbound
<1>4. \A k \in Msg : q.inbnd[k] = IF k = m THEN new ELSE r.inbnd[k]
  BY <1>2 DEF InbndGranted, Receivers, Inbounds
<1>5. \A t \in Host : q.toGrant[t] = IF t = s THEN Rest(r, s) ELSE r.toGrant[t]
  BY DEF FilesGranted, Receivers, Files
<1>6. Rest(r, s) = IF new.bytesToGrant > 0 THEN f ELSE Tail(f)
  BY DEF Rest
<1>7. \A t \in Host : t # s => FileExact(q, t)
  <2> SUFFICES ASSUME NEW t \in Host, t # s
               PROVE  FileExact(q, t)
    OBVIOUS
  <2>1. \A k \in Msg : MsgSrc[k] = t =>
           q.inbnd[k].bytesToGrant = r.inbnd[k].bytesToGrant
    BY <1>2, <1>4
  <2>2. FileExact(r, t) /\ q.toGrant[t] = r.toGrant[t]
    BY <1>5 DEF Filing
  <2> QED BY <2>1, <2>2, FileSame
<1> HIDE DEF m, f, in, n, new
<1>8. \A k \in Elements(f) : k # m => q.inbnd[k].bytesToGrant = r.inbnd[k].bytesToGrant
  BY <1>1, <1>4 DEF Waiting
<1>9. q.inbnd[m].bytesToGrant = in.bytesToGrant - n /\ r.inbnd[m] = in
  BY <1>2, <1>3, <1>4 DEF in
<1>10. CASE new.bytesToGrant > 0
  <2>1. Waiting(q, s) = Waiting(r, s)
    <3>1. \A k \in Msg : q.inbnd[k].bytesToGrant > 0 <=> r.inbnd[k].bytesToGrant > 0
      BY <1>2, <1>3, <1>4, <1>9, <1>10
    <3> QED BY <3>1 DEF Waiting
  <2>2. q.inbnd[m].bytesToGrant <= r.inbnd[m].bytesToGrant
    BY <1>3, <1>9
  <2>3. InOrder(Order(q), f)
    BY <1>1, <1>8, <2>2, OrderHead
  <2>4. q.toGrant[s] = f
    BY <1>5, <1>6, <1>10
  <2>5. FileExact(q, s)
    BY <1>1, <2>1, <2>3, <2>4 DEF FileExact
  <2> QED BY <1>7, <2>5 DEF Filing
<1>11. CASE ~(new.bytesToGrant > 0)
  <2> DEFINE g == RemoveAt(f, 1)
  <2>1. q.toGrant[s] = g /\ 1 \in DOMAIN f /\ f[1] = m
    BY <1>1, <1>5, <1>6, <1>11, TailRemove
  <2>2. StrictOrder(Order(r), Msg)
    BY OrderStrict
  <2>3. g \in Seq(Msg) /\ InOrder(Order(r), g) /\ Elements(g) = Elements(f) \ {m}
    BY <1>1, <2>1, <2>2, SortedRemove
  <2> HIDE DEF g
  <2>4. InOrder(Order(q), g)
    BY <1>8, <2>3, OrderSame
  <2>5. Waiting(q, s) = Waiting(r, s) \ {m}
    <3>1. ~(q.inbnd[m].bytesToGrant > 0)
      BY <1>2, <1>4, <1>11
    <3>2. \A k \in Msg : k # m => q.inbnd[k] = r.inbnd[k]
      BY <1>4
    <3> QED BY <3>1, <3>2 DEF Waiting
  <2>6. FileExact(q, s)
    BY <1>1, <2>1, <2>3, <2>4, <2>5 DEF FileExact
  <2> QED BY <1>7, <2>6 DEF Filing
<1> QED BY <1>10, <1>11

\* What sendAndScheduleGrant makes of the messages: nothing or one grant more
GrantStep(r, s, q) ==
  \/ SameBytes(r, q)
  \/ /\ r.toGrant[s] # <<>>
     /\ ~WindowFull(r.inbnd[Top(r, s)])
     /\ q.inbnd = InbndGranted(r, s) /\ q.toGrant = FilesGranted(r, s)
     /\ q.delivered = r.delivered /\ q.grants = r.grants \cup {GrantOf(r, s)}
     /\ q.inflightUnsched = r.inflightUnsched
     /\ q.inflightSched = r.inflightSched + OnWire(GrantSize(r, s), SchedHdr)

LEMMA SendStep ==
  ASSUME NEW r \in Receivers, Bounds(r.inbnd), NEW s \in Host, NEW prio \in 0 .. AllPrio
  PROVE  GrantStep(r, s, SendAndScheduleGrant(r, s, prio))
<1> DEFINE q == SendAndScheduleGrant(r, s, prio)
<1>1. SendOutcome(r, s, prio, q)
  BY SendCases
<1>2. SameLists(r, q)
  BY SendType
<1> HIDE DEF q
<1>3. CASE Required(r, q)
  BY <1>3, RequireStep DEF Relisted, SameMesgs, SameBytes, GrantStep, q
<1>4. CASE q = Regrant(r, r.inbnd, r.toGrant, [r.timer EXCEPT ![s] = FALSE], r.lastPrio,
                       r.inflightSched, r.grants)
  <2> DEFINE timer == [r.timer EXCEPT ![s] = FALSE]
  <2> HIDE DEF timer
  <2>1. SameBytes(r, q)
    BY <1>4 DEF Regrant, Receivers, SameBytes, timer
  <2> QED BY <2>1 DEF GrantStep, q
<1>5. CASE /\ r.toGrant[s] # <<>>
           /\ ~WindowFull(r.inbnd[Top(r, s)])
           /\ q = Regrant(r, InbndGranted(r, s), FilesGranted(r, s),
                    [r.timer EXCEPT ![s] = GrantsAgain(InbndGranted(r, s), Rest(r, s))],
                    [r.lastPrio EXCEPT ![s] = GrantPrio(r, s, prio)],
                    r.inflightSched + OnWire(GrantSize(r, s), SchedHdr),
                    r.grants \cup {GrantOf(r, s)})
  <2> DEFINE timer == [r.timer EXCEPT ![s] = GrantsAgain(InbndGranted(r, s), Rest(r, s))]
             prios == [r.lastPrio EXCEPT ![s] = GrantPrio(r, s, prio)]
             inbnd == InbndGranted(r, s)
             files == FilesGranted(r, s)
             sched == r.inflightSched + OnWire(GrantSize(r, s), SchedHdr)
             grants == r.grants \cup {GrantOf(r, s)}
  <2> HIDE DEF timer, prios, inbnd, files, sched, grants
  <2>1. q = Regrant(r, inbnd, files, timer, prios, sched, grants)
    BY <1>5 DEF timer, prios, inbnd, files, sched, grants
  <2>2. /\ q.inbnd = inbnd /\ q.toGrant = files /\ q.inflightSched = sched
        /\ q.grants = grants /\ q.delivered = r.delivered
        /\ q.inflightUnsched = r.inflightUnsched
    BY <2>1 DEF Regrant, Receivers
  <2> QED BY <1>5, <2>2 DEF GrantStep, q, inbnd, files, sched, grants
<1> QED BY <1>1, <1>3, <1>4, <1>5 DEF SendOutcome

\* The receivers whose files are exact
Filers == {r \in Receivers : Bounds(r.inbnd) /\ Filing(r)}

LEMMA FilingSame ==
  ASSUME NEW r \in Receivers, NEW q \in Receivers, Filing(r),
         q.inbnd = r.inbnd, q.toGrant = r.toGrant
  PROVE  Filing(q)
BY FileSame DEF Filing

LEMMA FilersClosed == Closed(Filers)
<1>1. ASSUME NEW r \in Filers, NEW q \in Receivers, SameBytes(r, q)
      PROVE  q \in Filers
  <2>1. /\ r \in Receivers /\ Filing(r) /\ Bounds(r.inbnd)
        /\ q.inbnd = r.inbnd /\ q.toGrant = r.toGrant
    BY <1>1 DEF Filers, SameBytes
  <2>2. Filing(q)
    BY <2>1, FilingSame
  <2> QED BY <2>1, <2>2 DEF Filers
<1>2. ASSUME NEW r \in Filers, NEW s \in Host, NEW prio \in 0 .. AllPrio
      PROVE  SendAndScheduleGrant(r, s, prio) \in Filers
  <2> DEFINE q == SendAndScheduleGrant(r, s, prio)
  <2>1. r \in Receivers /\ Filing(r) /\ Bounds(r.inbnd)
    BY DEF Filers
  <2>2. q \in Receivers /\ Bounds(q.inbnd)
    BY <2>1, SendType
  <2>3. GrantStep(r, s, q)
    BY <2>1, SendStep
  <2> HIDE DEF q
  <2>4. Filing(q)
    <3>1. CASE SameBytes(r, q)
      BY <2>1, <2>2, <3>1, FilingSame DEF SameBytes
    <3>2. CASE ~SameBytes(r, q)
      <4>1. /\ r.toGrant[s] # <<>>
            /\ q.inbnd = InbndGranted(r, s) /\ q.toGrant = FilesGranted(r, s)
        BY <2>3, <3>2 DEF GrantStep
      <4> QED BY <2>1, <2>2, <4>1, GrantedFiling
    <3> QED BY <3>1, <3>2
  <2>5. q \in Filers
    BY <2>2, <2>4 DEF Filers
  <2> QED BY <2>5 DEF q
<1>3. \A r \in Filers : r \in Receivers /\ Bounds(r.inbnd)
  BY DEF Filers
<1> QED BY <1>1, <1>2, <1>3 DEF Closed

-----------------------------------------------------------------------------
(* handleInboundPkt.                                                        *)

\* r with other messages
Rebyte(r, inbnd, files, unsched, sched, delivered) ==
  [r EXCEPT !.inbnd = inbnd, !.toGrant = files, !.inflightUnsched = unsched,
            !.inflightSched = sched, !.delivered = delivered]

\* What the arrival of a packet leaves alone
SameQueues(r, q) ==
  /\ q.timer = r.timer /\ q.lastPrio = r.lastPrio /\ q.lastIdx = r.lastIdx
  /\ q.senders = r.senders /\ q.headIdx = r.headIdx /\ q.numToGrant = r.numToGrant
  /\ q.oversub = r.oversub /\ q.bwTimer = r.bwTimer /\ q.grants = r.grants

HasBytes(q, inbnd, files, unsched, sched, delivered) ==
  /\ q.inbnd = inbnd /\ q.toGrant = files /\ q.delivered = delivered
  /\ q.inflightUnsched = unsched /\ q.inflightSched = sched

LEMMA RebyteStep ==
  ASSUME NEW r \in Receivers, NEW inbnd \in Inbounds, NEW files \in Files,
         NEW unsched \in Int, NEW sched \in Int, NEW delivered \in Deliveries,
         NEW o, o = Rebyte(r, inbnd, files, unsched, sched, delivered),
         NEW q, Required(o, q)
  PROVE  /\ q \in Receivers /\ SameQueues(r, q)
         /\ HasBytes(q, inbnd, files, unsched, sched, delivered)
<1>1. /\ o \in Receivers /\ SameQueues(r, o)
      /\ HasBytes(o, inbnd, files, unsched, sched, delivered)
  BY DEF Receivers, SameQueues, HasBytes, Rebyte
<1> HIDE DEF Required
<1>2. Relisted(o, q) /\ HasList(q, o.senders, o.headIdx, o.lastIdx)
  BY <1>1, RequireStep
<1> QED BY <1>1, <1>2 DEF Relisted, SameMesgs, HasList, SameQueues, HasBytes

LEMMA OpenedType ==
  ASSUME NEW m \in Msg
  PROVE  /\ Opened(m) \in Inbound
         /\ Opened(m).bytesToGrant <= MsgSize[m] /\ Opened(m).open
         /\ MsgSize[m] \in Nat /\ TotalUnsched(m) \in Nat
<1> DEFINE wire == OnWire(TotalUnsched(m), UnschedHdr)
           w == wire % Word
           a == MsgSize[m] - TotalUnsched(m)
<1>1. TotalUnsched(m) \in Nat /\ TotalUnsched(m) <= MsgSize[m] /\ MsgSize[m] \in Nat
  BY UnschedBounds, MsgAssumption
<1>2. wire \in Nat
  BY <1>1, OnWireType
<1> HIDE DEF wire
<1>3. w \in 0 .. Word - 1
  BY <1>2, WireAssumption
<1>4. a \in Nat /\ a <= MsgSize[m]
  BY <1>1
<1>5. Opened(m) = [open |-> TRUE, bytesToGrant |-> a, bytesToReceive |-> MsgSize[m],
                   totalBytesInFlight |-> w, inflightGrants |-> {<<0, TotalUnsched(m)>>}]
  BY DEF Opened, wire
<1> HIDE DEF w, a
<1> QED BY <1>1, <1>3, <1>4, <1>5 DEF Inbound

LEMMA FilledType ==
  ASSUME NEW in \in Inbound, NEW p \in Pkt
  PROVE  /\ Filled(in, p) \in Inbound
         /\ Filled(in, p).bytesToGrant = in.bytesToGrant
         /\ Filled(in, p).open = in.open
         /\ PktOnWire(p) \in Nat
         /\ p.msg \in Msg /\ p.first \in Nat /\ p.len \in Nat
<1> DEFINE a == (in.bytesToReceive - p.len) % Word
           b == (in.totalBytesInFlight - PktOnWire(p)) % Word
           c == (in.inflightGrants \ Answered(in, p)) \cup Unanswered(in, p)
<1>1. p.msg \in Msg /\ p.first \in Nat /\ p.len \in Nat
  BY DEF Pkt
<1>2. PktOnWire(p) \in Nat
  <2>1. PktHdr(p.type) \in {UnschedHdr, SchedHdr}
    BY DEF PktHdr
  <2> QED BY <1>1, <2>1, OnWireType DEF PktOnWire
<1>3. /\ in.bytesToReceive \in Nat /\ in.totalBytesInFlight \in Nat
      /\ in.inflightGrants \in SUBSET (Nat \X Nat)
  BY WireAssumption DEF Inbound
<1>4. a \in Nat
  BY <1>1, <1>3, WireAssumption
<1>5. b \in 0 .. Word - 1
  BY <1>2, <1>3, WireAssumption
<1>6. c \in SUBSET (Nat \X Nat)
  <2>1. Unanswered(in, p) \in SUBSET (Nat \X Nat)
    <3>1. CASE p.type = "SCHED_DATA"
      BY <3>1 DEF Unanswered
    <3>2. CASE p.type # "SCHED_DATA"
      <4>1. \A g \in Answered(in, p) : g[2] \in Nat
        BY <1>3, <3>2 DEF Answered
      <4>2. \A g \in Answered(in, p) : g[2] > p.len => g[2] - p.len \in Nat
        BY <1>1, <4>1
      <4> QED BY <3>2, <4>2 DEF Unanswered
    <3> QED BY <3>1, <3>2
  <2> QED BY <1>3, <2>1
<1>7. Filled(in, p) = [in EXCEPT !.bytesToReceive = a, !.totalBytesInFlight = b,
                                 !.inflightGrants = c]
  BY DEF Filled
<1> HIDE DEF a, b, c
<1> QED BY <1>1, <1>2, <1>4, <1>5, <1>6, <1>7 DEF Inbound

LEMMA RequireIs ==
  ASSUME NEW r, NEW cond, NEW label \in Labels
  PROVE  Required(r, Require(r, cond, label))
BY DEF Require, Required, Failing

\* The InboundMessage that accounts for packet p, before and after, and the
\* files without its message
Previous(r, p) == IF r.inbnd[p.msg].open THEN r.inbnd[p.msg] ELSE Opened(p.msg)
Following(r, p) == Filled(Previous(r, p), p)
Taken(r, s, m) ==
  IF Filed(r, s, m) = {} THEN r.toGrant
  ELSE [r.toGrant EXCEPT ![s] = RemoveAt(@, CHOOSE i \in Filed(r, s, m) : TRUE)]

\* inflightUnschedBytes and inflightSchedBytes after p
UnschedAfter(r, p) ==
  IF r.inbnd[p.msg].open
    THEN IF p.type = "SCHED_DATA" THEN r.inflightUnsched ELSE r.inflightUnsched - PktOnWire(p)
    ELSE IF TotalUnsched(p.msg) - p.len > 0
      THEN r.inflightUnsched + OnWire(TotalUnsched(p.msg) - p.len, UnschedHdr)
      ELSE r.inflightUnsched
SchedAfter(r, p) ==
  IF r.inbnd[p.msg].open /\ p.type = "SCHED_DATA" THEN r.inflightSched - PktOnWire(p)
                                                  ELSE r.inflightSched

LEMMA TakenType ==
  ASSUME NEW r \in Receivers, NEW s \in Host, NEW m \in Msg
  PROVE  Taken(r, s, m) \in Files
<1> DEFINE i == CHOOSE i \in Filed(r, s, m) : TRUE
           f == r.toGrant[s]
           g == RemoveAt(f, i)
           S == Seq(Msg)
<1>1. f \in S /\ r.toGrant \in [Host -> S]
  BY DEF Receivers, Files
<1>2. CASE Filed(r, s, m) # {}
  <2>1. i \in DOMAIN f
    BY <1>2 DEF Filed
  <2>2. Taken(r, s, m) = [r.toGrant EXCEPT ![s] = g]
    BY <1>2 DEF Taken
  <2> HIDE DEF i
  <2>3. g \in S
    BY <1>1, <2>1, RemoveAtElements
  <2> HIDE DEF g, S
  <2>4. Taken(r, s, m) \in [Host -> S]
    BY <1>1, <2>2, <2>3
  <2> QED BY <2>4 DEF S, Files
<1>3. CASE Filed(r, s, m) = {}
  BY <1>1, <1>3 DEF Taken, Files
<1> QED BY <1>2, <1>3

LEMMA UnfileStep ==
  ASSUME NEW r \in Receivers, NEW s \in Host, NEW m \in Msg
  PROVE  /\ UnfileMesg(r, s, m) \in Receivers /\ SameQueues(r, UnfileMesg(r, s, m))
         /\ HasBytes(UnfileMesg(r, s, m), r.inbnd, Taken(r, s, m), r.inflightUnsched,
                     r.inflightSched, r.delivered)
<1> DEFINE q == UnfileMesg(r, s, m)
           inbnd == r.inbnd
           files == Taken(r, s, m)
           unsched == r.inflightUnsched
           sched == r.inflightSched
           delivered == r.delivered
           o == Rebyte(r, inbnd, files, unsched, sched, delivered)
<1>1. /\ inbnd \in Inbounds /\ files \in Files /\ unsched \in Int /\ sched \in Int
      /\ delivered \in Deliveries
  BY TakenType DEF Receivers
<1>2. Required(o, q)
  <2>1. CASE Filed(r, s, m) = {}
    <3> DEFINE none == r.inbnd[m].bytesToGrant = 0
    <3>1. o = r
      BY <2>1 DEF Rebyte, Receivers, Taken
    <3>2. q = Require(r, none, "mesgsToGrant: nothing erased")
      BY <2>1 DEF UnfileMesg
    <3> HIDE DEF none, q, o
    <3> QED BY <3>1, <3>2, RequireIs DEF Labels
  <2>2. CASE Filed(r, s, m) # {}
    <3>1. q = [r EXCEPT !.toGrant[s] = RemoveAt(@, CHOOSE i \in Filed(r, s, m) : TRUE)]
      BY <2>2 DEF UnfileMesg
    <3>2. q = o
      BY <2>2, <3>1 DEF Rebyte, Receivers, Taken
    <3> QED BY <3>2 DEF Required
  <2> QED BY <2>1, <2>2
<1> HIDE DEF q, inbnd, files, unsched, sched, delivered, o
<1>3. /\ q \in Receivers /\ SameQueues(r, q)
      /\ HasBytes(q, inbnd, files, unsched, sched, delivered)
  <2>1. o = Rebyte(r, inbnd, files, unsched, sched, delivered)
    BY DEF o
  <2> QED BY <1>1, <1>2, <2>1, RebyteStep
<1> QED BY <1>3 DEF q, inbnd, files, unsched, sched, delivered

\* A packet of a message that is known
LEMMA KnownStep ==
  ASSUME NEW r \in Receivers, NEW p \in Pkt, NEW s \in Host, r.inbnd[p.msg].open,
         NEW q, q = UnfileMesg(PendingBytesArrived(r, p), s, p.msg)
  PROVE  /\ q \in Receivers /\ SameQueues(r, q)
         /\ HasBytes(q, r.inbnd, Taken(r, s, p.msg), UnschedAfter(r, p), SchedAfter(r, p),
                     r.delivered)
<1> DEFINE o == PendingBytesArrived(r, p)
           unsched == UnschedAfter(r, p)
           sched == SchedAfter(r, p)
<1>1. PktOnWire(p) \in Int /\ p.msg \in Msg
  <2>1. NoMessage \in Inbound
    BY WireAssumption DEF NoMessage, Inbound
  <2> QED BY <2>1, FilledType
<1>2. unsched \in Int /\ sched \in Int
  BY <1>1 DEF UnschedAfter, SchedAfter, Receivers
<1>3. o = [r EXCEPT !.inflightUnsched = unsched, !.inflightSched = sched]
  BY DEF PendingBytesArrived, UnschedAfter, SchedAfter, Receivers
<1> HIDE DEF o, unsched, sched
<1>4. /\ o \in Receivers /\ SameQueues(r, o)
      /\ HasBytes(o, r.inbnd, r.toGrant, unsched, sched, r.delivered)
  BY <1>2, <1>3 DEF Receivers, SameQueues, HasBytes
<1>5. q = UnfileMesg(o, s, p.msg)
  BY DEF o
<1>6. /\ q \in Receivers /\ SameQueues(o, q)
      /\ HasBytes(q, o.inbnd, Taken(o, s, p.msg), o.inflightUnsched, o.inflightSched,
                  o.delivered)
  BY <1>1, <1>4, <1>5, UnfileStep
<1>7. Taken(o, s, p.msg) = Taken(r, s, p.msg)
  BY <1>4 DEF HasBytes, Taken, Filed
<1>8. SameQueues(r, q)
  BY <1>4, <1>6 DEF SameQueues
<1> QED BY <1>4, <1>6, <1>7, <1>8 DEF HasBytes, unsched, sched

\* The first packet of a message
LEMMA OpenStep ==
  ASSUME NEW r \in Receivers, NEW p \in Pkt, ~r.inbnd[p.msg].open,
         NEW q, q = OpenMessage(r, p)
  PROVE  /\ q \in Receivers /\ SameQueues(r, q)
         /\ HasBytes(q, [r.inbnd EXCEPT ![p.msg] = Opened(p.msg)], r.toGrant,
                     UnschedAfter(r, p), SchedAfter(r, p), r.delivered)
<1> DEFINE m == p.msg
           inbnd == [r.inbnd EXCEPT ![m] = Opened(m)]
           files == r.toGrant
           unsched == UnschedAfter(r, p)
           sched == r.inflightSched
           delivered == r.delivered
           o == Rebyte(r, inbnd, files, unsched, sched, delivered)
           others == TotalUnsched(m) - p.len
           first == [r EXCEPT !.inbnd[m] = Opened(m),
                       !.inflightUnsched =
                          IF others > 0 THEN @ + OnWire(others, UnschedHdr) ELSE @]
<1>1. m \in Msg /\ p.len \in Nat
  BY DEF Pkt
<1>2. TotalUnsched(m) \in Nat /\ Opened(m) \in Inbound
  BY <1>1, OpenedType
<1>3. others > 0 => OnWire(others, UnschedHdr) \in Nat
  <2>1. others > 0 => others \in Nat
    BY <1>1, <1>2
  <2> HIDE DEF others
  <2> QED BY <2>1, OnWireType
<1>4. unsched = IF others > 0 THEN r.inflightUnsched + OnWire(others, UnschedHdr)
                             ELSE r.inflightUnsched
  BY DEF UnschedAfter
<1>5. unsched \in Int
  <2> HIDE DEF others
  <2> QED BY <1>3, <1>4 DEF Receivers
<1>6. inbnd \in Inbounds
  BY <1>1, <1>2 DEF Receivers, Inbounds
<1>7. files \in Files /\ sched \in Int /\ delivered \in Deliveries /\ SchedAfter(r, p) = sched
  BY DEF Receivers, SchedAfter
<1>8. Required(o, q)
  <2>1. q = Require(first, p.type # "SCHED_DATA", "handleInboundPkt: unknown message")
    BY DEF OpenMessage
  <2>2. first = o
    <3> HIDE DEF others
    <3> QED BY <1>4 DEF Rebyte, Receivers
  <2> HIDE DEF first, o
  <2> QED BY <2>1, <2>2, RequireIs DEF Labels
<1>9. o = Rebyte(r, inbnd, files, unsched, sched, delivered)
  OBVIOUS
<1> HIDE DEF inbnd, files, unsched, sched, delivered, o
<1>10. /\ q \in Receivers /\ SameQueues(r, q)
       /\ HasBytes(q, inbnd, files, unsched, sched, delivered)
  BY <1>5, <1>6, <1>7, <1>8, <1>9, RebyteStep
<1> QED BY <1>7, <1>10 DEF inbnd, files, unsched, delivered

LEMMA FillinStep ==
  ASSUME NEW r \in Receivers, NEW p \in Pkt, NEW q, q = FillinRxBytes(r, p)
  PROVE  /\ q \in Receivers /\ SameQueues(r, q)
         /\ HasBytes(q, [r.inbnd EXCEPT ![p.msg] = Filled(r.inbnd[p.msg], p)], r.toGrant,
                     r.inflightUnsched, r.inflightSched, r.delivered)
<1> DEFINE m == p.msg
           in == Filled(r.inbnd[m], p)
           inbnd == [r.inbnd EXCEPT ![m] = in]
           files == r.toGrant
           unsched == r.inflightUnsched
           sched == r.inflightSched
           delivered == r.delivered
           o == Rebyte(r, inbnd, files, unsched, sched, delivered)
           first == [r EXCEPT !.inbnd[m] = in]
<1>1. m \in Msg
  BY DEF Pkt
<1>2. in \in Inbound
  <2>1. r.inbnd[m] \in Inbound
    BY <1>1 DEF Receivers, Inbounds
  <2> QED BY <2>1, FilledType
<1>3. inbnd \in Inbounds
  <2> HIDE DEF in
  <2> QED BY <1>1, <1>2 DEF Receivers, Inbounds
<1>4. files \in Files /\ unsched \in Int /\ sched \in Int /\ delivered \in Deliveries
  BY DEF Receivers
<1>5. Required(o, q)
  <2> DEFINE match == Answered(r.inbnd[m], p)
             cond == match # {} /\ match \subseteq r.inbnd[m].inflightGrants
                       /\ \A g \in match : g[2] >= p.len
  <2>1. q = Require(first, cond, "fillinRxBytes: not in flight")
    BY DEF FillinRxBytes
  <2>2. first = o
    <3> HIDE DEF in
    <3> QED BY DEF Rebyte, Receivers
  <2> HIDE DEF first, o, cond
  <2> QED BY <2>1, <2>2, RequireIs DEF Labels
<1>6. o = Rebyte(r, inbnd, files, unsched, sched, delivered)
  OBVIOUS
<1> HIDE DEF inbnd, files, unsched, sched, delivered, o
<1>7. /\ q \in Receivers /\ SameQueues(r, q)
      /\ HasBytes(q, inbnd, files, unsched, sched, delivered)
  BY <1>3, <1>4, <1>5, <1>6, RebyteStep
<1> QED BY <1>7 DEF inbnd, files, unsched, sched, delivered

\* What handleInboundPkt makes of the messages and their bytes
Inbounded(r, p, q) ==
  LET in == Following(r, p)
      m == p.msg
  IN /\ SameQueues(r, q)
     /\ q.inbnd = [r.inbnd EXCEPT ![m] = IF Complete(in) THEN NoMessage ELSE in]
     /\ q.delivered = IF Complete(in) THEN [r.delivered EXCEPT ![m] = @ + 1] ELSE r.delivered
     /\ q.inflightUnsched = UnschedAfter(r, p)
     /\ q.inflightSched = SchedAfter(r, p)
     /\ \A t \in Host : t # MsgSrc[m] => q.toGrant[t] = r.toGrant[t]

LEMMA FilledStep ==
  ASSUME NEW r \in Receivers, NEW p \in Pkt, NEW s \in Host,
         NEW q, q = FillinRxBytes(IF r.inbnd[p.msg].open
                                    THEN UnfileMesg(PendingBytesArrived(r, p), s, p.msg)
                                    ELSE OpenMessage(r, p), p)
  PROVE  /\ q \in Receivers /\ SameQueues(r, q)
         /\ HasBytes(q, [r.inbnd EXCEPT ![p.msg] = Following(r, p)],
                     IF r.inbnd[p.msg].open THEN Taken(r, s, p.msg) ELSE r.toGrant,
                     UnschedAfter(r, p), SchedAfter(r, p), r.delivered)
<1> DEFINE m == p.msg
           o == IF r.inbnd[m].open THEN UnfileMesg(PendingBytesArrived(r, p), s, m)
                                   ELSE OpenMessage(r, p)
           in == Previous(r, p)
           files == IF r.inbnd[m].open THEN Taken(r, s, m) ELSE r.toGrant
<1>1. m \in Msg /\ r.inbnd \in Inbounds /\ r.inbnd[m] \in Inbound
  BY DEF Pkt, Receivers, Inbounds
<1>2. /\ o \in Receivers /\ SameQueues(r, o)
      /\ HasBytes(o, [r.inbnd EXCEPT ![m] = in], files, UnschedAfter(r, p), SchedAfter(r, p),
                  r.delivered)
  <2>1. CASE r.inbnd[m].open
    <3>1. [r.inbnd EXCEPT ![m] = in] = r.inbnd
      BY <1>1, <2>1 DEF Previous, Inbounds
    <3>2. o = UnfileMesg(PendingBytesArrived(r, p), s, m)
      BY <2>1
    <3> HIDE DEF o
    <3>3. /\ o \in Receivers /\ SameQueues(r, o)
          /\ HasBytes(o, r.inbnd, Taken(r, s, m), UnschedAfter(r, p), SchedAfter(r, p),
                      r.delivered)
      BY <2>1, <3>2, KnownStep
    <3> QED BY <2>1, <3>1, <3>3
  <2>2. CASE ~r.inbnd[m].open
    <3>1. in = Opened(m)
      BY <2>2 DEF Previous
    <3>2. o = OpenMessage(r, p)
      BY <2>2
    <3> HIDE DEF o
    <3>3. /\ o \in Receivers /\ SameQueues(r, o)
          /\ HasBytes(o, [r.inbnd EXCEPT ![m] = Opened(m)], r.toGrant, UnschedAfter(r, p),
                      SchedAfter(r, p), r.delivered)
      BY <2>2, <3>2, OpenStep
    <3> QED BY <2>2, <3>1, <3>3
  <2> QED BY <2>1, <2>2
<1>3. q = FillinRxBytes(o, p)
  OBVIOUS
<1> HIDE DEF o
<1>4. /\ q \in Receivers /\ SameQueues(o, q)
      /\ HasBytes(q, [o.inbnd EXCEPT ![m] = Filled(o.inbnd[m], p)], o.toGrant,
                  o.inflightUnsched, o.inflightSched, o.delivered)
  BY <1>2, <1>3, FillinStep
<1>5. [o.inbnd EXCEPT ![m] = Filled(o.inbnd[m], p)] = [r.inbnd EXCEPT ![m] = Following(r, p)]
  <2>1. o.inbnd = [r.inbnd EXCEPT ![m] = in]
    BY <1>2 DEF HasBytes
  <2>2. o.inbnd[m] = in
    BY <1>1, <2>1 DEF Inbounds
  <2>3. Filled(o.inbnd[m], p) = Following(r, p)
    BY <2>2 DEF Following
  <2> HIDE DEF in
  <2> QED BY <1>1, <2>1, <2>3 DEF Inbounds
<1>6. SameQueues(r, q)
  BY <1>2, <1>4 DEF SameQueues
<1> QED BY <1>2, <1>4, <1>5, <1>6 DEF HasBytes

\* The arrival of a packet of message m at the sender s of m: the message is
\* taken out of the file, and filed again unless all of it has been granted.
LEMMA InboundStep ==
  ASSUME NEW r \in Receivers, NEW p \in Pkt, Bounds(r.inbnd), Filing(r)
  PROVE  /\ HandleInboundPkt(r, p) \in Receivers
         /\ Inbounded(r, p, HandleInboundPkt(r, p))
         /\ Bounds(HandleInboundPkt(r, p).inbnd)
         /\ Filing(HandleInboundPkt(r, p))
<1> DEFINE m == p.msg
           s == MsgSrc[m]
           in == Following(r, p)
           filled == FillinRxBytes(IF r.inbnd[m].open
                                     THEN UnfileMesg(PendingBytesArrived(r, p), s, m)
                                     ELSE OpenMessage(r, p), p)
           files == IF r.inbnd[m].open THEN Taken(r, s, m) ELSE r.toGrant
           q == HandleInboundPkt(r, p)
<1>1. /\ m \in Msg /\ s \in Host /\ r.inbnd \in Inbounds /\ r.inbnd[m] \in Inbound
      /\ MsgSize[m] \in Nat
  BY MsgAssumption DEF Pkt, Receivers, Inbounds
<1>2. /\ Previous(r, p) \in Inbound /\ Previous(r, p).open
      /\ Previous(r, p).bytesToGrant <= MsgSize[m]
      /\ r.inbnd[m].open => Previous(r, p).bytesToGrant = r.inbnd[m].bytesToGrant
  <2>1. CASE r.inbnd[m].open
    BY <1>1, <2>1 DEF Previous, Bounds
  <2>2. CASE ~r.inbnd[m].open
    BY <1>1, <2>2, OpenedType DEF Previous
  <2> QED BY <2>1, <2>2
<1>3. /\ in \in Inbound /\ in.open /\ in.bytesToGrant <= MsgSize[m]
      /\ r.inbnd[m].open => in.bytesToGrant = r.inbnd[m].bytesToGrant
  BY <1>2, FilledType DEF Following
<1>4. /\ filled \in Receivers /\ SameQueues(r, filled)
      /\ HasBytes(filled, [r.inbnd EXCEPT ![m] = in], files, UnschedAfter(r, p),
                  SchedAfter(r, p), r.delivered)
  BY <1>1, FilledStep
<1>5. filled.inbnd[m] = in /\ \A k \in Msg : k # m => filled.inbnd[k] = r.inbnd[k]
  <2> HIDE DEF filled, in
  <2> QED BY <1>1, <1>4 DEF HasBytes, Inbounds
<1>6. q = IF Complete(in)
            THEN Require([filled EXCEPT !.inbnd[m] = NoMessage, !.delivered[m] = @ + 1],
                         in.bytesToGrant = 0 /\ in.inflightGrants = {},
                         "handleInboundPkt: complete but granted")
          ELSE IF in.bytesToGrant = 0 THEN filled
          ELSE FileMesg(filled, s, m)
  <2> DEFINE at == filled.inbnd[m]
  <2>1. q = IF Complete(at)
              THEN Require([filled EXCEPT !.inbnd[m] = NoMessage, !.delivered[m] = @ + 1],
                           at.bytesToGrant = 0 /\ at.inflightGrants = {},
                           "handleInboundPkt: complete but granted")
            ELSE IF at.bytesToGrant = 0 THEN filled
            ELSE FileMesg(filled, s, m)
    BY DEF HandleInboundPkt
  <2>2. at = in
    BY <1>5
  <2> DEFINE done == [filled EXCEPT !.inbnd[m] = NoMessage, !.delivered[m] = @ + 1]
  <2> HIDE DEF done, at, q, filled, in
  <2>3. q = IF Complete(at)
              THEN Require(done, at.bytesToGrant = 0 /\ at.inflightGrants = {},
                           "handleInboundPkt: complete but granted")
            ELSE IF at.bytesToGrant = 0 THEN filled
            ELSE FileMesg(filled, s, m)
    BY <2>1 DEF done
  <2>4. q = IF Complete(in)
              THEN Require(done, in.bytesToGrant = 0 /\ in.inflightGrants = {},
                           "handleInboundPkt: complete but granted")
            ELSE IF in.bytesToGrant = 0 THEN filled
            ELSE FileMesg(filled, s, m)
    BY <2>2, <2>3
  <2> QED BY <2>4 DEF done
<1>7. /\ files \in Files
      /\ filled.toGrant = files /\ filled.inbnd = [r.inbnd EXCEPT ![m] = in]
      /\ filled.delivered = r.delivered /\ filled.inflightUnsched = UnschedAfter(r, p)
      /\ filled.inflightSched = SchedAfter(r, p)
  BY <1>4 DEF HasBytes, Receivers
<1>8. StrictOrder(Order(r), Msg) /\ StrictOrder(Order(filled), Msg)
  BY <1>4, OrderStrict
<1> HIDE DEF filled, q, in
\* m is not in the files before it is filed again, and the others are.
<1>9. /\ files[s] \in Seq(Msg) /\ InOrder(Order(r), files[s])
      /\ Elements(files[s]) = Waiting(r, s) \ {m}
      /\ \A t \in Host : t # s => files[t] = r.toGrant[t]
  <2> DEFINE f == r.toGrant[s]
             i == CHOOSE i \in Filed(r, s, m) : TRUE
  <2>1. f \in Seq(Msg) /\ InOrder(Order(r), f) /\ Elements(f) = Waiting(r, s)
    BY <1>1 DEF Filing, FileExact, Receivers, Files
  <2>2. CASE r.inbnd[m].open /\ Filed(r, s, m) # {}
    <3>1. i \in DOMAIN f /\ f[i] = m
      BY <2>2 DEF Filed
    <3>2. files = [r.toGrant EXCEPT ![s] = RemoveAt(f, i)]
      BY <2>2 DEF Taken
    <3> HIDE DEF i, files, f
    <3>3. /\ RemoveAt(f, i) \in Seq(Msg) /\ InOrder(Order(r), RemoveAt(f, i))
          /\ Elements(RemoveAt(f, i)) = Elements(f) \ {f[i]}
      BY <1>8, <2>1, <3>1, SortedRemove
    <3>4. /\ files[s] = RemoveAt(f, i)
          /\ \A t \in Host : t # s => files[t] = r.toGrant[t]
      BY <1>1, <3>2 DEF Receivers, Files
    <3> QED BY <2>1, <3>1, <3>3, <3>4
  <2>3. CASE r.inbnd[m].open /\ Filed(r, s, m) = {}
    <3>1. m \notin Elements(f)
      BY <2>3 DEF Filed, Elements
    <3>2. files = r.toGrant
      BY <2>3 DEF Taken
    <3> QED BY <2>1, <3>1, <3>2
  <2>4. CASE ~r.inbnd[m].open
    <3>1. m \notin Waiting(r, s)
      BY <1>1, <2>4 DEF Bounds, Waiting
    <3>2. files = r.toGrant
      BY <2>4
    <3> QED BY <2>1, <3>1, <3>2
  <2> QED BY <2>2, <2>3, <2>4
<1> HIDE DEF files
\* For every outcome that changes the message m only, files m or not
<1>10. ASSUME NEW x \in Receivers, NEW new \in Inbound,
              x.inbnd = [r.inbnd EXCEPT ![m] = new],
              new.bytesToGrant <= MsgSize[m], ~new.open => new.bytesToGrant = 0,
              \A t \in Host : t # s => x.toGrant[t] = files[t],
              FileExact(x, s)
       PROVE  Filing(x) /\ Bounds(x.inbnd)
  <2>1. \A k \in Msg : x.inbnd[k] = IF k = m THEN new ELSE r.inbnd[k]
    BY <1>1, <1>10 DEF Inbounds
  <2>2. Bounds(x.inbnd)
    BY <1>1, <1>10, <2>1 DEF Bounds
  <2>3. ASSUME NEW t \in Host, t # s
        PROVE  FileExact(x, t)
    <3>1. FileExact(r, t) /\ x.toGrant[t] = r.toGrant[t]
      BY <1>9, <1>10, <2>3 DEF Filing
    <3>2. \A k \in Msg : MsgSrc[k] = t => x.inbnd[k].bytesToGrant = r.inbnd[k].bytesToGrant
      BY <2>1, <2>3
    <3> QED BY <3>1, <3>2, FileSame
  <2> QED BY <1>10, <2>2, <2>3 DEF Filing
\* the same when m is not filed
<1>11. ASSUME NEW x \in Receivers, NEW new \in Inbound,
              x.inbnd = [r.inbnd EXCEPT ![m] = new], x.toGrant = files,
              new.bytesToGrant = 0
       PROVE  Filing(x) /\ Bounds(x.inbnd)
  <2>1. \A k \in Msg : x.inbnd[k] = IF k = m THEN new ELSE r.inbnd[k]
    BY <1>1, <1>11 DEF Inbounds
  <2>2. Waiting(x, s) = Waiting(r, s) \ {m}
    BY <1>1, <1>11, <2>1 DEF Waiting
  <2>3. \A k \in Elements(files[s]) : x.inbnd[k].bytesToGrant = r.inbnd[k].bytesToGrant
    BY <1>9, <2>1 DEF Waiting
  <2>4. InOrder(Order(x), files[s])
    BY <1>9, <2>3, OrderSame
  <2>5. FileExact(x, s)
    BY <1>9, <1>11, <2>2, <2>4 DEF FileExact
  <2> QED BY <1>1, <1>10, <1>11, <2>5
<1>12. CASE Complete(in)
  <2> DEFINE inbnd == [r.inbnd EXCEPT ![m] = NoMessage]
             delivered == [r.delivered EXCEPT ![m] = @ + 1]
             unsched == UnschedAfter(r, p)
             sched == SchedAfter(r, p)
             o == Rebyte(filled, inbnd, files, unsched, sched, delivered)
             first == [filled EXCEPT !.inbnd[m] = NoMessage, !.delivered[m] = @ + 1]
             all == in.bytesToGrant = 0 /\ in.inflightGrants = {}
  <2>1. NoMessage \in Inbound /\ NoMessage.bytesToGrant = 0
    BY WireAssumption DEF NoMessage, Inbound
  <2>2. inbnd \in Inbounds
    BY <1>1, <2>1 DEF Inbounds
  <2>3. delivered \in Deliveries
    BY <1>1 DEF Receivers, Deliveries
  <2>4. unsched \in Int /\ sched \in Int
    BY <1>4, <1>7 DEF Receivers
  <2>5. [filled.inbnd EXCEPT ![m] = NoMessage] = inbnd
    BY <1>1, <1>7 DEF Inbounds
  <2>6. first = o
    <3>1. first = [filled EXCEPT !.inbnd = [filled.inbnd EXCEPT ![m] = NoMessage],
                                 !.delivered = [filled.delivered EXCEPT ![m] = @ + 1]]
      BY <1>4 DEF Receivers
    <3>2. first = [filled EXCEPT !.inbnd = inbnd, !.delivered = delivered]
      BY <1>7, <2>5, <3>1
    <3> HIDE DEF first, inbnd, delivered, unsched, sched
    <3> QED BY <1>4, <1>7, <3>2 DEF Rebyte, Receivers, unsched, sched
  <2>7. q = Require(first, all, "handleInboundPkt: complete but granted")
    BY <1>6, <1>12
  <2>8. o = Rebyte(filled, inbnd, files, unsched, sched, delivered)
    OBVIOUS
  <2> HIDE DEF inbnd, delivered, unsched, sched, o, first, all
  <2>9. Required(o, q)
    BY <2>6, <2>7, RequireIs DEF Labels
  <2>10. /\ q \in Receivers /\ SameQueues(filled, q)
         /\ HasBytes(q, inbnd, files, unsched, sched, delivered)
    BY <1>4, <1>7, <2>2, <2>3, <2>4, <2>8, <2>9, RebyteStep
  <2>11. SameQueues(r, q)
    BY <1>4, <2>10 DEF SameQueues
  <2>12. Inbounded(r, p, q)
    BY <1>9, <1>12, <2>10, <2>11 DEF Inbounded, HasBytes, inbnd, unsched, sched, delivered, in
  <2>13. Filing(q) /\ Bounds(q.inbnd)
    BY <1>11, <2>1, <2>10 DEF HasBytes, inbnd
  <2> QED BY <2>10, <2>12, <2>13 DEF q
<1>13. CASE ~Complete(in) /\ in.bytesToGrant = 0
  <2>1. q = filled
    BY <1>6, <1>13
  <2>2. Inbounded(r, p, q)
    BY <1>4, <1>7, <1>9, <1>13, <2>1 DEF Inbounded, in
  <2>3. Filing(q) /\ Bounds(q.inbnd)
    BY <1>3, <1>4, <1>7, <1>11, <1>13, <2>1
  <2> QED BY <1>4, <2>1, <2>2, <2>3 DEF q
<1>14. CASE ~Complete(in) /\ in.bytesToGrant # 0
  <2> DEFINE f == files[s]
             D == Prior(Order(filled), f, m)
             g == InsertAt(f, Cardinality(D) + 1, m)
             all == [files EXCEPT ![s] = g]
             S == Seq(Msg)
  <2>1. q = FileMesg(filled, s, m)
    BY <1>6, <1>14
  <2>2. D = {i \in DOMAIN filled.toGrant[s] : Better(filled, filled.toGrant[s][i], m)}
    BY <1>1, <1>7, <1>9 DEF Order, Prior
  <2>3. InOrder(Order(filled), f) /\ f \in Seq(Msg) /\ m \notin Elements(f)
    <3>1. \A k \in Elements(f) : filled.inbnd[k].bytesToGrant = r.inbnd[k].bytesToGrant
      BY <1>5, <1>9 DEF Waiting
    <3> QED BY <1>9, <3>1, OrderSame
  <2>4. FiledBefore(filled, s, m) = Cardinality(D)
    BY <2>2 DEF FiledBefore
  <2>5. q = [filled EXCEPT !.toGrant[s] = g]
    <3>1. q = [filled EXCEPT !.toGrant[s] = InsertAt(@, FiledBefore(filled, s, m) + 1, m)]
      BY <2>1 DEF FileMesg
    <3> HIDE DEF D, q
    <3> QED BY <1>4, <1>7, <2>4, <3>1 DEF Receivers, Files
  <2> HIDE DEF f
  <2>6. /\ g \in S /\ InOrder(Order(filled), g) /\ Elements(g) = Elements(f) \cup {m}
    BY <1>1, <1>8, <2>3, SortedInsert
  <2> HIDE DEF g, D, S
  <2>7. all \in Files /\ all[s] = g /\ \A t \in Host : t # s => all[t] = files[t]
    <3>1. files \in [Host -> S]
      BY <1>7 DEF Files, S
    <3>2. all \in [Host -> S] /\ all[s] = g /\ \A t \in Host : t # s => all[t] = files[t]
      BY <1>1, <2>6, <3>1
    <3> QED BY <3>2 DEF S, Files
  <2>8. q = [filled EXCEPT !.toGrant = all]
    BY <1>4, <1>7, <2>5 DEF Receivers
  <2> HIDE DEF all
  <2>9. /\ q \in Receivers /\ SameQueues(filled, q)
        /\ HasBytes(q, filled.inbnd, all, filled.inflightUnsched, filled.inflightSched,
                    filled.delivered)
    BY <1>4, <2>7, <2>8 DEF Receivers, SameQueues, HasBytes
  <2>10. Inbounded(r, p, q)
    <3>1. SameQueues(r, q)
      BY <1>4, <2>9 DEF SameQueues
    <3> QED BY <1>7, <1>9, <1>14, <2>7, <2>9, <3>1 DEF Inbounded, HasBytes, in
  <2>11. FileExact(q, s)
    <3>1. Waiting(q, s) = (Waiting(r, s) \ {m}) \cup {m}
      <4>1. \A k \in Msg : q.inbnd[k] = IF k = m THEN in ELSE r.inbnd[k]
        BY <1>5, <2>9 DEF HasBytes
      <4>2. in.bytesToGrant > 0
        BY <1>3, <1>14 DEF Inbound
      <4> QED BY <1>1, <4>1, <4>2 DEF Waiting
    <3>2. Elements(q.toGrant[s]) = Waiting(q, s)
      BY <1>9, <2>6, <2>7, <2>9, <3>1 DEF HasBytes, f
    <3>3. InOrder(Order(q), g)
      BY <2>6, <2>9, OrderSame DEF HasBytes, S
    <3> QED BY <2>7, <2>9, <3>2, <3>3 DEF FileExact, HasBytes
  <2>12. Filing(q) /\ Bounds(q.inbnd)
    BY <1>3, <1>7, <1>10, <2>7, <2>9, <2>11 DEF HasBytes
  <2> QED BY <2>9, <2>10, <2>12 DEF q
<1> QED BY <1>12, <1>13, <1>14

-----------------------------------------------------------------------------
(* processReceivedPkt.                                                      *)

\* When a handler of the arrival leads from one closed set to another, so does
\* all of processReceivedPkt.
LEMMA ProcessReceivedPktIn ==
  ASSUME NEW G, Closed(G), NEW H, Closed(H), NEW r0 \in G, NEW p \in Pkt,
         \A r \in G : HandleInboundPkt(r, p) \in H
  PROVE  ProcessReceivedPkt(r0, p) \in H
<1> DEFINE s == MsgSrc[p.msg]
           r1 == RecordOversub(r0)
           old == [s |-> s, sInd |-> RemovedFrom(r1, s), headIdx |-> r1.headIdx,
                   numSenders |-> Len(r1.senders), numToGrant |-> r1.numToGrant]
           out == RemoveSender(r1, s)
           r2 == HandleInboundPkt(out, p)
           r3 == HandleMesgRecvCompletion(r2, p.msg)
           at == InsPoint(r2, s)
           cur == [at EXCEPT !.numToGrant = r3.numToGrant]
           r4 == HandlePktArrival(r3, old, cur)
           r5 == MarkOversub(r4)
           q == SetBwTimer(r5)
<1>1. s \in Host /\ p.msg \in Msg
  BY MsgAssumption DEF Pkt
<1>2. ProcessReceivedPkt(r0, p) = q
  BY DEF ProcessReceivedPkt
<1> HIDE DEF q
<1>3. r1 \in G
  <2> DEFINE none == [r0 EXCEPT !.oversub = "none"]
             cond == r0.oversub = "in"
             o == Require(r0, cond, "oversub: not marked")
  <2>1. none \in G
    <3>1. r0 \in Receivers
      BY DEF Closed
    <3>2. none \in Receivers /\ SameBytes(r0, none)
      BY <3>1 DEF Receivers, SameBytes
    <3> QED BY <3>2 DEF Closed
  <2>2. o \in G
    <3> HIDE DEF cond
    <3> QED BY ClosedRequire DEF Labels
  <2>3. r1 = o \/ r1 = none \/ r1 = r0
    BY DEF RecordOversub
  <2> HIDE DEF o, none, r1
  <2> QED BY <2>1, <2>2, <2>3
<1> HIDE DEF r1
<1>4. r1 \in Receivers
  BY <1>3 DEF Closed
<1>5. old \in Places
  <2> DEFINE ind == RemovedFrom(r1, s)
  <2>1. r1.headIdx \in Nat /\ r1.numToGrant \in Nat /\ r1.senders \in Seq(Host)
    BY <1>4 DEF Receivers, Widths, Lists
  <2>2. Len(r1.senders) \in Nat
    BY <2>1
  <2>3. ind \in Int
    <3> DEFINE i == IndexOf(r1, s)
    <3>1. Listed(r1, s) => i \in DOMAIN r1.senders
      BY DEF Listed, IndexOf
    <3>2. ind = -1 \/ (Listed(r1, s) /\ ind = r1.headIdx + i - 1)
      BY DEF RemovedFrom
    <3> HIDE DEF i, ind
    <3>3. Listed(r1, s) => i \in Nat
      BY <2>1, <3>1
    <3> QED BY <2>1, <3>2, <3>3
  <2> DEFINE num == Len(r1.senders)
             head == r1.headIdx
             wide == r1.numToGrant
  <2>4. old = [s |-> s, sInd |-> ind, headIdx |-> head, numSenders |-> num,
               numToGrant |-> wide]
    OBVIOUS
  <2> HIDE DEF ind, num, head, wide, s, old
  <2>5. old \in Places
    BY <1>1, <2>1, <2>2, <2>3, <2>4 DEF Places, num, head, wide
  <2> QED BY <2>5
<1> HIDE DEF old
<1>6. out \in G
  BY <1>1, <1>3, <1>4, RemoveSenderStep, ClosedRelisted
<1> HIDE DEF out
<1>7. r2 \in H
  BY <1>6
<1> HIDE DEF r2
<1>8. r2 \in Receivers
  BY <1>7 DEF Closed
<1>9. r3 \in H /\ r3.numToGrant \in Nat
  <2> DEFINE n == r2.numToGrant - 1
             less == [r2 EXCEPT !.numToGrant = n]
  <2>1. r2.numToGrant \in Widths /\ r2.numToGrant \in Nat
    BY <1>8 DEF Receivers, Widths
  <2>2. r2.numToGrant # NumToKeepGranted => n \in Widths
    BY <2>1, SchedAssumption DEF Widths
  <2>3. r3 = r2 \/ (r2.numToGrant # NumToKeepGranted /\ r3 = less)
    <3>1. less = [r2 EXCEPT !.numToGrant = @ - 1]
      BY <1>8 DEF Receivers
    <3> HIDE DEF less
    <3> QED BY <3>1 DEF HandleMesgRecvCompletion
  <2> HIDE DEF r3, n
  <2>4. n \in Widths => less \in Receivers /\ SameBytes(r2, less) /\ less.numToGrant = n
    BY <1>8 DEF Receivers, SameBytes
  <2> HIDE DEF less
  <2>5. n \in Widths => less \in H
    BY <1>7, <2>4 DEF Closed
  <2>6. n \in Widths => n \in Nat
    BY DEF Widths
  <2> QED BY <1>7, <2>1, <2>2, <2>3, <2>4, <2>5, <2>6
<1> HIDE DEF r3
<1>10. cur \in Places
  <2>1. at \in Places
    BY <1>1, <1>8, InsPointType
  <2> HIDE DEF at
  <2> QED BY <1>9, <2>1 DEF Places
<1> HIDE DEF cur
<1>11. r4 \in H
  BY <1>5, <1>9, <1>10, HandlePktArrivalIn
<1> HIDE DEF r4
<1>12. r4 \in Receivers
  BY <1>11 DEF Closed
<1>13. r5 \in H
  <2> DEFINE none == [r4 EXCEPT !.oversub = "none"]
             over == [r4 EXCEPT !.oversub = "in"]
             cond == r4.oversub # "ended"
             o == Require(over, cond, "oversub: not recorded")
  <2>1. none \in Receivers /\ SameBytes(r4, none)
    BY <1>12 DEF Receivers, SameBytes
  <2>2. over \in Receivers /\ SameBytes(r4, over)
    BY <1>12 DEF Receivers, SameBytes
  <2>3. none \in H /\ over \in H
    BY <1>11, <2>1, <2>2 DEF Closed
  <2>4. o \in H
    <3> HIDE DEF cond, over
    <3> QED BY <2>3, ClosedRequire DEF Labels
  <2>5. r5 = none \/ r5 = o
    BY DEF MarkOversub
  <2> HIDE DEF none, o, r5
  <2> QED BY <2>3, <2>4, <2>5
<1> HIDE DEF r5
<1>14. q \in H
  <2> DEFINE b == LinkCheck /\ r5.senders # <<>>
  <2>1. b \in BOOLEAN
    OBVIOUS
  <2>2. r5 \in Receivers
    BY <1>13 DEF Closed
  <2>3. q = [r5 EXCEPT !.bwTimer = b]
    BY DEF q, SetBwTimer
  <2> HIDE DEF b
  <2>4. q \in Receivers /\ SameBytes(r5, q)
    BY <2>1, <2>2, <2>3 DEF Receivers, SameBytes
  <2> QED BY <1>13, <2>4 DEF Closed
<1> QED BY <1>2, <1>14

\* The arrival keeps the files exact.
LEMMA ArrivalFiles ==
  ASSUME NEW r0 \in Filers, NEW p \in Pkt
  PROVE  ProcessReceivedPkt(r0, p) \in Filers
<1>1. \A r \in Filers : HandleInboundPkt(r, p) \in Filers
  BY InboundStep DEF Filers
<1> QED BY <1>1, FilersClosed, ProcessReceivedPktIn

LEMMA LeaveFiles ==
  ASSUME NEW r \in Filers
  PROVE  /\ [r EXCEPT !.grants = {}] \in Filers
         /\ [r EXCEPT !.grants = {}].grants = {}
         /\ {SchedPktFor(g) : g \in r.grants} \in SUBSET Pkt
<1> DEFINE q == [r EXCEPT !.grants = {}]
<1>1. r \in Receivers /\ Filing(r) /\ Bounds(r.inbnd)
  BY DEF Filers
<1>2. q \in Receivers /\ q.inbnd = r.inbnd /\ q.toGrant = r.toGrant /\ q.grants = {}
  BY <1>1 DEF Receivers
<1> HIDE DEF q
<1>3. q \in Filers
  BY <1>1, <1>2, FilingSame DEF Filers
<1>4. \A g \in r.grants : SchedPktFor(g) \in Pkt
  <2>1. \A g \in r.grants : g \in Grant
    BY <1>1 DEF Receivers
  <2> QED BY <2>1 DEF Grant, SchedPktFor, Pkt, PktType
<1> QED BY <1>2, <1>3, <1>4 DEF q

\* The receiver at the start.
LEMMA InitFiles == InitReceiver \in Filers /\ InitReceiver.grants = {}
<1>1. InitReceiver \in Receivers
  <2>1. NoMessage \in Inbound
    BY WireAssumption DEF NoMessage, Inbound
  <2>2. [m \in Msg |-> NoMessage] \in Inbounds
    BY <2>1 DEF Inbounds
  <2>3. [s \in Host |-> <<>>] \in Files
    BY DEF Files
  <2>4. [s \in Host |-> FALSE] \in Timers
    BY DEF Timers
  <2>5. [s \in Host |-> AllPrio] \in Prios /\ [s \in Host |-> SchedPrios] \in Indices
    BY SchedAssumption DEF Prios, Indices
  <2>6. <<>> \in Lists /\ SchedPrios \in Nat /\ NumToKeepGranted \in Widths
    BY SchedAssumption DEF Lists, Widths
  <2>7. [m \in Msg |-> 0] \in Deliveries
    BY DEF Deliveries
  <2> QED BY <2>1, <2>2, <2>3, <2>4, <2>5, <2>6, <2>7 DEF InitReceiver, Receivers
<1>2. \A m \in Msg : InitReceiver.inbnd[m] = NoMessage
  BY DEF InitReceiver
<1>3. \A s \in Host : InitReceiver.toGrant[s] = <<>>
  BY DEF InitReceiver
<1>4. InitReceiver.grants = {}
  BY DEF InitReceiver
<1> DEFINE r == InitReceiver
<1> HIDE DEF r
<1>5. Bounds(r.inbnd)
  <2>1. \A m \in Msg : MsgSize[m] \in Nat
    BY MsgAssumption
  <2>2. \A m \in Msg : r.inbnd[m].bytesToGrant = 0
    BY <1>2 DEF NoMessage, r
  <2> QED BY <2>1, <2>2 DEF Bounds
<1>6. Filing(r)
  BY <1>2, <1>3 DEF Filing, FileExact, InOrder, Elements, Waiting, NoMessage, r
<1> QED BY <1>1, <1>4, <1>5, <1>6 DEF Filers, r

-----------------------------------------------------------------------------
(* Bytes on the wire.                                                       *)

\* Quotient and remainder are the only numbers that make this equation true.
LEMMA DivModOnly ==
  ASSUME NEW n \in Nat, NEW c \in Nat \ {0}, NEW q \in Nat, NEW t \in 0 .. c - 1,
         n = q * c + t
  PROVE  n \div c = q /\ n % c = t
OBVIOUS

\* The size on the wire of the last packet, which has n data bytes
Short(n, hdr) == (IF n + hdr < MinEthPayload THEN MinEthPayload ELSE n + hdr) + EthOverhead
FullOnWire == MaxEthPayload + EthOverhead

LEMMA OnWireParts ==
  ASSUME NEW hdr \in {UnschedHdr, SchedHdr}, NEW q \in Nat, NEW t \in 0 .. MaxEthPayload - hdr - 1,
         NEW n, n = q * (MaxEthPayload - hdr) + t
  PROVE  /\ OnWire(n, hdr) = q * FullOnWire + (IF q > 0 /\ t = 0 THEN 0 ELSE Short(t, hdr))
         /\ n \in Nat
<1> DEFINE cap == MaxEthPayload - hdr
<1>1. /\ cap \in Nat \ {0} /\ hdr \in Nat /\ MinEthPayload \in Nat
      /\ EthOverhead \in Nat /\ MaxEthPayload \in Nat
  BY WireAssumption
<1>2. t \in 0 .. cap - 1 /\ n = q * cap + t
  OBVIOUS
<1>3. OnWire(n, hdr) =
        (n \div cap) * (MaxEthPayload + EthOverhead)
          + (IF n \div cap > 0 /\ n % cap = 0 THEN 0
             ELSE (IF (n % cap) + hdr < MinEthPayload THEN MinEthPayload ELSE (n % cap) + hdr)
                    + EthOverhead)
  BY DEF OnWire
<1> HIDE DEF cap
<1>4. n \in Nat
  BY <1>1, <1>2
<1>5. n \div cap = q /\ n % cap = t
  BY <1>1, <1>2, <1>4, DivModOnly
<1> QED BY <1>3, <1>4, <1>5 DEF FullOnWire, Short

\* n bytes fill q packets and t bytes of another one.
LEMMA Cut ==
  ASSUME NEW n \in Nat, NEW c \in Nat \ {0}
  PROVE  \E q \in Nat : \E t \in 0 .. c - 1 : q * c \in Nat /\ n = q * c + t
<1> DEFINE q == n \div c
           t == n % c
<1>1. q \in Nat /\ t \in 0 .. c - 1
  OBVIOUS
<1>2. t = n - q * c
  OBVIOUS
<1> HIDE DEF q, t
<1>3. q * c \in Nat
  BY <1>1
<1> DEFINE x == q * c
<1> HIDE DEF x
<1>4. n = x + t
  BY <1>1, <1>2, <1>3 DEF x
<1> QED BY <1>1, <1>3, <1>4 DEF x

\* Full packets in front do not change how the rest is cut into packets.
LEMMA OnWireAdd ==
  ASSUME NEW hdr \in {UnschedHdr, SchedHdr}, NEW k \in Nat \ {0}, NEW b \in Nat, b > 0,
         NEW a, a = k * (MaxEthPayload - hdr)
  PROVE  OnWire(a + b, hdr) = OnWire(a, hdr) + OnWire(b, hdr)
<1> DEFINE cap == MaxEthPayload - hdr
<1>1. cap \in Nat \ {0}
  BY WireAssumption
<1>2. PICK q \in Nat : \E t \in 0 .. cap - 1 : q * cap \in Nat /\ b = q * cap + t
  <2> HIDE DEF cap
  <2> QED BY <1>1, Cut
<1>3. PICK t \in 0 .. cap - 1 : q * cap \in Nat /\ b = q * cap + t
  BY <1>2
<1>4. k * cap \in Nat /\ (k + q) * cap = k * cap + q * cap /\ a = k * cap + 0
  <2> HIDE DEF cap
  <2> QED BY <1>1, <1>3 DEF cap
<1>5. FullOnWire \in Nat /\ \A x \in 0 .. cap - 1 : Short(x, hdr) \in Nat
  BY WireAssumption DEF FullOnWire, Short
<1> HIDE DEF cap
<1>6. k * FullOnWire \in Nat /\ q * FullOnWire \in Nat
      /\ (k + q) * FullOnWire = k * FullOnWire + q * FullOnWire
  BY <1>3, <1>5
<1>7. OnWire(a, hdr) = k * FullOnWire
  <2>1. 0 \in 0 .. cap - 1
    BY <1>1
  <2>2. OnWire(a, hdr) = k * FullOnWire + (IF k > 0 /\ 0 = 0 THEN 0 ELSE Short(0, hdr))
    BY <1>4, <2>1, OnWireParts DEF cap
  <2> QED BY <1>6, <2>2
<1>8. OnWire(b, hdr) = q * FullOnWire + (IF q > 0 /\ t = 0 THEN 0 ELSE Short(t, hdr))
  BY <1>3, OnWireParts DEF cap
<1>9. OnWire(a + b, hdr) =
        (k + q) * FullOnWire + (IF k + q > 0 /\ t = 0 THEN 0 ELSE Short(t, hdr))
  <2>1. k + q \in Nat /\ a + b = (k + q) * cap + t
    BY <1>3, <1>4
  <2> QED BY <1>3, <2>1, OnWireParts DEF cap
<1>10. t = 0 => q > 0
  <2> SUFFICES ASSUME t = 0, q = 0
               PROVE  FALSE
    BY <1>3
  <2>1. 0 * cap = 0
    BY <1>1 DEF cap
  <2> QED BY <1>3, <2>1
<1> QED BY <1>3, <1>5, <1>6, <1>7, <1>8, <1>9, <1>10

\* A grant that fills less of a packet takes no more of the wire.
LEMMA OnWireGrant ==
  ASSUME NEW n \in Nat, n <= GrantMax
  PROVE  OnWire(n, SchedHdr) <= OnWire(GrantMax, SchedHdr)
<1> DEFINE cap == MaxEthPayload - SchedHdr
<1>1. cap \in Nat \ {0} /\ GrantMax \in Nat \ {0} /\ GrantMax <= cap
  BY WireAssumption, SizeAssumption
<1>2. ASSUME NEW x \in Nat, x < cap
      PROVE  OnWire(x, SchedHdr) = Short(x, SchedHdr)
  <2>1. OnWire(x, SchedHdr) = 0 * FullOnWire + (IF 0 > 0 /\ x = 0 THEN 0 ELSE Short(x, SchedHdr))
    <3>1. x \in 0 .. cap - 1 /\ x = 0 * cap + x
      BY <1>1, <1>2
    <3> QED BY <3>1, OnWireParts
  <2> QED BY <2>1, WireAssumption DEF FullOnWire, Short
<1>3. OnWire(cap, SchedHdr) = FullOnWire
  <2>1. 0 \in 0 .. cap - 1 /\ cap = 1 * cap + 0
    BY <1>1
  <2>2. OnWire(cap, SchedHdr) = 1 * FullOnWire + (IF 1 > 0 /\ 0 = 0 THEN 0 ELSE Short(0, SchedHdr))
    BY <2>1, OnWireParts
  <2> QED BY <2>2, WireAssumption DEF FullOnWire
<1>4. \A x, y \in Nat : x <= y /\ y < cap =>
        /\ Short(x, SchedHdr) <= Short(y, SchedHdr) /\ Short(y, SchedHdr) <= FullOnWire
        /\ Short(x, SchedHdr) <= FullOnWire
  BY WireAssumption DEF Short, FullOnWire
<1> HIDE DEF cap
<1>5. CASE GrantMax < cap
  BY <1>1, <1>2, <1>4, <1>5
<1>6. CASE GrantMax = cap
  <2>1. CASE n = cap
    BY <1>3, <1>6, <2>1, WireAssumption DEF FullOnWire
  <2>2. CASE n < cap
    BY <1>2, <1>3, <1>4, <1>6, <2>2
  <2> QED BY <1>1, <1>6, <2>1, <2>2
<1> QED BY <1>1, <1>5, <1>6

\* The sizes of packets, of their data and on the wire
LenOf == [p \in Pkt |-> p.len]
WireOf == [p \in Pkt |-> PktOnWire(p)]

LEMMA SizesType ==
  /\ \A p \in Pkt : LenOf[p] = p.len /\ p.len \in Nat
  /\ \A p \in Pkt : WireOf[p] = PktOnWire(p) /\ PktOnWire(p) \in Nat
<1>1. NoMessage \in Inbound
  BY WireAssumption DEF NoMessage, Inbound
<1> QED BY <1>1, FilledType DEF LenOf, WireOf

LEMMA TotalPart ==
  ASSUME NEW f, NEW S, NEW T \in SUBSET S, IsFiniteSet(S), \A p \in S : f[p] \in Nat
  PROVE  Total(f, T) <= Total(f, S) /\ Total(f, T) \in Nat /\ Total(f, S) \in Nat
<1> DEFINE D == S \ T
<1>1. IsFiniteSet(T) /\ IsFiniteSet(D)
  BY FS_Subset, FS_Difference
<1>2. S = T \cup D /\ T \cap D = {} /\ \A p \in T \cup D : f[p] \in Nat
  OBVIOUS
<1> HIDE DEF D
<1>3. Total(f, S) = Total(f, T) + Total(f, D)
  BY <1>1, <1>2, TotalUnion
<1>4. Total(f, T) \in Nat /\ Total(f, D) \in Nat
  BY <1>1, <1>2, TotalType
<1> QED BY <1>3, <1>4

\* A set of packets with data bytes adds up to nothing only when it is empty.
LEMMA TotalSome ==
  ASSUME NEW f, NEW S, IsFiniteSet(S), \A p \in S : f[p] \in Nat /\ f[p] > 0
  PROVE  Total(f, S) \in Nat /\ (Total(f, S) = 0 <=> S = {})
<1>1. Total(f, S) \in Nat
  BY TotalType
<1>2. ASSUME NEW p \in S
      PROVE  Total(f, S) > 0
  <2>1. f[p] <= Total(f, S) /\ f[p] \in Nat /\ f[p] > 0
    BY TotalRemove
  <2> QED BY <1>1, <2>1
<1> QED BY <1>1, <1>2, TotalEmpty

-----------------------------------------------------------------------------
(* The unscheduled packets of a message.                                    *)

\* The byte counters of a message do not wrap around, and its first packet has
\* data bytes.
Countable == ReqBytes > 0 /\ \A m \in Msg : MsgSize[m] < Word

LEMMA UnschedLens ==
  ASSUME Countable, NEW m \in Msg
  PROVE  /\ IsFiniteSet(ReqUnschedDataPkts(m))
         /\ ReqUnschedDataPkts(m) \in SUBSET Pkt
         /\ \A p \in ReqUnschedDataPkts(m) : p.msg = m /\ p.type # "SCHED_DATA" /\ p.len > 0
         /\ Total(LenOf, ReqUnschedDataPkts(m)) = TotalUnsched(m)
         /\ ReqPart(m) > 0
<1> DEFINE S == ReqUnschedDataPkts(m)
           n == TotalUnsched(m)
<1>1. ReqPart(m) \in Nat /\ ReqPart(m) > 0 /\ UnschedPart(m) \in Nat /\ n \in Nat
  BY UnschedBounds, MsgAssumption, SizeAssumption DEF Countable, ReqPart, Lesser
<1>2. \A p \in S : p \in Pkt /\ p.msg = m
  BY UnschedPktsDivide
<1>3. \A p \in S : p.type # "SCHED_DATA" /\ p.len > 0
  <2>1. ReqPkt(m).type # "SCHED_DATA" /\ ReqPkt(m).len > 0
    BY <1>1 DEF ReqPkt
  <2>2. ASSUME NEW k \in 0 .. UnschedPart(m), k * MaxUnschedData < UnschedPart(m)
        PROVE  UnschedPkt(m, k).type # "SCHED_DATA" /\ UnschedPkt(m, k).len > 0
    <3> DEFINE at == k * MaxUnschedData
    <3>1. at \in Nat /\ MaxUnschedData \in Nat /\ MaxUnschedData > 0
      BY SizeAssumption, <1>1
    <3> HIDE DEF at
    <3>2. Lesser(MaxUnschedData, UnschedPart(m) - at) > 0
      BY <1>1, <2>2, <3>1 DEF Lesser, at
    <3> QED BY <3>2 DEF UnschedPkt, at
  <2> QED BY <2>1, <2>2 DEF ReqUnschedDataPkts
<1>4. \A p \in S : p.first \in Nat /\ p.len \in Nat
  BY <1>2 DEF Pkt
<1>5. Disjoint(S) /\ Bytes(S) = 0 .. n - 1
  BY UnschedPktsDivide
<1>6. IsFiniteSet(0 .. n - 1) /\ Cardinality(0 .. n - 1) = n
  <2>1. n <= MsgSize[m]
    BY UnschedBounds
  <2> HIDE DEF n
  <2> QED BY <1>1, <2>1, WholeSize
<1> HIDE DEF S, n
<1>7. IsFiniteSet(S)
  BY <1>3, <1>4, <1>5, <1>6, DisjointFinite
<1>8. Total(Lens(S), S) = n
  BY <1>4, <1>5, <1>6, <1>7, LenSumBytes
<1>9. Total(LenOf, S) = Total(Lens(S), S)
  <2>1. \A p \in S : LenOf[p] = Lens(S)[p]
    BY <1>2, SizesType DEF Lens
  <2> QED BY <2>1, TotalSame
<1>10. S \in SUBSET Pkt
  BY <1>2
<1> QED BY <1>1, <1>2, <1>3, <1>7, <1>8, <1>9, <1>10 DEF S, n

\* The request packet is full, unless all the bytes sent without a grant fit into
\* it: OnWire then cuts the unscheduled bytes as getReqUnschedDataPkts does.
FullRequests == \A m \in Msg : UnschedPart(m) > 0 => ReqPart(m) = MaxUnschedData

\* The unscheduled bytes take as much of the wire as the packets they are sent in.
LEMMA UnschedWires ==
  ASSUME Countable, FullRequests, NEW m \in Msg
  PROVE  Total(WireOf, ReqUnschedDataPkts(m)) = OnWire(TotalUnsched(m), UnschedHdr)
<1> DEFINE cap == MaxUnschedData
           a == ReqPart(m)
           b == UnschedPart(m)
           S == ReqUnschedDataPkts(m)
           first == {ReqPkt(m)}
           wire(n) == OnWire(n, UnschedHdr)
           more == {UnschedPkt(m, k) : k \in {i \in 0 .. b : i * cap < b}}
<1>1. /\ a \in Nat /\ a > 0 /\ b \in Nat /\ TotalUnsched(m) = a + b
      /\ cap \in Nat \ {0} /\ cap = MaxEthPayload - UnschedHdr
      /\ b > 0 => a = cap
  BY UnschedBounds, UnschedLens, SizeAssumption, WireAssumption DEF TotalUnsched, FullRequests
<1>2. S = first \cup more
  BY DEF ReqUnschedDataPkts
<1>3. IsFiniteSet(S) /\ S \in SUBSET Pkt
  BY UnschedLens
<1>4. IsFiniteSet(first) /\ IsFiniteSet(more) /\ first \subseteq S /\ more \subseteq S
  BY <1>2, <1>3, FS_Subset
<1>5. first \cap more = {}
  BY DEF ReqPkt, UnschedPkt
<1>6. \A p \in S : WireOf[p] = PktOnWire(p) /\ PktOnWire(p) \in Nat
  BY <1>3, SizesType
<1>7. Total(WireOf, S) = Total(WireOf, first) + Total(WireOf, more)
  <2> HIDE DEF first, more, S
  <2> QED BY <1>2, <1>4, <1>5, <1>6, TotalUnion
<1>8. Total(WireOf, first) = wire(a)
  <2>1. ReqPkt(m) \in S /\ PktOnWire(ReqPkt(m)) = wire(a)
    BY <1>2 DEF PktOnWire, ReqPkt, PktHdr
  <2>2. Total(WireOf, {ReqPkt(m)}) = WireOf[ReqPkt(m)]
    BY <1>6, <2>1, TotalSingle
  <2> QED BY <1>6, <2>1, <2>2
<1>9. \A n \in Nat : wire(n) \in Nat
  BY OnWireType
<1>10. CASE b = 0
  <2>1. more = {}
    <3>1. ASSUME NEW i \in 0 .. b, i * cap < b
          PROVE  FALSE
      <4>1. i = 0
        BY <1>10
      <4>2. 0 * cap = 0
        BY <1>1
      <4> QED BY <1>10, <3>1, <4>1, <4>2
    <3> QED BY <3>1
  <2> HIDE DEF first, more, S, wire
  <2>2. Total(WireOf, more) = 0
    BY <2>1, TotalEmpty
  <2>3. TotalUnsched(m) = a
    BY <1>1, <1>10
  <2> QED BY <1>1, <1>7, <1>8, <1>9, <2>2, <2>3 DEF S, wire
<1>11. CASE b > 0
  <2>1. PICK q \in Nat : \E t \in 0 .. cap - 1 : q * cap \in Nat /\ b = q * cap + t
    <3> HIDE DEF cap, b
    <3> QED BY <1>1, Cut
  <2>2. PICK t \in 0 .. cap - 1 : q * cap \in Nat /\ b = q * cap + t
    BY <2>1
  <2> DEFINE full == {UnschedPkt(m, k) : k \in 0 .. q - 1}
             last == IF t = 0 THEN {} ELSE {UnschedPkt(m, q)}
             w == wire(cap)
  <2>3. ASSUME NEW k \in Nat
        PROVE  /\ k * cap \in Nat /\ k <= k * cap
               /\ k < q => k * cap + cap <= q * cap
               /\ k > q => q * cap + cap <= k * cap
    <3> HIDE DEF cap
    <3>1. k * cap \in Nat /\ k <= k * cap
      BY <1>1
    <3>2. ASSUME NEW i \in Nat, NEW j \in Nat, i < j
          PROVE  i * cap + cap <= j * cap
      <4>1. j - i - 1 \in Nat /\ (j - i - 1) * cap \in Nat
        BY <1>1, <3>2
      <4>2. j * cap = i * cap + cap + (j - i - 1) * cap
        BY <1>1, <3>2
      <4>3. i * cap \in Nat
        BY <1>1
      <4> QED BY <1>1, <4>1, <4>2, <4>3
    <3> QED BY <3>1, <3>2
  <2>4. \A k \in Nat : k * cap < b <=> k < q \/ (k = q /\ t > 0)
    <3> TAKE k \in Nat
    <3> DEFINE x == k * cap
               y == q * cap
    <3>1. x \in Nat /\ y \in Nat /\ (k < q => x + cap <= y) /\ (k > q => y + cap <= x)
      BY <2>2, <2>3
    <3>2. k = q => x = y
      OBVIOUS
    <3>3. b = y + t /\ t < cap /\ t \in Nat
      BY <1>1, <2>2
    <3> HIDE DEF x, y, cap, b
    <3> QED BY <1>1, <3>1, <3>2, <3>3 DEF x
  <2>5. more = full \cup last
    <3>1. \A k \in Nat : k * cap < b => k \in 0 .. b
      <4> TAKE k \in Nat
      <4> DEFINE x == k * cap
      <4>1. x \in Nat /\ k <= x
        BY <2>3
      <4> HIDE DEF x, b
      <4> QED BY <1>1, <4>1 DEF x
    <3>2. more = {UnschedPkt(m, k) : k \in {i \in Nat : i * cap < b}}
      BY <1>1, <3>1
    <3>3. {i \in Nat : i * cap < b} = (0 .. q - 1) \cup (IF t > 0 THEN {q} ELSE {})
      <4> HIDE DEF cap, b
      <4> QED BY <2>4
    <3> HIDE DEF more, b, cap
    <3> QED BY <2>2, <3>2, <3>3
  <2>6. \A k \in 0 .. q - 1 : UnschedPkt(m, k).len = cap /\ UnschedPkt(m, k).type = "UNSCHED_DATA"
    <3> TAKE k \in 0 .. q - 1
    <3> DEFINE x == k * cap
               y == q * cap
    <3>1. x \in Nat /\ x + cap <= y /\ b = y + t /\ y \in Nat
      BY <2>2, <2>3
    <3>2. UnschedPkt(m, k).len = Lesser(cap, b - x) /\ UnschedPkt(m, k).type = "UNSCHED_DATA"
      BY DEF UnschedPkt
    <3> HIDE DEF x, y, cap, b
    <3> QED BY <1>1, <3>1, <3>2 DEF Lesser
  <2>7. t > 0 => UnschedPkt(m, q).len = t /\ UnschedPkt(m, q).type = "UNSCHED_DATA"
    <3> DEFINE y == q * cap
    <3>1. UnschedPkt(m, q).len = Lesser(cap, b - y) /\ UnschedPkt(m, q).type = "UNSCHED_DATA"
      BY DEF UnschedPkt
    <3>2. b = y + t /\ y \in Nat
      BY <2>2
    <3> HIDE DEF y, cap, b
    <3> QED BY <1>1, <3>1, <3>2 DEF Lesser
  <2>8. full \subseteq S /\ last \subseteq S /\ IsFiniteSet(full) /\ IsFiniteSet(last)
    BY <1>2, <1>4, <2>5, FS_Subset
  <2>9. full \cap last = {}
    BY <1>1, <2>2, <2>6, <2>7
  <2>10. Cardinality(full) = q
    <3> DEFINE at == [k \in 0 .. q - 1 |-> UnschedPkt(m, k)]
               D == 0 .. q - 1
    <3>1. \A k, l \in D : at[k] = at[l] => k = l
      <4> SUFFICES ASSUME NEW k \in D, NEW l \in D, at[k] = at[l]
                   PROVE  k = l
        OBVIOUS
      <4>1. UnschedPkt(m, k).first = UnschedPkt(m, l).first
        OBVIOUS
      <4>2. a + k * cap = a + l * cap
        BY <4>1 DEF UnschedPkt
      <4> DEFINE x == k * cap
                 y == l * cap
      <4>3. x \in Nat /\ y \in Nat
        BY <2>3
      <4>4. x = y
        <5> HIDE DEF a
        <5>1. a + x = a + y
          BY <4>2
        <5> HIDE DEF x, y
        <5> QED BY <1>1, <4>3, <5>1
      <4>5. ASSUME NEW i \in Nat, NEW j \in Nat, i < j
            PROVE  i * cap < j * cap
        <5> HIDE DEF cap
        <5>1. j * cap = i * cap + (j - i) * cap
          BY <1>1, <4>5
        <5>2. (j - i) * cap > 0 /\ i * cap \in Nat
          BY <1>1, <4>5
        <5>3. (j - i) * cap \in Nat
          BY <1>1, <4>5
        <5> QED BY <5>1, <5>2, <5>3
      <4>6. k \in Nat /\ l \in Nat
        OBVIOUS
      <4>7. ~(k < l)
        <5> HIDE DEF cap
        <5> QED BY <4>3, <4>4, <4>5, <4>6 DEF x, y
      <4>8. ~(l < k)
        <5> HIDE DEF cap
        <5> QED BY <4>3, <4>4, <4>5, <4>6 DEF x, y
      <4> QED BY <4>6, <4>7, <4>8
    <3>2. at \in Bijection(D, full)
      BY <3>1 DEF Bijection, Injection, Surjection, IsInjective
    <3>3. IsFiniteSet(D) /\ Cardinality(D) = q
      <4>1. IsFiniteSet(D) /\ Cardinality(D) = IF 0 > q - 1 THEN 0 ELSE q - 1 - 0 + 1
        BY FS_Interval
      <4> QED BY <4>1
    <3> HIDE DEF at, D, full
    <3>4. ExistsBijection(D, full)
      BY <3>2 DEF ExistsBijection
    <3> QED BY <3>3, <3>4, <2>8, FS_Bijection
  <2>11. \A p \in full : WireOf[p] = w
    <3>1. \A p \in full : PktOnWire(p) = w
      BY <2>6 DEF PktOnWire, PktHdr
    <3> QED BY <1>6, <2>8, <3>1
  <2>12. w \in Nat
    BY <1>1, <1>9
  <2>13. Total(WireOf, full) = q * w
    <3> HIDE DEF full, w
    <3> QED BY <2>8, <2>10, <2>11, <2>12, TotalConst
  <2>14. Total(WireOf, last) = IF t = 0 THEN 0 ELSE wire(t)
    <3>1. CASE t = 0
      BY <3>1, TotalEmpty
    <3>2. CASE t # 0
      <4>1. t > 0 /\ last = {UnschedPkt(m, q)}
        BY <2>2, <3>2
      <4>2. PktOnWire(UnschedPkt(m, q)) = wire(t)
        BY <2>7, <4>1 DEF PktOnWire, PktHdr
      <4>3. UnschedPkt(m, q) \in S
        BY <2>8, <4>1
      <4>4. Total(WireOf, {UnschedPkt(m, q)}) = WireOf[UnschedPkt(m, q)]
        BY <1>6, <4>3, TotalSingle
      <4> QED BY <1>6, <3>2, <4>1, <4>2, <4>3, <4>4
    <3> QED BY <3>1, <3>2
  <2>15. Total(WireOf, more) = Total(WireOf, full) + Total(WireOf, last)
    <3>1. \A p \in full \cup last : WireOf[p] \in Nat
      BY <1>6, <2>8
    <3> HIDE DEF full, last, more
    <3> QED BY <2>5, <2>8, <2>9, <3>1, TotalUnion
  <2>16. w = FullOnWire /\ FullOnWire \in Nat
    <3>1. OnWire(cap, UnschedHdr) =
            1 * FullOnWire + (IF 1 > 0 /\ 0 = 0 THEN 0 ELSE Short(0, UnschedHdr))
      <4>1. 0 \in 0 .. (MaxEthPayload - UnschedHdr) - 1 /\ cap = 1 * (MaxEthPayload - UnschedHdr) + 0
        BY <1>1
      <4> QED BY <4>1, OnWireParts
    <3> QED BY <3>1, WireAssumption DEF FullOnWire
  <2>17. wire(a + b) =
           (1 + q) * FullOnWire + (IF 1 + q > 0 /\ t = 0 THEN 0 ELSE Short(t, UnschedHdr))
    <3> DEFINE y == q * cap
    <3>1. (1 + q) * cap = cap + y
      <4> HIDE DEF cap
      <4> QED BY <1>1, <2>2
    <3>2. a + b = cap + y + t
      <4>1. b = y + t /\ a = cap
        BY <1>1, <1>11, <2>2
      <4>2. y \in Nat
        BY <2>2
      <4> HIDE DEF y, a, b, cap
      <4> QED BY <1>1, <4>1, <4>2
    <3>3. 1 + q \in Nat /\ a + b = (1 + q) * (MaxEthPayload - UnschedHdr) + t
      <4> HIDE DEF cap, y, a, b
      <4> QED BY <1>1, <3>1, <3>2
    <3>4. t \in 0 .. MaxEthPayload - UnschedHdr - 1
      BY <1>1, <2>2
    <3> HIDE DEF cap, a, b, y
    <3> QED BY <3>3, <3>4, OnWireParts
  <2>18. t # 0 => wire(t) = Short(t, UnschedHdr)
    <3>1. t \in 0 .. MaxEthPayload - UnschedHdr - 1 /\ t = 0 * (MaxEthPayload - UnschedHdr) + t
      BY <1>1, <2>2
    <3>2. OnWire(t, UnschedHdr) =
            0 * FullOnWire + (IF 0 > 0 /\ t = 0 THEN 0 ELSE Short(t, UnschedHdr))
      BY <3>1, OnWireParts
    <3> QED BY <2>16, <3>2, WireAssumption DEF Short
  <2>19. (1 + q) * FullOnWire = FullOnWire + q * FullOnWire /\ q * FullOnWire \in Nat
    BY <2>16
  <2>20. Short(t, UnschedHdr) \in Nat
    BY <1>1, <2>2, WireAssumption DEF Short
  <2>21. wire(a) = w
    BY <1>1, <1>11
  <2> HIDE DEF full, last, more, S, first, wire, cap, a, b, w
  <2>22. wire(a + b) = wire(a) + Total(WireOf, more)
    <3>1. CASE t = 0
      BY <2>13, <2>14, <2>15, <2>16, <2>17, <2>19, <2>21, <3>1
    <3>2. CASE t # 0
      BY <2>13, <2>14, <2>15, <2>16, <2>17, <2>18, <2>19, <2>20, <2>21, <3>2
    <3> QED BY <3>1, <3>2
  <2> QED BY <1>1, <1>7, <1>8, <2>22 DEF S, wire
<1> QED BY <1>1, <1>10, <1>11

-----------------------------------------------------------------------------
(* The counters of a message and its packets.                               *)

Sched(Q) == {p \in Q : p.type = "SCHED_DATA"}
Unsched(Q) == {p \in Q : p.type # "SCHED_DATA"}

\* The counter of the bytes in flight does not wrap around: it holds the
\* unscheduled bytes of a message, and a full window and one more grant.
Wide ==
  /\ MaxOutstanding + OnWire(GrantMax, SchedHdr) <= Word
  /\ \A m \in Msg : OnWire(TotalUnsched(m), UnschedHdr) < Word

\* The hypotheses under which bytes on the wire are counted exactly
Accounted == FullRequests /\ Wide

\* The packets Q of a message as inflightGrants lists them
Entries(Q) ==
  {<<p.first, p.len>> : p \in Sched(Q)} \cup
  (IF Unsched(Q) = {} THEN {} ELSE {<<0, Total(LenOf, Unsched(Q))>>})

\* The packets Q of message m that have still to arrive: no byte of them has been
\* left to be granted, and the InboundMessage counts them all.
PktsData(in, m, Q) ==
  /\ IsFiniteSet(Q)
  /\ \A p \in Q : p \in Pkt /\ p.msg = m /\ p.len > 0
  /\ Unsched(Q) \subseteq ReqUnschedDataPkts(m)
  /\ \A p \in Sched(Q) : /\ p.first >= TotalUnsched(m)
                         /\ p.first + p.len <= MsgSize[m] - in.bytesToGrant

ByteData(in, m, Q) ==
  /\ PktsData(in, m, Q)
  /\ in.bytesToGrant <= MsgSize[m] - TotalUnsched(m)
  /\ in.bytesToReceive <= MsgSize[m]
  /\ in.bytesToReceive = in.bytesToGrant + Total(LenOf, Q)
  /\ in.inflightGrants = Entries(Q)

WireData(in, Q) ==
  /\ in.totalBytesInFlight = Total(WireOf, Q)
  /\ Total(WireOf, Q) < Word
  /\ Sched(Q) # {} => Total(WireOf, Q) < MaxOutstanding + OnWire(GrantMax, SchedHdr)

\* The sums over some packets are numbers.
LEMMA PktSums ==
  ASSUME NEW Q, IsFiniteSet(Q), \A p \in Q : p \in Pkt
  PROVE  /\ Total(LenOf, Q) \in Nat /\ Total(WireOf, Q) \in Nat
         /\ \A p \in Q : LenOf[p] = p.len /\ p.len \in Nat /\ p.first \in Nat
         /\ \A p \in Q : WireOf[p] = PktOnWire(p) /\ PktOnWire(p) \in Nat
         /\ IsFiniteSet(Unsched(Q)) /\ IsFiniteSet(Sched(Q))
<1>1. /\ \A p \in Q : LenOf[p] = p.len /\ p.len \in Nat /\ p.first \in Nat
      /\ \A p \in Q : WireOf[p] = PktOnWire(p) /\ PktOnWire(p) \in Nat
  BY SizesType DEF Pkt
<1>2. IsFiniteSet(Unsched(Q)) /\ IsFiniteSet(Sched(Q))
  <2>1. Unsched(Q) \subseteq Q /\ Sched(Q) \subseteq Q
    BY DEF Unsched, Sched
  <2> QED BY <2>1, FS_Subset
<1> QED BY <1>1, <1>2, TotalType

\* A message that is opened has all its unscheduled packets in flight.
LEMMA OpenedData ==
  ASSUME Countable, NEW m \in Msg
  PROVE  /\ ByteData(Opened(m), m, ReqUnschedDataPkts(m))
         /\ Accounted => WireData(Opened(m), ReqUnschedDataPkts(m))
<1> DEFINE U == ReqUnschedDataPkts(m)
           n == TotalUnsched(m)
           wire == OnWire(n, UnschedHdr)
<1>1. /\ IsFiniteSet(U) /\ U \in SUBSET Pkt /\ U # {}
      /\ \A p \in U : p.msg = m /\ p.type # "SCHED_DATA" /\ p.len > 0
      /\ Total(LenOf, U) = n
  BY UnschedLens, UnschedPktsType
<1>2. n \in Nat /\ n <= MsgSize[m] /\ MsgSize[m] \in Nat /\ wire \in Nat
  BY UnschedBounds, MsgAssumption, OnWireType
<1>3. Opened(m) = [open |-> TRUE, bytesToGrant |-> MsgSize[m] - n, bytesToReceive |-> MsgSize[m],
                   totalBytesInFlight |-> wire % Word, inflightGrants |-> {<<0, n>>}]
  BY DEF Opened
<1>4. Accounted => Total(WireOf, U) = wire /\ wire < Word
  BY UnschedWires DEF Accounted, Wide
<1> HIDE DEF U, n, wire
<1>5. Unsched(U) = U /\ Sched(U) = {}
  BY <1>1 DEF Unsched, Sched
<1>6. Entries(U) = {<<0, n>>}
  BY <1>1, <1>5 DEF Entries
<1>7. PktsData(Opened(m), m, U)
  BY <1>1, <1>5 DEF PktsData, U
<1>8. ByteData(Opened(m), m, U)
  BY <1>1, <1>2, <1>3, <1>6, <1>7 DEF ByteData, n
<1>9. wire < Word => wire % Word = wire
  BY <1>2, WireAssumption
<1>10. Accounted => WireData(Opened(m), U)
  BY <1>3, <1>4, <1>5, <1>9 DEF WireData
<1> QED BY <1>8, <1>10 DEF U

\* A packet that arrives is among those counted, and is counted no more.
LEMMA FilledData ==
  ASSUME Countable, NEW m \in Msg, NEW in \in Inbound, NEW Q, ByteData(in, m, Q), NEW p \in Q
  PROVE  /\ ByteData(Filled(in, p), m, Q \ {p})
         /\ Filled(in, p).bytesToReceive = in.bytesToReceive - p.len
         /\ Answered(in, p) # {} /\ Answered(in, p) \subseteq in.inflightGrants
         /\ \A g \in Answered(in, p) : g[2] >= p.len
<1> DEFINE R == Q \ {p}
           n == TotalUnsched(m)
           out == Filled(in, p)
           T == Total(LenOf, Unsched(Q))
<1>1. /\ PktsData(in, m, Q) /\ in.bytesToGrant <= MsgSize[m] - n
      /\ in.bytesToReceive <= MsgSize[m]
      /\ in.bytesToReceive = in.bytesToGrant + Total(LenOf, Q)
      /\ in.inflightGrants = Entries(Q)
  BY DEF ByteData
<1>2. /\ IsFiniteSet(Q) /\ \A x \in Q : x \in Pkt /\ x.msg = m /\ x.len > 0
      /\ Unsched(Q) \subseteq ReqUnschedDataPkts(m)
      /\ \A x \in Sched(Q) : x.first >= n /\ x.first + x.len <= MsgSize[m] - in.bytesToGrant
  BY <1>1 DEF PktsData
<1>3. /\ Total(LenOf, Q) \in Nat /\ IsFiniteSet(Unsched(Q)) /\ IsFiniteSet(Sched(Q))
      /\ \A x \in Q : LenOf[x] = x.len /\ x.len \in Nat /\ x.first \in Nat
  BY <1>2, PktSums
<1>4. n \in Nat /\ n > 0 /\ MsgSize[m] \in Nat /\ MsgSize[m] < Word
  <2>1. ReqPart(m) \in Nat /\ ReqPart(m) > 0 /\ UnschedPart(m) \in Nat
    BY UnschedBounds, UnschedLens
  <2> QED BY <2>1, MsgAssumption DEF TotalUnsched, Countable
<1>5. p \in Pkt /\ p.len \in Nat /\ p.len > 0 /\ p.first \in Nat /\ p.msg = m
  BY <1>2, <1>3
<1>6. Total(LenOf, R) = Total(LenOf, Q) - p.len /\ p.len <= Total(LenOf, Q)
  <2>1. /\ Total(LenOf, Q \ {p}) = Total(LenOf, Q) - LenOf[p]
        /\ LenOf[p] <= Total(LenOf, Q)
    BY <1>2, <1>3, TotalRemove
  <2> QED BY <1>3, <2>1
<1>7. /\ in.bytesToGrant \in Nat /\ in.bytesToReceive \in Nat
      /\ out.bytesToGrant = in.bytesToGrant
      /\ out.bytesToReceive = (in.bytesToReceive - p.len) % Word
      /\ out.inflightGrants = (in.inflightGrants \ Answered(in, p)) \cup Unanswered(in, p)
  BY DEF Filled, Inbound
<1>8. out.bytesToReceive = in.bytesToReceive - p.len
  <2> DEFINE x == in.bytesToReceive - p.len
  <2>1. x \in Nat /\ x < Word
    <3> DEFINE t == Total(LenOf, Q)
               r == in.bytesToReceive
    <3>1. /\ t \in Nat /\ p.len \in Nat /\ p.len <= t /\ in.bytesToGrant \in Nat
          /\ r = in.bytesToGrant + t /\ r <= MsgSize[m] /\ MsgSize[m] < Word
          /\ MsgSize[m] \in Nat /\ Word \in Nat
      BY <1>1, <1>3, <1>4, <1>5, <1>6, <1>7, WireAssumption
    <3> HIDE DEF t, r
    <3>2. r - p.len \in Nat /\ r - p.len < Word
      BY <3>1
    <3> QED BY <3>2 DEF r
  <2>2. x % Word = x
    <3> HIDE DEF x
    <3> QED BY <2>1, WireAssumption
  <2> QED BY <1>7, <2>2
<1>9. Unsched(R) = Unsched(Q) \ {p} /\ Sched(R) = Sched(Q) \ {p} /\ IsFiniteSet(R)
  BY <1>2, FS_RemoveElement DEF Unsched, Sched
<1> HIDE DEF n, out
<1>10. PktsData(out, m, R)
  BY <1>2, <1>7, <1>9 DEF PktsData, n
<1>11. T \in Nat
  BY <1>2, <1>3, PktSums DEF Unsched
<1> HIDE DEF T, R
<1>12. /\ out.bytesToGrant <= MsgSize[m] - n /\ out.bytesToReceive <= MsgSize[m]
       /\ out.bytesToReceive = out.bytesToGrant + Total(LenOf, R)
  BY <1>1, <1>3, <1>4, <1>5, <1>6, <1>7, <1>8
<1>13. CASE p.type = "SCHED_DATA"
  <2>1. p \in Sched(Q) /\ Unsched(R) = Unsched(Q)
    BY <1>9, <1>13 DEF Sched, Unsched
  <2>2. Answered(in, p) = {<<p.first, p.len>>} /\ Unanswered(in, p) = {}
    BY <1>13 DEF Answered, Unanswered
  <2>3. <<p.first, p.len>> \in Entries(Q)
    BY <2>1 DEF Entries
  <2>4. \A x \in Sched(R) : <<x.first, x.len>> # <<p.first, p.len>>
    <3> SUFFICES ASSUME NEW x \in Sched(R), x.first = p.first, x.len = p.len
                 PROVE  FALSE
      OBVIOUS
    <3>1. x \in Pkt /\ x.msg = m /\ x.type = "SCHED_DATA" /\ x # p
      BY <1>2, <1>9 DEF Sched
    <3>2. x = p
      BY <1>5, <1>13, <3>1 DEF Pkt
    <3> QED BY <3>1, <3>2
  <2>5. p.first # 0
    BY <1>2, <1>4, <1>5, <2>1
  <2>6. Entries(R) = Entries(Q) \ {<<p.first, p.len>>}
    <3> DEFINE E == {<<x.first, x.len>> : x \in Sched(Q)}
               F == {<<x.first, x.len>> : x \in Sched(R)}
               V == IF Unsched(Q) = {} THEN {} ELSE {<<0, Total(LenOf, Unsched(Q))>>}
    <3>1. Entries(Q) = E \cup V /\ Entries(R) = F \cup V
      BY <2>1 DEF Entries
    <3>2. <<p.first, p.len>> \notin V
      BY <2>5
    <3>3. F = E \ {<<p.first, p.len>>}
      <4>1. \A x \in Sched(Q) : x = p \/ x \in Sched(R)
        BY <1>9
      <4>2. \A x \in Sched(R) : x \in Sched(Q)
        BY <1>9
      <4> QED BY <2>4, <4>1, <4>2
    <3> HIDE DEF E, F, V
    <3> QED BY <3>1, <3>2, <3>3
  <2>7. out.inflightGrants = Entries(R)
    BY <1>1, <1>7, <2>2, <2>6
  <2>8. \A g \in Answered(in, p) : g[2] >= p.len
    BY <1>5, <2>2
  <2>9. ByteData(out, m, R)
    BY <1>12, <1>10, <2>7 DEF ByteData, n
  <2>10. Answered(in, p) # {} /\ Answered(in, p) \subseteq in.inflightGrants
    BY <1>1, <2>2, <2>3
  <2> QED BY <1>8, <2>8, <2>9, <2>10 DEF R, out
<1>14. CASE p.type # "SCHED_DATA"
  <2>1. p \in Unsched(Q) /\ Sched(R) = Sched(Q)
    BY <1>9, <1>14 DEF Sched, Unsched
  <2>2. Entries(Q) = {<<x.first, x.len>> : x \in Sched(Q)} \cup {<<0, T>>}
    BY <2>1 DEF Entries, T
  <2>3. \A x \in Sched(Q) : x.first # 0
    <3>1. \A x \in Sched(Q) : x \in Q
      BY DEF Sched
    <3> QED BY <1>2, <1>3, <1>4, <3>1
  <2>4. Answered(in, p) = {<<0, T>>}
    <3>1. Answered(in, p) = {g \in Entries(Q) : g[1] = 0}
      BY <1>1, <1>14 DEF Answered
    <3> QED BY <2>2, <2>3, <3>1
  <2>5. Total(LenOf, Unsched(R)) = T - p.len /\ p.len <= T
    <3>1. \A x \in Unsched(Q) : LenOf[x] = x.len /\ LenOf[x] \in Nat
      BY <1>3 DEF Unsched
    <3> DEFINE W == Unsched(Q)
    <3> HIDE DEF W
    <3>2. Total(LenOf, W \ {p}) = Total(LenOf, W) - LenOf[p] /\ LenOf[p] <= Total(LenOf, W)
      BY <1>3, <2>1, <3>1, TotalRemove DEF W
    <3> QED BY <1>3, <1>9, <3>2 DEF T, W
  <2>6. Unsched(R) = {} <=> T - p.len = 0
    <3>1. \A x \in Unsched(R) : LenOf[x] \in Nat /\ LenOf[x] > 0
      BY <1>2, <1>3, <1>9 DEF Unsched
    <3>2. IsFiniteSet(Unsched(R))
      BY <1>3, <1>9, FS_RemoveElement
    <3> QED BY <2>5, <3>1, <3>2, TotalSome
  <2>7. Unanswered(in, p) = IF T > p.len THEN {<<0, T - p.len>>} ELSE {}
    <3>1. Unanswered(in, p) =
            {<<0, g[2] - p.len>> : g \in {x \in Answered(in, p) : x[2] > p.len}}
      BY <1>14 DEF Unanswered
    <3>2. CASE T > p.len
      BY <2>4, <3>1, <3>2
    <3>3. CASE ~(T > p.len)
      BY <2>4, <3>1, <3>3
    <3> QED BY <3>2, <3>3
  <2>8. T > p.len <=> T - p.len # 0
    BY <1>5, <1>11, <2>5
  <2>9. Entries(R) = {<<x.first, x.len>> : x \in Sched(Q)}
                       \cup (IF T > p.len THEN {<<0, T - p.len>>} ELSE {})
    BY <2>1, <2>5, <2>6, <2>8 DEF Entries
  <2>10. out.inflightGrants = Entries(R)
    <3> DEFINE E == {<<x.first, x.len>> : x \in Sched(Q)}
    <3>1. <<0, T>> \notin E
      BY <2>3
    <3> HIDE DEF E
    <3>2. (E \cup {<<0, T>>}) \ {<<0, T>>} = E
      BY <3>1
    <3> QED BY <1>1, <1>7, <2>2, <2>4, <2>7, <2>9, <3>2 DEF E
  <2>11. <<0, T>> \in Entries(Q) /\ \A g \in Answered(in, p) : g[2] >= p.len
    BY <1>5, <1>11, <2>2, <2>4, <2>5
  <2>12. ByteData(out, m, R)
    BY <1>12, <1>10, <2>10 DEF ByteData, n
  <2>13. Answered(in, p) # {} /\ Answered(in, p) \subseteq in.inflightGrants
    BY <1>1, <2>4, <2>11
  <2> QED BY <1>8, <2>11, <2>12, <2>13 DEF R, out
<1> QED BY <1>13, <1>14

LEMMA FilledWire ==
  ASSUME NEW m \in Msg, NEW in \in Inbound, NEW Q, PktsData(in, m, Q), WireData(in, Q), NEW p \in Q
  PROVE  WireData(Filled(in, p), Q \ {p})
<1> DEFINE R == Q \ {p}
           out == Filled(in, p)
           T == Total(WireOf, Q)
           w == PktOnWire(p)
           limit == MaxOutstanding + OnWire(GrantMax, SchedHdr)
<1>1. IsFiniteSet(Q) /\ \A x \in Q : x \in Pkt
  BY DEF PktsData
<1>2. T \in Nat /\ w \in Nat /\ WireOf[p] = w /\ \A x \in Q : WireOf[x] \in Nat
  BY <1>1, PktSums
<1>3. in.totalBytesInFlight = T /\ T < Word /\ (Sched(Q) # {} => T < limit)
  BY DEF WireData
<1>4. out.totalBytesInFlight = (T - w) % Word
  BY <1>3 DEF Filled, Inbound
<1>5. Total(WireOf, R) = T - w /\ w <= T
  BY <1>1, <1>2, TotalRemove
<1>6. limit \in Nat
  BY OnWireType, SizeAssumption, SchedAssumption
<1>7. Sched(R) # {} => Sched(Q) # {}
  BY DEF Sched
<1> HIDE DEF R, out, T, w, limit
<1>8. (T - w) % Word = T - w /\ T - w < Word
  BY <1>2, <1>3, <1>5, WireAssumption
<1>9. Sched(R) # {} => T - w < limit
  BY <1>2, <1>3, <1>5, <1>6, <1>7
<1> QED BY <1>4, <1>5, <1>8, <1>9 DEF WireData, R, out, limit

\* The packet that a grant for sender s will bring
Bringing(r, s) == SchedPktFor(GrantOf(r, s))

\* A grant brings a packet of bytes that no packet carries yet.
LEMMA GrantedData ==
  ASSUME Countable, NEW r \in Receivers, Bounds(r.inbnd), NEW s \in Host, r.toGrant[s] # <<>>,
         NEW Q, r.inbnd[Top(r, s)].bytesToGrant > 0,
         ByteData(r.inbnd[Top(r, s)], Top(r, s), Q)
  PROVE  /\ Bringing(r, s) \notin Q /\ Bringing(r, s) \in Pkt
         /\ Bringing(r, s).msg = Top(r, s) /\ Bringing(r, s).type = "SCHED_DATA"
         /\ PktOnWire(Bringing(r, s)) = OnWire(GrantSize(r, s), SchedHdr)
         /\ ByteData(Granted(r, s), Top(r, s), Q \cup {Bringing(r, s)})
         /\ Granted(r, s).bytesToReceive = r.inbnd[Top(r, s)].bytesToReceive
         /\ Granted(r, s).open = r.inbnd[Top(r, s)].open
<1> SUFFICES ASSUME NEW m, m = Top(r, s), NEW in, in = r.inbnd[m], in.bytesToGrant > 0,
                    ByteData(in, m, Q), NEW q, q = Bringing(r, s)
             PROVE  /\ q \notin Q /\ q \in Pkt /\ q.msg = m /\ q.type = "SCHED_DATA"
                    /\ PktOnWire(q) = OnWire(GrantSize(r, s), SchedHdr)
                    /\ ByteData(Granted(r, s), m, Q \cup {q})
                    /\ Granted(r, s).bytesToReceive = in.bytesToReceive
                    /\ Granted(r, s).open = in.open
  OBVIOUS
<1> DEFINE n == GrantSize(r, s)
           out == Granted(r, s)
           R == Q \cup {q}
           first == MsgSize[m] - in.bytesToGrant
<1>1. /\ m \in Msg /\ in \in Inbound /\ n \in Nat /\ n <= in.bytesToGrant
      /\ GrantOf(r, s) \in Grant
  BY GrantType
<1>2. n > 0
  BY SizeAssumption DEF GrantSize, Lesser
<1>3. GrantOf(r, s) = [msg |-> m, first |-> first, len |-> n]
  BY DEF GrantOf
<1>4. q = [msg |-> m, type |-> "SCHED_DATA", first |-> first, len |-> n]
  BY <1>3 DEF SchedPktFor, Bringing
<1>5. first \in Nat
  BY <1>1, <1>3 DEF Grant
<1>6. q \in Pkt /\ q.msg = m /\ q.type = "SCHED_DATA" /\ q.first = first /\ q.len = n
  BY <1>1, <1>4, <1>5 DEF Pkt, PktType
<1>7. PktOnWire(q) = OnWire(n, SchedHdr)
  BY <1>6 DEF PktOnWire, PktHdr
<1>8. /\ in.bytesToGrant \in Nat /\ in.bytesToReceive \in Nat
      /\ out.bytesToGrant = in.bytesToGrant - n /\ out.bytesToReceive = in.bytesToReceive
      /\ out.open = in.open
      /\ out.inflightGrants = in.inflightGrants \cup {<<first, n>>}
  BY <1>1, <1>3 DEF Granted, Inbound
<1>9. /\ PktsData(in, m, Q) /\ in.bytesToGrant <= MsgSize[m] - TotalUnsched(m)
      /\ in.bytesToReceive <= MsgSize[m]
      /\ in.bytesToReceive = in.bytesToGrant + Total(LenOf, Q)
      /\ in.inflightGrants = Entries(Q)
  BY DEF ByteData
<1>10. /\ IsFiniteSet(Q) /\ \A x \in Q : x \in Pkt /\ x.msg = m /\ x.len > 0
       /\ Unsched(Q) \subseteq ReqUnschedDataPkts(m)
       /\ \A x \in Sched(Q) : x.first >= TotalUnsched(m)
                              /\ x.first + x.len <= MsgSize[m] - in.bytesToGrant
  BY <1>9 DEF PktsData
<1>11. /\ Total(LenOf, Q) \in Nat
       /\ \A x \in Q : LenOf[x] = x.len /\ x.len \in Nat /\ x.first \in Nat
  BY <1>10, PktSums
<1>12. MsgSize[m] \in Nat /\ TotalUnsched(m) \in Nat
  BY <1>1, MsgAssumption, UnschedBounds
<1> HIDE DEF n, out, first
<1>13. q \notin Q
  <2>1. SUFFICES ASSUME q \in Q
                 PROVE  FALSE
    OBVIOUS
  <2>2. q \in Sched(Q)
    BY <1>6, <2>1 DEF Sched
  <2>3. first + n <= first
    BY <1>6, <1>10, <2>2 DEF first
  <2> QED BY <1>1, <1>2, <1>5, <2>3
<1>14. Total(LenOf, R) = Total(LenOf, Q) + n /\ IsFiniteSet(R)
  <2>1. LenOf[q] = n
    BY <1>6, SizesType
  <2>2. \A x \in Q \cup {q} : LenOf[x] \in Nat
    BY <1>1, <1>11, <2>1
  <2>3. Total(LenOf, Q \cup {q}) = Total(LenOf, Q) + LenOf[q]
    BY <1>10, <1>13, <2>2, TotalAdd
  <2>4. IsFiniteSet(R)
    BY <1>10, FS_AddElement
  <2> QED BY <2>1, <2>3, <2>4
<1>15. Unsched(R) = Unsched(Q) /\ Sched(R) = Sched(Q) \cup {q}
  BY <1>6 DEF Unsched, Sched
<1>16. Entries(R) = Entries(Q) \cup {<<first, n>>}
  <2> DEFINE V == IF Unsched(Q) = {} THEN {} ELSE {<<0, Total(LenOf, Unsched(Q))>>}
             E(S) == {<<x.first, x.len>> : x \in S}
  <2>1. Entries(Q) = E(Sched(Q)) \cup V /\ Entries(R) = E(Sched(R)) \cup V
    BY <1>15 DEF Entries
  <2>2. E(Sched(R)) = E(Sched(Q)) \cup {<<first, n>>}
    BY <1>6, <1>15
  <2> HIDE DEF V, E
  <2> QED BY <2>1, <2>2
<1> HIDE DEF R
<1>17. PktsData(out, m, R)
  <2>1. first = MsgSize[m] - in.bytesToGrant
    BY DEF first
  <2>2. \A x \in Sched(R) : /\ x.first >= TotalUnsched(m)
                            /\ x.first + x.len <= MsgSize[m] - out.bytesToGrant
    <3> TAKE x \in Sched(R)
    <3>1. CASE x = q
      BY <1>1, <1>6, <1>8, <1>9, <1>12, <2>1, <3>1
    <3>2. CASE x # q
      <4>1. x \in Sched(Q) /\ x \in Q
        BY <1>15, <3>2 DEF Sched
      <4>2. /\ x.first >= TotalUnsched(m) /\ x.first + x.len <= MsgSize[m] - in.bytesToGrant
            /\ x.first \in Nat /\ x.len \in Nat
        BY <1>10, <1>11, <4>1
      <4>3. MsgSize[m] - in.bytesToGrant <= MsgSize[m] - out.bytesToGrant
        BY <1>1, <1>8, <1>12
      <4> DEFINE y == x.first + x.len
                 z == MsgSize[m] - in.bytesToGrant
                 u == MsgSize[m] - out.bytesToGrant
      <4>4. y \in Int /\ z \in Int /\ u \in Int
        BY <1>1, <1>8, <1>12, <4>2
      <4>5. y <= z /\ z <= u
        BY <4>2, <4>3
      <4> HIDE DEF y, z, u
      <4>6. y <= u
        BY <4>4, <4>5
      <4> QED BY <4>2, <4>6 DEF y, u
    <3> QED BY <3>1, <3>2
  <2>3. \A x \in R : x \in Pkt /\ x.msg = m /\ x.len > 0
    BY <1>2, <1>6, <1>10 DEF R
  <2> QED BY <1>10, <1>14, <1>15, <2>2, <2>3 DEF PktsData
<1>18. ByteData(out, m, R)
  <2>1. out.bytesToGrant <= MsgSize[m] - TotalUnsched(m)
    BY <1>1, <1>8, <1>9, <1>12
  <2>2. out.bytesToReceive = out.bytesToGrant + Total(LenOf, R)
    BY <1>1, <1>8, <1>9, <1>11, <1>14
  <2> QED BY <1>8, <1>9, <1>16, <1>17, <2>1, <2>2 DEF ByteData
<1> QED BY <1>6, <1>7, <1>8, <1>13, <1>18 DEF R, out, n

\* It is sent when the window has room, and fills it by one packet at most.
LEMMA GrantedWire ==
  ASSUME Countable, NEW r \in Receivers, Bounds(r.inbnd), NEW s \in Host, r.toGrant[s] # <<>>,
         NEW Q, r.inbnd[Top(r, s)].bytesToGrant > 0,
         ByteData(r.inbnd[Top(r, s)], Top(r, s), Q),
         Wide, WireData(r.inbnd[Top(r, s)], Q), ~WindowFull(r.inbnd[Top(r, s)])
  PROVE  WireData(Granted(r, s), Q \cup {Bringing(r, s)})
<1> DEFINE m == Top(r, s)
           in == r.inbnd[m]
           q == Bringing(r, s)
           R == Q \cup {q}
           out == Granted(r, s)
           T == Total(WireOf, Q)
           w == OnWire(GrantSize(r, s), SchedHdr)
           most == OnWire(GrantMax, SchedHdr)
<1>1. q \notin Q /\ q \in Pkt /\ PktOnWire(q) = w
  BY GrantedData
<1>2. in \in Inbound /\ GrantSize(r, s) \in Nat /\ GrantSize(r, s) <= GrantMax
  BY GrantType
<1>3. w \in Nat /\ most \in Nat /\ w <= most
  BY <1>2, OnWireType, OnWireGrant, SizeAssumption
<1>4. IsFiniteSet(Q) /\ \A x \in Q : x \in Pkt
  BY DEF ByteData, PktsData
<1>5. T \in Nat /\ \A x \in Q : WireOf[x] \in Nat
  BY <1>4, PktSums
<1>6. WireOf[q] = w
  BY <1>1, SizesType
<1>7. Total(WireOf, R) = T + w
  <2>1. \A x \in Q \cup {q} : WireOf[x] \in Nat
    BY <1>3, <1>5, <1>6
  <2> QED BY <1>1, <1>4, <1>6, <2>1, TotalAdd
<1> HIDE DEF q
<1>8. in.totalBytesInFlight = T /\ T < MaxOutstanding
  BY <1>5, SchedAssumption DEF WireData, WindowFull
<1>9. out.totalBytesInFlight = (T + w) % Word
  BY <1>2, <1>8 DEF Granted, Inbound
<1>10. MaxOutstanding + most <= Word /\ MaxOutstanding \in Nat
  BY SchedAssumption DEF Wide
<1> HIDE DEF R, out, T, w, most
<1>11. T + w < MaxOutstanding + most /\ T + w < Word
  BY <1>3, <1>5, <1>8, <1>10, WireAssumption
<1>12. (T + w) % Word = T + w
  BY <1>3, <1>5, <1>11, WireAssumption
<1> QED BY <1>7, <1>9, <1>11, <1>12 DEF WireData, R, out, most, q

\* What inflightUnschedBytes is raised by for the first packet of a message is what
\* its other packets take of the wire, whichever packet comes first.
LEMMA OthersAre ==
  ASSUME Countable, FullRequests, NEW m \in Msg, NEW p \in ReqUnschedDataPkts(m),
         NEW others, others = TotalUnsched(m) - p.len
  PROVE  /\ others > 0 => OnWire(others, UnschedHdr) = Total(WireOf, ReqUnschedDataPkts(m) \ {p})
         /\ ~(others > 0) => Total(WireOf, ReqUnschedDataPkts(m) \ {p}) = 0
<1> DEFINE U == ReqUnschedDataPkts(m)
           cap == MaxUnschedData
           a == ReqPart(m)
           b == UnschedPart(m)
           n == TotalUnsched(m)
           wire(x) == OnWire(x, UnschedHdr)
<1>1. /\ IsFiniteSet(U) /\ U \in SUBSET Pkt /\ Total(LenOf, U) = n
      /\ \A x \in U : x.msg = m /\ x.type # "SCHED_DATA" /\ x.len > 0
  BY UnschedLens
<1>2. Total(WireOf, U) = wire(n)
  BY UnschedWires
<1>3. /\ a \in Nat /\ a > 0 /\ b \in Nat /\ n = a + b
      /\ cap \in Nat \ {0} /\ cap = MaxEthPayload - UnschedHdr
      /\ b > 0 => a = cap
  BY UnschedBounds, UnschedLens, SizeAssumption, WireAssumption DEF TotalUnsched, FullRequests
<1>4. /\ \A x \in U : LenOf[x] = x.len /\ x.len \in Nat
      /\ \A x \in U : WireOf[x] = PktOnWire(x) /\ PktOnWire(x) \in Nat
  BY <1>1, SizesType
<1>5. PktOnWire(p) = wire(p.len)
  BY <1>1 DEF PktOnWire, PktHdr
<1>6. /\ Total(LenOf, U \ {p}) = others /\ p.len <= n /\ others \in Nat
      /\ Total(WireOf, U \ {p}) = wire(n) - wire(p.len)
  <2> HIDE DEF U, wire
  <2>1. /\ Total(LenOf, U \ {p}) = Total(LenOf, U) - LenOf[p] /\ LenOf[p] <= Total(LenOf, U)
        /\ Total(WireOf, U \ {p}) = Total(WireOf, U) - WireOf[p]
    BY <1>1, <1>4, TotalRemove DEF U
  <2> QED BY <1>1, <1>2, <1>3, <1>4, <1>5, <2>1 DEF U
<1>7. CASE ~(others > 0)
  <2> DEFINE R == U \ {p}
  <2>1. IsFiniteSet(R)
    BY <1>1, FS_RemoveElement
  <2>2. \A x \in R : LenOf[x] \in Nat /\ LenOf[x] > 0
    BY <1>1, <1>4
  <2>3. Total(LenOf, R) = 0
    BY <1>6, <1>7
  <2> HIDE DEF R
  <2>4. R = {}
    BY <2>1, <2>2, <2>3, TotalSome
  <2>5. Total(WireOf, R) = 0
    BY <2>4, TotalEmpty
  <2> QED BY <1>7, <2>5 DEF R
<1>8. CASE others > 0
  <2>1. \A x \in Nat : wire(x) \in Nat
    BY OnWireType
  <2>2. p.len \in Nat /\ p.len > 0 /\ n \in Nat /\ n = others + p.len
    BY <1>1, <1>3, <1>4, <1>6
  <2>3. wire(n) = wire(others) + wire(p.len)
    <3>1. CASE p.len = cap
      <4>1. cap = 1 * (MaxEthPayload - UnschedHdr)
        BY <1>3
      <4>2. OnWire(cap + others, UnschedHdr) = OnWire(cap, UnschedHdr) + OnWire(others, UnschedHdr)
        <5> HIDE DEF cap
        <5> QED BY <1>6, <1>8, <4>1, OnWireAdd
      <4>3. n = cap + others
        BY <2>2, <1>3, <1>6, <3>1
      <4> QED BY <1>3, <1>6, <2>1, <3>1, <4>2, <4>3
    <3>2. CASE p.len # cap
      <4>1. p # ReqPkt(m)
        <5> SUFFICES ASSUME p = ReqPkt(m)
                     PROVE  FALSE
          OBVIOUS
        <5>1. p.len = a
          BY DEF ReqPkt
        <5> QED BY <1>3, <1>8, <3>2, <5>1, <1>6
      <4>2. PICK k \in 0 .. b : k * cap < b /\ p = UnschedPkt(m, k)
        BY <4>1 DEF ReqUnschedDataPkts
      <4> DEFINE x == k * cap
      <4>3. p.len = Lesser(cap, b - x)
        BY <4>2 DEF UnschedPkt
      <4>4. x \in Nat /\ k \in Nat /\ x < b /\ (k + 1) * cap = x + cap
        <5> HIDE DEF cap, b
        <5> QED BY <1>3, <4>2
      <4> HIDE DEF x
      <4>5. p.len = b - x /\ others = cap + x
        <5> HIDE DEF a, b, n, cap
        <5>1. p.len = b - x /\ b > 0
          BY <1>3, <3>2, <4>3, <4>4 DEF Lesser
        <5> QED BY <1>3, <4>4, <5>1 DEF n
      <4>6. others = (k + 1) * (MaxEthPayload - UnschedHdr) /\ k + 1 \in Nat \ {0}
        <5> HIDE DEF cap
        <5> QED BY <1>3, <4>4, <4>5
      <4>7. OnWire(others + p.len, UnschedHdr)
              = OnWire(others, UnschedHdr) + OnWire(p.len, UnschedHdr)
        <5> DEFINE l == p.len
        <5> HIDE DEF l
        <5>1. l \in Nat /\ l > 0
          BY <2>2 DEF l
        <5>2. OnWire(others + l, UnschedHdr) = OnWire(others, UnschedHdr) + OnWire(l, UnschedHdr)
          BY <4>6, <5>1, OnWireAdd
        <5> QED BY <5>2 DEF l
      <4> QED BY <2>2, <4>7
    <3> QED BY <3>1, <3>2
  <2>4. wire(others) \in Nat /\ wire(p.len) \in Nat
    BY <1>6, <2>1, <2>2
  <2> HIDE DEF wire
  <2> QED BY <1>6, <1>8, <2>3, <2>4 DEF wire
<1> QED BY <1>7, <1>8

-----------------------------------------------------------------------------
(* The messages of a receiver and the packets that have still to arrive.    *)

PktsOf(P, m) == {p \in P : p.msg = m}
OpenPkts(r, P) == {p \in P : r.inbnd[p.msg].open}

\* The packets that the grants of this event will bring, and all that have still
\* to arrive when those of A have
Ours(r) == {SchedPktFor(g) : g \in r.grants}
Pending(r, A) == A \cup Ours(r)

\* A message is open from its first packet to its last one.
MesgData(in, delivered, m, Q) ==
  IF in.open
    THEN /\ ByteData(in, m, Q) /\ in.bytesToReceive > 0 /\ delivered = 0
         /\ Accounted => WireData(in, Q)
    ELSE \/ delivered = 0 /\ Q = ReqUnschedDataPkts(m)
         \/ delivered = 1 /\ Q = {}

Totals(r, P) ==
  /\ r.inflightSched = Total(WireOf, Sched(OpenPkts(r, P)))
  /\ r.inflightUnsched = Total(WireOf, Unsched(OpenPkts(r, P)))

DataOf(r, P) ==
  /\ P \in SUBSET Pkt /\ IsFiniteSet(P)
  /\ \A m \in Msg : MesgData(r.inbnd[m], r.delivered[m], m, PktsOf(P, m))
  /\ Accounted => Totals(r, P)

\* The receivers whose counters are those of the packets A and of their grants
Sound(A) == {r \in Filers : A \cap Ours(r) = {} /\ DataOf(r, Pending(r, A))}

\* The message that is filed first has bytes to be granted.
LEMMA HeadWaiting ==
  ASSUME NEW r \in Filers, NEW s \in Host, r.toGrant[s] # <<>>
  PROVE  /\ Top(r, s) \in Msg /\ MsgSrc[Top(r, s)] = s
         /\ r.inbnd[Top(r, s)].bytesToGrant > 0 /\ r.inbnd[Top(r, s)].open
<1> DEFINE f == r.toGrant[s]
<1>1. f \in Seq(Msg) /\ f # <<>> /\ Elements(f) = Waiting(r, s)
  BY DEF Filers, Receivers, Files, Filing, FileExact
<1>2. Head(f) \in Elements(f)
  <2> HIDE DEF f
  <2>1. 1 \in DOMAIN f /\ Head(f) = f[1]
    BY <1>1
  <2> QED BY <2>1 DEF Elements
<1>3. Top(r, s) \in Msg /\ MsgSrc[Top(r, s)] = s /\ r.inbnd[Top(r, s)].bytesToGrant > 0
  BY <1>1, <1>2 DEF Waiting, Top
<1>4. r.inbnd[Top(r, s)].open
  BY <1>3 DEF Filers, Bounds
<1> QED BY <1>3, <1>4

LEMMA DataSame ==
  ASSUME NEW r, NEW q, NEW P, DataOf(r, P), q.inbnd = r.inbnd, q.delivered = r.delivered,
         q.inflightSched = r.inflightSched, q.inflightUnsched = r.inflightUnsched
  PROVE  DataOf(q, P)
BY DEF DataOf, Totals, OpenPkts

\* A grant keeps the counters: its bytes are of no other packet.
LEMMA GrantedSound ==
  ASSUME Countable, NEW A, NEW r \in Sound(A), NEW s \in Host, r.toGrant[s] # <<>>,
         ~WindowFull(r.inbnd[Top(r, s)]),
         NEW q \in Filers, q.inbnd = InbndGranted(r, s), q.delivered = r.delivered,
         q.grants = r.grants \cup {GrantOf(r, s)}, q.inflightUnsched = r.inflightUnsched,
         q.inflightSched = r.inflightSched + OnWire(GrantSize(r, s), SchedHdr)
  PROVE  q \in Sound(A)
<1> DEFINE m == Top(r, s)
           in == r.inbnd[m]
           P == Pending(r, A)
           R == Pending(q, A)
           b == Bringing(r, s)
           w == OnWire(GrantSize(r, s), SchedHdr)
<1>1. /\ r \in Filers /\ r \in Receivers /\ Bounds(r.inbnd) /\ A \cap Ours(r) = {}
      /\ DataOf(r, P)
  BY DEF Sound, Filers
<1>2. m \in Msg /\ in.bytesToGrant > 0 /\ in.open
  BY <1>1, HeadWaiting
<1>3. /\ P \in SUBSET Pkt /\ IsFiniteSet(P) /\ (Accounted => Totals(r, P))
      /\ \A k \in Msg : MesgData(r.inbnd[k], r.delivered[k], k, PktsOf(P, k))
  BY <1>1 DEF DataOf
<1>4. /\ ByteData(in, m, PktsOf(P, m)) /\ in.bytesToReceive > 0 /\ r.delivered[m] = 0
      /\ Accounted => WireData(in, PktsOf(P, m))
  BY <1>2, <1>3 DEF MesgData
<1>5. /\ b \notin PktsOf(P, m) /\ b \in Pkt /\ b.msg = m /\ b.type = "SCHED_DATA"
      /\ PktOnWire(b) = w /\ ByteData(Granted(r, s), m, PktsOf(P, m) \cup {b})
      /\ Granted(r, s).bytesToReceive = in.bytesToReceive /\ Granted(r, s).open = in.open
  BY <1>1, <1>2, <1>4, GrantedData
<1>6. Accounted => WireData(Granted(r, s), PktsOf(P, m) \cup {b})
  <2> HIDE DEF b, P
  <2> QED BY <1>1, <1>2, <1>4, GrantedWire DEF Accounted, b
<1>7. \A k \in Msg : q.inbnd[k] = IF k = m THEN Granted(r, s) ELSE r.inbnd[k]
  BY <1>1, <1>2 DEF InbndGranted, Receivers, Inbounds
<1>8. Ours(q) = Ours(r) \cup {b}
  BY DEF Ours, Bringing
<1>9. b \notin P /\ R = P \cup {b}
  BY <1>5, <1>8 DEF PktsOf, Pending
<1>10. A \cap Ours(q) = {}
  BY <1>1, <1>8, <1>9 DEF Pending
<1> HIDE DEF m, in, P, R, b, w
<1>11. /\ PktsOf(R, m) = PktsOf(P, m) \cup {b}
       /\ \A k \in Msg : k # m => PktsOf(R, k) = PktsOf(P, k)
  BY <1>5, <1>9 DEF PktsOf
<1>12. R \in SUBSET Pkt /\ IsFiniteSet(R)
  BY <1>3, <1>5, <1>9, FS_AddElement
<1>13. ASSUME NEW k \in Msg
       PROVE  MesgData(q.inbnd[k], q.delivered[k], k, PktsOf(R, k))
  <2>1. CASE k = m
    BY <1>2, <1>4, <1>5, <1>6, <1>7, <1>11, <2>1 DEF MesgData
  <2>2. CASE k # m
    BY <1>3, <1>7, <1>11, <2>2
  <2> QED BY <2>1, <2>2
<1>14. Accounted => Totals(q, R)
  <2> SUFFICES ASSUME Accounted
               PROVE  Totals(q, R)
    OBVIOUS
  <2> DEFINE E == OpenPkts(r, P)
             S == Sched(E)
  <2>1. \A k \in Msg : q.inbnd[k].open = r.inbnd[k].open
    BY <1>5, <1>7 DEF in
  <2>2. \A x \in P : x.msg \in Msg
    BY <1>3 DEF Pkt
  <2>3. OpenPkts(q, R) = E \cup {b}
    BY <1>2, <1>5, <1>9, <2>1, <2>2 DEF OpenPkts, in
  <2>4. Sched(OpenPkts(q, R)) = S \cup {b} /\ Unsched(OpenPkts(q, R)) = Unsched(E)
    BY <1>5, <2>3 DEF Sched, Unsched
  <2>5. S \subseteq P /\ b \notin S /\ IsFiniteSet(S)
    <3>1. S \subseteq P
      BY DEF Sched, OpenPkts
    <3> HIDE DEF S
    <3> QED BY <1>3, <1>9, <3>1, FS_Subset
  <2>6. \A x \in S \cup {b} : WireOf[x] \in Nat
    <3> HIDE DEF S
    <3> QED BY <1>3, <1>5, <2>5, SizesType
  <2>7. Total(WireOf, S \cup {b}) = Total(WireOf, S) + WireOf[b]
    <3> HIDE DEF S
    <3> QED BY <2>5, <2>6, TotalAdd
  <2>8. WireOf[b] = w
    BY <1>5, SizesType
  <2>9. Totals(r, P)
    BY <1>3
  <2> QED BY <2>4, <2>7, <2>8, <2>9 DEF Totals, w
<1>15. DataOf(q, R)
  BY <1>12, <1>13, <1>14 DEF DataOf
<1> QED BY <1>10, <1>15 DEF Sound, R

LEMMA SoundClosed ==
  ASSUME Countable, NEW A
  PROVE  Closed(Sound(A))
<1>1. \A r \in Sound(A) : r \in Filers /\ r \in Receivers /\ Bounds(r.inbnd)
  BY DEF Sound, Filers
<1>2. ASSUME NEW r \in Sound(A), NEW q \in Filers, SameBytes(r, q)
      PROVE  q \in Sound(A)
  <2>1. A \cap Ours(r) = {} /\ DataOf(r, Pending(r, A))
    BY DEF Sound
  <2>2. Ours(q) = Ours(r) /\ Pending(q, A) = Pending(r, A)
    BY <1>2 DEF SameBytes, Ours, Pending
  <2>3. DataOf(q, Pending(r, A))
    BY <1>2, <2>1, DataSame DEF SameBytes
  <2> QED BY <2>1, <2>2, <2>3 DEF Sound
<1>3. ASSUME NEW r \in Sound(A), NEW q \in Receivers, SameBytes(r, q)
      PROVE  q \in Sound(A)
  <2>1. q \in Filers
    BY <1>1, <1>3, FilersClosed DEF Closed
  <2> QED BY <1>2, <1>3, <2>1
<1>4. ASSUME NEW r \in Sound(A), NEW s \in Host, NEW prio \in 0 .. AllPrio
      PROVE  SendAndScheduleGrant(r, s, prio) \in Sound(A)
  <2> DEFINE q == SendAndScheduleGrant(r, s, prio)
  <2>1. q \in Filers
    BY <1>1, FilersClosed DEF Closed
  <2>2. GrantStep(r, s, q)
    BY <1>1, SendStep
  <2> HIDE DEF q
  <2>3. CASE SameBytes(r, q)
    BY <1>2, <2>1, <2>3 DEF q
  <2>4. CASE ~SameBytes(r, q)
    <3>1. /\ r.toGrant[s] # <<>> /\ ~WindowFull(r.inbnd[Top(r, s)])
          /\ q.inbnd = InbndGranted(r, s) /\ q.delivered = r.delivered
          /\ q.grants = r.grants \cup {GrantOf(r, s)}
          /\ q.inflightUnsched = r.inflightUnsched
          /\ q.inflightSched = r.inflightSched + OnWire(GrantSize(r, s), SchedHdr)
      BY <2>2, <2>4 DEF GrantStep
    <3>2. q \in Sound(A)
      BY <2>1, <3>1, GrantedSound
    <3> QED BY <3>2 DEF q
  <2> QED BY <2>3, <2>4
<1> QED BY <1>1, <1>3, <1>4 DEF Closed

-----------------------------------------------------------------------------
(* The arrival of a packet keeps the counters.                              *)

\* The message of a packet that arrives is incomplete and was not handed over.
LEMMA PreviousData ==
  ASSUME Countable, NEW A, NEW r \in Sound(A), NEW p \in A, NEW m, m = p.msg,
         NEW Q, Q = PktsOf(Pending(r, A), m)
  PROVE  /\ p \in Pkt /\ m \in Msg /\ p \in Q
         /\ Previous(r, p) \in Inbound /\ Previous(r, p).open
         /\ ByteData(Previous(r, p), m, Q)
         /\ Accounted => WireData(Previous(r, p), Q)
         /\ r.delivered[m] = 0
         /\ ~r.inbnd[m].open => Q = ReqUnschedDataPkts(m)
<1> DEFINE P == Pending(r, A)
<1>1. /\ r \in Receivers /\ P \in SUBSET Pkt
      /\ \A k \in Msg : MesgData(r.inbnd[k], r.delivered[k], k, PktsOf(P, k))
  BY DEF Sound, Filers, DataOf
<1>2. p \in P
  BY DEF Pending
<1>3. p \in Pkt /\ m \in Msg /\ p \in Q
  BY <1>1, <1>2 DEF Pkt, PktsOf
<1>4. MesgData(r.inbnd[m], r.delivered[m], m, Q)
  BY <1>1, <1>3
<1>5. CASE r.inbnd[m].open
  <2>1. Previous(r, p) = r.inbnd[m] /\ r.inbnd[m] \in Inbound
    BY <1>1, <1>3, <1>5 DEF Previous, Receivers, Inbounds
  <2> QED BY <1>3, <1>4, <1>5, <2>1 DEF MesgData
<1>6. CASE ~r.inbnd[m].open
  <2>1. Previous(r, p) = Opened(m)
    BY <1>6 DEF Previous
  <2>2. Q = ReqUnschedDataPkts(m) /\ r.delivered[m] = 0
    BY <1>3, <1>4, <1>6 DEF MesgData
  <2>3. Opened(m) \in Inbound /\ Opened(m).open
    BY <1>3, OpenedType
  <2> QED BY <1>3, <2>1, <2>2, <2>3, OpenedData
<1> QED BY <1>5, <1>6

\* Once it arrived, its message is complete exactly when nothing is left of it.
LEMMA FollowingData ==
  ASSUME Countable, NEW A, NEW r \in Sound(A), NEW p \in A, NEW m, m = p.msg,
         NEW Q, Q = PktsOf(Pending(r, A), m), NEW in, in = Following(r, p),
         NEW R, R = Q \ {p}
  PROVE  /\ in.open /\ in \in Inbound
         /\ ByteData(in, m, R) /\ (Accounted => WireData(in, R))
         /\ Complete(in) => R = {} /\ in.bytesToGrant = 0 /\ in.inflightGrants = {}
         /\ ~Complete(in) => in.bytesToReceive > 0
<1> DEFINE before == Previous(r, p)
<1>1. /\ p \in Pkt /\ m \in Msg /\ p \in Q /\ before \in Inbound /\ before.open
      /\ ByteData(before, m, Q) /\ (Accounted => WireData(before, Q))
  BY PreviousData
<1>2. in = Filled(before, p)
  BY DEF Following
<1> HIDE DEF before
<1>3. in \in Inbound /\ in.open
  BY <1>1, <1>2, FilledType
<1>4. ByteData(in, m, R)
  BY <1>1, <1>2, FilledData
<1>5. Accounted => WireData(in, R)
  <2>1. PktsData(before, m, Q)
    BY <1>1 DEF ByteData
  <2> QED BY <1>1, <1>2, <2>1, FilledWire
<1>6. /\ in.bytesToReceive = in.bytesToGrant + Total(LenOf, R) /\ PktsData(in, m, R)
      /\ in.inflightGrants = Entries(R)
  BY <1>4 DEF ByteData
<1>7. IsFiniteSet(R) /\ \A x \in R : x \in Pkt /\ x.len > 0
  BY <1>6 DEF PktsData
<1>8. \A x \in R : LenOf[x] \in Nat /\ LenOf[x] > 0
  BY <1>7, SizesType
<1>9. Total(LenOf, R) \in Nat /\ (Total(LenOf, R) = 0 <=> R = {})
  BY <1>7, <1>8, TotalSome
<1>10. in.bytesToGrant \in Nat
  BY <1>3 DEF Inbound
<1>11. Complete(in) => R = {} /\ in.bytesToGrant = 0
  BY <1>6, <1>9, <1>10 DEF Complete
<1>12. ~Complete(in) => in.bytesToReceive > 0
  BY <1>6, <1>9, <1>10 DEF Complete
<1>13. R = {} => Entries(R) = {}
  BY DEF Entries, Sched, Unsched
<1> QED BY <1>3, <1>4, <1>5, <1>6, <1>11, <1>12, <1>13

\* The totals follow the packets of the open messages.
LEMMA ArrivalTotals ==
  ASSUME Countable, Accounted, NEW A, NEW r \in Sound(A), NEW p \in A,
         Totals(r, Pending(r, A)),
         NEW q, q.inflightUnsched = UnschedAfter(r, p), q.inflightSched = SchedAfter(r, p),
         \A k \in Msg \ {p.msg} : q.inbnd[k].open = r.inbnd[k].open,
         q.inbnd[p.msg].open \/ PktsOf(Pending(r, A), p.msg) \ {p} = {}
  PROVE  Totals(q, Pending(r, A) \ {p})
<1> SUFFICES ASSUME NEW m, m = p.msg, NEW P, P = Pending(r, A)
             PROVE  Totals(q, P \ {p})
  OBVIOUS
<1> DEFINE E == OpenPkts(r, P)
           F == OpenPkts(q, P \ {p})
           w == PktOnWire(p)
           n == r.inflightUnsched
           g == r.inflightSched
<1>1. P \in SUBSET Pkt /\ IsFiniteSet(P) /\ p \in P
  BY DEF Sound, DataOf, Pending
<1>2. /\ p \in Pkt /\ m \in Msg /\ r.inbnd[m].open \in BOOLEAN
      /\ ~r.inbnd[m].open => PktsOf(P, m) = ReqUnschedDataPkts(m)
  BY PreviousData DEF Sound, Filers, Receivers, Inbounds, Inbound
<1>3. E \in SUBSET P
  BY DEF OpenPkts
<1>4. IsFiniteSet(E)
  BY <1>1, <1>3, FS_Subset
<1>5. IsFiniteSet(Sched(E)) /\ IsFiniteSet(Unsched(E))
      /\ \A x \in P : WireOf[x] \in Nat /\ x.msg \in Msg
  <2>1. Sched(E) \in SUBSET E /\ Unsched(E) \in SUBSET E
    BY DEF Sched, Unsched
  <2>2. \A x \in P : WireOf[x] \in Nat
    BY <1>1, SizesType
  <2>3. \A x \in P : x.msg \in Msg
    BY <1>1 DEF Pkt
  <2> HIDE DEF E
  <2> QED BY <1>4, <2>1, <2>2, <2>3, FS_Subset
<1>6. WireOf[p] = w /\ w \in Nat
  BY <1>2, SizesType
<1>7. n = Total(WireOf, Unsched(E)) /\ g = Total(WireOf, Sched(E))
  BY DEF Totals
<1>8. CASE r.inbnd[m].open
  <2>1. F = E \ {p} /\ p \in E
    BY <1>1, <1>5, <1>8 DEF OpenPkts, PktsOf
  <2>2. CASE p.type = "SCHED_DATA"
    <3>1. Sched(F) = Sched(E) \ {p} /\ p \in Sched(E) /\ Unsched(F) = Unsched(E)
      BY <2>1, <2>2 DEF Sched, Unsched
    <3>2. Sched(E) \subseteq P
      BY <1>3 DEF Sched
    <3> HIDE DEF E, F
    <3>3. Total(WireOf, Sched(F)) = g - w
      <4> DEFINE S == Sched(E)
      <4>1. IsFiniteSet(S) /\ p \in S /\ \A x \in S : WireOf[x] \in Nat
        BY <1>5, <3>1, <3>2
      <4> HIDE DEF S
      <4>2. Total(WireOf, S \ {p}) = Total(WireOf, S) - WireOf[p]
        BY <4>1, TotalRemove
      <4> QED BY <1>6, <1>7, <3>1, <4>2 DEF S
    <3> QED BY <1>7, <1>8, <2>2, <3>1, <3>3 DEF Totals, UnschedAfter, SchedAfter, F
  <2>3. CASE p.type # "SCHED_DATA"
    <3>1. Unsched(F) = Unsched(E) \ {p} /\ p \in Unsched(E) /\ Sched(F) = Sched(E)
      BY <2>1, <2>3 DEF Sched, Unsched
    <3>2. Unsched(E) \subseteq P
      BY <1>3 DEF Unsched
    <3> HIDE DEF E, F
    <3>3. Total(WireOf, Unsched(F)) = n - w
      <4> DEFINE S == Unsched(E)
      <4>1. IsFiniteSet(S) /\ p \in S /\ \A x \in S : WireOf[x] \in Nat
        BY <1>5, <3>1, <3>2
      <4> HIDE DEF S
      <4>2. Total(WireOf, S \ {p}) = Total(WireOf, S) - WireOf[p]
        BY <4>1, TotalRemove
      <4> QED BY <1>6, <1>7, <3>1, <4>2 DEF S
    <3> QED BY <1>7, <1>8, <2>3, <3>1, <3>3 DEF Totals, UnschedAfter, SchedAfter, F
  <2> QED BY <2>2, <2>3
<1>9. CASE ~r.inbnd[m].open
  <2> DEFINE U == ReqUnschedDataPkts(m)
             V == U \ {p}
             T == Unsched(E)
             others == TotalUnsched(m) - p.len
  <2>1. PktsOf(P, m) = U /\ p \in U
    BY <1>1, <1>2, <1>9 DEF PktsOf
  <2>2. \A x \in U : x.msg = m /\ x.type # "SCHED_DATA"
    BY <1>2, UnschedLens
  <2>3. U \subseteq P
    BY <2>1 DEF PktsOf
  <2>4. F = E \cup V /\ E \cap V = {}
    <3> HIDE DEF U
    <3>1. \A x \in P : x.msg = m <=> x \in U
      BY <2>1 DEF PktsOf
    <3>2. q.inbnd[m].open \/ V = {}
      BY <2>1
    <3>3. E \cap V = {}
      BY <1>9, <2>2 DEF OpenPkts
    <3>4. ASSUME NEW x \in P
          PROVE  x \in F <=> x \in E \cup V
      <4>1. CASE x \in U
        BY <1>2, <1>9, <2>2, <3>2, <3>4, <4>1 DEF OpenPkts
      <4>2. CASE x \notin U
        <5>1. x.msg \in Msg \ {m}
          BY <1>5, <3>1, <4>2
        <5>2. x # p
          BY <2>1, <4>2
        <5>3. q.inbnd[x.msg].open = r.inbnd[x.msg].open
          BY <5>1
        <5> QED BY <4>2, <5>2, <5>3 DEF OpenPkts
      <4> QED BY <4>1, <4>2
    <3>5. F \subseteq P /\ E \subseteq P /\ V \subseteq P
      BY <2>3 DEF OpenPkts
    <3> HIDE DEF E, F, V
    <3> QED BY <3>3, <3>4, <3>5
  <2>5. Sched(F) = Sched(E) /\ Unsched(F) = T \cup V /\ T \cap V = {} /\ T \subseteq P
    BY <1>3, <2>2, <2>4 DEF Sched, Unsched
  <2>6. V \subseteq P
    BY <2>3
  <2>7. IsFiniteSet(V)
    BY <1>1, <2>6, FS_Subset
  <2>8. /\ others > 0 => OnWire(others, UnschedHdr) = Total(WireOf, V)
        /\ ~(others > 0) => Total(WireOf, V) = 0
    BY <1>2, <2>1, OthersAre DEF Accounted
  <2>9. p.type # "SCHED_DATA"
    BY <2>1, <2>2
  <2>10. /\ q.inflightSched = g
         /\ q.inflightUnsched = IF others > 0 THEN n + OnWire(others, UnschedHdr) ELSE n
    BY <1>9, <2>9 DEF UnschedAfter, SchedAfter
  <2> HIDE DEF E, F, T, V, others
  <2>11. Total(WireOf, T \cup V) = Total(WireOf, T) + Total(WireOf, V)
    BY <1>5, <2>5, <2>6, <2>7, TotalUnion DEF T
  <2>12. Total(WireOf, T) \in Nat /\ Total(WireOf, V) \in Nat
    BY <1>5, <2>5, <2>6, <2>7, TotalType DEF T
  <2>13. n = Total(WireOf, T)
    BY <1>7 DEF T
  <2> HIDE DEF n
  <2>14. q.inflightUnsched = Total(WireOf, T \cup V)
    BY <2>8, <2>10, <2>11, <2>12, <2>13
  <2> QED BY <1>7, <2>5, <2>10, <2>14 DEF Totals, F
<1> QED BY <1>8, <1>9

\* handleInboundPkt counts the packet that arrived no more.
LEMMA InboundSound ==
  ASSUME Countable, NEW A, NEW r \in Sound(A), NEW p \in A
  PROVE  HandleInboundPkt(r, p) \in Sound(A \ {p})
<1> DEFINE m == p.msg
           P == Pending(r, A)
           Q == PktsOf(P, m)
           R == Q \ {p}
           in == Following(r, p)
           q == HandleInboundPkt(r, p)
<1>1. /\ r \in Filers /\ r \in Receivers /\ Bounds(r.inbnd) /\ Filing(r)
      /\ A \cap Ours(r) = {} /\ DataOf(r, P)
  BY DEF Sound, Filers
<1>2. /\ P \in SUBSET Pkt /\ IsFiniteSet(P) /\ (Accounted => Totals(r, P))
      /\ \A k \in Msg : MesgData(r.inbnd[k], r.delivered[k], k, PktsOf(P, k))
  BY <1>1 DEF DataOf
<1>3. p \in Pkt /\ m \in Msg /\ p \in Q /\ r.delivered[m] = 0
  BY PreviousData
<1>4. /\ q \in Receivers /\ Inbounded(r, p, q) /\ Bounds(q.inbnd) /\ Filing(q)
  BY <1>1, <1>3, InboundStep
<1>5. /\ in.open /\ ByteData(in, m, R) /\ (Accounted => WireData(in, R))
      /\ Complete(in) => R = {}
      /\ ~Complete(in) => in.bytesToReceive > 0
  BY FollowingData
<1> HIDE DEF q, in
<1>6. /\ q.grants = r.grants
      /\ q.inbnd = [r.inbnd EXCEPT ![m] = IF Complete(in) THEN NoMessage ELSE in]
      /\ q.delivered = IF Complete(in) THEN [r.delivered EXCEPT ![m] = @ + 1] ELSE r.delivered
      /\ q.inflightUnsched = UnschedAfter(r, p) /\ q.inflightSched = SchedAfter(r, p)
  BY <1>4 DEF Inbounded, SameQueues, in
<1>7. q \in Filers /\ Ours(q) = Ours(r)
  BY <1>4, <1>6 DEF Filers, Ours
<1>8. Pending(q, A \ {p}) = P \ {p} /\ (A \ {p}) \cap Ours(q) = {}
  BY <1>1, <1>7 DEF Pending
<1> HIDE DEF P
<1>9. /\ PktsOf(P \ {p}, m) = R
      /\ \A k \in Msg : k # m => PktsOf(P \ {p}, k) = PktsOf(P, k)
  BY DEF PktsOf
<1>10. P \ {p} \in SUBSET Pkt /\ IsFiniteSet(P \ {p})
  BY <1>2, FS_Subset
<1>11. /\ q.inbnd[m] = IF Complete(in) THEN NoMessage ELSE in
       /\ q.delivered[m] = IF Complete(in) THEN 1 ELSE 0
       /\ \A k \in Msg : k # m => q.inbnd[k] = r.inbnd[k] /\ q.delivered[k] = r.delivered[k]
  BY <1>1, <1>3, <1>6 DEF Receivers, Inbounds, Deliveries
<1>12. ASSUME NEW k \in Msg
       PROVE  MesgData(q.inbnd[k], q.delivered[k], k, PktsOf(P \ {p}, k))
  <2>1. CASE k # m
    BY <1>2, <1>9, <1>11, <2>1
  <2>2. CASE k = m /\ Complete(in)
    <3>1. /\ q.inbnd[k] = NoMessage /\ q.delivered[k] = 1
          /\ PktsOf(P \ {p}, k) = {}
      BY <1>5, <1>9, <1>11, <2>2
    <3>2. ~NoMessage.open
      BY DEF NoMessage
    <3> QED BY <3>1, <3>2 DEF MesgData
  <2>3. CASE k = m /\ ~Complete(in)
    BY <1>5, <1>9, <1>11, <2>3 DEF MesgData
  <2> QED BY <2>1, <2>2, <2>3
<1>13. Accounted => Totals(q, P \ {p})
  <2>1. /\ \A k \in Msg \ {p.msg} : q.inbnd[k].open = r.inbnd[k].open
        /\ q.inbnd[p.msg].open \/ PktsOf(P, p.msg) \ {p} = {}
    BY <1>5, <1>11
  <2> QED BY <1>2, <1>6, <2>1, ArrivalTotals DEF P
<1>14. DataOf(q, P \ {p})
  BY <1>10, <1>12, <1>13 DEF DataOf
<1> QED BY <1>7, <1>8, <1>14 DEF Sound, q

\* And so does all of processReceivedPkt, with the grants that it sends.
LEMMA ArrivalSound ==
  ASSUME Countable, NEW A, NEW r0 \in Sound(A), NEW p \in A
  PROVE  ProcessReceivedPkt(r0, p) \in Sound(A \ {p})
<1>1. p \in Pkt
  BY PreviousData
<1>2. \A r \in Sound(A) : HandleInboundPkt(r, p) \in Sound(A \ {p})
  BY InboundSound
<1>3. Closed(Sound(A)) /\ Closed(Sound(A \ {p}))
  BY SoundClosed
<1> DEFINE G == Sound(A)
           H == Sound(A \ {p})
<1> HIDE DEF G, H
<1>4. ProcessReceivedPkt(r0, p) \in H
  BY <1>1, <1>2, <1>3, ProcessReceivedPktIn DEF G, H
<1> QED BY <1>4 DEF H

\* At the end of an event its grants have become packets to arrive.
LEMMA LeaveSound ==
  ASSUME NEW A, NEW r \in Sound(A)
  PROVE  /\ [r EXCEPT !.grants = {}] \in Sound(Pending(r, A))
         /\ [r EXCEPT !.grants = {}].grants = {}
<1> DEFINE q == [r EXCEPT !.grants = {}]
           P == Pending(r, A)
<1>1. r \in Filers /\ r \in Receivers /\ DataOf(r, P)
  BY DEF Sound, Filers
<1>2. q \in Filers /\ q.grants = {}
  BY <1>1, LeaveFiles
<1>3. /\ q.inbnd = r.inbnd /\ q.delivered = r.delivered
      /\ q.inflightSched = r.inflightSched /\ q.inflightUnsched = r.inflightUnsched
  BY <1>1 DEF Receivers
<1> HIDE DEF q, P
<1>4. DataOf(q, P)
  BY <1>1, <1>3, DataSame
<1>5. Ours(q) = {}
  BY <1>2 DEF Ours
<1>6. Pending(q, P) = P
  BY <1>5 DEF Pending
<1>7. q \in Sound(P)
  BY <1>2, <1>4, <1>5, <1>6 DEF Sound
<1> QED BY <1>2, <1>7 DEF q, P

\* At the start all unscheduled packets are to arrive, and nothing is begun.
LEMMA InitSound ==
  ASSUME Countable
  PROVE  InitReceiver \in Sound(UNION {ReqUnschedDataPkts(m) : m \in Msg})
<1> DEFINE A == UNION {ReqUnschedDataPkts(m) : m \in Msg}
           r == InitReceiver
<1>1. r \in Filers /\ r.grants = {} /\ A \in SUBSET Pkt
  <2>1. \A m \in Msg : ReqUnschedDataPkts(m) \in SUBSET Pkt
    BY UnschedPktsType
  <2> QED BY <2>1, InitFiles
<1>2. IsFiniteSet(A)
  <2> DEFINE F == {ReqUnschedDataPkts(m) : m \in Msg}
  <2>1. IsFiniteSet(F)
    <3> DEFINE h == [m \in Msg |-> ReqUnschedDataPkts(m)]
    <3>1. h \in Surjection(Msg, F)
      BY DEF Surjection
    <3> HIDE DEF h
    <3> QED BY <3>1, FiniteAssumption, FS_Surjection
  <2>2. \A S \in F : IsFiniteSet(S)
    BY UnschedLens
  <2> HIDE DEF F
  <2>3. IsFiniteSet(UNION F)
    BY <2>1, <2>2, FS_UNION
  <2> QED BY <2>3 DEF F
<1>3. \A m \in Msg : \A p \in ReqUnschedDataPkts(m) : p.msg = m
  BY UnschedLens
<1>4. \A m \in Msg : PktsOf(A, m) = ReqUnschedDataPkts(m)
  BY <1>3 DEF PktsOf
<1>5. /\ \A m \in Msg : ~r.inbnd[m].open /\ r.delivered[m] = 0
      /\ r.inflightSched = 0 /\ r.inflightUnsched = 0
  BY DEF InitReceiver, NoMessage
<1>6. \A p \in A : p.msg \in Msg
  BY <1>1 DEF Pkt
<1> HIDE DEF A, r
<1>7. OpenPkts(r, A) = {}
  BY <1>5, <1>6 DEF OpenPkts
<1>8. Totals(r, A)
  <2>1. Sched({}) = {} /\ Unsched({}) = {}
    BY DEF Sched, Unsched
  <2>2. Total(WireOf, {}) = 0
    BY TotalEmpty
  <2> QED BY <1>5, <1>7, <2>1, <2>2 DEF Totals
<1>9. DataOf(r, A)
  BY <1>1, <1>2, <1>4, <1>5, <1>8 DEF DataOf, MesgData
<1>10. Ours(r) = {} /\ Pending(r, A) = A
  BY <1>1 DEF Ours, Pending
<1> QED BY <1>1, <1>9, <1>10 DEF Sound, r, A

-----------------------------------------------------------------------------
(* The list of senders.                                                     *)

\* The senders with messages that wait for grants, and the order of their best
\* messages
Needy(r) == {s \in Host : r.toGrant[s] # <<>>}
Ranks(r) == {x \in Host \X Host : Better(r, Top(r, x[1]), Top(r, x[2]))}

\* Nobody need see to this sender: its timer will, or a packet that is to arrive.
Tended(r, s) == r.timer[s] \/ WindowFull(r.inbnd[Top(r, s)])
Keeps(r, n) == \A i \in DOMAIN r.senders : i <= n => Tended(r, r.senders[i])

Fits(r) ==
  /\ r.headIdx + Lesser(Len(r.senders), NumToKeepGranted) <= SchedPrios
  /\ r.senders = <<>> => r.headIdx > 0

\* The receivers that list all senders but those in out, and keep the first n granted
Lined(out, n) ==
  {r \in Filers : /\ r.failed = {} /\ r.numToGrant = NumToKeepGranted /\ r.bwTimer = FALSE
                  /\ Elements(r.senders) = Needy(r) \ out
                  /\ InOrder(Ranks(r), r.senders)
                  /\ Fits(r) /\ Keeps(r, n)}

LEMMA SeqWithin ==
  ASSUME NEW X, NEW S, NEW f \in Seq(X), Elements(f) \subseteq S
  PROVE  f \in Seq(S)
<1>1. Len(f) \in Nat /\ f = [i \in 1 .. Len(f) |-> f[i]] /\ \A i \in 1 .. Len(f) : f[i] \in S
  BY DEF Elements
<1> QED BY <1>1

LEMMA NeedyTop ==
  ASSUME NEW r \in Filers, NEW s \in Needy(r)
  PROVE  /\ s \in Host /\ Top(r, s) \in Msg /\ MsgSrc[Top(r, s)] = s
         /\ r.inbnd[Top(r, s)].bytesToGrant > 0 /\ r.inbnd[Top(r, s)].open
BY HeadWaiting DEF Needy

\* No two senders have the same best message.
LEMMA RanksStrict ==
  ASSUME NEW r \in Filers
  PROVE  StrictOrder(Ranks(r), Needy(r))
<1>1. StrictOrder(Order(r), Msg)
  BY OrderStrict DEF Filers
<1>2. \A s \in Needy(r) : s \in Host /\ Top(r, s) \in Msg /\ MsgSrc[Top(r, s)] = s
  BY NeedyTop
<1>3. \A s, t \in Needy(r) : <<s, t>> \in Ranks(r) <=> <<Top(r, s), Top(r, t)>> \in Order(r)
  BY <1>2 DEF Ranks, Order
<1>4. \A s, t \in Needy(r) : s # t => Top(r, s) # Top(r, t)
  BY <1>2
<1> HIDE DEF Needy
<1> QED BY <1>1, <1>2, <1>3, <1>4 DEF StrictOrder

\* The best messages and timers of the senders S are the same.
SameTops(r, q, S) ==
  \A s \in S : /\ Top(q, s) = Top(r, s) /\ q.timer[s] = r.timer[s]
               /\ q.inbnd[Top(r, s)] = r.inbnd[Top(r, s)]

LEMMA TopsSame ==
  ASSUME NEW r, NEW q, r.senders \in Seq(Host), SameTops(r, q, Elements(r.senders)),
         q.senders = r.senders
  PROVE  /\ InOrder(Ranks(r), r.senders) => InOrder(Ranks(q), q.senders)
         /\ \A n : Keeps(r, n) => Keeps(q, n)
<1> DEFINE f == r.senders
<1>1. \A i \in DOMAIN f : f[i] \in Elements(f) /\ f[i] \in Host
  BY DEF Elements
<1>2. ASSUME NEW i \in DOMAIN f, NEW j \in DOMAIN f, <<f[i], f[j]>> \in Ranks(r)
      PROVE  <<f[i], f[j]>> \in Ranks(q)
  BY <1>1, <1>2 DEF SameTops, Ranks, Better
<1>3. \A i \in DOMAIN f : Tended(r, f[i]) => Tended(q, f[i])
  BY <1>1 DEF SameTops, Tended
<1> QED BY <1>2, <1>3 DEF InOrder, Keeps

\* What Lined says, with the types that its proofs need.
LEMMA LinedData ==
  ASSUME NEW out, NEW n, NEW r \in Lined(out, n)
  PROVE  /\ r \in Filers /\ r \in Receivers /\ Bounds(r.inbnd) /\ Filing(r)
         /\ r.headIdx \in Nat /\ Len(r.senders) \in Nat /\ DOMAIN r.senders = 1 .. Len(r.senders)
         /\ r.senders \in Seq(Host) /\ r.senders \in Seq(Needy(r))
         /\ r.numToGrant = NumToKeepGranted /\ r.failed = {} /\ r.bwTimer = FALSE
         /\ \A i \in 1 .. Len(r.senders) : r.senders[i] \in Host /\ r.senders[i] \in Needy(r)
         /\ SchedPrios \in Nat /\ NumToKeepGranted \in Nat /\ NumToKeepGranted > 0
         /\ NumToKeepGranted <= SchedPrios
<1>1. r \in Filers /\ r \in Receivers /\ Elements(r.senders) = Needy(r) \ out
  BY DEF Lined, Filers
<1>2. r.senders \in Seq(Host) /\ r.headIdx \in Nat
  BY <1>1 DEF Receivers, Lists
<1>3. r.senders \in Seq(Needy(r))
  BY <1>1, <1>2, SeqWithin
<1>4. \A i \in 1 .. Len(r.senders) : r.senders[i] \in Host /\ r.senders[i] \in Needy(r)
  BY <1>2, <1>3
<1> QED BY <1>1, <1>2, <1>3, <1>4, SchedAssumption DEF Lined, Filers

\* insPoint counts the senders that come before.
LEMMA AheadIs ==
  ASSUME NEW r \in Filers, NEW s \in Needy(r), r.senders \in Seq(Needy(r)),
         s \notin Elements(r.senders)
  PROVE  Ahead(r, s) = Cardinality(Prior(Ranks(r), r.senders, s))
<1> DEFINE f == r.senders
<1>1. \A i \in DOMAIN f : f[i] \in Needy(r) /\ f[i] # s
  BY DEF Elements
<1>2. StrictOrder(Ranks(r), Needy(r))
  BY RanksStrict
<1>3. \A t \in Needy(r) : t \in Host
  BY DEF Needy
<1>4. \A i \in DOMAIN f : <<s, f[i]>> \in Ranks(r) <=> Better(r, Top(r, s), Top(r, f[i]))
  BY <1>1, <1>3 DEF Ranks
<1>5. \A i \in DOMAIN f : ~Better(r, Top(r, s), Top(r, f[i])) <=> <<f[i], s>> \in Ranks(r)
  BY <1>1, <1>2, <1>4 DEF StrictOrder
<1> QED BY <1>5 DEF Ahead, Prior

LEMMA RemoveAtHosts ==
  ASSUME NEW f \in Seq(Host), NEW i \in 1 .. Len(f)
  PROVE  /\ Len(RemoveAt(f, i)) = Len(f) - 1
         /\ \A j \in 1 .. Len(f) - 1 : RemoveAt(f, i)[j] = IF j < i THEN f[j] ELSE f[j + 1]
<1>1. i \in DOMAIN f
  OBVIOUS
<1> QED BY <1>1, RemoveAtElements

\* A list of other senders, the messages and timers of all being the same.
LEMMA RelistedFiler ==
  ASSUME NEW r \in Filers, NEW q, Relisted(r, q)
  PROVE  /\ q \in Filers /\ Needy(q) = Needy(r) /\ Ranks(q) = Ranks(r)
         /\ \A s : Tended(q, s) <=> Tended(r, s)
<1>1. SameBytes(r, q) /\ q \in Receivers /\ q.timer = r.timer
  BY DEF Relisted, SameMesgs, SameBytes
<1>2. q \in Filers
  BY <1>1, FilersClosed DEF Closed
<1>3. q.inbnd = r.inbnd /\ q.toGrant = r.toGrant
  BY <1>1 DEF SameBytes
<1>4. Needy(q) = Needy(r) /\ \A s : Tended(q, s) <=> Tended(r, s)
  BY <1>1, <1>3 DEF Needy, Tended, Top
<1>5. \A a, b : Better(q, Top(q, a), Top(q, b)) <=> Better(r, Top(r, a), Top(r, b))
  BY <1>3 DEF Better, Top
<1>6. Ranks(q) = Ranks(r)
  BY <1>5 DEF Ranks
<1> QED BY <1>2, <1>4, <1>6

\* Where the list would start with one more sender, if the room of the sender
\* removed last were not used again
Base(r) == Lesser(r.headIdx, SchedPrios - Lesser(Len(r.senders) + 1, NumToKeepGranted))

\* A sender that is taken out of the list would be inserted where it was.
LEMMA UnlistStep ==
  ASSUME NEW r \in Lined({}, 0), NEW i \in 1 .. Len(r.senders), NEW k \in Nat,
         \A j \in 1 .. Len(r.senders) : (j < i /\ j <= k) \/ (j > i /\ j <= k + 1) => Tended(r, r.senders[j])
  PROVE  /\ RemoveIth(r, i) \in Lined({r.senders[i]}, k)
         /\ Relisted(r, RemoveIth(r, i))
         /\ r.senders[i] \in Needy(r) /\ r.senders[i] \in Host
         /\ Len(RemoveIth(r, i).senders) = Len(r.senders) - 1
         /\ Ahead(RemoveIth(r, i), r.senders[i]) = i - 1
         /\ Base(RemoveIth(r, i)) >= r.headIdx
<1> SUFFICES ASSUME NEW q, q = RemoveIth(r, i), NEW s, s = r.senders[i], NEW f, f = r.senders
             PROVE  /\ q \in Lined({s}, k) /\ Relisted(r, q) /\ s \in Needy(r) /\ s \in Host
                    /\ Len(q.senders) = Len(f) - 1 /\ Ahead(q, s) = i - 1
                    /\ Base(q) >= r.headIdx
  OBVIOUS
<1>1. /\ r \in Filers /\ r \in Receivers /\ r.headIdx \in Nat /\ Len(f) \in Nat
      /\ DOMAIN f = 1 .. Len(f) /\ f \in Seq(Host) /\ f \in Seq(Needy(r))
      /\ r.numToGrant = NumToKeepGranted /\ r.failed = {} /\ r.bwTimer = FALSE
      /\ s \in Host /\ s \in Needy(r)
      /\ SchedPrios \in Nat /\ NumToKeepGranted \in Nat /\ NumToKeepGranted > 0
      /\ NumToKeepGranted <= SchedPrios
  BY LinedData
<1>2. Elements(f) = Needy(r) /\ InOrder(Ranks(r), f) /\ Fits(r)
  BY DEF Lined
<1>3. /\ Relisted(r, q) /\ q.failed = r.failed
      /\ q.senders = RemoveAt(f, i) /\ q.headIdx = HeadWithout(r, i)
  BY <1>1, RemoveIthStep DEF HasList
<1>4. /\ q \in Filers /\ Needy(q) = Needy(r) /\ Ranks(q) = Ranks(r)
      /\ \A t : Tended(q, t) <=> Tended(r, t)
  BY <1>1, <1>3, RelistedFiler
<1>5. q.numToGrant = NumToKeepGranted /\ q.failed = {} /\ q.bwTimer = FALSE
  BY <1>1, <1>3 DEF Relisted
<1>6. StrictOrder(Ranks(r), Needy(r))
  BY <1>1, RanksStrict
<1>7. /\ q.senders \in Seq(Needy(r)) /\ InOrder(Ranks(r), q.senders)
      /\ Elements(q.senders) = Needy(r) \ {s}
  BY <1>1, <1>2, <1>3, <1>6, SortedRemove
<1>8. /\ Len(q.senders) = Len(f) - 1
      /\ \A j \in 1 .. Len(f) - 1 : q.senders[j] = IF j < i THEN f[j] ELSE f[j + 1]
  <2>1. f \in Seq(Host) /\ i \in 1 .. Len(f)
    BY <1>1
  <2>2. /\ Len(RemoveAt(f, i)) = Len(f) - 1
        /\ \A j \in 1 .. Len(f) - 1 : RemoveAt(f, i)[j] = IF j < i THEN f[j] ELSE f[j + 1]
    BY <2>1, RemoveAtHosts
  <2> QED BY <1>3, <2>2
<1>9. DOMAIN q.senders = 1 .. Len(f) - 1
  BY <1>7, <1>8
<1>10. Keeps(q, k)
  <2> SUFFICES ASSUME NEW j \in 1 .. Len(f) - 1, j <= k
               PROVE  Tended(r, q.senders[j])
    BY <1>4, <1>9 DEF Keeps
  <2>1. \A x \in 1 .. Len(f) : (x < i /\ x <= k) \/ (x > i /\ x <= k + 1) => Tended(r, f[x])
    OBVIOUS
  <2>2. CASE j < i
    <3>1. q.senders[j] = f[j] /\ j \in 1 .. Len(f)
      BY <1>1, <1>8, <2>2
    <3> QED BY <2>1, <2>2, <3>1
  <2>3. CASE j >= i
    <3>1. q.senders[j] = f[j + 1] /\ j + 1 \in 1 .. Len(f) /\ j + 1 > i /\ j + 1 <= k + 1
      BY <1>1, <1>8, <2>3
    <3> QED BY <2>1, <3>1
  <2> QED BY <1>1, <2>2, <2>3
<1>11. /\ r.headIdx + Lesser(Len(f), NumToKeepGranted) <= SchedPrios
       /\ q.headIdx = IF i = 1 /\ r.headIdx + Lesser(Len(f) - 1, NumToKeepGranted) < SchedPrios
                        THEN r.headIdx + 1 ELSE r.headIdx
  BY <1>1, <1>2, <1>3 DEF Fits, HeadWithout
<1>12. /\ q.headIdx + Lesser(Len(f) - 1, NumToKeepGranted) <= SchedPrios
       /\ Len(f) - 1 = 0 => q.headIdx > 0
       /\ Lesser(q.headIdx, SchedPrios - Lesser(Len(f) - 1 + 1, NumToKeepGranted)) >= r.headIdx
  <2> DEFINE l == Len(f)
             h == r.headIdx
  <2> HIDE DEF l, h
  <2>1. /\ l \in Nat /\ h \in Nat /\ i \in 1 .. l /\ h + Lesser(l, NumToKeepGranted) <= SchedPrios
        /\ q.headIdx = IF i = 1 /\ h + Lesser(l - 1, NumToKeepGranted) < SchedPrios
                         THEN h + 1 ELSE h
    BY <1>1, <1>11 DEF l, h
  <2>2. l - 1 = 0 => i = 1 /\ Lesser(l - 1, NumToKeepGranted) = 0 /\ Lesser(l, NumToKeepGranted) = 1
    BY <1>1, <2>1 DEF Lesser
  <2>3. l - 1 = 0 => q.headIdx > 0
    BY <1>1, <2>1, <2>2
  <2>4. q.headIdx + Lesser(l - 1, NumToKeepGranted) <= SchedPrios
    BY <1>1, <2>1 DEF Lesser
  <2>5. Lesser(q.headIdx, SchedPrios - Lesser(l - 1 + 1, NumToKeepGranted)) >= h
    BY <1>1, <2>1 DEF Lesser
  <2> QED BY <2>3, <2>4, <2>5 DEF l, h
<1>13. Fits(q) /\ Base(q) >= r.headIdx
  <2>1. q.senders = <<>> => Len(f) - 1 = 0
    BY <1>8
  <2> QED BY <1>8, <1>12, <2>1 DEF Fits, Base
<1>14. Ahead(q, s) = i - 1
  <2> DEFINE D == Prior(Ranks(r), q.senders, s)
  <2>1. Ahead(q, s) = Cardinality(D)
    <3>1. s \in Needy(q) /\ q.senders \in Seq(Needy(q)) /\ s \notin Elements(q.senders)
      BY <1>1, <1>4, <1>7
    <3> QED BY <1>4, <3>1, AheadIs
  <2>2. \A x, y \in 1 .. Len(f) : x < y => <<f[x], f[y]>> \in Ranks(r) /\ <<f[y], f[x]>> \notin Ranks(r)
    <3> SUFFICES ASSUME NEW x \in 1 .. Len(f), NEW y \in 1 .. Len(f), x < y
                 PROVE  <<f[x], f[y]>> \in Ranks(r) /\ <<f[y], f[x]>> \notin Ranks(r)
      OBVIOUS
    <3>1. f[x] \in Needy(r) /\ f[y] \in Needy(r) /\ <<f[x], f[y]>> \in Ranks(r)
      BY <1>1, <1>2 DEF InOrder
    <3> QED BY <1>6, <3>1 DEF StrictOrder
  <2>3. D = 1 .. i - 1
    <3>1. D = {j \in 1 .. Len(f) - 1 : <<q.senders[j], f[i]>> \in Ranks(r)}
      BY <1>9 DEF Prior
    <3>2. ASSUME NEW j \in 1 .. Len(f) - 1
          PROVE  <<q.senders[j], f[i]>> \in Ranks(r) <=> j < i
      <4>1. CASE j < i
        <5>1. q.senders[j] = f[j] /\ j \in 1 .. Len(f)
          BY <1>1, <1>8, <4>1
        <5> QED BY <2>2, <4>1, <5>1
      <4>2. CASE j >= i
        <5>1. q.senders[j] = f[j + 1] /\ j + 1 \in 1 .. Len(f) /\ i < j + 1
          BY <1>1, <1>8, <4>2
        <5>2. <<f[j + 1], f[i]>> \notin Ranks(r)
          BY <2>2, <5>1
        <5>3. ~(j < i)
          BY <1>1, <4>2
        <5> QED BY <5>1, <5>2, <5>3
      <4> QED BY <1>1, <4>1, <4>2
    <3> QED BY <1>1, <3>1, <3>2
  <2>4. Cardinality(1 .. i - 1) = i - 1
    <3>1. 1 \in Int /\ i - 1 \in Int /\ i >= 1
      BY <1>1
    <3>2. Cardinality(1 .. i - 1) = IF 1 > i - 1 THEN 0 ELSE i - 1 - 1 + 1
      BY <3>1, FS_Interval
    <3> QED BY <3>1, <3>2
  <2> QED BY <2>1, <2>3, <2>4
<1>15. q \in Lined({s}, k)
  BY <1>4, <1>5, <1>7, <1>10, <1>13 DEF Lined
<1> QED BY <1>1, <1>3, <1>8, <1>13, <1>14, <1>15

\* Where insPoint puts a sender that is not in the list: behind those that come
\* before it, in a list that is moved to the left as far as its length asks for.
LEMMA InsPointIs ==
  ASSUME NEW n \in Nat, NEW s \in Host, NEW r \in Lined({s}, n), s \in Needy(r)
  PROVE  /\ InsPoint(r, s) \in Places /\ InsPoint(r, s).s = s
         /\ InsPoint(r, s).numToGrant = NumToKeepGranted
         /\ InsPoint(r, s).numSenders = Len(r.senders) + 1
         /\ InsPoint(r, s).sInd = InsPoint(r, s).headIdx + Ahead(r, s)
         /\ Ahead(r, s) \in 0 .. Len(r.senders)
         /\ InsPoint(r, s).headIdx <= r.headIdx /\ InsPoint(r, s).headIdx <= Base(r)
         /\ Ahead(r, s) > 0 => InsPoint(r, s).headIdx = Base(r)
         /\ InsPoint(r, s).headIdx + Lesser(Len(r.senders) + 1, NumToKeepGranted) <= SchedPrios
<1> DEFINE at == InsPoint(r, s)
           l == Len(r.senders)
           h == r.headIdx
           a == Ahead(r, s)
<1>1. /\ r \in Receivers /\ h \in Nat /\ l \in Nat /\ r.numToGrant = NumToKeepGranted
      /\ SchedPrios \in Nat /\ NumToKeepGranted \in Nat /\ NumToKeepGranted > 0
      /\ NumToKeepGranted <= SchedPrios
  BY LinedData
<1>2. r.toGrant[s] # <<>>
  BY DEF Needy
<1>3. /\ at \in Places /\ at.s = s /\ at.numToGrant = NumToKeepGranted
      /\ at.numSenders = l + 1 /\ at.sInd = at.headIdx + a
  BY <1>1, <1>2, InsPointType
<1>4. a \in 0 .. l
  BY <1>1, AheadType
<1> DEFINE useRoom == a = 0 /\ h > 0 /\ h # r.lastIdx[s]
           head == IF useRoom THEN h - 1 ELSE h
           shift == Lesser(l + 1, Lesser(NumToKeepGranted, SchedPrios)) - (SchedPrios - head)
           newHead == IF shift > 0 THEN head - shift ELSE head
<1>5. at.headIdx = newHead
  BY <1>1, <1>2 DEF InsPoint, LeftShift
<1>6. head \in Nat /\ head <= h /\ (a > 0 => head = h)
  BY <1>1, <1>4
<1> HIDE DEF at, l, h, a, useRoom, head
<1>7. Lesser(NumToKeepGranted, SchedPrios) = NumToKeepGranted
  BY <1>1 DEF Lesser
<1> DEFINE room == SchedPrios - Lesser(l + 1, NumToKeepGranted)
<1>8. /\ room \in Nat
      /\ Lesser(l + 1, NumToKeepGranted) \in Nat
  BY <1>1 DEF Lesser
<1>9. newHead = IF head > room THEN room ELSE head
  BY <1>1, <1>6, <1>7, <1>8
<1>10. Base(r) = IF h < room THEN h ELSE room
  <2>1. Base(r) = Lesser(h, room)
    BY DEF Base, l, h
  <2>2. h \in Nat /\ room \in Nat
    BY <1>1, <1>8
  <2> HIDE DEF room
  <2> QED BY <2>1, <2>2 DEF Lesser
<1>11. room + Lesser(l + 1, NumToKeepGranted) = SchedPrios
  BY <1>1, <1>8
<1> HIDE DEF newHead, room
<1>12. /\ newHead <= h /\ newHead <= Base(r) /\ (a > 0 => newHead = Base(r))
       /\ newHead <= room
  BY <1>1, <1>6, <1>8, <1>9, <1>10
<1>13. newHead + Lesser(l + 1, NumToKeepGranted) <= SchedPrios
  BY <1>1, <1>6, <1>8, <1>9, <1>11, <1>12
<1> QED BY <1>3, <1>4, <1>5, <1>12, <1>13 DEF at, l, h, a

LEMMA InsertAtHosts ==
  ASSUME NEW f \in Seq(Host), NEW c \in 0 .. Len(f), NEW s \in Host
  PROVE  /\ Len(InsertAt(f, c + 1, s)) = Len(f) + 1
         /\ \A j \in 1 .. Len(f) + 1 :
              InsertAt(f, c + 1, s)[j] =
                IF j < c + 1 THEN f[j] ELSE IF j = c + 1 THEN s ELSE f[j - 1]
<1>1. c + 1 \in Nat /\ c + 1 >= 1 /\ c + 1 <= Len(f) + 1
  OBVIOUS
<1> DEFINE i == c + 1
<1> HIDE DEF i
<1>2. /\ Len(InsertAt(f, i, s)) = Len(f) + 1
      /\ \A j \in 1 .. Len(f) + 1 :
           InsertAt(f, i, s)[j] = IF j < i THEN f[j] ELSE IF j = i THEN s ELSE f[j - 1]
  BY <1>1, InsertAtElements DEF i
<1> QED BY <1>2 DEF i

\* Listing the sender that is left out completes the list.  It is one of the first
\* that have to be kept granted, or leaves them alone.
LEMMA InsertLined ==
  ASSUME NEW n \in Nat, NEW s \in Host, NEW r \in Lined({s}, n), s \in Needy(r),
         NEW k \in Nat, k <= n \/ (k = n + 1 /\ Ahead(r, s) <= n),
         Ahead(r, s) >= k \/ Tended(r, s)
  PROVE  /\ InsertSender(r, s) \in Lined({}, k)
         /\ Relisted(r, InsertSender(r, s))
         /\ InsertSender(r, s).headIdx = InsPoint(r, s).headIdx
         /\ Len(InsertSender(r, s).senders) = Len(r.senders) + 1
<1> DEFINE q == InsertSender(r, s)
           f == r.senders
           c == Ahead(r, s)
           at == InsPoint(r, s)
<1>1. /\ r \in Filers /\ r \in Receivers /\ r.headIdx \in Nat /\ Len(f) \in Nat
      /\ DOMAIN f = 1 .. Len(f) /\ f \in Seq(Host) /\ f \in Seq(Needy(r))
      /\ r.numToGrant = NumToKeepGranted /\ r.failed = {} /\ r.bwTimer = FALSE
      /\ SchedPrios \in Nat /\ NumToKeepGranted \in Nat /\ NumToKeepGranted > 0
      /\ NumToKeepGranted <= SchedPrios
  BY LinedData
<1>2. Elements(f) = Needy(r) \ {s} /\ InOrder(Ranks(r), f) /\ Keeps(r, n)
  BY DEF Lined
<1>3. /\ at.headIdx <= r.headIdx /\ c \in 0 .. Len(f)
      /\ at.headIdx + Lesser(Len(f) + 1, NumToKeepGranted) <= SchedPrios
  BY InsPointIs
<1>4. /\ Relisted(r, q) /\ q.senders = InsertAt(f, c + 1, s) /\ q.headIdx = at.headIdx
      /\ q.failed = {}
  <2>1. r.toGrant[s] # <<>>
    BY DEF Needy
  <2> QED BY <1>1, <1>3, <2>1, InsertSenderStep DEF HasList
<1> HIDE DEF q, c, at
<1>5. /\ q \in Filers /\ Needy(q) = Needy(r) /\ Ranks(q) = Ranks(r)
      /\ \A t : Tended(q, t) <=> Tended(r, t)
  BY <1>1, <1>4, RelistedFiler
<1>6. q.numToGrant = NumToKeepGranted /\ q.bwTimer = FALSE
  BY <1>1, <1>4 DEF Relisted
<1>7. /\ InOrder(Ranks(r), q.senders) /\ Elements(q.senders) = Needy(r)
  <2>1. StrictOrder(Ranks(r), Needy(r))
    BY <1>1, RanksStrict
  <2>2. s \notin Elements(f) /\ f \in Seq(Needy(r)) /\ InOrder(Ranks(r), f)
    BY <1>1, <1>2
  <2>3. c = Cardinality(Prior(Ranks(r), f, s))
    BY <1>1, <2>2, AheadIs DEF c
  <2> DEFINE R == Ranks(r)
             X == Needy(r)
             d == Cardinality(Prior(R, f, s))
  <2> HIDE DEF R, X, f
  <2>4. /\ InOrder(R, InsertAt(f, d + 1, s))
        /\ Elements(InsertAt(f, d + 1, s)) = Elements(f) \cup {s}
    BY <2>1, <2>2, SortedInsert DEF R, X
  <2> QED BY <1>2, <1>4, <2>3, <2>4 DEF R, X, f
<1>8. /\ Len(q.senders) = Len(f) + 1
      /\ \A j \in 1 .. Len(f) + 1 :
           q.senders[j] = IF j < c + 1 THEN f[j] ELSE IF j = c + 1 THEN s ELSE f[j - 1]
  BY <1>1, <1>3, <1>4, InsertAtHosts
<1>9. q.senders # <<>>
  <2>1. Len(q.senders) # 0
    BY <1>1, <1>8
  <2> QED BY <2>1
<1>10. Fits(q)
  BY <1>3, <1>4, <1>8, <1>9 DEF Fits
<1>11. DOMAIN q.senders = 1 .. Len(f) + 1
  <2>1. q \in Receivers
    BY <1>4 DEF Relisted
  <2>2. q.senders \in Seq(Host)
    BY <2>1 DEF Receivers, Lists
  <2> QED BY <1>8, <2>2
<1>12. Keeps(q, k)
  <2> SUFFICES ASSUME NEW j \in 1 .. Len(f) + 1, j <= k
               PROVE  Tended(r, q.senders[j])
    BY <1>5, <1>11 DEF Keeps
  <2>1. \A x \in 1 .. Len(f) : x <= n => Tended(r, f[x])
    BY <1>1, <1>2 DEF Keeps
  <2>2. k <= n \/ (k = n + 1 /\ c <= n)
    BY DEF c
  <2>3. CASE j < c + 1
    <3>1. q.senders[j] = f[j] /\ j \in 1 .. Len(f) /\ j <= n
      BY <1>1, <1>3, <1>8, <2>2, <2>3
    <3> QED BY <2>1, <3>1
  <2>4. CASE j = c + 1
    <3>1. q.senders[j] = s
      BY <1>1, <1>3, <1>8, <2>4
    <3>2. ~(c >= k)
      BY <1>3, <2>4
    <3> QED BY <3>1, <3>2 DEF c
  <2>5. CASE j > c + 1
    <3>1. q.senders[j] = f[j - 1] /\ j - 1 \in 1 .. Len(f) /\ j - 1 <= n
      BY <1>1, <1>3, <1>8, <2>2, <2>5
    <3> QED BY <2>1, <3>1
  <2> QED BY <1>3, <2>3, <2>4, <2>5
<1>13. q \in Lined({}, k)
  BY <1>4, <1>5, <1>6, <1>7, <1>10, <1>12 DEF Lined
<1> QED BY <1>4, <1>8, <1>13 DEF q, at

-----------------------------------------------------------------------------
(* sendAndScheduleGrant and the list.                                       *)

\* The messages that wait for grants
Ungranted(r) == {m \in Msg : r.inbnd[m].bytesToGrant > 0}

\* What sendAndScheduleGrant does for a sender with messages to be granted: nothing,
\* since its timer will; stop the timer, since the window is full; or grant.
SendResult(r, s, q) ==
  \/ q = r /\ r.timer[s]
  \/ /\ q \in Receivers /\ q.inbnd = r.inbnd /\ q.toGrant = r.toGrant
     /\ \A t \in Host : t # s => q.timer[t] = r.timer[t]
     /\ WindowFull(r.inbnd[Top(r, s)])
  \/ /\ q \in Receivers /\ q.inbnd = InbndGranted(r, s) /\ q.toGrant = FilesGranted(r, s)
     /\ \A t \in Host : t # s => q.timer[t] = r.timer[t]
     /\ q.timer[s] = GrantsAgain(InbndGranted(r, s), Rest(r, s))

LEMMA SendResults ==
  ASSUME NEW r \in Receivers, Bounds(r.inbnd), NEW s \in Host, r.toGrant[s] # <<>>,
         NEW prio \in 0 .. AllPrio
  PROVE  /\ SendResult(r, s, SendAndScheduleGrant(r, s, prio))
         /\ SendAndScheduleGrant(r, s, prio).failed = r.failed
<1> DEFINE q == SendAndScheduleGrant(r, s, prio)
           grantPrio == GrantPrio(r, s, prio)
           set == r.timer[s] /\ r.lastPrio[s] <= grantPrio
<1>1. q = IF set THEN r
          ELSE IF WindowFull(r.inbnd[Top(r, s)]) THEN [r EXCEPT !.timer[s] = FALSE]
          ELSE Granting(r, s, prio)
  BY DEF SendAndScheduleGrant
<1>2. q \in Receivers /\ r.timer \in [Host -> BOOLEAN]
  BY SendType DEF Receivers, Timers
<1> HIDE DEF q
<1>3. CASE set
  BY <1>1, <1>3 DEF SendResult, q
<1>4. CASE ~set /\ WindowFull(r.inbnd[Top(r, s)])
  <2>1. q = [r EXCEPT !.timer[s] = FALSE]
    BY <1>1, <1>4
  <2>2. /\ q.inbnd = r.inbnd /\ q.toGrant = r.toGrant /\ q.failed = r.failed
        /\ q.timer = [r.timer EXCEPT ![s] = FALSE]
    BY <2>1 DEF Receivers
  <2>3. \A t \in Host : t # s => q.timer[t] = r.timer[t]
    BY <1>2, <2>2
  <2> QED BY <1>2, <1>4, <2>2, <2>3 DEF SendResult, q
<1>5. CASE ~set /\ ~WindowFull(r.inbnd[Top(r, s)])
  <2> DEFINE inbnd == InbndGranted(r, s)
             again == GrantsAgain(inbnd, Rest(r, s))
             wire == OnWire(GrantSize(r, s), SchedHdr)
             grant == GrantOf(r, s)
             rest == Rest(r, s)
  <2>1. q = [r EXCEPT !.inbnd = inbnd, !.toGrant[s] = rest, !.timer[s] = again,
                      !.lastPrio[s] = grantPrio, !.inflightSched = @ + wire,
                      !.grants = @ \cup {grant}]
    BY <1>1, <1>5 DEF Granting
  <2>2. again \in BOOLEAN
    BY DEF GrantsAgain
  <2> HIDE DEF inbnd, again, grantPrio, wire, grant, rest
  <2>3. /\ q.inbnd = inbnd /\ q.toGrant = [r.toGrant EXCEPT ![s] = rest]
        /\ q.timer = [r.timer EXCEPT ![s] = again] /\ q.failed = r.failed
    BY <2>1 DEF Receivers
  <2>4. \A t \in Host : t # s => q.timer[t] = r.timer[t]
    BY <1>2, <2>3
  <2>5. q.timer[s] = again
    BY <1>2, <2>3
  <2> QED BY <1>2, <2>3, <2>4, <2>5 DEF SendResult, FilesGranted, inbnd, again, rest, q
<1> QED BY <1>3, <1>4, <1>5

\* The other senders are what they were.
LEMMA SendOthers ==
  ASSUME NEW r \in Filers, NEW s \in Needy(r), NEW q \in Filers, SendResult(r, s, q)
  PROVE  /\ \A t \in Host : t # s => q.toGrant[t] = r.toGrant[t] /\ q.timer[t] = r.timer[t]
         /\ \A t \in Needy(r) : t # s => q.inbnd[Top(r, t)] = r.inbnd[Top(r, t)]
         /\ SameTops(r, q, Needy(r) \ {s}) /\ Needy(q) \ {s} = Needy(r) \ {s}
<1>1. /\ s \in Host /\ r.toGrant[s] # <<>> /\ r \in Receivers /\ r.inbnd \in Inbounds
      /\ r.toGrant \in Files /\ Bounds(r.inbnd) /\ Top(r, s) \in Msg /\ MsgSrc[Top(r, s)] = s
  BY HeadWaiting DEF Needy, Filers, Receivers
<1>2. \A t \in Host : t # s => q.toGrant[t] = r.toGrant[t] /\ q.timer[t] = r.timer[t]
  BY <1>1 DEF SendResult, FilesGranted, Files
<1>3. \A m \in Msg : m # Top(r, s) => q.inbnd[m] = r.inbnd[m]
  <2>1. CASE q.inbnd = r.inbnd
    BY <2>1
  <2>2. CASE q.inbnd = InbndGranted(r, s)
    BY <1>1, <2>2 DEF InbndGranted, Inbounds
  <2> QED BY <2>1, <2>2 DEF SendResult
<1>4. \A t \in Needy(r) : t # s => q.inbnd[Top(r, t)] = r.inbnd[Top(r, t)]
  <2> SUFFICES ASSUME NEW t \in Needy(r), t # s
               PROVE  q.inbnd[Top(r, t)] = r.inbnd[Top(r, t)]
    OBVIOUS
  <2>1. Top(r, t) \in Msg /\ MsgSrc[Top(r, t)] = t
    BY NeedyTop
  <2> QED BY <1>1, <1>3, <2>1
<1>5. SameTops(r, q, Needy(r) \ {s})
  <2>1. \A t \in Needy(r) : t \in Host
    BY DEF Needy
  <2> QED BY <1>2, <1>4, <2>1 DEF SameTops, Top
<1>6. Needy(q) \ {s} = Needy(r) \ {s}
  BY <1>2 DEF Needy
<1> QED BY <1>2, <1>4, <1>5, <1>6

\* After the grant, a packet or the timer will see to the sender.  It has got better in
\* the list, or a message of it waits no more.
LEMMA SendSelf ==
  ASSUME NEW r \in Filers, NEW s \in Needy(r), NEW q \in Filers, SendResult(r, s, q),
         r.senders \in Seq(Needy(r) \ {s}), q.senders = r.senders
  PROVE  /\ s \in Needy(q) => Tended(q, s)
         /\ Ungranted(q) \in SUBSET Ungranted(r)
         /\ (s \in Needy(q) /\ Ahead(q, s) <= Ahead(r, s)) \/ Ungranted(q) # Ungranted(r)
<1> DEFINE m == Top(r, s)
           in == r.inbnd[m]
           n == GrantSize(r, s)
           new == Granted(r, s)
           f == r.senders
<1>1. /\ s \in Host /\ r.toGrant[s] # <<>> /\ r \in Receivers /\ r.inbnd \in Inbounds
      /\ r.toGrant \in Files /\ Bounds(r.inbnd) /\ m \in Msg /\ MsgSrc[m] = s
      /\ in.bytesToGrant > 0
  BY HeadWaiting DEF Needy, Filers, Receivers
<1>2. Ahead(r, s) \in Int
  BY <1>1, AheadType
<1>3. CASE q.inbnd = r.inbnd /\ q.toGrant = r.toGrant /\ (q.timer[s] \/ WindowFull(in))
  <2>1. /\ Top(q, s) = m /\ Ungranted(q) = Ungranted(r) /\ s \in Needy(q) /\ q.inbnd[m] = in
    BY <1>3 DEF Top, Ungranted, Needy
  <2>2. Ahead(q, s) = Ahead(r, s)
    BY <1>3 DEF Ahead, Top, Better
  <2>3. Tended(q, s)
    BY <1>3, <2>1 DEF Tended
  <2>4. Ahead(q, s) <= Ahead(r, s)
    BY <1>2, <2>2
  <2> QED BY <2>1, <2>3, <2>4
<1>4. CASE /\ q.inbnd = InbndGranted(r, s) /\ q.toGrant = FilesGranted(r, s)
           /\ q.timer[s] = GrantsAgain(InbndGranted(r, s), Rest(r, s))
  <2>1. /\ n \in Nat /\ n > 0 /\ n <= in.bytesToGrant /\ in \in Inbound
        /\ in.bytesToGrant \in Nat /\ new.bytesToGrant = in.bytesToGrant - n
    <3>1. n \in Nat /\ n <= in.bytesToGrant /\ in \in Inbound
      BY <1>1, GrantType
    <3>2. n > 0
      BY <1>1, SizeAssumption DEF GrantSize, Lesser
    <3> QED BY <3>1, <3>2 DEF Granted, Inbound
  <2>2. \A k \in Msg : q.inbnd[k] = IF k = m THEN new ELSE r.inbnd[k]
    BY <1>1, <1>4 DEF InbndGranted, Inbounds
  <2>3. q.toGrant[s] = Rest(r, s)
    BY <1>1, <1>4 DEF FilesGranted, Files
  <2>4. s \in Needy(q) => Tended(q, s)
    <3>1. s \in Needy(q) => Rest(r, s) # <<>>
      BY <2>3 DEF Needy
    <3>2. Top(q, s) = Head(Rest(r, s))
      BY <2>3 DEF Top
    <3> QED BY <1>4, <3>1, <3>2 DEF Tended, GrantsAgain
  <2>5. Ungranted(q) \in SUBSET Ungranted(r)
    <3> SUFFICES ASSUME NEW k \in Ungranted(q)
                 PROVE  k \in Ungranted(r)
      OBVIOUS
    <3>1. k \in Msg /\ q.inbnd[k].bytesToGrant > 0
      BY DEF Ungranted
    <3>2. CASE k = m
      BY <1>1, <3>2 DEF Ungranted
    <3>3. CASE k # m
      BY <2>2, <3>1, <3>3 DEF Ungranted
    <3> QED BY <3>2, <3>3
  <2>6. CASE new.bytesToGrant > 0
    <3>1. Rest(r, s) = r.toGrant[s]
      BY <2>6 DEF Rest
    <3>2. s \in Needy(q) /\ Top(q, s) = m
      BY <1>1, <2>3, <3>1 DEF Needy, Top
    <3> DEFINE D == {i \in DOMAIN f : ~Better(r, m, Top(r, f[i]))}
               E == {i \in DOMAIN f : ~Better(q, m, Top(q, f[i]))}
    <3>3. ASSUME NEW i \in DOMAIN f, Better(r, m, Top(r, f[i]))
          PROVE  Better(q, m, Top(q, f[i]))
      <4> DEFINE t == f[i]
                 k == Top(r, t)
      <4>1. t \in Needy(r) /\ t # s
        OBVIOUS
      <4>2. k \in Msg /\ Top(q, t) = k /\ q.inbnd[k] = r.inbnd[k] /\ r.inbnd[k].bytesToGrant \in Nat
        <5>1. k \in Msg
          BY <4>1, NeedyTop
        <5>2. Top(q, t) = k /\ q.inbnd[k] = r.inbnd[k]
          BY <4>1, SendOthers DEF SameTops
        <5> QED BY <1>1, <5>1, <5>2 DEF Inbounds, Inbound
      <4>3. Better(r, m, k)
        BY <3>3
      <4> HIDE DEF t, k, m, in, n, new
      <4>4. q.inbnd[m].bytesToGrant < r.inbnd[m].bytesToGrant /\ r.inbnd[m].bytesToGrant \in Nat
            /\ q.inbnd[m].bytesToGrant \in Nat
        BY <1>1, <2>1, <2>2, <2>6 DEF in
      <4>5. Better(q, m, k)
        BY <4>2, <4>3, <4>4 DEF Better
      <4> QED BY <4>2, <4>5 DEF t
    <3>4. E \subseteq D
      BY <3>3
    <3>5. Ahead(r, s) = Cardinality(D) /\ Ahead(q, s) = Cardinality(E)
      BY <3>2 DEF Ahead
    <3>6. IsFiniteSet(D)
      <4>1. f \in Seq(Host)
        BY <1>1 DEF Receivers, Lists
      <4>2. D \subseteq 1 .. Len(f) /\ 1 \in Int /\ Len(f) \in Int
        BY <4>1
      <4>3. IsFiniteSet(1 .. Len(f))
        BY <4>2, FS_Interval
      <4> HIDE DEF D
      <4> QED BY <4>2, <4>3, FS_Subset
    <3> HIDE DEF D, E
    <3>7. Cardinality(E) <= Cardinality(D)
      BY <3>4, <3>6, FS_Subset
    <3> QED BY <2>4, <2>5, <3>2, <3>5, <3>7
  <2>7. CASE ~(new.bytesToGrant > 0)
    <3>1. m \in Ungranted(r) /\ m \notin Ungranted(q)
      BY <1>1, <2>2, <2>7 DEF Ungranted
    <3> QED BY <2>4, <2>5, <3>1
  <2> QED BY <2>6, <2>7
<1> QED BY <1>3, <1>4 DEF SendResult

LEMMA SendLined ==
  ASSUME NEW n \in Nat, NEW s \in Host, NEW r \in Lined({s}, n), s \in Needy(r), NEW i \in Nat,
         NEW q, q = SendAndScheduleGrant(r, s, PrioForMesg(i))
  PROVE  /\ q \in Lined({s}, n) /\ SameLists(r, q) /\ Base(q) = Base(r)
         /\ s \in Needy(q) => Tended(q, s)
         /\ Ungranted(q) \in SUBSET Ungranted(r)
         /\ (s \in Needy(q) /\ Ahead(q, s) <= Ahead(r, s)) \/ Ungranted(q) # Ungranted(r)
<1>1. /\ r \in Filers /\ r \in Receivers /\ Bounds(r.inbnd)
      /\ r.senders \in Seq(Host) /\ r.numToGrant = NumToKeepGranted /\ r.failed = {}
      /\ r.bwTimer = FALSE
  BY LinedData
<1>2. r.toGrant[s] # <<>>
  BY DEF Needy
<1>3. PrioForMesg(i) \in 0 .. AllPrio
  BY PrioType
<1>4. SendResult(r, s, q) /\ q.failed = r.failed
  BY <1>1, <1>2, <1>3, SendResults
<1>5. SameLists(r, q)
  BY <1>1, <1>3, SendType
<1>6. q \in Filers
  BY <1>1, <1>3, FilersClosed DEF Closed
<1>7. Elements(r.senders) = Needy(r) \ {s} /\ InOrder(Ranks(r), r.senders) /\ Fits(r) /\ Keeps(r, n)
  BY DEF Lined
<1>8. q.senders = r.senders /\ q.headIdx = r.headIdx /\ q.numToGrant = r.numToGrant
      /\ q.bwTimer = r.bwTimer
  BY <1>5 DEF SameLists
<1>9. SameTops(r, q, Elements(r.senders)) /\ Needy(q) \ {s} = Needy(r) \ {s}
  <2>1. SameTops(r, q, Needy(r) \ {s}) /\ Needy(q) \ {s} = Needy(r) \ {s}
    BY <1>1, <1>4, <1>6, SendOthers
  <2> QED BY <1>7, <2>1
<1>10. InOrder(Ranks(q), q.senders) /\ Keeps(q, n)
  BY <1>1, <1>7, <1>8, <1>9, TopsSame
<1>11. Fits(q) /\ Base(q) = Base(r)
  BY <1>7, <1>8 DEF Fits, Base
<1>12. q \in Lined({s}, n)
  BY <1>1, <1>4, <1>6, <1>7, <1>8, <1>9, <1>10, <1>11 DEF Lined
<1>13. r.senders \in Seq(Needy(r) \ {s})
  BY <1>1, <1>7, SeqWithin
<1> QED BY <1>1, <1>4, <1>5, <1>6, <1>8, <1>11, <1>12, <1>13, SendSelf

LEMMA LinedAll ==
  ASSUME NEW n, NEW s, NEW r \in Lined({s}, n), s \notin Needy(r)
  PROVE  r \in Lined({}, n)
<1>1. Needy(r) \ {s} = Needy(r) \ {}
  OBVIOUS
<1> QED BY <1>1 DEF Lined

LEMMA LinedLess ==
  ASSUME NEW n \in Nat, NEW k \in Nat, k <= n, NEW out, NEW r \in Lined(out, n)
  PROVE  r \in Lined(out, k)
<1>1. DOMAIN r.senders = 1 .. Len(r.senders) /\ Len(r.senders) \in Nat
  BY LinedData
<1>2. Keeps(r, n)
  BY DEF Lined
<1>3. Keeps(r, k)
  BY <1>1, <1>2 DEF Keeps
<1> QED BY <1>3 DEF Lined

\* The first n senders of the list are tended, but perhaps s.
TendedBut(r, s, n) ==
  \A j \in 1 .. Len(r.senders) : j <= n /\ r.senders[j] # s => Tended(r, r.senders[j])

\* remove, when all the senders but perhaps s that are kept granted are tended
LEMMA RemoveLined ==
  ASSUME NEW s \in Host, NEW r \in Lined({}, 0), NEW k \in Nat, NEW q, q = RemoveSender(r, s),
         TendedBut(r, s, k + 1)
  PROVE  /\ q \in Lined({s}, k) /\ Relisted(r, q)
         /\ s \in Needy(r) =>
              /\ Len(q.senders) + 1 = Len(r.senders)
              /\ RemovedFrom(r, s) = r.headIdx + Ahead(q, s)
              /\ Base(q) >= r.headIdx
              /\ Ahead(q, s) > k => q \in Lined({s}, k + 1)
         /\ s \notin Needy(r) =>
              q \in Lined({}, k + 1) /\ q.senders = r.senders /\ RemovedFrom(r, s) = -1
<1>0. \A j \in 1 .. Len(r.senders) : j <= k + 1 /\ r.senders[j] # s => Tended(r, r.senders[j])
  BY DEF TendedBut
<1> DEFINE f == r.senders
<1>1. /\ r \in Filers /\ r \in Receivers /\ r.headIdx \in Nat /\ Len(f) \in Nat
      /\ DOMAIN f = 1 .. Len(f) /\ f \in Seq(Host) /\ f \in Seq(Needy(r))
      /\ r.numToGrant = NumToKeepGranted /\ r.failed = {} /\ r.bwTimer = FALSE
      /\ SchedPrios \in Nat /\ NumToKeepGranted \in Nat /\ NumToKeepGranted > 0
      /\ NumToKeepGranted <= SchedPrios
  <2>1. /\ r \in Filers /\ r \in Receivers /\ r.headIdx \in Nat /\ Len(r.senders) \in Nat
        /\ DOMAIN r.senders = 1 .. Len(r.senders) /\ r.senders \in Seq(Host)
        /\ r.senders \in Seq(Needy(r))
    BY LinedData, Zenon
  <2>2. /\ r.numToGrant = NumToKeepGranted /\ r.failed = {} /\ r.bwTimer = FALSE
        /\ SchedPrios \in Nat /\ NumToKeepGranted \in Nat /\ NumToKeepGranted > 0
        /\ NumToKeepGranted <= SchedPrios
    BY LinedData, Zenon
  <2> QED BY <2>1, <2>2
<1>2. Elements(f) = Needy(r) /\ InOrder(Ranks(r), f) /\ Fits(r)
  BY DEF Lined
<1>3. s \in Needy(r) <=> r.toGrant[s] # <<>>
  BY DEF Needy
<1>4. Relisted(r, q)
  BY <1>1, RemoveSenderStep
<1>5. CASE s \in Needy(r)
  <2> DEFINE i == IndexOf(r, s)
  <2>1. i \in 1 .. Len(f) /\ f[i] = s
    <3>1. \E j \in DOMAIN f : f[j] = s
      BY <1>2, <1>5 DEF Elements
    <3> QED BY <1>1, <3>1 DEF IndexOf
  <2>2. f # <<>> /\ Listed(r, s)
    BY <1>1, <2>1 DEF Listed
  <2>3. q = RemoveIth(r, i) /\ RemovedFrom(r, s) = r.headIdx + i - 1
    BY <1>3, <1>5, <2>2 DEF RemoveSender, RemovedFrom
  <2> HIDE DEF i
  <2>4. \A j \in 1 .. Len(f) : j # i => f[j] # s
    <3>1. StrictOrder(Ranks(r), Needy(r))
      BY <1>1, RanksStrict
    <3>2. \A x, y \in DOMAIN f : f[x] = f[y] => x = y
      BY <1>1, <1>2, <3>1, SortedOnce
    <3> QED BY <1>1, <2>1, <3>2
  <2>5. \A j \in 1 .. Len(f) : j <= k + 1 /\ j # i => Tended(r, f[j])
    BY <1>0, <2>4
  <2>6. /\ q \in Lined({s}, k) /\ Len(q.senders) = Len(f) - 1 /\ Ahead(q, s) = i - 1
        /\ Base(q) >= r.headIdx
    <3>1. \A j \in 1 .. Len(f) : (j < i /\ j <= k) \/ (j > i /\ j <= k + 1) => Tended(r, f[j])
      BY <1>1, <2>1, <2>5
    <3>2. /\ RemoveIth(r, i) \in Lined({f[i]}, k)
          /\ Len(RemoveIth(r, i).senders) = Len(f) - 1
          /\ Ahead(RemoveIth(r, i), f[i]) = i - 1
          /\ Base(RemoveIth(r, i)) >= r.headIdx
      BY <2>1, <3>1, UnlistStep
    <3> QED BY <2>1, <2>3, <3>2
  <2>7. Ahead(q, s) > k => q \in Lined({s}, k + 1)
    <3> SUFFICES ASSUME i - 1 > k
                 PROVE  q \in Lined({s}, k + 1)
      BY <2>6
    <3>1. \A j \in 1 .. Len(f) : (j < i /\ j <= k + 1) \/ (j > i /\ j <= (k + 1) + 1) => Tended(r, f[j])
      BY <1>1, <2>1, <2>5
    <3> DEFINE k1 == k + 1
    <3>2. k1 \in Nat
      OBVIOUS
    <3> HIDE DEF k1
    <3>3. RemoveIth(r, i) \in Lined({f[i]}, k1)
      <4>1. \A j \in 1 .. Len(f) : (j < i /\ j <= k1) \/ (j > i /\ j <= k1 + 1) => Tended(r, f[j])
        BY <3>1 DEF k1
      <4> QED BY <2>1, <3>2, <4>1, UnlistStep
    <3> QED BY <2>1, <2>3, <3>3 DEF k1
  <2>8. RemovedFrom(r, s) = r.headIdx + Ahead(q, s) /\ Len(q.senders) + 1 = Len(f)
    BY <1>1, <2>1, <2>3, <2>6
  <2> QED BY <1>4, <1>5, <2>6, <2>7, <2>8
<1>6. CASE s \notin Needy(r)
  <2>1. RemovedFrom(r, s) = -1
    BY <1>3, <1>6 DEF RemovedFrom
  <2>2. q.senders = f /\ q.failed = {} /\ Fits(q)
    <3>1. CASE f = <<>>
      <4>1. q = [r EXCEPT !.headIdx = SchedPrios]
        BY <1>3, <1>6, <3>1 DEF RemoveSender, Require
      <4>2. q.senders = f /\ q.failed = {} /\ q.headIdx = SchedPrios
        BY <1>1, <4>1 DEF Receivers
      <4>3. Len(f) = 0
        BY <3>1
      <4>4. Lesser(Len(f), NumToKeepGranted) = 0
        BY <1>1, <4>3 DEF Lesser
      <4> QED BY <1>1, <4>2, <4>4 DEF Fits
    <3>2. CASE f # <<>>
      <4>1. q = r
        BY <1>3, <1>6, <3>2 DEF RemoveSender
      <4> QED BY <1>1, <1>2, <4>1
    <3> QED BY <3>1, <3>2
  <2>3. /\ q \in Filers /\ Needy(q) = Needy(r) /\ Ranks(q) = Ranks(r)
        /\ \A t : Tended(q, t) <=> Tended(r, t)
    BY <1>1, <1>4, RelistedFiler
  <2>4. q.numToGrant = NumToKeepGranted /\ q.bwTimer = FALSE
    BY <1>1, <1>4 DEF Relisted
  <2>5. Keeps(q, k + 1)
    <3>1. \A j \in 1 .. Len(f) : f[j] # s
      BY <1>1, <1>6
    <3> QED BY <1>0, <1>1, <2>2, <2>3, <3>1 DEF Keeps
  <2>6. q \in Lined({}, k + 1)
    BY <1>2, <2>2, <2>3, <2>4, <2>5 DEF Lined
  <2>7. q \in Lined({s}, k + 1)
    <3>1. Needy(q) \ {} = Needy(q) \ {s}
      BY <1>6, <2>3
    <3> QED BY <2>6, <3>1 DEF Lined
  <2>8. k + 1 \in Nat /\ k <= k + 1
    OBVIOUS
  <2>9. q \in Lined({s}, k)
    BY <2>7, <2>8, LinedLess
  <2> QED BY <1>4, <1>6, <2>1, <2>2, <2>6, <2>9
<1> QED BY <1>5, <1>6

-----------------------------------------------------------------------------
(* handleGrantSentEvent and the list.                                       *)

LEMMA LeftFewer ==
  ASSUME NEW r, NEW q, Ungranted(q) \in SUBSET Ungranted(r)
  PROVE  /\ Cardinality(Ungranted(q)) \in Nat /\ Cardinality(Ungranted(r)) \in Nat
         /\ Cardinality(Msg) \in Nat
         /\ Cardinality(Ungranted(q)) <= Cardinality(Ungranted(r))
         /\ Cardinality(Ungranted(r)) <= Cardinality(Msg)
         /\ Ungranted(q) # Ungranted(r) => Cardinality(Ungranted(q)) < Cardinality(Ungranted(r))
<1>1. IsFiniteSet(Msg) /\ Ungranted(r) \in SUBSET Msg
  BY FiniteAssumption DEF Ungranted
<1>2. IsFiniteSet(Ungranted(r)) /\ Cardinality(Ungranted(r)) <= Cardinality(Msg)
  BY <1>1, FS_Subset
<1>3. /\ IsFiniteSet(Ungranted(q)) /\ Cardinality(Ungranted(q)) <= Cardinality(Ungranted(r))
      /\ Cardinality(Ungranted(q)) = Cardinality(Ungranted(r)) => Ungranted(q) = Ungranted(r)
  BY <1>2, FS_Subset
<1> QED BY <1>1, <1>2, <1>3, FS_CardinalityType

\* A grant was sent to the sender of cur, which is not in the list.  Most is how
\* long the list may get, mark the mark of the oversubscription period, and left
\* bounds how many senders can still have to pass on their slot: only one whose
\* message has just got its last grant does, or one that was out of range before.
Passing(st, most, mark, left) ==
  LET r == st.r
      s == st.cur.s
  IN /\ st.going /\ s \in Host /\ r \in Lined({s}, NumToKeepGranted - 1)
     /\ st.cur = InsPoint(r, s)
     /\ st.old.sInd \in Nat /\ InRange(st.old) /\ st.old.sInd < Base(r) + NumToKeepGranted
     /\ s \in Needy(r) => Tended(r, s)
     /\ Len(r.senders) < most /\ r.oversub = mark
     /\ \/ Cardinality(Ungranted(r)) < left
        \/ Cardinality(Ungranted(r)) <= left /\ InRange(st.cur)

\* The list is complete again, and its first senders are tended.
Passed(st, most, mark) ==
  /\ ~st.going /\ st.r \in Lined({}, NumToKeepGranted)
  /\ Len(st.r.senders) <= most /\ st.r.oversub = mark

\* The sender of a grant that was in range
LEMMA SentPassing ==
  ASSUME NEW s \in Host, NEW r \in Lined({s}, NumToKeepGranted - 1), s \in Needy(r),
         Ahead(r, s) < NumToKeepGranted,
         NEW i \in Nat, i < Base(r) + NumToKeepGranted,
         NEW old, old.sInd = i, InRange(old),
         NEW left \in Int, Cardinality(Ungranted(r)) <= left,
         NEW most \in Nat, Len(r.senders) < most,
         NEW q, q = SendAndScheduleGrant(r, s, PrioForMesg(i))
  PROVE  Passing([r |-> q, old |-> old, cur |-> InsPoint(q, s), going |-> TRUE],
                 most, r.oversub, left)
<1> DEFINE n == NumToKeepGranted - 1
           cur == InsPoint(q, s)
<1>1. n \in Nat /\ NumToKeepGranted \in Nat
  BY SchedAssumption
<1>2. r \in Lined({s}, n)
  OBVIOUS
<1> HIDE DEF n
<1>3. /\ q \in Lined({s}, n) /\ SameLists(r, q) /\ Base(q) = Base(r)
      /\ s \in Needy(q) => Tended(q, s)
      /\ Ungranted(q) \in SUBSET Ungranted(r)
      /\ (s \in Needy(q) /\ Ahead(q, s) <= Ahead(r, s)) \/ Ungranted(q) # Ungranted(r)
  BY <1>1, <1>2, SendLined
<1>4. q \in Receivers
  BY <1>1, <1>3, LinedData
<1>5. cur.s = s
  BY <1>4, InsPointType
<1>6. Len(q.senders) < most /\ q.oversub = r.oversub
  BY <1>3 DEF SameLists
<1>7. Cardinality(Ungranted(q)) < left \/ (Cardinality(Ungranted(q)) <= left /\ InRange(cur))
  <2> DEFINE a == Cardinality(Ungranted(q))
             b == Cardinality(Ungranted(r))
  <2>1. a \in Nat /\ b \in Nat /\ a <= b /\ (Ungranted(q) # Ungranted(r) => a < b) /\ b <= left
    BY <1>3, LeftFewer
  <2>2. CASE Ungranted(q) # Ungranted(r)
    <3> HIDE DEF a, b
    <3>1. a < left
      BY <2>1, <2>2
    <3> QED BY <3>1 DEF a
  <2>3. CASE s \in Needy(q) /\ Ahead(q, s) <= Ahead(r, s)
    <3>1. /\ cur \in Places /\ cur.numToGrant = NumToKeepGranted
          /\ cur.sInd = cur.headIdx + Ahead(q, s) /\ Ahead(q, s) \in 0 .. Len(q.senders)
      BY <1>1, <1>3, <2>3, InsPointIs
    <3>2. r \in Receivers
      BY <1>1, <1>2, LinedData
    <3>3. Ahead(r, s) \in Nat /\ Len(q.senders) \in Nat
      <4>1. q.senders \in Seq(Host)
        BY <1>4 DEF Receivers, Lists
      <4> QED BY <3>2, <4>1, AheadType
    <3>4. cur.headIdx \in Nat
      BY <3>1 DEF Places
    <3>5. InRange(cur)
      <4> DEFINE x == Ahead(q, s)
                 y == Ahead(r, s)
                 h == cur.headIdx
                 e == cur.sInd
                 w == cur.numToGrant
      <4>1. /\ x \in Nat /\ y \in Nat /\ h \in Nat /\ e = h + x /\ w = NumToKeepGranted
            /\ x <= y /\ y < NumToKeepGranted
        BY <2>3, <3>1, <3>3, <3>4
      <4> HIDE DEF x, y, h, e, w
      <4>2. e >= h /\ e < h + w
        BY <1>1, <4>1
      <4> QED BY <4>2 DEF InRange, e, h, w
    <3> HIDE DEF a, b
    <3>6. a <= left
      BY <2>1
    <3> QED BY <3>5, <3>6 DEF a
  <2> QED BY <1>3, <2>2, <2>3
<1> HIDE DEF cur
<1>8. /\ q \in Lined({s}, NumToKeepGranted - 1)
      /\ old.sInd < Base(q) + NumToKeepGranted /\ old.sInd \in Nat
  BY <1>3 DEF n
<1> DEFINE st == [r |-> q, old |-> old, cur |-> cur, going |-> TRUE]
<1>9. st.r = q /\ st.old = old /\ st.cur = cur /\ st.going
  OBVIOUS
<1> HIDE DEF st
<1>10. Passing(st, most, r.oversub, left)
  BY <1>3, <1>5, <1>6, <1>7, <1>8, <1>9 DEF Passing, cur
<1> QED BY <1>10 DEF st, cur

LEMMA SendFirstPassing ==
  ASSUME NEW s \in Host, NEW r \in Lined({s}, NumToKeepGranted - 1),
         NEW at, at = InsPoint(r, s), s \in Needy(r), Ahead(r, s) < NumToKeepGranted,
         NEW most \in Nat, Len(r.senders) < most
  PROVE  Passing(SendFirst(r, s, at), most, r.oversub, Cardinality(Msg))
<1> DEFINE n == NumToKeepGranted - 1
           i == at.sInd
<1>1. n \in Nat /\ NumToKeepGranted \in Nat
  BY SchedAssumption
<1>2. r \in Lined({s}, n)
  OBVIOUS
<1> HIDE DEF n
<1>3. /\ at \in Places /\ at.numToGrant = NumToKeepGranted
      /\ at.sInd = at.headIdx + Ahead(r, s) /\ at.headIdx <= Base(r)
      /\ Ahead(r, s) \in 0 .. Len(r.senders)
  BY <1>1, <1>2, InsPointIs
<1>4. r.headIdx \in Nat /\ Len(r.senders) \in Nat /\ SchedPrios \in Nat
  BY <1>1, <1>2, LinedData
<1>5. at.headIdx \in Nat /\ Base(r) \in Int /\ Ahead(r, s) \in Nat
  BY <1>1, <1>3, <1>4 DEF Places, Base, Lesser
<1>6. i \in Nat /\ i < Base(r) + NumToKeepGranted /\ InRange(at)
  <2> DEFINE h == at.headIdx
             a == Ahead(r, s)
             b == Base(r)
             w == at.numToGrant
  <2>1. /\ h \in Nat /\ a \in Nat /\ b \in Int /\ i = h + a /\ h <= b /\ a < NumToKeepGranted
        /\ w = NumToKeepGranted
    BY <1>3, <1>5
  <2> HIDE DEF h, a, b, w, i
  <2>2. i \in Nat /\ i < b + NumToKeepGranted /\ i >= h /\ i < h + w
    BY <1>1, <2>1
  <2> QED BY <2>2 DEF InRange, h, b, w, i
<1>7. Cardinality(Ungranted(r)) <= Cardinality(Msg) /\ Cardinality(Msg) \in Int
  BY LeftFewer
<1> DEFINE q == SendAndScheduleGrant(r, s, PrioForMesg(i))
<1>8. SendFirst(r, s, at) = [r |-> q, old |-> at, cur |-> InsPoint(q, s), going |-> TRUE]
  BY DEF SendFirst
<1>9. at.sInd = i /\ q = SendAndScheduleGrant(r, s, PrioForMesg(i))
  OBVIOUS
<1> HIDE DEF i, q
<1>10. Passing([r |-> q, old |-> at, cur |-> InsPoint(q, s), going |-> TRUE], most, r.oversub,
               Cardinality(Msg))
  BY <1>6, <1>7, <1>9, SentPassing
<1> QED BY <1>8, <1>10

\* The last sender that is kept granted can be given the slot.
Grantable(r, cur) ==
  /\ r \in Lined({}, NumToKeepGranted - 1) /\ NumToKeepGranted <= Len(r.senders)
  /\ cur \in Places /\ cur.headIdx = r.headIdx /\ cur.numToGrant = NumToKeepGranted

\* The slot of old is given to s, the last sender that is kept granted, and q is the
\* list without it.
SlotGiven(r, cur, ind, q, s, old) ==
  /\ q \in Lined({s}, NumToKeepGranted - 1) /\ Relisted(r, q) /\ s \in Needy(q) /\ s \in Host
  /\ Len(q.senders) = Len(r.senders) - 1 /\ Ahead(q, s) < NumToKeepGranted
  /\ ind \in Nat /\ ind < Base(q) + NumToKeepGranted /\ old.sInd = ind /\ InRange(old)
  /\ LET sent == SendAndScheduleGrant(q, s, PrioForMesg(ind))
     IN GrantAt(r, cur, ind) = [r |-> sent, old |-> old, cur |-> InsPoint(sent, s), going |-> TRUE]

LEMMA GrantAtCases ==
  ASSUME NEW r, NEW cur, Grantable(r, cur), NEW ind, ind = cur.headIdx + NumToKeepGranted - 1
  PROVE  \E q, s, old : SlotGiven(r, cur, ind, q, s, old)
<1> DEFINE K == NumToKeepGranted
           n == K - 1
           s == r.senders[K]
           q == RemoveIth(r, K)
           sent == SendAndScheduleGrant(q, s, PrioForMesg(ind))
           old == [cur EXCEPT !.s = s, !.sInd = ind]
<1>1. n \in Nat /\ K \in Nat /\ 0 \in Nat /\ 0 <= n /\ K > 0
  BY SchedAssumption
<1>2. /\ r \in Lined({}, n) /\ K <= Len(r.senders)
      /\ cur \in Places /\ cur.headIdx = r.headIdx /\ cur.numToGrant = K
  BY DEF Grantable
<1> HIDE DEF K
<1>3. r.headIdx \in Nat /\ Len(r.senders) \in Nat /\ DOMAIN r.senders = 1 .. Len(r.senders)
  <2>1. r \in Lined({}, n)
    BY <1>2
  <2> HIDE DEF n
  <2>2. r.headIdx \in Nat /\ r.senders \in Seq(Host)
    BY <2>1, LinedData
  <2> QED BY <2>2
<1>4. r \in Lined({}, 0)
  <2> HIDE DEF n
  <2> QED BY <1>1, <1>2, LinedLess
<1>5. K \in 1 .. Len(r.senders)
  BY <1>1, <1>2, <1>3
<1>6. \A j \in 1 .. Len(r.senders) : (j < K /\ j <= n) \/ (j > K /\ j <= n + 1) => Tended(r, r.senders[j])
  <2>1. Keeps(r, n)
    BY <1>2 DEF Lined
  <2>2. \A j \in 1 .. Len(r.senders) : ~(j > K /\ j <= n + 1)
    BY <1>1
  <2> HIDE DEF n
  <2> QED BY <1>3, <2>1, <2>2 DEF Keeps
<1>7. /\ q \in Lined({s}, n) /\ Relisted(r, q) /\ s \in Needy(r) /\ s \in Host
      /\ Len(q.senders) = Len(r.senders) - 1 /\ Ahead(q, s) = K - 1 /\ Base(q) >= r.headIdx
  <2> HIDE DEF n
  <2> QED BY <1>1, <1>4, <1>5, <1>6, UnlistStep
<1>8. ind \in Nat /\ ind = r.headIdx + n /\ ind - r.headIdx + 1 = K
  BY <1>1, <1>2, <1>3 DEF K
<1>9. GrantAt(r, cur, ind) = [r |-> sent, old |-> old, cur |-> InsPoint(sent, s), going |-> TRUE]
  BY <1>2, <1>3, <1>5, <1>8 DEF GrantAt
<1>10. old.sInd = ind /\ old.headIdx = cur.headIdx /\ old.numToGrant = K
  BY <1>2 DEF Places
<1>11. InRange(old)
  <2>1. ind >= cur.headIdx /\ ind < cur.headIdx + K
    BY <1>1, <1>2, <1>3, <1>8
  <2> QED BY <1>10, <2>1 DEF InRange
<1>12. s \in Needy(q)
  BY <1>7 DEF Needy, Relisted, SameMesgs
<1>13. Ahead(q, s) < K
  BY <1>1, <1>3, <1>7
<1>14. ind < Base(q) + K
  <2>1. Base(q) \in Int
    <3>1. q.headIdx \in Nat /\ Len(q.senders) \in Nat /\ SchedPrios \in Nat
      <4> HIDE DEF n, q
      <4> QED BY <1>1, <1>7, LinedData
    <3> HIDE DEF q
    <3> QED BY <3>1, SchedAssumption DEF Base, Lesser
  <2> DEFINE b == Base(q)
             h == r.headIdx
  <2>2. b \in Int /\ h \in Nat /\ b >= h /\ ind = h + n
    BY <1>3, <1>7, <1>8, <2>1
  <2> HIDE DEF b, h
  <2> QED BY <1>1, <2>2 DEF b
<1>15. SlotGiven(r, cur, ind, q, s, old)
  <2>1. q \in Lined({s}, NumToKeepGranted - 1)
    BY <1>7 DEF K
  <2> HIDE DEF q, s, old
  <2> QED BY <1>7, <1>8, <1>9, <1>10, <1>11, <1>12, <1>13, <1>14, <2>1 DEF SlotGiven, K, sent
<1> QED BY <1>15

LEMMA GrantAtPassing ==
  ASSUME NEW r, NEW cur, Grantable(r, cur), NEW ind, ind = cur.headIdx + NumToKeepGranted - 1,
         NEW left \in Int, Cardinality(Ungranted(r)) <= left,
         NEW most \in Nat, Len(r.senders) <= most
  PROVE  Passing(GrantAt(r, cur, ind), most, r.oversub, left)
<1>1. PICK q, s, old : SlotGiven(r, cur, ind, q, s, old)
  BY GrantAtCases
<1> DEFINE sent == SendAndScheduleGrant(q, s, PrioForMesg(ind))
           n == NumToKeepGranted - 1
<1>2. /\ q \in Lined({s}, NumToKeepGranted - 1) /\ Relisted(r, q) /\ s \in Needy(q) /\ s \in Host
      /\ Len(q.senders) = Len(r.senders) - 1 /\ Ahead(q, s) < NumToKeepGranted
      /\ ind \in Nat /\ ind < Base(q) + NumToKeepGranted /\ old.sInd = ind /\ InRange(old)
      /\ GrantAt(r, cur, ind) = [r |-> sent, old |-> old, cur |-> InsPoint(sent, s), going |-> TRUE]
  BY <1>1 DEF SlotGiven
<1>3. q.oversub = r.oversub /\ Ungranted(q) = Ungranted(r)
  BY <1>2 DEF Ungranted, Relisted, SameMesgs
<1>4. Len(q.senders) < most
  <2>1. r \in Lined({}, n)
    BY DEF Grantable
  <2> HIDE DEF n
  <2>2. Len(r.senders) \in Nat
    BY <2>1, LinedData
  <2> QED BY <1>2, <2>2
<1>5. Cardinality(Ungranted(q)) <= left /\ sent = SendAndScheduleGrant(q, s, PrioForMesg(ind))
  BY <1>3
<1> HIDE DEF sent
<1>6. Passing([r |-> sent, old |-> old, cur |-> InsPoint(sent, s), going |-> TRUE],
              most, q.oversub, left)
  BY <1>2, <1>4, <1>5, SentPassing
<1> QED BY <1>2, <1>3, <1>6

LEMMA PassOnPassed ==
  ASSUME NEW st, NEW most, NEW mark, Passed(st, most, mark)
  PROVE  PassOn(st) = st
BY DEF Passed, PassOn

LEMMA SettledPassed ==
  ASSUME NEW r \in Lined({}, NumToKeepGranted), NEW most, Len(r.senders) <= most, NEW cur
  PROVE  Passed(Settled(r, cur), most, r.oversub)
BY DEF Passed, Settled

\* One call of handleGrantSentEvent settles the list x, or grants the last of its
\* senders that are kept granted: the sender granted before has left the range.
PassOnTo(st, most, left, x) ==
  /\ Relisted(st.r, x) /\ Len(x.senders) <= most
  /\ \/ PassOn(st) = Settled(x, st.cur) /\ x \in Lined({}, NumToKeepGranted)
     \/ /\ PassOn(st) = GrantAt(x, st.cur, st.cur.headIdx + NumToKeepGranted - 1)
        /\ Grantable(x, st.cur) /\ ~InRange(st.cur) /\ Cardinality(Ungranted(x)) <= left - 1

\* None of its assertions fails.
LEMMA PassOnCases ==
  ASSUME NEW st, NEW most \in Nat, NEW mark, NEW left \in Int, Passing(st, most, mark, left)
  PROVE  \E x : PassOnTo(st, most, left, x)
<1> DEFINE r == st.r
           cur == st.cur
           s == st.cur.s
           o == st.old.sInd
           K == NumToKeepGranted
           n == K - 1
           a == Ahead(r, s)
           ins == InsertSender(r, s)
           ind == cur.headIdx + cur.numToGrant - 1
           q == PassOn(st)
<1>1. /\ st.going /\ s \in Host /\ r \in Lined({s}, n) /\ cur = InsPoint(r, s)
      /\ o \in Nat /\ InRange(st.old) /\ o < Base(r) + K
      /\ s \in Needy(r) => Tended(r, s)
      /\ Len(r.senders) < most /\ r.oversub = mark
      /\ Cardinality(Ungranted(r)) < left \/ (Cardinality(Ungranted(r)) <= left /\ InRange(cur))
  BY DEF Passing
<1>2. n \in Nat /\ K \in Nat /\ K > 0
  BY SchedAssumption
<1>3. /\ r \in Receivers /\ r.headIdx \in Nat /\ Len(r.senders) \in Nat
      /\ r.numToGrant = K /\ DOMAIN r.senders = 1 .. Len(r.senders)
  <2> HIDE DEF r, s, n
  <2> QED BY <1>1, <1>2, LinedData DEF K
<1>4. Cardinality(Ungranted(r)) \in Nat
  BY LeftFewer
<1> HIDE DEF r, cur, o
<1>5. /\ cur \in Places /\ cur.s = s /\ cur.numToGrant = K /\ cur.headIdx \in Nat /\ cur.sInd \in Int
      /\ r.toGrant[s] = <<>> => cur.sInd = -1 /\ cur.headIdx = r.headIdx
                                /\ cur.numSenders = Len(r.senders)
      /\ r.toGrant[s] # <<>> => cur.sInd = cur.headIdx + a
                                /\ cur.numSenders = Len(r.senders) + 1
  <2>1. /\ cur \in Places /\ cur.s = s /\ cur.numToGrant = K
        /\ r.toGrant[s] = <<>> => cur.sInd = -1 /\ cur.headIdx = r.headIdx
                                  /\ cur.numSenders = Len(r.senders)
        /\ r.toGrant[s] # <<>> => cur.sInd = cur.headIdx + a
                                  /\ cur.numSenders = Len(r.senders) + 1
    <3> HIDE DEF s, K
    <3> QED BY <1>1, <1>3, InsPointType
  <2> QED BY <2>1 DEF Places
<1>6. q = IF o = cur.sInd
            THEN Settled(InsertSender(Require(r, InRange(cur), "handleGrantSent: cur out of range"), s), cur)
          ELSE IF cur.sInd >= 0 /\ cur.sInd < cur.headIdx
            THEN Settled(Require(r, FALSE, "handleGrantSent: invalid position"), cur)
          ELSE IF SlotIsFree(cur) THEN GrantAt(IF cur.sInd >= 0 THEN ins ELSE r, cur, ind)
          ELSE Settled(IF cur.sInd >= 0 THEN ins ELSE r, cur)
  <2>1. Require(r, InRange(st.old), "handleGrantSent: old out of range") = r
    BY <1>1 DEF Require
  <2> QED BY <1>1, <2>1 DEF PassOn, r, cur, o
<1>7. s \in Needy(r) <=> r.toGrant[s] # <<>>
  BY <1>1 DEF Needy
<1>8. InRange(cur) <=> cur.sInd >= cur.headIdx /\ cur.sInd < cur.headIdx + K
  BY <1>5 DEF InRange
<1>9. SlotIsFree(cur) <=> (cur.sInd < 0 \/ cur.sInd >= K + cur.headIdx) /\ cur.numSenders >= K
  BY <1>5 DEF SlotIsFree
<1>10. ~InRange(cur) => Cardinality(Ungranted(r)) <= left - 1
  BY <1>1, <1>4
<1>11. ind = cur.headIdx + K - 1
  BY <1>5
<1> HIDE DEF q, s, ind
<1>12. CASE s \notin Needy(r)
  <2>1. cur.sInd = -1 /\ cur.headIdx = r.headIdx /\ cur.numSenders = Len(r.senders)
    BY <1>5, <1>7, <1>12
  <2>2. o # cur.sInd /\ ~(cur.sInd >= 0) /\ ~InRange(cur)
    BY <1>1, <1>5, <1>8, <2>1
  <2>3. r \in Lined({}, n)
    BY <1>1, <1>12, LinedAll
  <2>4. CASE Len(r.senders) >= K
    <3>1. q = GrantAt(r, cur, ind)
      BY <1>6, <1>9, <2>1, <2>2, <2>4
    <3>2. Len(r.senders) <= most /\ K <= Len(r.senders)
      BY <1>1, <1>2, <1>3, <2>4
    <3>3. Grantable(r, cur)
      BY <1>5, <2>1, <2>3, <3>2 DEF Grantable
    <3>4. PassOnTo(st, most, left, r)
      BY <1>3, <1>10, <1>11, <2>2, <3>1, <3>2, <3>3 DEF PassOnTo, Relisted, SameMesgs, q, r, cur
    <3> QED BY <3>4
  <2>5. CASE Len(r.senders) < K
    <3>1. q = Settled(r, cur)
      BY <1>2, <1>3, <1>6, <1>9, <2>1, <2>2, <2>5
    <3>2. r \in Lined({}, K)
      <4>1. \A i \in 1 .. Len(r.senders) : i <= n
        BY <1>2, <1>3, <2>5
      <4>2. Keeps(r, n)
        BY <2>3 DEF Lined
      <4>3. Keeps(r, K)
        <5> HIDE DEF n
        <5> QED BY <1>3, <4>1, <4>2 DEF Keeps
      <4> QED BY <2>3, <4>3 DEF Lined
    <3>3. Len(r.senders) <= most
      BY <1>1, <1>3
    <3>4. PassOnTo(st, most, left, r)
      BY <1>3, <3>1, <3>2, <3>3 DEF PassOnTo, Relisted, SameMesgs, q, r, cur
    <3> QED BY <3>4
  <2> QED BY <1>2, <1>3, <2>4, <2>5
<1>13. CASE s \in Needy(r)
  <2>1. /\ cur.sInd = cur.headIdx + a /\ cur.numSenders = Len(r.senders) + 1
        /\ a \in 0 .. Len(r.senders) /\ cur.headIdx <= Base(r)
        /\ a > 0 => cur.headIdx = Base(r)
    <3> HIDE DEF n, a
    <3>1. /\ InsPoint(r, s).headIdx <= Base(r) /\ a \in 0 .. Len(r.senders)
          /\ a > 0 => InsPoint(r, s).headIdx = Base(r)
      BY <1>1, <1>2, <1>13, InsPointIs DEF a
    <3> QED BY <1>1, <1>5, <1>7, <1>13, <3>1
  <2>2. a \in Nat /\ cur.sInd >= 0 /\ ~(cur.sInd < cur.headIdx)
    BY <1>3, <1>5, <2>1
  <2>3. InRange(cur) <=> a < K
    BY <1>2, <1>5, <1>8, <2>1, <2>2
  <2>4. Tended(r, s)
    BY <1>1, <1>13
  <2>5. a < K => /\ ins \in Lined({}, K) /\ Len(ins.senders) = Len(r.senders) + 1
                 /\ Relisted(r, ins)
    <3> SUFFICES ASSUME a < K
                 PROVE  /\ ins \in Lined({}, K) /\ Len(ins.senders) = Len(r.senders) + 1
                        /\ Relisted(r, ins)
      OBVIOUS
    <3>1. K = n + 1 /\ a <= n
      BY <1>2, <2>2
    <3> HIDE DEF n, K
    <3>2. /\ ins \in Lined({}, K) /\ Relisted(r, ins) /\ Len(ins.senders) = Len(r.senders) + 1
      BY <1>1, <1>2, <1>13, <2>4, <3>1, InsertLined
    <3> QED BY <3>2
  <2>6. CASE a < K
    <3>1. Require(r, InRange(cur), "handleGrantSent: cur out of range") = r
      BY <2>3, <2>6 DEF Require
    <3>2. ~SlotIsFree(cur)
      BY <1>2, <1>5, <1>9, <2>1, <2>2, <2>6
    <3>3. q = Settled(ins, cur)
      BY <1>6, <2>2, <3>1, <3>2
    <3>4. Len(ins.senders) <= most
      BY <1>1, <1>3, <2>5, <2>6
    <3> HIDE DEF ins
    <3>5. PassOnTo(st, most, left, ins)
      BY <2>5, <2>6, <3>3, <3>4 DEF PassOnTo, q, r, cur
    <3> QED BY <3>5
  <2>7. CASE a >= K
    <3>1. cur.headIdx = Base(r) /\ ~InRange(cur) /\ SlotIsFree(cur)
      BY <1>2, <1>3, <1>5, <1>9, <2>1, <2>2, <2>3, <2>7
    <3>2. o # cur.sInd
      <4> DEFINE b == Base(r)
                 h == cur.headIdx
                 e == cur.sInd
      <4>1. h = b /\ h \in Nat /\ e = h + a /\ o < b + K
        BY <1>1, <1>5, <2>1, <3>1
      <4> HIDE DEF b, h, e
      <4>2. o # e
        BY <1>1, <1>2, <2>2, <2>7, <4>1
      <4> QED BY <4>2 DEF e
    <3>3. q = GrantAt(ins, cur, ind)
      BY <1>6, <2>2, <3>1, <3>2
    <3>4. /\ ins \in Lined({}, n) /\ Relisted(r, ins)
          /\ ins.headIdx = cur.headIdx /\ Len(ins.senders) = Len(r.senders) + 1
      <4>1. n <= n
        BY <1>2
      <4> HIDE DEF n
      <4> QED BY <1>1, <1>2, <1>13, <2>4, <4>1, InsertLined
    <3>5. Len(ins.senders) <= most /\ K <= Len(ins.senders)
      BY <1>1, <1>2, <1>3, <2>1, <2>2, <2>7, <3>4
    <3>6. Ungranted(ins) = Ungranted(r)
      BY <3>4 DEF Relisted, SameMesgs, Ungranted
    <3>7. Cardinality(Ungranted(ins)) <= left - 1
      BY <1>10, <3>1, <3>6
    <3> HIDE DEF ins
    <3>8. Grantable(ins, cur)
      BY <1>5, <3>4, <3>5 DEF Grantable
    <3>9. PassOnTo(st, most, left, ins)
      BY <1>11, <3>1, <3>3, <3>4, <3>5, <3>7, <3>8 DEF PassOnTo, q, r, cur
    <3> QED BY <3>9
  <2> QED BY <1>2, <2>2, <2>6, <2>7
<1> QED BY <1>12, <1>13

LEMMA PassOnPassing ==
  ASSUME NEW st, NEW most \in Nat, NEW mark, NEW left \in Int, Passing(st, most, mark, left)
  PROVE  Passing(PassOn(st), most, mark, left - 1) \/ Passed(PassOn(st), most, mark)
<1> DEFINE ind == st.cur.headIdx + NumToKeepGranted - 1
<1>1. PICK x : PassOnTo(st, most, left, x)
  BY PassOnCases
<1>2. Len(x.senders) <= most /\ x.oversub = mark
  BY <1>1 DEF PassOnTo, Relisted, Passing
<1>3. CASE PassOn(st) = Settled(x, st.cur) /\ x \in Lined({}, NumToKeepGranted)
  <2>1. Passed(Settled(x, st.cur), most, x.oversub)
    BY <1>2, <1>3, SettledPassed
  <2> QED BY <1>2, <1>3, <2>1
<1>4. CASE /\ PassOn(st) = GrantAt(x, st.cur, ind) /\ Grantable(x, st.cur)
           /\ Cardinality(Ungranted(x)) <= left - 1
  <2>1. left - 1 \in Int
    OBVIOUS
  <2> HIDE DEF ind
  <2>2. Passing(GrantAt(x, st.cur, ind), most, x.oversub, left - 1)
    BY <1>2, <1>4, <2>1, GrantAtPassing DEF ind
  <2> QED BY <1>2, <1>4, <2>2
<1> QED BY <1>1, <1>3, <1>4 DEF PassOnTo

\* The calls of handleGrantSentEvent, the last of which finds nothing to do.
CallsOf(after, st, most, mark) ==
  LET all == Cardinality(Msg)
  IN /\ CallsFrom(after, st, all + 1)
     /\ \A k \in 0 .. all + 1 :
          Passing(after[k], most, mark, all - k) \/ Passed(after[k], most, mark)
     /\ Passed(after[all + 1], most, mark)
     /\ HandleGrantSent(st) = after[all + 1].r

LEMMA CallsPass ==
  ASSUME NEW st, NEW most \in Nat, NEW mark,
         Passing(st, most, mark, Cardinality(Msg)) \/ Passed(st, most, mark)
  PROVE  \E after : CallsOf(after, st, most, mark)
<1> DEFINE all == Cardinality(Msg)
           calls == all + 1
           after == CHOOSE f : CallsFrom(f, st, calls)
           Good(k) == Passing(after[k], most, mark, all - k) \/ Passed(after[k], most, mark)
           T == {k \in 0 .. calls : ~Good(k)}
<1>1. all \in Nat /\ calls \in Nat
  BY FiniteAssumption, FS_CardinalityType
<1>2. HandleGrantSent(st) =
        Require(after[calls].r, ~after[calls].going, "handleGrantSent: unbounded")
  BY DEF HandleGrantSent, CallsFrom
<1>3. CallsFrom(after, st, calls)
  <2> HIDE DEF calls
  <2> QED BY <1>1, CallsExist
<1> HIDE DEF after
<1>4. \A k \in 0 .. calls : after[k] = IF k = 0 THEN st ELSE PassOn(after[k - 1])
  BY <1>3 DEF CallsFrom
<1> HIDE DEF all, calls
<1>5. T = {}
  <2>1. SUFFICES ASSUME T # {}
                 PROVE  FALSE
    OBVIOUS
  <2>2. PICK k \in T : \A j \in T : k <= j
    <3>1. T \in SUBSET Nat
      BY <1>1
    <3> HIDE DEF T
    <3> QED BY <2>1, <3>1, LeastElement
  <2>3. k \in 0 .. calls /\ k \in Nat /\ ~Good(k)
    BY <1>1, <2>2
  <2>4. k # 0
    <3>1. 0 \in 0 .. calls /\ all - 0 = all
      BY <1>1
    <3>2. after[0] = st
      BY <1>4, <3>1
    <3>3. Good(0)
      BY <3>1, <3>2 DEF all
    <3> QED BY <2>3, <3>3
  <2>5. k - 1 \in 0 .. calls /\ k - 1 \notin T
    BY <1>1, <2>2, <2>3, <2>4
  <2>6. Good(k - 1)
    BY <2>5
  <2>7. after[k] = PassOn(after[k - 1])
    BY <1>4, <2>3, <2>4
  <2>8. CASE Passing(after[k - 1], most, mark, all - (k - 1))
    <3> DEFINE left == all - (k - 1)
    <3>1. left \in Int /\ left - 1 = all - k
      BY <1>1, <2>3
    <3> HIDE DEF left
    <3>2. Passing(after[k - 1], most, mark, left)
      BY <2>8 DEF left
    <3>3. Passing(PassOn(after[k - 1]), most, mark, left - 1) \/ Passed(PassOn(after[k - 1]), most, mark)
      BY <3>1, <3>2, PassOnPassing
    <3> QED BY <2>3, <2>7, <3>1, <3>3
  <2>9. CASE Passed(after[k - 1], most, mark)
    <3>1. PassOn(after[k - 1]) = after[k - 1]
      BY <2>9, PassOnPassed
    <3> QED BY <2>3, <2>7, <2>9, <3>1
  <2> QED BY <2>6, <2>8, <2>9
<1>6. Good(calls)
  <2>1. calls \in 0 .. calls
    BY <1>1
  <2> QED BY <1>5, <2>1
<1>7. Passed(after[calls], most, mark)
  <2>1. all - calls = -1
    BY <1>1 DEF calls
  <2>2. ASSUME Passing(after[calls], most, mark, -1)
        PROVE  FALSE
    <3> DEFINE c == Cardinality(Ungranted(after[calls].r))
    <3>1. c \in Nat
      BY LeftFewer
    <3>2. c < -1 \/ c <= -1
      BY <2>2 DEF Passing
    <3> HIDE DEF c
    <3> QED BY <3>1, <3>2
  <2> QED BY <1>6, <2>1, <2>2
<1>8. HandleGrantSent(st) = after[calls].r
  BY <1>2, <1>7 DEF Require, Passed
<1>9. \A k \in 0 .. calls :
        Passing(after[k], most, mark, all - k) \/ Passed(after[k], most, mark)
  BY <1>5
<1>10. CallsOf(after, st, most, mark)
  BY <1>3, <1>7, <1>8, <1>9 DEF CallsOf, calls, all
<1> QED BY <1>10

\* handleGrantSentEvent ends, and no assertion fails.
LEMMA HandleGrantSentLined ==
  ASSUME NEW st, NEW most \in Nat, NEW mark,
         Passing(st, most, mark, Cardinality(Msg)) \/ Passed(st, most, mark)
  PROVE  /\ HandleGrantSent(st) \in Lined({}, NumToKeepGranted)
         /\ Len(HandleGrantSent(st).senders) <= most
         /\ HandleGrantSent(st).oversub = mark
<1>1. PICK after : CallsOf(after, st, most, mark)
  BY CallsPass
<1> QED BY <1>1 DEF CallsOf, Passed

-----------------------------------------------------------------------------
(* The handlers and the list.                                               *)

\* Before an event all the senders that are kept granted are tended, but perhaps s.
LEMMA TakenOut ==
  ASSUME NEW s \in Host, NEW r \in Lined({}, 0), NEW q, q = RemoveSender(r, s),
         \A j \in 1 .. Len(r.senders) :
           j <= NumToKeepGranted /\ r.senders[j] # s => Tended(r, r.senders[j])
  PROVE  /\ q \in Lined({s}, NumToKeepGranted - 1) /\ Relisted(r, q)
         /\ s \in Needy(r) =>
              /\ Len(q.senders) + 1 = Len(r.senders)
              /\ RemovedFrom(r, s) = r.headIdx + Ahead(q, s)
              /\ Ahead(q, s) > NumToKeepGranted - 1 => q \in Lined({s}, NumToKeepGranted)
         /\ s \notin Needy(r) =>
              q \in Lined({}, NumToKeepGranted) /\ q.senders = r.senders /\ RemovedFrom(r, s) = -1
<1> DEFINE k == NumToKeepGranted - 1
<1>1. k \in Nat /\ k + 1 = NumToKeepGranted
  BY SchedAssumption
<1>2. TendedBut(r, s, k + 1)
  BY <1>1 DEF TendedBut
<1> HIDE DEF k
<1>3. /\ q \in Lined({s}, k) /\ Relisted(r, q)
      /\ s \in Needy(r) =>
           /\ Len(q.senders) + 1 = Len(r.senders)
           /\ RemovedFrom(r, s) = r.headIdx + Ahead(q, s)
           /\ Base(q) >= r.headIdx
           /\ Ahead(q, s) > k => q \in Lined({s}, k + 1)
      /\ s \notin Needy(r) =>
           q \in Lined({}, k + 1) /\ q.senders = r.senders /\ RemovedFrom(r, s) = -1
  <2>1. k \in Nat
    BY <1>1
  <2>2. s \in Host /\ r \in Lined({}, 0) /\ q = RemoveSender(r, s)
    OBVIOUS
  <2> QED BY ONLY <1>2, <2>1, <2>2, RemoveLined
<1>4. NumToKeepGranted - 1 = k
  BY DEF k
<1>5. Lined({s}, k + 1) = Lined({s}, NumToKeepGranted) /\ Lined({}, k + 1) = Lined({}, NumToKeepGranted)
  BY <1>1, Zenon
<1>6. (Ahead(q, s) > k) = (Ahead(q, s) > NumToKeepGranted - 1)
  BY <1>4, Zenon
<1>7. Lined({s}, NumToKeepGranted - 1) = Lined({s}, k)
  BY <1>4, Zenon
<1> QED BY <1>3, <1>5, <1>6, <1>7, Zenon

\* What Lined speaks about
SameLined(r, q) ==
  /\ q.inbnd = r.inbnd /\ q.toGrant = r.toGrant /\ q.timer = r.timer
  /\ q.senders = r.senders /\ q.headIdx = r.headIdx /\ q.numToGrant = r.numToGrant
  /\ q.bwTimer = r.bwTimer /\ q.failed = r.failed

LEMMA LinedSame ==
  ASSUME NEW out, NEW n, NEW r \in Lined(out, n), NEW q \in Filers, SameLined(r, q)
  PROVE  q \in Lined(out, n)
<1>1. Needy(q) = Needy(r) /\ (\A s : Tended(q, s) <=> Tended(r, s))
  BY DEF SameLined, Needy, Tended, Top
<1>2. \A a, b : Better(q, Top(q, a), Top(q, b)) <=> Better(r, Top(r, a), Top(r, b))
  BY DEF SameLined, Better, Top
<1>3. Ranks(q) = Ranks(r)
  BY <1>2 DEF Ranks
<1>4. Keeps(r, n) /\ Fits(r)
  BY DEF Lined
<1>5. Keeps(q, n)
  BY <1>1, <1>4 DEF Keeps, SameLined
<1>6. Fits(q)
  BY <1>4 DEF Fits, SameLined
<1> QED BY <1>1, <1>3, <1>5, <1>6 DEF Lined, SameLined

LEMMA InsertBehind ==
  ASSUME NEW s \in Host, NEW r \in Lined({s}, NumToKeepGranted), s \in Needy(r),
         Ahead(r, s) >= NumToKeepGranted
  PROVE  /\ InsertSender(r, s) \in Lined({}, NumToKeepGranted)
         /\ Relisted(r, InsertSender(r, s))
         /\ Len(InsertSender(r, s).senders) = Len(r.senders) + 1
<1> DEFINE K == NumToKeepGranted
<1>1. K \in Nat /\ K <= K
  BY SchedAssumption
<1>2. r \in Lined({s}, K) /\ Ahead(r, s) >= K
  OBVIOUS
<1> HIDE DEF K
<1>3. /\ InsertSender(r, s) \in Lined({}, K) /\ Relisted(r, InsertSender(r, s))
      /\ Len(InsertSender(r, s).senders) = Len(r.senders) + 1
  BY <1>1, <1>2, InsertLined
<1> QED BY <1>3 DEF K

WasGranted(old) == old.sInd >= 0 /\ old.sInd < old.numToGrant + old.headIdx

\* How handlePktArrivalEvent begins: the sender of the packet is granted, or the list x
\* that holds it again is settled or gives its slot to another sender.
Begins(st, r, s, cur, x) ==
  \/ st = SendFirst(r, s, cur) /\ s \in Needy(r) /\ Ahead(r, s) < NumToKeepGranted
  \/ /\ Relisted(r, x) /\ Len(x.senders) <= Len(r.senders) + 1
     /\ \/ st = Settled(x, cur) /\ x \in Lined({}, NumToKeepGranted)
        \/ st = GrantAt(x, cur, cur.headIdx + NumToKeepGranted - 1) /\ Grantable(x, cur)

\* A sender that was kept granted when the packet arrived left room for one of the
\* others, and a sender that was not had no slot to give.
LEMMA HandlePktArrivalCases ==
  ASSUME NEW s \in Host, NEW r \in Lined({s}, NumToKeepGranted - 1),
         NEW old, NEW cur, cur = InsPoint(r, s),
         WasGranted(old) => InRange(old) /\ s \in Needy(r),
         ~WasGranted(old) => r \in Lined({s}, NumToKeepGranted)
  PROVE  \E st, x : HandlePktArrival(r, old, cur) = HandleGrantSent(st) /\ Begins(st, r, s, cur, x)
<1> DEFINE K == NumToKeepGranted
           n == K - 1
           most == Len(r.senders) + 1
           last == cur.headIdx + Lesser(cur.numSenders, cur.numToGrant) - 1
           check == Require(r, WasGranted(old) => InRange(old),
                            "handlePktArrival: invalid old position")
           st == IF cur.sInd < 0
                   THEN IF WasGranted(old) THEN GrantAt(check, cur, last) ELSE Settled(r, cur)
                 ELSE IF cur.sInd >= cur.headIdx + cur.numToGrant
                   THEN IF WasGranted(old) THEN GrantAt(InsertSender(check, cur.s), cur, last)
                                           ELSE Settled(InsertSender(r, cur.s), cur)
                 ELSE SendFirst(r, cur.s, cur)
           a == Ahead(r, s)
           ins == InsertSender(r, s)
<1>1. HandlePktArrival(r, old, cur) = HandleGrantSent(st)
  BY DEF HandlePktArrival, WasGranted
<1>2. n \in Nat /\ K \in Nat /\ K > 0 /\ r \in Lined({s}, n)
  BY SchedAssumption
<1> HIDE DEF K
<1>3. /\ r \in Receivers /\ Len(r.senders) \in Nat /\ r.numToGrant = K
      /\ r.senders \in Seq(Host)
  <2> HIDE DEF n
  <2> QED BY <1>2, LinedData DEF K
<1>4. most \in Nat /\ Len(r.senders) < most /\ Len(r.senders) <= most
  BY <1>3
<1>5. /\ cur \in Places /\ cur.s = s /\ cur.numToGrant = K
      /\ r.toGrant[s] = <<>> => cur.sInd = -1
      /\ r.toGrant[s] # <<>> => cur.sInd = cur.headIdx + a
                                /\ cur.numSenders = Len(r.senders) + 1
  BY <1>3, InsPointType
<1>6. cur.headIdx \in Nat /\ a \in Nat
  BY <1>3, <1>5, AheadType DEF Places
<1>7. check = r
  BY DEF Require
<1>8. s \in Needy(r) <=> r.toGrant[s] # <<>>
  BY DEF Needy
<1>9. ASSUME NEW x, Begins(st, r, s, cur, x)
      PROVE  \E e, y : HandlePktArrival(r, old, cur) = HandleGrantSent(e) /\ Begins(e, r, s, cur, y)
  <2> HIDE DEF st
  <2> QED BY <1>1, <1>9
<1> HIDE DEF check, last, most
<1>10. CASE s \notin Needy(r)
  <2>1. cur.sInd < 0 /\ ~WasGranted(old)
    BY <1>5, <1>8, <1>10
  <2>2. st = Settled(r, cur)
    BY <2>1
  <2>3. r \in Lined({}, NumToKeepGranted)
    BY <1>10, <2>1, LinedAll
  <2>4. Relisted(r, r)
    BY <1>3 DEF Relisted, SameMesgs
  <2> HIDE DEF st
  <2>5. Begins(st, r, s, cur, r)
    BY <1>4, <2>2, <2>3, <2>4 DEF Begins, most
  <2> QED BY <1>9, <2>5
<1>11. CASE s \in Needy(r) /\ a >= K
  <2>1. ~(cur.sInd < 0) /\ cur.sInd >= cur.headIdx + cur.numToGrant
    BY <1>2, <1>5, <1>6, <1>8, <1>11
  <2>2. CASE WasGranted(old)
    <3>1. st = GrantAt(ins, cur, last)
      BY <1>5, <1>7, <2>1, <2>2
    <3>2. /\ ins \in Lined({}, n) /\ Relisted(r, ins)
          /\ ins.headIdx = InsPoint(r, s).headIdx /\ Len(ins.senders) = Len(r.senders) + 1
      <4>1. n <= n /\ a >= n
        BY <1>2, <1>6, <1>11
      <4> HIDE DEF n
      <4> QED BY <1>2, <1>11, <4>1, InsertLined
    <3>3. last = cur.headIdx + K - 1
      <4>1. a <= Len(r.senders)
        BY <1>3, AheadType
      <4>2. cur.numSenders >= K /\ cur.numSenders \in Nat
        BY <1>2, <1>3, <1>5, <1>6, <1>8, <1>11, <4>1
      <4>3. Lesser(cur.numSenders, cur.numToGrant) = K
        BY <1>2, <1>5, <4>2 DEF Lesser
      <4> QED BY <4>3 DEF last
    <3>4. Len(ins.senders) <= most /\ K <= Len(ins.senders) /\ most \in Nat
      <4>1. a <= Len(r.senders)
        BY <1>3, AheadType
      <4> QED BY <1>2, <1>3, <1>4, <1>6, <1>11, <3>2, <4>1 DEF most
    <3>5. Grantable(ins, cur)
      <4> HIDE DEF ins
      <4> QED BY <1>2, <1>5, <3>2, <3>4 DEF Grantable, K
    <3> HIDE DEF ins, st
    <3>6. Begins(st, r, s, cur, ins)
      BY <3>1, <3>2, <3>3, <3>4, <3>5 DEF Begins, most, K
    <3> QED BY <1>9, <3>6
  <2>3. CASE ~WasGranted(old)
    <3>1. st = Settled(ins, cur)
      BY <1>5, <2>1, <2>3
    <3>2. /\ ins \in Lined({}, NumToKeepGranted) /\ Relisted(r, ins)
          /\ Len(ins.senders) = Len(r.senders) + 1
      BY <1>11, <2>3, InsertBehind DEF K
    <3>3. Len(ins.senders) <= most
      BY <1>3, <3>2 DEF most
    <3> HIDE DEF ins, st
    <3>4. Begins(st, r, s, cur, ins)
      BY <3>1, <3>2, <3>3 DEF Begins, most
    <3> QED BY <1>9, <3>4
  <2> QED BY <2>2, <2>3
<1>12. CASE s \in Needy(r) /\ a < K
  <2>1. ~(cur.sInd < 0) /\ ~(cur.sInd >= cur.headIdx + cur.numToGrant)
    BY <1>2, <1>5, <1>6, <1>8, <1>12
  <2>2. st = SendFirst(r, s, cur)
    BY <1>5, <2>1
  <2>3. Ahead(r, s) < NumToKeepGranted
    BY <1>12 DEF K
  <2> HIDE DEF st
  <2>4. Begins(st, r, s, cur, r)
    BY <1>12, <2>2, <2>3 DEF Begins
  <2> QED BY <1>9, <2>4
<1> QED BY <1>2, <1>6, <1>10, <1>11, <1>12

\* handlePktArrivalEvent leaves it to handleGrantSentEvent to go on from st.
Follows(st, r, s, old, cur, most) ==
  /\ HandlePktArrival(r, old, cur) = HandleGrantSent(st) /\ \E x : Begins(st, r, s, cur, x)
  /\ most \in Nat
  /\ Passing(st, most, r.oversub, Cardinality(Msg)) \/ Passed(st, most, r.oversub)

LEMMA HandlePktArrivalPasses ==
  ASSUME NEW s \in Host, NEW r \in Lined({s}, NumToKeepGranted - 1),
         NEW old, NEW cur, cur = InsPoint(r, s),
         WasGranted(old) => InRange(old) /\ s \in Needy(r),
         ~WasGranted(old) => r \in Lined({s}, NumToKeepGranted)
  PROVE  \E st, most : Follows(st, r, s, old, cur, most)
<1> DEFINE n == NumToKeepGranted - 1
           most == Len(r.senders) + 1
           all == Cardinality(Msg)
           ind == cur.headIdx + NumToKeepGranted - 1
<1>1. n \in Nat /\ r \in Lined({s}, n)
  BY SchedAssumption
<1>2. PICK st, x : HandlePktArrival(r, old, cur) = HandleGrantSent(st) /\ Begins(st, r, s, cur, x)
  BY HandlePktArrivalCases
<1> HIDE DEF n
<1>3. Len(r.senders) \in Nat
  BY <1>1, LinedData
<1>4. most \in Nat /\ Len(r.senders) < most
  BY <1>3
<1> HIDE DEF most
<1>5. all \in Int /\ Cardinality(Ungranted(r)) <= all
  BY LeftFewer
<1> HIDE DEF all
<1>6. Passing(st, most, r.oversub, all) \/ Passed(st, most, r.oversub)
  <2>1. CASE st = SendFirst(r, s, cur) /\ s \in Needy(r) /\ Ahead(r, s) < NumToKeepGranted
    <3>1. Passing(SendFirst(r, s, cur), most, r.oversub, Cardinality(Msg))
      BY <1>4, <2>1, SendFirstPassing
    <3> QED BY <2>1, <3>1 DEF all
  <2>2. ASSUME Relisted(r, x), Len(x.senders) <= most
        PROVE  x.oversub = r.oversub /\ Ungranted(x) = Ungranted(r)
    BY <2>2 DEF Relisted, SameMesgs, Ungranted
  <2>3. CASE /\ Relisted(r, x) /\ Len(x.senders) <= most
             /\ st = Settled(x, cur) /\ x \in Lined({}, NumToKeepGranted)
    <3>1. Passed(Settled(x, cur), most, x.oversub)
      BY <2>3, SettledPassed
    <3> QED BY <2>2, <2>3, <3>1
  <2>4. CASE /\ Relisted(r, x) /\ Len(x.senders) <= most
             /\ st = GrantAt(x, cur, ind) /\ Grantable(x, cur)
    <3> HIDE DEF ind
    <3>1. Cardinality(Ungranted(x)) <= all
      BY <1>5, <2>2, <2>4
    <3>2. Passing(GrantAt(x, cur, ind), most, x.oversub, all)
      BY <1>4, <1>5, <2>4, <3>1, GrantAtPassing DEF ind
    <3> QED BY <2>2, <2>4, <3>2
  <2> QED BY <1>2, <2>1, <2>3, <2>4 DEF Begins, most
<1>7. Follows(st, r, s, old, cur, most)
  BY <1>2, <1>4, <1>6 DEF Follows, all
<1> QED BY <1>7

LEMMA HandlePktArrivalLined ==
  ASSUME NEW s \in Host, NEW r \in Lined({s}, NumToKeepGranted - 1),
         NEW old, NEW cur, cur = InsPoint(r, s),
         WasGranted(old) => InRange(old) /\ s \in Needy(r),
         ~WasGranted(old) => r \in Lined({s}, NumToKeepGranted)
  PROVE  /\ HandlePktArrival(r, old, cur) \in Lined({}, NumToKeepGranted)
         /\ HandlePktArrival(r, old, cur).oversub = r.oversub
<1>1. PICK st, most : Follows(st, r, s, old, cur, most)
  BY HandlePktArrivalPasses
<1>2. /\ HandleGrantSent(st) \in Lined({}, NumToKeepGranted)
      /\ HandleGrantSent(st).oversub = r.oversub
  BY <1>1, HandleGrantSentLined DEF Follows
<1> QED BY <1>1, <1>2 DEF Follows

\* handleGrantTimerEvent
LEMMA GrantSenderLined ==
  ASSUME NEW s \in Host, NEW r \in Lined({s}, NumToKeepGranted - 1),
         NEW at, at = InsPoint(r, s), s \in Needy(r), Ahead(r, s) < NumToKeepGranted
  PROVE  /\ GrantSender(r, s, at) \in Lined({}, NumToKeepGranted)
         /\ Len(GrantSender(r, s, at).senders) <= Len(r.senders) + 1
         /\ GrantSender(r, s, at).oversub = r.oversub
<1> DEFINE most == Len(r.senders) + 1
           st == SendFirst(r, s, at)
           n == NumToKeepGranted - 1
<1>1. n \in Nat /\ r \in Lined({s}, n)
  BY SchedAssumption
<1> HIDE DEF n
<1>2. Len(r.senders) \in Nat
  BY <1>1, LinedData
<1>3. most \in Nat /\ Len(r.senders) < most
  BY <1>2
<1> HIDE DEF most
<1>4. Passing(st, most, r.oversub, Cardinality(Msg))
  BY <1>3, SendFirstPassing
<1> HIDE DEF st
<1>5. /\ HandleGrantSent(st) \in Lined({}, NumToKeepGranted)
      /\ Len(HandleGrantSent(st).senders) <= most
      /\ HandleGrantSent(st).oversub = r.oversub
  BY <1>3, <1>4, HandleGrantSentLined
<1> QED BY <1>5 DEF st, most, GrantSender

\* The oversubscription period is marked.
Marked(r) == Oversubscribed(r) => r.oversub = "in"

\* The record without the timer that fired lists the same senders.
LEMMA TimerLined ==
  ASSUME NEW r0 \in Lined({}, NumToKeepGranted), NEW s \in Host,
         NEW r, r = [r0 EXCEPT !.timer[s] = FALSE]
  PROVE  /\ r \in Lined({}, 0) /\ r.senders = r0.senders /\ r.oversub = r0.oversub
         /\ \A j \in 1 .. Len(r.senders) :
              j <= NumToKeepGranted /\ r.senders[j] # s => Tended(r, r.senders[j])
<1>1. /\ r0 \in Filers /\ r0 \in Receivers
      /\ Elements(r0.senders) = Needy(r0) \ {} /\ InOrder(Ranks(r0), r0.senders)
      /\ Fits(r0) /\ Keeps(r0, NumToKeepGranted)
      /\ r0.failed = {} /\ r0.numToGrant = NumToKeepGranted /\ r0.bwTimer = FALSE
  BY DEF Lined, Filers
<1> DEFINE timer == [r0.timer EXCEPT ![s] = FALSE]
<1>2. timer \in Timers /\ \A t \in Host : t # s => timer[t] = r0.timer[t]
  BY <1>1 DEF Receivers, Timers
<1>3. r = [r0 EXCEPT !.timer = timer]
  BY <1>1 DEF Receivers
<1> HIDE DEF timer
<1>4. /\ r \in Receivers /\ SameBytes(r0, r) /\ r.timer = timer
      /\ r.senders = r0.senders /\ r.headIdx = r0.headIdx /\ r.numToGrant = r0.numToGrant
      /\ r.bwTimer = r0.bwTimer /\ r.failed = r0.failed /\ r.oversub = r0.oversub
  BY <1>1, <1>2, <1>3 DEF Receivers, SameBytes
<1>5. r \in Filers
  BY <1>1, <1>4, FilersClosed DEF Closed
<1>6. /\ Needy(r) = Needy(r0) /\ r.inbnd = r0.inbnd /\ r.toGrant = r0.toGrant
      /\ \A t \in Host : t # s /\ Tended(r0, t) => Tended(r, t)
  BY <1>2, <1>4 DEF SameBytes, Needy, Tended, Top
<1>7. \A x, y : Better(r, Top(r, x), Top(r, y)) <=> Better(r0, Top(r0, x), Top(r0, y))
  BY <1>6 DEF Better, Top
<1>8. Ranks(r) = Ranks(r0)
  BY <1>7 DEF Ranks
<1>9. r0.senders \in Seq(Host)
  BY <1>1 DEF Receivers, Lists
<1>10. Keeps(r, 0)
  BY <1>4, <1>9 DEF Keeps
<1>11. Fits(r)
  BY <1>1, <1>4 DEF Fits
<1>12. r \in Lined({}, 0)
  BY <1>1, <1>4, <1>5, <1>6, <1>8, <1>10, <1>11 DEF Lined
<1>13. \A j \in 1 .. Len(r0.senders) :
         j <= NumToKeepGranted /\ r0.senders[j] # s => Tended(r, r0.senders[j])
  <2>1. \A j \in 1 .. Len(r0.senders) : r0.senders[j] \in Host /\ j \in DOMAIN r0.senders
    BY <1>9
  <2> QED BY <1>1, <1>6, <2>1 DEF Keeps
<1> QED BY <1>4, <1>12, <1>13

LEMMA ProcessGrantTimerLined ==
  ASSUME NEW r0 \in Lined({}, NumToKeepGranted), Marked(r0), NEW s \in Host
  PROVE  /\ ProcessGrantTimer(r0, s) \in Lined({}, NumToKeepGranted)
         /\ Marked(ProcessGrantTimer(r0, s))
<1> DEFINE K == NumToKeepGranted
           n == K - 1
           off == [r0 EXCEPT !.timer[s] = FALSE]
           r1 == RemoveSender(off, s)
           at == InsPoint(r1, s)
           o1 == InsertSender(r1, s)
           o2 == GrantSender(r1, s, at)
           r2 == IF at.sInd < 0 THEN r1
                 ELSE IF at.sInd - at.headIdx >= r1.numToGrant THEN o1
                 ELSE o2
           q == ProcessGrantTimer(r0, s)
           most == Len(r0.senders)
<1>1. q = IF r2.oversub = "in" /\ ~Oversubscribed(r2)
            THEN [r2 EXCEPT !.oversub = "ended"] ELSE r2
  BY DEF ProcessGrantTimer
<1> HIDE DEF q
<1>2. n \in Nat /\ K \in Nat /\ K > 0 /\ K = n + 1
  BY SchedAssumption
<1>3. /\ off \in Lined({}, 0) /\ off.senders = r0.senders /\ off.oversub = r0.oversub
      /\ \A j \in 1 .. Len(off.senders) : j <= K /\ off.senders[j] # s => Tended(off, off.senders[j])
  <2> HIDE DEF off
  <2>1. off = [r0 EXCEPT !.timer[s] = FALSE]
    BY DEF off
  <2> QED BY <2>1, TimerLined
<1>4. r0.senders \in Seq(Host) /\ most \in Nat /\ r0.numToGrant = K
  BY LinedData
<1> HIDE DEF off, K
<1>5. /\ r1 \in Lined({s}, n) /\ Relisted(off, r1)
      /\ s \in Needy(off) => /\ Len(r1.senders) + 1 = most
                             /\ Ahead(r1, s) > n => r1 \in Lined({s}, n + 1)
      /\ s \notin Needy(off) => r1 \in Lined({}, n + 1) /\ r1.senders = r0.senders
  <2>1. /\ r1 = RemoveSender(off, s) /\ off \in Lined({}, 0)
        /\ \A j \in 1 .. Len(off.senders) :
             j <= NumToKeepGranted /\ off.senders[j] # s => Tended(off, off.senders[j])
    BY <1>3 DEF K
  <2> HIDE DEF r1
  <2>2. /\ r1 \in Lined({s}, NumToKeepGranted - 1) /\ Relisted(off, r1)
        /\ s \in Needy(off) =>
             /\ Len(r1.senders) + 1 = Len(off.senders)
             /\ Ahead(r1, s) > NumToKeepGranted - 1 => r1 \in Lined({s}, NumToKeepGranted)
        /\ s \notin Needy(off) => r1 \in Lined({}, NumToKeepGranted) /\ r1.senders = off.senders
    BY <2>1, TakenOut
  <2> QED BY <1>2, <1>3, <2>2 DEF K
<1> HIDE DEF r1, most
<1>6. off \in Filers
  BY <1>3 DEF Lined
<1>7. Needy(r1) = Needy(off) /\ r1.oversub = r0.oversub
  BY <1>3, <1>5, <1>6, RelistedFiler DEF Relisted
<1>8. /\ r1 \in Receivers /\ r1.numToGrant = K /\ Len(r1.senders) \in Nat
  <2> HIDE DEF n
  <2>1. r1 \in Lined({s}, n)
    BY <1>5
  <2> QED BY <2>1, LinedData DEF K
<1>9. /\ at \in Places /\ (s \notin Needy(r1) => at.sInd = -1)
      /\ s \in Needy(r1) => at.sInd = at.headIdx + Ahead(r1, s)
  BY <1>8, InsPointType DEF Needy
<1>10. at.headIdx \in Nat /\ at.sInd \in Int /\ Ahead(r1, s) \in Nat
  <2>1. r1.senders \in Seq(Host)
    BY <1>8 DEF Receivers, Lists
  <2> QED BY <1>8, <1>9, <2>1, AheadType DEF Places
<1>11. r2 \in Lined({}, NumToKeepGranted) /\ Len(r2.senders) <= most /\ r2.oversub = r0.oversub
  <2>1. CASE s \notin Needy(r1)
    <3>1. r2 = r1
      BY <1>9, <2>1
    <3> HIDE DEF r2
    <3>2. r1 \in Lined({}, NumToKeepGranted) /\ r1.senders = r0.senders
      BY <1>2, <1>5, <1>7, <2>1 DEF K
    <3>3. Len(r1.senders) <= most
      BY <1>4, <3>2 DEF most
    <3> QED BY <1>7, <3>1, <3>2, <3>3
  <2>2. CASE s \in Needy(r1) /\ Ahead(r1, s) >= K
    <3>1. r2 = o1
      BY <1>2, <1>8, <1>9, <1>10, <2>2
    <3>2. r1 \in Lined({s}, NumToKeepGranted)
      BY <1>2, <1>5, <1>7, <1>10, <2>2 DEF K
    <3> HIDE DEF r2
    <3>3. /\ o1 \in Lined({}, NumToKeepGranted) /\ Relisted(r1, o1)
          /\ Len(o1.senders) = Len(r1.senders) + 1
      BY <2>2, <3>2, InsertBehind DEF K
    <3> HIDE DEF o1
    <3>4. Len(o1.senders) <= most /\ o1.oversub = r1.oversub
      BY <1>4, <1>5, <1>7, <2>2, <3>3 DEF Relisted, most
    <3> QED BY <1>7, <3>1, <3>3, <3>4
  <2>3. CASE s \in Needy(r1) /\ Ahead(r1, s) < K
    <3>1. r2 = o2
      BY <1>2, <1>8, <1>9, <1>10, <2>3
    <3>2. r1 \in Lined({s}, NumToKeepGranted - 1) /\ at = InsPoint(r1, s)
      BY <1>5 DEF K
    <3> HIDE DEF r2, at
    <3>3. /\ o2 \in Lined({}, NumToKeepGranted) /\ Len(o2.senders) <= Len(r1.senders) + 1
          /\ o2.oversub = r1.oversub
      BY <2>3, <3>2, GrantSenderLined DEF K
    <3> HIDE DEF o2
    <3> QED BY <1>5, <1>7, <2>3, <3>1, <3>3
  <2> QED BY <1>2, <1>10, <2>1, <2>2, <2>3
<1> HIDE DEF r2
<1>12. r2 \in Filers /\ r2 \in Receivers /\ r2.numToGrant = K /\ Len(r2.senders) \in Nat
  <2> DEFINE k == NumToKeepGranted
  <2>1. r2 \in Lined({}, k)
    BY <1>11
  <2> HIDE DEF k
  <2> QED BY <2>1, LinedData DEF K
<1>13. Oversubscribed(r2) => r2.oversub = "in"
  <2> SUFFICES ASSUME Oversubscribed(r2)
               PROVE  r2.oversub = "in"
    OBVIOUS
  <2>1. Len(r2.senders) > K
    BY <1>12 DEF Oversubscribed
  <2>2. Len(r0.senders) > K
    BY <1>2, <1>4, <1>11, <1>12, <2>1 DEF most
  <2> QED BY <1>4, <1>11, <2>2 DEF Marked, Oversubscribed
<1>14. CASE r2.oversub = "in" /\ ~Oversubscribed(r2)
  <2>1. q = [r2 EXCEPT !.oversub = "ended"]
    BY <1>1, <1>14
  <2>2. q \in Receivers /\ SameBytes(r2, q) /\ SameLined(r2, q)
    BY <1>12, <2>1 DEF Receivers, SameBytes, SameLined
  <2>3. q \in Filers
    BY <1>12, <2>2, FilersClosed DEF Closed
  <2>4. q \in Lined({}, NumToKeepGranted)
    BY <1>11, <2>2, <2>3, LinedSame
  <2>5. ~Oversubscribed(q)
    BY <1>14, <2>2 DEF Oversubscribed, SameLined
  <2> QED BY <2>4, <2>5 DEF Marked, q
<1>15. CASE ~(r2.oversub = "in" /\ ~Oversubscribed(r2))
  BY <1>1, <1>11, <1>13, <1>15 DEF Marked, q
<1> QED BY <1>14, <1>15

-----------------------------------------------------------------------------
(* handleInboundPkt and the list.                                           *)

\* None of its assertions fails: the packet is of a message that is known or has not
\* begun, it answers an entry of inflightGrants, and the last one leaves none.
LEMMA InboundFails ==
  ASSUME Countable, NEW A, NEW r \in Sound(A), NEW p \in A
  PROVE  HandleInboundPkt(r, p).failed = r.failed
<1> DEFINE m == p.msg
           s == MsgSrc[m]
           o == PendingBytesArrived(r, p)
           known == UnfileMesg(o, s, m)
           first == OpenMessage(r, p)
           mid == IF r.inbnd[m].open THEN known ELSE first
           filled == FillinRxBytes(mid, p)
           in == Following(r, p)
           q == HandleInboundPkt(r, p)
           Q == PktsOf(Pending(r, A), m)
<1>1. r \in Receivers /\ Filing(r) /\ Bounds(r.inbnd)
  BY DEF Sound, Filers
<1>2. /\ p \in Pkt /\ m \in Msg /\ s \in Host /\ p \in Q
      /\ Previous(r, p) \in Inbound /\ ByteData(Previous(r, p), m, Q)
      /\ ~r.inbnd[m].open => Q = ReqUnschedDataPkts(m)
  <2>1. /\ p \in Pkt /\ m \in Msg /\ p \in Q
        /\ Previous(r, p) \in Inbound /\ ByteData(Previous(r, p), m, Q)
        /\ ~r.inbnd[m].open => Q = ReqUnschedDataPkts(m)
    BY PreviousData
  <2> QED BY <2>1, MsgAssumption
<1>3. /\ Complete(in) => in.bytesToGrant = 0 /\ in.inflightGrants = {}
  BY FollowingData
<1> HIDE DEF Q
<1>4. o.failed = r.failed /\ o.inbnd = r.inbnd /\ o.toGrant = r.toGrant
  BY <1>1 DEF PendingBytesArrived, Receivers
<1> HIDE DEF o
<1>5. r.inbnd[m].open => known.failed = r.failed
  <2>1. CASE Filed(o, s, m) = {}
    <3>1. m \notin Elements(r.toGrant[s])
      BY <1>4, <2>1 DEF Filed, Elements
    <3>2. Elements(r.toGrant[s]) = Waiting(r, s) /\ r.inbnd[m].bytesToGrant \in Nat
      BY <1>1, <1>2 DEF Filing, FileExact, Receivers, Inbounds, Inbound
    <3>3. r.inbnd[m].bytesToGrant = 0
      BY <1>2, <3>1, <3>2 DEF Waiting
    <3>4. known = o
      BY <1>4, <2>1, <3>3 DEF UnfileMesg, Require
    <3> QED BY <1>4, <3>4
  <2>2. CASE Filed(o, s, m) # {}
    <3>1. known = [o EXCEPT !.toGrant[s] = RemoveAt(@, CHOOSE i \in Filed(o, s, m) : TRUE)]
      BY <2>2 DEF UnfileMesg
    <3>2. o \in Receivers \/ ~r.inbnd[m].open
      <4>1. PktOnWire(p) \in Int
        BY <1>2, SizesType
      <4> QED BY <1>1, <4>1 DEF o, PendingBytesArrived, Receivers
    <3> HIDE DEF known
    <3> QED BY <1>4, <3>1, <3>2 DEF Receivers
  <2> QED BY <2>1, <2>2
<1>6. ~r.inbnd[m].open => first.failed = r.failed
  <2> SUFFICES ASSUME ~r.inbnd[m].open
               PROVE  first.failed = r.failed
    OBVIOUS
  <2>1. p.type # "SCHED_DATA"
    BY <1>2, UnschedLens
  <2> DEFINE others == TotalUnsched(p.msg) - p.len
             opened == [r EXCEPT !.inbnd[p.msg] = Opened(p.msg),
                                 !.inflightUnsched =
                                    IF others > 0 THEN @ + OnWire(others, UnschedHdr) ELSE @]
  <2>2. first = opened
    BY <2>1 DEF OpenMessage, Require
  <2> HIDE DEF first, others
  <2> QED BY <1>1, <2>2 DEF Receivers
<1>7. mid \in Receivers /\ mid.failed = r.failed /\ mid.inbnd[m] = Previous(r, p)
  <2>1. CASE r.inbnd[m].open
    <3>1. known \in Receivers /\ known.inbnd = r.inbnd
      <4>1. known = UnfileMesg(PendingBytesArrived(r, p), s, p.msg)
        BY DEF o
      <4> HIDE DEF known
      <4> QED BY <1>1, <1>2, <2>1, <4>1, KnownStep DEF HasBytes
    <3> HIDE DEF known
    <3> QED BY <1>5, <2>1, <3>1 DEF Previous
  <2>2. CASE ~r.inbnd[m].open
    <3>1. first \in Receivers /\ first.inbnd = [r.inbnd EXCEPT ![m] = Opened(m)]
      <4> HIDE DEF first
      <4>1. first = OpenMessage(r, p)
        BY DEF first
      <4> QED BY <1>1, <1>2, <2>2, <4>1, OpenStep DEF HasBytes
    <3> HIDE DEF first
    <3>2. first.inbnd[m] = Opened(m)
      BY <1>1, <1>2, <3>1 DEF Receivers, Inbounds
    <3> QED BY <1>6, <2>2, <3>1, <3>2 DEF Previous
  <2> QED BY <2>1, <2>2
<1> HIDE DEF mid
<1>8. filled \in Receivers /\ filled.inbnd[m] = in
  <2>1. /\ filled \in Receivers
        /\ filled.inbnd = [mid.inbnd EXCEPT ![m] = Filled(mid.inbnd[m], p)]
    <3> HIDE DEF filled
    <3>1. filled = FillinRxBytes(mid, p)
      BY DEF filled
    <3> QED BY <1>2, <1>7, <3>1, FillinStep DEF HasBytes
  <2> HIDE DEF filled
  <2> QED BY <1>2, <1>7, <2>1 DEF Following, Receivers, Inbounds
<1>9. filled.failed = r.failed
  <2> DEFINE match == Answered(mid.inbnd[m], p)
             cond == match # {} /\ match \subseteq mid.inbnd[m].inflightGrants
                       /\ \A g \in match : g[2] >= p.len
             done == [mid EXCEPT !.inbnd[m] = Filled(mid.inbnd[m], p)]
  <2>1. cond
    <3> DEFINE at == mid.inbnd[m]
    <3>1. at \in Inbound /\ ByteData(at, m, Q) /\ p \in Q /\ m \in Msg
      BY <1>2, <1>7
    <3> HIDE DEF at, m
    <3>2. /\ Answered(at, p) # {} /\ Answered(at, p) \subseteq at.inflightGrants
          /\ \A g \in Answered(at, p) : g[2] >= p.len
      BY <3>1, FilledData
    <3> QED BY <3>2 DEF at
  <2>2. filled = Require(done, cond, "fillinRxBytes: not in flight")
    BY DEF FillinRxBytes
  <2> HIDE DEF cond, filled
  <2>3. filled = done
    BY <2>1, <2>2 DEF Require
  <2> QED BY <1>7, <2>3 DEF Receivers
<1>10. q = IF Complete(in)
             THEN Require([filled EXCEPT !.inbnd[m] = NoMessage, !.delivered[m] = @ + 1],
                          in.bytesToGrant = 0 /\ in.inflightGrants = {},
                          "handleInboundPkt: complete but granted")
           ELSE IF in.bytesToGrant = 0 THEN filled
           ELSE FileMesg(filled, s, m)
  <2> DEFINE at == filled.inbnd[m]
             done == [filled EXCEPT !.inbnd[m] = NoMessage, !.delivered[m] = @ + 1]
  <2>1. q = IF Complete(at)
              THEN Require(done, at.bytesToGrant = 0 /\ at.inflightGrants = {},
                           "handleInboundPkt: complete but granted")
            ELSE IF at.bytesToGrant = 0 THEN filled
            ELSE FileMesg(filled, s, m)
    BY DEF HandleInboundPkt, mid, known, o, first
  <2>2. at = in
    BY <1>8
  <2> HIDE DEF done, at, q, filled, in
  <2>3. q = IF Complete(in)
              THEN Require(done, in.bytesToGrant = 0 /\ in.inflightGrants = {},
                           "handleInboundPkt: complete but granted")
            ELSE IF in.bytesToGrant = 0 THEN filled
            ELSE FileMesg(filled, s, m)
    BY <2>1, <2>2
  <2> QED BY <2>3 DEF done
<1> HIDE DEF filled, in, q
<1>11. CASE Complete(in)
  <2>1. q = [filled EXCEPT !.inbnd[m] = NoMessage, !.delivered[m] = @ + 1]
    BY <1>3, <1>10, <1>11 DEF Require
  <2>2. q.failed = filled.failed
    BY <1>8, <2>1 DEF Receivers
  <2> QED BY <1>9, <2>2 DEF q
<1>12. CASE ~Complete(in) /\ in.bytesToGrant = 0
  BY <1>9, <1>10, <1>12 DEF q
<1>13. CASE ~Complete(in) /\ in.bytesToGrant # 0
  <2>1. q = FileMesg(filled, s, m)
    BY <1>10, <1>13
  <2>2. q.failed = filled.failed
    BY <1>8, <2>1 DEF FileMesg, Receivers
  <2> QED BY <1>9, <2>2 DEF q
<1> QED BY <1>11, <1>12, <1>13

\* It moves no sender in the list, and a sender that was needed still is.
LEMMA InboundLined ==
  ASSUME Countable, NEW A, NEW p \in A, NEW s, s = MsgSrc[p.msg],
         NEW n \in Nat, NEW r \in Lined({s}, n), r \in Sound(A),
         NEW q, q = HandleInboundPkt(r, p)
  PROVE  /\ q \in Lined({s}, n) /\ SameQueues(r, q)
         /\ s \in Needy(r) => s \in Needy(q)
<1> DEFINE m == p.msg
           in == Following(r, p)
<1>1. /\ r \in Filers /\ r \in Receivers /\ Bounds(r.inbnd) /\ Filing(r)
      /\ r.senders \in Seq(Host) /\ r.numToGrant = NumToKeepGranted /\ r.failed = {}
      /\ r.bwTimer = FALSE
  BY LinedData
<1>2. p \in Pkt /\ m \in Msg
  BY PreviousData
<1>3. /\ q \in Receivers /\ Inbounded(r, p, q) /\ Bounds(q.inbnd) /\ Filing(q)
      /\ q.failed = {}
  BY <1>1, <1>2, InboundStep, InboundFails
<1>4. /\ SameQueues(r, q) /\ q \in Filers
      /\ q.inbnd = [r.inbnd EXCEPT ![m] = IF Complete(in) THEN NoMessage ELSE in]
      /\ \A t \in Host : t # s => q.toGrant[t] = r.toGrant[t]
  BY <1>3 DEF Inbounded, Filers
<1>5. /\ q.senders = r.senders /\ q.headIdx = r.headIdx /\ q.numToGrant = r.numToGrant
      /\ q.bwTimer = r.bwTimer /\ q.timer = r.timer
  BY <1>4 DEF SameQueues
<1>6. /\ q.inbnd[m] = IF Complete(in) THEN NoMessage ELSE in
      /\ \A k \in Msg : k # m => q.inbnd[k] = r.inbnd[k]
  <2> HIDE DEF in
  <2> QED BY <1>1, <1>2, <1>4 DEF Receivers, Inbounds
<1>7. Elements(r.senders) = Needy(r) \ {s} /\ InOrder(Ranks(r), r.senders) /\ Fits(r) /\ Keeps(r, n)
  BY DEF Lined
<1>8. SameTops(r, q, Needy(r) \ {s}) /\ Needy(q) \ {s} = Needy(r) \ {s}
  <2>1. Needy(q) \ {s} = Needy(r) \ {s}
    BY <1>4 DEF Needy
  <2>2. ASSUME NEW t \in Needy(r) \ {s}
        PROVE  /\ Top(q, t) = Top(r, t) /\ q.timer[t] = r.timer[t]
               /\ q.inbnd[Top(r, t)] = r.inbnd[Top(r, t)]
    <3>1. t \in Host /\ Top(r, t) \in Msg /\ MsgSrc[Top(r, t)] = t
      BY <1>1, NeedyTop
    <3> QED BY <1>4, <1>5, <1>6, <3>1 DEF Top
  <2> QED BY <2>1, <2>2 DEF SameTops
<1>9. InOrder(Ranks(q), q.senders) /\ Keeps(q, n)
  BY <1>1, <1>5, <1>7, <1>8, TopsSame
<1>10. Fits(q)
  BY <1>5, <1>7 DEF Fits
<1>11. q \in Lined({s}, n)
  BY <1>1, <1>3, <1>4, <1>5, <1>7, <1>8, <1>9, <1>10 DEF Lined
<1>12. ASSUME s \in Needy(r)
       PROVE  s \in Needy(q)
  <2> DEFINE k == Top(r, s)
  <2>1. s \in Host /\ k \in Msg /\ MsgSrc[k] = s /\ r.inbnd[k].bytesToGrant > 0 /\ r.inbnd[k].open
    BY <1>1, <1>12, NeedyTop
  <2> HIDE DEF k
  <2>2. q.inbnd[k].bytesToGrant > 0
    <3>1. CASE k # m
      BY <1>6, <2>1, <3>1
    <3>2. CASE k = m
      <4>1. Previous(r, p) = r.inbnd[m] /\ r.inbnd[m] \in Inbound
        BY <1>1, <1>2, <2>1, <3>2 DEF Previous, Receivers, Inbounds
      <4>2. in.bytesToGrant = r.inbnd[m].bytesToGrant
        BY <4>1 DEF Following, Filled, Inbound
      <4>3. Complete(in) => in.bytesToGrant = 0
        BY FollowingData
      <4> HIDE DEF in
      <4> QED BY <1>6, <2>1, <3>2, <4>2, <4>3
    <3> QED BY <3>1, <3>2
  <2>3. k \in Elements(q.toGrant[s])
    BY <1>3, <2>1, <2>2 DEF Filing, FileExact, Waiting
  <2>4. q.toGrant[s] # <<>>
    BY <2>3 DEF Elements
  <2> QED BY <2>1, <2>4 DEF Needy
<1> QED BY <1>4, <1>11, <1>12

-----------------------------------------------------------------------------
(* processReceivedPkt and the list.                                         *)

LEMMA LinedOut ==
  ASSUME NEW n, NEW s, NEW r \in Lined({}, n), s \notin Needy(r)
  PROVE  r \in Lined({s}, n)
<1>1. Needy(r) \ {s} = Needy(r) \ {}
  OBVIOUS
<1> QED BY <1>1 DEF Lined

\* Another mark, and no bandwidth timer
Remarked(r, q) == q \in Receivers /\ SameBytes(r, q) /\ SameLined(r, q)

LEMMA RemarkedLined ==
  ASSUME NEW n, NEW r \in Lined({}, n), NEW q, Remarked(r, q)
  PROVE  q \in Lined({}, n)
<1>1. r \in Filers
  BY DEF Lined
<1>2. q \in Filers
  BY <1>1, FilersClosed DEF Closed, Remarked
<1> QED BY <1>2, LinedSame DEF Remarked

LEMMA RecordedLined ==
  ASSUME NEW n, NEW r \in Lined({}, n), Marked(r), NEW q, q = RecordOversub(r)
  PROVE  q \in Lined({}, n) /\ Remarked(r, q) /\ q.oversub # "ended"
<1>1. r \in Receivers
  BY DEF Lined, Filers
<1>2. Remarked(r, r)
  BY <1>1 DEF Remarked, SameBytes, SameLined
<1>3. CASE Oversubscribed(r)
  <2>1. q = r /\ r.oversub = "in"
    BY <1>3 DEF RecordOversub, Require, Marked
  <2> QED BY <1>2, <2>1
<1>4. CASE ~Oversubscribed(r) /\ r.oversub = "ended"
  <2>1. q = [r EXCEPT !.oversub = "none"]
    BY <1>4 DEF RecordOversub
  <2>2. Remarked(r, q) /\ q.oversub = "none"
    BY <1>1, <2>1 DEF Receivers, Remarked, SameBytes, SameLined
  <2> QED BY <2>2, RemarkedLined
<1>5. CASE ~Oversubscribed(r) /\ r.oversub # "ended"
  <2>1. q = r
    BY <1>5 DEF RecordOversub
  <2> QED BY <1>2, <1>5, <2>1
<1> QED BY <1>3, <1>4, <1>5

LEMMA MarkedLined ==
  ASSUME NEW n, NEW r \in Lined({}, n), r.oversub # "ended", NEW q, q = MarkOversub(r)
  PROVE  q \in Lined({}, n) /\ Marked(q)
<1>1. r \in Receivers
  BY DEF Lined, Filers
<1>2. q = [r EXCEPT !.oversub = IF Oversubscribed(r) THEN "in" ELSE "none"]
  BY DEF MarkOversub, Require
<1>3. /\ Remarked(r, q)
      /\ q.oversub = IF Oversubscribed(r) THEN "in" ELSE "none"
  BY <1>1, <1>2 DEF Receivers, Remarked, SameBytes, SameLined
<1>4. Oversubscribed(q) <=> Oversubscribed(r)
  BY <1>3 DEF Remarked, SameLined, Oversubscribed
<1> QED BY <1>3, <1>4, RemarkedLined DEF Marked

\* Without the bandwidth check its timer is never set.
LEMMA UncheckedLined ==
  ASSUME ~LinkCheck, NEW n, NEW r \in Lined({}, n), Marked(r), NEW q, q = SetBwTimer(r)
  PROVE  q \in Lined({}, n) /\ Marked(q)
<1>1. r \in Receivers /\ r.bwTimer = FALSE
  BY DEF Lined, Filers
<1>2. q = [r EXCEPT !.bwTimer = FALSE]
  BY DEF SetBwTimer
<1>3. Remarked(r, q) /\ q.oversub = r.oversub
  BY <1>1, <1>2 DEF Receivers, Remarked, SameBytes, SameLined
<1>4. Marked(q)
  BY <1>3 DEF Remarked, SameLined, Oversubscribed, Marked
<1> QED BY <1>3, <1>4, RemarkedLined

\* The list when the sender of the packet is taken out of it, and where it was: a sender
\* that was kept granted leaves its slot to another one.
LEMMA ArrivalTaken ==
  ASSUME NEW s \in Host, NEW r \in Lined({}, NumToKeepGranted),
         NEW q, q = RemoveSender(r, s),
         NEW old, old.sInd = RemovedFrom(r, s), old.headIdx = r.headIdx,
         old.numToGrant = NumToKeepGranted
  PROVE  /\ q \in Lined({s}, NumToKeepGranted - 1) /\ Relisted(r, q)
         /\ WasGranted(old) => InRange(old) /\ s \in Needy(q)
         /\ ~WasGranted(old) => q \in Lined({s}, NumToKeepGranted)
<1> DEFINE n == NumToKeepGranted - 1
           K == NumToKeepGranted
<1>1. n \in Nat /\ K = n + 1 /\ K \in Nat /\ 0 \in Nat /\ 0 <= K
  BY SchedAssumption
<1>2. r \in Lined({}, K)
  OBVIOUS
<1> HIDE DEF n, K
<1>3. r \in Lined({}, 0)
  BY <1>1, <1>2, LinedLess
<1>4. /\ r \in Filers /\ r.headIdx \in Nat /\ Len(r.senders) \in Nat
      /\ DOMAIN r.senders = 1 .. Len(r.senders)
  <2>1. r \in Filers /\ r.headIdx \in Nat /\ r.senders \in Seq(Host)
    BY <1>2, LinedData
  <2> QED BY <2>1
<1>5. \A j \in 1 .. Len(r.senders) :
        j <= NumToKeepGranted /\ r.senders[j] # s => Tended(r, r.senders[j])
  <2>1. Keeps(r, K)
    BY <1>2 DEF Lined
  <2> QED BY <1>4, <2>1 DEF Keeps, K
<1>6. /\ q \in Lined({s}, NumToKeepGranted - 1) /\ Relisted(r, q)
      /\ s \in Needy(r) =>
           /\ RemovedFrom(r, s) = r.headIdx + Ahead(q, s)
           /\ Ahead(q, s) > NumToKeepGranted - 1 => q \in Lined({s}, NumToKeepGranted)
      /\ s \notin Needy(r) =>
           q \in Lined({}, NumToKeepGranted) /\ RemovedFrom(r, s) = -1
  BY <1>3, <1>5, TakenOut
<1>7. Needy(q) = Needy(r)
  BY <1>4, <1>6, RelistedFiler
<1>8. q \in Receivers /\ q.senders \in Seq(Host)
  BY <1>6 DEF Relisted, Receivers, Lists
<1>9. Ahead(q, s) \in Nat
  BY <1>8, AheadType
<1>10. /\ WasGranted(old) <=> old.sInd >= 0 /\ old.sInd < K + r.headIdx
       /\ InRange(old) <=> old.sInd >= r.headIdx /\ old.sInd < r.headIdx + K
  BY DEF WasGranted, InRange, K
<1>11. CASE s \in Needy(r)
  <2>1. old.sInd = r.headIdx + Ahead(q, s)
    BY <1>6, <1>11
  <2>2. WasGranted(old) => InRange(old)
    BY <1>1, <1>4, <1>9, <1>10, <2>1
  <2>3. ~WasGranted(old) => Ahead(q, s) > n
    BY <1>1, <1>4, <1>9, <1>10, <2>1
  <2>4. ~WasGranted(old) => q \in Lined({s}, K)
    BY <1>6, <1>11, <2>3 DEF n, K
  <2> QED BY <1>6, <1>7, <1>11, <2>2, <2>4 DEF n, K
<1>12. CASE s \notin Needy(r)
  <2>1. ~WasGranted(old)
    BY <1>6, <1>10, <1>12
  <2>2. q \in Lined({}, K)
    BY <1>6, <1>12 DEF K
  <2>3. q \in Lined({s}, K)
    BY <1>7, <1>12, <2>2, LinedOut
  <2> QED BY <1>6, <2>1, <2>3 DEF n, K
<1> QED BY <1>11, <1>12

\* The SchedState of a sender that keeps its place is insPoint's.
LEMMA InsPointKept ==
  ASSUME NEW r \in Receivers, NEW s \in Host
  PROVE  [InsPoint(r, s) EXCEPT !.numToGrant = r.numToGrant] = InsPoint(r, s)
<1> DEFINE at == InsPoint(r, s)
<1>1. at \in Places /\ at.numToGrant = r.numToGrant
  BY InsPointType
<1> HIDE DEF at
<1>2. [at EXCEPT !.numToGrant = r.numToGrant] = at
  BY <1>1 DEF Places
<1> QED BY <1>2 DEF at

\* The bytes that a packet brings do not wait for grants any more.
NotToGrant(inbnd, p) ==
  p.type = "SCHED_DATA" => p.first < MsgSize[p.msg] - inbnd[p.msg].bytesToGrant

LEMMA NeverAgain ==
  ASSUME Countable, NEW A, NEW r \in Sound(A), NEW p \in A, NEW q, q = HandleInboundPkt(r, p)
  PROVE  NotToGrant(q.inbnd, p)
<1> DEFINE m == p.msg
           Q == PktsOf(Pending(r, A), m)
           before == Previous(r, p)
           in == Following(r, p)
<1>1. /\ p \in Pkt /\ m \in Msg /\ p \in Q /\ before \in Inbound /\ ByteData(before, m, Q)
  BY PreviousData
<1>2. /\ r \in Receivers /\ Bounds(r.inbnd) /\ Filing(r)
  BY DEF Sound, Filers
<1>3. Inbounded(r, p, q)
  BY <1>1, <1>2, InboundStep
<1>4. in.bytesToGrant = before.bytesToGrant /\ (Complete(in) => in.bytesToGrant = 0)
  <2>1. Complete(in) => in.bytesToGrant = 0
    BY FollowingData
  <2> HIDE DEF before
  <2>2. Filled(before, p).bytesToGrant = before.bytesToGrant
    BY <1>1 DEF Filled, Inbound
  <2> QED BY <2>1, <2>2 DEF Following, before
<1> HIDE DEF in, before
<1>5. q.inbnd[m] = IF Complete(in) THEN NoMessage ELSE in
  BY <1>1, <1>2, <1>3 DEF Inbounded, Receivers, Inbounds, in
<1>6. q.inbnd[m].bytesToGrant = before.bytesToGrant
  BY <1>4, <1>5 DEF NoMessage
<1>7. p.len > 0 /\ (p \in Sched(Q) => p.first + p.len <= MsgSize[m] - before.bytesToGrant)
  BY <1>1 DEF ByteData, PktsData
<1>8. before.bytesToGrant \in Nat /\ MsgSize[m] \in Nat /\ p.first \in Nat /\ p.len \in Nat
  BY <1>1, MsgAssumption DEF Inbound, Pkt
<1>9. p.type = "SCHED_DATA" => p \in Sched(Q)
  BY <1>1 DEF Sched
<1>10. p.type = "SCHED_DATA" => p.first < MsgSize[m] - before.bytesToGrant
  <2> SUFFICES ASSUME p.type = "SCHED_DATA"
               PROVE  p.first < MsgSize[m] - before.bytesToGrant
    OBVIOUS
  <2> DEFINE x == p.first
             n == p.len
             w == MsgSize[m]
             c == before.bytesToGrant
  <2>1. x \in Nat /\ n \in Nat /\ w \in Nat /\ c \in Nat /\ n > 0 /\ x + n <= w - c
    BY <1>7, <1>8, <1>9
  <2> HIDE DEF x, n, w, c
  <2>2. x < w - c
    BY <2>1
  <2> QED BY <2>2 DEF x, w, c
<1> QED BY <1>6, <1>10 DEF NotToGrant

\* The place a sender is taken from
LEMMA OldType ==
  ASSUME NEW r \in Receivers, NEW s \in Host
  PROVE  [s |-> s, sInd |-> RemovedFrom(r, s), headIdx |-> r.headIdx,
          numSenders |-> Len(r.senders), numToGrant |-> r.numToGrant] \in Places
<1> DEFINE ind == RemovedFrom(r, s)
           i == IndexOf(r, s)
<1>1. /\ r.headIdx \in Nat /\ r.numToGrant \in Nat /\ r.senders \in Seq(Host)
      /\ Len(r.senders) \in Nat
  BY DEF Receivers, Widths, Lists
<1>2. Listed(r, s) => i \in DOMAIN r.senders
  BY DEF Listed, IndexOf
<1>3. ind = -1 \/ (Listed(r, s) /\ ind = r.headIdx + i - 1)
  BY DEF RemovedFrom
<1> HIDE DEF i, ind
<1>4. ind \in Int
  BY <1>1, <1>2, <1>3
<1>5. [s |-> s, sInd |-> ind, headIdx |-> r.headIdx, numSenders |-> Len(r.senders),
       numToGrant |-> r.numToGrant] \in Places
  BY <1>1, <1>4 DEF Places
<1> QED BY <1>5 DEF ind

\* handleInboundPkt hands p to its message.
Received(r, p, q) ==
  LET in == Following(r, p)
      m == p.msg
  IN /\ q.inbnd = [r.inbnd EXCEPT ![m] = IF Complete(in) THEN NoMessage ELSE in]
     /\ q.delivered = IF Complete(in) THEN [r.delivered EXCEPT ![m] = @ + 1] ELSE r.delivered

\* The packet was handed to its message, and r2 lists all but its sender, which was at old.
Arrived(r0, p, r2, old) ==
  LET s == MsgSrc[p.msg]
  IN /\ s \in Host /\ r2 \in Lined({s}, NumToKeepGranted - 1)
     /\ old \in Places /\ Received(r0, p, r2)
     /\ r2.oversub # "ended" /\ r2.grants = r0.grants /\ NotToGrant(r2.inbnd, p)
     /\ WasGranted(old) => InRange(old) /\ s \in Needy(r2)
     /\ ~WasGranted(old) => r2 \in Lined({s}, NumToKeepGranted)
     /\ ProcessReceivedPkt(r0, p) =
          SetBwTimer(MarkOversub(HandlePktArrival(r2, old, InsPoint(r2, s))))

LEMMA ArrivalReaches ==
  ASSUME Countable, NEW A, NEW r0 \in Sound(A), NEW p \in A,
         r0 \in Lined({}, NumToKeepGranted), Marked(r0)
  PROVE  \E r2, old : Arrived(r0, p, r2, old)
<1> DEFINE K == NumToKeepGranted
           n == K - 1
           s == MsgSrc[p.msg]
           r1 == RecordOversub(r0)
           old == [s |-> s, sInd |-> RemovedFrom(r1, s), headIdx |-> r1.headIdx,
                   numSenders |-> Len(r1.senders), numToGrant |-> r1.numToGrant]
           out == RemoveSender(r1, s)
           r2 == HandleInboundPkt(out, p)
           r3 == HandleMesgRecvCompletion(r2, p.msg)
           cur == [InsPoint(r2, s) EXCEPT !.numToGrant = r3.numToGrant]
<1>1. ProcessReceivedPkt(r0, p) = SetBwTimer(MarkOversub(HandlePktArrival(r3, old, cur)))
  BY DEF ProcessReceivedPkt
<1>2. s \in Host /\ p.msg \in Msg
  <2>1. p.msg \in Msg
    BY PreviousData
  <2> QED BY <2>1, MsgAssumption
<1>3. n \in Nat /\ K \in Nat
  BY SchedAssumption
<1>4. r1 \in Lined({}, NumToKeepGranted) /\ Remarked(r0, r1) /\ r1.oversub # "ended"
  BY RecordedLined
<1> HIDE DEF r1
<1>5. r1.numToGrant = NumToKeepGranted
  BY <1>4 DEF Lined
<1>6. /\ old.sInd = RemovedFrom(r1, s) /\ old.headIdx = r1.headIdx
      /\ old.numToGrant = NumToKeepGranted
  BY <1>5
<1>20. old \in Places
  <2>1. r1 \in Receivers
    BY <1>4 DEF Remarked
  <2> HIDE DEF s
  <2> QED BY <1>2, <2>1, OldType
<1> HIDE DEF old
<1>7. /\ out \in Lined({s}, NumToKeepGranted - 1) /\ Relisted(r1, out)
      /\ WasGranted(old) => InRange(old) /\ s \in Needy(out)
      /\ ~WasGranted(old) => out \in Lined({s}, NumToKeepGranted)
  <2>1. out = RemoveSender(r1, s)
    OBVIOUS
  <2> HIDE DEF out, s
  <2> QED BY <1>2, <1>4, <1>6, <2>1, ArrivalTaken
<1>8. out \in Sound(A)
  <2> DEFINE G == Sound(A)
  <2>1. Closed(G) /\ r0 \in G
    BY SoundClosed
  <2> HIDE DEF G, out
  <2>2. r1 \in G
    BY <1>4, <2>1 DEF Closed, Remarked
  <2>3. out \in G
    BY <1>7, <2>1, <2>2, ClosedRelisted
  <2> QED BY <2>3 DEF G
<1> HIDE DEF out
<1>9. /\ r2 \in Lined({s}, n) /\ SameQueues(out, r2)
      /\ s \in Needy(out) => s \in Needy(r2)
  <2>1. out \in Lined({s}, n) /\ r2 = HandleInboundPkt(out, p) /\ s = MsgSrc[p.msg]
    BY <1>7
  <2> HIDE DEF r2, n, s
  <2> QED BY <1>3, <1>8, <2>1, InboundLined
<1>21. Received(r0, p, r2)
  <2>1. out \in Receivers /\ Bounds(out.inbnd) /\ Filing(out)
    BY <1>7 DEF Lined, Filers
  <2>2. p \in Pkt
    BY PreviousData
  <2>3. Inbounded(out, p, r2)
    BY <2>1, <2>2, InboundStep
  <2>4. out.inbnd = r0.inbnd /\ out.delivered = r0.delivered
    BY <1>4, <1>7 DEF Remarked, SameBytes, Relisted, SameMesgs
  <2> HIDE DEF r2
  <2>5. Following(out, p) = Following(r0, p)
    BY <2>4 DEF Following, Previous
  <2> QED BY <2>3, <2>4, <2>5 DEF Inbounded, Received
<1>19. NotToGrant(r2.inbnd, p)
  <2>1. r2 = HandleInboundPkt(out, p)
    OBVIOUS
  <2> HIDE DEF r2
  <2> QED BY <1>8, <2>1, NeverAgain
<1>10. ~WasGranted(old) => r2 \in Lined({s}, K)
  <2> SUFFICES ASSUME ~WasGranted(old)
               PROVE  r2 \in Lined({s}, K)
    OBVIOUS
  <2>1. out \in Lined({s}, K) /\ r2 = HandleInboundPkt(out, p) /\ s = MsgSrc[p.msg]
    BY <1>7
  <2> HIDE DEF r2, K, s
  <2> QED BY <1>3, <1>8, <2>1, InboundLined
<1> HIDE DEF r2
<1>11. r2 \in Receivers /\ r2.numToGrant = NumToKeepGranted
  BY <1>9 DEF Lined, Filers
<1>12. r3 = r2
  BY <1>11 DEF HandleMesgRecvCompletion
<1>13. cur = InsPoint(r2, s)
  <2> HIDE DEF s
  <2> QED BY <1>2, <1>11, <1>12, InsPointKept
<1>14. ProcessReceivedPkt(r0, p) = SetBwTimer(MarkOversub(HandlePktArrival(r2, old, InsPoint(r2, s))))
  BY <1>1, <1>12, <1>13
<1> HIDE DEF r3, cur, s
<1>15. r2.oversub # "ended" /\ r2.grants = r0.grants
  BY <1>4, <1>7, <1>9 DEF Remarked, SameBytes, Relisted, SameMesgs, SameQueues
<1>16. WasGranted(old) => InRange(old) /\ s \in Needy(r2)
  BY <1>7, <1>9
<1>17. r2 \in Lined({s}, NumToKeepGranted - 1)
       /\ (~WasGranted(old) => r2 \in Lined({s}, NumToKeepGranted))
  BY <1>9, <1>10 DEF n, K
<1>18. Arrived(r0, p, r2, old)
  BY <1>2, <1>14, <1>15, <1>16, <1>17, <1>19, <1>20, <1>21 DEF Arrived, s
<1> QED BY <1>18

\* processReceivedPkt keeps the list exact, and none of its assertions fails.
LEMMA ArrivalLined ==
  ASSUME Countable, ~LinkCheck, NEW A, NEW r0 \in Sound(A), NEW p \in A,
         r0 \in Lined({}, NumToKeepGranted), Marked(r0)
  PROVE  /\ ProcessReceivedPkt(r0, p) \in Lined({}, NumToKeepGranted)
         /\ Marked(ProcessReceivedPkt(r0, p))
<1>1. PICK r2, old : Arrived(r0, p, r2, old)
  BY ArrivalReaches
<1> DEFINE s == MsgSrc[p.msg]
           cur == InsPoint(r2, s)
           r4 == HandlePktArrival(r2, old, cur)
           r5 == MarkOversub(r4)
           q == SetBwTimer(r5)
<1>2. /\ s \in Host /\ r2 \in Lined({s}, NumToKeepGranted - 1)
      /\ r2.oversub # "ended" /\ ProcessReceivedPkt(r0, p) = q
      /\ WasGranted(old) => InRange(old) /\ s \in Needy(r2)
      /\ ~WasGranted(old) => r2 \in Lined({s}, NumToKeepGranted)
  BY <1>1 DEF Arrived
<1> HIDE DEF q, s
<1>3. r4 \in Lined({}, NumToKeepGranted) /\ r4.oversub = r2.oversub
  BY <1>2, HandlePktArrivalLined
<1> HIDE DEF r4
<1>4. r5 \in Lined({}, NumToKeepGranted) /\ Marked(r5)
  BY <1>2, <1>3, MarkedLined
<1> HIDE DEF r5
<1>5. q \in Lined({}, NumToKeepGranted) /\ Marked(q)
  BY <1>4, UncheckedLined DEF q
<1> QED BY <1>2, <1>5

LEMMA LeaveLined ==
  ASSUME NEW r \in Lined({}, NumToKeepGranted), Marked(r)
  PROVE  /\ [r EXCEPT !.grants = {}] \in Lined({}, NumToKeepGranted)
         /\ Marked([r EXCEPT !.grants = {}])
<1> DEFINE q == [r EXCEPT !.grants = {}]
<1>1. r \in Filers /\ r \in Receivers
  BY DEF Lined, Filers
<1>2. q \in Filers
  BY <1>1, LeaveFiles
<1>3. SameLined(r, q) /\ q.oversub = r.oversub
  BY <1>1 DEF Receivers, SameLined
<1> HIDE DEF q
<1>4. q \in Lined({}, NumToKeepGranted)
  BY <1>2, <1>3, LinedSame
<1>5. Marked(q)
  BY <1>3 DEF SameLined, Oversubscribed, Marked
<1> QED BY <1>4, <1>5 DEF q

LEMMA InitLined == InitReceiver \in Lined({}, NumToKeepGranted) /\ Marked(InitReceiver)
<1> DEFINE r == InitReceiver
<1>1. r \in Filers
  BY InitFiles
<1>2. /\ r.failed = {} /\ r.numToGrant = NumToKeepGranted /\ r.bwTimer = FALSE
      /\ r.senders = <<>> /\ r.headIdx = SchedPrios
      /\ \A s \in Host : r.toGrant[s] = <<>>
  BY DEF InitReceiver
<1> HIDE DEF r
<1>3. Needy(r) = {}
  BY <1>2 DEF Needy
<1>4. Len(r.senders) = 0 /\ DOMAIN r.senders = {}
  BY <1>2
<1>5. Elements(r.senders) = {} /\ InOrder(Ranks(r), r.senders) /\ Keeps(r, NumToKeepGranted)
  BY <1>4 DEF Elements, InOrder, Keeps
<1>6. Fits(r)
  BY <1>2, <1>4, SchedAssumption DEF Fits, Lesser
<1>7. ~Oversubscribed(r)
  BY <1>2, <1>4, SchedAssumption DEF Oversubscribed
<1> QED BY <1>1, <1>2, <1>3, <1>5, <1>6, <1>7 DEF Lined, Marked, r

-----------------------------------------------------------------------------
(* The best messages are granted.                                           *)

\* Does message x come before m, when b[x] bytes of x wait for grants?
Sooner(b, x, m) ==
  \/ b[x] < b[m]
  \/ b[x] = b[m] /\ MsgSize[x] < MsgSize[m]
  \/ b[x] = b[m] /\ MsgSize[x] = MsgSize[m] /\ x < m

\* The senders with a message that waits for grants and comes before m
AheadOf(r, b, m) == {MsgSrc[k] : k \in {x \in Ungranted(r) : Sooner(b, x, m)}}

\* Message m comes first at its sender, and its sender among the first.
Foremost(r, b, m) ==
  MsgSrc[m] \notin AheadOf(r, b, m) /\ Cardinality(AheadOf(r, b, m)) < NumToKeepGranted

\* The grants of an event, at the beginning of which b[m] bytes of each message waited:
\* no message is granted twice, and each came foremost.
Grading(r, b) ==
  /\ b \in [Msg -> Nat]
  /\ \A m \in Msg : (\A g \in r.grants : g.msg # m) => r.inbnd[m].bytesToGrant = b[m]
  /\ \A g \in r.grants :
       /\ g.msg \in Msg /\ g.len \in Nat /\ g.len > 0 /\ g.first = MsgSize[g.msg] - b[g.msg]
       /\ g.len = Lesser(b[g.msg], GrantMax)
       /\ r.inbnd[g.msg].bytesToGrant + g.len = b[g.msg]
       /\ Foremost(r, b, g.msg)
  /\ \A g, h \in r.grants : g.msg = h.msg => g = h

\* The grants so far were the last of their messages.
Done(r) == \A g \in r.grants : r.inbnd[g.msg].bytesToGrant = 0

LEMMA AheadOfFinite ==
  ASSUME NEW r, NEW b, NEW m
  PROVE  IsFiniteSet(AheadOf(r, b, m))
<1> DEFINE S == {x \in Ungranted(r) : Sooner(b, x, m)}
           f == [k \in S |-> MsgSrc[k]]
<1>1. S \in SUBSET Msg
  BY DEF Ungranted
<1>2. f \in Surjection(S, AheadOf(r, b, m))
  BY DEF Surjection, AheadOf
<1> HIDE DEF S, f
<1>3. IsFiniteSet(S)
  BY <1>1, FiniteAssumption, FS_Subset
<1> QED BY <1>2, <1>3, FS_Surjection

\* A message that came foremost still does when fewer wait.
LEMMA ForemostFewer ==
  ASSUME NEW r, NEW q, Ungranted(q) \in SUBSET Ungranted(r), NEW b, NEW m, Foremost(r, b, m)
  PROVE  Foremost(q, b, m)
<1>1. AheadOf(q, b, m) \subseteq AheadOf(r, b, m)
  BY DEF AheadOf
<1>2. /\ IsFiniteSet(AheadOf(r, b, m)) /\ IsFiniteSet(AheadOf(q, b, m))
  BY AheadOfFinite
<1>3. /\ Cardinality(AheadOf(q, b, m)) <= Cardinality(AheadOf(r, b, m))
      /\ Cardinality(AheadOf(q, b, m)) \in Nat /\ Cardinality(AheadOf(r, b, m)) \in Nat
  BY <1>1, <1>2, FS_Subset, FS_CardinalityType
<1>4. MsgSrc[m] \notin AheadOf(r, b, m) /\ Cardinality(AheadOf(r, b, m)) < NumToKeepGranted
  BY DEF Foremost
<1>5. NumToKeepGranted \in Nat
  BY SchedAssumption
<1>6. Cardinality(AheadOf(q, b, m)) < NumToKeepGranted
  BY <1>3, <1>4, <1>5
<1> QED BY <1>1, <1>4, <1>6 DEF Foremost

\* A message that comes before others is not better than the first of its sender.
LEMMA TopFirst ==
  ASSUME NEW r \in Filers, NEW x \in Ungranted(r)
  PROVE  /\ MsgSrc[x] \in Needy(r) /\ x \in Msg /\ Top(r, MsgSrc[x]) \in Msg
         /\ x = Top(r, MsgSrc[x]) \/ Better(r, Top(r, MsgSrc[x]), x)
<1> DEFINE s == MsgSrc[x]
           f == r.toGrant[s]
<1>1. x \in Msg /\ s \in Host /\ r.inbnd[x].bytesToGrant > 0
  BY MsgAssumption DEF Ungranted
<1>2. f \in Seq(Msg) /\ InOrder(Order(r), f) /\ Elements(f) = Waiting(r, s)
  BY <1>1 DEF Filers, Receivers, Files, Filing, FileExact
<1>3. x \in Elements(f)
  BY <1>1, <1>2 DEF Waiting
<1> HIDE DEF f
<1>4. PICK i \in DOMAIN f : f[i] = x
  BY <1>3 DEF Elements
<1>5. f # <<>> /\ 1 \in DOMAIN f /\ Head(f) = f[1] /\ i \in Nat /\ i >= 1 /\ f[1] \in Msg
  BY <1>2, <1>4
<1>6. Top(r, s) = f[1]
  BY <1>5 DEF Top, f
<1>7. i = 1 \/ <<f[1], f[i]>> \in Order(r)
  BY <1>2, <1>4, <1>5 DEF InOrder
<1>8. x = Top(r, s) \/ Better(r, Top(r, s), x)
  BY <1>4, <1>6, <1>7 DEF Order
<1> QED BY <1>1, <1>5, <1>6, <1>8 DEF Needy, f

LEMMA TopForemost ==
  ASSUME NEW n \in Nat, NEW s \in Host, NEW r \in Lined({s}, n), s \in Needy(r),
         Ahead(r, s) < NumToKeepGranted,
         NEW b, \A x \in Ungranted(r) : b[x] = r.inbnd[x].bytesToGrant
  PROVE  Foremost(r, b, Top(r, s))
<1> DEFINE m == Top(r, s)
           f == r.senders
           P == Prior(Ranks(r), f, s)
           I == {f[i] : i \in P}
<1>1. /\ r \in Filers /\ r \in Receivers /\ f \in Seq(Needy(r)) /\ Len(f) \in Nat
      /\ DOMAIN f = 1 .. Len(f) /\ f \in Seq(Host)
  BY LinedData
<1>2. Elements(f) = Needy(r) \ {s}
  BY DEF Lined
<1>3. m \in Msg /\ MsgSrc[m] = s /\ m \in Ungranted(r)
  BY <1>1, NeedyTop DEF Ungranted
<1>4. StrictOrder(Order(r), Msg)
  BY <1>1, OrderStrict
<1>5. ASSUME NEW x \in Ungranted(r), Sooner(b, x, m)
      PROVE  MsgSrc[x] # s /\ MsgSrc[x] \in I
  <2> DEFINE t == MsgSrc[x]
             k == Top(r, t)
  <2>1. t \in Needy(r) /\ x \in Msg /\ k \in Msg /\ (x = k \/ Better(r, k, x))
    BY <1>1, TopFirst
  <2>2. Better(r, x, m)
    <3>1. b[x] = r.inbnd[x].bytesToGrant /\ b[m] = r.inbnd[m].bytesToGrant
      BY <1>3
    <3> HIDE DEF m
    <3> QED BY <1>5, <3>1 DEF Sooner, Better
  <2> HIDE DEF k, m
  <2>3. Better(r, k, m)
    BY <1>3, <1>4, <2>1, <2>2 DEF StrictOrder, Order
  <2>4. t # s
    <3>1. t = s => k = m
      BY DEF k, m
    <3>2. ~Better(r, m, m)
      BY <1>3, <1>4 DEF StrictOrder, Order
    <3> QED BY <2>3, <3>1, <3>2
  <2>5. PICK i \in DOMAIN f : f[i] = t
    <3>1. t \in Elements(f)
      BY <1>2, <2>1, <2>4
    <3> HIDE DEF f, t
    <3> QED BY <3>1 DEF Elements
  <2>6. <<t, s>> \in Ranks(r)
    <3>1. t \in Host
      BY <2>1 DEF Needy
    <3> QED BY <2>3, <3>1 DEF Ranks, k, m
  <2>7. i \in P
    BY <2>5, <2>6 DEF Prior
  <2> HIDE DEF t, P, f
  <2>8. t \in I
    BY <2>5, <2>7
  <2> QED BY <2>4, <2>8 DEF t
<1>6. AheadOf(r, b, m) \subseteq I /\ s \notin AheadOf(r, b, m)
  BY <1>5 DEF AheadOf
<1>7. Ahead(r, s) = Cardinality(P)
  <2>1. s \notin Elements(f)
    BY <1>2
  <2> QED BY <1>1, <2>1, AheadIs
<1>8. IsFiniteSet(P)
  <2>1. IsFiniteSet(1 .. Len(f))
    BY <1>1, FS_Interval
  <2>2. P \subseteq 1 .. Len(f)
    BY <1>1 DEF Prior
  <2> HIDE DEF P
  <2> QED BY <2>1, <2>2, FS_Subset
<1>9. IsFiniteSet(I) /\ Cardinality(I) <= Cardinality(P)
  <2> DEFINE h == [i \in P |-> f[i]]
  <2>1. h \in Surjection(P, I)
    BY DEF Surjection
  <2> HIDE DEF h, I, P
  <2> QED BY <1>8, <2>1, FS_Surjection
<1>10. Cardinality(AheadOf(r, b, m)) < NumToKeepGranted
  <2> DEFINE a == Cardinality(AheadOf(r, b, m))
             c == Cardinality(I)
             d == Cardinality(P)
  <2> HIDE DEF I, P
  <2>1. a <= c
    BY <1>6, <1>9, FS_Subset
  <2>2. a \in Nat /\ c \in Nat /\ d \in Nat
    BY <1>8, <1>9, AheadOfFinite, FS_CardinalityType
  <2>3. c <= d /\ d < NumToKeepGranted
    BY <1>7, <1>9
  <2> HIDE DEF a, c, d
  <2>4. a < NumToKeepGranted
    BY <2>1, <2>2, <2>3, SchedAssumption
  <2> QED BY <2>4 DEF a
<1> QED BY <1>3, <1>6, <1>10 DEF Foremost

\* A sender with less than NumToKeepGranted before it would be kept granted.
LEMMA InRangeAhead ==
  ASSUME NEW n \in Nat, NEW s \in Host, NEW r \in Lined({s}, n), s \in Needy(r),
         Ahead(r, s) < NumToKeepGranted
  PROVE  InRange(InsPoint(r, s))
<1> DEFINE cur == InsPoint(r, s)
           a == Ahead(r, s)
           h == cur.headIdx
           e == cur.sInd
           w == cur.numToGrant
<1>1. /\ cur \in Places /\ w = NumToKeepGranted /\ e = h + a /\ a \in 0 .. Len(r.senders)
  BY InsPointIs
<1>2. Len(r.senders) \in Nat
  BY LinedData
<1>3. h \in Nat /\ a \in Nat
  <2> HIDE DEF cur, a
  <2> QED BY <1>1, <1>2 DEF Places
<1>4. a < NumToKeepGranted
  OBVIOUS
<1> HIDE DEF a, h, e, w
<1>5. e >= h /\ e < h + w
  BY <1>1, <1>3, <1>4, SchedAssumption
<1> QED BY <1>5 DEF InRange, e, h, w

\* What sendAndScheduleGrant makes of the grants
Sent(r, s, q) ==
  \/ q.inbnd = r.inbnd /\ q.grants = r.grants
  \/ LET m == Top(r, s)
     IN /\ q.grants = r.grants \cup {GrantOf(r, s)}
        /\ GrantOf(r, s).msg = m
        /\ GrantOf(r, s).first = MsgSize[m] - r.inbnd[m].bytesToGrant
        /\ GrantOf(r, s).len \in Nat /\ GrantOf(r, s).len > 0
        /\ GrantOf(r, s).len = Lesser(r.inbnd[m].bytesToGrant, GrantMax)
        /\ q.inbnd[m].bytesToGrant + GrantOf(r, s).len = r.inbnd[m].bytesToGrant
        /\ q.inbnd[m].bytesToGrant \in Nat
        /\ \A k \in Msg : k # m => q.inbnd[k] = r.inbnd[k]

LEMMA SentStep ==
  ASSUME NEW r \in Filers, NEW s \in Needy(r), NEW prio \in 0 .. AllPrio,
         NEW q, q = SendAndScheduleGrant(r, s, prio)
  PROVE  Sent(r, s, q)
<1> DEFINE m == Top(r, s)
           g == GrantOf(r, s)
           n == GrantSize(r, s)
           in == r.inbnd[m]
           new == Granted(r, s)
<1>1. /\ r \in Receivers /\ Bounds(r.inbnd) /\ s \in Host /\ r.toGrant[s] # <<>>
      /\ r.inbnd \in Inbounds
  BY DEF Filers, Needy, Receivers
<1>2. GrantStep(r, s, q)
  BY <1>1, SendStep
<1>3. CASE SameBytes(r, q)
  BY <1>3 DEF SameBytes, Sent
<1>4. CASE q.inbnd = InbndGranted(r, s) /\ q.grants = r.grants \cup {g}
  <2>1. /\ m \in Msg /\ in \in Inbound /\ n \in Nat /\ n <= in.bytesToGrant
    BY <1>1, GrantType
  <2>2. in.bytesToGrant > 0
    BY <1>1, HeadWaiting
  <2>3. in.bytesToGrant \in Nat
    BY <2>1 DEF Inbound
  <2>4. n > 0
    BY <2>2, <2>3, SizeAssumption DEF GrantSize, Lesser
  <2>5. new.bytesToGrant = in.bytesToGrant - n
    BY <2>1 DEF Granted, Inbound
  <2>6. g.msg = m /\ g.first = MsgSize[m] - in.bytesToGrant /\ g.len = n
    BY DEF GrantOf
  <2>7. \A k \in Msg : q.inbnd[k] = IF k = m THEN new ELSE r.inbnd[k]
    BY <1>1, <1>4, <2>1 DEF InbndGranted, Inbounds
  <2>8. q.inbnd[m] = new /\ \A k \in Msg : k # m => q.inbnd[k] = r.inbnd[k]
    BY <2>1, <2>7
  <2>9. q.grants = r.grants \cup {g}
    BY <1>4
  <2> HIDE DEF g, n, new
  <2>10. q.inbnd[m].bytesToGrant + g.len = in.bytesToGrant /\ q.inbnd[m].bytesToGrant \in Nat
    <3> DEFINE a == in.bytesToGrant
               c == new.bytesToGrant
    <3>1. a \in Nat /\ c = a - n /\ n \in Nat /\ n <= a
      BY <2>1, <2>3, <2>5
    <3> HIDE DEF a, c
    <3>2. c + n = a /\ c \in Nat
      BY <3>1
    <3> QED BY <2>6, <2>8, <3>2 DEF a, c
  <2>11. g.len \in Nat /\ g.len > 0 /\ g.len = Lesser(in.bytesToGrant, GrantMax)
    <3>1. n = Lesser(in.bytesToGrant, GrantMax)
      BY DEF GrantSize, n
    <3> QED BY <2>1, <2>4, <2>6, <3>1
  <2> QED BY <2>6, <2>8, <2>9, <2>10, <2>11 DEF Sent, g
<1> QED BY <1>2, <1>3, <1>4 DEF GrantStep

\* A grant that is sent when those before it were the last of their messages goes to the
\* foremost message, and is the last of it too or leaves the sender in range.
LEMMA SendGraded ==
  ASSUME NEW s \in Host, NEW r \in Lined({s}, NumToKeepGranted - 1), s \in Needy(r),
         Ahead(r, s) < NumToKeepGranted, NEW b, Grading(r, b), Done(r),
         NEW i \in Nat, NEW q, q = SendAndScheduleGrant(r, s, PrioForMesg(i))
  PROVE  Grading(q, b) /\ (Done(q) \/ InRange(InsPoint(q, s)))
<1> DEFINE n == NumToKeepGranted - 1
           m == Top(r, s)
           g == GrantOf(r, s)
<1>1. n \in Nat /\ r \in Lined({s}, n) /\ NumToKeepGranted \in Nat
  BY SchedAssumption
<1> HIDE DEF n
<1>2. r \in Filers /\ r \in Receivers
  BY <1>1, LinedData
<1>3. /\ q \in Lined({s}, n) /\ SameLists(r, q) /\ Ungranted(q) \in SUBSET Ungranted(r)
      /\ (s \in Needy(q) /\ Ahead(q, s) <= Ahead(r, s)) \/ Ungranted(q) # Ungranted(r)
  BY <1>1, SendLined
<1>4. Sent(r, s, q)
  BY <1>2, PrioType, SentStep
<1>5. \A k \in Msg : Foremost(r, b, k) => Foremost(q, b, k)
  BY <1>3, ForemostFewer
<1>6. CASE q.inbnd = r.inbnd /\ q.grants = r.grants
  <2>1. Grading(q, b)
    BY <1>5, <1>6 DEF Grading
  <2>2. Done(q)
    BY <1>6 DEF Done
  <2> QED BY <2>1, <2>2
<1>7. CASE /\ q.grants = r.grants \cup {g} /\ g.msg = m
           /\ g.first = MsgSize[m] - r.inbnd[m].bytesToGrant
           /\ g.len \in Nat /\ g.len > 0
           /\ g.len = Lesser(r.inbnd[m].bytesToGrant, GrantMax)
           /\ q.inbnd[m].bytesToGrant + g.len = r.inbnd[m].bytesToGrant
           /\ q.inbnd[m].bytesToGrant \in Nat
           /\ \A k \in Msg : k # m => q.inbnd[k] = r.inbnd[k]
  <2>1. m \in Msg /\ r.inbnd[m].bytesToGrant > 0
    BY <1>2, NeedyTop
  <2> HIDE DEF m, g
  <2>2. \A h \in r.grants : h.msg \in Msg /\ h.msg # m
    BY <2>1 DEF Done, Grading
  <2>3. \A x \in Ungranted(r) : b[x] = r.inbnd[x].bytesToGrant
    BY DEF Ungranted, Done, Grading
  <2>4. Foremost(r, b, m)
    BY <1>1, <2>3, TopForemost DEF m
  <2>5. r.inbnd[m].bytesToGrant = b[m]
    BY <2>1, <2>2 DEF Grading
  <2>6. \A k \in Msg : (\A h \in q.grants : h.msg # k) => q.inbnd[k].bytesToGrant = b[k]
    BY <1>7, <2>2 DEF Grading
  <2>7. \A h \in q.grants :
          /\ h.msg \in Msg /\ h.len \in Nat /\ h.len > 0 /\ h.first = MsgSize[h.msg] - b[h.msg]
          /\ h.len = Lesser(b[h.msg], GrantMax)
          /\ q.inbnd[h.msg].bytesToGrant + h.len = b[h.msg]
          /\ Foremost(q, b, h.msg)
    <3> SUFFICES ASSUME NEW h \in q.grants
                 PROVE  /\ h.msg \in Msg /\ h.len \in Nat /\ h.len > 0
                        /\ h.first = MsgSize[h.msg] - b[h.msg]
                        /\ h.len = Lesser(b[h.msg], GrantMax)
                        /\ q.inbnd[h.msg].bytesToGrant + h.len = b[h.msg]
                        /\ Foremost(q, b, h.msg)
      OBVIOUS
    <3>1. CASE h = g
      BY <1>5, <1>7, <2>1, <2>4, <2>5, <3>1
    <3>2. CASE h \in r.grants
      BY <1>5, <1>7, <2>2, <3>2 DEF Grading
    <3> QED BY <1>7, <3>1, <3>2
  <2>8. \A h, j \in q.grants : h.msg = j.msg => h = j
    BY <1>7, <2>2 DEF Grading
  <2>9. Grading(q, b)
    BY <2>6, <2>7, <2>8 DEF Grading
  <2>10. CASE q.inbnd[m].bytesToGrant = 0
    <3>1. Done(q)
      BY <1>7, <2>2, <2>10 DEF Done
    <3> QED BY <2>9, <3>1
  <2>11. CASE q.inbnd[m].bytesToGrant > 0
    <3>1. Ungranted(q) = Ungranted(r)
      BY <1>7, <2>1, <2>11 DEF Ungranted
    <3>2. s \in Needy(q) /\ Ahead(q, s) <= Ahead(r, s)
      BY <1>3, <3>1
    <3>3. q \in Receivers
      BY <1>1, <1>3, LinedData
    <3>4. Ahead(q, s) \in Nat /\ Ahead(r, s) \in Nat
      <4>1. r.senders \in Seq(Host) /\ q.senders \in Seq(Host)
        BY <1>2, <3>3 DEF Receivers, Lists
      <4> QED BY <1>2, <3>3, <4>1, AheadType
    <3>5. Ahead(q, s) < NumToKeepGranted
      BY <1>1, <3>2, <3>4
    <3>6. InRange(InsPoint(q, s))
      BY <1>1, <1>3, <3>2, <3>5, InRangeAhead
    <3> QED BY <2>9, <3>6
  <2> QED BY <1>7, <2>10, <2>11
<1> QED BY <1>4, <1>6, <1>7 DEF Sent

LEMMA SameGrading ==
  ASSUME NEW r, NEW q, q.inbnd = r.inbnd, q.grants = r.grants
  PROVE  /\ \A b : Grading(r, b) => Grading(q, b)
         /\ Done(r) => Done(q)
<1>1. Ungranted(q) = Ungranted(r)
  BY DEF Ungranted
<1>2. \A b, m : Foremost(r, b, m) => Foremost(q, b, m)
  BY <1>1 DEF Foremost, AheadOf
<1> QED BY <1>2 DEF Grading, Done

\* Listing senders leaves the grants alone.
LEMMA RelistedGrading ==
  ASSUME NEW r, NEW q, Relisted(r, q)
  PROVE  /\ \A b : Grading(r, b) => Grading(q, b)
         /\ Done(r) => Done(q)
<1>1. q.inbnd = r.inbnd /\ q.grants = r.grants
  BY DEF Relisted, SameMesgs
<1> QED BY <1>1, SameGrading

\* The scheduler in the middle of an event: a slot is passed on only when the grants so
\* far were the last of their messages.
Graded(st, b) == Grading(st.r, b) /\ (st.going => Done(st.r) \/ InRange(st.cur))

LEMMA SentGraded ==
  ASSUME NEW s \in Host, NEW r \in Lined({s}, NumToKeepGranted - 1), s \in Needy(r),
         Ahead(r, s) < NumToKeepGranted, NEW b, Grading(r, b), Done(r),
         NEW i \in Nat, NEW q, q = SendAndScheduleGrant(r, s, PrioForMesg(i)), NEW old
  PROVE  Graded([r |-> q, old |-> old, cur |-> InsPoint(q, s), going |-> TRUE], b)
<1>1. Grading(q, b) /\ (Done(q) \/ InRange(InsPoint(q, s)))
  BY SendGraded
<1> DEFINE cur == InsPoint(q, s)
           st == [r |-> q, old |-> old, cur |-> cur, going |-> TRUE]
<1> HIDE DEF cur
<1>2. st.r = q /\ st.cur = cur /\ st.going
  OBVIOUS
<1> HIDE DEF st
<1>3. Graded(st, b)
  BY <1>1, <1>2 DEF Graded, cur
<1> QED BY <1>3 DEF st, cur

LEMMA SendFirstGraded ==
  ASSUME NEW s \in Host, NEW r \in Lined({s}, NumToKeepGranted - 1),
         NEW at, at = InsPoint(r, s), s \in Needy(r), Ahead(r, s) < NumToKeepGranted,
         NEW b, Grading(r, b), Done(r)
  PROVE  Graded(SendFirst(r, s, at), b)
<1> DEFINE n == NumToKeepGranted - 1
           q == SendAndScheduleGrant(r, s, PrioForMesg(at.sInd))
<1>1. n \in Nat /\ r \in Lined({s}, n)
  BY SchedAssumption
<1> HIDE DEF n
<1>2. at \in Places /\ at.sInd = at.headIdx + Ahead(r, s) /\ Ahead(r, s) \in 0 .. Len(r.senders)
  BY <1>1, InsPointIs
<1>3. Len(r.senders) \in Nat
  BY <1>1, LinedData
<1>4. at.sInd \in Nat
  BY <1>2, <1>3 DEF Places
<1>5. Graded([r |-> q, old |-> at, cur |-> InsPoint(q, s), going |-> TRUE], b)
  BY <1>4, SentGraded
<1> QED BY <1>5 DEF SendFirst

LEMMA GrantAtGraded ==
  ASSUME NEW r, NEW cur, Grantable(r, cur), NEW ind, ind = cur.headIdx + NumToKeepGranted - 1,
         NEW b, Grading(r, b), Done(r)
  PROVE  Graded(GrantAt(r, cur, ind), b)
<1>1. PICK q, s, old : SlotGiven(r, cur, ind, q, s, old)
  BY GrantAtCases
<1> DEFINE sent == SendAndScheduleGrant(q, s, PrioForMesg(ind))
<1>2. /\ q \in Lined({s}, NumToKeepGranted - 1) /\ Relisted(r, q) /\ s \in Needy(q) /\ s \in Host
      /\ Ahead(q, s) < NumToKeepGranted /\ ind \in Nat
      /\ GrantAt(r, cur, ind) = [r |-> sent, old |-> old, cur |-> InsPoint(sent, s), going |-> TRUE]
  BY <1>1 DEF SlotGiven
<1>3. Grading(q, b) /\ Done(q)
  BY <1>2, RelistedGrading
<1>4. sent = SendAndScheduleGrant(q, s, PrioForMesg(ind))
  OBVIOUS
<1> HIDE DEF sent
<1>5. Graded([r |-> sent, old |-> old, cur |-> InsPoint(sent, s), going |-> TRUE], b)
  BY <1>2, <1>3, <1>4, SentGraded
<1> QED BY <1>2, <1>5

LEMMA SettledGraded ==
  ASSUME NEW r, NEW b, Grading(r, b), NEW cur
  PROVE  Graded(Settled(r, cur), b)
BY DEF Graded, Settled

LEMMA PassOnGraded ==
  ASSUME NEW st, NEW most \in Nat, NEW mark, NEW left \in Int, NEW b,
         Passing(st, most, mark, left) \/ Passed(st, most, mark), Graded(st, b)
  PROVE  Graded(PassOn(st), b)
<1>1. CASE Passed(st, most, mark)
  BY <1>1, PassOnPassed
<1>2. CASE Passing(st, most, mark, left)
  <2> DEFINE ind == st.cur.headIdx + NumToKeepGranted - 1
  <2>1. PICK x : PassOnTo(st, most, left, x)
    BY <1>2, PassOnCases
  <2>2. Grading(st.r, b) /\ Relisted(st.r, x)
    BY <2>1 DEF Graded, PassOnTo
  <2>3. Grading(x, b)
    BY <2>2, RelistedGrading
  <2>4. CASE PassOn(st) = Settled(x, st.cur)
    BY <2>3, <2>4, SettledGraded
  <2>5. CASE PassOn(st) = GrantAt(x, st.cur, ind) /\ Grantable(x, st.cur) /\ ~InRange(st.cur)
    <3>1. Done(st.r)
      BY <1>2, <2>5 DEF Graded, Passing
    <3>2. Done(x)
      BY <2>2, <3>1, RelistedGrading
    <3> HIDE DEF ind
    <3>3. Graded(GrantAt(x, st.cur, ind), b)
      BY <2>3, <2>5, <3>2, GrantAtGraded DEF ind
    <3> QED BY <2>5, <3>3
  <2> QED BY <2>1, <2>4, <2>5 DEF PassOnTo
<1> QED BY <1>1, <1>2

LEMMA GrantSentGraded ==
  ASSUME NEW st, NEW most \in Nat, NEW mark,
         Passing(st, most, mark, Cardinality(Msg)) \/ Passed(st, most, mark),
         NEW b, Graded(st, b)
  PROVE  Grading(HandleGrantSent(st), b)
<1> DEFINE all == Cardinality(Msg)
           calls == all + 1
<1>1. all \in Nat /\ calls \in Nat
  BY FiniteAssumption, FS_CardinalityType
<1>2. PICK after : CallsOf(after, st, most, mark)
  BY CallsPass
<1> DEFINE T == {k \in 0 .. calls : ~Graded(after[k], b)}
<1>3. /\ \A k \in 0 .. calls : after[k] = IF k = 0 THEN st ELSE PassOn(after[k - 1])
      /\ \A k \in 0 .. calls :
           Passing(after[k], most, mark, all - k) \/ Passed(after[k], most, mark)
      /\ HandleGrantSent(st) = after[calls].r
  BY <1>2 DEF CallsOf, CallsFrom
<1> HIDE DEF calls, all
<1>4. T = {}
  <2>1. SUFFICES ASSUME T # {}
                 PROVE  FALSE
    OBVIOUS
  <2>2. PICK k \in T : \A j \in T : k <= j
    <3>1. T \in SUBSET Nat
      BY <1>1
    <3> HIDE DEF T
    <3> QED BY <2>1, <3>1, LeastElement
  <2>3. k \in 0 .. calls /\ k \in Nat /\ ~Graded(after[k], b)
    BY <1>1, <2>2
  <2>4. k # 0
    BY <1>3, <2>3
  <2>5. k - 1 \in 0 .. calls /\ k - 1 \notin T
    BY <1>1, <2>2, <2>3, <2>4
  <2>6. Graded(after[k - 1], b)
    BY <2>5
  <2>7. after[k] = PassOn(after[k - 1])
    BY <1>3, <2>3, <2>4
  <2> DEFINE left == all - (k - 1)
  <2>8. left \in Int
    BY <1>1, <2>3
  <2>9. Passing(after[k - 1], most, mark, left) \/ Passed(after[k - 1], most, mark)
    BY <1>3, <2>5
  <2> HIDE DEF left, T
  <2>10. Graded(PassOn(after[k - 1]), b)
    BY <2>6, <2>8, <2>9, PassOnGraded
  <2> QED BY <2>3, <2>7, <2>10
<1>5. Graded(after[calls], b)
  <2>1. calls \in 0 .. calls
    BY <1>1
  <2> QED BY <1>4, <2>1
<1> QED BY <1>3, <1>5 DEF Graded

\* handleGrantTimerEvent
LEMMA GrantSenderGraded ==
  ASSUME NEW s \in Host, NEW r \in Lined({s}, NumToKeepGranted - 1),
         NEW at, at = InsPoint(r, s), s \in Needy(r), Ahead(r, s) < NumToKeepGranted,
         NEW b, Grading(r, b), Done(r)
  PROVE  Grading(GrantSender(r, s, at), b)
<1> DEFINE most == Len(r.senders) + 1
           st == SendFirst(r, s, at)
           n == NumToKeepGranted - 1
<1>1. n \in Nat /\ r \in Lined({s}, n)
  BY SchedAssumption
<1> HIDE DEF n
<1>2. Len(r.senders) \in Nat
  BY <1>1, LinedData
<1>3. most \in Nat /\ Len(r.senders) < most
  BY <1>2
<1> HIDE DEF most
<1>4. Passing(st, most, r.oversub, Cardinality(Msg))
  BY <1>3, SendFirstPassing
<1>5. Graded(st, b)
  BY SendFirstGraded
<1> HIDE DEF st
<1>6. Grading(HandleGrantSent(st), b)
  BY <1>3, <1>4, <1>5, GrantSentGraded
<1> QED BY <1>6 DEF st, GrantSender

LEMMA HandlePktArrivalGraded ==
  ASSUME NEW s \in Host, NEW r \in Lined({s}, NumToKeepGranted - 1),
         NEW old, NEW cur, cur = InsPoint(r, s),
         WasGranted(old) => InRange(old) /\ s \in Needy(r),
         ~WasGranted(old) => r \in Lined({s}, NumToKeepGranted),
         NEW b, Grading(r, b), Done(r)
  PROVE  Grading(HandlePktArrival(r, old, cur), b)
<1> DEFINE ind == cur.headIdx + NumToKeepGranted - 1
<1>1. PICK st, most : Follows(st, r, s, old, cur, most)
  BY HandlePktArrivalPasses
<1>2. PICK x : Begins(st, r, s, cur, x)
  BY <1>1 DEF Follows
<1>3. Graded(st, b)
  <2>1. CASE st = SendFirst(r, s, cur) /\ s \in Needy(r) /\ Ahead(r, s) < NumToKeepGranted
    <3>1. Graded(SendFirst(r, s, cur), b)
      BY <2>1, SendFirstGraded
    <3> QED BY <2>1, <3>1
  <2>2. CASE Relisted(r, x) /\ st = Settled(x, cur)
    <3>1. Grading(x, b)
      BY <2>2, RelistedGrading
    <3> QED BY <2>2, <3>1, SettledGraded
  <2>3. CASE Relisted(r, x) /\ st = GrantAt(x, cur, ind) /\ Grantable(x, cur)
    <3>1. Grading(x, b) /\ Done(x)
      BY <2>3, RelistedGrading
    <3> HIDE DEF ind
    <3>2. Graded(GrantAt(x, cur, ind), b)
      BY <2>3, <3>1, GrantAtGraded DEF ind
    <3> QED BY <2>3, <3>2
  <2> QED BY <1>2, <2>1, <2>2, <2>3 DEF Begins
<1>4. Grading(HandleGrantSent(st), b)
  BY <1>1, <1>3, GrantSentGraded DEF Follows
<1> QED BY <1>1, <1>4 DEF Follows

\* Before the first grant of an event
Waits(r) == [m \in Msg |-> r.inbnd[m].bytesToGrant]

\* What the grants of an event leave as it was
Kept(r) ==
  {q \in Filers : /\ q.delivered = r.delivered
                  /\ \A m \in Msg : q.inbnd[m].open = r.inbnd[m].open}

LEMMA KeptClosed ==
  ASSUME NEW r0
  PROVE  Closed(Kept(r0))
<1>1. ASSUME NEW r \in Kept(r0), NEW q \in Receivers, SameBytes(r, q)
      PROVE  q \in Kept(r0)
  <2>1. q \in Filers
    BY <1>1, FilersClosed DEF Kept, Closed
  <2> QED BY <1>1, <2>1 DEF Kept, SameBytes
<1>2. ASSUME NEW r \in Kept(r0), NEW s \in Host, NEW prio \in 0 .. AllPrio
      PROVE  SendAndScheduleGrant(r, s, prio) \in Kept(r0)
  <2> DEFINE q == SendAndScheduleGrant(r, s, prio)
             m == Top(r, s)
  <2>1. r \in Filers /\ r \in Receivers /\ Bounds(r.inbnd)
    BY DEF Kept, Filers
  <2>2. q \in Filers
    BY <2>1, FilersClosed DEF Closed
  <2>3. GrantStep(r, s, q)
    BY <2>1, SendStep
  <2> HIDE DEF q
  <2>4. ASSUME SameBytes(r, q)
        PROVE  q \in Kept(r0)
    BY <2>2, <2>4 DEF Kept, SameBytes
  <2>5. ASSUME r.toGrant[s] # <<>>, q.inbnd = InbndGranted(r, s), q.delivered = r.delivered
        PROVE  q \in Kept(r0)
    <3>1. m \in Msg /\ r.inbnd \in Inbounds /\ r.inbnd[m] \in Inbound
      BY <2>1, <2>5, GrantType DEF Receivers
    <3>2. Granted(r, s).open = r.inbnd[m].open
      BY <3>1 DEF Granted, Inbound
    <3> HIDE DEF m
    <3>3. \A k \in Msg : q.inbnd[k] = IF k = m THEN Granted(r, s) ELSE r.inbnd[k]
      BY <2>5, <3>1 DEF InbndGranted, Inbounds, m
    <3>4. \A k \in Msg : q.inbnd[k].open = r.inbnd[k].open
      BY <3>2, <3>3
    <3> QED BY <2>2, <2>5, <3>4 DEF Kept
  <2>6. q \in Kept(r0)
    BY <2>3, <2>4, <2>5 DEF GrantStep
  <2> QED BY <2>6 DEF q
<1>3. \A r \in Kept(r0) : r \in Receivers /\ Bounds(r.inbnd)
  BY DEF Kept, Filers
<1> QED BY <1>1, <1>2, <1>3 DEF Closed

LEMMA NothingGranted ==
  ASSUME NEW r \in Receivers, r.grants = {}
  PROVE  Grading(r, Waits(r)) /\ Done(r)
<1>1. \A m \in Msg : r.inbnd[m].bytesToGrant \in Nat
  BY DEF Receivers, Inbounds, Inbound
<1>2. Waits(r) \in [Msg -> Nat] /\ \A m \in Msg : Waits(r)[m] = r.inbnd[m].bytesToGrant
  BY <1>1 DEF Waits
<1> QED BY <1>2 DEF Grading, Done

\* processGrantTimers
LEMMA TimerGraded ==
  ASSUME NEW r0 \in Lined({}, NumToKeepGranted), r0.grants = {}, NEW s \in Host
  PROVE  Grading(ProcessGrantTimer(r0, s), Waits(r0))
<1> DEFINE K == NumToKeepGranted
           off == [r0 EXCEPT !.timer[s] = FALSE]
           r1 == RemoveSender(off, s)
           at == InsPoint(r1, s)
           o1 == InsertSender(r1, s)
           o2 == GrantSender(r1, s, at)
           r2 == IF at.sInd < 0 THEN r1
                 ELSE IF at.sInd - at.headIdx >= r1.numToGrant THEN o1
                 ELSE o2
           q == ProcessGrantTimer(r0, s)
<1>1. q = IF r2.oversub = "in" /\ ~Oversubscribed(r2)
            THEN [r2 EXCEPT !.oversub = "ended"] ELSE r2
  BY DEF ProcessGrantTimer
<1> HIDE DEF q
<1>2. /\ off \in Lined({}, 0)
      /\ \A j \in 1 .. Len(off.senders) :
           j <= NumToKeepGranted /\ off.senders[j] # s => Tended(off, off.senders[j])
  <2> HIDE DEF off
  <2>1. off = [r0 EXCEPT !.timer[s] = FALSE]
    BY DEF off
  <2> QED BY <2>1, TimerLined
<1>3. off.grants = {}
  BY DEF Lined, Filers, Receivers
<1>11. off.inbnd = r0.inbnd
  BY DEF Lined, Filers, Receivers
<1> HIDE DEF off
<1>4. r1 \in Lined({s}, NumToKeepGranted - 1) /\ Relisted(off, r1)
  <2>1. r1 = RemoveSender(off, s)
    OBVIOUS
  <2> HIDE DEF r1
  <2> QED BY <1>2, <2>1, TakenOut
<1> HIDE DEF r1
<1>5. r1 \in Receivers /\ r1.numToGrant = K /\ r1.grants = {}
  BY <1>3, <1>4 DEF Lined, Filers, Relisted, SameMesgs
<1> DEFINE b == Waits(r1)
<1>10. b = Waits(r0)
  BY <1>4, <1>11 DEF Relisted, SameMesgs, Waits
<1>6. Grading(r1, b) /\ Done(r1)
  BY <1>5, NothingGranted
<1> HIDE DEF b
<1>7. Grading(r2, b)
  <2>1. /\ at \in Places
        /\ r1.toGrant[s] = <<>> => at.sInd = -1
        /\ r1.toGrant[s] # <<>> => at.sInd = at.headIdx + Ahead(r1, s)
    BY <1>5, InsPointType
  <2>2. CASE r2 = r1
    BY <1>6, <2>2
  <2>3. CASE r2 = o1
    <3>1. Relisted(r1, o1)
      BY <1>5, InsertSenderStep
    <3>2. Grading(o1, b)
      BY <1>6, <3>1, RelistedGrading
    <3> QED BY <2>3, <3>2
  <2>4. CASE ~(at.sInd < 0) /\ ~(at.sInd - at.headIdx >= r1.numToGrant)
    <3>1. r2 = o2
      BY <2>4
    <3>2. r1.toGrant[s] # <<>> /\ at.sInd = at.headIdx + Ahead(r1, s)
      BY <2>1, <2>4
    <3>3. s \in Needy(r1)
      BY <3>2 DEF Needy
    <3>4. at.headIdx \in Nat /\ Ahead(r1, s) \in Nat
      <4>1. r1.senders \in Seq(Host)
        BY <1>5 DEF Receivers, Lists
      <4>2. at.headIdx \in Nat
        BY <2>1 DEF Places
      <4>3. Ahead(r1, s) \in Nat
        BY <1>5, <4>1, AheadType
      <4> QED BY <4>2, <4>3
    <3>5. Ahead(r1, s) < NumToKeepGranted
      <4> DEFINE a == Ahead(r1, s)
                 h == at.headIdx
                 e == at.sInd
                 w == r1.numToGrant
      <4>1. a \in Nat /\ h \in Nat /\ e = h + a /\ w = NumToKeepGranted /\ ~(e - h >= w)
        BY <1>5, <2>4, <3>2, <3>4
      <4> HIDE DEF a, h, e, w
      <4>2. a < NumToKeepGranted
        BY <4>1, SchedAssumption
      <4> QED BY <4>2 DEF a
    <3>6. at = InsPoint(r1, s)
      OBVIOUS
    <3> HIDE DEF at, r2
    <3>7. Grading(o2, b)
      BY <1>4, <1>6, <3>3, <3>5, <3>6, GrantSenderGraded
    <3> QED BY <3>1, <3>7
  <2> QED BY <2>2, <2>3, <2>4
<1> HIDE DEF r2
<1>8. q.inbnd = r2.inbnd /\ q.grants = r2.grants
  BY <1>1
<1>9. Grading(q, b)
  BY <1>7, <1>8, SameGrading
<1> QED BY <1>9, <1>10 DEF q

LEMMA MarkedBytes ==
  ASSUME NEW r \in Receivers
  PROVE  MarkOversub(r) \in Receivers /\ SameBytes(r, MarkOversub(r))
BY DEF MarkOversub, Require, Receivers, SameBytes, Labels

LEMMA BwTimerBytes ==
  ASSUME NEW r \in Receivers
  PROVE  SetBwTimer(r) \in Receivers /\ SameBytes(r, SetBwTimer(r))
BY SchedAssumption DEF SetBwTimer, Receivers, SameBytes

\* What processReceivedPkt grants, and to which messages, when it has handed its packet
\* to its message: no bytes that the packet brought.
Answers(r0, p, r, q) ==
  /\ Received(r0, p, r) /\ r \in Filers /\ NotToGrant(r.inbnd, p)
  /\ Grading(q, Waits(r)) /\ q \in Kept(r)

LEMMA ArrivalGraded ==
  ASSUME Countable, NEW A, NEW r0 \in Sound(A), NEW p \in A, r0.grants = {},
         r0 \in Lined({}, NumToKeepGranted), Marked(r0)
  PROVE  \E r : Answers(r0, p, r, ProcessReceivedPkt(r0, p))
<1>1. PICK r2, old : Arrived(r0, p, r2, old)
  BY ArrivalReaches
<1> DEFINE s == MsgSrc[p.msg]
           cur == InsPoint(r2, s)
           r4 == HandlePktArrival(r2, old, cur)
           r5 == MarkOversub(r4)
           q == SetBwTimer(r5)
           b == Waits(r2)
<1>2. /\ s \in Host /\ r2 \in Lined({s}, NumToKeepGranted - 1)
      /\ ProcessReceivedPkt(r0, p) = q /\ r2.grants = {} /\ NotToGrant(r2.inbnd, p)
      /\ old \in Places /\ Received(r0, p, r2)
      /\ WasGranted(old) => InRange(old) /\ s \in Needy(r2)
      /\ ~WasGranted(old) => r2 \in Lined({s}, NumToKeepGranted)
  BY <1>1 DEF Arrived
<1> HIDE DEF q, s
<1>3. Grading(r2, b) /\ Done(r2)
  <2>1. r2 \in Receivers
    BY <1>2 DEF Lined, Filers
  <2> QED BY <1>2, <2>1, NothingGranted
<1>4. r2 \in Filers /\ r2 \in Receivers /\ r2 \in Kept(r2)
  BY <1>2 DEF Lined, Filers, Kept
<1>9. r4 \in Kept(r2)
  <2>1. cur \in Places
    BY <1>2, <1>4, InsPointType
  <2> HIDE DEF cur
  <2> QED BY <1>2, <1>4, <2>1, KeptClosed, HandlePktArrivalIn
<1> HIDE DEF b
<1>5. Grading(r4, b)
  BY <1>2, <1>3, HandlePktArrivalGraded
<1> HIDE DEF r4
<1>10. r5 \in Receivers /\ SameBytes(r4, r5)
  BY <1>9, MarkedBytes DEF Kept, Filers
<1> HIDE DEF r5
<1>7. q \in Receivers /\ SameBytes(r5, q)
  BY <1>10, BwTimerBytes DEF q
<1>8. Grading(q, b)
  BY <1>5, <1>7, <1>10, SameGrading DEF SameBytes
<1>11. q \in Kept(r2)
  BY <1>7, <1>9, <1>10, KeptClosed DEF Closed
<1> QED BY <1>2, <1>4, <1>8, <1>11 DEF Answers, b

-----------------------------------------------------------------------------
(* What a receiver lets go.                                                 *)

\* How many bytes of m the receiver has asked for, or need not ask for
LetGo(r, m) ==
  IF r.inbnd[m].open THEN MsgSize[m] - r.inbnd[m].bytesToGrant
  ELSE IF r.delivered[m] > 0 THEN MsgSize[m]
  ELSE TotalUnsched(m)

\* A packet that arrives lets nothing go.
LEMMA InboundLetsGo ==
  ASSUME Countable, NEW A, NEW r0 \in Sound(A), NEW p \in A, NEW r, Received(r0, p, r)
  PROVE  /\ p.msg \in Msg
         /\ \A m \in Msg : LetGo(r, m) = LetGo(r0, m)
         /\ \A m \in Msg : r.inbnd[m].open => r0.inbnd[m].open \/ m = p.msg
<1> DEFINE m == p.msg
           before == Previous(r0, p)
           in == Following(r0, p)
<1>1. m \in Msg /\ before \in Inbound /\ before.open /\ r0.delivered[m] = 0
  BY PreviousData
<1>2. in.open /\ in \in Inbound /\ (Complete(in) => in.bytesToGrant = 0)
  BY FollowingData
<1>3. in.bytesToGrant = before.bytesToGrant
  <2> HIDE DEF before
  <2>1. Filled(before, p).bytesToGrant = before.bytesToGrant
    BY <1>1 DEF Filled, Inbound
  <2> QED BY <2>1 DEF Following, before
<1>4. r0.inbnd \in Inbounds /\ r0.delivered \in Deliveries
  BY DEF Sound, Filers, Receivers
<1>5. MsgSize[m] \in Nat /\ TotalUnsched(m) \in Nat /\ before.bytesToGrant \in Nat
  BY <1>1, UnschedBounds, MsgAssumption DEF Inbound
<1>6. LetGo(r0, m) = MsgSize[m] - before.bytesToGrant
  <2>1. CASE r0.inbnd[m].open
    BY <2>1 DEF LetGo, Previous
  <2>2. CASE ~r0.inbnd[m].open
    <3>1. before.bytesToGrant = MsgSize[m] - TotalUnsched(m)
      BY <2>2 DEF Previous, Opened
    <3>2. LetGo(r0, m) = TotalUnsched(m)
      BY <1>1, <2>2 DEF LetGo
    <3> QED BY <1>5, <3>1, <3>2
  <2> QED BY <2>1, <2>2
<1>7. /\ r.inbnd[m] = IF Complete(in) THEN NoMessage ELSE in
      /\ r.delivered[m] = IF Complete(in) THEN 1 ELSE 0
      /\ \A k \in Msg : k # m => r.inbnd[k] = r0.inbnd[k] /\ r.delivered[k] = r0.delivered[k]
  BY <1>1, <1>4 DEF Received, Inbounds, Deliveries
<1> HIDE DEF m, before, in
<1>8. LetGo(r, m) = MsgSize[m] - before.bytesToGrant
  <2>1. CASE Complete(in)
    <3>1. ~r.inbnd[m].open /\ r.delivered[m] > 0
      BY <1>7, <2>1 DEF NoMessage
    <3>2. before.bytesToGrant = 0
      BY <1>2, <1>3, <2>1
    <3> QED BY <1>5, <3>1, <3>2 DEF LetGo
  <2>2. CASE ~Complete(in)
    BY <1>2, <1>3, <1>7, <2>2 DEF LetGo
  <2> QED BY <2>1, <2>2
<1>9. \A k \in Msg : k # m => LetGo(r, k) = LetGo(r0, k)
  BY <1>7 DEF LetGo
<1>10. \A k \in Msg : LetGo(r, k) = LetGo(r0, k)
  BY <1>6, <1>8, <1>9
<1>11. \A k \in Msg : r.inbnd[k].open => r0.inbnd[k].open \/ k = m
  BY <1>7
<1> QED BY <1>1, <1>10, <1>11 DEF m

\* The grants of an event that leads from r to q: each asks for the next bytes of its
\* message, which is incomplete, and no two are for the same one.
Offers(r, q) ==
  /\ \A g \in q.grants :
       /\ g.msg \in Msg /\ q.inbnd[g.msg].open /\ LetGo(r, g.msg) < MsgSize[g.msg]
       /\ g = [msg |-> g.msg, first |-> LetGo(r, g.msg),
               len |-> Lesser(GrantMax, MsgSize[g.msg] - LetGo(r, g.msg))]
  /\ \A m \in Msg : (\A g \in q.grants : g.msg # m) => LetGo(q, m) = LetGo(r, m)
  /\ \A g \in q.grants : LetGo(q, g.msg) = LetGo(r, g.msg) + g.len

LEMMA GradedOffers ==
  ASSUME NEW r \in Filers, NEW q \in Kept(r), Grading(q, Waits(r))
  PROVE  Offers(r, q) /\ \A m \in Msg : q.inbnd[m].open => r.inbnd[m].open
<1>1. /\ q \in Filers /\ q \in Receivers /\ r \in Receivers /\ Bounds(r.inbnd) /\ Bounds(q.inbnd)
      /\ q.delivered = r.delivered /\ \A m \in Msg : q.inbnd[m].open = r.inbnd[m].open
  BY DEF Kept, Filers
<1>2. \A m \in Msg : r.inbnd[m].bytesToGrant \in Nat /\ q.inbnd[m].bytesToGrant \in Nat
  BY <1>1 DEF Receivers, Inbounds, Inbound
<1>3. \A m \in Msg : MsgSize[m] \in Nat
  BY MsgAssumption
<1>4. \A m \in Msg : Waits(r)[m] = r.inbnd[m].bytesToGrant
  BY DEF Waits
<1>5. ASSUME NEW g \in q.grants
      PROVE  /\ g.msg \in Msg /\ q.inbnd[g.msg].open /\ LetGo(r, g.msg) < MsgSize[g.msg]
             /\ g = [msg |-> g.msg, first |-> LetGo(r, g.msg),
                     len |-> Lesser(GrantMax, MsgSize[g.msg] - LetGo(r, g.msg))]
             /\ LetGo(q, g.msg) = LetGo(r, g.msg) + g.len
  <2> DEFINE m == g.msg
             w == MsgSize[m]
             b == r.inbnd[m].bytesToGrant
             c == q.inbnd[m].bytesToGrant
             n == g.len
  <2>1. /\ m \in Msg /\ n \in Nat /\ n > 0 /\ g.first = w - b
        /\ n = Lesser(b, GrantMax) /\ c + n = b
    BY <1>4 DEF Grading
  <2>2. w \in Nat /\ b \in Nat /\ c \in Nat /\ GrantMax \in Nat
    BY <1>2, <1>3, <2>1, SizeAssumption
  <2>3. g \in Grant
    BY <1>1 DEF Receivers
  <2>4. b > 0 /\ r.inbnd[m].open
    <3>1. b > 0
      <4> HIDE DEF b, c, n
      <4> QED BY <2>1, <2>2
    <3> QED BY <1>1, <2>1, <3>1 DEF Bounds
  <2>5. q.inbnd[m].open /\ LetGo(r, m) = w - b /\ LetGo(q, m) = w - c
    BY <1>1, <2>1, <2>4 DEF LetGo
  <2>6. g = [msg |-> m, first |-> w - b, len |-> n]
    BY <2>1, <2>3 DEF Grant
  <2> HIDE DEF m, w, b, c, n
  <2>7. n = Lesser(GrantMax, w - (w - b)) /\ w - b < w /\ w - c = (w - b) + n
    BY <2>1, <2>2, <2>4 DEF Lesser
  <2> QED BY <2>1, <2>5, <2>6, <2>7 DEF m, w, n
<1>6. ASSUME NEW m \in Msg, \A g \in q.grants : g.msg # m
      PROVE  LetGo(q, m) = LetGo(r, m)
  <2>1. q.inbnd[m].bytesToGrant = r.inbnd[m].bytesToGrant
    BY <1>4, <1>6 DEF Grading
  <2> QED BY <1>1, <2>1 DEF LetGo
<1> QED BY <1>1, <1>5, <1>6 DEF Offers

\* processReceivedPkt
LEMMA ArrivalOffers ==
  ASSUME Countable, NEW A, NEW r0 \in Sound(A), NEW p \in A, r0.grants = {},
         r0 \in Lined({}, NumToKeepGranted), Marked(r0), NEW q, q = ProcessReceivedPkt(r0, p)
  PROVE  /\ p.msg \in Msg /\ Offers(r0, q)
         /\ \A m \in Msg : q.inbnd[m].open => r0.inbnd[m].open \/ m = p.msg
<1>1. PICK r : Answers(r0, p, r, q)
  BY ArrivalGraded
<1>2. /\ Received(r0, p, r) /\ r \in Filers /\ q \in Kept(r) /\ Grading(q, Waits(r))
  BY <1>1 DEF Answers
<1>3. Offers(r, q) /\ \A m \in Msg : q.inbnd[m].open => r.inbnd[m].open
  BY <1>2, GradedOffers
<1>4. /\ p.msg \in Msg /\ \A m \in Msg : LetGo(r, m) = LetGo(r0, m)
      /\ \A m \in Msg : r.inbnd[m].open => r0.inbnd[m].open \/ m = p.msg
  BY <1>2, InboundLetsGo
<1>5. Offers(r0, q)
  BY <1>3, <1>4 DEF Offers
<1> QED BY <1>3, <1>4, <1>5

\* processGrantTimers
LEMMA TimerOffers ==
  ASSUME NEW r0 \in Lined({}, NumToKeepGranted), r0.grants = {}, NEW s \in Host,
         NEW q, q = ProcessGrantTimer(r0, s)
  PROVE  Offers(r0, q) /\ \A m \in Msg : q.inbnd[m].open => r0.inbnd[m].open
<1>1. r0 \in Filers /\ r0 \in Kept(r0)
  BY DEF Lined, Kept
<1>2. q \in Kept(r0)
  BY <1>1, KeptClosed, ProcessGrantTimerIn
<1>3. Grading(q, Waits(r0))
  BY TimerGraded
<1> QED BY <1>1, <1>2, <1>3, GradedOffers

-----------------------------------------------------------------------------
(* What an event delivers.                                                  *)

\* The receivers that have delivered as one of D says
Delivering(D) == {q \in Filers : q.delivered \in D}

LEMMA DeliveringClosed ==
  ASSUME NEW D
  PROVE  Closed(Delivering(D))
<1>1. ASSUME NEW r \in Delivering(D), NEW q \in Receivers, SameBytes(r, q)
      PROVE  q \in Delivering(D)
  <2>1. q \in Filers
    BY <1>1, FilersClosed DEF Delivering, Closed
  <2> QED BY <1>1, <2>1 DEF Delivering, SameBytes
<1>2. ASSUME NEW r \in Delivering(D), NEW s \in Host, NEW prio \in 0 .. AllPrio
      PROVE  SendAndScheduleGrant(r, s, prio) \in Delivering(D)
  <2> DEFINE q == SendAndScheduleGrant(r, s, prio)
  <2>1. q \in Kept(r)
    <3>1. r \in Kept(r)
      BY DEF Delivering, Kept
    <3> QED BY <3>1, KeptClosed DEF Closed
  <2> QED BY <2>1 DEF Kept, Delivering
<1>3. \A r \in Delivering(D) : r \in Receivers /\ Bounds(r.inbnd)
  BY DEF Delivering, Filers
<1> QED BY <1>1, <1>2, <1>3 DEF Closed

\* A packet completes at most its own message.
LEMMA ArrivalDelivers ==
  ASSUME NEW r0 \in Filers, NEW p \in Pkt, NEW q, q = ProcessReceivedPkt(r0, p)
  PROVE  \/ q.delivered = r0.delivered
         \/ q.delivered = [r0.delivered EXCEPT ![p.msg] = @ + 1]
<1> DEFINE D == {r0.delivered}
           E == {r0.delivered, [r0.delivered EXCEPT ![p.msg] = @ + 1]}
<1>1. Closed(Delivering(D)) /\ Closed(Delivering(E))
  BY DeliveringClosed
<1>2. ASSUME NEW r \in Delivering(D)
      PROVE  HandleInboundPkt(r, p) \in Delivering(E)
  <2>1. r \in Filers /\ r.delivered = r0.delivered
    BY DEF Delivering
  <2>2. HandleInboundPkt(r, p) \in Filers /\ Inbounded(r, p, HandleInboundPkt(r, p))
    BY <2>1, InboundStep DEF Filers
  <2> QED BY <2>1, <2>2 DEF Delivering, Inbounded
<1>3. r0 \in Delivering(D)
  BY DEF Delivering
<1> DEFINE G == Delivering(D)
           H == Delivering(E)
<1>4. Closed(G) /\ Closed(H) /\ r0 \in G /\ \A r \in G : HandleInboundPkt(r, p) \in H
  BY <1>1, <1>2, <1>3
<1> HIDE DEF G, H
<1>5. q \in H
  BY <1>4, ProcessReceivedPktIn
<1> QED BY <1>5 DEF H, Delivering

\* A timer delivers nothing.
LEMMA TimerDelivers ==
  ASSUME NEW r0 \in Filers, NEW s \in Host, NEW q, q = ProcessGrantTimer(r0, s)
  PROVE  q.delivered = r0.delivered
<1>1. r0 \in Kept(r0)
  BY DEF Kept
<1>2. q \in Kept(r0)
  BY <1>1, KeptClosed, ProcessGrantTimerIn
<1> QED BY <1>2 DEF Kept
=============================================================================
