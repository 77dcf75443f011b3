------------------------- MODULE UsbManagementProofs -------------------------
(***************************************************************************)
(* Proofs about the management interface, from the rings to the calls: in  *)
(* UsbManagement for every ring capacity, index range, packet size and     *)
(* length of requests and answers; in BinaryFrame for every frame format,  *)
(* payload limit and CRC of a bitwise shift register; in BinaryRpc for     *)
(* every registry, chunk size, argument limit and method output.           *)
(*                                                                         *)
(* The rings.  Both are single-producer, single-consumer, with             *)
(* free-running indices.  Carries says what a ring is for: its bytes from  *)
(* tail to head are those of a log from a given place on.  Filling the     *)
(* free part (CarriesFill), moving the head over bytes that are there      *)
(* (CarriesPublish) and moving the tail (CarriesConsume) keep it, and      *)
(* these three lemmas hold all the arithmetic of the two moduli, the       *)
(* range of an index and the capacity of its ring.                         *)
(*                                                                         *)
(* The rest is about who may do what when: a completion is only pending,   *)
(* and the endpoint only valid, while a packet is in flight, so that       *)
(* between the copy of a packet and its commitment the interrupt finds     *)
(* nothing to do; and between its look at the head and the publication     *)
(* the task is the only one to move it.  A reset may clear the rings at    *)
(* any moment: TxInv and RxInv hold of a ring that the last one did not    *)
(* tear, and clearing a ring outside a stretch that tears it establishes   *)
(* them again, also in the middle of the service.                          *)
(*                                                                         *)
(* The frames.  What the parser holds of a frame is the end of the stream  *)
(* it was fed (Taken), and its CRC is the CRC of that.  A frame that       *)
(* begins while the parser waits for the magic is then followed byte by    *)
(* byte (FollowsEncoding), and one that begins inside what the parser      *)
(* takes for a frame is lost within the room a false start has (LossInv).  *)
(*                                                                         *)
(* The calls.  The decoder's loop and the encoder's loop are brought into  *)
(* step argument by argument (DecodedCall, EncodedCallDecodes), and the    *)
(* state of an exchange counts the frames the ring accepted (Counted),     *)
(* so that RPC_END counts what the host has and says OK over no hole.      *)
(*                                                                         *)
(* A loop of the code is a recursive function here, and what holds after   *)
(* every iteration follows from the least iteration it could fail in       *)
(* (NaturalInduction).                                                     *)
(***************************************************************************)
EXTENDS UsbManagement, BinaryFrame, BinaryRpc, FiniteSetTheorems,
        SequenceTheorems, WellFoundedInduction, TLAPS

Index == 0 .. Wrap - 1
Cap == Nat \ {0}

\* The free-running indices: how far head is ahead of tail.
Ahead(h, t) == (h - t) % Wrap

\* From tail to head, the ring carries the log, from its byte number `from` on.
Carries(ring, cap, h, t, log, from) ==
    /\ Ahead(h, t) <= cap
    /\ Len(log) = from + Ahead(h, t)
    /\ \A j \in 0 .. Ahead(h, t) - 1 : ring[(t + j) % cap] = log[from + j + 1]

\* Ahead of head, the ring holds the bytes of v.
Filled(ring, cap, h, v) == \A j \in 0 .. Len(v) - 1 : ring[(h + j) % cap] = v[j + 1]

-----------------------------------------------------------------------------
(* Arithmetic of the two moduli *)

LEMMA ModRange ==
    ASSUME NEW a \in Int, NEW c \in Cap
    PROVE  a % c \in 0 .. c - 1
BY DEF Cap

\* Multiples of the modulus do not count.
LEMMA ModMultiple ==
    ASSUME NEW a \in Int, NEW c \in Cap, NEW k \in Int
    PROVE  (a + c * k) % c = a % c
<1> DEFINE q == a \div c
           r == a % c
<1>1. q \in Int /\ r \in 0 .. c - 1
    BY DEF Cap
<1>2. a = c * q + r
    BY DEF Cap
<1> HIDE DEF q, r
<1>3. a + c * k = c * (q + k) + r
    BY <1>1, <1>2 DEF Cap
<1>4. q + k \in Int
    BY <1>1
<1>5. \A m \in Int : (c * m + r) % c = r
    BY <1>1 DEF Cap
<1>6. (a + c * k) % c = r
    BY <1>3, <1>4, <1>5
<1> QED
    BY <1>6 DEF r

\* A number of the range of the modulus, and what is congruent to it.
LEMMA ModUnique ==
    ASSUME NEW c \in Cap, NEW r \in 0 .. c - 1
    PROVE  r % c = r /\ (r - c) % c = r
BY DEF Cap

\* Reducing a summand changes nothing.
LEMMA ModSum ==
    ASSUME NEW c \in Cap, NEW a \in Int, NEW b \in Int
    PROVE  /\ ((a % c) + b) % c = (a + b) % c
           /\ ((a % c) - b) % c = (a - b) % c
<1> DEFINE q == a \div c
           r == a % c
<1>1. q \in Int /\ r \in 0 .. c - 1
    BY DEF Cap
<1>2. a = c * q + r
    BY DEF Cap
<1> HIDE DEF q, r
<1>3. a + b = (r + b) + c * q /\ a - b = (r - b) + c * q
    BY <1>1, <1>2 DEF Cap
<1>4. ((r + b) + c * q) % c = (r + b) % c /\ ((r - b) + c * q) % c = (r - b) % c
    BY <1>1, ModMultiple
<1> QED
    BY <1>3, <1>4 DEF r

\* A capacity that divides the range of the indices.
Divides(c) == c \in Cap /\ Wrap \in Nat /\ Wrap % c = 0 /\ c < Wrap

\* An index that wrapped meets the same place of its ring.
LEMMA WrapSlot ==
    ASSUME NEW c, Divides(c), NEW x \in Index, NEW n \in 0 .. Wrap, NEW j \in Int
    PROVE  (((x + n) % Wrap) + j) % c = (x + n + j) % c
<1> DEFINE q == Wrap \div c
<1>1. q \in Int /\ Wrap = c * q
    BY DEF Divides, Cap
<1>2. c \in Cap /\ Wrap \in Nat \ {0} /\ x \in Int /\ n \in Int
    BY DEF Divides, Cap, Index
<1> HIDE DEF q
<1>3. (x + n) % Wrap = IF x + n < Wrap THEN x + n ELSE x + n - Wrap
    BY <1>2 DEF Index
<1>4. CASE x + n < Wrap
    BY <1>3, <1>4
<1>5. CASE ~(x + n < Wrap)
    <2>1. ((x + n) % Wrap) + j = (x + n + j) + c * (-q)
        BY <1>1, <1>2, <1>3, <1>5 DEF Cap
    <2>2. x + n + j \in Int /\ -q \in Int
        BY <1>1, <1>2
    <2> QED
        BY <1>2, <2>1, <2>2, ModMultiple
<1> QED
    BY <1>4, <1>5

\* The distance between the indices when head, or tail, moves on.
LEMMA AheadMoves ==
    ASSUME Wrap \in Cap, NEW h \in Index, NEW t \in Index, NEW n \in Nat
    PROVE  /\ Ahead(h, t) \in 0 .. Wrap - 1
           /\ Ahead(h, t) + n < Wrap
                => /\ (h + n) % Wrap \in Index
                   /\ Ahead((h + n) % Wrap, t) = Ahead(h, t) + n
           /\ n <= Ahead(h, t)
                => /\ (t + n) % Wrap \in Index
                   /\ Ahead(h, (t + n) % Wrap) = Ahead(h, t) - n
<1>1. Wrap \in Nat \ {0} /\ h \in 0 .. Wrap - 1 /\ t \in 0 .. Wrap - 1
    BY DEF Cap, Index
<1>2. \A x, y \in 0 .. Wrap - 1 : (x - y) % Wrap = IF x >= y THEN x - y ELSE x - y + Wrap
    BY <1>1
<1>3. \A x \in 0 .. Wrap - 1, k \in 0 .. Wrap :
         (x + k) % Wrap = IF x + k < Wrap THEN x + k ELSE x + k - Wrap
    BY <1>1
<1>4. Ahead(h, t) = IF h >= t THEN h - t ELSE h - t + Wrap
    BY <1>1, <1>2 DEF Ahead
<1>5. ASSUME Ahead(h, t) + n < Wrap
      PROVE  /\ (h + n) % Wrap \in Index
             /\ Ahead((h + n) % Wrap, t) = Ahead(h, t) + n
    <2>1. n \in 0 .. Wrap
        BY <1>1, <1>4, <1>5
    <2>2. (h + n) % Wrap = IF h + n < Wrap THEN h + n ELSE h + n - Wrap
        BY <1>1, <1>3, <2>1
    <2>3. (h + n) % Wrap \in 0 .. Wrap - 1
        BY <1>1, <2>1, <2>2
    <2>4. Ahead((h + n) % Wrap, t)
            = IF (h + n) % Wrap >= t THEN ((h + n) % Wrap) - t ELSE ((h + n) % Wrap) - t + Wrap
        BY <1>1, <1>2, <2>3 DEF Ahead
    <2> QED
        BY <1>1, <1>4, <1>5, <2>2, <2>3, <2>4 DEF Index
<1>6. ASSUME n <= Ahead(h, t)
      PROVE  /\ (t + n) % Wrap \in Index
             /\ Ahead(h, (t + n) % Wrap) = Ahead(h, t) - n
    <2>1. n \in 0 .. Wrap
        BY <1>1, <1>4, <1>6
    <2>2. (t + n) % Wrap = IF t + n < Wrap THEN t + n ELSE t + n - Wrap
        BY <1>1, <1>3, <2>1
    <2>3. (t + n) % Wrap \in 0 .. Wrap - 1
        BY <1>1, <2>1, <2>2
    <2>4. PICK y \in 0 .. Wrap - 1 : y = (t + n) % Wrap
        BY <2>3
    <2>5. Ahead(h, y) = IF h >= y THEN h - y ELSE h - y + Wrap
        BY <1>1, <1>2 DEF Ahead
    <2>6. Ahead(h, y) = Ahead(h, t) - n
        BY <1>1, <1>4, <1>6, <2>2, <2>4, <2>5
    <2> QED
        BY <2>4, <2>6 DEF Index
<1>7. Ahead(h, t) \in 0 .. Wrap - 1
    BY <1>1, <1>4
<1> QED
    BY <1>5, <1>6, <1>7

LEMMA AheadRange ==
    ASSUME Wrap \in Cap, NEW h \in Index, NEW t \in Index
    PROVE  Ahead(h, t) \in Nat
<1>1. 0 \in Nat
    OBVIOUS
<1> QED
    BY <1>1, AheadMoves

\* The head is where the ring's bytes end, also as a place of the ring.
LEMMA HeadSlot ==
    ASSUME NEW c, Divides(c), NEW h \in Index, NEW t \in Index, NEW j \in Int
    PROVE  (h + j) % c = (t + Ahead(h, t) + j) % c
<1>1. Wrap \in Cap /\ Wrap \in Nat \ {0} /\ h \in 0 .. Wrap - 1 /\ t \in 0 .. Wrap - 1
    BY DEF Divides, Cap, Index
<1>2. Ahead(h, t) \in 0 .. Wrap /\ Ahead(h, t) = IF h >= t THEN h - t ELSE h - t + Wrap
    BY <1>1 DEF Ahead
<1>3. (t + Ahead(h, t)) % Wrap = h
    BY <1>1, <1>2
<1> QED
    BY <1>2, <1>3, WrapSlot

-----------------------------------------------------------------------------
(* What keeps a ring carrying its log *)

\* The function that copies v into the ring from head on, as HandleOut and Fill do.
Copied(ring, cap, h, v, k) ==
    [i \in 0 .. cap - 1 |-> IF (i - h) % cap < k THEN v[((i - h) % cap) + 1] ELSE ring[i]]

\* The distance of a place from the head's place.
LEMMA PlaceAhead ==
    ASSUME NEW c \in Cap, NEW x \in Int, NEW h \in Int
    PROVE  ((x % c) - h) % c = (x - h) % c
BY ModSum

\* Copying no more bytes than are free puts them ahead of head and leaves the bytes
\* between tail and head alone.
LEMMA CarriesFill ==
    ASSUME NEW cap, Divides(cap), NEW h \in Index, NEW t \in Index, NEW ring, NEW log,
           NEW from, Carries(ring, cap, h, t, log, from),
           NEW v, NEW k \in Nat, Ahead(h, t) + k <= cap
    PROVE  /\ Carries(Copied(ring, cap, h, v, k), cap, h, t, log, from)
           /\ \A j \in 0 .. k - 1 : Copied(ring, cap, h, v, k)[(h + j) % cap] = v[j + 1]
<1> DEFINE d == Ahead(h, t)
           new == Copied(ring, cap, h, v, k)
<1>0. cap \in Cap /\ h \in Int /\ t \in Int /\ d \in Nat /\ Wrap \in Cap
    BY AheadMoves DEF Divides, Cap, Index
<1> HIDE DEF d
<1>1. \A i \in 0 .. cap - 1 :
        new[i] = IF (i - h) % cap < k THEN v[((i - h) % cap) + 1] ELSE ring[i]
    BY DEF Copied
<1> HIDE DEF new
<1>2. ASSUME NEW j \in 0 .. k - 1
      PROVE  new[(h + j) % cap] = v[j + 1]
    <2>1. (h + j) % cap \in 0 .. cap - 1
        BY <1>0, ModRange
    <2>2. (((h + j) % cap) - h) % cap = j
        <3>1. (((h + j) % cap) - h) % cap = ((h + j) - h) % cap
            BY <1>0, PlaceAhead
        <3>2. (h + j) - h = j /\ j \in 0 .. cap - 1
            BY <1>0 DEF d, Cap
        <3> QED
            BY <1>0, <3>1, <3>2, ModUnique
    <2> QED
        BY <1>1, <2>1, <2>2
<1>3. ASSUME NEW j \in 0 .. d - 1
      PROVE  new[(t + j) % cap] = ring[(t + j) % cap]
    <2>1. (t + j) % cap \in 0 .. cap - 1
        BY <1>0, ModRange
    <2>2. PICK i \in 0 .. cap - 1 : i = (t + j) % cap
        BY <2>1
    <2>3. (i - h) % cap = (t + j - h) % cap
        BY <1>0, <2>2, PlaceAhead
    <2>4. PICK m \in Int : t + d = h + Wrap * m
        <3>1. d = h - t \/ d = h - t + Wrap
            BY <1>0 DEF d, Ahead, Index, Cap
        <3>2. t + d = h + Wrap * 0 \/ t + d = h + Wrap * 1
            BY <1>0, <3>1 DEF Cap
        <3> QED
            BY <3>2
    <2>5. PICK q \in Int : Wrap = cap * q
        <3> DEFINE q == Wrap \div cap
        <3>1. q \in Int /\ Wrap = cap * q
            BY DEF Divides, Cap
        <3> HIDE DEF q
        <3> QED
            BY <3>1
    <2>6. t + j - h = (j - d) + cap * (q * m)
        <3>1. Wrap * m = cap * (q * m)
            BY <1>0, <2>4, <2>5 DEF Cap
        <3>2. t + j - h = (j - d) + Wrap * m
            BY <1>0, <2>4 DEF Cap
        <3> QED
            BY <3>1, <3>2
    <2>7. (t + j - h) % cap = (j - d) % cap
        <3>1. q * m \in Int /\ j - d \in Int
            BY <1>0, <2>4, <2>5
        <3> QED
            BY <1>0, <2>6, <3>1, ModMultiple
    <2>8. (j - d) % cap = cap + j - d
        <3>1. cap + j - d \in 0 .. cap - 1 /\ j - d = (cap + j - d) - cap
            BY <1>0 DEF Carries, d, Cap
        <3> QED
            BY <1>0, <3>1, ModUnique
    <2>9. ~((i - h) % cap < k)
        <3>1. cap + j - d >= k
            BY <1>0 DEF d, Cap
        <3> QED
            BY <1>0, <2>3, <2>7, <2>8, <3>1 DEF Cap
    <2> QED
        BY <1>1, <2>2, <2>9
<1> QED
    BY <1>2, <1>3 DEF Carries, d, new

\* Moving head over bytes that are there makes them part of the log.
LEMMA CarriesPublish ==
    ASSUME NEW cap, Divides(cap), NEW h \in Index, NEW t \in Index, NEW ring,
           NEW S, NEW log \in Seq(S), NEW from \in Nat, Carries(ring, cap, h, t, log, from),
           NEW v \in Seq(S), Ahead(h, t) + Len(v) <= cap, Filled(ring, cap, h, v)
    PROVE  /\ (h + Len(v)) % Wrap \in Index
           /\ Ahead((h + Len(v)) % Wrap, t) = Ahead(h, t) + Len(v)
           /\ Carries(ring, cap, (h + Len(v)) % Wrap, t, log \o v, from)
<1> DEFINE d == Ahead(h, t)
           k == Len(v)
           h2 == (h + k) % Wrap
<1>0. /\ cap \in Cap /\ h \in Int /\ t \in Int /\ d \in Nat /\ Wrap \in Cap
      /\ k \in Nat /\ d + k < Wrap /\ d + k <= cap
    <2>1. cap \in Nat \ {0} /\ Wrap \in Nat \ {0} /\ cap < Wrap
        BY DEF Divides, Cap
    <2>2. d \in 0 .. Wrap - 1 /\ h \in Int /\ t \in Int
        BY <2>1, AheadMoves DEF Cap, Index
    <2>3. k \in Nat
        BY LenProperties
    <2> HIDE DEF d, k
    <2>4. d + k <= cap
        BY DEF d, k
    <2> QED
        BY <2>1, <2>2, <2>3, <2>4 DEF Cap
<1>1. h2 \in Index /\ Ahead(h2, t) = d + k
    BY <1>0, AheadMoves
<1>2. Len(log) = from + d /\ Len(log) \in Nat
    BY LenProperties DEF Carries
<1>3. /\ Len(log \o v) = Len(log) + k
      /\ \A i \in 1 .. Len(log) + k : (log \o v)[i] =
             IF i <= Len(log) THEN log[i] ELSE v[i - Len(log)]
    BY ConcatProperties
<1>4. \A j \in 0 .. d - 1 : ring[(t + j) % cap] = log[from + j + 1]
    BY DEF Carries
<1>5. \A j \in 0 .. k - 1 : ring[(h + j) % cap] = v[j + 1]
    BY DEF Filled
<1>6. \A j \in Int : (h + j) % cap = (t + d + j) % cap
    BY HeadSlot
<1> HIDE DEF d, k, h2
<1>7. ASSUME NEW j \in 0 .. (d + k) - 1
      PROVE  ring[(t + j) % cap] = (log \o v)[from + j + 1]
    <2>1. CASE j < d
        <3>1. j \in 0 .. d - 1 /\ from + j + 1 \in 1 .. Len(log) + k /\ from + j + 1 <= Len(log)
            BY <1>0, <1>2, <2>1
        <3> QED
            BY <1>3, <1>4, <3>1
    <2>2. CASE ~(j < d)
        <3>1. PICK i \in 0 .. k - 1 : j = d + i
            <4>1. j - d \in 0 .. k - 1 /\ j = d + (j - d)
                BY <1>0, <2>2
            <4> QED
                BY <4>1
        <3>2. t + j = t + d + i
            BY <1>0, <3>1
        <3>3. ring[(t + j) % cap] = v[i + 1]
            BY <1>5, <1>6, <3>1, <3>2
        <3>4. /\ from + j + 1 \in 1 .. Len(log) + k /\ ~(from + j + 1 <= Len(log))
              /\ from + j + 1 - Len(log) = i + 1
            BY <1>0, <1>2, <3>1
        <3> QED
            BY <1>3, <3>3, <3>4
    <2> QED
        BY <2>1, <2>2
<1>8. Carries(ring, cap, h2, t, log \o v, from)
    <2>1. Len(log \o v) = from + (d + k)
        BY <1>0, <1>2, <1>3
    <2> QED
        BY <1>0, <1>1, <1>7, <2>1 DEF Carries
<1> QED
    BY <1>1, <1>8 DEF d, k, h2

\* Moving tail leaves the rest of the log.
LEMMA CarriesConsume ==
    ASSUME NEW cap, Divides(cap), NEW h \in Index, NEW t \in Index, NEW ring, NEW log,
           NEW from \in Nat, Carries(ring, cap, h, t, log, from),
           NEW n \in Nat, n <= Ahead(h, t)
    PROVE  /\ (t + n) % Wrap \in Index
           /\ Ahead(h, (t + n) % Wrap) = Ahead(h, t) - n
           /\ Carries(ring, cap, h, (t + n) % Wrap, log, from + n)
<1> DEFINE d == Ahead(h, t)
           t2 == (t + n) % Wrap
<1>0. /\ cap \in Cap /\ h \in Int /\ t \in Int /\ d \in Nat /\ Wrap \in Cap
      /\ n <= d /\ d <= cap /\ d < Wrap /\ Len(log) = from + d
    <2>1. cap \in Nat \ {0} /\ Wrap \in Nat \ {0} /\ cap < Wrap
        BY DEF Divides, Cap
    <2>2. d \in 0 .. Wrap - 1 /\ h \in Int /\ t \in Int
        BY <2>1, AheadMoves DEF Cap, Index
    <2> QED
        BY <2>1, <2>2 DEF Cap, Carries
<1>1. t2 \in Index /\ Ahead(h, t2) = d - n
    BY <1>0, AheadMoves
<1>2. \A j \in 0 .. d - 1 : ring[(t + j) % cap] = log[from + j + 1]
    BY DEF Carries
<1>3. \A j \in Int : (t2 + j) % cap = (t + n + j) % cap
    <2>1. n \in 0 .. Wrap
        BY <1>0 DEF Cap
    <2> QED
        BY <2>1, WrapSlot
<1> HIDE DEF d, t2
<1>4. ASSUME NEW j \in 0 .. (d - n) - 1
      PROVE  ring[(t2 + j) % cap] = log[from + n + j + 1]
    <2>1. n + j \in 0 .. d - 1
        BY <1>0
    <2>2. ring[(t + (n + j)) % cap] = log[from + (n + j) + 1]
        BY <1>2, <2>1
    <2>3. t + (n + j) = t + n + j /\ from + (n + j) + 1 = from + n + j + 1
        BY <1>0
    <2> QED
        BY <1>3, <2>2, <2>3
<1>5. Carries(ring, cap, h, t2, log, from + n)
    <2>1. Ahead(h, t2) <= cap /\ Len(log) = (from + n) + Ahead(h, t2)
        BY <1>0, <1>1 DEF Cap
    <2>2. \A j \in 0 .. Ahead(h, t2) - 1 : ring[(t2 + j) % cap] = log[(from + n) + j + 1]
        BY <1>1, <1>4
    <2> QED
        BY <2>1, <2>2 DEF Carries
<1> QED
    BY <1>1, <1>5 DEF d, t2

-----------------------------------------------------------------------------
(* What the task and the interrupt know of each other *)

TxByte == (Nat \X Nat) \union {NoByte}
RxByte == {"RPC", "ASSET", "ENTER", "none"} \X Nat \X Nat

\* Bytes that have left the TX ring: a packet the host has read is still in the ring
\* until its completion is handled.
SentBytes == IF ep.ctr THEN Len(got) - tx.inflight ELSE Len(got)

Places == {"idle", "poll", "getc", "feed", "handle", "fill", "publish", "kick", "commit",
           "answered", "enter", "reset"}

UsbTypeOK ==
    /\ conf \in BOOLEAN
    /\ rx \in [ring : [0 .. RxCap - 1 -> RxByte], head : Index, tail : Index]
    /\ tx \in [ring : [0 .. TxCap - 1 -> TxByte], head : Index, tail : Index,
               inflight : 0 .. MaxPacket, active : BOOLEAN]
    /\ ep \in [stat : {"DISABLED", "NAK", "VALID"}, pma : Seq(TxByte),
               ctr : BOOLEAN]
    /\ busResets \in Nat /\ txPackets \in Nat
    /\ pc \in Places
    /\ loc \in [tail : Index, byte : RxByte, req : {"RPC", "ASSET", "ENTER", "none"},
                head : Index, base : Nat, n : 0 .. MaxPacket, left : {0}]
    /\ parser \in Seq(RxByte)
    /\ enter \in [pending : BOOLEAN, base : Nat, left : 0 .. Fallback, ans : Nat]
    /\ out \in Seq(RxByte) /\ rxLog \in Seq(RxByte) /\ rxRead \in Seq(RxByte)
    /\ got \in Seq(TxByte) /\ queued \in Seq(TxByte)
    /\ requests \in Nat /\ answers \in Nat

\* A packet of n bytes in the packet memory is what the host is to read next.
PacketIs(n) == /\ n \in 1 .. Depth(tx)
               /\ Len(ep.pma) = n
               /\ \A k \in 1 .. n : ep.pma[k] = queued[Len(got) + k]

TxInv ==
    /\ Carries(tx.ring, TxCap, tx.head, tx.tail, queued, SentBytes)
    /\ \A i \in 1 .. Len(got) : got[i] = queued[i]
    /\ tx.active => tx.inflight \in 1 .. Depth(tx)
    /\ ep.ctr => tx.active /\ ep.stat # "VALID" /\ Len(got) >= tx.inflight
    /\ ep.stat = "VALID" => tx.active /\ PacketIs(tx.inflight)
    /\ pc = "commit" => ~tx.active /\ PacketIs(loc.n)
    /\ pc \in {"fill", "publish"} => loc.head = tx.head /\ Depth(tx) + AnsLen <= TxCap
    /\ pc = "publish" => Filled(tx.ring, TxCap, tx.head, Answer(answers))

RxInv ==
    /\ Carries(rx.ring, RxCap, rx.head, rx.tail, rxLog, Len(rxRead))
    /\ \A i \in 1 .. Len(rxRead) : rxRead[i] = rxLog[i]
    /\ pc = "feed" => /\ loc.tail = rx.tail /\ Depth(rx) > 0
                      /\ loc.byte = rxLog[Len(rxRead) + 1]

UsbInv == UsbTypeOK /\ (~torn.tx => TxInv) /\ (~torn.rx => RxInv)

-----------------------------------------------------------------------------
(* Types *)

LEMMA UsbConstants ==
    /\ Divides(RxCap) /\ Divides(TxCap) /\ Wrap \in Cap
    /\ RxCap \in Nat \ {0} /\ TxCap \in Nat \ {0} /\ MaxPacket \in Nat \ {0}
    /\ ReqLen \in Nat \ {0} /\ AnsLen \in Nat \ {0} /\ Fallback \in Nat \ {0}
    /\ AnsLen <= MaxPacket
    /\ 0 \in Index
    /\ \A k \in Kind : k \in {"RPC", "ASSET", "ENTER"}
BY UsbAssumption DEF Divides, Cap, Index

LEMMA FrameIsSeq ==
    ASSUME NEW kind \in Kind, NEW n \in Nat
    PROVE  Frame(kind, n) \in Seq(RxByte) /\ Len(Frame(kind, n)) = ReqLen
<1>1. \A i \in 1 .. ReqLen : <<kind, n, i>> \in RxByte
    BY UsbConstants DEF RxByte
<1> QED
    BY <1>1, UsbConstants DEF Frame

LEMMA AnswerIsSeq ==
    ASSUME NEW n \in Nat
    PROVE  Answer(n) \in Seq(TxByte) /\ Len(Answer(n)) = AnsLen
<1>1. \A i \in 1 .. AnsLen : <<n, i>> \in TxByte
    BY UsbConstants DEF TxByte
<1> QED
    BY <1>1, UsbConstants DEF Answer

\* A stretch of the TX ring is a sequence of its bytes.
LEMMA SpanIsSeq ==
    ASSUME UsbTypeOK, NEW s, s.ring \in [0 .. TxCap - 1 -> TxByte], NEW i \in Int,
           NEW n \in Nat
    PROVE  /\ Span(s, TxCap, i, n) \in Seq(TxByte) /\ Len(Span(s, TxCap, i, n)) = n
           /\ \A k \in 1 .. n : Span(s, TxCap, i, n)[k] = s.ring[(i + k - 1) % TxCap]
<1>1. \A k \in 1 .. n : s.ring[(i + k - 1) % TxCap] \in TxByte
    <2> TAKE k \in 1 .. n
    <2>1. i + k - 1 \in Int /\ TxCap \in Cap
        BY UsbConstants DEF Cap
    <2>2. (i + k - 1) % TxCap \in 0 .. TxCap - 1
        BY <2>1, ModRange
    <2> QED
        BY <2>2
<1> QED
    BY <1>1 DEF Span

LEMMA UsbTypeInit == Init => UsbTypeOK
<1> SUFFICES ASSUME Init PROVE UsbTypeOK
    OBVIOUS
<1>1. NoByte \in RxByte /\ NoByte \in TxByte
    BY DEF NoByte, RxByte, TxByte
<1>2. /\ rx \in [ring : [0 .. RxCap - 1 -> RxByte], head : Index, tail : Index]
      /\ tx \in [ring : [0 .. TxCap - 1 -> TxByte], head : Index, tail : Index,
                 inflight : 0 .. MaxPacket, active : BOOLEAN]
    BY <1>1, UsbConstants DEF Init
<1>3. ep \in [stat : {"DISABLED", "NAK", "VALID"}, pma : Seq(TxByte), ctr : BOOLEAN]
    BY DEF Init
<1>4. loc \in [tail : Index, byte : RxByte, req : {"RPC", "ASSET", "ENTER", "none"},
               head : Index, base : Nat, n : 0 .. MaxPacket, left : {0}]
    BY <1>1, UsbConstants DEF Init, NoLocals
<1>5. enter \in [pending : BOOLEAN, base : Nat, left : 0 .. Fallback, ans : Nat]
    BY UsbConstants DEF Init
<1>6. <<>> \in Seq(RxByte) /\ <<>> \in Seq(TxByte)
    BY EmptySeq
<1>7. /\ parser = <<>> /\ out = <<>> /\ rxLog = <<>> /\ rxRead = <<>>
      /\ got = <<>> /\ queued = <<>>
      /\ conf = FALSE /\ busResets = 0 /\ txPackets = 0 /\ pc = "idle"
      /\ requests = 0 /\ answers = 0
    BY DEF Init
<1> QED
    BY <1>2, <1>3, <1>4, <1>5, <1>6, <1>7 DEF UsbTypeOK, Places

\* The resets of the rings.
LEMMA ResetRingsType ==
    ASSUME UsbTypeOK, ResetRings, conf' \in BOOLEAN,
           \E st \in {"DISABLED", "NAK"} : ep' = [stat |-> st, pma |-> <<>>, ctr |-> FALSE],
           busResets' \in Nat, UNCHANGED <<txPackets, taskVars, requests, answers>>
    PROVE  UsbTypeOK'
<1>1. /\ rx' \in [ring : [0 .. RxCap - 1 -> RxByte], head : Index, tail : Index]
      /\ tx' \in [ring : [0 .. TxCap - 1 -> TxByte], head : Index, tail : Index,
                  inflight : 0 .. MaxPacket, active : BOOLEAN]
    <2>1. 0 \in Index /\ 0 \in 0 .. MaxPacket
        BY UsbConstants
    <2>2. /\ rx' = [rx EXCEPT !.head = 0, !.tail = 0]
          /\ tx' = [tx EXCEPT !.head = 0, !.tail = 0, !.inflight = 0, !.active = FALSE]
        BY DEF ResetRings
    <2>3. /\ rx \in [ring : [0 .. RxCap - 1 -> RxByte], head : Index, tail : Index]
          /\ tx \in [ring : [0 .. TxCap - 1 -> TxByte], head : Index, tail : Index,
                     inflight : 0 .. MaxPacket, active : BOOLEAN]
        BY DEF UsbTypeOK
    <2> QED
        BY <2>1, <2>2, <2>3
<1>2. ep' \in [stat : {"DISABLED", "NAK", "VALID"}, pma : Seq(TxByte), ctr : BOOLEAN]
    OBVIOUS
<1>3. /\ queued' = <<>> /\ rxLog' = <<>> /\ rxRead' = <<>> /\ got' = <<>> /\ out' = <<>>
    BY DEF ResetRings
<1> QED
    BY <1>1, <1>2, <1>3, SMTT(30) DEF UsbTypeOK, taskVars

\* Steps of the interrupt and of the host.
LEMMA UsbTypeDevice ==
    ASSUME UsbTypeOK,
           \/ Interrupt \/ (\E kind \in Kind : HostRequest(kind))
           \/ (\E n \in 1 .. MaxPacket : HandleOut(n)) \/ HostIn \/ Tick
    PROVE  UsbTypeOK'
<1>1. CASE BusReset
    <2>1. conf' = FALSE /\ busResets' = busResets + 1 /\ busResets \in Nat
        BY <1>1 DEF BusReset, UsbTypeOK
    <2>2. /\ ResetRings /\ ep' = [stat |-> "DISABLED", pma |-> <<>>, ctr |-> FALSE]
          /\ UNCHANGED <<txPackets, taskVars, requests, answers>>
        BY <1>1 DEF BusReset
    <2>3. conf' \in BOOLEAN /\ busResets' \in Nat
        <3>1. busResets' \in Nat
            BY <2>1
        <3>2. conf' \in BOOLEAN
            BY <2>1, Zenon
        <3> QED
            BY <3>1, <3>2
    <2>4. \E st \in {"DISABLED", "NAK"} : ep' = [stat |-> st, pma |-> <<>>, ctr |-> FALSE]
        BY <2>2
    <2> QED
        BY <2>2, <2>3, <2>4, ResetRingsType
<1>2. CASE Deconfigure
    BY <1>2, ResetRingsType DEF Deconfigure, UsbTypeOK
<1>3. CASE Configure
    BY <1>3, ResetRingsType DEF Configure, UsbTypeOK
<1>4. CASE HandleIn
    <2> DEFINE t == IF tx.active
                    THEN [tx EXCEPT !.tail = (@ + tx.inflight) % Wrap, !.inflight = 0,
                                    !.active = FALSE]
                    ELSE tx
               TxType == [ring : [0 .. TxCap - 1 -> TxByte], head : Index, tail : Index,
                          inflight : 0 .. MaxPacket, active : BOOLEAN]
    <2>1. tx \in TxType
        BY DEF UsbTypeOK
    <2>2. (tx.tail + tx.inflight) % Wrap \in Index
        BY <2>1, UsbConstants, ModRange DEF Index
    <2>3. t \in TxType
        <3>1. 0 \in 0 .. MaxPacket
            BY UsbConstants
        <3>2. [tx EXCEPT !.tail = (tx.tail + tx.inflight) % Wrap, !.inflight = 0,
                         !.active = FALSE] \in TxType
            BY <2>1, <2>2, <3>1
        <3> QED
            BY <2>1, <3>2
    <2>4. /\ \/ tx' = KickTx(t) /\ ep' = KickEp(t)
             \/ tx' = t /\ ep' = [ep EXCEPT !.stat = "NAK", !.ctr = FALSE]
          /\ txPackets' = IF tx.active THEN txPackets + 1 ELSE txPackets
        BY <1>4 DEF HandleIn
    <2> HIDE DEF t
    <2>5. Depth(t) \in Nat
        BY <2>3, UsbConstants, ModRange DEF Depth, Index
    <2>6. KickLength(t) \in 0 .. MaxPacket
        BY <2>5, UsbConstants DEF KickLength
    <2>7. KickTx(t) \in TxType
        BY <2>3, <2>6 DEF KickTx
    <2>8. KickEp(t) \in [stat : {"DISABLED", "NAK", "VALID"}, pma : Seq(TxByte), ctr : BOOLEAN]
        <3>1. Span(t, TxCap, t.tail, KickLength(t)) \in Seq(TxByte)
            BY <2>3, <2>6, SpanIsSeq DEF Index
        <3> QED
            BY <3>1 DEF KickEp
    <2>9. [ep EXCEPT !.stat = "NAK", !.ctr = FALSE]
              \in [stat : {"DISABLED", "NAK", "VALID"}, pma : Seq(TxByte), ctr : BOOLEAN]
        BY DEF UsbTypeOK
    <2>10. UNCHANGED <<conf, rx, busResets, taskVars, hostVars, history>>
        BY <1>4 DEF HandleIn
    <2>11. txPackets' \in Nat
        BY <2>4, SMTT(30) DEF UsbTypeOK
    <2> QED
        BY <2>3, <2>4, <2>7, <2>8, <2>9, <2>10, <2>11, ZenonT(60)
           DEF UsbTypeOK, taskVars, hostVars, history
<1>5. ASSUME NEW kind \in Kind, HostRequest(kind)
      PROVE  UsbTypeOK'
    <2>1. out' \in Seq(RxByte) /\ requests' \in Nat
        BY <1>5, FrameIsSeq DEF HostRequest, UsbTypeOK
    <2> QED
        BY <1>5, <2>1 DEF HostRequest, UsbTypeOK, driverVars, taskVars, history
<1>6. ASSUME NEW n \in 1 .. MaxPacket, HandleOut(n)
      PROVE  UsbTypeOK'
    <2> DEFINE room == RxCap - Depth(rx)
               k == IF n <= room THEN n ELSE IF room < 0 THEN 0 ELSE room
    <2>1. /\ rx.ring \in [0 .. RxCap - 1 -> RxByte] /\ rx.head \in Index /\ rx.tail \in Index
          /\ out \in Seq(RxByte) /\ rxLog \in Seq(RxByte)
        BY DEF UsbTypeOK
    <2>2. k \in Nat /\ k <= n /\ n <= Len(out)
        <3>1. Depth(rx) \in Int
            <4>1. rx.head - rx.tail \in Int
                BY <2>1 DEF Index
            <4> QED
                BY <4>1, UsbConstants, ModRange DEF Depth
        <3>2. n \in Nat /\ n <= Len(out)
            <4>1. n <= Len(out)
                BY <1>6 DEF HandleOut
            <4> QED
                BY <4>1
        <3> HIDE DEF room
        <3>3. room \in Int
            BY <3>1, UsbConstants DEF room
        <3> QED
            BY <3>2, <3>3
    <2>3. /\ rx' = [rx EXCEPT !.ring = [i \in 0 .. RxCap - 1 |->
                                          LET j == (i - rx.head) % RxCap
                                          IN  IF j < k THEN out[j + 1] ELSE @[i]],
                              !.head = (@ + k) % Wrap]
          /\ rxLog' = rxLog \o SubSeq(out, 1, k) \/ rxLog' = <<>>
          /\ out' = SubSeq(out, n + 1, Len(out))
        BY <1>6 DEF HandleOut
    <2> HIDE DEF k, room
    <2>4. \A i \in 0 .. RxCap - 1 : (i - rx.head) % RxCap < k
                                      => out[((i - rx.head) % RxCap) + 1] \in RxByte
        <3> TAKE i \in 0 .. RxCap - 1
        <3> HAVE (i - rx.head) % RxCap < k
        <3>1. (i - rx.head) % RxCap \in Nat
            <4>1. i - rx.head \in Int /\ RxCap \in Cap
                BY <2>1, UsbConstants DEF Index, Cap
            <4> QED
                BY <4>1, ModRange
        <3>2. ((i - rx.head) % RxCap) + 1 \in 1 .. Len(out)
            BY <2>1, <2>2, <3>1, LenProperties
        <3> QED
            BY <2>1, <3>2, ElementOfSeq
    <2>5. (rx.head + k) % Wrap \in Index
        BY <2>1, <2>2, UsbConstants, ModRange DEF Index
    <2>6. rx' \in [ring : [0 .. RxCap - 1 -> RxByte], head : Index, tail : Index]
        <3> DEFINE new == [i \in 0 .. RxCap - 1 |->
                             IF (i - rx.head) % RxCap < k THEN out[((i - rx.head) % RxCap) + 1]
                             ELSE rx.ring[i]]
        <3>1. new \in [0 .. RxCap - 1 -> RxByte]
            BY <2>1, <2>4
        <3>2. rx' = [rx EXCEPT !.ring = new, !.head = (rx.head + k) % Wrap]
            BY <2>3
        <3> HIDE DEF new
        <3> QED
            BY <2>5, <3>1, <3>2 DEF UsbTypeOK
    <2>7. SubSeq(out, 1, k) \in Seq(RxByte) /\ SubSeq(out, n + 1, Len(out)) \in Seq(RxByte)
        <3>1. \A i \in 1 .. Len(out) : out[i] \in RxByte
            BY <2>1, ElementOfSeq
        <3>2. Len(out) \in Nat
            BY <2>1, LenProperties
        <3> QED
            BY <2>2, <3>1, <3>2, SubSeqProperties
    <2>8. rxLog' \in Seq(RxByte) /\ out' \in Seq(RxByte)
        <3>1. rxLog \o SubSeq(out, 1, k) \in Seq(RxByte)
            BY <2>1, <2>7, ConcatProperties
        <3>2. <<>> \in Seq(RxByte)
            OBVIOUS
        <3> QED
            BY <2>3, <2>7, <3>1, <3>2
    <2>9. UNCHANGED <<conf, tx, ep, busResets, txPackets, taskVars, got, requests, queued,
                      rxRead, answers>>
        BY <1>6 DEF HandleOut
    <2> QED
        BY <2>6, <2>8, <2>9 DEF UsbTypeOK, taskVars
<1>7. CASE HostIn
    <2>1. got' \in Seq(TxByte)
        BY <1>7, ConcatProperties, EmptySeq DEF HostIn, UsbTypeOK
    <2>2. ep' \in [stat : {"DISABLED", "NAK", "VALID"}, pma : Seq(TxByte), ctr : BOOLEAN]
        BY <1>7 DEF HostIn, UsbTypeOK
    <2> QED
        BY <1>7, <2>1, <2>2 DEF HostIn, UsbTypeOK, taskVars, history
<1>8. CASE Tick
    <2>1. enter' \in [pending : BOOLEAN, base : Nat, left : 0 .. Fallback, ans : Nat]
        <3>1. enter \in [pending : BOOLEAN, base : Nat, left : 0 .. Fallback, ans : Nat]
            BY DEF UsbTypeOK
        <3>2. enter.left > 0 /\ enter' = [enter EXCEPT !.left = enter.left - 1]
            BY <1>8 DEF Tick
        <3>3. enter.left - 1 \in 0 .. Fallback
            BY <3>1, <3>2, UsbConstants
        <3> QED
            BY <3>1, <3>2, <3>3
    <2> QED
        BY <1>8, <2>1 DEF Tick, UsbTypeOK, driverVars, hostVars, history
<1> QED
    BY <1>1, <1>2, <1>3, <1>4, <1>5, <1>6, <1>7, <1>8 DEF Interrupt

\* Steps of the task.
LEMMA UsbTypeService ==
    ASSUME UsbTypeOK, Service
    PROVE  UsbTypeOK'
<1> DEFINE LocType == [tail : Index, byte : RxByte, req : {"RPC", "ASSET", "ENTER", "none"},
                       head : Index, base : Nat, n : 0 .. MaxPacket, left : {0}]
           TxType == [ring : [0 .. TxCap - 1 -> TxByte], head : Index, tail : Index,
                      inflight : 0 .. MaxPacket, active : BOOLEAN]
           EpType == [stat : {"DISABLED", "NAK", "VALID"}, pma : Seq(TxByte), ctr : BOOLEAN]
<1>0. loc \in LocType /\ tx \in TxType /\ ep \in EpType /\ pc \in Places
    BY DEF UsbTypeOK
<1>1. CASE ServiceStart
    <2>1. loc' \in LocType
        <3>1. 0 \in Index /\ 0 \in 0 .. MaxPacket
            BY UsbConstants
        <3>2. NoByte \in RxByte
            BY DEF NoByte, RxByte
        <3>3. busResets \in Nat
            BY DEF UsbTypeOK
        <3>4. loc' = [NoLocals EXCEPT !.base = busResets]
            BY <1>1 DEF ServiceStart
        <3> QED
            BY <3>1, <3>2, <3>3, <3>4 DEF NoLocals
    <2> QED
        BY <1>1, <2>1 DEF ServiceStart, TaskOnly, driverVars, hostVars, history, UsbTypeOK,
                          Places
<1>2. CASE ServicePoll
    <2>1. parser' \in Seq(RxByte) /\ pc' \in Places
        <3>1. (parser' = <<>> \/ parser' = parser) /\ pc' \in {"reset", "getc", "idle"}
            BY <1>2 DEF ServicePoll, SystemReset
        <3>2. <<>> \in Seq(RxByte) /\ parser \in Seq(RxByte)
            BY EmptySeq DEF UsbTypeOK
        <3> QED
            BY <3>1, <3>2 DEF Places
    <2>2. UNCHANGED <<driverVars, hostVars, history, loc, enter>>
        BY <1>2 DEF ServicePoll, SystemReset, TaskOnly
    <2> QED
        BY <2>1, <2>2 DEF driverVars, hostVars, history, UsbTypeOK
<1>3. CASE GetcRead
    <2>1. loc' \in LocType
        <3>1. CASE rx.tail = rx.head
            BY <1>0, <1>3, <3>1 DEF GetcRead
        <3>2. CASE rx.tail # rx.head
            <4>1. rx.tail \in Index /\ rx.ring \in [0 .. RxCap - 1 -> RxByte]
                BY DEF UsbTypeOK
            <4>2. rx.tail % RxCap \in 0 .. RxCap - 1
                <5>1. rx.tail \in Int /\ RxCap \in Cap
                    BY <4>1, UsbConstants DEF Index, Cap
                <5> QED
                    BY <5>1, ModRange
            <4>3. rx.ring[rx.tail % RxCap] \in RxByte
                BY <4>1, <4>2
            <4>4. loc' = [loc EXCEPT !.tail = rx.tail, !.byte = rx.ring[rx.tail % RxCap]]
                BY <1>3, <3>2 DEF GetcRead
            <4> QED
                BY <1>0, <4>1, <4>3, <4>4
        <3> QED
            BY <3>1, <3>2
    <2>2. pc' \in Places
        BY <1>3 DEF GetcRead, Places
    <2> QED
        BY <1>3, <2>1, <2>2 DEF GetcRead, TaskOnly, driverVars, hostVars, history, UsbTypeOK
<1>4. CASE GetcFeed
    <2> DEFINE p == IF parser = <<>> /\ loc.byte[3] # 1 THEN <<>> ELSE Append(parser, loc.byte)
    <2>1. loc.tail \in Index /\ loc.byte \in RxByte /\ parser \in Seq(RxByte)
        BY <1>0 DEF UsbTypeOK
    <2>2. p \in Seq(RxByte)
        BY <2>1, AppendProperties, EmptySeq
    <2>3. \/ /\ Len(p) = ReqLen /\ parser' = <<>> /\ pc' \in {"handle", "getc"}
             /\ loc' = [loc EXCEPT !.req = p[1][1]] \/ loc' = loc
          \/ parser' = p /\ pc' = "getc" /\ loc' = loc
        BY <1>4 DEF GetcFeed
    <2> HIDE DEF p
    <2>4. loc' \in LocType
        <3>1. ASSUME Len(p) = ReqLen
              PROVE  p[1][1] \in {"RPC", "ASSET", "ENTER", "none"}
            <4>1. p[1] \in RxByte
                BY <2>2, <3>1, UsbConstants, ElementOfSeq
            <4> QED
                BY <4>1 DEF RxByte
        <3> QED
            BY <1>0, <2>3, <3>1
    <2>5. parser' \in Seq(RxByte) /\ pc' \in Places
        BY <2>2, <2>3, EmptySeq DEF Places
    <2>6. /\ rx' = [rx EXCEPT !.tail = (loc.tail + 1) % Wrap]
          /\ rxRead' = Append(rxRead, loc.byte) \/ rxRead' = <<>>
          /\ UNCHANGED <<conf, tx, ep, busResets, txPackets, enter, hostVars, queued, rxLog,
                         answers>>
        BY <1>4 DEF GetcFeed
    <2>7. rxRead' \in Seq(RxByte)
        <3>1. Append(rxRead, loc.byte) \in Seq(RxByte)
            BY <2>1, AppendProperties DEF UsbTypeOK
        <3>2. <<>> \in Seq(RxByte)
            OBVIOUS
        <3> QED
            BY <2>6, <3>1, <3>2
    <2>8. (loc.tail + 1) % Wrap \in Index
        BY <2>1, UsbConstants, ModRange DEF Index
    <2>9. rx' \in [ring : [0 .. RxCap - 1 -> RxByte], head : Index, tail : Index]
        BY <2>6, <2>8 DEF UsbTypeOK
    <2> QED
        BY <2>4, <2>5, <2>6, <2>7, <2>9 DEF UsbTypeOK, hostVars
<1>5. CASE Handle
    <2>1. /\ loc' = [loc EXCEPT !.base = txPackets, !.head = tx.head]
          /\ pc' \in {"fill", "enter", "getc"}
          /\ answers' = answers + 1 \/ answers' = answers
          /\ UNCHANGED <<driverVars, parser, enter, hostVars, queued, rxLog, rxRead>>
        BY <1>5 DEF Handle
    <2>2. loc' \in LocType
        <3>1. txPackets \in Nat /\ tx.head \in Index
            BY <1>0 DEF UsbTypeOK
        <3> QED
            BY <1>0, <2>1, <3>1
    <2>3. answers' \in Nat /\ pc' \in Places
        BY <2>1, SMTT(30) DEF UsbTypeOK, Places
    <2> QED
        BY <2>1, <2>2, <2>3 DEF UsbTypeOK, driverVars, hostVars
<1>6. CASE Fill
    <2> DEFINE new == [i \in 0 .. TxCap - 1 |->
                         IF (i - loc.head) % TxCap < AnsLen
                         THEN Answer(answers)[((i - loc.head) % TxCap) + 1] ELSE tx.ring[i]]
    <2>1. new \in [0 .. TxCap - 1 -> TxByte]
        <3> SUFFICES ASSUME NEW i \in 0 .. TxCap - 1, (i - loc.head) % TxCap < AnsLen
                     PROVE  Answer(answers)[((i - loc.head) % TxCap) + 1] \in TxByte
            BY <1>0
        <3>1. i - loc.head \in Int /\ TxCap \in Cap
            BY <1>0, UsbConstants DEF Index, Cap
        <3>2. (i - loc.head) % TxCap \in Nat
            BY <3>1, ModRange
        <3>3. ((i - loc.head) % TxCap) + 1 \in 1 .. AnsLen
            BY <3>2, UsbConstants
        <3>4. Answer(answers) \in Seq(TxByte) /\ Len(Answer(answers)) = AnsLen
            BY AnswerIsSeq DEF UsbTypeOK
        <3> QED
            BY <3>3, <3>4, ElementOfSeq
    <2>2. tx' = [tx EXCEPT !.ring = new]
        BY <1>6 DEF Fill
    <2> HIDE DEF new
    <2>3. tx' \in TxType
        BY <1>0, <2>1, <2>2
    <2> QED
        BY <1>6, <2>3 DEF Fill, UsbTypeOK, hostVars, history, Places
<1>7. CASE Publish
    <2>1. tx' \in TxType
        <3>1. (loc.head + AnsLen) % Wrap \in Index
            BY <1>0, UsbConstants, ModRange DEF Index
        <3> QED
            BY <1>0, <1>7, <3>1 DEF Publish
    <2>2. queued' \in Seq(TxByte)
        BY <1>7, AnswerIsSeq, ConcatProperties, EmptySeq DEF Publish, UsbTypeOK
    <2> QED
        BY <1>7, <2>1, <2>2 DEF Publish, UsbTypeOK, hostVars, Places
<1>8. CASE Kick
    <2>1. Depth(tx) \in Nat
        <3>1. tx.head - tx.tail \in Int
            BY <1>0 DEF Index
        <3> QED
            BY <3>1, UsbConstants, ModRange DEF Depth
    <2>2. KickLength(tx) \in 0 .. MaxPacket
        BY <2>1, UsbConstants DEF KickLength
    <2>3. KickEp(tx).pma \in Seq(TxByte)
        <3>1. Span(tx, TxCap, tx.tail, KickLength(tx)) \in Seq(TxByte)
            BY <1>0, <2>2, SpanIsSeq DEF Index
        <3> QED
            BY <3>1 DEF KickEp
    <2>4. ep' \in EpType /\ loc' \in LocType /\ pc' \in Places
        BY <1>0, <1>8, <2>2, <2>3 DEF Kick, Places
    <2> QED
        BY <1>8, <2>4 DEF Kick, UsbTypeOK, hostVars, history
<1>9. CASE KickCommit
    <2>1. tx' \in TxType /\ ep' \in EpType
        BY <1>0, <1>9 DEF KickCommit
    <2> QED
        BY <1>9, <2>1 DEF KickCommit, UsbTypeOK, hostVars, history, Places
<1>10. CASE Answered
    <2>1. enter' \in [pending : BOOLEAN, base : Nat, left : 0 .. Fallback, ans : Nat]
        <3>1. loc.base \in Nat /\ answers \in Nat /\ Fallback \in 0 .. Fallback
            BY <1>0, UsbConstants DEF UsbTypeOK
        <3>2. \/ enter' = enter
              \/ enter' = [pending |-> TRUE, base |-> loc.base, left |-> Fallback,
                           ans |-> answers]
            BY <1>10 DEF Answered
        <3>3. enter \in [pending : BOOLEAN, base : Nat, left : 0 .. Fallback, ans : Nat]
            BY DEF UsbTypeOK
        <3> DEFINE new == [pending |-> TRUE, base |-> loc.base, left |-> Fallback,
                           ans |-> answers]
        <3>4. new \in [pending : BOOLEAN, base : Nat, left : 0 .. Fallback, ans : Nat]
            BY <3>1
        <3> QED
            BY <3>2, <3>3, <3>4
    <2>2. pc' \in Places
        BY <1>10 DEF Answered, Places
    <2> QED
        BY <1>10, <2>1, <2>2 DEF Answered, TaskOnly, driverVars, hostVars, history, UsbTypeOK
<1>11. CASE EnterService
    <2>1. /\ pc' \in {"reset", "getc"}
          /\ UNCHANGED <<driverVars, hostVars, history, loc, parser, enter>>
        BY <1>11 DEF EnterService, SystemReset, TaskOnly
    <2> QED
        BY <2>1, SMTT(30) DEF driverVars, hostVars, history, UsbTypeOK, Places
<1> QED
    BY <1>1, <1>2, <1>3, <1>4, <1>5, <1>6, <1>7, <1>8, <1>9, <1>10, <1>11 DEF Service

LEMMA UsbTypeStep ==
    ASSUME UsbTypeOK, [Next]_vars
    PROVE  UsbTypeOK'
<1>1. CASE UNCHANGED vars
    BY <1>1 DEF vars, driverVars, taskVars, hostVars, history, UsbTypeOK
<1>2. CASE Service
    BY <1>2, UsbTypeService
<1> QED
    BY <1>1, <1>2, UsbTypeDevice DEF Next, HandOver

-----------------------------------------------------------------------------
(* The TX ring *)

LEMMA DepthIsAhead == \A r : Depth(r) = Ahead(r.head, r.tail)
    BY DEF Depth, Ahead

\* What the other lemmas need of the types.
LEMMA TxFacts ==
    ASSUME UsbTypeOK
    PROVE  /\ tx.head \in Index /\ tx.tail \in Index /\ tx.inflight \in Nat
           /\ tx.active \in BOOLEAN /\ tx.ring \in [0 .. TxCap - 1 -> TxByte]
           /\ got \in Seq(TxByte) /\ queued \in Seq(TxByte) /\ ep.pma \in Seq(TxByte)
           /\ Len(got) \in Nat /\ Len(queued) \in Nat
           /\ Depth(tx) \in Nat /\ Depth(tx) = Ahead(tx.head, tx.tail)
<1>1. /\ tx.head \in Index /\ tx.tail \in Index /\ tx.inflight \in Nat
      /\ tx.active \in BOOLEAN /\ tx.ring \in [0 .. TxCap - 1 -> TxByte]
      /\ got \in Seq(TxByte) /\ queued \in Seq(TxByte) /\ ep.pma \in Seq(TxByte)
    BY DEF UsbTypeOK
<1>2. Ahead(tx.head, tx.tail) \in Nat
    BY <1>1, UsbConstants, AheadRange
<1> QED
    BY <1>1, <1>2, DepthIsAhead, LenProperties

\* Nothing has left the ring that was not read, and nothing was read that was not there.
LEMMA SentFacts ==
    ASSUME UsbTypeOK, TxInv
    PROVE  SentBytes \in Nat /\ Len(queued) = SentBytes + Depth(tx)
<1>1. Len(queued) = SentBytes + Depth(tx)
    BY TxFacts DEF TxInv, Carries
<1>2. SentBytes \in Nat
    BY TxFacts DEF TxInv, SentBytes
<1> QED
    BY <1>1, <1>2

\* Steps that leave the TX ring, the endpoint and the accepted answers alone.
LEMMA TxFrame ==
    ASSUME TxInv, UNCHANGED <<tx, ep, got, queued>>,
           \/ pc' = pc /\ loc' = loc /\ answers' = answers
           \/ pc' \notin {"commit", "fill", "publish"}
    PROVE  TxInv'
<1>1. SentBytes' = SentBytes /\ Depth(tx') = Depth(tx)
    BY DEF SentBytes
<1> QED
    BY <1>1 DEF TxInv, PacketIs, Filled

\* Clearing the rings, while the service holds no index and no length of the TX ring.
LEMMA TxReset ==
    ASSUME UsbTypeOK, ResetRings, pc' \notin {"fill", "publish", "commit"},
           ep'.ctr = FALSE, ep'.stat # "VALID"
    PROVE  TxInv'
<1>1. tx'.head = 0 /\ tx'.tail = 0 /\ tx'.active = FALSE
    BY DEF ResetRings, UsbTypeOK
<1>2. queued' = <<>> /\ got' = <<>>
    BY DEF ResetRings
<1>3. Ahead(0, 0) = 0 /\ TxCap \in Nat
    BY UsbConstants DEF Ahead, Cap
<1>4. SentBytes' = 0
    BY <1>2 DEF SentBytes
<1>5. Carries(tx'.ring, TxCap, tx'.head, tx'.tail, queued', SentBytes')
    BY <1>1, <1>2, <1>3, <1>4 DEF Carries
<1> QED
    BY <1>1, <1>2, <1>5 DEF TxInv

\* A packet that tx_kick() cuts off the ring is what the host has not read yet.
LEMMA KickPacket ==
    ASSUME UsbTypeOK, NEW t, t.head \in Index, t.tail \in Index,
           t.ring \in [0 .. TxCap - 1 -> TxByte], CanKick(t),
           Carries(t.ring, TxCap, t.head, t.tail, queued, Len(got))
    PROVE  /\ KickLength(t) \in 1 .. Depth(t)
           /\ Len(KickEp(t).pma) = KickLength(t)
           /\ \A k \in 1 .. KickLength(t) : KickEp(t).pma[k] = queued[Len(got) + k]
<1>1. Depth(t) \in Nat /\ Depth(t) # 0 /\ Depth(t) = Ahead(t.head, t.tail)
    BY UsbConstants, AheadRange, DepthIsAhead DEF CanKick
<1>2. KickLength(t) \in 1 .. Depth(t)
    BY <1>1, UsbConstants DEF KickLength
<1>3. KickEp(t).pma = Span(t, TxCap, t.tail, KickLength(t))
    BY DEF KickEp
<1>4. t.tail \in Int /\ KickLength(t) \in Nat
    BY <1>1, <1>2 DEF Index
<1>5. /\ Len(KickEp(t).pma) = KickLength(t)
      /\ \A k \in 1 .. KickLength(t) :
            KickEp(t).pma[k] = t.ring[(t.tail + k - 1) % TxCap]
    BY <1>3, <1>4, SpanIsSeq
<1>6. ASSUME NEW k \in 1 .. KickLength(t)
      PROVE  KickEp(t).pma[k] = queued[Len(got) + k]
    <2>1. k - 1 \in 0 .. Ahead(t.head, t.tail) - 1
        BY <1>1, <1>2
    <2>2. t.ring[(t.tail + (k - 1)) % TxCap] = queued[Len(got) + (k - 1) + 1]
        BY <2>1 DEF Carries
    <2>3. t.tail + (k - 1) = t.tail + k - 1 /\ Len(got) + (k - 1) + 1 = Len(got) + k
        BY <1>4, TxFacts
    <2> QED
        BY <1>5, <2>2, <2>3
<1> QED
    BY <1>2, <1>5, <1>6

\* The host reads the packet that is on offer.
LEMMA TxHostIn ==
    ASSUME UsbTypeOK, TxInv, ~torn.tx, HostIn
    PROVE  TxInv'
<1> DEFINE f == tx.inflight
<1>1. /\ tx' = tx /\ queued' = queued /\ got' = got \o ep.pma
      /\ ep' = [ep EXCEPT !.stat = "NAK", !.ctr = TRUE]
      /\ pc' = pc /\ loc' = loc /\ answers' = answers
    BY DEF HostIn, taskVars, history
<1>2. tx.active /\ PacketIs(f) /\ ~ep.ctr
    BY DEF HostIn, TxInv
<1>3. ep'.ctr = TRUE /\ ep'.stat = "NAK"
    BY <1>1 DEF UsbTypeOK
<1>4. f \in Nat /\ f \in 1 .. Depth(tx) /\ Len(ep.pma) = f
    BY <1>2, TxFacts DEF PacketIs
<1>5. /\ Len(got') = Len(got) + f
      /\ \A i \in 1 .. Len(got) + f : got'[i] = IF i <= Len(got) THEN got[i]
                                                 ELSE ep.pma[i - Len(got)]
    BY <1>1, <1>4, TxFacts, ConcatProperties
<1>6. SentBytes' = SentBytes
    BY <1>1, <1>2, <1>3, <1>4, <1>5, TxFacts DEF SentBytes
<1>7. \A i \in 1 .. Len(got') : got'[i] = queued'[i]
    <2> SUFFICES ASSUME NEW i \in 1 .. Len(got) + f
                 PROVE  got'[i] = queued[i]
        BY <1>1, <1>5
    <2>1. CASE i <= Len(got)
        <3>1. i \in 1 .. Len(got)
            BY <2>1, TxFacts
        <3> QED
            BY <1>5, <2>1, <3>1 DEF TxInv
    <2>2. CASE ~(i <= Len(got))
        <3>1. i - Len(got) \in 1 .. f /\ Len(got) + (i - Len(got)) = i
            BY <1>4, <2>2, TxFacts
        <3>2. ep.pma[i - Len(got)] = queued[Len(got) + (i - Len(got))]
            BY <1>2, <3>1 DEF PacketIs
        <3> QED
            BY <1>5, <2>2, <3>1, <3>2
    <2> QED
        BY <2>1, <2>2
<1>8. Len(got') >= tx'.inflight
    BY <1>1, <1>4, <1>5, TxFacts
<1>9. Depth(tx') = Depth(tx)
    BY <1>1
<1>10. pc # "commit"
    BY <1>2 DEF TxInv
<1>11. Carries(tx'.ring, TxCap, tx'.head, tx'.tail, queued', SentBytes')
    BY <1>1, <1>6 DEF TxInv
<1> QED
    BY <1>1, <1>2, <1>3, <1>7, <1>8, <1>9, <1>10, <1>11 DEF TxInv, Filled

\* The completion: the bytes that were read leave the ring, and the next packet is cut.
LEMMA TxHandleIn ==
    ASSUME UsbTypeOK, TxInv, HandleIn
    PROVE  TxInv'
<1> DEFINE f == tx.inflight
           t == [tx EXCEPT !.tail = (@ + tx.inflight) % Wrap, !.inflight = 0,
                           !.active = FALSE]
<1>1. ep.ctr /\ tx.active /\ ep.stat # "VALID" /\ f \in 1 .. Depth(tx) /\ f \in Nat
      /\ Len(got) >= f
    BY TxFacts DEF HandleIn, TxInv
<1>2. /\ t.tail = (tx.tail + f) % Wrap /\ t.head = tx.head /\ t.ring = tx.ring
      /\ t.active = FALSE /\ t.inflight = 0
    BY DEF UsbTypeOK
<1>3. /\ IF CanKick(t) THEN tx' = KickTx(t) /\ ep' = KickEp(t)
         ELSE tx' = t /\ ep' = [ep EXCEPT !.stat = "NAK", !.ctr = FALSE]
      /\ UNCHANGED <<got, queued, pc, loc, answers>>
    BY <1>1 DEF HandleIn, taskVars, hostVars, history
<1> HIDE DEF t
<1>4. /\ t.tail \in Index
      /\ Ahead(t.head, t.tail) = Depth(tx) - f
      /\ Carries(t.ring, TxCap, t.head, t.tail, queued, Len(got))
    <2>1. SentBytes + f = Len(got) /\ SentBytes \in Nat
        BY <1>1, TxFacts DEF SentBytes
    <2>2. f <= Ahead(tx.head, tx.tail)
        BY <1>1, TxFacts
    <2>3. Carries(tx.ring, TxCap, tx.head, tx.tail, queued, SentBytes)
        BY DEF TxInv
    <2> QED
        BY <1>1, <1>2, <2>1, <2>2, <2>3, UsbConstants, TxFacts, CarriesConsume
<1>5. Depth(t) = Depth(tx) - f /\ Depth(t) \in Nat /\ Depth(t) <= Depth(tx)
    BY <1>1, <1>4, DepthIsAhead, TxFacts
<1>6. /\ tx'.head = t.head /\ tx'.tail = t.tail /\ tx'.ring = t.ring
      /\ ep'.ctr = FALSE /\ Depth(tx') = Depth(t)
    <2>1. CASE CanKick(t)
        <3>1. tx' = KickTx(t) /\ ep' = KickEp(t)
            BY <1>3, <2>1
        <3>2. tx'.head = t.head /\ tx'.tail = t.tail /\ tx'.ring = t.ring
            BY <3>1 DEF KickTx, t, UsbTypeOK
        <3>3. ep'.ctr = FALSE
            BY <3>1 DEF KickEp
        <3> QED
            BY <3>2, <3>3 DEF Depth
    <2>2. CASE ~CanKick(t)
        BY <1>3, <2>2 DEF UsbTypeOK
    <2> QED
        BY <2>1, <2>2
<1>7. SentBytes' = Len(got)
    BY <1>3, <1>6 DEF SentBytes
<1>8. Carries(tx'.ring, TxCap, tx'.head, tx'.tail, queued', SentBytes')
    BY <1>3, <1>4, <1>6, <1>7
<1>9. /\ tx'.active => tx'.inflight \in 1 .. Depth(tx')
      /\ ep'.stat = "VALID" =>
           /\ tx'.active /\ tx'.inflight \in 1 .. Depth(tx')
           /\ Len(ep'.pma) = tx'.inflight
           /\ \A k \in 1 .. tx'.inflight : ep'.pma[k] = queued[Len(got) + k]
    <2>1. CASE CanKick(t)
        <3>1. tx' = KickTx(t) /\ ep' = KickEp(t)
            BY <1>3, <2>1
        <3>2. tx'.inflight = KickLength(t) /\ tx'.active = TRUE
            BY <3>1 DEF KickTx, t, UsbTypeOK
        <3>3. t.head \in Index /\ t.ring \in [0 .. TxCap - 1 -> TxByte]
            BY <1>2, TxFacts
        <3> QED
            BY <1>4, <1>6, <2>1, <3>1, <3>2, <3>3, KickPacket
    <2>2. CASE ~CanKick(t)
        <3>1. tx' = t /\ ep' = [ep EXCEPT !.stat = "NAK", !.ctr = FALSE]
            BY <1>3, <2>2
        <3>2. ep'.stat = "NAK" /\ tx'.active = FALSE
            BY <1>2, <3>1 DEF UsbTypeOK
        <3> QED
            BY <3>2
    <2> QED
        BY <2>1, <2>2
<1>10. pc # "commit"
    BY <1>1 DEF TxInv
<1>11. pc \in {"fill", "publish"} => loc.head = tx'.head /\ Depth(tx') + AnsLen <= TxCap
    BY <1>2, <1>5, <1>6, TxFacts, UsbConstants DEF TxInv
<1>12. pc = "publish" => Filled(tx'.ring, TxCap, tx'.head, Answer(answers))
    BY <1>2, <1>6 DEF TxInv
<1>13. \A i \in 1 .. Len(got) : got[i] = queued[i]
    BY DEF TxInv
<1> QED
    BY <1>3, <1>6, <1>8, <1>9, <1>10, <1>11, <1>12, <1>13 DEF TxInv, PacketIs

\* The answer is copied to places the ring does not use.
LEMMA TxFill ==
    ASSUME UsbTypeOK, TxInv, Fill
    PROVE  TxInv'
<1> DEFINE h == tx.head
           new == Copied(tx.ring, TxCap, h, Answer(answers), AnsLen)
<1>1. /\ pc = "fill" /\ loc.head = h /\ Depth(tx) + AnsLen <= TxCap
      /\ pc' = "publish" /\ loc' = loc /\ ep' = ep /\ got' = got /\ queued' = queued
      /\ answers' = answers
    BY DEF Fill, TxInv, hostVars, history
<1>2. tx' = [tx EXCEPT !.ring = new]
    BY <1>1 DEF Fill, Copied
<1> HIDE DEF new
<1>3. /\ tx'.head = tx.head /\ tx'.tail = tx.tail /\ tx'.active = tx.active
      /\ tx'.inflight = tx.inflight /\ tx'.ring = new
    BY <1>2 DEF UsbTypeOK
<1>4. Depth(tx') = Depth(tx) /\ SentBytes' = SentBytes
    BY <1>1, <1>3 DEF Depth, SentBytes
<1>5. /\ Carries(new, TxCap, tx.head, tx.tail, queued, SentBytes)
      /\ \A j \in 0 .. AnsLen - 1 : new[(h + j) % TxCap] = Answer(answers)[j + 1]
    <2>1. AnsLen \in Nat /\ Ahead(tx.head, tx.tail) + AnsLen <= TxCap
        BY <1>1, TxFacts, UsbConstants
    <2>2. Carries(tx.ring, TxCap, tx.head, tx.tail, queued, SentBytes)
        BY DEF TxInv
    <2> QED
        BY <2>1, <2>2, UsbConstants, TxFacts, CarriesFill DEF new
<1>6. Len(Answer(answers)) = AnsLen
    BY AnswerIsSeq DEF UsbTypeOK
<1>7. Filled(tx'.ring, TxCap, tx'.head, Answer(answers'))
    BY <1>1, <1>3, <1>5, <1>6 DEF Filled
<1> QED
    BY <1>1, <1>3, <1>4, <1>5, <1>7 DEF TxInv, PacketIs

\* The head moves over the whole answer at once.
LEMMA TxPublish ==
    ASSUME UsbTypeOK, TxInv, ~torn.tx, Publish
    PROVE  TxInv'
<1> DEFINE v == Answer(answers)
           h2 == (tx.head + AnsLen) % Wrap
<1>1. /\ pc = "publish" /\ loc.head = tx.head /\ Depth(tx) + AnsLen <= TxCap
      /\ Filled(tx.ring, TxCap, tx.head, v)
      /\ pc' = "kick" /\ ep' = ep /\ got' = got /\ queued' = queued \o v
    BY DEF Publish, TxInv, hostVars
<1>2. tx' = [tx EXCEPT !.head = h2]
    BY <1>1 DEF Publish
<1>3. v \in Seq(TxByte) /\ Len(v) = AnsLen
    BY AnswerIsSeq DEF UsbTypeOK
<1> HIDE DEF v, h2
<1>4. /\ tx'.head = h2 /\ tx'.tail = tx.tail /\ tx'.active = tx.active
      /\ tx'.inflight = tx.inflight /\ tx'.ring = tx.ring
    BY <1>2 DEF UsbTypeOK
<1>5. /\ h2 \in Index /\ Ahead(h2, tx.tail) = Depth(tx) + AnsLen
      /\ Carries(tx.ring, TxCap, h2, tx.tail, queued \o v, SentBytes)
    <2>1. Ahead(tx.head, tx.tail) + Len(v) <= TxCap
        BY <1>1, <1>3, TxFacts
    <2>2. Carries(tx.ring, TxCap, tx.head, tx.tail, queued, SentBytes)
        BY DEF TxInv
    <2> QED
        BY <1>1, <1>3, <2>1, <2>2, UsbConstants, TxFacts, SentFacts, CarriesPublish DEF h2
<1>6. Depth(tx') = Depth(tx) + AnsLen /\ Depth(tx) <= Depth(tx') /\ SentBytes' = SentBytes
    BY <1>1, <1>4, <1>5, DepthIsAhead, TxFacts, UsbConstants DEF SentBytes
<1>7. \A i \in 1 .. Len(queued) : (queued \o v)[i] = queued[i]
    BY <1>3, TxFacts, ConcatProperties
<1>8. Len(got) + tx.inflight \in Nat
      /\ (ep.stat = "VALID" => Len(got) + tx.inflight <= Len(queued))
    <2>1. ASSUME ep.stat = "VALID"
          PROVE  Len(got) + tx.inflight <= Len(queued)
        <3>1. tx.inflight \in 1 .. Depth(tx) /\ ~ep.ctr
            BY <2>1 DEF TxInv
        <3> QED
            BY <3>1, TxFacts, SentFacts DEF SentBytes
    <2> QED
        BY <2>1, TxFacts
<1>9. \A i \in 1 .. Len(got) : got[i] = queued'[i]
    <2>1. Len(got) <= Len(queued)
        <3>1. CASE ep.ctr
            BY <3>1, TxFacts, SentFacts DEF TxInv, SentBytes
        <3>2. CASE ~ep.ctr
            BY <3>2, TxFacts, SentFacts DEF SentBytes
        <3> QED
            BY <3>1, <3>2
    <2> TAKE i \in 1 .. Len(got)
    <2>2. i \in 1 .. Len(queued)
        BY <2>1, TxFacts
    <2> QED
        BY <1>1, <1>7, <2>2 DEF TxInv
<1>10. ASSUME ep.stat = "VALID", NEW k \in 1 .. tx.inflight
       PROVE  ep.pma[k] = queued'[Len(got) + k]
    <2>1. Len(got) + k \in 1 .. Len(queued)
        BY <1>8, <1>10, TxFacts
    <2>2. ep.pma[k] = queued[Len(got) + k]
        BY <1>10 DEF TxInv, PacketIs
    <2> QED
        BY <1>1, <1>7, <2>1, <2>2
<1>11. /\ tx'.active => tx'.inflight \in 1 .. Depth(tx')
       /\ ep'.stat = "VALID" =>
            /\ tx'.active /\ tx'.inflight \in 1 .. Depth(tx')
            /\ Len(ep'.pma) = tx'.inflight
            /\ \A k \in 1 .. tx'.inflight : ep'.pma[k] = queued'[Len(got') + k]
    <2>1. tx.active => tx'.inflight \in 1 .. Depth(tx')
        BY <1>4, <1>6, TxFacts, UsbConstants DEF TxInv
    <2>2. ep.stat = "VALID" => tx.active /\ Len(ep.pma) = tx.inflight
        BY DEF TxInv, PacketIs
    <2> QED
        BY <1>1, <1>4, <1>10, <2>1, <2>2
<1>12. ep'.ctr => tx'.active /\ ep'.stat # "VALID" /\ Len(got') >= tx'.inflight
    BY <1>1, <1>4 DEF TxInv
<1>13. Carries(tx'.ring, TxCap, tx'.head, tx'.tail, queued', SentBytes')
    BY <1>1, <1>4, <1>5, <1>6
<1> QED
    BY <1>1, <1>9, <1>11, <1>12, <1>13 DEF TxInv, PacketIs

\* The task copies a packet to the packet memory while no packet is in flight.
LEMMA TxKick ==
    ASSUME UsbTypeOK, TxInv, Kick
    PROVE  TxInv'
<1>1. UNCHANGED <<tx, got, queued, answers>> /\ pc = "kick" /\ Depth(tx') = Depth(tx)
    BY DEF Kick, hostVars, history
<1>2. CASE ~CanKick(tx)
    <2>1. UNCHANGED <<ep, loc>> /\ pc' = "answered"
        BY <1>2 DEF Kick
    <2> QED
        BY <1>1, <2>1, TxFrame
<1>3. CASE CanKick(tx)
    <2>1. /\ ep' = [ep EXCEPT !.pma = KickEp(tx).pma]
          /\ loc' = [loc EXCEPT !.n = KickLength(tx)]
          /\ pc' = "commit"
        BY <1>3 DEF Kick
    <2>2. ep'.pma = KickEp(tx).pma /\ ep'.stat = ep.stat /\ ep'.ctr = ep.ctr
          /\ loc'.n = KickLength(tx)
        BY <2>1 DEF UsbTypeOK
    <2>3. ~tx.active /\ ~ep.ctr /\ ep.stat # "VALID"
        BY <1>3 DEF CanKick, TxInv
    <2>4. SentBytes = Len(got) /\ SentBytes' = Len(got)
        BY <1>1, <2>2, <2>3 DEF SentBytes
    <2>5. Carries(tx.ring, TxCap, tx.head, tx.tail, queued, Len(got))
        BY <2>4 DEF TxInv
    <2>6. /\ KickLength(tx) \in 1 .. Depth(tx)
          /\ Len(KickEp(tx).pma) = KickLength(tx)
          /\ \A k \in 1 .. KickLength(tx) : KickEp(tx).pma[k] = queued[Len(got) + k]
        BY <1>3, <2>5, TxFacts, KickPacket
    <2>7. loc'.n \in 1 .. Depth(tx') /\ Len(ep'.pma) = loc'.n
          /\ \A k \in 1 .. loc'.n : ep'.pma[k] = queued'[Len(got') + k]
        BY <1>1, <2>2, <2>6
    <2>8. Carries(tx'.ring, TxCap, tx'.head, tx'.tail, queued', SentBytes')
        BY <1>1, <2>4, <2>5
    <2>9. \A i \in 1 .. Len(got') : got'[i] = queued'[i]
        BY <1>1 DEF TxInv
    <2> QED
        BY <1>1, <2>1, <2>2, <2>3, <2>7, <2>8, <2>9 DEF TxInv, PacketIs
<1> QED
    BY <1>2, <1>3

\* It then commits the packet: nothing has changed in between.
LEMMA TxKickCommit ==
    ASSUME UsbTypeOK, TxInv, KickCommit
    PROVE  TxInv'
<1>1. /\ pc = "commit" /\ UNCHANGED <<got, queued, loc, answers>> /\ pc' = "answered"
      /\ tx' = [tx EXCEPT !.inflight = loc.n, !.active = TRUE]
      /\ ep' = [ep EXCEPT !.stat = "VALID"]
    BY DEF KickCommit, hostVars, history
<1>2. /\ tx'.head = tx.head /\ tx'.tail = tx.tail /\ tx'.ring = tx.ring
      /\ tx'.inflight = loc.n /\ tx'.active = TRUE
      /\ ep'.stat = "VALID" /\ ep'.ctr = ep.ctr /\ ep'.pma = ep.pma
    BY <1>1 DEF UsbTypeOK
<1>3. ~tx.active /\ ~ep.ctr /\ PacketIs(loc.n)
    BY <1>1 DEF TxInv
<1>4. SentBytes' = SentBytes /\ Depth(tx') = Depth(tx)
    BY <1>1, <1>2, <1>3 DEF SentBytes, Depth
<1>5. Carries(tx'.ring, TxCap, tx'.head, tx'.tail, queued', SentBytes')
    BY <1>1, <1>2, <1>4 DEF TxInv
<1>6. PacketIs(loc.n)'
    BY <1>1, <1>2, <1>3, <1>4 DEF PacketIs
<1>7. \A i \in 1 .. Len(got') : got'[i] = queued'[i]
    BY <1>1 DEF TxInv
<1> QED
    BY <1>1, <1>2, <1>3, <1>5, <1>6, <1>7 DEF TxInv, PacketIs

\* A ring is torn, or no longer torn, only by a reset.
LEMMA TornKept ==
    ASSUME [Next]_vars, ~(BusReset \/ Deconfigure \/ Configure)
    PROVE  torn' = torn
<1>1. CASE \/ HandleIn \/ HostIn \/ (\E kind \in Kind : HostRequest(kind))
           \/ (\E n \in 1 .. MaxPacket : HandleOut(n)) \/ Tick \/ UNCHANGED vars
    BY <1>1 DEF HandleIn, HostIn, HostRequest, HandleOut, Tick, vars, history
<1>2. CASE ServiceStart \/ ServicePoll \/ GetcRead \/ GetcFeed \/ Answered \/ EnterService
    BY <1>2 DEF ServiceStart, ServicePoll, GetcRead, GetcFeed, Answered, EnterService,
                SystemReset, TaskOnly, history
<1>3. CASE Handle \/ Fill \/ Publish \/ Kick \/ KickCommit
    BY <1>3 DEF Handle, Fill, Publish, Kick, KickCommit, history
<1> QED
    BY <1>1, <1>2, <1>3 DEF Next, Interrupt, Service, HandOver

\* Every step keeps a TX ring that is not torn, and a reset leaves one torn or clear.
LEMMA TxStep ==
    ASSUME UsbTypeOK, ~torn.tx => TxInv, [Next]_vars
    PROVE  ~torn'.tx => TxInv'
<1> SUFFICES ASSUME ~torn'.tx PROVE TxInv'
    OBVIOUS
<1>1. CASE BusReset \/ Deconfigure \/ Configure
    <2>1. ResetRings /\ pc' = pc /\ torn' = [rx |-> pc = "feed", tx |-> pc \in {"fill", "publish", "commit"}]
        BY <1>1 DEF BusReset, Deconfigure, Configure, ResetRings, taskVars
    <2>3. pc' \notin {"fill", "publish", "commit"}
        BY <2>1
    <2>2. \E st \in {"DISABLED", "NAK"} : ep' = [stat |-> st, pma |-> <<>>, ctr |-> FALSE]
        BY <1>1 DEF BusReset, Deconfigure, Configure
    <2> QED
        BY <2>1, <2>2, <2>3, TxReset
<1> SUFFICES ASSUME ~(BusReset \/ Deconfigure \/ Configure) PROVE TxInv'
    BY <1>1
<1>0. ~torn.tx /\ TxInv
    BY TornKept
<1>2. CASE HandleIn \/ HostIn
    BY <1>0, <1>2, TxHandleIn, TxHostIn
<1>3. CASE \/ (\E kind \in Kind : HostRequest(kind))
           \/ (\E n \in 1 .. MaxPacket : HandleOut(n)) \/ Tick \/ UNCHANGED vars
    <2>1. UNCHANGED <<tx, ep, got, queued, pc, loc, answers>>
        BY <1>3 DEF HostRequest, HandleOut, Tick, vars, driverVars, taskVars, hostVars,
                    history
    <2> QED
        BY <1>0, <2>1, TxFrame
<1>4. CASE ServiceStart \/ ServicePoll \/ GetcRead \/ GetcFeed \/ Answered \/ EnterService
    <2>1. UNCHANGED <<tx, ep, got, queued>> /\ pc' \notin {"commit", "fill", "publish"}
        BY <1>4 DEF ServiceStart, ServicePoll, GetcRead, GetcFeed, Answered, EnterService,
                    SystemReset, TaskOnly, driverVars, hostVars, history
    <2> QED
        BY <1>0, <2>1, TxFrame
<1>5. CASE Handle
    <2> DEFINE fits == conf /\ Depth(tx) <= TxCap /\ AnsLen <= TxCap - Depth(tx)
    <2>1. /\ UNCHANGED <<tx, ep, got, queued>>
          /\ loc' = [loc EXCEPT !.base = txPackets, !.head = tx.head]
          /\ pc' = IF fits THEN "fill" ELSE IF loc.req = "ENTER" THEN "enter" ELSE "getc"
        BY <1>5 DEF Handle, driverVars, hostVars
    <2>2. CASE fits
        <3>1. loc'.head = tx.head
            BY <2>1 DEF UsbTypeOK
        <3>2. Depth(tx) + AnsLen <= TxCap
            BY <2>2, TxFacts, UsbConstants
        <3>3. pc' = "fill"
            BY <2>1, <2>2
        <3>4. SentBytes' = SentBytes /\ Depth(tx') = Depth(tx)
            BY <2>1 DEF SentBytes
        <3> QED
            BY <1>0, <2>1, <3>1, <3>2, <3>3, <3>4 DEF TxInv, PacketIs
    <2>3. CASE ~fits
        <3>1. pc' \notin {"commit", "fill", "publish"}
            BY <2>1, <2>3
        <3> QED
            BY <1>0, <2>1, <3>1, TxFrame
    <2> QED
        BY <2>2, <2>3
<1>6. CASE Fill \/ Publish \/ Kick \/ KickCommit
    BY <1>0, <1>6, TxFill, TxPublish, TxKick, TxKickCommit
<1> QED
    BY <1>1, <1>2, <1>3, <1>4, <1>5, <1>6 DEF Next, Interrupt, Service, HandOver

-----------------------------------------------------------------------------
(* The RX ring *)

LEMMA RxFacts ==
    ASSUME UsbTypeOK
    PROVE  /\ rx.head \in Index /\ rx.tail \in Index
           /\ rx.ring \in [0 .. RxCap - 1 -> RxByte]
           /\ rxLog \in Seq(RxByte) /\ rxRead \in Seq(RxByte) /\ out \in Seq(RxByte)
           /\ Len(rxLog) \in Nat /\ Len(rxRead) \in Nat /\ Len(out) \in Nat
           /\ Depth(rx) \in Nat /\ Depth(rx) = Ahead(rx.head, rx.tail)
<1>1. /\ rx.head \in Index /\ rx.tail \in Index
      /\ rx.ring \in [0 .. RxCap - 1 -> RxByte]
      /\ rxLog \in Seq(RxByte) /\ rxRead \in Seq(RxByte) /\ out \in Seq(RxByte)
    BY DEF UsbTypeOK
<1>2. Ahead(rx.head, rx.tail) \in Nat
    BY <1>1, UsbConstants, AheadRange
<1> QED
    BY <1>1, <1>2, DepthIsAhead, LenProperties

LEMMA RxFrame ==
    ASSUME RxInv, UNCHANGED <<rx, rxLog, rxRead>>,
           \/ pc' = pc /\ loc' = loc
           \/ pc' # "feed"
    PROVE  RxInv'
<1>1. Depth(rx') = Depth(rx)
    OBVIOUS
<1> QED
    BY <1>1 DEF RxInv

LEMMA RxReset ==
    ASSUME UsbTypeOK, ResetRings, pc' # "feed"
    PROVE  RxInv'
<1>1. rx'.head = 0 /\ rx'.tail = 0 /\ rxLog' = <<>> /\ rxRead' = <<>>
    BY DEF ResetRings, UsbTypeOK
<1>2. Ahead(0, 0) = 0 /\ RxCap \in Nat
    BY UsbConstants DEF Ahead, Cap
<1>3. Carries(rx'.ring, RxCap, rx'.head, rx'.tail, rxLog', Len(rxRead'))
    BY <1>1, <1>2 DEF Carries
<1> QED
    BY <1>1, <1>3 DEF RxInv

\* A packet arrives: what fits is stored behind the head, which then moves over it.
LEMMA RxHandleOut ==
    ASSUME UsbTypeOK, RxInv, ~torn.rx, NEW n \in 1 .. MaxPacket, HandleOut(n)
    PROVE  RxInv'
<1> DEFINE d == Depth(rx)
           room == RxCap - d
           k == IF n <= room THEN n ELSE IF room < 0 THEN 0 ELSE room
           v == SubSeq(out, 1, k)
           h2 == (rx.head + k) % Wrap
           new == Copied(rx.ring, RxCap, rx.head, out, k)
<1>0. /\ d \in Nat /\ d <= RxCap /\ d = Ahead(rx.head, rx.tail)
      /\ n \in Nat /\ n <= Len(out) /\ RxCap \in Nat
    <2>1. n <= Len(out)
        BY DEF HandleOut
    <2> QED
        BY <2>1, RxFacts, UsbConstants DEF RxInv, Carries
<1>1. k \in Nat /\ k <= Len(out) /\ d + k <= RxCap
    <2> HIDE DEF d
    <2> QED
        BY <1>0, RxFacts
<1>2. /\ rx' = [rx EXCEPT !.ring = new, !.head = h2]
      /\ rxLog' = rxLog \o v
      /\ UNCHANGED <<rxRead, pc, loc>>
    BY DEF HandleOut, Copied, taskVars
<1> HIDE DEF k, room
<1>3. /\ rx'.head = h2 /\ rx'.tail = rx.tail /\ rx'.ring = new
    <2> HIDE DEF new, h2
    <2> QED
        BY <1>2 DEF UsbTypeOK
<1>4. v \in Seq(RxByte) /\ Len(v) = k /\ (\A i \in 1 .. k : v[i] = out[i])
    <2>1. \A i \in 1 .. k : out[i] \in RxByte
        BY <1>1, RxFacts, ElementOfSeq
    <2>2. /\ SubSeq(out, 1, k) \in Seq(RxByte)
          /\ Len(SubSeq(out, 1, k)) = IF 1 <= k THEN k - 1 + 1 ELSE 0
          /\ \A i \in 1 .. k - 1 + 1 : SubSeq(out, 1, k)[i] = out[1 + i - 1]
        BY <1>1, <2>1, SubSeqProperties
    <2> QED
        BY <1>1, <2>2
<1> HIDE DEF v
<1>5. /\ Carries(new, RxCap, rx.head, rx.tail, rxLog, Len(rxRead))
      /\ \A j \in 0 .. k - 1 : new[(rx.head + j) % RxCap] = out[j + 1]
    <2>1. Ahead(rx.head, rx.tail) + k <= RxCap
        BY <1>0, <1>1
    <2>2. Carries(rx.ring, RxCap, rx.head, rx.tail, rxLog, Len(rxRead))
        BY DEF RxInv
    <2> QED
        BY <1>1, <2>1, <2>2, UsbConstants, RxFacts, CarriesFill, SMTT(30)
<1> HIDE DEF new
<1>6. /\ h2 \in Index /\ Ahead(h2, rx.tail) = d + k
      /\ Carries(new, RxCap, h2, rx.tail, rxLog \o v, Len(rxRead))
    <2>1. Filled(new, RxCap, rx.head, v)
        BY <1>1, <1>4, <1>5 DEF Filled
    <2>2. Ahead(rx.head, rx.tail) + Len(v) <= RxCap
        BY <1>0, <1>1, <1>4
    <2> QED
        BY <1>0, <1>4, <1>5, <2>1, <2>2, UsbConstants, RxFacts, CarriesPublish
<1> HIDE DEF h2
<1>7. \A i \in 1 .. Len(rxLog) : (rxLog \o v)[i] = rxLog[i]
    BY <1>4, RxFacts, ConcatProperties
<1>8. Len(rxLog) = Len(rxRead) + d
    BY <1>0 DEF RxInv, Carries
<1>9. \A i \in 1 .. Len(rxRead') : rxRead'[i] = rxLog'[i]
    <2> SUFFICES ASSUME NEW i \in 1 .. Len(rxRead) PROVE rxRead[i] = (rxLog \o v)[i]
        BY <1>2
    <2>1. i \in 1 .. Len(rxLog)
        BY <1>0, <1>8, RxFacts
    <2> QED
        BY <1>7, <2>1 DEF RxInv
<1>10. pc' = "feed" => /\ loc'.tail = rx'.tail /\ Depth(rx') > 0
                       /\ loc'.byte = rxLog'[Len(rxRead') + 1]
    <2> SUFFICES ASSUME pc = "feed"
                 PROVE  /\ loc.tail = rx.tail /\ Depth(rx') > 0
                        /\ loc.byte = (rxLog \o v)[Len(rxRead) + 1]
        BY <1>2, <1>3
    <2>1. loc.tail = rx.tail /\ d > 0 /\ loc.byte = rxLog[Len(rxRead) + 1]
        BY DEF RxInv
    <2>2. Depth(rx') = d + k
        BY <1>3, <1>6, DepthIsAhead
    <2>3. Len(rxRead) + 1 \in 1 .. Len(rxLog)
        BY <1>0, <1>8, <2>1, RxFacts
    <2> QED
        BY <1>0, <1>1, <1>7, <2>1, <2>2, <2>3
<1>11. Carries(rx'.ring, RxCap, rx'.head, rx'.tail, rxLog', Len(rxRead'))
    BY <1>2, <1>3, <1>6
<1> QED
    BY <1>9, <1>10, <1>11 DEF RxInv

\* The task looks at the byte at the tail.
LEMMA RxGetcRead ==
    ASSUME UsbTypeOK, RxInv, GetcRead
    PROVE  RxInv'
<1>1. UNCHANGED <<rx, rxLog, rxRead>>
    BY DEF GetcRead, TaskOnly, driverVars, history
<1>2. CASE rx.tail = rx.head
    <2>1. pc' # "feed"
        BY <1>2 DEF GetcRead
    <2> QED
        BY <1>1, <2>1, RxFrame
<1>3. CASE rx.tail # rx.head
    <2>1. /\ pc' = "feed"
          /\ loc' = [loc EXCEPT !.tail = rx.tail, !.byte = rx.ring[rx.tail % RxCap]]
        BY <1>3 DEF GetcRead
    <2>2. loc'.tail = rx.tail /\ loc'.byte = rx.ring[rx.tail % RxCap]
        BY <2>1 DEF UsbTypeOK
    <2>3. Depth(rx) > 0
        <3>1. Wrap \in Nat \ {0} /\ rx.head \in 0 .. Wrap - 1 /\ rx.tail \in 0 .. Wrap - 1
            BY UsbConstants, RxFacts DEF Cap, Index
        <3>2. Depth(rx) = IF rx.head >= rx.tail THEN rx.head - rx.tail
                          ELSE rx.head - rx.tail + Wrap
            BY <3>1 DEF Depth
        <3> QED
            BY <1>3, <3>1, <3>2
    <2>4. rx.ring[rx.tail % RxCap] = rxLog[Len(rxRead) + 1]
        <3>1. 0 \in 0 .. Ahead(rx.head, rx.tail) - 1
            BY <2>3, RxFacts
        <3>2. rx.ring[(rx.tail + 0) % RxCap] = rxLog[Len(rxRead) + 0 + 1]
            BY <3>1 DEF RxInv, Carries
        <3>3. rx.tail + 0 = rx.tail /\ Len(rxRead) + 0 + 1 = Len(rxRead) + 1
            BY RxFacts DEF Index
        <3> QED
            BY <3>2, <3>3
    <2>5. Depth(rx') = Depth(rx)
        BY <1>1
    <2> QED
        BY <1>1, <2>2, <2>3, <2>4, <2>5 DEF RxInv
<1> QED
    BY <1>2, <1>3

\* It takes the byte, and only then frees its place.
LEMMA RxGetcFeed ==
    ASSUME UsbTypeOK, RxInv, ~torn.rx, GetcFeed
    PROVE  RxInv'
<1> DEFINE t2 == (rx.tail + 1) % Wrap
           more == Append(rxRead, loc.byte)
<1>1. /\ loc.tail = rx.tail /\ Depth(rx) > 0 /\ loc.byte = rxLog[Len(rxRead) + 1]
      /\ loc.byte \in RxByte
    BY DEF GetcFeed, RxInv, UsbTypeOK
<1>2. /\ rx' = [rx EXCEPT !.tail = t2] /\ rxRead' = more /\ rxLog' = rxLog
      /\ pc' # "feed"
    <2>1. rx' = [rx EXCEPT !.tail = t2] /\ rxRead' = more /\ rxLog' = rxLog
        BY <1>1 DEF GetcFeed
    <2>2. pc' # "feed"
        BY DEF GetcFeed
    <2> QED
        BY <2>1, <2>2
<1>3. Len(more) = Len(rxRead) + 1
      /\ \A i \in 1 .. Len(rxRead) + 1 : more[i] = IF i <= Len(rxRead) THEN rxRead[i]
                                                   ELSE loc.byte
    BY <1>1, RxFacts, AppendProperties
<1>4. Carries(rx.ring, RxCap, rx.head, t2, rxLog, Len(rxRead) + 1)
    <2>1. 1 \in Nat /\ 1 <= Ahead(rx.head, rx.tail)
        BY <1>1, RxFacts
    <2>2. Carries(rx.ring, RxCap, rx.head, rx.tail, rxLog, Len(rxRead))
        BY DEF RxInv
    <2> QED
        BY <2>1, <2>2, UsbConstants, RxFacts, CarriesConsume
<1> HIDE DEF t2, more
<1>5. rx'.head = rx.head /\ rx'.tail = t2 /\ rx'.ring = rx.ring
    BY <1>2 DEF UsbTypeOK
<1>6. ASSUME NEW i \in 1 .. Len(rxRead) + 1
      PROVE  more[i] = rxLog[i]
    <2>1. CASE i <= Len(rxRead)
        <3>1. i \in 1 .. Len(rxRead)
            BY <2>1, RxFacts
        <3> QED
            BY <1>3, <2>1, <3>1 DEF RxInv
    <2>2. CASE ~(i <= Len(rxRead))
        <3>1. i = Len(rxRead) + 1
            BY <2>2, RxFacts
        <3> QED
            BY <1>1, <1>3, <2>2, <3>1
    <2> QED
        BY <2>1, <2>2
<1>7. Carries(rx'.ring, RxCap, rx'.head, rx'.tail, rxLog', Len(rxRead'))
    BY <1>2, <1>3, <1>4, <1>5
<1> QED
    BY <1>2, <1>3, <1>6, <1>7 DEF RxInv

LEMMA RxStep ==
    ASSUME UsbTypeOK, ~torn.rx => RxInv, [Next]_vars
    PROVE  ~torn'.rx => RxInv'
<1> SUFFICES ASSUME ~torn'.rx PROVE RxInv'
    OBVIOUS
<1>1. CASE BusReset \/ Deconfigure \/ Configure
    <2>1. ResetRings /\ pc' = pc /\ torn' = [rx |-> pc = "feed", tx |-> pc \in {"fill", "publish", "commit"}]
        BY <1>1 DEF BusReset, Deconfigure, Configure, ResetRings, taskVars
    <2>2. pc' # "feed"
        BY <2>1
    <2> QED
        BY <2>1, <2>2, RxReset
<1> SUFFICES ASSUME ~(BusReset \/ Deconfigure \/ Configure) PROVE RxInv'
    BY <1>1
<1>0. ~torn.rx /\ RxInv
    BY TornKept
<1>2. ASSUME NEW n \in 1 .. MaxPacket, HandleOut(n)
      PROVE  RxInv'
    BY <1>0, <1>2, RxHandleOut
<1>3. CASE GetcRead \/ GetcFeed
    BY <1>0, <1>3, RxGetcRead, RxGetcFeed
<1>4. CASE \/ HandleIn \/ HostIn \/ (\E kind \in Kind : HostRequest(kind)) \/ Tick
           \/ UNCHANGED vars
    <2>1. UNCHANGED <<rx, rxLog, rxRead, pc, loc>>
        BY <1>4 DEF HandleIn, HostIn, HostRequest, Tick, vars, driverVars, taskVars,
                    hostVars, history
    <2> QED
        BY <1>0, <2>1, RxFrame
<1>5. CASE ServiceStart \/ ServicePoll \/ Answered \/ EnterService
    <2>1. UNCHANGED <<rx, rxLog, rxRead>> /\ pc' # "feed"
        BY <1>5 DEF ServiceStart, ServicePoll, Answered, EnterService, SystemReset, TaskOnly,
                    driverVars, history
    <2> QED
        BY <1>0, <2>1, RxFrame
<1>6. CASE Handle \/ Fill \/ Publish \/ Kick \/ KickCommit
    <2>1. UNCHANGED <<rx, rxLog, rxRead>> /\ pc' # "feed"
        BY <1>6 DEF Handle, Fill, Publish, Kick, KickCommit, driverVars, hostVars, history
    <2> QED
        BY <1>0, <2>1, RxFrame
<1> QED
    BY <1>1, <1>2, <1>3, <1>4, <1>5, <1>6 DEF Next, Interrupt, Service, HandOver

-----------------------------------------------------------------------------
(* Both rings *)

\* A sequence that agrees with another on its whole length is a prefix of it.
LEMMA AgreeIsPrefix ==
    ASSUME NEW S, NEW s \in Seq(S), NEW u \in Seq(S), Len(s) <= Len(u),
           \A i \in 1 .. Len(s) : s[i] = u[i]
    PROVE  IsPrefix(s, u)
<1>1. Len(s) \in Nat /\ Len(u) \in Nat
    BY LenProperties
<1>2. \A i \in 1 .. Len(s) : s[i] \in S /\ u[i] \in S
    BY <1>1, ElementOfSeq
<1>3. /\ SubSeq(s, 1, Len(s)) \in Seq(S) /\ SubSeq(u, 1, Len(s)) \in Seq(S)
      /\ Len(SubSeq(s, 1, Len(s))) = Len(SubSeq(u, 1, Len(s)))
      /\ Len(SubSeq(s, 1, Len(s))) = Len(s)
      /\ \A i \in 1 .. Len(s) : SubSeq(s, 1, Len(s))[i] = s[1 + i - 1]
                                /\ SubSeq(u, 1, Len(s))[i] = u[1 + i - 1]
    BY <1>1, <1>2, SubSeqProperties
<1>4. \A i \in 1 .. Len(s) : SubSeq(s, 1, Len(s))[i] = SubSeq(u, 1, Len(s))[i]
    BY <1>1, <1>3
<1>5. SubSeq(s, 1, Len(s)) = SubSeq(u, 1, Len(s))
    BY <1>3, <1>4, SeqEqual
<1> QED
    BY <1>5 DEF IsPrefix

LEMMA UsbInit == Init => UsbInv
<1> SUFFICES ASSUME Init PROVE UsbInv
    OBVIOUS
<1>1. UsbTypeOK
    BY UsbTypeInit
<1>2. /\ tx.head = 0 /\ tx.tail = 0 /\ tx.active = FALSE /\ rx.head = 0 /\ rx.tail = 0
      /\ ep.ctr = FALSE /\ ep.stat = "DISABLED" /\ pc = "idle"
      /\ queued = <<>> /\ got = <<>> /\ rxLog = <<>> /\ rxRead = <<>>
    BY DEF Init
<1>3. Ahead(0, 0) = 0 /\ RxCap \in Nat /\ TxCap \in Nat
    BY UsbConstants DEF Ahead, Cap
<1>4. SentBytes = 0
    BY <1>2 DEF SentBytes
<1>5. TxInv
    BY <1>2, <1>3, <1>4 DEF TxInv, Carries
<1>6. RxInv
    BY <1>2, <1>3 DEF RxInv, Carries
<1> QED
    BY <1>1, <1>5, <1>6 DEF UsbInv

\* The rings between the USB interrupt and the console task: within their capacity at
\* every moment, every byte read once, whole and in order in both directions, and no
\* completion that moves past what was queued, whenever the bus is reset or the interface
\* configured: of a ring that the last reset found in the middle of an access only that
\* its indices are indices.
THEOREM UsbRingsIntact == Spec => []RingsIntact
<1>1. UsbInv /\ [Next]_vars => UsbInv'
    BY UsbTypeStep, TxStep, RxStep DEF UsbInv
<1>2. ASSUME UsbInv
      PROVE  RingsIntact
    <2>1. UsbTypeOK /\ (~torn.tx => TxInv) /\ (~torn.rx => RxInv)
        BY <1>2 DEF UsbInv
    <2>2. TypeOK
        BY <2>1 DEF UsbTypeOK, TypeOK, Index
    <2>3. TxRingConsistent
        BY <2>1, TxFacts DEF TxInv, Carries, TxRingConsistent
    <2>4. AnswersIntact
        <3> SUFFICES ASSUME ~torn.tx PROVE IsPrefix(got, queued)
            BY DEF AnswersIntact
        <3>1. Len(got) <= Len(queued)
            <4>1. CASE ep.ctr
                BY <2>1, <4>1, TxFacts, SentFacts DEF TxInv, SentBytes
            <4>2. CASE ~ep.ctr
                BY <2>1, <4>2, TxFacts, SentFacts DEF SentBytes
            <4> QED
                BY <4>1, <4>2
        <3> QED
            BY <2>1, <3>1, TxFacts, AgreeIsPrefix DEF TxInv
    <2>5. RequestsIntact
        <3> SUFFICES ASSUME ~torn.rx PROVE IsPrefix(rxRead, rxLog)
            BY DEF RequestsIntact
        <3>1. Len(rxRead) <= Len(rxLog)
            BY <2>1, RxFacts DEF RxInv, Carries
        <3> QED
            BY <2>1, <3>1, RxFacts, AgreeIsPrefix DEF RxInv
    <2> QED
        BY <2>2, <2>3, <2>4, <2>5 DEF RingsIntact
<1> QED
    BY <1>1, <1>2, UsbInit, PTL DEF Spec

-----------------------------------------------------------------------------
(* Loops and sequences *)

LEMMA NaturalInduction ==
    ASSUME NEW S, 0 \in S, \A n \in Nat : n \in S => n + 1 \in S
    PROVE  Nat \subseteq S
<1> SUFFICES ASSUME Nat \ S # {} PROVE FALSE
    OBVIOUS
<1> DEFINE T == Nat \ S
<1>1. PICK x \in T : \A y \in T : <<y, x>> \notin OpToRel(<, Nat)
    BY WFMin, NatLessThanWellFounded, Zenon
<1>2. \A y \in T : ~ (y < x)
    BY <1>1 DEF OpToRel
<1>3. x # 0 /\ x - 1 \in Nat /\ x - 1 \notin S
    OBVIOUS
<1> QED
    BY <1>2, <1>3

\* A value computed by a loop that runs n times exists: the function of the
\* values after each iteration.
Iterates(A, a, n, next) ==
    \E g \in [0 .. n -> A] :
       g[0] = a /\ \A i \in 1 .. n : g[i] = next[i][g[i - 1]]

\* Such a value exists when every iteration stays within the values.
LEMMA Iteration ==
    ASSUME NEW A, NEW a \in A, NEW n \in Nat, NEW next \in [1 .. n -> [A -> A]]
    PROVE  Iterates(A, a, n, next)
<1> DEFINE Runs(k, g) == g[0] = a /\ \A i \in 1 .. k : g[i] = next[i][g[i - 1]]
           S == {k \in Nat : k <= n => \E g \in [0 .. k -> A] : Runs(k, g)}
<1>1. 0 \in S
  <2>1. [i \in 0 .. 0 |-> a] \in [0 .. 0 -> A] /\ Runs(0, [i \in 0 .. 0 |-> a])
      OBVIOUS
  <2> QED
      BY <2>1
<1>2. ASSUME NEW k \in Nat, k \in S PROVE k + 1 \in S
  <2> SUFFICES ASSUME k + 1 <= n
               PROVE  \E g \in [0 .. k + 1 -> A] : Runs(k + 1, g)
      OBVIOUS
  <2>1. PICK g \in [0 .. k -> A] : Runs(k, g)
      BY <1>2
  <2> DEFINE e == next[k + 1][g[k]]
             h == [i \in 0 .. k + 1 |-> IF i = k + 1 THEN e ELSE g[i]]
  <2>2. e \in A
      OBVIOUS
  <2>3. h \in [0 .. k + 1 -> A]
      BY <2>2
  <2>4. h[0] = a
      BY <2>1
  <2>5. ASSUME NEW i \in 1 .. k + 1 PROVE h[i] = next[i][h[i - 1]]
    <3>1. h[i - 1] = g[i - 1] /\ i - 1 \in 0 .. k
        OBVIOUS
    <3>2. CASE i = k + 1
      <4>1. h[i - 1] = g[k] /\ h[i] = e
          BY <3>1, <3>2
      <4> QED
          BY <4>1, <3>2
    <3>3. CASE i # k + 1
        BY <3>1, <3>3, <2>1
    <3> QED
        BY <3>2, <3>3
  <2> QED
      BY <2>3, <2>4, <2>5
<1> HIDE DEF S
<1>3. Nat \subseteq S
    BY <1>1, <1>2, NaturalInduction
<1> QED
    BY <1>3 DEF S, Iterates

\* A number is taken apart into its two digits, whatever the base: the low and
\* the high byte of a length, of a CRC and of an rpc id.
LEMMA Digits ==
    ASSUME NEW r \in Nat \ {0}, NEW low \in 0 .. r - 1, NEW high \in Nat
    PROVE  /\ (low + r * high) % r = low
           /\ (low + r * high) \div r = high
<1> DEFINE v == low + r * high
           q == v \div r
           m == v % r
<1>1. v \in Nat /\ r * high \in Nat
    OBVIOUS
<1>2. q \in Nat /\ m \in 0 .. r - 1 /\ v = r * q + m
    BY <1>1, Z3
<1> HIDE DEF v, q, m
<1>3. ASSUME NEW x \in Nat, NEW y \in Nat, x < y
      PROVE  r * x + r <= r * y
  <2>1. r * y - (r * x + r) = r * (y - x - 1)
      BY <1>3
  <2>2. r * (y - x - 1) >= 0
      BY <1>3
  <2> QED
      BY <2>1, <2>2
<1>4. ~ (q < high)
  <2> SUFFICES ASSUME q < high PROVE FALSE
      OBVIOUS
  <2>1. r * q + r <= r * high
      BY <1>2, <1>3
  <2> QED
      BY <1>2, <2>1, <1>1 DEF v
<1>5. ~ (high < q)
  <2> SUFFICES ASSUME high < q PROVE FALSE
      OBVIOUS
  <2>1. r * high + r <= r * q
      BY <1>2, <1>3
  <2> QED
      BY <1>2, <2>1, <1>1 DEF v
<1>6. q = high
    BY <1>2, <1>4, <1>5
<1>7. m = low
    BY <1>1, <1>2, <1>6 DEF v
<1> QED
    BY <1>6, <1>7 DEF q, m, v

\* Where the elements of two joined sequences are.
LEMMA Concatenation ==
    ASSUME NEW S, NEW s \in Seq(S), NEW t \in Seq(S)
    PROVE  /\ s \o t \in Seq(S)
           /\ Len(s \o t) = Len(s) + Len(t)
           /\ \A i \in 1 .. Len(s) : (s \o t)[i] = s[i]
           /\ \A i \in 1 .. Len(t) : (s \o t)[Len(s) + i] = t[i]
    OBVIOUS

\* Joining and appending.
LEMMA AppendLaws ==
    ASSUME NEW S, NEW s \in Seq(S), NEW t \in Seq(S), NEW e \in S
    PROVE  /\ Append(t, e) \in Seq(S) /\ Len(Append(t, e)) = Len(t) + 1
           /\ s \o t \in Seq(S)
           /\ s \o Append(t, e) = Append(s \o t, e)
           /\ s \o <<>> = s
           /\ s \o <<e>> = Append(s, e)
<1>1. s \o Append(t, e) = Append(s \o t, e)
    OBVIOUS
<1>2. s \o <<>> = s /\ s \o <<e>> = Append(s, e)
    OBVIOUS
<1> QED
    BY <1>1, <1>2

\* A prefix is one element longer with the next element.
LEMMA PrefixGrows ==
    ASSUME NEW S, NEW s \in Seq(S), NEW k \in Nat, k < Len(s)
    PROVE  /\ SubSeq(s, 1, k) \in Seq(S) /\ Len(SubSeq(s, 1, k)) = k
           /\ \A i \in 1 .. k : SubSeq(s, 1, k)[i] = s[i]
           /\ Append(SubSeq(s, 1, k), s[k + 1]) = SubSeq(s, 1, k + 1)
           /\ s[k + 1] \in S
<1> DEFINE a == Append(SubSeq(s, 1, k), s[k + 1])
           c == SubSeq(s, 1, k + 1)
<1>1. /\ SubSeq(s, 1, k) \in Seq(S) /\ Len(SubSeq(s, 1, k)) = k
      /\ \A i \in 1 .. k : SubSeq(s, 1, k)[i] = s[i]
      /\ s[k + 1] \in S
    OBVIOUS
<1>2. a \in Seq(S) /\ Len(a) = k + 1 /\ \A i \in 1 .. k + 1 : a[i] = s[i]
    BY <1>1
<1>3. c \in Seq(S) /\ Len(c) = k + 1 /\ \A i \in 1 .. k + 1 : c[i] = s[i]
    OBVIOUS
<1> HIDE DEF a, c
<1>4. a = c
    BY <1>2, <1>3, SeqEqual
<1> QED
    BY <1>1, <1>4 DEF a, c

-----------------------------------------------------------------------------
(* The frame parser *)

\* The sizes of a byte and of the CRC's word.
LEMMA WordFacts ==
    /\ Radix \in Nat \ {0} /\ Radix * Radix \in Nat \ {0}
    /\ CrcInit \in Crc16 /\ 0 \in Byte /\ Byte \subseteq Nat /\ Crc16 \subseteq Nat
    /\ \A b \in Byte : b * Radix \in Crc16
<1>1. Radix \in Nat \ {0}
    BY FrameAssumption
<1> DEFINE R == Radix
<1>2. ASSUME NEW r \in Nat \ {0}, NEW b \in 0 .. r - 1
      PROVE  b * r \in 0 .. r * r - 1 /\ r * r \in Nat \ {0}
  <2>1. b * r \in Nat /\ r * r \in Nat /\ r * r # 0
      BY <1>2
  <2>2. r * r - b * r = (r - b) * r
      BY <1>2
  <2>3. (r - b) * r >= 1
      BY <1>2
  <2> QED
      BY <2>1, <2>2, <2>3
<1>3. R * R \in Nat \ {0} /\ 0 \in 0 .. R - 1
    BY <1>1, <1>2
<1>4. \A b \in Byte : b * Radix \in Crc16
    BY <1>1, <1>2 DEF Byte, Crc16
<1> QED
    BY <1>1, <1>3, <1>4 DEF Byte, Crc16, CrcInit

\* One bit of the CRC stays within the word.
LEMMA ShiftOutType ==
    ASSUME NEW crc \in Crc16
    PROVE  ShiftOut(crc) \in Crc16
<1> DEFINE Q == Radix * Radix
<1>1. Q \in Nat \ {0} /\ crc \in Nat /\ crc < Q
    BY WordFacts DEF Crc16
<1> HIDE DEF Q
<1>2. (crc * 2) % Q \in 0 .. Q - 1 /\ (crc < Q \div 2 => crc * 2 \in 0 .. Q - 1)
    BY <1>1
<1>3. (crc * 2) % Q \in Crc16 /\ (crc < Q \div 2 => crc * 2 \in Crc16)
    BY <1>2 DEF Q, Crc16
<1>4. BitXor((crc * 2) % Q, Poly) \in Crc16
    BY <1>3, FrameAssumption
<1>5. Q \div 2 \in Nat
    BY <1>1
<1> QED
    BY <1>1, <1>3, <1>4, <1>5 DEF ShiftOut, Q

\* binary_frame_crc16_update stays within the width of the CRC.
LEMMA Crc16UpdateType ==
    ASSUME NEW crc \in Crc16, NEW byte \in Byte
    PROVE  Crc16Update(crc, byte) \in Crc16
<1> DEFINE first == BitXor(crc, byte * Radix)
           next == [bit \in 1 .. ByteBits |-> [c \in Crc16 |-> ShiftOut(c)]]
<1>1. first \in Crc16 /\ ByteBits \in Nat
    BY FrameAssumption, WordFacts
<1>2. next \in [1 .. ByteBits -> [Crc16 -> Crc16]]
    BY ShiftOutType
<1>3. PICK g \in [0 .. ByteBits -> Crc16] :
          g[0] = first /\ \A i \in 1 .. ByteBits : g[i] = next[i][g[i - 1]]
  <2> HIDE DEF first, next
  <2>1. Iterates(Crc16, first, ByteBits, next)
      BY <1>1, <1>2, Iteration
  <2> QED
      BY <2>1 DEF Iterates
<1>4. g = [bit \in 0 .. ByteBits |-> IF bit = 0 THEN BitXor(crc, byte * Radix)
                                              ELSE ShiftOut(g[bit - 1])]
  <2>1. \A bit \in 1 .. ByteBits : g[bit] = ShiftOut(g[bit - 1])
    <3> TAKE bit \in 1 .. ByteBits
    <3>1. g[bit - 1] \in Crc16
        BY <1>1
    <3> QED
        BY <3>1, <1>3
  <2> QED
      BY <1>1, <1>3, <2>1
<1> DEFINE F == CHOOSE f : f = [bit \in 0 .. ByteBits |->
                                   IF bit = 0 THEN BitXor(crc, byte * Radix)
                                              ELSE ShiftOut(f[bit - 1])]
<1>5. F = [bit \in 0 .. ByteBits |-> IF bit = 0 THEN BitXor(crc, byte * Radix)
                                              ELSE ShiftOut(F[bit - 1])]
    BY <1>4
<1>6. Crc16Update(crc, byte) = F[ByteBits]
    BY DEF Crc16Update, Crc16Table
<1> DEFINE S == {k \in Nat : k <= ByteBits => F[k] \in Crc16}
<1> HIDE DEF F
<1>7. 0 \in S
    BY <1>1, <1>5
<1>8. ASSUME NEW k \in Nat, k \in S PROVE k + 1 \in S
  <2> SUFFICES ASSUME k + 1 <= ByteBits PROVE F[k + 1] \in Crc16
      OBVIOUS
  <2>1. F[k + 1] = ShiftOut(F[k])
      BY <1>1, <1>5
  <2> QED
      BY <1>1, <1>8, <2>1, ShiftOutType
<1> HIDE DEF S
<1>9. ByteBits \in S
    BY <1>1, <1>7, <1>8, NaturalInduction
<1> QED
    BY <1>6, <1>9 DEF S

\* The CRC of a byte sequence, one value per byte: the loop of
\* binary_frame_crc16_ccitt_false.
LEMMA CrcLoop ==
    ASSUME NEW data \in Seq(Byte)
    PROVE  \E g \in [0 .. Len(data) -> Crc16] :
              /\ g[0] = CrcInit
              /\ \A i \in 1 .. Len(data) : g[i] = Crc16Update(g[i - 1], data[i])
              /\ Crc16CcittFalse(data) = g[Len(data)]
<1> DEFINE n == Len(data)
           next == [i \in 1 .. n |-> [c \in Crc16 |-> Crc16Update(c, data[i])]]
<1>1. n \in Nat /\ CrcInit \in Crc16 /\ \A i \in 1 .. n : data[i] \in Byte
    BY WordFacts
<1>2. next \in [1 .. n -> [Crc16 -> Crc16]]
    BY <1>1, Crc16UpdateType
<1>3. PICK g \in [0 .. n -> Crc16] :
          g[0] = CrcInit /\ \A i \in 1 .. n : g[i] = next[i][g[i - 1]]
  <2> DEFINE first == CrcInit
  <2>1. n \in Nat /\ first \in Crc16
      BY <1>1
  <2> HIDE DEF first, next, n
  <2>2. Iterates(Crc16, first, n, next)
      BY <1>2, <2>1, Iteration
  <2> QED
      BY <2>2 DEF first, Iterates
<1>4. \A i \in 1 .. n : g[i] = Crc16Update(g[i - 1], data[i])
  <2> TAKE i \in 1 .. n
  <2>1. g[i - 1] \in Crc16
      BY <1>1
  <2> QED
      BY <2>1, <1>3
<1> DEFINE F == CHOOSE f : f = [i \in 0 .. Len(data) |->
                  IF i = 0 THEN CrcInit ELSE Crc16Update(f[i - 1], data[i])]
<1>5. g = [i \in 0 .. Len(data) |->
              IF i = 0 THEN CrcInit ELSE Crc16Update(g[i - 1], data[i])]
    BY <1>1, <1>3, <1>4
<1>6. F = [i \in 0 .. Len(data) |->
              IF i = 0 THEN CrcInit ELSE Crc16Update(F[i - 1], data[i])]
    BY <1>5
<1>7. Crc16CcittFalse(data) = F[Len(data)]
    BY DEF Crc16CcittFalse
<1> HIDE DEF F
<1> DEFINE S == {k \in Nat : k <= n => F[k] = g[k]}
<1>8. 0 \in S
    BY <1>1, <1>3, <1>6
<1>9. ASSUME NEW k \in Nat, k \in S PROVE k + 1 \in S
  <2> SUFFICES ASSUME k + 1 <= n PROVE F[k + 1] = g[k + 1]
      OBVIOUS
  <2>1. F[k + 1] = Crc16Update(F[k], data[k + 1])
      BY <1>1, <1>6
  <2>2. g[k + 1] = Crc16Update(g[k], data[k + 1])
      BY <1>1, <1>4
  <2> QED
      BY <1>1, <1>9, <2>1, <2>2
<1> HIDE DEF S
<1>10. n \in S
    BY <1>1, <1>8, <1>9, NaturalInduction
<1>11. F[n] = g[n]
    BY <1>10, <1>1 DEF S
<1> QED
    BY <1>3, <1>4, <1>7, <1>11

\* The CRC of a stream can be computed byte by byte.
LEMMA CrcStep ==
    /\ Crc16CcittFalse(<<>>) = CrcInit
    /\ \A data \in Seq(Byte) : Crc16CcittFalse(data) \in Crc16
    /\ \A data \in Seq(Byte), byte \in Byte :
          Crc16CcittFalse(Append(data, byte))
              = Crc16Update(Crc16CcittFalse(data), byte)
<1>1. Crc16CcittFalse(<<>>) = CrcInit
  <2>1. <<>> \in Seq(Byte) /\ Len(<<>>) = 0
      OBVIOUS
  <2> QED
      BY <2>1, CrcLoop
<1>2. \A data \in Seq(Byte) : Crc16CcittFalse(data) \in Crc16
  <2> TAKE data \in Seq(Byte)
  <2>1. Len(data) \in 0 .. Len(data)
      OBVIOUS
  <2> QED
      BY <2>1, CrcLoop
<1>3. ASSUME NEW data \in Seq(Byte), NEW byte \in Byte
      PROVE  Crc16CcittFalse(Append(data, byte))
                 = Crc16Update(Crc16CcittFalse(data), byte)
  <2> DEFINE all == Append(data, byte)
             n == Len(data)
  <2>1. all \in Seq(Byte) /\ Len(all) = n + 1 /\ n \in Nat /\ all[n + 1] = byte
        /\ \A i \in 1 .. n : all[i] = data[i]
      OBVIOUS
  <2>2. PICK f \in [0 .. n -> Crc16] :
            /\ f[0] = CrcInit
            /\ \A i \in 1 .. n : f[i] = Crc16Update(f[i - 1], data[i])
            /\ Crc16CcittFalse(data) = f[n]
      BY CrcLoop
  <2>3. PICK g \in [0 .. Len(all) -> Crc16] :
            /\ g[0] = CrcInit
            /\ \A i \in 1 .. Len(all) : g[i] = Crc16Update(g[i - 1], all[i])
            /\ Crc16CcittFalse(all) = g[Len(all)]
    <3> HIDE DEF all
    <3> QED
        BY <2>1, CrcLoop
  <2> HIDE DEF all, n
  <2> DEFINE S == {k \in Nat : k <= n => g[k] = f[k]}
  <2>4. 0 \in S
      BY <2>2, <2>3
  <2>5. ASSUME NEW k \in Nat, k \in S PROVE k + 1 \in S
    <3> SUFFICES ASSUME k + 1 <= n PROVE g[k + 1] = f[k + 1]
        OBVIOUS
    <3>1. g[k + 1] = Crc16Update(g[k], all[k + 1])
      <4> DEFINE i == k + 1
      <4>1. i \in 1 .. Len(all) /\ i - 1 = k
          BY <2>1
      <4> HIDE DEF i
      <4>2. g[i] = Crc16Update(g[i - 1], all[i])
          BY <4>1, <2>3
      <4>3. g[i] = Crc16Update(g[k], all[i])
          BY <4>1, <4>2
      <4> QED
          BY <4>3 DEF i
    <3>2. f[k + 1] = Crc16Update(f[k], data[k + 1])
        BY <2>1, <2>2
    <3>3. all[k + 1] = data[k + 1]
        BY <2>1
    <3> QED
        BY <2>1, <2>5, <3>1, <3>2, <3>3
  <2> HIDE DEF S
  <2>6. n \in S
      BY <2>1, <2>4, <2>5, NaturalInduction
  <2>7. g[n] = f[n]
      BY <2>1, <2>6 DEF S
  <2>8. g[n + 1] = Crc16Update(g[n], byte)
      BY <2>1, <2>3
  <2> QED
      BY <2>1, <2>2, <2>3, <2>7, <2>8 DEF all
<1> QED
    BY <1>1, <1>2, <1>3

-----------------------------------------------------------------------------
\* The payload length a whole header announces.
Announced(header) == header[HeaderLen - 1] + Radix * header[HeaderLen]

\* The parser is past the magic.
InFrame(p) == p.state \in {"HEADER", "PAYLOAD", "CRC0", "CRC1"}

\* What the parser holds of the frame it is in.
ParserInv(p) ==
    /\ p \in [state : States, header : Seq(Byte), payload : Seq(Byte),
              payload_length : Nat, crc : Crc16, received_crc_low : Byte]
    /\ Len(p.header) <= HeaderLen
    /\ Len(p.payload) <= MaxPayload
    /\ p.state = "HEADER" => Len(p.header) < HeaderLen /\ p.payload = <<>>
    /\ p.state \in {"PAYLOAD", "CRC0", "CRC1"} =>
           /\ Len(p.header) = HeaderLen
           /\ p.payload_length = Announced(p.header)
           /\ p.payload_length <= MaxPayload
    /\ p.state = "PAYLOAD" => Len(p.payload) < p.payload_length
    /\ p.state \in {"CRC0", "CRC1"} => Len(p.payload) = p.payload_length
    /\ InFrame(p) => p.crc = Crc16CcittFalse(p.header \o p.payload)

\* The bytes of the stream since the header opened, the magic included.
Taken(p) ==
    <<Magic0, Magic1>> \o p.header \o p.payload
        \o (IF p.state = "CRC1" THEN <<p.received_crc_low>> ELSE <<>>)

\* The last bytes of the stream are these.
EndsWith(bytes, tail) ==
    /\ Len(tail) <= Len(bytes)
    /\ \A i \in 1 .. Len(tail) : bytes[Len(bytes) - Len(tail) + i] = tail[i]

\* The parser against the stream.
StreamInv ==
    /\ fed \in Seq(Byte) /\ Len(fed) <= MaxWire
    /\ InFrame(frame_parser) => EndsWith(fed, Taken(frame_parser))
    /\ frame_parser.state \in {"MAGIC1", "RESYNC_MAGIC1"} =>
           EndsWith(fed, <<Magic0>>)

\* A frame the format can carry.
Whole == [fields : Seq(Byte), payload : Seq(Byte)]
IsFrame(f) == /\ f \in Whole
              /\ Len(f.fields) = FieldCount /\ Len(f.payload) <= MaxPayload

\* How much of the frame being written has been read.
Written == Len(Encode(frame)) - Len(sending)
\* What is left of the frame being written is the rest of its encoding.
SenderInv ==
    sending # <<>> =>
        /\ IsFrame(frame)
        /\ Written \in 1 .. Len(Encode(frame)) - 1
        /\ sending = SubSeq(Encode(frame), Written + 1, Len(Encode(frame)))

\* A frame that began aligned is followed byte by byte.
AlignedInv ==
    /\ aligned /\ sending # <<>> =>
         /\ Written = 1 => frame_parser.state \in {"MAGIC1", "RESYNC_MAGIC1"}
         /\ Written > 1 => /\ InFrame(frame_parser)
                           /\ Taken(frame_parser) = SubSeq(Encode(frame), 1, Written)
    /\ AlignedFrameDelivered

\* The shortest frame, and the longest stretch a false start can swallow.
Shortest == 2 + HeaderLen + 2
Longest == HeaderLen + MaxPayload + 2
WrittenQuiet == IF sending # <<>> /\ Quiet(frame) THEN Written ELSE 0
Unaligned == ~(aligned /\ sending # <<>>)

\* What was lost fits in what a false start has swallowed.
LossInv ==
    /\ lost \in Nat /\ started \in Nat
    /\ lost + (IF sending # <<>> THEN 1 ELSE 0) <= started
    /\ started <= MaxFrames
    /\ lost <= SwallowBound
    /\ Unaligned /\ InFrame(frame_parser) =>
           lost * Shortest + WrittenQuiet <= Len(Taken(frame_parser)) - 2
    /\ ~aligned /\ sending # <<>> /\ Quiet(frame) =>
           /\ lost * Shortest < Longest
           /\ frame_parser.state \in {"MAGIC1", "RESYNC_MAGIC1"} =>
                  Written > 1 /\ Encode(frame)[Written] = Magic0

\* All of it: the invariant of the parser, the stream and the sender.
FrameInv ==
    /\ ParserInv(frame_parser)
    /\ result \in Results /\ aligned \in BOOLEAN
    /\ StreamInv /\ SenderInv /\ AlignedInv /\ LossInv
    /\ result = "FRAME_READY" => IsFrame(view) /\ EndsWith(fed, Encode(view))

-----------------------------------------------------------------------------

\* Where the parser's fields lie in the bytes it has taken.
LEMMA TakenFacts ==
    ASSUME NEW p, ParserInv(p)
    PROVE  /\ Taken(p) \in Seq(Byte)
           /\ Len(Taken(p)) = 2 + Len(p.header) + Len(p.payload)
                                + (IF p.state = "CRC1" THEN 1 ELSE 0)
           /\ Taken(p)[1] = Magic0 /\ Taken(p)[2] = Magic1
           /\ \A i \in 1 .. Len(p.header) : Taken(p)[2 + i] = p.header[i]
           /\ \A i \in 1 .. Len(p.payload) :
                 Taken(p)[2 + Len(p.header) + i] = p.payload[i]
           /\ p.state = "CRC1" =>
                 Taken(p)[3 + Len(p.header) + Len(p.payload)] = p.received_crc_low
<1> DEFINE m == <<Magic0, Magic1>>
           h == p.header
           q == p.payload
           l == IF p.state = "CRC1" THEN <<p.received_crc_low>> ELSE <<>>
<1>1. m \in Seq(Byte) /\ h \in Seq(Byte) /\ q \in Seq(Byte) /\ l \in Seq(Byte)
    BY FrameAssumption DEF ParserInv
<1>2. Len(m) = 2 /\ m[1] = Magic0 /\ m[2] = Magic1
    OBVIOUS
<1>3. Len(l) = (IF p.state = "CRC1" THEN 1 ELSE 0)
      /\ (p.state = "CRC1" => l[1] = p.received_crc_low)
    OBVIOUS
<1>4. Taken(p) = ((m \o h) \o q) \o l
    BY DEF Taken
<1> HIDE DEF m, h, q, l
<1> DEFINE a == m \o h
           b == a \o q
<1>5. /\ a \in Seq(Byte) /\ Len(a) = Len(m) + Len(h)
      /\ \A i \in 1 .. Len(m) : a[i] = m[i]
      /\ \A i \in 1 .. Len(h) : a[Len(m) + i] = h[i]
    BY <1>1, Concatenation
<1>a. a \in Seq(Byte) /\ q \in Seq(Byte)
    BY <1>1, <1>5
<1> HIDE DEF a
<1>6. /\ b \in Seq(Byte) /\ Len(b) = Len(a) + Len(q)
      /\ \A i \in 1 .. Len(a) : b[i] = a[i]
      /\ \A i \in 1 .. Len(q) : b[Len(a) + i] = q[i]
    BY <1>a, Concatenation
<1>b. b \in Seq(Byte) /\ l \in Seq(Byte)
    BY <1>1, <1>6
<1> HIDE DEF b
<1>7. /\ b \o l \in Seq(Byte) /\ Len(b \o l) = Len(b) + Len(l)
      /\ \A i \in 1 .. Len(b) : (b \o l)[i] = b[i]
      /\ \A i \in 1 .. Len(l) : (b \o l)[Len(b) + i] = l[i]
    BY <1>b, Concatenation
<1>8. Taken(p) = b \o l
    BY <1>4 DEF a, b
<1>9. Len(h) \in Nat /\ Len(q) \in Nat
    BY <1>1
<1>10. Len(a) = 2 + Len(h) /\ Len(b) = 2 + Len(h) + Len(q)
    BY <1>2, <1>5, <1>6, <1>9
<1>11. \A i \in 1 .. Len(b) : Taken(p)[i] = b[i]
    BY <1>7, <1>8
<1>12. \A i \in 1 .. Len(a) : b[i] = a[i]
    BY <1>6
<1>13. Taken(p)[1] = Magic0 /\ Taken(p)[2] = Magic1
    BY <1>2, <1>5, <1>9, <1>10, <1>11, <1>12
<1>14. \A i \in 1 .. Len(h) : Taken(p)[2 + i] = h[i]
    BY <1>2, <1>5, <1>9, <1>10, <1>11, <1>12
<1>15. \A i \in 1 .. Len(q) : Taken(p)[2 + Len(h) + i] = q[i]
  <2>1. \A i \in 1 .. Len(q) : b[Len(a) + i] = q[i]
      BY <1>6
  <2> QED
      BY <2>1, <1>9, <1>10, <1>11
<1>16. p.state = "CRC1" => Taken(p)[3 + Len(h) + Len(q)] = p.received_crc_low
    BY <1>3, <1>7, <1>8, <1>9, <1>10
<1> QED
    BY <1>3, <1>7, <1>8, <1>9, <1>10, <1>13, <1>14, <1>15, <1>16 DEF h, q

\* A CRC or a length on the wire is its low byte, then its high byte.
LEMMA Halves ==
    /\ \A v \in Crc16 : /\ Low(v) \in Byte /\ High(v) \in Byte
                        /\ v = Low(v) + Radix * High(v)
    /\ \A low, high \in Byte : /\ Low(low + Radix * high) = low
                               /\ High(low + Radix * high) = high
                               /\ low + Radix * high \in Nat
<1>1. ASSUME NEW r \in Nat \ {0}, NEW v \in 0 .. r * r - 1
      PROVE  /\ v % r \in 0 .. r - 1 /\ v \div r \in 0 .. r - 1
             /\ v = (v % r) + r * (v \div r)
  <2> DEFINE q == v \div r
             m == v % r
  <2>1. v \in Nat
      BY <1>1
  <2>2. q \in Nat /\ m \in 0 .. r - 1 /\ v = r * q + m
      BY <2>1, <1>1, Z3
  <2> HIDE DEF q, m
  <2>3. ~ (q >= r)
    <3> SUFFICES ASSUME q >= r PROVE FALSE
        OBVIOUS
    <3>1. r * q - r * r = r * (q - r)
        BY <2>2, <1>1
    <3>2. r * (q - r) >= 0
        BY <2>2, <1>1
    <3>3. r * r \in Nat /\ r * q \in Nat
        BY <2>2, <1>1
    <3> QED
        BY <3>1, <3>2, <3>3, <2>2, <1>1
  <2>4. q \in 0 .. r - 1 /\ v = m + r * q
    <3>1. r * q \in Nat
        BY <2>2, <1>1
    <3> QED
        BY <3>1, <2>2, <2>3, <1>1
  <2> QED
      BY <2>2, <2>4 DEF q, m
<1>2. \A v \in Crc16 : /\ Low(v) \in Byte /\ High(v) \in Byte
                       /\ v = Low(v) + Radix * High(v)
    BY <1>1, WordFacts DEF Crc16, Byte, Low, High
<1>3. ASSUME NEW low \in Byte, NEW high \in Byte
      PROVE  /\ Low(low + Radix * high) = low
             /\ High(low + Radix * high) = high
             /\ low + Radix * high \in Nat
  <2>1. high \in Nat /\ low \in 0 .. Radix - 1 /\ Radix \in Nat \ {0}
      BY WordFacts DEF Byte
  <2>2. Radix * high \in Nat
      BY <2>1
  <2> QED
      BY <2>1, <2>2, Digits DEF Low, High
<1> QED
    BY <1>2, <1>3

\* The header and the checked bytes of a frame's encoding.
HeaderOf(f) == f.fields \o <<Low(Len(f.payload)), High(Len(f.payload))>>
Covered(f) == HeaderOf(f) \o f.payload

\* binary_frame_encode, byte by byte: the magic, the header that ends in the
\* payload's length, the payload, and the CRC of what follows the magic.
LEMMA EncodeFacts ==
    ASSUME NEW f, IsFrame(f)
    PROVE  LET n == Len(f.payload)
               w == Encode(f)
               crc == Crc16CcittFalse(Covered(f))
           IN /\ n \in Nat /\ HeaderOf(f) \in Seq(Byte)
              /\ Len(HeaderOf(f)) = HeaderLen
              /\ Announced(HeaderOf(f)) = n
              /\ SubSeq(HeaderOf(f), 1, FieldCount) = f.fields
              /\ Covered(f) \in Seq(Byte) /\ Len(Covered(f)) = HeaderLen + n
              /\ w \in Seq(Byte) /\ Len(w) = HeaderLen + n + 4
              /\ w[1] = Magic0 /\ w[2] = Magic1
              /\ \A i \in 1 .. HeaderLen : w[2 + i] = HeaderOf(f)[i]
              /\ \A i \in 1 .. n : w[2 + HeaderLen + i] = f.payload[i]
              /\ w[HeaderLen + n + 3] = Low(crc) /\ w[HeaderLen + n + 4] = High(crc)
<1> DEFINE n == Len(f.payload)
           w == Encode(f)
           crc == Crc16CcittFalse(Covered(f))
           len == <<Low(n), High(n)>>
           m == <<Magic0, Magic1>>
           t == <<Low(crc), High(crc)>>
           h == HeaderOf(f)
           c == Covered(f)
           mc == m \o c
<1>1. /\ f.fields \in Seq(Byte) /\ f.payload \in Seq(Byte) /\ n \in Nat
      /\ Len(f.fields) = FieldCount /\ n <= MaxPayload
    BY DEF IsFrame, Whole
<1>2. FieldCount = HeaderLen - 2 /\ HeaderLen \in Nat \ {0, 1}
    BY FrameAssumption DEF FieldCount
<1>3. n \in Crc16
  <2> DEFINE Q == Radix * Radix
  <2>1. Q \in Nat /\ MaxPayload \in 0 .. Q - 1
      BY FrameAssumption, WordFacts DEF Crc16
  <2> HIDE DEF Q
  <2>2. n \in 0 .. Q - 1
      BY <1>1, <2>1
  <2> QED
      BY <2>2 DEF Q, Crc16
<1>4. Low(n) \in Byte /\ High(n) \in Byte /\ n = Low(n) + Radix * High(n)
    BY <1>3, Halves
<1>5. len \in Seq(Byte) /\ Len(len) = 2 /\ len[1] = Low(n) /\ len[2] = High(n)
    BY <1>4
<1> HIDE DEF len
<1>6. h = f.fields \o len
    BY DEF HeaderOf, len
<1>7. /\ h \in Seq(Byte) /\ Len(h) = FieldCount + 2
      /\ \A i \in 1 .. FieldCount : h[i] = f.fields[i]
      /\ \A i \in 1 .. 2 : h[FieldCount + i] = len[i]
  <2>1. f.fields \in Seq(Byte) /\ len \in Seq(Byte)
      BY <1>1, <1>5
  <2>2. /\ f.fields \o len \in Seq(Byte)
        /\ Len(f.fields \o len) = Len(f.fields) + Len(len)
        /\ \A i \in 1 .. Len(f.fields) : (f.fields \o len)[i] = f.fields[i]
        /\ \A i \in 1 .. Len(len) : (f.fields \o len)[Len(f.fields) + i] = len[i]
      BY <2>1, Concatenation
  <2> HIDE DEF h
  <2> QED
      BY <2>2, <1>1, <1>5, <1>6
<1>8. Len(h) = HeaderLen
    BY <1>2, <1>7
<1>9. h[HeaderLen - 1] = Low(n) /\ h[HeaderLen] = High(n)
    BY <1>2, <1>5, <1>7
<1>10. Announced(h) = n
    BY <1>4, <1>9 DEF Announced
<1>11. SubSeq(h, 1, FieldCount) = f.fields
  <2> DEFINE s == SubSeq(h, 1, FieldCount)
  <2>1. FieldCount \in 0 .. Len(h)
      BY <1>2, <1>8
  <2> HIDE DEF h
  <2>2. s \in Seq(Byte) /\ Len(s) = FieldCount /\ \A i \in 1 .. FieldCount : s[i] = h[i]
      BY <2>1, <1>7
  <2> HIDE DEF s
  <2>3. \A i \in 1 .. FieldCount : s[i] = f.fields[i]
      BY <2>2, <1>7
  <2>4. s = f.fields
      BY <2>2, <2>3, <1>1, SeqEqual
  <2> QED
      BY <2>4 DEF s
<1> HIDE DEF h
<1>12. c = h \o f.payload
    BY DEF Covered, h
<1>13. /\ c \in Seq(Byte) /\ Len(c) = HeaderLen + n
       /\ \A i \in 1 .. HeaderLen : c[i] = h[i]
       /\ \A i \in 1 .. n : c[HeaderLen + i] = f.payload[i]
  <2>1. h \in Seq(Byte) /\ f.payload \in Seq(Byte)
      BY <1>1, <1>7
  <2>2. /\ h \o f.payload \in Seq(Byte)
        /\ Len(h \o f.payload) = Len(h) + Len(f.payload)
        /\ \A i \in 1 .. Len(h) : (h \o f.payload)[i] = h[i]
        /\ \A i \in 1 .. Len(f.payload) : (h \o f.payload)[Len(h) + i] = f.payload[i]
      BY <2>1, Concatenation
  <2> HIDE DEF c
  <2> QED
      BY <2>2, <1>8, <1>12
<1>14. crc \in Crc16
    BY <1>13, CrcStep
<1>15. t \in Seq(Byte) /\ Len(t) = 2 /\ t[1] = Low(crc) /\ t[2] = High(crc)
    BY <1>14, Halves
<1>16. m \in Seq(Byte) /\ Len(m) = 2 /\ m[1] = Magic0 /\ m[2] = Magic1
    BY FrameAssumption
<1>17. w = mc \o t
    BY DEF Encode, Covered, HeaderOf
<1> HIDE DEF c, m, t, crc
<1>18. /\ mc \in Seq(Byte) /\ Len(mc) = 2 + Len(c)
       /\ \A i \in 1 .. 2 : mc[i] = m[i]
       /\ \A i \in 1 .. Len(c) : mc[2 + i] = c[i]
  <2>1. m \in Seq(Byte) /\ c \in Seq(Byte)
      BY <1>13, <1>16
  <2>2. /\ m \o c \in Seq(Byte) /\ Len(m \o c) = Len(m) + Len(c)
        /\ \A i \in 1 .. Len(m) : (m \o c)[i] = m[i]
        /\ \A i \in 1 .. Len(c) : (m \o c)[Len(m) + i] = c[i]
      BY <2>1, Concatenation
  <2> QED
      BY <2>2, <1>16
<1> HIDE DEF mc
<1>19. /\ w \in Seq(Byte) /\ Len(w) = Len(mc) + 2
       /\ \A i \in 1 .. Len(mc) : w[i] = mc[i]
       /\ \A i \in 1 .. 2 : w[Len(mc) + i] = t[i]
  <2>1. mc \in Seq(Byte) /\ t \in Seq(Byte)
      BY <1>15, <1>18
  <2>2. /\ mc \o t \in Seq(Byte) /\ Len(mc \o t) = Len(mc) + Len(t)
        /\ \A i \in 1 .. Len(mc) : (mc \o t)[i] = mc[i]
        /\ \A i \in 1 .. Len(t) : (mc \o t)[Len(mc) + i] = t[i]
      BY <2>1, Concatenation
  <2> HIDE DEF w
  <2> QED
      BY <2>2, <1>15, <1>17
<1> HIDE DEF w
<1>20. Len(mc) = HeaderLen + n + 2 /\ Len(w) = HeaderLen + n + 4
    BY <1>1, <1>2, <1>13, <1>18, <1>19
<1>21. w[1] = Magic0 /\ w[2] = Magic1
    BY <1>1, <1>2, <1>16, <1>18, <1>19, <1>20
<1>22. \A i \in 1 .. Len(c) : w[2 + i] = c[i]
    BY <1>1, <1>2, <1>13, <1>18, <1>19, <1>20
<1>23. \A i \in 1 .. HeaderLen : w[2 + i] = h[i]
    BY <1>1, <1>2, <1>13, <1>22
<1>24. \A i \in 1 .. n : w[2 + HeaderLen + i] = f.payload[i]
  <2> TAKE i \in 1 .. n
  <2>1. HeaderLen + i \in 1 .. Len(c)
      BY <1>1, <1>2, <1>13
  <2>2. w[2 + (HeaderLen + i)] = c[HeaderLen + i]
      BY <2>1, <1>22
  <2>3. 2 + (HeaderLen + i) = 2 + HeaderLen + i
      BY <1>1, <1>2
  <2> QED
      BY <2>2, <2>3, <1>13
<1>25. w[HeaderLen + n + 3] = Low(crc) /\ w[HeaderLen + n + 4] = High(crc)
    BY <1>1, <1>2, <1>15, <1>19, <1>20
<1> QED
    BY <1>1, <1>7, <1>8, <1>10, <1>11, <1>13, <1>19, <1>20, <1>21, <1>23, <1>24,
       <1>25 DEF h, c, w, crc

-----------------------------------------------------------------------------

\* A byte that goes into the header, the payload or the low half of the CRC is
\* the next byte taken.
LEMMA TakenGrows ==
    ASSUME NEW p, NEW q, ParserInv(p), ParserInv(q), NEW b \in Byte,
           \/ /\ p.state # "CRC1" /\ q.state # "CRC1"
              /\ p.payload = <<>> /\ q.payload = <<>>
              /\ q.header = Append(p.header, b)
           \/ /\ p.state # "CRC1" /\ q.state # "CRC1"
              /\ q.header = p.header /\ q.payload = Append(p.payload, b)
           \/ /\ p.state # "CRC1" /\ q.state = "CRC1"
              /\ q.header = p.header /\ q.payload = p.payload
              /\ q.received_crc_low = b
    PROVE  Taken(q) = Append(Taken(p), b)
<1> DEFINE m == <<Magic0, Magic1>>
           mh == m \o p.header
           mhp == mh \o p.payload
<1>1. m \in Seq(Byte) /\ p.header \in Seq(Byte) /\ p.payload \in Seq(Byte)
    BY FrameAssumption DEF ParserInv
<1>2. p.state # "CRC1" /\ Taken(p) = mhp \o <<>>
    BY DEF Taken
<1>3. Taken(q) = ((m \o q.header) \o q.payload)
                    \o (IF q.state = "CRC1" THEN <<q.received_crc_low>> ELSE <<>>)
    BY DEF Taken
<1> HIDE DEF m
<1>4. mh \in Seq(Byte)
    BY <1>1, Concatenation
<1>5. m \o Append(p.header, b) = Append(mh, b)
  <2>1. m \in Seq(Byte) /\ p.header \in Seq(Byte)
      BY <1>1
  <2> QED
      BY <2>1, AppendLaws
<1> HIDE DEF mh
<1>6. mhp \in Seq(Byte) /\ mh \o Append(p.payload, b) = Append(mhp, b)
    BY <1>1, <1>4, AppendLaws
<1>7. mh \o <<>> = mh /\ Append(mh, b) \in Seq(Byte)
    BY <1>4, AppendLaws
<1> HIDE DEF mhp
<1>8. /\ mhp \o <<>> = mhp /\ mhp \o <<b>> = Append(mhp, b)
      /\ Append(mhp, b) \in Seq(Byte)
    BY <1>6, AppendLaws
<1>9. /\ Append(mhp, b) \o <<>> = Append(mhp, b)
      /\ Append(mh, b) \o <<>> = Append(mh, b)
    BY <1>7, <1>8, AppendLaws
<1>10. CASE /\ p.state # "CRC1" /\ q.state # "CRC1"
            /\ p.payload = <<>> /\ q.payload = <<>>
            /\ q.header = Append(p.header, b)
  <2>1. mhp = mh
      BY <1>7, <1>10 DEF mhp
  <2>2. Taken(q) = (Append(mh, b) \o <<>>) \o <<>>
      BY <1>3, <1>5, <1>10
  <2> QED
      BY <1>2, <1>8, <1>9, <2>1, <2>2
<1>11. CASE /\ p.state # "CRC1" /\ q.state # "CRC1"
            /\ q.header = p.header /\ q.payload = Append(p.payload, b)
  <2>1. Taken(q) = (mh \o Append(p.payload, b)) \o <<>>
      BY <1>3, <1>11 DEF mh
  <2> QED
      BY <1>2, <1>6, <1>8, <1>9, <2>1
<1>12. CASE /\ p.state # "CRC1" /\ q.state = "CRC1"
            /\ q.header = p.header /\ q.payload = p.payload
            /\ q.received_crc_low = b
  <2>1. Taken(q) = mhp \o <<b>>
      BY <1>3, <1>12 DEF mh, mhp
  <2> QED
      BY <1>2, <1>8, <2>1
<1> QED
    BY <1>10, <1>11, <1>12

\* A byte that arrives between two frames: a header opens at the second magic
\* byte and nowhere else, and nothing is delivered.
LEMMA FeedBetween ==
    ASSUME NEW p, ParserInv(p), ~InFrame(p), NEW b \in Byte
    PROVE  LET o == Feed(p, b)
           IN /\ ParserInv(o.p) /\ o.r \in Results /\ o.r # "FRAME_READY"
              /\ InFrame(o.p) => /\ p.state \in {"MAGIC1", "RESYNC_MAGIC1"} /\ b = Magic1
                                 /\ Taken(o.p) = <<Magic0, Magic1>>
              /\ p.state \in {"MAGIC1", "RESYNC_MAGIC1"} /\ b = Magic1 => InFrame(o.p)
              /\ o.p.state \in {"MAGIC1", "RESYNC_MAGIC1"} <=> b = Magic0
<1> DEFINE o == Feed(p, b)
           P == [state : States, header : Seq(Byte), payload : Seq(Byte),
                 payload_length : Nat, crc : Crc16, received_crc_low : Byte]
<1>1. /\ p \in P /\ p.state \in {"IDLE", "MAGIC1", "RESYNC", "RESYNC_MAGIC1"}
      /\ Len(p.header) <= HeaderLen /\ Len(p.payload) <= MaxPayload
    BY DEF ParserInv, InFrame, States
<1>2. Magic0 # Magic1
    BY FrameAssumption
<1>3. /\ Crc16CcittFalse(<<>>) = CrcInit /\ CrcInit \in Crc16 /\ 0 \in Byte
      /\ HeaderLen \in Nat \ {0, 1} /\ MaxPayload \in Nat
    BY CrcStep, WordFacts, FrameAssumption
<1>4. /\ \A q \in P : q.state \in {"IDLE", "MAGIC1", "RESYNC", "RESYNC_MAGIC1"}
              /\ Len(q.header) <= HeaderLen /\ Len(q.payload) <= MaxPayload =>
                   ParserInv(q) /\ ~InFrame(q)
    BY DEF ParserInv, InFrame
<1>5. /\ Reset \in P /\ Reset.state = "IDLE" /\ Reset.header = <<>>
      /\ Reset.payload = <<>> /\ Reset.crc = CrcInit
  <2>1. <<>> \in Seq(Byte) /\ 0 \in Nat /\ "IDLE" \in States
      BY DEF States
  <2> QED
      BY <2>1, <1>3 DEF Reset
<1> HIDE DEF P
<1>6. ParserInv(Reset) /\ ~InFrame(Reset)
  <2>1. Len(Reset.header) = 0 /\ Len(Reset.payload) = 0
      BY <1>5
  <2> QED
      BY <2>1, <1>3, <1>4, <1>5
<1>12. LET q == OpenHeader(p)
       IN ParserInv(q) /\ InFrame(q) /\ q.state = "HEADER" /\ Taken(q) = <<Magic0, Magic1>>
  <2> DEFINE q == OpenHeader(p)
  <2>1. /\ q \in P /\ q.state = "HEADER" /\ q.header = <<>> /\ q.payload = <<>>
        /\ q.crc = CrcInit
      BY <1>1, <1>5 DEF OpenHeader, P, States
  <2> HIDE DEF q
  <2>2. Len(q.header) = 0 /\ Len(q.payload) = 0 /\ q.header \o q.payload = <<>>
      BY <2>1
  <2>3. ParserInv(q) /\ InFrame(q)
      BY <1>3, <2>1, <2>2 DEF ParserInv, InFrame, P
  <2>4. Taken(q) = <<Magic0, Magic1>>
    <3>1. Taken(q) = ((<<Magic0, Magic1>> \o <<>>) \o <<>>) \o <<>>
        BY <2>1 DEF Taken
    <3>2. <<Magic0, Magic1>> \in Seq(Byte)
        BY FrameAssumption
    <3> QED
        BY <3>1, <3>2, AppendLaws
  <2> QED
      BY <2>1, <2>3, <2>4 DEF q
<1>7. \A s \in {"IDLE", "MAGIC1", "RESYNC", "RESYNC_MAGIC1"} :
         LET q == [p EXCEPT !.state = s] IN ParserInv(q) /\ ~InFrame(q) /\ q.state = s
  <2> TAKE s \in {"IDLE", "MAGIC1", "RESYNC", "RESYNC_MAGIC1"}
  <2> DEFINE q == [p EXCEPT !.state = s]
  <2>1. q \in P /\ q.state = s /\ q.header = p.header /\ q.payload = p.payload
      BY <1>1 DEF P, States
  <2> QED
      BY <2>1, <1>1, <1>4
<1>8. CASE p.state = "IDLE"
  <2>1. o = IF b = Magic0 THEN Outcome([p EXCEPT !.state = "MAGIC1"], "CONSUMED")
            ELSE Outcome(p, "TEXT")
      BY <1>8 DEF Feed, FeedIdle
  <2> QED
      BY <2>1, <1>7, <1>8 DEF Outcome, Results
<1>13. ~InFrame(p) /\ \A q, r : LET x == Outcome(q, r) IN x.p = q /\ x.r = r
    BY DEF Outcome
<1>9. CASE p.state = "MAGIC1"
  <2>1. o = CASE b = Magic1 -> Outcome(OpenHeader(p), "CONSUMED")
              [] b = Magic0 -> Outcome(p, "SYNC_ERROR_CONSUMED")
              [] OTHER -> Outcome(Reset, "SYNC_ERROR_TEXT")
      BY <1>9 DEF Feed, FeedMagic1
  <2> HIDE DEF o
  <2>2. CASE b = Magic1
    <3>1. o.p = OpenHeader(p) /\ o.r = "CONSUMED"
        BY <2>1, <2>2, <1>2, <1>13
    <3>2. o.p.state = "HEADER"
        BY <3>1, <1>12
    <3> QED
        BY <3>1, <3>2, <2>2, <1>2, <1>9, <1>12 DEF Results, o
  <2>3. CASE b = Magic0
    <3>1. o.p = p /\ o.r = "SYNC_ERROR_CONSUMED"
        BY <2>1, <2>3, <1>2, <1>13
    <3> QED
        BY <3>1, <2>3, <1>2, <1>9, <1>13 DEF Results, o
  <2>4. CASE b # Magic0 /\ b # Magic1
    <3>1. o.p = Reset /\ o.r = "SYNC_ERROR_TEXT"
        BY <2>1, <2>4, <1>13
    <3> QED
        BY <3>1, <2>4, <1>5, <1>6 DEF Results, o
  <2> QED
      BY <2>2, <2>3, <2>4
<1>10. CASE p.state = "RESYNC"
  <2>1. o = Outcome(IF b = Magic0 THEN [p EXCEPT !.state = "RESYNC_MAGIC1"] ELSE p,
                    "CONSUMED")
      BY <1>10 DEF Feed, FeedResync
  <2> QED
      BY <2>1, <1>7, <1>10 DEF Outcome, Results
<1>11. CASE p.state = "RESYNC_MAGIC1"
  <2>1. o = Outcome(CASE b = Magic1 -> OpenHeader(p)
                      [] b = Magic0 -> p
                      [] OTHER -> [p EXCEPT !.state = "RESYNC"], "CONSUMED")
      BY <1>11 DEF Feed, FeedResyncMagic1
  <2> HIDE DEF o
  <2>5. o.r = "CONSUMED" /\ o.p = CASE b = Magic1 -> OpenHeader(p)
                                    [] b = Magic0 -> p
                                    [] OTHER -> [p EXCEPT !.state = "RESYNC"]
      BY <2>1, <1>13
  <2>2. CASE b = Magic1
    <3>1. o.p = OpenHeader(p)
        BY <2>5, <2>2, <1>2
    <3>2. o.p.state = "HEADER"
        BY <3>1, <1>12
    <3> QED
        BY <3>1, <3>2, <2>5, <2>2, <1>2, <1>11, <1>12 DEF Results, o
  <2>3. CASE b = Magic0
    <3>1. o.p = p
        BY <2>5, <2>3, <1>2
    <3> QED
        BY <3>1, <2>5, <2>3, <1>2, <1>11, <1>13 DEF Results, o
  <2>4. CASE b # Magic0 /\ b # Magic1
    <3>1. o.p = [p EXCEPT !.state = "RESYNC"]
        BY <2>5, <2>4
    <3>2. ParserInv(o.p) /\ ~InFrame(o.p) /\ o.p.state = "RESYNC"
        BY <3>1, <1>7
    <3> QED
        BY <3>2, <2>5, <2>4 DEF Results, o
  <2> QED
      BY <2>2, <2>3, <2>4
<1> QED
    BY <1>1, <1>8, <1>9, <1>10, <1>11

\* The view handed on at a matching CRC: encoded again, it is the bytes taken.
LEMMA DeliveredEncoding ==
    ASSUME NEW p, ParserInv(p), p.state = "CRC1", NEW b \in Byte,
           p.received_crc_low + Radix * b = p.crc
    PROVE  LET f == [fields |-> SubSeq(p.header, 1, FieldCount),
                     payload |-> p.payload]
           IN /\ IsFrame(f) /\ HeaderOf(f) = p.header
              /\ Encode(f) = Append(Taken(p), b)
<1> DEFINE f == [fields |-> SubSeq(p.header, 1, FieldCount), payload |-> p.payload]
           n == Len(p.payload)
           t == Append(Taken(p), b)
           w == Encode(f)
           h == HeaderOf(f)
           N == HeaderLen + n + 4
<1>1. /\ p.header \in Seq(Byte) /\ p.payload \in Seq(Byte) /\ n \in Nat
      /\ Len(p.header) = HeaderLen /\ n = Announced(p.header) /\ n <= MaxPayload
      /\ p.crc \in Crc16 /\ p.crc = Crc16CcittFalse(p.header \o p.payload)
      /\ p.received_crc_low \in Byte
    BY DEF ParserInv, InFrame
<1>2. FieldCount = HeaderLen - 2 /\ HeaderLen \in Nat \ {0, 1}
    BY FrameAssumption DEF FieldCount
<1>3. /\ SubSeq(p.header, 1, FieldCount) \in Seq(Byte)
      /\ Len(SubSeq(p.header, 1, FieldCount)) = FieldCount
      /\ \A i \in 1 .. FieldCount : SubSeq(p.header, 1, FieldCount)[i] = p.header[i]
    BY <1>1, <1>2
<1>4. IsFrame(f) /\ f.fields = SubSeq(p.header, 1, FieldCount) /\ f.payload = p.payload
    BY <1>1, <1>3 DEF IsFrame, Whole
<1>a. /\ Low(n) = p.header[HeaderLen - 1] /\ High(n) = p.header[HeaderLen]
      /\ Low(n) \in Byte /\ High(n) \in Byte
  <2> DEFINE x == p.header[HeaderLen - 1]
             y == p.header[HeaderLen]
  <2>1. x \in Byte /\ y \in Byte
      BY <1>1, <1>2
  <2>2. n = x + Radix * y
      BY <1>1 DEF Announced
  <2> HIDE DEF x, y, n
  <2>3. Low(x + Radix * y) = x /\ High(x + Radix * y) = y
      BY <2>1, Halves
  <2> QED
      BY <2>1, <2>2, <2>3 DEF x, y
<1> HIDE DEF f
<1>5. /\ h \in Seq(Byte) /\ Len(h) = HeaderLen
      /\ \A i \in 1 .. FieldCount : h[i] = p.header[i]
      /\ h[HeaderLen - 1] = Low(n) /\ h[HeaderLen] = High(n)
  <2> DEFINE len == <<Low(n), High(n)>>
  <2>1. h = f.fields \o len
      BY <1>4 DEF HeaderOf
  <2>2. h \in Seq(Byte) /\ Len(h) = HeaderLen
      BY <1>4, EncodeFacts
  <2>3. len \in Seq(Byte) /\ Len(len) = 2 /\ len[1] = Low(n) /\ len[2] = High(n)
    <3> HIDE DEF n
    <3> QED
        BY <1>a
  <2> HIDE DEF len, h
  <2>4. f.fields \in Seq(Byte) /\ len \in Seq(Byte)
      BY <2>3, <1>3, <1>4
  <2>5. /\ \A i \in 1 .. Len(f.fields) : (f.fields \o len)[i] = f.fields[i]
        /\ \A i \in 1 .. Len(len) : (f.fields \o len)[Len(f.fields) + i] = len[i]
      BY <2>4, Concatenation
  <2>6. \A i \in 1 .. FieldCount : h[i] = p.header[i]
      BY <2>1, <2>5, <1>2, <1>3, <1>4
  <2>7. h[HeaderLen - 1] = Low(n) /\ h[HeaderLen] = High(n)
    <3>1. Len(f.fields) = FieldCount /\ 1 \in 1 .. Len(len) /\ 2 \in 1 .. Len(len)
        BY <2>3, <1>3, <1>4
    <3>2. h[FieldCount + 1] = len[1] /\ h[FieldCount + 2] = len[2]
        BY <3>1, <2>1, <2>5
    <3>3. FieldCount + 1 = HeaderLen - 1 /\ FieldCount + 2 = HeaderLen
        BY <1>2
    <3> QED
        BY <3>2, <3>3, <2>3
  <2> QED
      BY <2>2, <2>6, <2>7
<1>6. h = p.header
  <2>3. \A i \in 1 .. HeaderLen : h[i] = p.header[i]
    <3> TAKE i \in 1 .. HeaderLen
    <3>1. i \in 1 .. FieldCount \/ i = HeaderLen - 1 \/ i = HeaderLen
        BY <1>2
    <3> QED
        BY <3>1, <1>a, <1>5
  <2> HIDE DEF h
  <2> QED
      BY <2>3, <1>1, <1>5, SeqEqual
<1>7. Covered(f) = p.header \o p.payload
    BY <1>4, <1>6 DEF Covered
<1>8. Low(p.crc) = p.received_crc_low /\ High(p.crc) = b
    BY <1>1, Halves
<1>9. /\ w \in Seq(Byte) /\ Len(w) = N
      /\ w[1] = Magic0 /\ w[2] = Magic1
      /\ \A i \in 1 .. HeaderLen : w[2 + i] = p.header[i]
      /\ \A i \in 1 .. n : w[2 + HeaderLen + i] = p.payload[i]
      /\ w[HeaderLen + n + 3] = p.received_crc_low /\ w[HeaderLen + n + 4] = b
  <2> HIDE DEF n
  <2>1. LET m == Len(f.payload)
            v == Encode(f)
            crc == Crc16CcittFalse(Covered(f))
        IN /\ v \in Seq(Byte) /\ Len(v) = HeaderLen + m + 4
           /\ v[1] = Magic0 /\ v[2] = Magic1
           /\ \A i \in 1 .. HeaderLen : v[2 + i] = HeaderOf(f)[i]
           /\ \A i \in 1 .. m : v[2 + HeaderLen + i] = f.payload[i]
           /\ v[HeaderLen + m + 3] = Low(crc) /\ v[HeaderLen + m + 4] = High(crc)
      BY <1>4, EncodeFacts
  <2>2. Len(f.payload) = n /\ Crc16CcittFalse(Covered(f)) = p.crc
      BY <1>1, <1>4, <1>7 DEF n
  <2> QED
      BY <2>1, <2>2, <1>4, <1>6, <1>8
<1>10. /\ Taken(p) \in Seq(Byte) /\ Len(Taken(p)) = HeaderLen + n + 3
       /\ Taken(p)[1] = Magic0 /\ Taken(p)[2] = Magic1
       /\ \A i \in 1 .. HeaderLen : Taken(p)[2 + i] = p.header[i]
       /\ \A i \in 1 .. n : Taken(p)[2 + HeaderLen + i] = p.payload[i]
       /\ Taken(p)[3 + HeaderLen + n] = p.received_crc_low
  <2>1. /\ Taken(p) \in Seq(Byte)
        /\ Len(Taken(p)) = 2 + Len(p.header) + Len(p.payload)
                             + (IF p.state = "CRC1" THEN 1 ELSE 0)
        /\ Taken(p)[1] = Magic0 /\ Taken(p)[2] = Magic1
        /\ \A i \in 1 .. Len(p.header) : Taken(p)[2 + i] = p.header[i]
        /\ \A i \in 1 .. Len(p.payload) :
              Taken(p)[2 + Len(p.header) + i] = p.payload[i]
        /\ p.state = "CRC1" =>
              Taken(p)[3 + Len(p.header) + Len(p.payload)] = p.received_crc_low
      BY TakenFacts
  <2>2. Len(Taken(p)) = HeaderLen + n + 3
      BY <2>1, <1>1, <1>2
  <2> QED
      BY <2>1, <2>2, <1>1
<1>11. /\ t \in Seq(Byte) /\ Len(t) = N /\ t[N] = b
       /\ \A i \in 1 .. N - 1 : t[i] = Taken(p)[i]
  <2> DEFINE s == Taken(p)
  <2>1. s \in Seq(Byte) /\ Len(s) = N - 1 /\ N \in Nat
      BY <1>1, <1>2, <1>10
  <2> HIDE DEF s, N
  <2>2. /\ Append(s, b) \in Seq(Byte) /\ Len(Append(s, b)) = N /\ Append(s, b)[N] = b
        /\ \A i \in 1 .. N - 1 : Append(s, b)[i] = s[i]
      BY <2>1
  <2> QED
      BY <2>2 DEF s
<1>b. N \in Nat /\ N - 1 = HeaderLen + n + 3 /\ N >= 4
    BY <1>1, <1>2
<1> HIDE DEF w, t, n
<1>12. \A i \in 1 .. N : w[i] = t[i]
  <2> TAKE i \in 1 .. N
  <2>1. \/ i = 1 \/ i = 2 \/ i - 2 \in 1 .. HeaderLen \/ i - 2 - HeaderLen \in 1 .. n
        \/ i = HeaderLen + n + 3 \/ i = HeaderLen + n + 4
      BY <1>1, <1>2
  <2>2. CASE i = 1 \/ i = 2
    <3>1. i \in 1 .. N - 1
        BY <2>2, <1>b
    <3>2. t[i] = Taken(p)[i]
        BY <3>1, <1>11
    <3> QED
        BY <2>2, <3>2, <1>9, <1>10
  <2>3. CASE i - 2 \in 1 .. HeaderLen
    <3> DEFINE j == i - 2
    <3>1. j \in 1 .. HeaderLen /\ i = 2 + j /\ i \in 1 .. N - 1
        BY <2>3, <1>1, <1>2, <1>b
    <3> HIDE DEF j
    <3>2. w[2 + j] = p.header[j] /\ Taken(p)[2 + j] = p.header[j]
        BY <3>1, <1>9, <1>10
    <3> QED
        BY <3>1, <3>2, <1>11
  <2>4. CASE i - 2 - HeaderLen \in 1 .. n
    <3> DEFINE j == i - 2 - HeaderLen
    <3>1. j \in 1 .. n /\ 2 + HeaderLen + j = i
        BY <2>4, <1>2
    <3>2. 2 + HeaderLen + j \in 1 .. N - 1
        BY <3>1, <1>1, <1>2
    <3> HIDE DEF j
    <3>3. w[2 + HeaderLen + j] = p.payload[j] /\ Taken(p)[2 + HeaderLen + j] = p.payload[j]
        BY <3>1, <1>9, <1>10
    <3> QED
        BY <3>1, <3>2, <3>3, <1>11
  <2>5. CASE i = HeaderLen + n + 3
    <3>1. i = 3 + HeaderLen + n /\ i \in 1 .. N - 1
        BY <2>5, <1>1, <1>2, <1>b
    <3>2. t[i] = Taken(p)[i]
        BY <3>1, <1>11
    <3>3. w[i] = p.received_crc_low
        BY <2>5, <1>9
    <3>4. Taken(p)[i] = p.received_crc_low
        BY <3>1, <1>10
    <3> QED
        BY <3>2, <3>3, <3>4
  <2>6. CASE i = HeaderLen + n + 4
      BY <2>6, <1>9, <1>11
  <2> QED
      BY <2>1, <2>2, <2>3, <2>4, <2>5, <2>6
<1> HIDE DEF N
<1>13. w = t
    BY <1>9, <1>11, <1>12, SeqEqual
<1> QED
    BY <1>4, <1>6, <1>13 DEF f, h, w, t

\* A byte that arrives inside a frame: what the parser holds grows by that
\* byte, the frame is given up for the idle state or for a resynchronisation,
\* or it ends, and then its encoding is what the parser has taken.
LEMMA FeedInside ==
    ASSUME NEW p, ParserInv(p), InFrame(p), NEW b \in Byte
    PROVE  LET o == Feed(p, b)
           IN /\ ParserInv(o.p) /\ o.r \in Results
              /\ InFrame(o.p) => Taken(o.p) = Append(Taken(p), b)
              /\ o.p.state \notin {"MAGIC1", "RESYNC_MAGIC1"}
              /\ o.r = "FRAME_READY" => /\ p.state = "CRC1" /\ ~InFrame(o.p)
                                        /\ IsFrame(o.v)
                                        /\ Encode(o.v) = Append(Taken(p), b)
<1> DEFINE o == Feed(p, b)
           P == [state : States, header : Seq(Byte), payload : Seq(Byte),
                 payload_length : Nat, crc : Crc16, received_crc_low : Byte]
           crc == Crc16Update(p.crc, b)
<1>1. /\ p \in P /\ p.state \in {"HEADER", "PAYLOAD", "CRC0", "CRC1"}
      /\ Len(p.header) <= HeaderLen /\ Len(p.payload) <= MaxPayload
      /\ p.crc = Crc16CcittFalse(p.header \o p.payload)
    BY DEF ParserInv, InFrame
<1>2. /\ p.header \in Seq(Byte) /\ p.payload \in Seq(Byte)
      /\ p.crc \in Crc16 /\ p.received_crc_low \in Byte
      /\ Len(p.header) \in Nat /\ Len(p.payload) \in Nat
    BY <1>1
<1>3. /\ Crc16CcittFalse(<<>>) = CrcInit /\ CrcInit \in Crc16 /\ 0 \in Byte
      /\ HeaderLen \in Nat \ {0, 1} /\ MaxPayload \in Nat /\ Radix \in Nat
      /\ Byte \subseteq Nat
    BY CrcStep, WordFacts, FrameAssumption
<1>4. crc \in Crc16
    BY <1>2, Crc16UpdateType
<1>5. ParserInv(Reset) /\ ~InFrame(Reset) /\ Reset.state = "IDLE"
  <2>1. <<>> \in Seq(Byte) /\ 0 \in Nat /\ "IDLE" \in States /\ Len(<<>>) = 0
      BY DEF States
  <2>2. /\ Reset \in P /\ Reset.state = "IDLE" /\ Reset.header = <<>>
        /\ Reset.payload = <<>> /\ Reset.crc = CrcInit
      BY <2>1, <1>3 DEF Reset
  <2> QED
      BY <2>1, <2>2, <1>3 DEF ParserInv, InFrame
<1>6. \A q, r : LET x == Outcome(q, r) IN x.p = q /\ x.r = r
    BY DEF Outcome
<1>7. CASE p.state = "HEADER"
  <2> DEFINE header == Append(p.header, b)
             length == header[HeaderLen - 1] + Radix * header[HeaderLen]
  <2>1. p.payload = <<>> /\ Len(p.header) < HeaderLen
      BY <1>7 DEF ParserInv
  <2>2. /\ header \in Seq(Byte) /\ Len(header) = Len(p.header) + 1
        /\ p.header \o <<>> = p.header /\ header \o <<>> = header
      BY <1>2, AppendLaws
  <2>3. crc = Crc16CcittFalse(header \o p.payload)
    <3>1. p.crc = Crc16CcittFalse(p.header)
        BY <1>1, <2>1, <2>2
    <3>2. crc = Crc16CcittFalse(header)
        BY <1>2, <3>1, CrcStep
    <3> QED
        BY <3>2, <2>1, <2>2
  <2>4. o = LET q == [p EXCEPT !.header = header, !.crc = crc]
            IN IF Len(header) < HeaderLen THEN Outcome(q, "CONSUMED")
               ELSE IF length > MaxPayload
                 THEN Outcome([q EXCEPT !.state = "RESYNC",
                                        !.payload_length = length], "LENGTH_ERROR")
               ELSE Outcome([q EXCEPT !.state = IF length = 0 THEN "CRC0"
                                                              ELSE "PAYLOAD",
                                      !.payload_length = length], "CONSUMED")
      BY <1>7 DEF Feed, FeedHeader
  <2> HIDE DEF header, length, crc, o
  <2> DEFINE q == [p EXCEPT !.header = header, !.crc = crc]
  <2>5. /\ q \in P /\ q.header = header /\ q.crc = crc /\ q.payload = <<>>
        /\ q.state = "HEADER" /\ q.payload_length = p.payload_length
        /\ q.received_crc_low = p.received_crc_low
      BY <1>1, <1>4, <1>7, <2>1, <2>2
  <2> HIDE DEF q
  <2>6. CASE Len(header) < HeaderLen
    <3>1. o.p = q /\ o.r = "CONSUMED"
        BY <2>4, <2>6, <1>6 DEF q
    <3>2. ParserInv(q) /\ q.state = "HEADER"
        BY <2>1, <2>2, <2>3, <2>5, <2>6, <1>3 DEF ParserInv, InFrame
    <3>3. Taken(q) = Append(Taken(p), b)
        BY <3>2, <2>1, <2>5, <1>7, TakenGrows DEF header
    <3> QED
        BY <3>1, <3>2, <3>3 DEF Results, o
  <2>7. CASE ~(Len(header) < HeaderLen)
    <3>1. Len(header) = HeaderLen
        BY <2>1, <2>2, <2>7, <1>2, <1>3
    <3>2. length = Announced(header)
        BY DEF length, Announced
    <3>3. length \in Nat
      <4>1. header[HeaderLen - 1] \in Byte /\ header[HeaderLen] \in Byte
          BY <2>2, <3>1, <1>3
      <4> QED
          BY <4>1, Halves DEF length
    <3>4. CASE length > MaxPayload
      <4> DEFINE z == [q EXCEPT !.state = "RESYNC", !.payload_length = length]
      <4>1. o.p = z /\ o.r = "LENGTH_ERROR"
          BY <2>4, <2>7, <3>4, <1>6 DEF q
      <4>2. z \in P /\ z.state = "RESYNC" /\ z.header = header /\ z.payload = <<>>
          BY <2>5, <3>3 DEF States
      <4> HIDE DEF z
      <4>3. ParserInv(z) /\ ~InFrame(z)
          BY <4>2, <3>1, <1>3, <2>1, <2>2 DEF ParserInv, InFrame
      <4> QED
          BY <4>1, <4>2, <4>3 DEF Results, o
    <3>5. CASE ~(length > MaxPayload)
      <4> DEFINE st == IF length = 0 THEN "CRC0" ELSE "PAYLOAD"
                 z == [q EXCEPT !.state = st, !.payload_length = length]
      <4>1. o.p = z /\ o.r = "CONSUMED"
          BY <2>4, <2>7, <3>5, <1>6 DEF q
      <4>2. /\ z \in P /\ z.header = header /\ z.payload = <<>> /\ z.crc = crc
            /\ z.state = st /\ z.payload_length = length
          BY <2>5, <3>3 DEF States
      <4> HIDE DEF z
      <4>3. Len(z.payload) = 0
          BY <4>2
      <4>4. ParserInv(z) /\ z.state \in {"CRC0", "PAYLOAD"}
          BY <4>2, <4>3, <3>1, <3>2, <3>3, <3>5, <2>1, <2>3, <1>3 DEF ParserInv, InFrame
      <4>5. Taken(z) = Append(Taken(p), b)
          BY <4>2, <4>4, <2>1, <1>7, TakenGrows DEF header
      <4> QED
          BY <4>1, <4>4, <4>5 DEF Results, o
    <3> QED
        BY <3>4, <3>5
  <2> QED
      BY <2>6, <2>7
<1>8. CASE p.state = "PAYLOAD"
  <2> DEFINE payload == Append(p.payload, b)
             st == IF Len(payload) = p.payload_length THEN "CRC0" ELSE "PAYLOAD"
             z == [p EXCEPT !.payload = payload, !.crc = crc, !.state = st]
  <2>1. /\ Len(p.header) = HeaderLen /\ p.payload_length = Announced(p.header)
        /\ p.payload_length <= MaxPayload /\ Len(p.payload) < p.payload_length
        /\ p.payload_length \in Nat
      BY <1>1, <1>8 DEF ParserInv
  <2>2. /\ payload \in Seq(Byte) /\ Len(payload) = Len(p.payload) + 1
        /\ p.header \o payload = Append(p.header \o p.payload, b)
        /\ p.header \o p.payload \in Seq(Byte)
    <3>1. p.header \in Seq(Byte) /\ p.payload \in Seq(Byte)
        BY <1>2
    <3> DEFINE s == p.header
               v == p.payload
    <3>2. s \in Seq(Byte) /\ v \in Seq(Byte)
        BY <3>1
    <3> HIDE DEF s, v
    <3>3. /\ Append(v, b) \in Seq(Byte) /\ Len(Append(v, b)) = Len(v) + 1
          /\ s \o v \in Seq(Byte) /\ s \o Append(v, b) = Append(s \o v, b)
        BY <3>2, AppendLaws
    <3> QED
        BY <3>3 DEF s, v
  <2>3. crc = Crc16CcittFalse(p.header \o payload)
      BY <1>1, <2>2, CrcStep
  <2>4. o.p = z /\ o.r = "CONSUMED"
      BY <1>8, <1>6 DEF Feed, FeedPayload
  <2> HIDE DEF payload, crc, o
  <2>5. /\ z \in P /\ z.header = p.header /\ z.payload = payload /\ z.crc = crc
        /\ z.state = st /\ z.payload_length = p.payload_length
      BY <1>1, <1>4, <2>2 DEF States
  <2> HIDE DEF z
  <2>6. ParserInv(z) /\ z.state \in {"CRC0", "PAYLOAD"}
    <3>1. z.state = "CRC0" => Len(z.payload) = z.payload_length
        BY <2>5
    <3>2. z.state = "PAYLOAD" => Len(z.payload) < z.payload_length
      <4>1. SUFFICES ASSUME st = "PAYLOAD" PROVE Len(payload) < p.payload_length
          BY <2>5
      <4>2. Len(payload) # p.payload_length
          BY <4>1
      <4> HIDE DEF st
      <4> QED
          BY <4>2, <2>1, <2>2, <1>2
    <3>3. Len(z.payload) <= MaxPayload /\ z.state \in {"CRC0", "PAYLOAD"}
        BY <2>1, <2>2, <2>5, <1>2, <1>3
    <3> QED
        BY <2>1, <2>3, <2>5, <3>1, <3>2, <3>3, <1>3 DEF ParserInv, InFrame
  <2>7. Taken(z) = Append(Taken(p), b)
      BY <2>5, <2>6, <1>8, TakenGrows DEF payload
  <2> QED
      BY <2>4, <2>6, <2>7 DEF Results, o
<1>9. CASE p.state = "CRC0"
  <2> DEFINE z == [p EXCEPT !.received_crc_low = b, !.state = "CRC1"]
  <2>1. o.p = z /\ o.r = "CONSUMED"
      BY <1>9, <1>6 DEF Feed, FeedCrc0
  <2> HIDE DEF o
  <2>2. /\ z \in P /\ z.header = p.header /\ z.payload = p.payload /\ z.crc = p.crc
        /\ z.state = "CRC1" /\ z.payload_length = p.payload_length
        /\ z.received_crc_low = b
      BY <1>1 DEF States
  <2> HIDE DEF z
  <2>3. ParserInv(z)
      BY <2>2, <1>1, <1>9 DEF ParserInv, InFrame
  <2>4. Taken(z) = Append(Taken(p), b)
      BY <2>2, <2>3, <1>9, TakenGrows
  <2> QED
      BY <2>1, <2>2, <2>3, <2>4 DEF Results, o
<1>10. CASE p.state = "CRC1"
  <2> DEFINE f == [fields |-> SubSeq(p.header, 1, FieldCount), payload |-> p.payload]
  <2>1. o = IF p.received_crc_low + Radix * b # p.crc THEN Outcome(Reset, "CRC_ERROR")
            ELSE [p |-> Reset, r |-> "FRAME_READY", v |-> f]
      BY <1>10 DEF Feed, FeedCrc1
  <2> HIDE DEF o, f
  <2>2. CASE p.received_crc_low + Radix * b # p.crc
    <3>1. o.p = Reset /\ o.r = "CRC_ERROR"
        BY <2>1, <2>2, <1>6
    <3> QED
        BY <3>1, <1>5 DEF Results, o
  <2>3. CASE p.received_crc_low + Radix * b = p.crc
    <3>1. o.p = Reset /\ o.r = "FRAME_READY" /\ o.v = f
        BY <2>1, <2>3
    <3>2. IsFrame(f) /\ Encode(f) = Append(Taken(p), b)
        BY <1>10, <2>3, DeliveredEncoding DEF f
    <3> QED
        BY <3>1, <3>2, <1>5, <1>10 DEF Results, o
  <2> QED
      BY <2>2, <2>3
<1> QED
    BY <1>1, <1>7, <1>8, <1>9, <1>10

-----------------------------------------------------------------------------

\* A parser that holds a prefix of a frame's encoding goes on holding it: no
\* byte of the rest is refused, and the last one delivers the frame.
LEMMA FollowsEncoding ==
    ASSUME NEW p, ParserInv(p), InFrame(p), NEW f, IsFrame(f),
           NEW k \in 2 .. Len(Encode(f)) - 1,
           Taken(p) = SubSeq(Encode(f), 1, k)
    PROVE  LET o == Feed(p, Encode(f)[k + 1])
           IN /\ k + 1 < Len(Encode(f)) =>
                    /\ InFrame(o.p)
                    /\ Taken(o.p) = SubSeq(Encode(f), 1, k + 1)
              /\ k + 1 = Len(Encode(f)) => o.r = "FRAME_READY" /\ o.v = f
<1> DEFINE w == Encode(f)
           b == w[k + 1]
           o == Feed(p, b)
           n == Len(f.payload)
           h == HeaderOf(f)
           crc == Crc16CcittFalse(Covered(f))
<1>1. /\ n \in Nat /\ h \in Seq(Byte) /\ Len(h) = HeaderLen /\ Announced(h) = n
      /\ SubSeq(h, 1, FieldCount) = f.fields
      /\ w \in Seq(Byte) /\ Len(w) = HeaderLen + n + 4
      /\ \A i \in 1 .. HeaderLen : w[2 + i] = h[i]
      /\ \A i \in 1 .. n : w[2 + HeaderLen + i] = f.payload[i]
      /\ w[HeaderLen + n + 3] = Low(crc) /\ w[HeaderLen + n + 4] = High(crc)
    BY EncodeFacts
<1>2. /\ f \in Whole /\ n <= MaxPayload /\ f.payload \in Seq(Byte)
      /\ HeaderLen \in Nat \ {0, 1}
    BY FrameAssumption DEF IsFrame, Whole
<1>3. Covered(f) = h \o f.payload /\ Covered(f) \in Seq(Byte)
    BY EncodeFacts DEF Covered
<1>4. crc \in Crc16 /\ crc = Low(crc) + Radix * High(crc)
    BY <1>3, CrcStep, Halves
<1> HIDE DEF w, n, h, crc
<1>5. k \in Nat /\ k >= 2 /\ k < Len(w)
    BY <1>1, <1>2 DEF w
<1>6. /\ Len(SubSeq(w, 1, k)) = k /\ \A i \in 1 .. k : SubSeq(w, 1, k)[i] = w[i]
      /\ Append(SubSeq(w, 1, k), b) = SubSeq(w, 1, k + 1) /\ b \in Byte
  <2>1. w \in Seq(Byte) /\ k \in Nat /\ k < Len(w)
      BY <1>1, <1>5
  <2> QED
      BY <2>1, PrefixGrows
<1>7. Len(Taken(p)) = k /\ \A i \in 1 .. k : Taken(p)[i] = w[i]
    BY <1>6 DEF w
<1> HIDE DEF b
<1>8. /\ p.state \in {"HEADER", "PAYLOAD", "CRC0", "CRC1"}
      /\ p.header \in Seq(Byte) /\ p.payload \in Seq(Byte)
      /\ Len(p.header) \in Nat /\ Len(p.payload) \in Nat
    BY DEF ParserInv, InFrame
<1>9. /\ k = 2 + Len(p.header) + Len(p.payload) + (IF p.state = "CRC1" THEN 1 ELSE 0)
      /\ \A i \in 1 .. Len(p.header) : Taken(p)[2 + i] = p.header[i]
      /\ \A i \in 1 .. Len(p.payload) :
            Taken(p)[2 + Len(p.header) + i] = p.payload[i]
      /\ p.state = "CRC1" =>
            Taken(p)[3 + Len(p.header) + Len(p.payload)] = p.received_crc_low
    BY <1>7, TakenFacts
<1> DEFINE x == Len(p.header)
           y == Len(p.payload)
<1>a. /\ x \in Nat /\ y \in Nat
      /\ p.state # "CRC1" => k = 2 + x + y
      /\ p.state = "CRC1" => k = 3 + x + y
  <2>1. x \in Nat /\ y \in Nat
      BY <1>8
  <2>2. k = 2 + x + y + (IF p.state = "CRC1" THEN 1 ELSE 0)
      BY <1>9
  <2> HIDE DEF x, y
  <2> QED
      BY <2>1, <2>2
<1>b. k >= 2 + x + y
  <2> HIDE DEF x, y
  <2> QED
      BY <1>a
<1>10. InFrame(o.p) => Taken(o.p) = SubSeq(w, 1, k + 1)
  <2>1. InFrame(o.p) => Taken(o.p) = Append(Taken(p), b)
      BY <1>6, FeedInside
  <2> QED
      BY <2>1, <1>6 DEF w
<1>11. Len(p.header) <= HeaderLen /\ \A i \in 1 .. Len(p.header) : p.header[i] = h[i]
  <2>1. Len(p.header) <= HeaderLen
      BY DEF ParserInv
  <2>2. ASSUME NEW i \in 1 .. Len(p.header) PROVE p.header[i] = h[i]
    <3>1. 2 + i \in 1 .. k /\ i \in 1 .. HeaderLen
      <4>1. i \in 1 .. x /\ x <= HeaderLen
          BY <2>1
      <4> HIDE DEF x, y
      <4> QED
          BY <4>1, <1>2, <1>5, <1>a, <1>b
    <3> QED
        BY <3>1, <1>1, <1>7, <1>9
  <2> QED
      BY <2>1, <2>2
<1>12. p.state # "HEADER" =>
          /\ p.header = h /\ Len(p.header) = HeaderLen
          /\ p.payload_length = n /\ Len(p.payload) <= n
          /\ p.state = "PAYLOAD" => Len(p.payload) < n
          /\ p.state # "PAYLOAD" => Len(p.payload) = n
  <2> SUFFICES ASSUME p.state # "HEADER"
               PROVE  /\ p.header = h /\ Len(p.header) = HeaderLen
                      /\ p.payload_length = n /\ Len(p.payload) <= n
                      /\ p.state = "PAYLOAD" => Len(p.payload) < n
                      /\ p.state # "PAYLOAD" => Len(p.payload) = n
      OBVIOUS
  <2>1. /\ Len(p.header) = HeaderLen /\ p.payload_length = Announced(p.header)
        /\ p.state = "PAYLOAD" => Len(p.payload) < p.payload_length
        /\ p.state # "PAYLOAD" => Len(p.payload) = p.payload_length
      BY <1>8 DEF ParserInv
  <2>2. p.header = h
      BY <2>1, <1>1, <1>8, <1>11, SeqEqual
  <2>3. p.payload_length = n
      BY <2>1, <2>2, <1>1
  <2> QED
      BY <2>1, <2>2, <2>3, <1>1, <1>8
<1>13. CASE p.state = "HEADER"
  <2> DEFINE header == Append(p.header, b)
             length == header[HeaderLen - 1] + Radix * header[HeaderLen]
  <2>1. p.payload = <<>> /\ Len(p.header) < HeaderLen /\ Len(p.payload) = 0
      BY <1>13 DEF ParserInv
  <2>2. k + 1 < Len(w)
      BY <2>1, <1>1, <1>2, <1>8, <1>9, <1>13
  <2>3. o = LET q == [p EXCEPT !.header = header, !.crc = Crc16Update(p.crc, b)]
            IN IF Len(header) < HeaderLen THEN Outcome(q, "CONSUMED")
               ELSE IF length > MaxPayload
                 THEN Outcome([q EXCEPT !.state = "RESYNC",
                                        !.payload_length = length], "LENGTH_ERROR")
               ELSE Outcome([q EXCEPT !.state = IF length = 0 THEN "CRC0"
                                                              ELSE "PAYLOAD",
                                      !.payload_length = length], "CONSUMED")
      BY <1>13 DEF Feed, FeedHeader
  <2>4. header \in Seq(Byte) /\ Len(header) = Len(p.header) + 1
        /\ header[Len(p.header) + 1] = b
        /\ \A i \in 1 .. Len(p.header) : header[i] = p.header[i]
      BY <1>6, <1>8
  <2>5. p \in [state : States, header : Seq(Byte), payload : Seq(Byte),
              payload_length : Nat, crc : Crc16, received_crc_low : Byte]
      BY DEF ParserInv
  <2> HIDE DEF header, length, o
  <2>6. CASE Len(header) < HeaderLen
    <3>1. o.p.state = "HEADER"
        BY <2>3, <2>5, <2>6, <1>13 DEF Outcome
    <3> QED
        BY <3>1, <2>2, <1>10, <1>5 DEF InFrame, o, b, w
  <2>7. CASE ~(Len(header) < HeaderLen)
    <3>1. Len(header) = HeaderLen
        BY <2>1, <2>4, <2>7, <1>2, <1>8
    <3>2. b = h[Len(p.header) + 1]
      <4>1. k + 1 = 2 + (Len(p.header) + 1) /\ Len(p.header) + 1 \in 1 .. HeaderLen
          BY <2>1, <1>2, <1>8, <1>9, <1>13
      <4> QED
          BY <4>1, <1>1 DEF b
    <3>3. \A i \in 1 .. HeaderLen : header[i] = h[i]
      <4> TAKE i \in 1 .. HeaderLen
      <4>1. i \in 1 .. Len(p.header) \/ i = Len(p.header) + 1
          BY <3>1, <2>4, <1>8
      <4> QED
          BY <4>1, <3>2, <2>4, <1>11
    <3>4. header = h
        BY <3>1, <3>3, <2>4, <1>1, SeqEqual
    <3>5. length = n
        BY <3>4, <1>1 DEF length, Announced
    <3>6. ~(length > MaxPayload)
        BY <3>5, <1>1, <1>2, FrameAssumption, WordFacts
    <3>7. o.p.state = IF length = 0 THEN "CRC0" ELSE "PAYLOAD"
        BY <2>3, <2>5, <2>7, <3>6 DEF Outcome
    <3> QED
        BY <3>7, <2>2, <1>10, <1>5 DEF InFrame, o, b, w
  <2> QED
      BY <2>6, <2>7
<1>14. CASE p.state = "PAYLOAD"
  <2>1. k + 1 < Len(w)
    <3>1. Len(p.header) = HeaderLen /\ Len(p.payload) <= n
        BY <1>12, <1>14
    <3>2. k = 2 + HeaderLen + Len(p.payload)
        BY <3>1, <1>a, <1>14
    <3>3. Len(w) = HeaderLen + n + 4 /\ y \in Nat /\ n \in Nat /\ y <= n
        BY <3>1, <1>1, <1>8
    <3> HIDE DEF x, y
    <3>4. k = 2 + HeaderLen + y
        BY <3>2 DEF y
    <3> QED
        BY <3>3, <3>4, <1>2
  <2>2. p \in [state : States, header : Seq(Byte), payload : Seq(Byte),
              payload_length : Nat, crc : Crc16, received_crc_low : Byte]
      BY DEF ParserInv
  <2>3. o.p.state \in {"CRC0", "PAYLOAD"}
      BY <2>2, <1>14 DEF Feed, FeedPayload, Outcome
  <2> QED
      BY <2>1, <2>3, <1>10, <1>5 DEF InFrame, b, w
<1>15. CASE p.state = "CRC0"
  <2>1. k + 1 < Len(w)
    <3>1. Len(p.header) = HeaderLen /\ Len(p.payload) <= n
        BY <1>12, <1>15
    <3>2. k = 2 + HeaderLen + Len(p.payload)
        BY <3>1, <1>a, <1>15
    <3>3. Len(w) = HeaderLen + n + 4 /\ y \in Nat /\ n \in Nat /\ y <= n
        BY <3>1, <1>1, <1>8
    <3> HIDE DEF x, y
    <3>4. k = 2 + HeaderLen + y
        BY <3>2 DEF y
    <3> QED
        BY <3>3, <3>4, <1>2
  <2>2. p \in [state : States, header : Seq(Byte), payload : Seq(Byte),
              payload_length : Nat, crc : Crc16, received_crc_low : Byte]
      BY DEF ParserInv
  <2>3. o.p.state = "CRC1"
      BY <2>2, <1>15 DEF Feed, FeedCrc0, Outcome
  <2> QED
      BY <2>1, <2>3, <1>10, <1>5 DEF InFrame, b, w
<1>16. CASE p.state = "CRC1"
  <2>1. k = 3 + HeaderLen + n /\ k + 1 = Len(w)
    <3>1. Len(p.header) = HeaderLen /\ Len(p.payload) = n
        BY <1>12, <1>16
    <3>2. k = 3 + HeaderLen + n
        BY <3>1, <1>a, <1>16
    <3> QED
        BY <3>2, <1>1, <1>2
  <2>2. p.header = h /\ Len(p.payload) = n
      BY <1>12, <1>16
  <2>3. p.payload = f.payload
    <3>1. ASSUME NEW i \in 1 .. n PROVE p.payload[i] = f.payload[i]
      <4>1. 2 + HeaderLen + i \in 1 .. k
          BY <2>1, <1>1, <1>2
      <4>2. Taken(p)[2 + HeaderLen + i] = p.payload[i]
          BY <2>2, <1>9, <1>12, <1>16
      <4> QED
          BY <4>1, <4>2, <1>1, <1>7
    <3>2. Len(f.payload) = n
        BY DEF n
    <3> QED
        BY <3>1, <3>2, <2>2, <1>2, <1>8, SeqEqual
  <2>4. p.crc = crc
      BY <2>2, <2>3, <1>3, <1>16 DEF ParserInv, InFrame, crc
  <2>5. p.received_crc_low = Low(crc)
    <3>1. Taken(p)[3 + HeaderLen + n] = p.received_crc_low
        BY <2>2, <1>9, <1>12, <1>16
    <3>2. k \in 1 .. k /\ k = HeaderLen + n + 3
        BY <2>1, <1>1, <1>2, <1>5
    <3> QED
        BY <3>1, <3>2, <2>1, <1>1, <1>7
  <2>6. b = High(crc)
    <3>1. k + 1 = HeaderLen + n + 4
        BY <2>1, <1>1
    <3> QED
        BY <3>1, <1>1 DEF b
  <2>7. p.received_crc_low + Radix * b = p.crc
      BY <2>4, <2>5, <2>6, <1>4
  <2>8. o.r = "FRAME_READY" /\ o.v = [fields |-> SubSeq(p.header, 1, FieldCount),
                                      payload |-> p.payload]
      BY <2>7, <1>16 DEF Feed, FeedCrc1
  <2>9. o.v = f
    <3>1. o.v = [fields |-> f.fields, payload |-> f.payload]
        BY <2>2, <2>3, <2>8, <1>1
    <3>2. f = [fields |-> f.fields, payload |-> f.payload]
        BY <1>2 DEF Whole
    <3> QED
        BY <3>1, <3>2
  <2> QED
      BY <2>1, <2>8, <2>9 DEF b, w
<1> QED
    BY <1>8, <1>13, <1>14, <1>15, <1>16

-----------------------------------------------------------------------------

\* The window of the last bytes keeps the tail it ends with.
LEMMA EndsWithGrows ==
    ASSUME NEW S, NEW bytes \in Seq(S), NEW tail \in Seq(S), NEW b \in S,
           EndsWith(bytes, tail), NEW n \in Nat, Len(tail) + 1 <= n
    PROVE  EndsWith(LastOf(Append(bytes, b), n), Append(tail, b))
<1> DEFINE all == Append(bytes, b)
           win == LastOf(all, n)
           grown == Append(tail, b)
           m == Len(bytes)
           k == Len(tail)
<1>1. /\ all \in Seq(S) /\ Len(all) = m + 1 /\ m \in Nat /\ all[m + 1] = b
      /\ \A i \in 1 .. m : all[i] = bytes[i]
    OBVIOUS
<1>2. /\ grown \in Seq(S) /\ Len(grown) = k + 1 /\ k \in Nat /\ grown[k + 1] = b
      /\ \A i \in 1 .. k : grown[i] = tail[i]
    OBVIOUS
<1>3. k <= m /\ \A i \in 1 .. k : bytes[m - k + i] = tail[i]
    BY DEF EndsWith
<1> HIDE DEF all, grown, m, k
<1>4. \A i \in 1 .. k + 1 : all[m - k + i] = grown[i]
  <2> TAKE i \in 1 .. k + 1
  <2>1. CASE i = k + 1
    <3>1. m - k + i = m + 1
        BY <2>1, <1>1, <1>2
    <3> QED
        BY <3>1, <2>1, <1>1, <1>2
  <2>2. CASE i # k + 1
    <3>1. i \in 1 .. k /\ m - k + i \in 1 .. m
        BY <2>2, <1>1, <1>2, <1>3
    <3> QED
        BY <3>1, <1>1, <1>2, <1>3
  <2> QED
      BY <2>1, <2>2
<1>5. k + 1 <= n
    BY DEF k
<1>6. CASE m + 1 <= n
  <2>1. win = all
      BY <1>6, <1>1 DEF LastOf
  <2>2. m + 1 - (k + 1) = m - k
      BY <1>1, <1>2
  <2>3. Len(grown) <= Len(all) /\ Len(all) - Len(grown) = m - k
      BY <2>2, <1>1, <1>2, <1>3
  <2>4. EndsWith(all, grown)
      BY <2>3, <1>2, <1>4 DEF EndsWith
  <2> HIDE DEF win
  <2> QED
      BY <2>1, <2>4 DEF win, all, grown
<1>7. CASE ~(m + 1 <= n)
  <2>1. win = SubSeq(all, m + 1 - n + 1, m + 1)
      BY <1>7, <1>1 DEF LastOf
  <2>2. /\ Len(win) = n
        /\ \A i \in 1 .. n : win[i] = all[m + 1 - n + i]
    <3>1. /\ m + 1 - n + 1 \in 1 .. m + 1 /\ n \in Nat
          /\ m + 1 - (m + 1 - n + 1) + 1 = n
          /\ \A i \in 1 .. n : m + 1 - n + 1 + i - 1 = m + 1 - n + i
        BY <1>1, <1>7
    <3> DEFINE z == m + 1 - n + 1
    <3> HIDE DEF win
    <3>2. /\ Len(SubSeq(all, z, m + 1)) = m + 1 - z + 1
          /\ \A i \in 1 .. m + 1 - z + 1 : SubSeq(all, z, m + 1)[i] = all[z + i - 1]
        BY <3>1, <1>1
    <3> QED
        BY <3>1, <3>2, <2>1
  <2> HIDE DEF win
  <2>3. \A i \in 1 .. k + 1 : win[n - (k + 1) + i] = grown[i]
    <3> TAKE i \in 1 .. k + 1
    <3>1. n - (k + 1) + i \in 1 .. n /\ m + 1 - n + (n - (k + 1) + i) = m - k + i
        BY <1>1, <1>2, <1>5
    <3> QED
        BY <3>1, <2>2, <1>4
  <2> QED
      BY <2>2, <2>3, <1>2, <1>5 DEF EndsWith, win, all, grown
<1> QED
    BY <1>1, <1>6, <1>7

\* The window is a sequence of bytes, no longer than a frame can be.
LEMMA WindowType ==
    ASSUME NEW S, NEW bytes \in Seq(S), NEW b \in S, NEW n \in Nat
    PROVE  /\ LastOf(Append(bytes, b), n) \in Seq(S)
           /\ Len(LastOf(Append(bytes, b), n)) <= n
<1> DEFINE all == Append(bytes, b)
           m == Len(bytes)
<1>1. all \in Seq(S) /\ Len(all) = m + 1 /\ m \in Nat
    OBVIOUS
<1> HIDE DEF all, m
<1>2. CASE m + 1 <= n
    BY <1>1, <1>2 DEF LastOf, all
<1>3. CASE ~(m + 1 <= n)
  <2> DEFINE z == m + 1 - n + 1
             win == SubSeq(all, z, m + 1)
  <2>1. z \in 1 .. m + 2 /\ m + 1 - z + 1 = n
      BY <1>1, <1>3
  <2>2. LastOf(all, n) = win
      BY <1>1, <1>3 DEF LastOf
  <2> HIDE DEF z
  <2>3. win \in Seq(S) /\ Len(win) = n
    <3>1. CASE n = 0
      <4>1. z = m + 2
          BY <2>1, <3>1, <1>1
      <4>2. win = <<>>
          BY <4>1, <1>1
      <4>3. <<>> \in Seq(S) /\ Len(<<>>) = 0
          OBVIOUS
      <4> HIDE DEF win
      <4> QED
          BY <4>2, <4>3, <3>1
    <3>2. CASE n # 0
      <4>1. z \in 1 .. m + 1
          BY <2>1, <3>2, <1>1
      <4> QED
          BY <4>1, <2>1, <1>1
    <3> QED
        BY <3>1, <3>2
  <2> HIDE DEF win
  <2> QED
      BY <2>2, <2>3 DEF all
<1> QED
    BY <1>1, <1>2, <1>3

\* A tail is a suffix, in the words of the community module.
LEMMA EndsWithSuffix ==
    ASSUME NEW S, NEW bytes \in Seq(S), NEW tail \in Seq(S), EndsWith(bytes, tail)
    PROVE  IsSuffix(tail, bytes)
<1> DEFINE m == Len(bytes)
           k == Len(tail)
           a == [i \in 1 .. k |-> tail[k - i + 1]]
           c == [i \in 1 .. m |-> bytes[m - i + 1]]
<1>1. m \in Nat /\ k \in Nat /\ k <= m /\ \A i \in 1 .. k : bytes[m - k + i] = tail[i]
    BY DEF EndsWith
<1>2. Reverse(tail) = a /\ Reverse(bytes) = c
    BY DEF Reverse
<1>3. a \in Seq(S) /\ Len(a) = k /\ c \in Seq(S) /\ Len(c) = m
  <2>1. \A i \in 1 .. k : k - i + 1 \in 1 .. k
      BY <1>1
  <2>2. \A i \in 1 .. m : m - i + 1 \in 1 .. m
      BY <1>1
  <2>3. a \in [1 .. k -> S] /\ c \in [1 .. m -> S]
      BY <2>1, <2>2
  <2> QED
      BY <2>3, <1>1
<1>4. \A i \in 1 .. k : a[i] = c[i]
  <2> TAKE i \in 1 .. k
  <2>1. k - i + 1 \in 1 .. k /\ m - k + (k - i + 1) = m - i + 1 /\ i \in 1 .. m
      BY <1>1
  <2> QED
      BY <2>1, <1>1
<1> HIDE DEF a, c, m, k
<1> DEFINE u == SubSeq(a, 1, k)
           v == SubSeq(c, 1, k)
<1>5. u \in Seq(S) /\ Len(u) = k /\ \A i \in 1 .. k : u[i] = a[i]
    BY <1>1, <1>3
<1>6. v \in Seq(S) /\ Len(v) = k /\ \A i \in 1 .. k : v[i] = c[i]
    BY <1>1, <1>3
<1> HIDE DEF u, v
<1>7. u = v
    BY <1>4, <1>5, <1>6, SeqEqual
<1> QED
    BY <1>1, <1>2, <1>3, <1>7 DEF IsSuffix, IsPrefix, u, v

\* What is left of a sequence while it is read element by element.
LEMMA ReadOne ==
    ASSUME NEW S, NEW s \in Seq(S), NEW k \in 0 .. Len(s) - 1
    PROVE  LET t == SubSeq(s, k + 1, Len(s))
           IN /\ Head(t) = s[k + 1] /\ s[k + 1] \in S
              /\ Tail(t) = SubSeq(s, k + 2, Len(s))
              /\ Len(t) = Len(s) - k
              /\ Len(Tail(t)) = Len(s) - (k + 1)
              /\ t # <<>>
              /\ Tail(t) = <<>> <=> k + 1 = Len(s)
<1> DEFINE n == Len(s)
           t == SubSeq(s, k + 1, n)
           u == SubSeq(s, k + 2, n)
<1>1. n \in Nat /\ k \in Nat /\ k < n
    OBVIOUS
<1>2. t \in Seq(S) /\ Len(t) = n - k /\ \A i \in 1 .. n - k : t[i] = s[k + i]
    BY <1>1
<1>3. u \in Seq(S) /\ Len(u) = n - k - 1 /\ \A i \in 1 .. n - k - 1 : u[i] = s[k + 1 + i]
  <2>1. CASE k + 1 = n
    <3>1. u = <<>>
        BY <2>1, <1>1
    <3> QED
        BY <3>1, <2>1, <1>1
  <2>2. CASE k + 1 # n
      BY <2>2, <1>1
  <2> QED
      BY <2>1, <2>2
<1>4. s[k + 1] \in S
    BY <1>1
<1> HIDE DEF t, u, n
<1>5. t # <<>> /\ Head(t) = s[k + 1]
    BY <1>1, <1>2
<1>6. /\ Tail(t) \in Seq(S) /\ Len(Tail(t)) = n - k - 1
      /\ \A i \in 1 .. n - k - 1 : Tail(t)[i] = t[i + 1]
    BY <1>1, <1>2, <1>5
<1>7. \A i \in 1 .. n - k - 1 : Tail(t)[i] = u[i]
  <2> TAKE i \in 1 .. n - k - 1
  <2>1. i + 1 \in 1 .. n - k /\ k + (i + 1) = k + 1 + i
      BY <1>1
  <2> QED
      BY <2>1, <1>2, <1>3, <1>6
<1>8. Tail(t) = u
    BY <1>3, <1>6, <1>7, SeqEqual
<1>9. n - k - 1 = n - (k + 1)
    BY <1>1
<1>a. \A w \in Seq(S) : w = <<>> <=> Len(w) = 0
    BY EmptySeq
<1> DEFINE w == Tail(t)
<1>b. w \in Seq(S) /\ Len(w) = n - k - 1
    BY <1>6
<1> HIDE DEF w
<1>c. w = <<>> <=> n - k - 1 = 0
    BY <1>a, <1>b
<1>10. Tail(t) = <<>> <=> k + 1 = n
    BY <1>c, <1>1 DEF w
<1> QED
    BY <1>2, <1>4, <1>5, <1>6, <1>8, <1>9, <1>10 DEF t, u, n

\* How many frames fit in what a false start swallows.
LEMMA SwallowFacts ==
    /\ Shortest \in Nat /\ Shortest >= 4 /\ Longest \in Nat /\ Longest > 0
    /\ SwallowBound \in Nat
    /\ \A x \in Nat : /\ x * Shortest \in Nat
                      /\ (x + 1) * Shortest = x * Shortest + Shortest
                      /\ x * Shortest < Longest => x + 1 <= SwallowBound
<1>1. ASSUME NEW s \in Nat, NEW l \in Nat, l > 0
      PROVE  /\ (s + l - 1) \div l \in Nat
             /\ \A x \in Nat : /\ x * l \in Nat
                               /\ (x + 1) * l = x * l + l
                               /\ x * l < s => x + 1 <= (s + l - 1) \div l
  <2> DEFINE v == s + l - 1
             q == v \div l
             m == v % l
  <2>1. v \in Nat
      BY <1>1
  <2>2. q \in Nat /\ m \in 0 .. l - 1 /\ v = l * q + m
      BY <2>1, <1>1, Z3
  <2> HIDE DEF q, m
  <2>3. ASSUME NEW x \in Nat
        PROVE  /\ x * l \in Nat
               /\ (x + 1) * l = x * l + l
               /\ x * l < s => x + 1 <= q
    <3>1. x * l \in Nat /\ (x + 1) * l = x * l + l
        BY <1>1
    <3>2. ASSUME x * l < s PROVE x + 1 <= q
      <4>1. ~(q <= x)
        <5> SUFFICES ASSUME q <= x PROVE FALSE
            OBVIOUS
        <5>1. x * l - l * q = l * (x - q)
            BY <2>2, <1>1
        <5>2. l * (x - q) >= 0
            BY <2>2, <1>1
        <5>3. l * q \in Nat
            BY <2>2, <1>1
        <5> QED
            BY <5>1, <5>2, <5>3, <3>1, <3>2, <2>2, <1>1
      <4> QED
          BY <4>1, <2>2
    <3> QED
        BY <3>1, <3>2
  <2> QED
      BY <2>2, <2>3 DEF q
<1>2. Shortest \in Nat /\ Shortest >= 4 /\ Longest \in Nat /\ Longest > 0
    BY FrameAssumption, WordFacts DEF Shortest, Longest
<1>3. SwallowBound = (Longest + Shortest - 1) \div Shortest
    BY DEF SwallowBound, Longest, Shortest
<1> QED
    BY <1>1, <1>2, <1>3

-----------------------------------------------------------------------------

\* The wire is never longer than the window, and an open frame shorter.
LEMMA TakenFits ==
    ASSUME NEW p, ParserInv(p)
    PROVE  /\ MaxWire \in Nat
           /\ Len(Taken(p)) \in Nat /\ Len(Taken(p)) >= 2
           /\ Len(Taken(p)) + 1 <= MaxWire
           /\ InFrame(p) => Len(Taken(p)) - 2 < Longest
<1> DEFINE x == Len(p.header)
           y == Len(p.payload)
           z == IF p.state = "CRC1" THEN 1 ELSE 0
           n == Len(Taken(p))
<1>1. n = 2 + x + y + z
    BY TakenFacts
<1>2. /\ x \in Nat /\ y \in Nat /\ x <= HeaderLen /\ y <= MaxPayload
      /\ HeaderLen \in Nat /\ MaxPayload \in Nat
    BY FrameAssumption, WordFacts DEF ParserInv
<1>3. z \in 0 .. 1
    OBVIOUS
<1> HIDE DEF x, y, z, n
<1>4. n \in Nat /\ n >= 2 /\ n <= HeaderLen + MaxPayload + 3
    BY <1>1, <1>2, <1>3
<1> QED
    BY <1>2, <1>4 DEF n, MaxWire, Longest

\* What one byte does to the parser and to the stream, whoever sent it.
LEMMA TakeStep ==
    ASSUME FrameInv, NEW b \in Byte, Take(b)
    PROVE  /\ ParserInv(frame_parser') /\ result' \in Results /\ StreamInv'
           /\ result' = "FRAME_READY" =>
                 IsFrame(view') /\ EndsWith(fed', Encode(view')) /\ ~InFrame(frame_parser')
                 /\ InFrame(frame_parser)
           /\ InFrame(frame_parser) =>
                 /\ InFrame(frame_parser') =>
                       Taken(frame_parser') = Append(Taken(frame_parser), b)
                 /\ frame_parser'.state \notin {"MAGIC1", "RESYNC_MAGIC1"}
           /\ ~InFrame(frame_parser) =>
                 /\ InFrame(frame_parser') =>
                       /\ frame_parser.state \in {"MAGIC1", "RESYNC_MAGIC1"}
                       /\ b = Magic1
                       /\ Taken(frame_parser') = <<Magic0, Magic1>>
                 /\ frame_parser.state \in {"MAGIC1", "RESYNC_MAGIC1"} /\ b = Magic1
                       => InFrame(frame_parser')
                 /\ frame_parser'.state \in {"MAGIC1", "RESYNC_MAGIC1"} <=> b = Magic0
<1> DEFINE p == frame_parser
           o == Feed(p, b)
<1>1. ParserInv(p) /\ StreamInv
    BY DEF FrameInv
<1>2. /\ frame_parser' = o.p /\ result' = o.r /\ view' = o.v
      /\ fed' = LastOf(Append(fed, b), MaxWire)
    BY DEF Take
<1>3. /\ fed \in Seq(Byte) /\ Len(fed) <= MaxWire
      /\ InFrame(p) => EndsWith(fed, Taken(p))
      /\ p.state \in {"MAGIC1", "RESYNC_MAGIC1"} => EndsWith(fed, <<Magic0>>)
    BY <1>1 DEF StreamInv
<1>4. /\ MaxWire \in Nat /\ MaxWire >= 3 /\ Len(Taken(p)) + 1 <= MaxWire
      /\ Taken(p) \in Seq(Byte)
  <2>1. /\ MaxWire \in Nat /\ Len(Taken(p)) \in Nat /\ Len(Taken(p)) >= 2
        /\ Len(Taken(p)) + 1 <= MaxWire
      BY <1>1, TakenFits
  <2>2. MaxWire >= 3
      BY <2>1
  <2>3. Taken(p) \in Seq(Byte)
      BY <1>1, TakenFacts
  <2> QED
      BY <2>1, <2>2, <2>3
<1>5. fed' \in Seq(Byte) /\ Len(fed') <= MaxWire
    BY <1>2, <1>3, <1>4, WindowType
<1>6. {Magic0, Magic1} \subseteq Byte /\ Magic0 # Magic1
    BY FrameAssumption
<1>7. /\ \A tail \in Seq(Byte) : EndsWith(fed, tail) /\ Len(tail) + 1 <= MaxWire =>
            EndsWith(fed', Append(tail, b))
    BY <1>2, <1>3, <1>4, EndsWithGrows
<1>8. EndsWith(fed', <<b>>)
  <2> DEFINE e == <<>>
  <2>1. EndsWith(fed, e) /\ e \in Seq(Byte) /\ Len(e) = 0
      BY <1>3 DEF EndsWith
  <2>2. Append(e, b) = <<b>>
      OBVIOUS
  <2> HIDE DEF e
  <2>3. Len(e) + 1 <= MaxWire
      BY <2>1, <1>4
  <2>4. EndsWith(fed', Append(e, b))
      BY <2>1, <2>3, <1>7
  <2> QED
      BY <2>2, <2>4
<1> HIDE DEF o
<1>9. CASE InFrame(p)
  <2>1. /\ ParserInv(o.p) /\ o.r \in Results
        /\ InFrame(o.p) => Taken(o.p) = Append(Taken(p), b)
        /\ o.p.state \notin {"MAGIC1", "RESYNC_MAGIC1"}
        /\ o.r = "FRAME_READY" => /\ p.state = "CRC1" /\ ~InFrame(o.p)
                                  /\ IsFrame(o.v)
                                  /\ Encode(o.v) = Append(Taken(p), b)
      BY <1>1, <1>9, FeedInside DEF o
  <2>2. EndsWith(fed', Append(Taken(p), b))
      BY <1>3, <1>4, <1>7, <1>9
  <2>3. StreamInv'
      BY <2>1, <2>2, <1>2, <1>5 DEF StreamInv
  <2> QED
      BY <2>1, <2>2, <2>3, <1>2, <1>9
<1>10. CASE ~InFrame(p)
  <2>1. /\ ParserInv(o.p) /\ o.r \in Results /\ o.r # "FRAME_READY"
        /\ InFrame(o.p) => /\ p.state \in {"MAGIC1", "RESYNC_MAGIC1"} /\ b = Magic1
                           /\ Taken(o.p) = <<Magic0, Magic1>>
        /\ p.state \in {"MAGIC1", "RESYNC_MAGIC1"} /\ b = Magic1 => InFrame(o.p)
        /\ o.p.state \in {"MAGIC1", "RESYNC_MAGIC1"} <=> b = Magic0
      BY <1>1, <1>10, FeedBetween DEF o
  <2>2. ASSUME InFrame(o.p) PROVE EndsWith(fed', Taken(o.p))
    <3> DEFINE e == <<Magic0>>
    <3>1. EndsWith(fed, e) /\ b = Magic1 /\ Taken(o.p) = <<Magic0, Magic1>>
        BY <2>1, <2>2, <1>3
    <3>2. e \in Seq(Byte) /\ Len(e) = 1 /\ Append(e, b) = <<Magic0, b>>
      <4>1. e \in Seq(Byte) /\ Len(e) = 1
          BY <1>6
      <4>2. Append(e, b) = <<Magic0, b>>
        <5> DEFINE u == <<Magic0, b>>
        <5>1. u \in Seq(Byte) /\ Len(u) = 2 /\ u[1] = Magic0 /\ u[2] = b
            BY <1>6
        <5>2. e[1] = Magic0
            OBVIOUS
        <5> HIDE DEF e, u
        <5>3. /\ Append(e, b) \in Seq(Byte) /\ Len(Append(e, b)) = 2
              /\ Append(e, b)[1] = Magic0 /\ Append(e, b)[2] = b
          <6>1. /\ Append(e, b) \in Seq(Byte) /\ Len(Append(e, b)) = Len(e) + 1
                /\ Append(e, b)[Len(e) + 1] = b
                /\ \A i \in 1 .. Len(e) : Append(e, b)[i] = e[i]
              BY <4>1
          <6> QED
              BY <6>1, <4>1, <5>2
        <5>4. \A i \in 1 .. 2 : Append(e, b)[i] = u[i]
            BY <5>1, <5>3
        <5>5. Append(e, b) = u
            BY <5>1, <5>3, <5>4, SeqEqual
        <5> QED
            BY <5>5 DEF u
      <4> QED
          BY <4>1, <4>2
    <3> HIDE DEF e
    <3>3. Len(e) + 1 <= MaxWire
        BY <3>2, <1>4
    <3>4. EndsWith(fed', Append(e, b))
        BY <3>1, <3>2, <3>3, <1>7
    <3> QED
        BY <3>1, <3>2, <3>4
  <2>3. o.p.state \in {"MAGIC1", "RESYNC_MAGIC1"} => EndsWith(fed', <<Magic0>>)
      BY <2>1, <1>8
  <2>4. StreamInv'
      BY <2>2, <2>3, <1>2, <1>5 DEF StreamInv
  <2> QED
      BY <2>1, <2>4, <1>2, <1>10
<1> QED
    BY <1>9, <1>10

\* The parser between two frames, all its counters at rest.
LEMMA FrameInitInv == FrameInit => FrameInv
<1> SUFFICES ASSUME FrameInit PROVE FrameInv
    OBVIOUS
<1>1. /\ frame_parser = Reset /\ result = "TEXT" /\ view = NoFrame /\ sending = <<>>
      /\ frame = NoFrame /\ aligned = FALSE /\ lost = 0 /\ noise = 0 /\ started = 0
      /\ fed = <<>>
    BY DEF FrameInit
<1>2. <<>> \in Seq(Byte) /\ Len(<<>>) = 0 /\ 0 \in Byte /\ CrcInit \in Crc16
      /\ MaxWire \in Nat /\ HeaderLen \in Nat /\ MaxPayload \in Nat /\ MaxFrames \in Nat
    BY FrameAssumption, WordFacts DEF MaxWire
<1>3. /\ Reset \in [state : States, header : Seq(Byte), payload : Seq(Byte),
                    payload_length : Nat, crc : Crc16, received_crc_low : Byte]
      /\ Reset.state = "IDLE" /\ Reset.header = <<>> /\ Reset.payload = <<>>
  <2>1. 0 \in Nat /\ "IDLE" \in States
      BY DEF States
  <2> QED
      BY <2>1, <1>2 DEF Reset
<1>4. ParserInv(Reset) /\ ~InFrame(Reset)
    BY <1>2, <1>3 DEF ParserInv, InFrame
<1>5. StreamInv
    BY <1>1, <1>2, <1>3, <1>4 DEF StreamInv
<1>6. SenderInv /\ AlignedInv
    BY <1>1 DEF SenderInv, AlignedInv, AlignedFrameDelivered
<1>7. LossInv
  <2>1. SwallowBound \in Nat
      BY SwallowFacts
  <2> QED
      BY <2>1, <1>1, <1>2, <1>4 DEF LossInv
<1> QED
    BY <1>1, <1>4, <1>5, <1>6, <1>7 DEF FrameInv, Results

\* The frame being written, one byte further on.
LEMMA SenderStep ==
    ASSUME SenderInv, sending # <<>>
    PROVE  LET w == Encode(frame)
           IN /\ w \in Seq(Byte) /\ Len(w) \in Nat /\ Len(w) >= Shortest
              /\ w[1] = Magic0 /\ w[2] = Magic1
              /\ Written \in 1 .. Len(w) - 1
              /\ Head(sending) = w[Written + 1] /\ w[Written + 1] \in Byte
              /\ Tail(sending) = SubSeq(w, Written + 2, Len(w))
              /\ Len(w) - Len(Tail(sending)) = Written + 1
              /\ Tail(sending) = <<>> <=> Written + 1 = Len(w)
<1> DEFINE w == Encode(frame)
           n == Len(w)
           k == Written
<1>1. /\ IsFrame(frame) /\ k \in 1 .. n - 1 /\ sending = SubSeq(w, k + 1, n)
    BY DEF SenderInv
<1>2. /\ w \in Seq(Byte) /\ n = HeaderLen + Len(frame.payload) + 4
      /\ Len(frame.payload) \in Nat /\ w[1] = Magic0 /\ w[2] = Magic1
    BY <1>1, EncodeFacts
<1>3. n \in Nat /\ n >= Shortest /\ k \in Nat
    BY <1>1, <1>2, FrameAssumption DEF Shortest
<1> HIDE DEF w, k
<1>4. w \in Seq(Byte) /\ k \in 0 .. Len(w) - 1
    BY <1>1, <1>2, <1>3
<1>5. LET t == SubSeq(w, k + 1, Len(w))
      IN /\ Head(t) = w[k + 1] /\ w[k + 1] \in Byte
         /\ Tail(t) = SubSeq(w, k + 2, Len(w))
         /\ Len(t) = Len(w) - k
         /\ Len(Tail(t)) = Len(w) - (k + 1)
         /\ t # <<>>
         /\ Tail(t) = <<>> <=> k + 1 = Len(w)
    BY <1>4, ReadOne
<1>6. n - (n - (k + 1)) = k + 1
    BY <1>3
<1> QED
    BY <1>1, <1>2, <1>3, <1>5, <1>6 DEF w, k

\* Noise and an abandoned transfer forgive what was lost.
LEMMA NoiseInv ==
    ASSUME FrameInv, NEW b \in NoiseBytes, Noise(b)
    PROVE  FrameInv'
<1>1. b \in Byte
    BY FrameAssumption
<1>2. /\ sending = <<>> /\ sending' = <<>> /\ lost' = 0 /\ aligned' = FALSE
      /\ frame' = frame /\ started' = started /\ Take(b)
    BY DEF Noise
<1>3. /\ ParserInv(frame_parser') /\ result' \in Results /\ StreamInv'
      /\ result' = "FRAME_READY" => IsFrame(view') /\ EndsWith(fed', Encode(view'))
    BY <1>1, <1>2, TakeStep
<1>4. SenderInv' /\ AlignedInv'
    BY <1>2 DEF SenderInv, AlignedInv, AlignedFrameDelivered
<1>5. LossInv'
  <2>1. Len(Taken(frame_parser')) \in Nat /\ Len(Taken(frame_parser')) >= 2
      BY <1>3, TakenFits
  <2>2. lost \in Nat /\ started \in Nat /\ lost + 0 <= started /\ started <= MaxFrames
      BY <1>2 DEF FrameInv, LossInv
  <2>3. SwallowBound \in Nat /\ 0 * Shortest = 0
      BY SwallowFacts
  <2>4. WrittenQuiet' = 0
      BY <1>2 DEF WrittenQuiet
  <2>5. 0 * Shortest + 0 <= Len(Taken(frame_parser')) - 2
      BY <2>1, <2>3
  <2> QED
      BY <2>2, <2>3, <2>4, <2>5, <1>2 DEF LossInv
<1> QED
    BY <1>2, <1>3, <1>4, <1>5 DEF FrameInv

\* A frame broken off leaves the parser where it is.
LEMMA TruncateInv ==
    ASSUME FrameInv, Truncate
    PROVE  FrameInv'
<1>1. /\ sending' = <<>> /\ lost' = 0 /\ aligned' = FALSE
      /\ frame_parser' = frame_parser /\ result' = result /\ view' = view
      /\ frame' = frame /\ started' = started /\ fed' = fed
    BY DEF Truncate
<1>2. /\ ParserInv(frame_parser) /\ result \in Results /\ StreamInv /\ LossInv
      /\ result = "FRAME_READY" => IsFrame(view) /\ EndsWith(fed, Encode(view))
    BY DEF FrameInv
<1>3. StreamInv'
    BY <1>1, <1>2 DEF StreamInv
<1>4. SenderInv' /\ AlignedInv'
    BY <1>1 DEF SenderInv, AlignedInv, AlignedFrameDelivered
<1>5. LossInv'
  <2>1. Len(Taken(frame_parser)) \in Nat /\ Len(Taken(frame_parser)) >= 2
      BY <1>2, TakenFits
  <2>2. started \in Nat /\ started <= MaxFrames
      BY <1>2 DEF LossInv
  <2>3. SwallowBound \in Nat /\ 0 * Shortest = 0
      BY SwallowFacts
  <2>4. WrittenQuiet' = 0
      BY <1>1 DEF WrittenQuiet
  <2>5. 0 * Shortest + 0 <= Len(Taken(frame_parser)) - 2
      BY <2>1, <2>3
  <2> QED
      BY <2>2, <2>3, <2>4, <2>5, <1>1 DEF LossInv
<1> QED
    BY <1>1, <1>2, <1>3, <1>4, <1>5 DEF FrameInv

\* A frame that begins between frames is aligned; one that begins inside a
\* false start is charged to the bytes that start still wants.
LEMMA BeginInv ==
    ASSUME FrameInv, NEW f \in Frames, Begin(f)
    PROVE  FrameInv'
<1> DEFINE w == Encode(f)
           n == Len(w)
           p == frame_parser
<1>1. IsFrame(f)
    BY FrameAssumption DEF IsFrame, Whole
<1>2. /\ w \in Seq(Byte) /\ n = HeaderLen + Len(f.payload) + 4
      /\ Len(f.payload) \in Nat /\ w[1] = Magic0 /\ w[2] = Magic1
    BY <1>1, EncodeFacts
<1>3. n \in Nat /\ n >= 4 /\ Magic0 \in Byte /\ Magic0 # Magic1
    BY <1>2, FrameAssumption
<1>4. /\ sending = <<>> /\ started < MaxFrames /\ started' = started + 1
      /\ frame' = f /\ aligned' = BetweenFrames(p) /\ Take(Head(w))
      /\ sending' = Tail(w) /\ lost' = lost
    BY DEF Begin
<1> HIDE DEF w
<1>5. /\ Head(w) = Magic0 /\ Tail(w) = SubSeq(w, 2, n) /\ Len(Tail(w)) = n - 1
      /\ Tail(w) # <<>>
  <2>1. Tail(w) = SubSeq(w, 2, n) /\ Len(Tail(w)) = n - 1 /\ Head(w) = w[1]
      BY <1>2, <1>3
  <2>2. n - 1 # 0
    <3> HIDE DEF n
    <3> QED
        BY <1>3
  <2>3. Len(<<>>) = 0
      OBVIOUS
  <2>4. Tail(w) # <<>>
      BY <2>1, <2>2, <2>3
  <2> QED
      BY <2>1, <2>4, <1>2
<1>6. /\ ParserInv(frame_parser') /\ result' \in Results /\ StreamInv'
      /\ result' = "FRAME_READY" => IsFrame(view') /\ EndsWith(fed', Encode(view'))
      /\ InFrame(p) =>
            /\ InFrame(frame_parser') => Taken(frame_parser') = Append(Taken(p), Magic0)
            /\ frame_parser'.state \notin {"MAGIC1", "RESYNC_MAGIC1"}
      /\ ~InFrame(p) => frame_parser'.state \in {"MAGIC1", "RESYNC_MAGIC1"}
  <2>1. Take(Magic0)
      BY <1>4, <1>5
  <2> QED
      BY <2>1, <1>3, TakeStep
<1>7. Written' = 1
  <2>1. Written' = n - (n - 1)
      BY <1>4, <1>5 DEF Written, w
  <2> QED
      BY <2>1, <1>3
<1>8. SenderInv'
  <2>1. 1 \in 1 .. n - 1
      BY <1>3
  <2> QED
      BY <2>1, <1>1, <1>4, <1>5, <1>7 DEF SenderInv, w
<1>9. aligned' \in BOOLEAN /\ (aligned' <=> ~InFrame(p))
  <2>1. p.state \in States
      BY DEF FrameInv, ParserInv
  <2>2. BetweenFrames(p) <=> ~InFrame(p)
      BY <2>1 DEF BetweenFrames, InFrame, States
  <2>3. BetweenFrames(p) \in BOOLEAN
      BY DEF BetweenFrames
  <2> QED
      BY <2>2, <2>3, <1>4, Zenon
<1>10. AlignedInv'
  <2>1. AlignedFrameDelivered'
      BY <1>4, <1>5 DEF AlignedFrameDelivered
  <2>2. aligned' => frame_parser'.state \in {"MAGIC1", "RESYNC_MAGIC1"}
      BY <1>6, <1>9
  <2>3. ~(Written' > 1)
      BY <1>7
  <2> QED
      BY <2>1, <2>2, <2>3 DEF AlignedInv
<1>11. LossInv'
  <2>1. /\ lost \in Nat /\ started \in Nat /\ lost + 0 <= started /\ lost <= SwallowBound
        /\ InFrame(p) => lost * Shortest + 0 <= Len(Taken(p)) - 2
      BY <1>4 DEF FrameInv, LossInv, Unaligned, WrittenQuiet
  <2>2. lost + 1 <= started' /\ started' <= MaxFrames /\ started' \in Nat
      BY <2>1, <1>4, FrameAssumption
  <2>3. CASE ~InFrame(p)
    <3>1. aligned' /\ sending' # <<>>
        BY <2>3, <1>4, <1>5, <1>9
    <3> QED
        BY <3>1, <2>1, <2>2, <1>4 DEF LossInv, Unaligned
  <2>4. CASE InFrame(p)
    <3>1. /\ Len(Taken(p)) \in Nat /\ Len(Taken(p)) - 2 < Longest
      <4>1. ParserInv(p)
          BY DEF FrameInv
      <4> QED
          BY <4>1, <2>4, TakenFits
    <3>2. lost * Shortest \in Nat /\ Longest \in Nat
        BY <2>1, SwallowFacts
    <3>3. lost * Shortest < Longest
        BY <3>1, <3>2, <2>1, <2>4
    <3>4. WrittenQuiet' \in {0, 1}
        BY <1>7 DEF WrittenQuiet
    <3>5. InFrame(frame_parser') => Len(Taken(frame_parser')) = Len(Taken(p)) + 1
      <4>1. Taken(p) \in Seq(Byte)
          BY TakenFacts DEF FrameInv
      <4>2. Len(Append(Taken(p), Magic0)) = Len(Taken(p)) + 1
          BY <4>1, <1>3
      <4> QED
          BY <4>2, <2>4, <1>6
    <3>6. InFrame(frame_parser') =>
              lost * Shortest + WrittenQuiet' <= Len(Taken(frame_parser')) - 2
        BY <3>1, <3>2, <3>4, <3>5, <2>1, <2>4
    <3>7. frame_parser'.state \notin {"MAGIC1", "RESYNC_MAGIC1"}
        BY <2>4, <1>6
    <3> QED
        BY <3>3, <3>6, <3>7, <2>1, <2>2, <1>4, <1>5 DEF LossInv
  <2> QED
      BY <2>3, <2>4
<1> QED
    BY <1>6, <1>8, <1>9, <1>10, <1>11 DEF FrameInv

\* One more byte of the frame being written.  An aligned frame is followed; the
\* bytes of any other one use up what a false start may swallow.
LEMMA ContinueInv ==
    ASSUME FrameInv, Continue
    PROVE  FrameInv'
<1> DEFINE w == Encode(frame)
           n == Len(w)
           k == Written
           b == w[k + 1]
           p == frame_parser
           q == frame_parser'
<1>1. /\ ParserInv(p) /\ SenderInv /\ AlignedInv /\ LossInv /\ aligned \in BOOLEAN
    BY DEF FrameInv
<1>2. /\ sending # <<>> /\ Take(Head(sending)) /\ sending' = Tail(sending)
      /\ lost' = IF result' = "FRAME_READY" \/ ~Quiet(frame) THEN 0
                 ELSE IF sending' = <<>> THEN lost + 1
                 ELSE lost
      /\ frame' = frame /\ aligned' = aligned /\ started' = started
    BY DEF Continue
<1>3. /\ w \in Seq(Byte) /\ n \in Nat /\ n >= Shortest /\ w[1] = Magic0 /\ w[2] = Magic1
      /\ k \in 1 .. n - 1 /\ Head(sending) = b /\ b \in Byte
      /\ Tail(sending) = SubSeq(w, k + 2, n)
      /\ n - Len(Tail(sending)) = k + 1
      /\ Tail(sending) = <<>> <=> k + 1 = n
    BY <1>1, <1>2, SenderStep
<1>4. IsFrame(frame)
    BY <1>1, <1>2 DEF SenderInv
<1>5. Written' = k + 1
    BY <1>2, <1>3 DEF Written
<1> HIDE DEF w, k, b
<1>6. k \in Nat /\ k >= 1 /\ k < n /\ Shortest >= 4 /\ Shortest \in Nat
    BY <1>3, SwallowFacts
<1>a. n \in Nat /\ n >= 4
  <2>1. n \in Nat /\ n >= Shortest
      BY <1>3
  <2> HIDE DEF n
  <2> QED
      BY <2>1, <1>6
<1>7. sending' = <<>> <=> k + 1 = n
    BY <1>2, <1>3
<1>8. Take(b)
    BY <1>2, <1>3
<1>9. /\ ParserInv(q) /\ result' \in Results /\ StreamInv'
      /\ result' = "FRAME_READY" =>
            IsFrame(view') /\ EndsWith(fed', Encode(view')) /\ ~InFrame(q) /\ InFrame(p)
      /\ InFrame(p) =>
            /\ InFrame(q) => Taken(q) = Append(Taken(p), b)
            /\ q.state \notin {"MAGIC1", "RESYNC_MAGIC1"}
      /\ ~InFrame(p) =>
            /\ InFrame(q) => /\ p.state \in {"MAGIC1", "RESYNC_MAGIC1"}
                             /\ b = Magic1
                             /\ Taken(q) = <<Magic0, Magic1>>
            /\ p.state \in {"MAGIC1", "RESYNC_MAGIC1"} /\ b = Magic1 => InFrame(q)
            /\ q.state \in {"MAGIC1", "RESYNC_MAGIC1"} <=> b = Magic0
    BY <1>3, <1>8, TakeStep
<1>10. SenderInv'
  <2>1. sending' # <<>> => k + 1 \in 1 .. n - 1
      BY <1>6, <1>7
  <2>2. k + 2 = (k + 1) + 1
      BY <1>6
  <2> QED
      BY <2>1, <2>2, <1>2, <1>3, <1>4, <1>5 DEF SenderInv, w
<1>11. /\ lost \in Nat /\ started \in Nat /\ lost + 1 <= started /\ started <= MaxFrames
       /\ lost <= SwallowBound
    BY <1>1, <1>2 DEF LossInv
<1>12. /\ lost * Shortest \in Nat /\ 0 * Shortest = 0
       /\ (lost + 1) * Shortest = lost * Shortest + Shortest
       /\ lost * Shortest < Longest => lost + 1 <= SwallowBound
       /\ Longest \in Nat /\ Longest > 0 /\ SwallowBound \in Nat
    BY <1>11, SwallowFacts
<1>13. CASE aligned
  <2>1. /\ k = 1 => p.state \in {"MAGIC1", "RESYNC_MAGIC1"}
        /\ k > 1 => InFrame(p) /\ Taken(p) = SubSeq(w, 1, k)
      BY <1>1, <1>2, <1>13 DEF AlignedInv, k, w
  <2>2. /\ k + 1 < n => InFrame(q) /\ Taken(q) = SubSeq(w, 1, k + 1)
        /\ k + 1 = n => result' = "FRAME_READY" /\ view' = frame
    <3>1. CASE k = 1
      <4>1. b = Magic1
          BY <3>1, <1>3 DEF b
      <4>2. p.state \in {"MAGIC1", "RESYNC_MAGIC1"} /\ ~InFrame(p)
          BY <3>1, <2>1 DEF InFrame
      <4>3. InFrame(q) /\ Taken(q) = <<Magic0, Magic1>>
          BY <4>1, <4>2, <1>9
      <4>4. SubSeq(w, 1, 2) = <<Magic0, Magic1>>
        <5> DEFINE s == SubSeq(w, 1, 2)
                   m == <<Magic0, Magic1>>
        <5>1. s \in Seq(Byte) /\ Len(s) = 2 /\ s[1] = w[1] /\ s[2] = w[2]
          <6>1. 2 <= n
              BY <1>6, <3>1
          <6>2. w \in Seq(Byte) /\ 2 \in 1 .. Len(w) /\ 1 \in 1 .. 2
              BY <6>1, <1>3
          <6>3. ASSUME NEW v \in Seq(Byte), 2 \in 1 .. Len(v)
                PROVE  /\ SubSeq(v, 1, 2) \in Seq(Byte) /\ Len(SubSeq(v, 1, 2)) = 2
                       /\ SubSeq(v, 1, 2)[1] = v[1] /\ SubSeq(v, 1, 2)[2] = v[2]
              BY <6>3
          <6> QED
              BY <6>2, <6>3
        <5>2. m \in Seq(Byte) /\ Len(m) = 2 /\ m[1] = Magic0 /\ m[2] = Magic1
            BY FrameAssumption
        <5> HIDE DEF s, m
        <5>3. \A i \in 1 .. 2 : s[i] = m[i]
            BY <5>1, <5>2, <1>3
        <5>4. s = m
            BY <5>1, <5>2, <5>3, SeqEqual
        <5> QED
            BY <5>4 DEF s, m
      <4>5. n # 2 /\ k + 1 = 2
        <5> HIDE DEF n
        <5>1. n # 2
            BY <1>a
        <5>2. k + 1 = 2
            BY <3>1
        <5> QED
            BY <5>1, <5>2
      <4>6. k + 1 # n
          BY <4>5
      <4> QED
          BY <4>3, <4>4, <4>5, <4>6
    <3>2. CASE k # 1
      <4>1. k \in 2 .. n - 1 /\ k > 1
          BY <3>2, <1>6
      <4>2. InFrame(p) /\ Taken(p) = SubSeq(Encode(frame), 1, k)
          BY <4>1, <2>1 DEF w
      <4>3. LET o == Feed(p, Encode(frame)[k + 1])
            IN /\ k + 1 < Len(Encode(frame)) =>
                     /\ InFrame(o.p)
                     /\ Taken(o.p) = SubSeq(Encode(frame), 1, k + 1)
               /\ k + 1 = Len(Encode(frame)) => o.r = "FRAME_READY" /\ o.v = frame
        <5>1. k \in 2 .. Len(Encode(frame)) - 1
            BY <4>1 DEF w
        <5> QED
            BY <4>2, <5>1, <1>1, <1>4, FollowsEncoding
      <4>4. LET o == Feed(p, b) IN q = o.p /\ result' = o.r /\ view' = o.v
          BY <1>8 DEF Take
      <4> QED
          BY <4>3, <4>4 DEF w, b
    <3> QED
        BY <3>1, <3>2
  <2>3. AlignedInv'
    <3>1. AlignedFrameDelivered'
        BY <2>2, <1>2, <1>7 DEF AlignedFrameDelivered
    <3>2. sending' # <<>> => k + 1 < n
        BY <1>6, <1>7
    <3>3. ~(k + 1 = 1) /\ k + 1 > 1
        BY <1>6
    <3> QED
        BY <2>2, <3>1, <3>2, <3>3, <1>2, <1>5 DEF AlignedInv, w
  <2>4. LossInv'
    <3>1. CASE k + 1 = n
      <4>1. result' = "FRAME_READY" /\ lost' = 0 /\ sending' = <<>> /\ ~InFrame(q)
          BY <3>1, <2>2, <1>2, <1>7, <1>9
      <4> QED
          BY <4>1, <1>2, <1>11, <1>12 DEF LossInv
    <3>2. CASE k + 1 # n
      <4>1. k + 1 < n /\ sending' # <<>>
          BY <3>2, <1>6, <1>7
      <4>2. lost' \in {0, lost} /\ aligned'
          BY <4>1, <1>2, <1>13
      <4> QED
          BY <4>1, <4>2, <1>2, <1>11, <1>12 DEF LossInv, Unaligned
    <3> QED
        BY <3>1, <3>2
  <2> QED
      BY <2>3, <2>4, <1>1, <1>2, <1>9, <1>10 DEF FrameInv
<1>14. CASE ~aligned
  <2>1. AlignedInv'
      BY <1>2, <1>14 DEF AlignedInv, AlignedFrameDelivered
  <2>2. Len(Taken(q)) \in Nat /\ Len(Taken(q)) >= 2
      BY <1>9, TakenFits
  <2>3. CASE result' = "FRAME_READY" \/ ~Quiet(frame)
    <3>1. lost' = 0
        BY <2>3, <1>2
    <3>2. InFrame(q) \/ Quiet(frame') => WrittenQuiet' = 0 \/ ~InFrame(q)
        BY <2>3, <1>2, <1>9 DEF WrittenQuiet
    <3>3. InFrame(q) => WrittenQuiet' = 0
        BY <3>2
    <3>4. InFrame(q) => lost' * Shortest + WrittenQuiet' <= Len(Taken(q)) - 2
        BY <3>1, <3>3, <2>2, <1>12
    <3>5. Quiet(frame') => q.state \notin {"MAGIC1", "RESYNC_MAGIC1"}
        BY <2>3, <1>2, <1>9
    <3>6. lost' * Shortest < Longest
        BY <3>1, <1>12
    <3>7. LossInv'
        BY <3>1, <3>4, <3>5, <3>6, <1>2, <1>11, <1>12 DEF LossInv
    <3> QED
        BY <3>7, <2>1, <1>1, <1>2, <1>9, <1>10 DEF FrameInv
  <2>4. CASE ~(result' = "FRAME_READY" \/ ~Quiet(frame))
    <3>1. lost' = IF k + 1 = n THEN lost + 1 ELSE lost
        BY <2>4, <1>2, <1>7
    <3>2. /\ lost * Shortest < Longest
          /\ p.state \in {"MAGIC1", "RESYNC_MAGIC1"} => k > 1 /\ w[k] = Magic0
          /\ InFrame(p) => lost * Shortest + k <= Len(Taken(p)) - 2
        BY <2>4, <1>1, <1>2, <1>14 DEF LossInv, WrittenQuiet, Unaligned, k, w
    <3>3. InFrame(q) => InFrame(p) /\ Len(Taken(q)) = Len(Taken(p)) + 1
      <4>1. CASE InFrame(p)
        <5>1. Taken(p) \in Seq(Byte)
            BY <1>1, TakenFacts
        <5>2. Len(Append(Taken(p), b)) = Len(Taken(p)) + 1
            BY <5>1, <1>3
        <5> QED
            BY <4>1, <5>2, <1>9
      <4>2. CASE ~InFrame(p) /\ InFrame(q)
        <5>1. p.state \in {"MAGIC1", "RESYNC_MAGIC1"} /\ b = Magic1
            BY <4>2, <1>9
        <5>2. k \in 2 .. n - 1 /\ w[k] = Magic0 /\ w[k + 1] = Magic1
            BY <5>1, <3>2, <1>6 DEF b
        <5>3. \A i \in 2 .. n - 1 : ~(w[i] = Magic0 /\ w[i + 1] = Magic1)
            BY <2>4 DEF Quiet, w
        <5> QED
            BY <5>2, <5>3
      <4> QED
          BY <4>1, <4>2
    <3>4. WrittenQuiet' = IF k + 1 = n THEN 0 ELSE k + 1
        BY <2>4, <1>2, <1>5, <1>7 DEF WrittenQuiet
    <3>5. InFrame(q) => lost' * Shortest + WrittenQuiet' <= Len(Taken(q)) - 2
      <4> SUFFICES ASSUME InFrame(q)
                   PROVE  lost' * Shortest + WrittenQuiet' <= Len(Taken(q)) - 2
          OBVIOUS
      <4>1. /\ lost * Shortest + k <= Len(Taken(p)) - 2 /\ Len(Taken(p)) \in Nat
            /\ Len(Taken(q)) = Len(Taken(p)) + 1
          BY <3>2, <3>3, <1>1, TakenFits
      <4>2. CASE k + 1 = n
        <5>1. lost' * Shortest = lost * Shortest + Shortest /\ WrittenQuiet' = 0
            BY <4>2, <3>1, <3>4, <1>12
        <5>2. Shortest <= k + 1
            BY <4>2, <1>3
        <5> QED
            BY <4>1, <5>1, <5>2, <1>6, <1>12
      <4>3. CASE k + 1 # n
        <5>1. lost' * Shortest = lost * Shortest /\ WrittenQuiet' = k + 1
            BY <4>3, <3>1, <3>4
        <5> QED
            BY <4>1, <5>1, <1>6, <1>12
      <4> QED
          BY <4>2, <4>3
    <3>6. sending' # <<>> =>
             /\ lost' * Shortest < Longest
             /\ q.state \in {"MAGIC1", "RESYNC_MAGIC1"} => k + 1 > 1 /\ w[k + 1] = Magic0
      <4>1. sending' # <<>> => lost' = lost
          BY <3>1, <1>7
      <4>2. k + 1 > 1
          BY <1>6
      <4>3. q.state \in {"MAGIC1", "RESYNC_MAGIC1"} => b = Magic0
          BY <1>9
      <4> QED
          BY <4>1, <4>2, <4>3, <3>2 DEF b
    <3>7. /\ lost' \in Nat /\ lost' <= SwallowBound
          /\ lost' + (IF sending' # <<>> THEN 1 ELSE 0) <= started
        BY <3>1, <3>2, <1>7, <1>11, <1>12
    <3>8. LossInv'
        BY <3>5, <3>6, <3>7, <1>2, <1>5, <1>11 DEF LossInv, w
    <3> QED
        BY <3>8, <2>1, <1>1, <1>2, <1>9, <1>10 DEF FrameInv
  <2> QED
      BY <2>3, <2>4
<1> QED
    BY <1>1, <1>13, <1>14

\* One step of the wire, whichever it is.
LEMMA FrameStepInv == FrameInv /\ [FrameNext]_frameVars => FrameInv'
<1> SUFFICES ASSUME FrameInv, [FrameNext]_frameVars PROVE FrameInv'
    OBVIOUS
<1>1. CASE \E b \in NoiseBytes : Noise(b)
    BY <1>1, NoiseInv
<1>2. CASE \E f \in Frames : Begin(f)
    BY <1>2, BeginInv
<1>3. CASE Continue
    BY <1>3, ContinueInv
<1>4. CASE Truncate
    BY <1>4, TruncateInv
<1>5. CASE UNCHANGED frameVars
  <2>1. /\ frame_parser' = frame_parser /\ result' = result /\ view' = view
        /\ sending' = sending /\ frame' = frame /\ aligned' = aligned /\ lost' = lost
        /\ started' = started /\ fed' = fed
      BY <1>5 DEF frameVars
  <2>2. StreamInv'
      BY <2>1 DEF FrameInv, StreamInv
  <2>3. SenderInv' /\ AlignedInv'
      BY <2>1 DEF FrameInv, SenderInv, AlignedInv, AlignedFrameDelivered, Written
  <2>4. LossInv'
      BY <2>1 DEF FrameInv, LossInv, WrittenQuiet, Unaligned, Written
  <2> QED
      BY <2>1, <2>2, <2>3, <2>4 DEF FrameInv
<1> QED
    BY <1>1, <1>2, <1>3, <1>4, <1>5 DEF FrameNext

\* What the runs check of the frames.
LEMMA FrameInvDelivers == FrameInv => DeliversWhatWasSent /\ ParserBounded
<1> SUFFICES ASSUME FrameInv PROVE DeliversWhatWasSent /\ ParserBounded
    OBVIOUS
<1>1. /\ ParserInv(frame_parser) /\ result \in Results /\ aligned \in BOOLEAN
      /\ StreamInv /\ AlignedInv /\ LossInv
      /\ result = "FRAME_READY" => IsFrame(view) /\ EndsWith(fed, Encode(view))
    BY DEF FrameInv
<1>2. DeliveredWasSent
  <2> SUFFICES ASSUME result = "FRAME_READY" PROVE IsSuffix(Encode(view), fed)
      BY DEF DeliveredWasSent
  <2>1. IsFrame(view) /\ EndsWith(fed, Encode(view)) /\ fed \in Seq(Byte)
      BY <1>1 DEF StreamInv
  <2>2. Encode(view) \in Seq(Byte)
      BY <2>1, EncodeFacts
  <2> QED
      BY <2>1, <2>2, EndsWithSuffix
<1>3. AlignedFrameDelivered
    BY <1>1 DEF AlignedInv
<1>4. FrameTypeOK
  <2>1. /\ frame_parser \in [state : States, header : Seq(Byte),
                             payload : Seq(Byte), payload_length : Nat,
                             crc : Crc16, received_crc_low : Byte]
        /\ Len(frame_parser.header) <= HeaderLen
        /\ Len(frame_parser.payload) <= MaxPayload
        /\ frame_parser.state = "PAYLOAD" =>
               Len(frame_parser.payload) < frame_parser.payload_length
      BY <1>1 DEF ParserInv
  <2>2. lost \in 0 .. MaxFrames /\ started \in 0 .. MaxFrames
    <3>1. /\ lost \in Nat /\ started \in Nat /\ started <= MaxFrames
          /\ lost + (IF sending # <<>> THEN 1 ELSE 0) <= started
        BY <1>1 DEF LossInv
    <3>2. (IF sending # <<>> THEN 1 ELSE 0) \in Nat
        OBVIOUS
    <3> QED
        BY <3>1, <3>2, FrameAssumption
  <2> QED
      BY <2>1, <2>2, <1>1 DEF FrameTypeOK
<1>5. BoundedLoss
    BY <1>1 DEF LossInv, BoundedLoss
<1> QED
    BY <1>2, <1>3, <1>4, <1>5 DEF DeliversWhatWasSent, ParserBounded

\* The invariant holds in every state: the parser always ends up with what
\* binary_frame_parser_feed has read since the last magic.
THEOREM FrameSpecInv == FrameSpec => []FrameInv
<1> QED
    BY FrameInitInv, FrameStepInv, PTL DEF FrameSpec

\* What the parser delivers was sent, byte for byte, and a frame that begins
\* when the parser is waiting for the magic is delivered with its last byte.
THEOREM FramesAreDelivered == FrameSpec => []DeliversWhatWasSent
<1> QED
    BY FrameSpecInv, FrameInvDelivers, PTL

\* The parser never holds more than its buffers, and a false start costs no more
\* whole frames than fit in the longest frame.
THEOREM ParserIsBounded == FrameSpec => []ParserBounded
<1> QED
    BY FrameSpecInv, FrameInvDelivers, PTL

-----------------------------------------------------------------------------
(* Remote procedure calls *)

\* A set of sequences that can be joined without leaving it.
Joins(A) == /\ <<>> \in A /\ \A s \in A : <<>> \o s = s
            /\ \A s, t \in A : s \o t \in A

\* SequencesExt!FlattenSeq, one value per sequence joined.
LEMMA FlattenLoop ==
    ASSUME NEW A, Joins(A), NEW seqs \in Seq(A)
    PROVE  \E g \in [0 .. Len(seqs) -> A] :
              /\ g[0] = <<>>
              /\ \A k \in Nat : k < Len(seqs) => g[k + 1] = g[k] \o seqs[k + 1]
              /\ FlattenSeq(seqs) = g[Len(seqs)]
<1> DEFINE n == Len(seqs)
           next == [i \in 1 .. n |-> [s \in A |-> s \o seqs[i]]]
           e == <<>>
<1>1. n \in Nat /\ e \in A /\ \A i \in 1 .. n : seqs[i] \in A
    BY DEF Joins
<1>2. next \in [1 .. n -> [A -> A]]
    BY <1>1 DEF Joins
<1>3. PICK g \in [0 .. n -> A] :
          g[0] = e /\ \A i \in 1 .. n : g[i] = next[i][g[i - 1]]
  <2> HIDE DEF next, n, e
  <2>1. next \in [1 .. n -> [A -> A]] /\ n \in Nat /\ e \in A
      BY <1>1, <1>2
  <2>2. Iterates(A, e, n, next)
      BY <2>1, Iteration
  <2> QED
      BY <2>2 DEF Iterates
<1>4. \A i \in 1 .. n : g[i] = g[i - 1] \o seqs[i]
  <2> TAKE i \in 1 .. n
  <2>1. g[i - 1] \in A
      BY <1>1
  <2> QED
      BY <2>1, <1>3
<1>a. \A k \in Nat : k < n => g[k + 1] = g[k] \o seqs[k + 1]
  <2> TAKE k \in Nat
  <2> HAVE k < n
  <2> DEFINE i == k + 1
  <2>1. i \in 1 .. n /\ i - 1 = k
      BY <1>1
  <2> HIDE DEF i
  <2>2. g[i] = g[i - 1] \o seqs[i]
      BY <2>1, <1>4
  <2>3. g[i] = g[k] \o seqs[i]
      BY <2>1, <2>2
  <2> QED
      BY <2>3 DEF i
<1>5. CASE n = 0
  <2>1. FlattenSeq(seqs) = seqs
      BY <1>5 DEF FlattenSeq
  <2>2. seqs = <<>>
      BY <1>5
  <2> QED
      BY <2>1, <2>2, <1>3, <1>a, <1>5
<1>6. CASE n # 0
  <2> DEFINE h == [i \in 1 .. n |-> g[i]]
  <2>1. h = [i \in 1 .. n |-> IF i = 1 THEN seqs[i] ELSE h[i - 1] \o seqs[i]]
    <3>1. ASSUME NEW i \in 1 .. n
          PROVE  g[i] = IF i = 1 THEN seqs[i] ELSE h[i - 1] \o seqs[i]
      <4>1. CASE i = 1
        <5>1. g[1] = g[0] \o seqs[1] /\ seqs[1] \in A
          <6>1. 1 \in 1 .. n /\ 1 - 1 = 0
              BY <4>1, <1>1
          <6> QED
              BY <6>1, <1>1, <1>4
        <5>2. <<>> \o seqs[1] = seqs[1]
            BY <5>1 DEF Joins
        <5> QED
            BY <4>1, <5>1, <5>2, <1>3
      <4>2. CASE i # 1
        <5>1. i - 1 \in 1 .. n
            BY <4>2, <1>1
        <5>2. h[i - 1] = g[i - 1]
            BY <5>1
        <5> QED
            BY <4>2, <5>2, <1>4
      <4> QED
          BY <4>1, <4>2
    <3>2. h = [i \in 1 .. n |-> g[i]]
        OBVIOUS
    <3> QED
        BY <3>1
  <2> DEFINE F == CHOOSE f : f = [i \in 1 .. Len(seqs) |->
                                    IF i = 1 THEN seqs[i] ELSE f[i - 1] \o seqs[i]]
  <2> HIDE DEF h
  <2>2. F = [i \in 1 .. n |-> IF i = 1 THEN seqs[i] ELSE F[i - 1] \o seqs[i]]
      BY <2>1
  <2>3. FlattenSeq(seqs) = F[n]
      BY <1>6 DEF FlattenSeq
  <2> HIDE DEF F
  <2> DEFINE T == {k \in Nat : k + 1 <= n => F[k + 1] = g[k + 1]}
  <2>4. 0 \in T
    <3> SUFFICES ASSUME 1 <= n PROVE F[1] = g[1]
        OBVIOUS
    <3>1. g[1] = g[0] \o seqs[1] /\ seqs[1] \in A
        BY <1>1, <1>4
    <3>2. <<>> \o seqs[1] = seqs[1]
        BY <3>1 DEF Joins
    <3>3. F[1] = seqs[1]
        BY <2>2, <1>1
    <3> QED
        BY <3>1, <3>2, <3>3, <1>3
  <2>5. ASSUME NEW k \in Nat, k \in T PROVE k + 1 \in T
    <3> SUFFICES ASSUME k + 2 <= n PROVE F[k + 2] = g[k + 2]
      <4>1. k + 1 + 1 = k + 2
          OBVIOUS
      <4> QED
          BY <4>1
    <3>1. k + 2 \in 1 .. n /\ k + 2 # 1 /\ k + 2 - 1 = k + 1 /\ k + 1 <= n
        BY <1>1
    <3>2. F[k + 2] = F[k + 1] \o seqs[k + 2]
        BY <3>1, <2>2
    <3>3. g[k + 2] = g[k + 1] \o seqs[k + 2]
        BY <3>1, <1>4
    <3> QED
        BY <3>1, <3>2, <3>3, <2>5
  <2> HIDE DEF T
  <2>6. n - 1 \in T
    <3>1. Nat \subseteq T
        BY <2>4, <2>5, NaturalInduction
    <3> QED
        BY <3>1, <1>1, <1>6
  <2>7. F[n] = g[n]
    <3>1. n - 1 + 1 = n /\ n \in Nat
        BY <1>1
    <3> QED
        BY <2>6, <3>1 DEF T
  <2> QED
      BY <2>3, <2>7, <1>3, <1>a
<1> QED
    BY <1>5, <1>6

\* Joining grows with its last sequence.
LEMMA FlattenGrows ==
    ASSUME NEW A, Joins(A), NEW seqs \in Seq(A), NEW last \in A
    PROVE  /\ FlattenSeq(<<>>) = <<>>
           /\ FlattenSeq(seqs) \in A
           /\ FlattenSeq(Append(seqs, last)) = FlattenSeq(seqs) \o last
<1> DEFINE all == Append(seqs, last)
           n == Len(seqs)
<1>1. /\ all \in Seq(A) /\ Len(all) = n + 1 /\ n \in Nat /\ all[n + 1] = last
      /\ \A i \in 1 .. n : all[i] = seqs[i]
    OBVIOUS
<1>2. PICK f \in [0 .. n -> A] :
          /\ f[0] = <<>> /\ \A k \in Nat : k < n => f[k + 1] = f[k] \o seqs[k + 1]
          /\ FlattenSeq(seqs) = f[n]
    BY FlattenLoop
<1> HIDE DEF all
<1>3. PICK g \in [0 .. Len(all) -> A] :
          /\ g[0] = <<>> /\ \A k \in Nat : k < Len(all) => g[k + 1] = g[k] \o all[k + 1]
          /\ FlattenSeq(all) = g[Len(all)]
    BY <1>1, FlattenLoop
<1> HIDE DEF n
<1>a. n \in Nat /\ Len(all) = n + 1
    BY <1>1
<1>b. \A k \in Nat : k <= n => g[k + 1] = g[k] \o all[k + 1]
  <2> TAKE k \in Nat
  <2> HAVE k <= n
  <2>1. k < Len(all)
      BY <1>a
  <2> QED
      BY <2>1, <1>3
<1> DEFINE T == {k \in Nat : k <= n => g[k] = f[k]}
<1>4. 0 \in T
    BY <1>2, <1>3
<1>5. ASSUME NEW k \in Nat, k \in T PROVE k + 1 \in T
  <2> SUFFICES ASSUME k + 1 <= n PROVE g[k + 1] = f[k + 1]
      OBVIOUS
  <2>1. k < n /\ k <= n /\ k + 1 \in 1 .. n
      BY <1>a
  <2>2. g[k + 1] = g[k] \o all[k + 1]
      BY <2>1, <1>b
  <2>3. f[k + 1] = f[k] \o seqs[k + 1]
      BY <2>1, <1>2
  <2>4. all[k + 1] = seqs[k + 1]
      BY <2>1, <1>1
  <2>5. g[k] = f[k]
      BY <1>5, <2>1
  <2> HIDE DEF T
  <2> QED
      BY <2>2, <2>3, <2>4, <2>5
<1> HIDE DEF T
<1>6. n \in T
    BY <1>a, <1>4, <1>5, NaturalInduction
<1>7. g[n] = f[n]
    BY <1>a, <1>6 DEF T
<1>8. g[n + 1] = g[n] \o last
  <2>1. g[n + 1] = g[n] \o all[n + 1]
      BY <1>a, <1>b
  <2> QED
      BY <2>1, <1>1
<1>9. FlattenSeq(<<>>) = <<>>
    BY DEF FlattenSeq
<1> QED
    BY <1>a, <1>2, <1>3, <1>7, <1>8, <1>9 DEF all
-----------------------------------------------------------------------------
\* The frames before the one that closes the exchange, and their bytes.
IsSequence(s) == s \in Seq(Range(s))
\* How many frames come before the one that closes the exchange.
DataPart(frames) ==
    IF frames # <<>> /\ frames[Len(frames)].kind # "DATA" THEN Len(frames) - 1
                                                    ELSE Len(frames)
\* The bytes of the first k frames.
Bytes(frames, k) == FlattenSeq([i \in 1 .. k |-> frames[i].bytes])
\* The first k frames are RPC_DATA, numbered from zero.
InOrder(frames, k) ==
    \A i \in 1 .. k : /\ frames[i].kind = "DATA" /\ frames[i].sequence = i - 1
                      /\ frames[i].bytes \in Seq(Printable)

\* The frames of an exchange that is still open: data only.
Open(frames) == /\ IsSequence(frames) /\ DataPart(frames) = Len(frames)
                /\ InOrder(frames, Len(frames))
\* Every byte of an open exchange.
All(frames) == Bytes(frames, Len(frames))

\* binary_rpc_state_t.
RpcState == [sequence : Nat, total_output_bytes : Nat,
             data_chunk : Seq(Printable), tx_failed : BOOLEAN]

\* The state counts the frames.
Counted(state, frames) ==
    /\ state \in RpcState /\ Open(frames)
    /\ state.sequence = Len(frames)
    /\ state.total_output_bytes = Len(All(frames))

\* A request that was answered without running its method.
AnswerInv ==
    ~executed =>
        /\ phase = "idle" /\ output = <<>>
        /\ \/ exchange = <<>>
           \/ /\ request \in Requests /\ Refuse(request) # <<>>
              /\ exchange = <<Refuse(request)[1]>>

\* While the method runs the state counts what the ring accepted, and what is
\* neither delivered nor lost is in the chunk.
MethodInv ==
    phase = "method" =>
        /\ DataPart(exchange) = Len(exchange)
        /\ rpc.sequence = Len(exchange)
        /\ rpc.total_output_bytes = Len(Bytes(exchange, Len(exchange)))
        /\ write_failed <=> rpc.tx_failed
        /\ ~rpc.tx_failed =>
               output = Bytes(exchange, Len(exchange)) \o rpc.data_chunk

\* In wdogtrip's loop the line is out, and the flag was there.
TrippedInv ==
    phase = "tripped" =>
        /\ DataPart(exchange) = Len(exchange)
        /\ request.flags = AllowDestructive
        /\ Bytes(exchange, Len(exchange)) = TripText

\* The frame after the data is the RPC_END that counts them.
ClosedInv ==
    phase = "idle" /\ DataPart(exchange) < Len(exchange) =>
        LET end == exchange[Len(exchange)]
        IN /\ end.kind = "END" /\ end.domain = "COMMAND"
           /\ end.chunks = DataPart(exchange)
           /\ end.total = Len(Bytes(exchange, DataPart(exchange)))
           /\ end.status = "OK" => Bytes(exchange, DataPart(exchange)) = output

\* The exchange of a method that ran.
CallInv ==
    executed =>
        /\ request \in Requests /\ Refuse(request) = <<>>
        /\ output \in Seq(Printable)
        /\ InOrder(exchange, DataPart(exchange))
        /\ IsPrefix(Bytes(exchange, DataPart(exchange)), output)
        /\ MethodInv /\ TrippedInv /\ ClosedInv

\* All of it.
RpcInv == /\ RpcTypeOK /\ IsSequence(exchange) /\ AnswerInv /\ CallInv

\* Sequences can be joined.
LEMMA SeqJoins == ASSUME NEW S PROVE Joins(Seq(S))
<1>1. <<>> \in Seq(S)
    OBVIOUS
<1>2. \A s \in Seq(S) : <<>> \o s = s
    OBVIOUS
<1>3. \A s, t \in Seq(S) : s \o t \in Seq(S)
    OBVIOUS
<1> QED
    BY <1>1, <1>2, <1>3 DEF Joins

\* A byte is a number.
LEMMA OctetNat == \A b \in Octet : b \in Nat /\ b <= 255
    BY DEF Octet

\* What the decoder's loop carries from argument to argument.
Decoding == [offset : Nat, malformed : BOOLEAN, bad : BOOLEAN]

\* One argument: it fits or the request is malformed.
LEMMA DecodeArgumentFacts ==
    ASSUME NEW payload \in Seq(Octet), NEW acc \in Decoding
    PROVE  LET r == DecodeArgument(payload, acc)
               length == payload[acc.offset + 1]
               fits == /\ ~acc.malformed /\ acc.offset < Len(payload)
                       /\ acc.offset + 1 + length <= Len(payload)
           IN /\ r \in Decoding
              /\ fits => /\ ~r.malformed /\ length \in Nat
                         /\ r.offset = acc.offset + 1 + length
                         /\ ~r.bad => /\ ~acc.bad /\ length <= MaxArgBytes
                                      /\ \A i \in acc.offset + 2 .. r.offset :
                                            payload[i] # 0
              /\ ~fits => r.malformed
<1> DEFINE r == DecodeArgument(payload, acc)
           o == acc.offset
           length == payload[o + 1]
           after == o + 1 + length
           bad == \/ acc.bad \/ length > MaxArgBytes
                  \/ \E i \in o + 2 .. after : payload[i] = 0
<1>1. o \in Nat /\ Len(payload) \in Nat /\ acc.malformed \in BOOLEAN
    BY DEF Decoding
<1>2. r = IF acc.malformed \/ o >= Len(payload) THEN [acc EXCEPT !.malformed = TRUE]
          ELSE IF after > Len(payload) THEN [acc EXCEPT !.malformed = TRUE]
          ELSE [acc EXCEPT !.offset = after, !.bad = bad]
    BY DEF DecodeArgument
<1>3. [acc EXCEPT !.malformed = TRUE] \in Decoding
      /\ [acc EXCEPT !.malformed = TRUE].malformed
    BY DEF Decoding
<1>4. CASE acc.malformed \/ o >= Len(payload)
  <2>1. r = [acc EXCEPT !.malformed = TRUE]
      BY <1>2, <1>4
  <2> HIDE DEF r
  <2>2. ~(~acc.malformed /\ o < Len(payload))
      BY <1>1, <1>4
  <2> QED
      BY <2>1, <2>2, <1>3 DEF r
<1>5. CASE ~(acc.malformed \/ o >= Len(payload))
  <2>1. o + 1 \in 1 .. Len(payload) /\ o < Len(payload) /\ ~acc.malformed
      BY <1>1, <1>5
  <2>2. length \in Octet
      BY <2>1
  <2>3. length \in Nat
      BY <2>2, OctetNat
  <2> HIDE DEF r, length
  <2>4. CASE after > Len(payload)
    <3>1. r = [acc EXCEPT !.malformed = TRUE]
        BY <1>2, <1>5, <2>4
    <3>2. ~(after <= Len(payload))
        BY <2>3, <2>4, <1>1
    <3> QED
        BY <3>1, <3>2, <1>3 DEF r, length
  <2>5. CASE ~(after > Len(payload))
    <3> DEFINE z == [acc EXCEPT !.offset = after, !.bad = bad]
    <3>1. r = z
        BY <1>2, <1>5, <2>5
    <3>2. after \in Nat /\ bad \in BOOLEAN /\ after <= Len(payload)
        BY <2>3, <2>5, <1>1
    <3> HIDE DEF bad, after
    <3>3. z \in Decoding /\ z.offset = after /\ z.malformed = acc.malformed
          /\ z.bad = bad
        BY <3>2 DEF Decoding
    <3> HIDE DEF z
    <3>4. ~z.bad => ~acc.bad /\ length <= MaxArgBytes
                    /\ \A i \in o + 2 .. after : payload[i] # 0
      <4>1. z.bad <=> bad
          BY <3>3
      <4>2. ~bad => ~acc.bad /\ ~(length > MaxArgBytes)
                    /\ \A i \in o + 2 .. after : payload[i] # 0
          BY DEF bad
      <4>3. ~(length > MaxArgBytes) => length <= MaxArgBytes
          BY <2>3, RpcAssumption
      <4> QED
          BY <4>1, <4>2, <4>3
    <3>5. ~z.malformed /\ (o < Len(payload)) /\ z.offset = o + 1 + length
        BY <2>1, <3>3 DEF after
    <3>6. /\ r \in Decoding /\ ~r.malformed /\ length \in Nat
          /\ r.offset = o + 1 + length
          /\ ~r.bad => ~acc.bad /\ length <= MaxArgBytes
                       /\ \A i \in o + 2 .. r.offset : payload[i] # 0
          /\ o + 1 + length <= Len(payload)
        BY <3>1, <3>2, <3>3, <3>4, <3>5, <2>3 DEF after
    <3> QED
        BY <3>6, <2>1 DEF r, length
  <2> QED
      BY <2>4, <2>5
<1> QED
    BY <1>4, <1>5

\* The loop of binary_rpc_decode_request.
LEMMA DecodeLoop ==
    ASSUME NEW payload \in Seq(Octet), Len(payload) >= 4
    PROVE  /\ payload[3] \in Nat
           /\ \E d \in [0 .. payload[3] -> Decoding] :
                 /\ d[0].offset = 4 /\ ~d[0].malformed
                 /\ d[0].bad <=> payload[3] > MaxArgs
                 /\ \A k \in Nat : k < payload[3] =>
                       d[k + 1] = DecodeArgument(payload, d[k])
                 /\ DecodeArguments(payload) = d[payload[3]]
<1> DEFINE n == payload[3]
           first == [offset |-> 4, malformed |-> FALSE, bad |-> n > MaxArgs]
           next == [i \in 1 .. n |-> [acc \in Decoding |-> DecodeArgument(payload, acc)]]
<1>1. n \in Octet
    OBVIOUS
<1>2. n \in Nat
    BY <1>1, OctetNat
<1>3. first \in Decoding /\ first.offset = 4 /\ ~first.malformed
      /\ (first.bad <=> n > MaxArgs)
  <2> DEFINE b == n > MaxArgs
  <2>1. b \in BOOLEAN
      OBVIOUS
  <2> HIDE DEF b
  <2>2. first = [offset |-> 4, malformed |-> FALSE, bad |-> b]
      BY DEF b
  <2> HIDE DEF first
  <2>3. first \in Decoding /\ first.offset = 4 /\ ~first.malformed /\ first.bad = b
      BY <2>1, <2>2 DEF Decoding
  <2> QED
      BY <2>3 DEF b
<1>4. next \in [1 .. n -> [Decoding -> Decoding]]
    BY DecodeArgumentFacts
<1>5. PICK g \in [0 .. n -> Decoding] :
          g[0] = first /\ \A i \in 1 .. n : g[i] = next[i][g[i - 1]]
  <2> HIDE DEF first, next, n
  <2>1. n \in Nat /\ first \in Decoding
      BY <1>2, <1>3
  <2>2. Iterates(Decoding, first, n, next)
      BY <2>1, <1>4, Iteration
  <2> QED
      BY <2>2 DEF Iterates
<1>6. \A i \in 1 .. n : g[i] = DecodeArgument(payload, g[i - 1])
  <2> TAKE i \in 1 .. n
  <2>1. g[i - 1] \in Decoding
      BY <1>2
  <2> QED
      BY <2>1, <1>5
<1> DEFINE F == CHOOSE f : f = [i \in 0 .. n |->
                  IF i = 0 THEN first ELSE DecodeArgument(payload, f[i - 1])]
<1>7. g = [i \in 0 .. n |->
              IF i = 0 THEN first ELSE DecodeArgument(payload, g[i - 1])]
  <2> HIDE DEF first, n
  <2> QED
      BY <1>2, <1>5, <1>6
<1>8. F = [i \in 0 .. n |->
              IF i = 0 THEN first ELSE DecodeArgument(payload, F[i - 1])]
    BY <1>7
<1>9. DecodeArguments(payload) = F[n]
    BY DEF DecodeArguments
<1> HIDE DEF F, first, n
<1>a. \A k \in Nat : k < n => /\ g[k + 1] = DecodeArgument(payload, g[k])
                              /\ F[k + 1] = DecodeArgument(payload, F[k])
  <2> TAKE k \in Nat
  <2> HAVE k < n
  <2> DEFINE i == k + 1
  <2>1. i \in 1 .. n /\ i \in 0 .. n /\ i # 0 /\ i - 1 = k
      BY <1>2
  <2> HIDE DEF i
  <2>2. g[i] = DecodeArgument(payload, g[i - 1])
      BY <2>1, <1>6
  <2>3. F[i] = DecodeArgument(payload, F[i - 1])
      BY <2>1, <1>8
  <2>4. g[i] = DecodeArgument(payload, g[k]) /\ F[i] = DecodeArgument(payload, F[k])
      BY <2>1, <2>2, <2>3
  <2> QED
      BY <2>4 DEF i
<1> DEFINE T == {k \in Nat : k <= n => F[k] = g[k]}
<1>10. 0 \in T
    BY <1>2, <1>5, <1>8
<1>11. ASSUME NEW k \in Nat, k \in T PROVE k + 1 \in T
  <2> SUFFICES ASSUME k + 1 <= n PROVE F[k + 1] = g[k + 1]
      OBVIOUS
  <2>1. k < n /\ k <= n
      BY <1>2
  <2>2. F[k] = g[k]
      BY <2>1, <1>11
  <2> HIDE DEF T
  <2> QED
      BY <2>1, <2>2, <1>a
<1> HIDE DEF T
<1>12. n \in T
    BY <1>2, <1>10, <1>11, NaturalInduction
<1>13. F[n] = g[n]
    BY <1>2, <1>12 DEF T
<1> QED
    BY <1>2, <1>3, <1>5, <1>9, <1>13, <1>a DEF n

\* The payload of a call, argument by argument: its length and its bytes.
EncodesInParts(rpc_id, n, args) ==
    \E g \in [0 .. n -> Seq(Nat)] :
       /\ g[0] = <<>>
       /\ \A k \in Nat : k < n =>
             /\ Len(g[k + 1]) = Len(g[k]) + 1 + Len(args[k + 1])
             /\ \A j \in 1 .. Len(g[k]) : g[k + 1][j] = g[k][j]
             /\ g[k + 1][Len(g[k]) + 1] = Len(args[k + 1])
             /\ \A j \in 1 .. Len(args[k + 1]) :
                   g[k + 1][Len(g[k]) + 1 + j] = args[k + 1][j]
       /\ EncodeRequest(rpc_id, args)
             = <<rpc_id % 256, rpc_id \div 256, n, 0>> \o g[n]

\* The encoding of a call is made of its arguments in order.
LEMMA EncodedParts ==
    ASSUME NEW n \in Nat, NEW args \in [1 .. n -> Seq(Nat)], NEW rpc_id \in Nat
    PROVE  EncodesInParts(rpc_id, n, args)
<1> DEFINE A == Seq(Nat)
           parts == [i \in 1 .. n |-> <<Len(args[i])>> \o args[i]]
<1>1. ASSUME NEW a \in A
      PROVE  /\ <<Len(a)>> \o a \in A /\ Len(<<Len(a)>> \o a) = Len(a) + 1
             /\ (<<Len(a)>> \o a)[1] = Len(a) /\ Len(a) \in Nat
             /\ \A j \in 1 .. Len(a) : (<<Len(a)>> \o a)[1 + j] = a[j]
  <2> DEFINE h == <<Len(a)>>
  <2>1. h \in Seq(Nat) /\ a \in Seq(Nat) /\ Len(h) = 1 /\ h[1] = Len(a) /\ Len(a) \in Nat
      OBVIOUS
  <2> HIDE DEF h
  <2>2. h \in Seq(Nat) /\ a \in Seq(Nat)
      BY <2>1
  <2>3. /\ h \o a \in Seq(Nat) /\ Len(h \o a) = Len(h) + Len(a)
        /\ \A i \in 1 .. Len(h) : (h \o a)[i] = h[i]
        /\ \A i \in 1 .. Len(a) : (h \o a)[Len(h) + i] = a[i]
      BY <2>2, Concatenation
  <2>4. Len(h \o a) = Len(a) + 1 /\ (h \o a)[1] = Len(a)
      BY <2>1, <2>3
  <2>5. \A j \in 1 .. Len(a) : (h \o a)[1 + j] = a[j]
      BY <2>1, <2>3
  <2> QED
      BY <2>1, <2>3, <2>4, <2>5 DEF h
<1>2. \A i \in 1 .. n : args[i] \in A
    OBVIOUS
<1>3. Joins(A)
    BY SeqJoins
<1> HIDE DEF A
<1>4. \A i \in 1 .. n : <<Len(args[i])>> \o args[i] \in A
    BY <1>1, <1>2
<1>5. parts \in Seq(A) /\ Len(parts) = n /\ Len(args) = n
  <2>1. parts \in [1 .. n -> A]
      BY <1>4
  <2>2. parts \in Seq(A) /\ Len(parts) = n
      BY <2>1
  <2>3. Len(args) = n
      OBVIOUS
  <2> QED
      BY <2>2, <2>3
<1>6. \A k \in Nat : k < n => k + 1 \in 1 .. n
                              /\ parts[k + 1] = <<Len(args[k + 1])>> \o args[k + 1]
    OBVIOUS
<1>7. FlattenSeq(parts) = FlattenSeq([i \in 1 .. Len(args) |-> <<Len(args[i])>> \o args[i]])
    BY <1>5
<1> HIDE DEF parts
<1>8. PICK g \in [0 .. Len(parts) -> A] :
          /\ g[0] = <<>>
          /\ \A k \in Nat : k < Len(parts) => g[k + 1] = g[k] \o parts[k + 1]
          /\ FlattenSeq(parts) = g[Len(parts)]
    BY <1>3, <1>5, FlattenLoop
<1>9. /\ g \in [0 .. n -> A] /\ g[0] = <<>> /\ FlattenSeq(parts) = g[n]
      /\ \A k \in Nat : k < n => g[k + 1] = g[k] \o parts[k + 1]
    BY <1>5, <1>8
<1>10. EncodeRequest(rpc_id, args) = <<rpc_id % 256, rpc_id \div 256, n, 0>> \o g[n]
    BY <1>5, <1>7, <1>9 DEF EncodeRequest
<1>11. ASSUME NEW k \in Nat, k < n
       PROVE  /\ Len(g[k + 1]) = Len(g[k]) + 1 + Len(args[k + 1])
              /\ \A j \in 1 .. Len(g[k]) : g[k + 1][j] = g[k][j]
              /\ g[k + 1][Len(g[k]) + 1] = Len(args[k + 1])
              /\ \A j \in 1 .. Len(args[k + 1]) :
                    g[k + 1][Len(g[k]) + 1 + j] = args[k + 1][j]
  <2> DEFINE s == g[k]
             a == args[k + 1]
             t == parts[k + 1]
  <2>1. s \in A /\ a \in A /\ g[k + 1] = s \o t
    <3>1. k \in 0 .. n /\ k + 1 \in 1 .. n
        BY <1>11
    <3> QED
        BY <3>1, <1>2, <1>9, <1>11
  <2>2. t = <<Len(a)>> \o a
      BY <1>6, <1>11
  <2> HIDE DEF s, a, t
  <2>3. /\ t \in A /\ Len(t) = Len(a) + 1 /\ t[1] = Len(a) /\ Len(a) \in Nat
        /\ \A j \in 1 .. Len(a) : t[1 + j] = a[j]
      BY <2>1, <2>2, <1>1
  <2>4. s \in Seq(Nat) /\ t \in Seq(Nat)
      BY <2>1, <2>3 DEF A
  <2>5. /\ Len(s \o t) = Len(s) + Len(t)
        /\ \A i \in 1 .. Len(s) : (s \o t)[i] = s[i]
        /\ \A i \in 1 .. Len(t) : (s \o t)[Len(s) + i] = t[i]
      BY <2>4, Concatenation
  <2>6. Len(s) \in Nat
      BY <2>4
  <2>7. Len(s \o t) = Len(s) + 1 + Len(a)
      BY <2>3, <2>5, <2>6
  <2>8. (s \o t)[Len(s) + 1] = Len(a)
    <3>1. 1 \in 1 .. Len(t)
        BY <2>3
    <3> QED
        BY <3>1, <2>3, <2>5
  <2>9. \A j \in 1 .. Len(a) : (s \o t)[Len(s) + 1 + j] = a[j]
    <3> TAKE j \in 1 .. Len(a)
    <3>1. 1 + j \in 1 .. Len(t) /\ Len(s) + (1 + j) = Len(s) + 1 + j
        BY <2>3, <2>6
    <3>2. (s \o t)[Len(s) + (1 + j)] = t[1 + j]
        BY <3>1, <2>5
    <3> QED
        BY <3>1, <3>2, <2>3
  <2> QED
      BY <2>1, <2>5, <2>7, <2>8, <2>9 DEF s, a, t
<1> QED
    BY <1>9, <1>10, <1>11 DEF A, EncodesInParts

\* Where the arguments of an accepted request begin.
LEMMA DecodedParts ==
    ASSUME NEW p \in Seq(Octet), DecodeRequest(p) = "OK"
    PROVE  /\ Len(p) >= 4 /\ p[4] = 0 /\ p[3] \in Nat /\ p[3] <= MaxArgs
           /\ \E off \in [0 .. p[3] -> Nat] :
                 /\ off[0] = 4 /\ off[p[3]] = Len(p)
                 /\ \A k \in Nat : k < p[3] =>
                       /\ off[k + 1] = off[k] + 1 + p[off[k] + 1]
                       /\ off[k + 1] <= Len(p)
                       /\ p[off[k] + 1] \in Nat /\ p[off[k] + 1] <= MaxArgBytes
                       /\ \A i \in off[k] + 2 .. off[k + 1] : p[i] # 0
<1> DEFINE n == p[3]
           whole == DecodeArguments(p)
<1>1. /\ ~(Len(p) < 4) /\ p[4] = 0 /\ ~whole.malformed /\ whole.offset = Len(p)
      /\ ~whole.bad
    BY DEF DecodeRequest
<1>2. Len(p) \in Nat /\ Len(p) >= 4
    BY <1>1
<1> HIDE DEF n, whole
<1>3. n \in Nat
    BY <1>2, DecodeLoop DEF n
<1>4. PICK d \in [0 .. n -> Decoding] :
          /\ d[0].offset = 4 /\ ~d[0].malformed
          /\ d[0].bad <=> n > MaxArgs
          /\ \A k \in Nat : k < n => d[k + 1] = DecodeArgument(p, d[k])
          /\ whole = d[n]
    BY <1>2, DecodeLoop DEF n, whole
<1>5. ASSUME NEW k \in Nat, k < n, ~d[k + 1].malformed, ~d[k + 1].bad
      PROVE  /\ ~d[k].malformed /\ ~d[k].bad
             /\ p[d[k].offset + 1] \in Nat /\ p[d[k].offset + 1] <= MaxArgBytes
             /\ d[k + 1].offset = d[k].offset + 1 + p[d[k].offset + 1]
             /\ d[k + 1].offset <= Len(p)
             /\ \A i \in d[k].offset + 2 .. d[k + 1].offset : p[i] # 0
  <2> DEFINE acc == d[k]
             r == d[k + 1]
             length == p[acc.offset + 1]
  <2>1. acc \in Decoding /\ r = DecodeArgument(p, acc) /\ ~r.malformed /\ ~r.bad
    <3>1. k \in 0 .. n
        BY <1>3, <1>5
    <3> QED
        BY <3>1, <1>4, <1>5
  <2> HIDE DEF acc, r
  <2>2. LET fits == /\ ~acc.malformed /\ acc.offset < Len(p)
                    /\ acc.offset + 1 + length <= Len(p)
        IN /\ fits => /\ ~r.malformed /\ length \in Nat
                      /\ r.offset = acc.offset + 1 + length
                      /\ ~r.bad => /\ ~acc.bad /\ length <= MaxArgBytes
                                   /\ \A i \in acc.offset + 2 .. r.offset : p[i] # 0
           /\ ~fits => r.malformed
      BY <2>1, DecodeArgumentFacts
  <2> HIDE DEF length
  <2>3. /\ ~acc.malformed /\ ~acc.bad /\ length \in Nat /\ length <= MaxArgBytes
        /\ r.offset = acc.offset + 1 + length /\ r.offset <= Len(p)
        /\ \A i \in acc.offset + 2 .. r.offset : p[i] # 0
      BY <2>1, <2>2
  <2> QED
      BY <2>3 DEF acc, r, length
<1> DEFINE T == {m \in Nat : m <= n => ~d[n - m].malformed /\ ~d[n - m].bad}
<1>6. 0 \in T
    BY <1>1, <1>3, <1>4
<1>7. ASSUME NEW m \in Nat, m \in T PROVE m + 1 \in T
  <2> SUFFICES ASSUME m + 1 <= n
               PROVE  ~d[n - (m + 1)].malformed /\ ~d[n - (m + 1)].bad
      OBVIOUS
  <2> DEFINE k == n - (m + 1)
  <2>1. k \in Nat /\ k < n /\ k + 1 = n - m /\ m <= n
      BY <1>3
  <2>2. ~d[n - m].malformed /\ ~d[n - m].bad
      BY <1>7, <2>1
  <2> HIDE DEF T, k
  <2>3. ~d[k].malformed /\ ~d[k].bad
      BY <2>1, <2>2, <1>5
  <2> QED
      BY <2>3 DEF k
<1> HIDE DEF T
<1>8. Nat \subseteq T
    BY <1>6, <1>7, NaturalInduction
<1>9. \A k \in 0 .. n : ~d[k].malformed /\ ~d[k].bad
  <2> TAKE k \in 0 .. n
  <2>1. n - k \in T
      BY <1>3, <1>8
  <2>2. n - k <= n /\ n - (n - k) = k
      BY <1>3
  <2> QED
      BY <2>1, <2>2 DEF T
<1>10. n <= MaxArgs
  <2>1. ~(n > MaxArgs)
      BY <1>3, <1>4, <1>9
  <2>2. MaxArgs \in Nat
      BY RpcAssumption
  <2> QED
      BY <2>1, <2>2, <1>3
<1> DEFINE off == [k \in 0 .. n |-> d[k].offset]
<1>11. off \in [0 .. n -> Nat] /\ \A k \in 0 .. n : off[k] = d[k].offset
    BY <1>4 DEF Decoding
<1> HIDE DEF off
<1>12. off[0] = 4 /\ off[n] = Len(p)
    BY <1>1, <1>3, <1>4, <1>11
<1>13. ASSUME NEW k \in Nat, k < n
       PROVE  /\ off[k + 1] = off[k] + 1 + p[off[k] + 1] /\ off[k + 1] <= Len(p)
              /\ p[off[k] + 1] \in Nat /\ p[off[k] + 1] <= MaxArgBytes
              /\ \A i \in off[k] + 2 .. off[k + 1] : p[i] # 0
  <2>1. k \in 0 .. n /\ k + 1 \in 0 .. n
      BY <1>3, <1>13
  <2>2. off[k] = d[k].offset /\ off[k + 1] = d[k + 1].offset
      BY <2>1, <1>11
  <2>3. ~d[k + 1].malformed /\ ~d[k + 1].bad
      BY <2>1, <1>9
  <2> QED
      BY <2>2, <2>3, <1>5, <1>13
<1> QED
    BY <1>1, <1>2, <1>3, <1>10, <1>11, <1>12, <1>13 DEF n

\* The two bytes of an rpc id are its digits to the base 256.
TwoBytes(low, high) == low + 256 * high

LEMMA IdDigits ==
    \A low, high \in Octet : /\ TwoBytes(low, high) \in Nat
                             /\ TwoBytes(low, high) % 256 = low
                             /\ TwoBytes(low, high) \div 256 = high
<1> TAKE low, high \in Octet
<1>1. low \in Nat /\ high \in Nat /\ low <= 255
    BY OctetNat
<1>2. 256 \in Nat \ {0} /\ low \in 0 .. 256 - 1
    BY <1>1
<1>3. (low + 256 * high) % 256 = low /\ (low + 256 * high) \div 256 = high
    BY <1>1, <1>2, Digits
<1>4. low + 256 * high \in Nat
    BY <1>1
<1> QED
    BY <1>3, <1>4 DEF TwoBytes

\* What the decoder accepts is the encoding of a call: no byte is left over,
\* none is missing and every argument is of a legal length without a NUL.
LEMMA DecodedCall ==
    ASSUME NEW p \in Seq(Octet), DecodeRequest(p) = "OK"
    PROVE  \E args \in [1 .. p[3] -> BoundedSeq(Range(p) \ {0}, MaxArgBytes)] :
              p = EncodeRequest(RpcIdOf(p), args)
<1> DEFINE n == p[3]
           B == BoundedSeq(Range(p) \ {0}, MaxArgBytes)
           Id == RpcIdOf(p)
           L == Len(p)
<1>1. L >= 4 /\ p[4] = 0 /\ n \in Nat
    BY DecodedParts
<1>2. L \in Nat /\ \A i \in 1 .. L : p[i] \in Nat /\ p[i] <= 255
  <2>1. L \in Nat /\ \A i \in 1 .. L : p[i] \in Octet
      OBVIOUS
  <2> QED
      BY <2>1, OctetNat
<1>3. PICK off \in [0 .. n -> Nat] :
          /\ off[0] = 4 /\ off[n] = L
          /\ \A k \in Nat : k < n =>
                /\ off[k + 1] = off[k] + 1 + p[off[k] + 1]
                /\ off[k + 1] <= L
                /\ p[off[k] + 1] \in Nat /\ p[off[k] + 1] <= MaxArgBytes
                /\ \A i \in off[k] + 2 .. off[k + 1] : p[i] # 0
    BY DecodedParts
<1> DEFINE args == [i \in 1 .. n |->
                      [j \in 1 .. p[off[i - 1] + 1] |-> p[off[i - 1] + 1 + j]]]
<1>4. \A k \in Nat : k < n =>
          k + 1 \in 1 .. n
          /\ args[k + 1] = [j \in 1 .. p[off[k] + 1] |-> p[off[k] + 1 + j]]
  <2> TAKE k \in Nat
  <2> HAVE k < n
  <2> DEFINE i == k + 1
  <2> HIDE DEF n
  <2>1. i \in 1 .. n /\ i - 1 = k
      BY <1>1
  <2> HIDE DEF i
  <2>2. args[i] = [j \in 1 .. p[off[i - 1] + 1] |-> p[off[i - 1] + 1 + j]]
      BY <2>1
  <2> HIDE DEF args
  <2>3. args[i] = [j \in 1 .. p[off[k] + 1] |-> p[off[k] + 1 + j]]
      BY <2>1, <2>2
  <2> QED
      BY <2>1, <2>3 DEF i
<1>5. \A i \in 1 .. n : i - 1 \in Nat /\ i - 1 < n /\ (i - 1) + 1 = i
  <2> HIDE DEF n
  <2> QED
      BY <1>1
<1>6. args = [i \in 1 .. n |-> args[i]]
    OBVIOUS
<1> HIDE DEF n, args, B, Id, L
<1>7. ASSUME NEW k \in Nat, k < n
      PROVE  /\ args[k + 1] \in Seq(Nat) /\ args[k + 1] \in B
             /\ Len(args[k + 1]) = p[off[k] + 1]
             /\ \A j \in 1 .. p[off[k] + 1] : args[k + 1][j] = p[off[k] + 1 + j]
  <2> DEFINE o == off[k]
             m == p[o + 1]
             a == args[k + 1]
  <2>1. o \in Nat /\ m \in Nat /\ m <= MaxArgBytes /\ o + 1 + m <= L
        /\ \A i \in o + 2 .. o + 1 + m : p[i] # 0
    <3>1. k \in 0 .. n
        BY <1>1, <1>7
    <3>2. off[k] \in Nat
        BY <3>1, <1>3
    <3> QED
        BY <3>2, <1>3, <1>7
  <2>2. a = [j \in 1 .. m |-> p[o + 1 + j]]
      BY <1>4, <1>7
  <2> HIDE DEF o, m, a
  <2>3. \A j \in 1 .. m : /\ o + 1 + j \in 1 .. L /\ p[o + 1 + j] # 0
                          /\ p[o + 1 + j] \in Nat /\ p[o + 1 + j] \in Range(p) \ {0}
    <3> TAKE j \in 1 .. m
    <3>1. o + 1 + j \in 1 .. L /\ o + 1 + j \in o + 2 .. o + 1 + m
        BY <2>1, <1>2
    <3>2. o + 1 + j \in DOMAIN p
        BY <3>1 DEF L
    <3> QED
        BY <3>1, <3>2, <2>1, <1>2 DEF Range
  <2>4. a \in [1 .. m -> Nat] /\ a \in [1 .. m -> Range(p) \ {0}]
      BY <2>2, <2>3
  <2>5. a \in Seq(Nat) /\ Len(a) = m
      BY <2>1, <2>4
  <2>6. a \in B
    <3>1. m \in 0 .. MaxArgBytes
        BY <2>1, RpcAssumption
    <3> QED
        BY <3>1, <2>4 DEF B, BoundedSeq, SeqOf
  <2>7. \A j \in 1 .. m : a[j] = p[o + 1 + j]
      BY <2>2
  <2> QED
      BY <2>5, <2>6, <2>7 DEF o, m, a
<1>8. args \in [1 .. n -> B] /\ args \in [1 .. n -> Seq(Nat)]
  <2>1. \A i \in 1 .. n : args[i] \in B /\ args[i] \in Seq(Nat)
    <3> TAKE i \in 1 .. n
    <3> DEFINE k == i - 1
    <3>1. k \in Nat /\ k < n /\ k + 1 = i
        BY <1>5
    <3> HIDE DEF k
    <3>2. args[k + 1] \in B /\ args[k + 1] \in Seq(Nat)
        BY <3>1, <1>7
    <3> QED
        BY <3>1, <3>2
  <2> QED
      BY <2>1, <1>6
<1>9. Id \in Nat /\ Id % 256 = p[1] /\ Id \div 256 = p[2]
  <2>1. 1 \in 1 .. L /\ 2 \in 1 .. L
      BY <1>1, <1>2
  <2>2. p[1] \in Octet /\ p[2] \in Octet
      BY <2>1 DEF L
  <2>3. Id = TwoBytes(p[1], p[2])
      BY DEF Id, RpcIdOf, TwoBytes
  <2>4. /\ TwoBytes(p[1], p[2]) \in Nat
        /\ TwoBytes(p[1], p[2]) % 256 = p[1]
        /\ TwoBytes(p[1], p[2]) \div 256 = p[2]
      BY <2>2, IdDigits, Zenon
  <2> QED
      BY <2>3, <2>4
<1>a. EncodesInParts(Id, n, args)
  <2>1. n \in Nat /\ args \in [1 .. n -> Seq(Nat)] /\ Id \in Nat
      BY <1>1, <1>8, <1>9
  <2> QED
      BY <2>1, EncodedParts
<1>10. PICK g \in [0 .. n -> Seq(Nat)] :
          /\ g[0] = <<>>
          /\ \A k \in Nat : k < n =>
                /\ Len(g[k + 1]) = Len(g[k]) + 1 + Len(args[k + 1])
                /\ \A j \in 1 .. Len(g[k]) : g[k + 1][j] = g[k][j]
                /\ g[k + 1][Len(g[k]) + 1] = Len(args[k + 1])
                /\ \A j \in 1 .. Len(args[k + 1]) :
                   g[k + 1][Len(g[k]) + 1 + j] = args[k + 1][j]
          /\ EncodeRequest(Id, args)
             = <<Id % 256, Id \div 256, n, 0>> \o g[n]
    BY <1>a DEF EncodesInParts
<1> DEFINE T == {k \in Nat : k <= n =>
                    /\ Len(g[k]) + 4 = off[k]
                    /\ \A j \in 1 .. Len(g[k]) : g[k][j] = p[4 + j]}
<1>11. 0 \in T
  <2>1. Len(g[0]) = 0
      BY <1>10
  <2> QED
      BY <2>1, <1>3
<1>12. ASSUME NEW k \in Nat, k \in T PROVE k + 1 \in T
  <2> SUFFICES ASSUME k + 1 <= n
               PROVE  /\ Len(g[k + 1]) + 4 = off[k + 1]
                      /\ \A j \in 1 .. Len(g[k + 1]) : g[k + 1][j] = p[4 + j]
      OBVIOUS
  <2>1. k < n /\ k <= n /\ k \in 0 .. n
      BY <1>1
  <2>2. Len(g[k]) + 4 = off[k] /\ \A j \in 1 .. Len(g[k]) : g[k][j] = p[4 + j]
      BY <1>12, <2>1
  <2> HIDE DEF T
  <2> DEFINE o == off[k]
             m == p[o + 1]
             l == Len(g[k])
             w == g[k + 1]
             a == args[k + 1]
  <2>3. /\ o \in Nat /\ m \in Nat /\ off[k + 1] = o + 1 + m
        /\ Len(a) = m /\ \A j \in 1 .. m : a[j] = p[o + 1 + j]
    <3>1. off[k] \in Nat
        BY <2>1, <1>3
    <3> QED
        BY <3>1, <2>1, <1>3, <1>7
  <2>4. l \in Nat
    <3>1. g[k] \in Seq(Nat)
        BY <2>1, <1>10
    <3> QED
        BY <3>1
  <2>5. /\ Len(w) = l + 1 + Len(a) /\ \A j \in 1 .. l : w[j] = g[k][j]
        /\ w[l + 1] = Len(a) /\ \A j \in 1 .. Len(a) : w[l + 1 + j] = a[j]
      BY <2>1, <1>10
  <2> HIDE DEF m, l, w, a
  <2>6. l + 4 = o /\ \A j \in 1 .. l : g[k][j] = p[4 + j]
      BY <2>2 DEF l
  <2>m. m = p[o + 1]
      BY DEF m
  <2> HIDE DEF o
  <2>7. Len(w) = l + 1 + m /\ Len(w) + 4 = o + 1 + m
      BY <2>3, <2>4, <2>5, <2>6
  <2>8. ASSUME NEW j \in 1 .. Len(w) PROVE w[j] = p[4 + j]
    <3>1. CASE j \in 1 .. l
        BY <3>1, <2>5, <2>6
    <3>2. CASE j = l + 1
      <4>1. 4 + j = o + 1
          BY <3>2, <2>4, <2>6
      <4> QED
          BY <3>2, <4>1, <2>3, <2>5, <2>m
    <3>3. CASE j \in l + 2 .. l + 1 + m
      <4> DEFINE i == j - l - 1
      <4>1. i \in 1 .. m /\ l + 1 + i = j /\ o + 1 + i = 4 + j
          BY <3>3, <2>3, <2>4, <2>6
      <4> HIDE DEF i
      <4>2. w[l + 1 + i] = a[i] /\ a[i] = p[o + 1 + i]
          BY <4>1, <2>3, <2>5
      <4> QED
          BY <4>1, <4>2
    <3>4. j \in 1 .. l \/ j = l + 1 \/ j \in l + 2 .. l + 1 + m
        BY <2>3, <2>4, <2>7
    <3> QED
        BY <3>1, <3>2, <3>3, <3>4
  <2> QED
      BY <2>3, <2>7, <2>8 DEF w, o
<1> HIDE DEF T
<1>13. n \in T
    BY <1>1, <1>11, <1>12, NaturalInduction
<1> DEFINE h == <<Id % 256, Id \div 256, n, 0>>
           b == g[n]
<1>14. Len(b) + 4 = L /\ \A j \in 1 .. Len(b) : b[j] = p[4 + j]
    BY <1>1, <1>3, <1>13 DEF T
<1>15. b \in Seq(Nat)
    BY <1>1, <1>10
<1>16. /\ h \in Seq(Nat) /\ Len(h) = 4
       /\ h[1] = p[1] /\ h[2] = p[2] /\ h[3] = p[3] /\ h[4] = p[4]
  <2>1. h = <<p[1], p[2], n, 0>>
      BY <1>9
  <2> HIDE DEF h
  <2>2. p[1] \in Nat /\ p[2] \in Nat /\ n \in Nat
    <3>1. 1 \in 1 .. L /\ 2 \in 1 .. L
        BY <1>1, <1>2
    <3> QED
        BY <3>1, <1>1, <1>2
  <2> QED
      BY <2>1, <2>2, <1>1 DEF n
<1> HIDE DEF h, b
<1>17. /\ h \o b \in Seq(Nat) /\ Len(h \o b) = Len(h) + Len(b)
       /\ \A i \in 1 .. Len(h) : (h \o b)[i] = h[i]
       /\ \A i \in 1 .. Len(b) : (h \o b)[Len(h) + i] = b[i]
  <2>1. h \in Seq(Nat) /\ b \in Seq(Nat)
      BY <1>15, <1>16
  <2> QED
      BY <2>1, Concatenation
<1>18. Len(b) \in Nat
    BY <1>15
<1>19. Len(h \o b) = L
    BY <1>14, <1>16, <1>17, <1>18
<1>20. ASSUME NEW i \in 1 .. L PROVE (h \o b)[i] = p[i]
  <2>1. CASE i <= 4
    <3>1. i = 1 \/ i = 2 \/ i = 3 \/ i = 4
        BY <2>1, <1>2
    <3> QED
        BY <3>1, <1>16, <1>17
  <2>2. CASE i > 4
    <3> DEFINE j == i - 4
    <3>1. j \in 1 .. Len(b) /\ 4 + j = i
        BY <2>2, <1>2, <1>14, <1>18
    <3> HIDE DEF j
    <3>2. (h \o b)[Len(h) + j] = b[j] /\ b[j] = p[4 + j]
        BY <3>1, <1>14, <1>17
    <3> QED
        BY <3>1, <3>2, <1>16
  <2>3. i <= 4 \/ i > 4
      BY <1>2
  <2> QED
      BY <2>1, <2>2, <2>3
<1>21. p \in Seq(Nat)
  <2>1. p \in [1 .. L -> Nat]
      BY <1>2 DEF L
  <2> QED
      BY <2>1, <1>2
<1>22. h \o b = p
  <2> DEFINE c == h \o b
  <2>1. c \in Seq(Nat) /\ Len(c) = L /\ \A i \in 1 .. L : c[i] = p[i]
      BY <1>17, <1>19, <1>20
  <2> HIDE DEF c
  <2>2. c = p
      BY <2>1, <1>21, SeqEqual DEF L
  <2> QED
      BY <2>2 DEF c
<1> QED
    BY <1>8, <1>10, <1>22 DEF h, b, n, B, Id

\* A proper call is never turned away as malformed: whatever the host encodes,
\* the decoder finds the arguments where they were put.
LEMMA EncodedCallDecodes ==
    ASSUME NEW p \in Seq(Octet), NEW n \in Nat, NEW args \in [1 .. n -> Seq(Nat)],
           NEW rpc_id \in Nat, p = EncodeRequest(rpc_id, args)
    PROVE  DecodeRequest(p) # "MALFORMED"
<1>1. EncodesInParts(rpc_id, n, args)
    BY EncodedParts
<1>2. PICK g \in [0 .. n -> Seq(Nat)] :
          /\ g[0] = <<>>
          /\ \A k \in Nat : k < n =>
                /\ Len(g[k + 1]) = Len(g[k]) + 1 + Len(args[k + 1])
                /\ \A j \in 1 .. Len(g[k]) : g[k + 1][j] = g[k][j]
                /\ g[k + 1][Len(g[k]) + 1] = Len(args[k + 1])
                /\ \A j \in 1 .. Len(args[k + 1]) :
                      g[k + 1][Len(g[k]) + 1 + j] = args[k + 1][j]
          /\ EncodeRequest(rpc_id, args)
                = <<rpc_id % 256, rpc_id \div 256, n, 0>> \o g[n]
    BY <1>1 DEF EncodesInParts
<1> DEFINE h == <<rpc_id % 256, rpc_id \div 256, n, 0>>
           b == g[n]
           L == Len(p)
<1>3. h \in Seq(Nat) /\ Len(h) = 4 /\ h[3] = n /\ h[4] = 0
  <2>1. rpc_id % 256 \in Nat /\ rpc_id \div 256 \in Nat
      BY Z3
  <2> DEFINE x == rpc_id % 256
             y == rpc_id \div 256
  <2>2. x \in Nat /\ y \in Nat
      BY <2>1
  <2> HIDE DEF x, y
  <2>3. <<x, y, n, 0>> \in Seq(Nat) /\ Len(<<x, y, n, 0>>) = 4
        /\ <<x, y, n, 0>>[3] = n /\ <<x, y, n, 0>>[4] = 0
      BY <2>2
  <2> QED
      BY <2>3 DEF x, y
<1>4. b \in Seq(Nat)
    OBVIOUS
<1>5. p = h \o b
    BY <1>2
<1>6. \A k \in 0 .. n : g[k] \in Seq(Nat) /\ Len(g[k]) \in Nat
    OBVIOUS
<1>7. \A k \in Nat : k < n => Len(args[k + 1]) \in Nat
  <2> TAKE k \in Nat
  <2> HAVE k < n
  <2>1. k + 1 \in 1 .. n
      OBVIOUS
  <2>2. args[k + 1] \in Seq(Nat)
      BY <2>1
  <2> QED
      BY <2>2
<1> HIDE DEF h, b, L
<1>8. /\ L = Len(h) + Len(b)
      /\ \A i \in 1 .. Len(h) : p[i] = h[i]
      /\ \A i \in 1 .. Len(b) : p[Len(h) + i] = b[i]
  <2>1. h \in Seq(Nat) /\ b \in Seq(Nat)
      BY <1>3, <1>4
  <2>2. /\ Len(h \o b) = Len(h) + Len(b)
        /\ \A i \in 1 .. Len(h) : (h \o b)[i] = h[i]
        /\ \A i \in 1 .. Len(b) : (h \o b)[Len(h) + i] = b[i]
      BY <2>1, Concatenation
  <2> QED
      BY <2>2, <1>5 DEF L
<1>9. Len(b) \in Nat /\ L = 4 + Len(b) /\ L \in Nat /\ L >= 4
  <2>1. Len(b) \in Nat
      BY <1>4
  <2> QED
      BY <2>1, <1>3, <1>8
<1>10. p[3] = n /\ p[4] = 0
  <2>1. 3 \in 1 .. Len(h) /\ 4 \in 1 .. Len(h)
      BY <1>3
  <2> QED
      BY <2>1, <1>3, <1>8
<1>11. \A i \in 1 .. Len(b) : p[4 + i] = b[i]
    BY <1>3, <1>8
<1> DEFINE T == {m \in Nat : m <= n =>
                   /\ Len(g[n - m]) <= Len(b)
                   /\ \A j \in 1 .. Len(g[n - m]) : b[j] = g[n - m][j]}
<1>12. 0 \in T
    BY <1>9 DEF b
<1>13. ASSUME NEW m \in Nat, m \in T PROVE m + 1 \in T
  <2> DEFINE k == n - (m + 1)
  <2> SUFFICES ASSUME m + 1 <= n
               PROVE  Len(g[k]) <= Len(b) /\ \A j \in 1 .. Len(g[k]) : b[j] = g[k][j]
      OBVIOUS
  <2>1. k \in Nat /\ k < n /\ k + 1 = n - m /\ m <= n /\ k \in 0 .. n /\ k + 1 \in 0 .. n
      OBVIOUS
  <2>2. Len(g[n - m]) <= Len(b) /\ \A j \in 1 .. Len(g[n - m]) : b[j] = g[n - m][j]
      BY <1>13, <2>1
  <2> HIDE DEF T, k
  <2>3. Len(g[k + 1]) <= Len(b) /\ \A j \in 1 .. Len(g[k + 1]) : b[j] = g[k + 1][j]
      BY <2>1, <2>2
  <2>4. Len(g[k + 1]) = Len(g[k]) + 1 + Len(args[k + 1])
        /\ \A j \in 1 .. Len(g[k]) : g[k + 1][j] = g[k][j]
      BY <2>1, <1>2
  <2>5. Len(g[k]) \in Nat /\ Len(args[k + 1]) \in Nat /\ Len(g[k + 1]) \in Nat
      BY <2>1, <1>6, <1>7
  <2>6. Len(g[k]) <= Len(b) /\ Len(g[k]) <= Len(g[k + 1])
    <3> DEFINE x == Len(g[k])
               y == Len(g[k + 1])
               z == Len(args[k + 1])
               w == Len(b)
    <3>1. x \in Nat /\ y \in Nat /\ z \in Nat /\ w \in Nat /\ y <= w /\ y = x + 1 + z
        BY <2>3, <2>4, <2>5, <1>9
    <3> HIDE DEF x, y, z, w
    <3>2. x <= w /\ x <= y
        BY <3>1
    <3> QED
        BY <3>2 DEF x, y, w
  <2>7. ASSUME NEW j \in 1 .. Len(g[k]) PROVE b[j] = g[k][j]
    <3>1. j \in 1 .. Len(g[k + 1])
        BY <2>5, <2>6
    <3> QED
        BY <3>1, <2>3, <2>4
  <2> QED
      BY <2>6, <2>7
<1> HIDE DEF T
<1>14. Nat \subseteq T
    BY <1>12, <1>13, NaturalInduction
<1>15. \A k \in 0 .. n : /\ Len(g[k]) <= Len(b)
                         /\ \A j \in 1 .. Len(g[k]) : b[j] = g[k][j]
  <2> TAKE k \in 0 .. n
  <2>1. n - k \in T
      BY <1>14
  <2>2. n - k <= n /\ n - (n - k) = k
      OBVIOUS
  <2> QED
      BY <2>1, <2>2 DEF T
<1> DEFINE whole == DecodeArguments(p)
<1>16. PICK d \in [0 .. n -> Decoding] :
          /\ d[0].offset = 4 /\ ~d[0].malformed
          /\ d[0].bad <=> n > MaxArgs
          /\ \A k \in Nat : k < n => d[k + 1] = DecodeArgument(p, d[k])
          /\ whole = d[n]
  <2>1. Len(p) >= 4
      BY <1>9 DEF L
  <2> HIDE DEF whole
  <2> QED
      BY <2>1, <1>10, DecodeLoop DEF whole
<1> HIDE DEF whole
<1> DEFINE U == {k \in Nat : k <= n => ~d[k].malformed /\ d[k].offset = 4 + Len(g[k])}
<1>17. 0 \in U
  <2>1. Len(g[0]) = 0
      BY <1>2
  <2> QED
      BY <2>1, <1>16
<1>18. ASSUME NEW k \in Nat, k \in U PROVE k + 1 \in U
  <2> SUFFICES ASSUME k + 1 <= n
               PROVE  ~d[k + 1].malformed /\ d[k + 1].offset = 4 + Len(g[k + 1])
      OBVIOUS
  <2>1. k < n /\ k <= n /\ k \in 0 .. n /\ k + 1 \in 0 .. n
      OBVIOUS
  <2>2. ~d[k].malformed /\ d[k].offset = 4 + Len(g[k])
      BY <1>18, <2>1
  <2> HIDE DEF U
  <2> DEFINE acc == d[k]
             r == d[k + 1]
             l == Len(g[k])
             m == Len(args[k + 1])
             length == p[acc.offset + 1]
  <2>3. acc \in Decoding /\ r = DecodeArgument(p, acc)
      BY <2>1, <1>16
  <2>4. l \in Nat /\ m \in Nat /\ Len(g[k + 1]) = l + 1 + m /\ l + 1 + m <= Len(b)
      BY <2>1, <1>2, <1>6, <1>7, <1>15
  <2>5. length = m
    <3>1. l + 1 \in 1 .. Len(g[k + 1]) /\ l + 1 \in 1 .. Len(b)
      <4> DEFINE y == Len(g[k + 1])
                 w == Len(b)
      <4>1. l \in Nat /\ m \in Nat /\ w \in Nat /\ y = l + 1 + m /\ l + 1 + m <= w
          BY <2>4, <1>9
      <4> HIDE DEF l, m, y, w
      <4>2. l + 1 \in 1 .. y /\ l + 1 \in 1 .. w
          BY <4>1
      <4> QED
          BY <4>2 DEF y, w
    <3>2. b[l + 1] = g[k + 1][l + 1] /\ g[k + 1][l + 1] = m
        BY <3>1, <2>1, <1>2, <1>15
    <3>3. p[4 + (l + 1)] = b[l + 1]
        BY <3>1, <1>11
    <3>4. acc.offset + 1 = 4 + (l + 1)
        BY <2>2, <2>4
    <3> QED
        BY <3>2, <3>3, <3>4
  <2>6. LET fits == /\ ~acc.malformed /\ acc.offset < Len(p)
                    /\ acc.offset + 1 + length <= Len(p)
        IN /\ fits => /\ ~r.malformed /\ length \in Nat
                      /\ r.offset = acc.offset + 1 + length
           /\ ~fits => r.malformed
    <3> HIDE DEF acc, r
    <3> QED
        BY <2>3, DecodeArgumentFacts
  <2>7. ~acc.malformed /\ acc.offset = 4 + l
      BY <2>2
  <2> HIDE DEF acc, r, length, l, m
  <2>8. acc.offset < Len(p) /\ acc.offset + 1 + length <= Len(p)
      BY <2>4, <2>5, <2>7, <1>9 DEF L
  <2>9. ~r.malformed /\ r.offset = acc.offset + 1 + length
      BY <2>6, <2>7, <2>8
  <2>10. r.offset = 4 + (l + 1 + m)
      BY <2>4, <2>5, <2>7, <2>9
  <2> QED
      BY <2>4, <2>9, <2>10 DEF r
<1> HIDE DEF U
<1>19. n \in U
    BY <1>17, <1>18, NaturalInduction
<1>20. ~whole.malformed /\ whole.offset = L
  <2>1. ~d[n].malformed /\ d[n].offset = 4 + Len(g[n])
      BY <1>19 DEF U
  <2> QED
      BY <2>1, <1>9, <1>16 DEF b
<1>21. ~(Len(p) < 4 \/ p[4] # 0)
    BY <1>9, <1>10 DEF L
<1>22. DecodeRequest(p) = IF whole.bad THEN "BAD_ARGS" ELSE "OK"
    BY <1>20, <1>21 DEF DecodeRequest, whole, L
<1> QED
    BY <1>22

\* The payload tells whether the registry allows the call it encodes.
LEMMA AcceptedIsProper ==
    ASSUME NEW f, f.payload \in Seq(Octet), DecodeRequest(f.payload) = "OK",
           RpcIdOf(f.payload) \in DOMAIN Registry,
           f.payload[3] \in Registry[RpcIdOf(f.payload)].min
                              .. Registry[RpcIdOf(f.payload)].max
    PROVE  WellFormed(f)
<1> DEFINE p == f.payload
           B == BoundedSeq(Range(p) \ {0}, MaxArgBytes)
<1>1. \E args \in [1 .. p[3] -> B] : p = EncodeRequest(RpcIdOf(p), args)
  <2>1. p \in Seq(Octet) /\ DecodeRequest(p) = "OK"
      OBVIOUS
  <2> HIDE DEF p
  <2> QED
      BY <2>1, DecodedCall
<1> HIDE DEF B
<1> QED
    BY <1>1 DEF WellFormed, B

\* What command_registry holds.
LEMMA RegistryFacts ==
    \A r \in DOMAIN Registry :
       r \in Nat /\ Registry[r].min \in Nat /\ Registry[r].max \in Nat
<1>1. DOMAIN Registry \subseteq 1 .. MaxRpcId
    BY RpcAssumption
<1>2. \A r \in DOMAIN Registry :
          Registry[r].min \in Nat /\ Registry[r].max \in 0 .. MaxArgs
    BY RpcAssumption
<1>3. MaxArgs \in Nat
    BY RpcAssumption
<1>4. 1 .. MaxRpcId \subseteq Nat
    BY DEF MaxRpcId
<1> TAKE r \in DOMAIN Registry
<1>5. r \in Nat
    BY <1>1, <1>4
<1>6. Registry[r].min \in Nat /\ Registry[r].max \in 0 .. MaxArgs
    BY <1>2
<1> QED
    BY <1>3, <1>5, <1>6

\* A proper call is decoded, and the registry alone decides what follows.
LEMMA ProperIsDecoded ==
    ASSUME NEW f, f.payload \in Seq(Octet), WellFormed(f)
    PROVE  DecodeRequest(f.payload) # "MALFORMED"
<1> DEFINE p == f.payload
           B == BoundedSeq(Range(p) \ {0}, MaxArgBytes)
<1>1. PICK rpc_id \in DOMAIN Registry :
          \E n \in Registry[rpc_id].min .. Registry[rpc_id].max :
             \E args \in [1 .. n -> B] : p = EncodeRequest(rpc_id, args)
    BY DEF WellFormed
<1>2. rpc_id \in Nat /\ Registry[rpc_id].min \in Nat /\ Registry[rpc_id].max \in Nat
    BY RegistryFacts
<1>3. PICK n \in Registry[rpc_id].min .. Registry[rpc_id].max :
          \E args \in [1 .. n -> B] : p = EncodeRequest(rpc_id, args)
    BY <1>1
<1>4. PICK args \in [1 .. n -> B] : p = EncodeRequest(rpc_id, args)
    BY <1>3
<1>5. n \in Nat
    BY <1>2, <1>3
<1>6. Range(p) \subseteq Nat
    BY OctetNat DEF Range
<1>7. B \subseteq Seq(Nat)
  <2> SUFFICES ASSUME NEW a \in B PROVE a \in Seq(Nat)
      OBVIOUS
  <2>1. PICK m \in 0 .. MaxArgBytes : a \in [1 .. m -> Range(p) \ {0}]
      BY DEF BoundedSeq, SeqOf
  <2>2. m \in Nat
      BY RpcAssumption
  <2>3. a \in [1 .. m -> Nat]
      BY <2>1, <1>6
  <2> QED
      BY <2>2, <2>3
<1> HIDE DEF p, B
<1>8. args \in [1 .. n -> Seq(Nat)]
    BY <1>4, <1>7
<1>9. p \in Seq(Octet)
    BY DEF p
<1>10. DecodeRequest(p) # "MALFORMED"
    BY <1>2, <1>4, <1>5, <1>8, <1>9, EncodedCallDecodes
<1> QED
    BY <1>10 DEF p

\* A sequence of records of no common type is a sequence of its elements.
LEMMA SequenceOfItsElements ==
    ASSUME NEW S, NEW s \in Seq(S)
    PROVE  IsSequence(s) /\ Len(s) \in Nat
<1>1. s \in [1 .. Len(s) -> Range(s)] /\ Len(s) \in Nat
    BY DEF Range
<1>2. s \in Seq(Range(s))
    BY <1>1
<1> QED
    BY <1>1, <1>2 DEF IsSequence

\* What one more frame does to the exchange.
LEMMA Lengthened ==
    ASSUME NEW frames, IsSequence(frames), NEW added
    PROVE  LET all == Append(frames, added)
           IN /\ IsSequence(all) /\ all # <<>>
              /\ Len(frames) \in Nat /\ Len(all) = Len(frames) + 1
              /\ \A i \in 1 .. Len(frames) : all[i] = frames[i]
              /\ all[Len(frames) + 1] = added
<1> DEFINE S == Range(frames) \cup {added}
           all == Append(frames, added)
<1>1. frames \in Seq(S) /\ added \in S
  <2>1. frames \in Seq(Range(frames))
      BY DEF IsSequence
  <2> DEFINE R == Range(frames)
  <2> HIDE DEF R
  <2>2. frames \in Seq(R \cup {added})
      BY <2>1 DEF R
  <2> QED
      BY <2>2 DEF R
<1> HIDE DEF S
<1>2. /\ all \in Seq(S) /\ Len(frames) \in Nat /\ Len(all) = Len(frames) + 1
      /\ \A i \in 1 .. Len(frames) : all[i] = frames[i]
      /\ all[Len(frames) + 1] = added
    BY <1>1
<1> HIDE DEF all
<1>3. IsSequence(all)
    BY <1>2, SequenceOfItsElements
<1>4. all # <<>>
  <2>1. Len(all) # 0
      BY <1>2
  <2> QED
      BY <2>1
<1> QED
    BY <1>2, <1>3, <1>4 DEF all

\* The exchange before its first frame.
LEMMA EmptyOpen == /\ Open(<<>>) /\ All(<<>>) = <<>> /\ Len(<<>>) = 0
                   /\ IsSequence(<<>>) /\ DataPart(<<>>) = 0
                   /\ InOrder(<<>>, 0) /\ Bytes(<<>>, 0) = <<>>
<1>1. Len(<<>>) = 0 /\ DataPart(<<>>) = 0
    BY DEF DataPart
<1>2. IsSequence(<<>>)
    BY DEF IsSequence
<1>3. InOrder(<<>>, 0)
    BY DEF InOrder
<1>4. Bytes(<<>>, 0) = <<>>
  <2>1. \A F : [i \in 1 .. 0 |-> F[i].bytes] = <<>>
      OBVIOUS
  <2>2. FlattenSeq(<<>>) = <<>>
      BY DEF FlattenSeq
  <2> QED
      BY <2>1, <2>2 DEF Bytes
<1> QED
    BY <1>1, <1>2, <1>3, <1>4 DEF Open, All

\* The bytes of the frames in order.
LEMMA BytesType ==
    ASSUME NEW frames, NEW k \in Nat, InOrder(frames, k)
    PROVE  Bytes(frames, k) \in Seq(Printable)
<1> DEFINE A == Seq(Printable)
           seqs == [i \in 1 .. k |-> frames[i].bytes]
<1>1. \A i \in 1 .. k : frames[i].bytes \in A
    BY DEF InOrder
<1>2. Joins(A)
    BY SeqJoins
<1>3. <<>> \in A
    OBVIOUS
<1> HIDE DEF A
<1>4. seqs \in Seq(A)
    BY <1>1
<1> HIDE DEF seqs
<1>5. FlattenSeq(seqs) \in A
    BY <1>2, <1>3, <1>4, FlattenGrows
<1> QED
    BY <1>5 DEF A, seqs, Bytes

\* Frames that agree have the same bytes.
LEMMA SameBytes ==
    ASSUME NEW frames, NEW all, NEW k \in Nat,
           \A i \in 1 .. k : all[i] = frames[i]
    PROVE  /\ Bytes(all, k) = Bytes(frames, k)
           /\ InOrder(frames, k) => InOrder(all, k)
<1>1. [i \in 1 .. k |-> all[i].bytes] = [i \in 1 .. k |-> frames[i].bytes]
    OBVIOUS
<1> QED
    BY <1>1 DEF Bytes, InOrder

\* An accepted RPC_DATA frame adds its bytes.
LEMMA DataAppended ==
    ASSUME NEW frames, Open(frames), NEW added,
           added.kind = "DATA", added.sequence = Len(frames),
           added.bytes \in Seq(Printable)
    PROVE  LET all == Append(frames, added)
           IN /\ Open(all) /\ Len(all) = Len(frames) + 1
              /\ All(all) = All(frames) \o added.bytes
              /\ All(frames) \in Seq(Printable)
<1> DEFINE all == Append(frames, added)
           n == Len(frames)
           A == Seq(Printable)
           before == [i \in 1 .. n |-> frames[i].bytes]
           after == [i \in 1 .. n + 1 |-> all[i].bytes]
<1>1. IsSequence(frames) /\ InOrder(frames, n)
    BY DEF Open
<1>2. /\ IsSequence(all) /\ all # <<>>
      /\ n \in Nat /\ Len(all) = n + 1
      /\ \A i \in 1 .. n : all[i] = frames[i]
      /\ all[n + 1] = added
    BY <1>1, Lengthened
<1> HIDE DEF all, n
<1>3. \A i \in 1 .. n : frames[i].bytes \in A
    BY <1>1 DEF InOrder
<1>4. Joins(A)
    BY SeqJoins
<1>5. added.bytes \in A /\ added.kind = "DATA" /\ added.sequence = n
    BY DEF n
<1> HIDE DEF A
<1>6. before \in Seq(A) /\ Len(before) = n
    BY <1>2, <1>3
<1>7. after = Append(before, added.bytes)
  <2> DEFINE b == added.bytes
             c == Append(before, b)
  <2>1. c \in Seq(A) /\ Len(c) = n + 1 /\ c[n + 1] = b
        /\ \A i \in 1 .. n : c[i] = before[i]
    <3> HIDE DEF before, b
    <3>1. b \in A
        BY <1>5 DEF b
    <3> QED
        BY <3>1, <1>6, <1>2
  <2>2. \A i \in 1 .. n : before[i] = frames[i].bytes
      OBVIOUS
  <2>3. \A i \in 1 .. n + 1 : all[i].bytes = IF i = n + 1 THEN b ELSE frames[i].bytes
    <3> TAKE i \in 1 .. n + 1
    <3>1. CASE i = n + 1
        BY <3>1, <1>2
    <3>2. CASE i # n + 1
      <4>1. i \in 1 .. n
          BY <3>2, <1>2
      <4> QED
          BY <4>1, <3>2, <1>2
    <3> QED
        BY <3>1, <3>2
  <2> HIDE DEF before, c, b
  <2>4. \A i \in 1 .. n + 1 : all[i].bytes = c[i]
    <3> TAKE i \in 1 .. n + 1
    <3>1. i = n + 1 \/ i \in 1 .. n
        BY <1>2
    <3>2. i \in 1 .. n => i # n + 1
        BY <1>2
    <3> QED
        BY <3>1, <3>2, <2>1, <2>2, <2>3
  <2>5. \A i \in 1 .. n + 1 : c[i] \in A
    <3>1. n + 1 = Len(c)
        BY <2>1
    <3> QED
        BY <2>1, <3>1
  <2>6. after \in Seq(A) /\ Len(after) = n + 1 /\ \A i \in 1 .. n + 1 : after[i] = c[i]
    <3>1. after \in [1 .. n + 1 -> A]
        BY <2>4, <2>5
    <3>2. n + 1 \in Nat
        BY <1>2
    <3>3. \A i \in 1 .. n + 1 : after[i] = c[i]
        BY <2>4
    <3> HIDE DEF after
    <3> QED
        BY <3>1, <3>2, <3>3
  <2> HIDE DEF after
  <2>7. after = c
      BY <2>1, <2>6, SeqEqual
  <2> QED
      BY <2>7 DEF c, b
<1> HIDE DEF before, after
<1>8. /\ FlattenSeq(before) \in A
      /\ FlattenSeq(Append(before, added.bytes)) = FlattenSeq(before) \o added.bytes
    BY <1>4, <1>5, <1>6, FlattenGrows
<1>9. All(frames) = FlattenSeq(before)
    BY DEF All, Bytes, before, n
<1>10. All(all) = FlattenSeq(after)
    BY <1>2 DEF All, Bytes, after
<1>11. DataPart(all) = n + 1
  <2>1. all[Len(all)].kind = "DATA"
      BY <1>2, <1>5
  <2> QED
      BY <2>1, <1>2 DEF DataPart
<1>12. InOrder(all, n + 1)
  <2> SUFFICES ASSUME NEW i \in 1 .. n + 1
               PROVE  /\ all[i].kind = "DATA" /\ all[i].sequence = i - 1
                      /\ all[i].bytes \in Seq(Printable)
      BY DEF InOrder
  <2>1. CASE i = n + 1
    <3>1. all[i] = added /\ i - 1 = n
        BY <2>1, <1>2
    <3> QED
        BY <3>1, <1>5 DEF A
  <2>2. CASE i # n + 1
    <3>1. i \in 1 .. n
        BY <2>2, <1>2
    <3>2. all[i] = frames[i]
        BY <3>1, <1>2
    <3> QED
        BY <3>1, <3>2, <1>1 DEF InOrder
  <2> QED
      BY <2>1, <2>2
<1>13. Open(all) /\ Len(all) = n + 1
    BY <1>2, <1>11, <1>12 DEF Open
<1>14. All(all) = All(frames) \o added.bytes /\ All(frames) \in Seq(Printable)
    BY <1>7, <1>8, <1>9, <1>10 DEF A
<1> QED
    BY <1>13, <1>14 DEF all, n

\* Any other frame closes the exchange and leaves its data alone.
LEMMA CloseAppended ==
    ASSUME NEW frames, Open(frames), NEW added, added.kind # "DATA"
    PROVE  LET all == Append(frames, added)
           IN /\ IsSequence(all) /\ Len(frames) \in Nat
              /\ Len(all) = Len(frames) + 1
              /\ DataPart(all) = Len(frames) /\ InOrder(all, Len(frames))
              /\ Bytes(all, Len(frames)) = All(frames)
              /\ all[Len(all)] = added
<1> DEFINE all == Append(frames, added)
           n == Len(frames)
<1>1. IsSequence(frames) /\ InOrder(frames, n)
    BY DEF Open
<1>2. /\ IsSequence(all) /\ all # <<>>
      /\ n \in Nat /\ Len(all) = n + 1
      /\ \A i \in 1 .. n : all[i] = frames[i]
      /\ all[n + 1] = added
    BY <1>1, Lengthened
<1> HIDE DEF all
<1>3. all[Len(all)] = added
    BY <1>2
<1>4. DataPart(all) = n
  <2>1. Len(all) - 1 = n
      BY <1>2
  <2> QED
      BY <2>1, <1>2, <1>3 DEF DataPart
<1> HIDE DEF n
<1>5. Bytes(all, n) = Bytes(frames, n) /\ InOrder(all, n)
    BY <1>1, <1>2, SameBytes
<1> QED
    BY <1>2, <1>3, <1>4, <1>5 DEF all, n, All
-----------------------------------------------------------------------------
\* The fields the host reads.
LEMMA FrameFields ==
    /\ \A id, rpc_id, sequence, bytes :
          LET d == Data(id, rpc_id, sequence, bytes)
          IN d.kind = "DATA" /\ d.sequence = sequence /\ d.bytes = bytes
    /\ \A id, rpc_id, chunks, total, domain, status :
          LET e == End(id, rpc_id, chunks, total, domain, status)
          IN /\ e.kind = "END" /\ e.chunks = chunks /\ e.total = total
             /\ e.domain = domain /\ e.status = status
    /\ \A f, rpc_id, domain, status :
          LET e == SimpleEnd(f, rpc_id, domain, status)
          IN /\ e.kind = "END" /\ e.chunks = 0 /\ e.total = 0
             /\ e.domain = domain /\ e.status = status
    /\ \A id, code : ProtocolError(id, code).kind = "PROTOCOL_ERROR"
    /\ \A id : Hello(id).kind = "HELLO_RESPONSE"
    BY DEF Data, End, SimpleEnd, ProtocolError, Hello

\* An answer of one frame, that is no data and counts none.
LoneAnswer(answer) ==
    /\ answer # <<>> /\ answer = <<answer[1]>>
    /\ answer[1].kind \in {"END", "PROTOCOL_ERROR", "HELLO_RESPONSE"}
    /\ answer[1].kind = "END" => answer[1].chunks = 0 /\ answer[1].total = 0

\* A sequence of one.
LEMMA Singletons == \A x : <<x>> # <<>> /\ <<x>>[1] = x
    OBVIOUS

\* Every answer of binary_rpc_handle_frame that runs no method is such a frame.
LEMMA LoneAnswers ==
    /\ \A f, rpc_id, domain, status : LoneAnswer(<<SimpleEnd(f, rpc_id, domain, status)>>)
    /\ \A id, code : LoneAnswer(<<ProtocolError(id, code)>>)
    /\ \A id : LoneAnswer(<<Hello(id)>>)
<1>1. ASSUME NEW x, x.kind \in {"END", "PROTOCOL_ERROR", "HELLO_RESPONSE"},
             x.kind = "END" => x.chunks = 0 /\ x.total = 0
      PROVE  LoneAnswer(<<x>>)
    BY <1>1, Singletons DEF LoneAnswer
<1>2. \A f, rpc_id, domain, status : LoneAnswer(<<SimpleEnd(f, rpc_id, domain, status)>>)
  <2> TAKE f, rpc_id, domain, status
  <2>1. LET e == SimpleEnd(f, rpc_id, domain, status)
        IN e.kind = "END" /\ e.chunks = 0 /\ e.total = 0
      BY FrameFields
  <2> QED
      BY <2>1, <1>1
<1>3. \A id, code : LoneAnswer(<<ProtocolError(id, code)>>)
    BY FrameFields, <1>1
<1>4. \A id : LoneAnswer(<<Hello(id)>>)
    BY FrameFields, <1>1
<1> QED
    BY <1>2, <1>3, <1>4

\* A request is refused with one frame, or its method may run.
LEMMA RefuseRpcFacts ==
    ASSUME NEW f
    PROVE  LET answer == RefuseRpc(f)
               id == RpcIdOf(f.payload)
           IN \/ /\ LoneAnswer(answer)
                 /\ (DecodeRequest(f.payload) # "MALFORMED"
                      /\ answer[1].kind = "END" /\ answer[1].domain = "PROTOCOL")
                       => answer[1].status \in {"BAD_FLAGS",
                                                "DESTRUCTIVE_CONFIRM_REQUIRED"}
              \/ /\ answer = <<>> /\ f.flags \in {0, AllowDestructive}
                 /\ DecodeRequest(f.payload) = "OK" /\ id \in DOMAIN Registry
                 /\ f.payload[3] \in Registry[id].min .. Registry[id].max
                 /\ Registry[id].class = "DESTRUCTIVE" => f.flags = AllowDestructive
<1> DEFINE answer == RefuseRpc(f)
           decoded == DecodeRequest(f.payload)
           id == RpcIdOf(f.payload)
           few == f.payload[3] \notin Registry[id].min .. Registry[id].max
           unsure == Registry[id].class = "DESTRUCTIVE" /\ f.flags # AllowDestructive
           Fits(a) == /\ LoneAnswer(a)
                      /\ (decoded # "MALFORMED" /\ a[1].kind = "END"
                           /\ a[1].domain = "PROTOCOL")
                            => a[1].status \in {"BAD_FLAGS",
                                                "DESTRUCTIVE_CONFIRM_REQUIRED"}
<1>1. decoded \in {"MALFORMED", "BAD_ARGS", "OK"}
    BY DEF DecodeRequest
<1>2. \A i, c : Fits(<<ProtocolError(i, c)>>)
  <2> TAKE i, c
  <2> DEFINE x == ProtocolError(i, c)
  <2>1. x.kind # "END" /\ LoneAnswer(<<x>>) /\ <<x>>[1] = x
      BY FrameFields, LoneAnswers, Singletons
  <2> HIDE DEF x, decoded
  <2> QED
      BY <2>1 DEF x
<1>3. ASSUME NEW i, NEW d, NEW s,
             \/ d = "COMMAND" \/ decoded = "MALFORMED"
             \/ s \in {"BAD_FLAGS", "DESTRUCTIVE_CONFIRM_REQUIRED"}
      PROVE  Fits(<<SimpleEnd(f, i, d, s)>>)
  <2> DEFINE x == SimpleEnd(f, i, d, s)
  <2>1. x.domain = d /\ x.status = s /\ LoneAnswer(<<x>>) /\ <<x>>[1] = x
      BY FrameFields, LoneAnswers, Singletons
  <2> HIDE DEF x, decoded
  <2> QED
      BY <1>3, <2>1 DEF x
<1> SUFFICES \/ Fits(answer)
             \/ /\ answer = <<>> /\ f.flags \in {0, AllowDestructive} /\ decoded = "OK"
                /\ id \in DOMAIN Registry /\ ~few /\ ~unsure
    OBVIOUS
<1>4. answer =
         IF f.flags \notin {0, AllowDestructive}
           THEN IF Len(f.payload) >= 2
                  THEN <<SimpleEnd(f, id, "PROTOCOL", "BAD_FLAGS")>>
                  ELSE <<ProtocolError(f.id, "BAD_FLAGS")>>
         ELSE IF decoded = "MALFORMED"
           THEN IF Len(f.payload) >= 2
                  THEN <<SimpleEnd(f, IdWhenMalformed(f.payload), "PROTOCOL",
                                   "MALFORMED_REQUEST")>>
                  ELSE <<ProtocolError(f.id, "MALFORMED_REQUEST")>>
         ELSE IF id \notin DOMAIN Registry
           THEN <<SimpleEnd(f, id, "COMMAND", "NOT_FOUND")>>
         ELSE IF decoded = "BAD_ARGS" \/ few
           THEN <<SimpleEnd(f, id, "COMMAND", "BAD_ARGS")>>
         ELSE IF unsure
           THEN <<SimpleEnd(f, id, "PROTOCOL", "DESTRUCTIVE_CONFIRM_REQUIRED")>>
         ELSE <<>>
    BY DEF RefuseRpc
<1> HIDE DEF answer, few, unsure, decoded, Fits
<1>5. CASE f.flags \notin {0, AllowDestructive}
  <2>1. Fits(<<SimpleEnd(f, id, "PROTOCOL", "BAD_FLAGS")>>)
      BY <1>3
  <2> QED
      BY <2>1, <1>2, <1>4, <1>5
<1>6. CASE f.flags \in {0, AllowDestructive} /\ decoded = "MALFORMED"
  <2>1. Fits(<<SimpleEnd(f, IdWhenMalformed(f.payload), "PROTOCOL",
                         "MALFORMED_REQUEST")>>)
      BY <1>3, <1>6
  <2> QED
      BY <2>1, <1>2, <1>4, <1>6
<1>7. CASE f.flags \in {0, AllowDestructive} /\ decoded # "MALFORMED"
           /\ id \notin DOMAIN Registry
  <2>1. Fits(<<SimpleEnd(f, id, "COMMAND", "NOT_FOUND")>>)
      BY <1>3
  <2> QED
      BY <2>1, <1>4, <1>7
<1>8. CASE f.flags \in {0, AllowDestructive} /\ decoded # "MALFORMED"
           /\ id \in DOMAIN Registry /\ (decoded = "BAD_ARGS" \/ few)
  <2>1. Fits(<<SimpleEnd(f, id, "COMMAND", "BAD_ARGS")>>)
      BY <1>3
  <2> QED
      BY <2>1, <1>4, <1>8
<1>9. CASE f.flags \in {0, AllowDestructive} /\ decoded # "MALFORMED"
           /\ id \in DOMAIN Registry /\ ~(decoded = "BAD_ARGS" \/ few) /\ unsure
  <2>1. Fits(<<SimpleEnd(f, id, "PROTOCOL", "DESTRUCTIVE_CONFIRM_REQUIRED")>>)
      BY <1>3
  <2> QED
      BY <2>1, <1>4, <1>9
<1>10. CASE f.flags \in {0, AllowDestructive} /\ decoded # "MALFORMED"
            /\ id \in DOMAIN Registry /\ ~(decoded = "BAD_ARGS" \/ few) /\ ~unsure
    BY <1>1, <1>4, <1>10
<1> QED
    BY <1>5, <1>6, <1>7, <1>8, <1>9, <1>10

\* The same of binary_rpc_handle_frame as a whole.
LEMMA RefuseFacts ==
    ASSUME NEW f
    PROVE  LET answer == Refuse(f)
               id == RpcIdOf(f.payload)
           IN \/ /\ LoneAnswer(answer)
                 /\ (f.type = "RPC_REQUEST" /\ DecodeRequest(f.payload) # "MALFORMED"
                      /\ answer[1].kind = "END" /\ answer[1].domain = "PROTOCOL")
                       => answer[1].status \in {"BAD_FLAGS",
                                                "DESTRUCTIVE_CONFIRM_REQUIRED"}
              \/ /\ answer = <<>> /\ f.flags \in {0, AllowDestructive}
                 /\ DecodeRequest(f.payload) = "OK" /\ id \in DOMAIN Registry
                 /\ f.payload[3] \in Registry[id].min .. Registry[id].max
                 /\ Registry[id].class = "DESTRUCTIVE" => f.flags = AllowDestructive
<1> DEFINE answer == Refuse(f)
           Fits(a) == /\ LoneAnswer(a)
                      /\ (f.type = "RPC_REQUEST" /\ DecodeRequest(f.payload) # "MALFORMED"
                           /\ a[1].kind = "END" /\ a[1].domain = "PROTOCOL")
                            => a[1].status \in {"BAD_FLAGS",
                                                "DESTRUCTIVE_CONFIRM_REQUIRED"}
<1>1. \A i, c : Fits(<<ProtocolError(i, c)>>)
  <2> TAKE i, c
  <2> DEFINE x == ProtocolError(i, c)
  <2>1. x.kind # "END" /\ LoneAnswer(<<x>>) /\ <<x>>[1] = x
      BY FrameFields, LoneAnswers, Singletons
  <2> HIDE DEF x
  <2> QED
      BY <2>1 DEF x
<1>2. \A i : Fits(<<Hello(i)>>)
  <2> TAKE i
  <2> DEFINE x == Hello(i)
  <2>1. x.kind # "END" /\ LoneAnswer(<<x>>) /\ <<x>>[1] = x
      BY FrameFields, LoneAnswers, Singletons
  <2> HIDE DEF x
  <2> QED
      BY <2>1 DEF x
<1>3. \/ \E i, c : answer = <<ProtocolError(i, c)>>
      \/ \E i : answer = <<Hello(i)>>
      \/ f.type = "RPC_REQUEST" /\ answer = RefuseRpc(f)
    BY DEF Refuse
<1> HIDE DEF answer
<1>4. CASE \E i, c : answer = <<ProtocolError(i, c)>>
  <2>1. Fits(answer)
    <3> HIDE DEF Fits
    <3> QED
        BY <1>1, <1>4
  <2> QED
      BY <2>1 DEF answer
<1>5. CASE \E i : answer = <<Hello(i)>>
  <2>1. Fits(answer)
    <3> HIDE DEF Fits
    <3> QED
        BY <1>2, <1>5
  <2> QED
      BY <2>1 DEF answer
<1>6. CASE f.type = "RPC_REQUEST" /\ answer = RefuseRpc(f)
    BY <1>6, RefuseRpcFacts DEF answer
<1> QED
    BY <1>3, <1>4, <1>5, <1>6

\* A method runs only for a proper call, confirmed when it is destructive.
LEMMA AcceptedFacts ==
    ASSUME NEW f \in Requests, Refuse(f) = <<>>
    PROVE  /\ WellFormed(f)
           /\ Registry[RpcIdOf(f.payload)].class = "DESTRUCTIVE"
                => f.flags = AllowDestructive
<1>1. f.payload \in Seq(Octet)
    BY RpcAssumption
<1>2. ~LoneAnswer(Refuse(f))
    BY DEF LoneAnswer
<1>3. /\ DecodeRequest(f.payload) = "OK" /\ RpcIdOf(f.payload) \in DOMAIN Registry
      /\ f.payload[3] \in Registry[RpcIdOf(f.payload)].min
                          .. Registry[RpcIdOf(f.payload)].max
      /\ Registry[RpcIdOf(f.payload)].class = "DESTRUCTIVE"
            => f.flags = AllowDestructive
    BY <1>2, RefuseFacts
<1>4. WellFormed(f)
    BY <1>1, <1>3, AcceptedIsProper
<1> QED
    BY <1>3, <1>4

\* The frames the properties count are the ones before the closing frame.
LEMMA CountsData ==
    ASSUME IsSequence(exchange), InOrder(exchange, DataPart(exchange))
    PROVE  /\ DataCount = DataPart(exchange) /\ DataPart(exchange) \in Nat
           /\ DataPart(exchange) <= Len(exchange) /\ Len(exchange) \in Nat
           /\ Delivered = Bytes(exchange, DataPart(exchange))
<1> DEFINE n == Len(exchange)
           m == DataPart(exchange)
           D == {i \in DOMAIN exchange : exchange[i].kind = "DATA"}
<1>1. n \in Nat /\ DOMAIN exchange = 1 .. n /\ (n = 0 <=> exchange = <<>>)
  <2> DEFINE R == Range(exchange)
  <2>1. exchange \in Seq(R)
      BY DEF IsSequence
  <2> HIDE DEF R
  <2> QED
      BY <2>1
<1>2. m \in Nat /\ m <= n /\ (m = n \/ (m = n - 1 /\ exchange[n].kind # "DATA"))
  <2>1. m = IF exchange # <<>> /\ exchange[n].kind # "DATA" THEN n - 1 ELSE n
      BY DEF DataPart
  <2> HIDE DEF m, n
  <2> QED
      BY <2>1, <1>1
<1>3. \A i \in 1 .. m : exchange[i].kind = "DATA"
    BY DEF InOrder
<1> HIDE DEF m, n
<1>4. D = 1 .. m
  <2>1. ASSUME NEW i \in 1 .. n PROVE (exchange[i].kind = "DATA") <=> i \in 1 .. m
    <3>1. CASE i \in 1 .. m
        BY <3>1, <1>3
    <3>2. CASE i \notin 1 .. m
      <4>1. m = n - 1 /\ exchange[n].kind # "DATA" /\ i = n
          BY <3>2, <1>1, <1>2
      <4> QED
          BY <3>2, <4>1
    <3> QED
        BY <3>1, <3>2
  <2>2. 1 .. m \subseteq 1 .. n
      BY <1>1, <1>2
  <2> QED
      BY <1>1, <2>1, <2>2
<1>5. Cardinality(1 .. m) = m
  <2>1. m \in Int /\ 1 \in Int
      BY <1>2
  <2>2. Cardinality(1 .. m) = IF 1 > m THEN 0 ELSE m - 1 + 1
      BY <2>1, FS_Interval
  <2> QED
      BY <2>2, <1>2
<1>6. DataCount = m
    BY <1>4, <1>5 DEF DataCount
<1> QED
    BY <1>1, <1>2, <1>6 DEF Delivered, Bytes, m, n

\* Whether or not the method ran, the data is in order.
LEMMA ExchangeInOrder ==
    ASSUME RpcInv
    PROVE  /\ InOrder(exchange, DataPart(exchange))
           /\ ~executed => /\ DataPart(exchange) = 0
                           /\ phase = "idle" /\ output = <<>>
                           /\ exchange # <<>> =>
                                 /\ request \in Requests
                                 /\ LoneAnswer(Refuse(request))
                                 /\ exchange = <<Refuse(request)[1]>>
<1>1. CASE executed
    BY <1>1 DEF RpcInv, CallInv
<1>2. CASE ~executed
  <2>1. /\ phase = "idle" /\ output = <<>>
        /\ \/ exchange = <<>>
           \/ /\ request \in Requests /\ Refuse(request) # <<>>
              /\ exchange = <<Refuse(request)[1]>>
      BY <1>2 DEF RpcInv, AnswerInv
  <2>2. CASE exchange = <<>>
    <3>1. DataPart(exchange) = 0 /\ InOrder(exchange, 0)
        BY <2>2, EmptyOpen
    <3> QED
        BY <2>1, <2>2, <3>1, <1>2
  <2>3. CASE exchange # <<>>
    <3> DEFINE x == Refuse(request)[1]
    <3>1. LoneAnswer(Refuse(request)) /\ exchange = <<x>> /\ request \in Requests
        BY <2>1, <2>3, RefuseFacts
    <3>2. x.kind # "DATA"
        BY <3>1 DEF LoneAnswer
    <3> HIDE DEF x
    <3>3. Len(exchange) = 1 /\ exchange[1] = x
        BY <3>1
    <3>4. DataPart(exchange) = 0
        BY <2>3, <3>2, <3>3 DEF DataPart
    <3>5. InOrder(exchange, 0)
        BY DEF InOrder
    <3> QED
        BY <2>1, <3>1, <3>4, <3>5, <1>2 DEF x
  <2> QED
      BY <2>2, <2>3
<1> QED
    BY <1>1, <1>2

\* An exchange that ended is idle, and its last frame is no data.
LEMMA EndedFacts ==
    ASSUME RpcInv, Ended
    PROVE  /\ exchange # <<>> /\ Last(exchange) = exchange[Len(exchange)]
           /\ Last(exchange).kind = "END"
           /\ DataPart(exchange) = Len(exchange) - 1
           /\ phase = "idle"
           /\ executed =>
                 /\ Last(exchange).domain = "COMMAND"
                 /\ Last(exchange).chunks = DataPart(exchange)
                 /\ Last(exchange).total = Len(Bytes(exchange, DataPart(exchange)))
                 /\ Last(exchange).status = "OK"
                       => Bytes(exchange, DataPart(exchange)) = output
           /\ ~executed => Last(exchange).chunks = 0 /\ Last(exchange).total = 0
                           /\ Last(exchange) = Refuse(request)[1]
<1>1. exchange # <<>> /\ Last(exchange) = exchange[Len(exchange)]
      /\ Last(exchange).kind = "END"
    BY DEF Ended, Last
<1>2. DataPart(exchange) = Len(exchange) - 1
    BY <1>1 DEF DataPart
<1>3. Len(exchange) \in Nat /\ DataPart(exchange) < Len(exchange)
  <2>1. Len(exchange) \in Nat
      BY ExchangeInOrder, CountsData DEF RpcInv
  <2> QED
      BY <2>1, <1>2
<1>4. phase = "idle"
  <2>1. CASE ~executed
      BY <2>1, ExchangeInOrder
  <2>2. CASE executed
    <3>1. MethodInv /\ TrippedInv /\ phase \in {"idle", "method", "tripped"}
        BY <2>2 DEF RpcInv, CallInv, RpcTypeOK
    <3>2. DataPart(exchange) # Len(exchange)
        BY <1>3
    <3> QED
        BY <3>1, <3>2 DEF MethodInv, TrippedInv
  <2> QED
      BY <2>1, <2>2
<1>5. ASSUME executed
      PROVE  /\ Last(exchange).domain = "COMMAND"
             /\ Last(exchange).chunks = DataPart(exchange)
             /\ Last(exchange).total = Len(Bytes(exchange, DataPart(exchange)))
             /\ Last(exchange).status = "OK"
                   => Bytes(exchange, DataPart(exchange)) = output
  <2>1. ClosedInv
      BY <1>5 DEF RpcInv, CallInv
  <2> QED
      BY <2>1, <1>1, <1>3, <1>4 DEF ClosedInv
<1>6. ASSUME ~executed
      PROVE  /\ Last(exchange).chunks = 0 /\ Last(exchange).total = 0
             /\ Last(exchange) = Refuse(request)[1]
  <2> DEFINE x == Refuse(request)[1]
  <2>1. LoneAnswer(Refuse(request)) /\ exchange = <<x>>
      BY <1>1, <1>6, ExchangeInOrder
  <2>2. x.kind = "END" => x.chunks = 0 /\ x.total = 0
      BY <2>1 DEF LoneAnswer
  <2> HIDE DEF x
  <2>3. Len(exchange) = 1 /\ exchange[1] = x
      BY <2>1
  <2>4. Last(exchange) = x
      BY <2>3, <1>1
  <2> QED
      BY <2>2, <2>4, <1>1 DEF x
<1> QED
    BY <1>1, <1>2, <1>4, <1>5, <1>6

\* The invariant says that the answers are honest.
LEMMA HonestFromInv == RpcInv => AnswersAreHonest
<1> SUFFICES ASSUME RpcInv PROVE AnswersAreHonest
    OBVIOUS
<1> DEFINE m == DataPart(exchange)
           b == Bytes(exchange, m)
<1>1. RpcTypeOK
    BY DEF RpcInv
<1>2. InOrder(exchange, m) /\ IsSequence(exchange)
    BY ExchangeInOrder DEF RpcInv
<1>3. DataCount = m /\ m \in Nat /\ Delivered = b
    BY <1>2, CountsData
<1>4. ASSUME ~executed PROVE m = 0 /\ b = <<>> /\ output = <<>> /\ phase = "idle"
  <2>1. m = 0 /\ output = <<>> /\ phase = "idle"
      BY <1>4, ExchangeInOrder
  <2>2. [i \in 1 .. 0 |-> exchange[i].bytes] = <<>>
      OBVIOUS
  <2>3. Bytes(exchange, 0) = <<>>
      BY <2>2, EmptyOpen DEF Bytes
  <2> QED
      BY <2>1, <2>3
<1>5. EndCountsWhatWasSent
  <2>1. \A i \in 1 .. m : exchange[i].kind = "DATA" /\ exchange[i].sequence = i - 1
      BY <1>2 DEF InOrder
  <2>2. ASSUME Ended PROVE Last(exchange).chunks = m /\ Last(exchange).total = Len(b)
    <3> HIDE DEF m, b
    <3>1. CASE executed
        BY <2>2, <3>1, EndedFacts DEF m, b
    <3>2. CASE ~executed
      <4>1. Last(exchange).chunks = 0 /\ Last(exchange).total = 0
          BY <2>2, <3>2, EndedFacts
      <4>2. Len(b) = 0
          BY <3>2, <1>4
      <4> QED
          BY <4>1, <4>2, <3>2, <1>4
    <3> QED
        BY <3>1, <3>2
  <2> HIDE DEF m, b
  <2> QED
      BY <2>1, <2>2, <1>3 DEF EndCountsWhatWasSent
<1>6. OkIsComplete
  <2>1. IsPrefix(b, output)
    <3>1. CASE executed
        BY <3>1 DEF RpcInv, CallInv
    <3>2. CASE ~executed
      <4>1. b = <<>> /\ output = <<>>
          BY <3>2, <1>4
      <4>2. IsPrefix(<<>>, <<>>)
          BY DEF IsPrefix
      <4> HIDE DEF b
      <4> QED
          BY <4>1, <4>2
    <3> QED
        BY <3>1, <3>2
  <2>2. ASSUME executed, Ended, Last(exchange).status = "OK" PROVE b = output
      BY <2>2, EndedFacts
  <2> HIDE DEF b
  <2> QED
      BY <2>1, <2>2, <1>3 DEF OkIsComplete
<1>7. TripConfirmedAndAnnounced
  <2> SUFFICES ASSUME phase = "tripped"
               PROVE  request.flags = AllowDestructive /\ Delivered = TripText
      BY DEF TripConfirmedAndAnnounced
  <2>1. executed
      BY <1>4
  <2>2. /\ m = Len(exchange) /\ request.flags = AllowDestructive
        /\ Bytes(exchange, Len(exchange)) = TripText
      BY <2>1 DEF RpcInv, CallInv, TrippedInv
  <2> QED
      BY <2>2, <1>3
<1> QED
    BY <1>1, <1>5, <1>6, <1>7 DEF AnswersAreHonest

\* The invariant says that only proper calls run and none is taken for malformed.
LEMMA ProperFromInv == RpcInv => RunsExactlyProperCalls
<1> SUFFICES ASSUME RpcInv PROVE RunsExactlyProperCalls
    OBVIOUS
<1>1. ASSUME executed PROVE WellFormed(request)
  <2>1. request \in Requests /\ Refuse(request) = <<>>
      BY <1>1 DEF RpcInv, CallInv
  <2> QED
      BY <2>1, AcceptedFacts
<1>2. ASSUME WellFormed(request), request.type = "RPC_REQUEST", Ended,
             Last(exchange).domain = "PROTOCOL"
      PROVE  Last(exchange).status \in {"BAD_FLAGS", "DESTRUCTIVE_CONFIRM_REQUIRED"}
  <2>1. ~executed
      BY <1>2, EndedFacts
  <2> DEFINE x == Refuse(request)[1]
  <2>2. Last(exchange) = x /\ x.kind = "END"
      BY <1>2, <2>1, EndedFacts
  <2>3. LoneAnswer(Refuse(request)) /\ request \in Requests
      BY <1>2, <2>1, EndedFacts, ExchangeInOrder
  <2>4. request.payload \in Seq(Octet)
      BY <2>3, RpcAssumption
  <2>5. DecodeRequest(request.payload) # "MALFORMED"
      BY <1>2, <2>4, ProperIsDecoded
  <2>6. (request.type = "RPC_REQUEST" /\ DecodeRequest(request.payload) # "MALFORMED"
          /\ x.kind = "END" /\ x.domain = "PROTOCOL")
            => x.status \in {"BAD_FLAGS", "DESTRUCTIVE_CONFIRM_REQUIRED"}
    <3>1. Refuse(request) # <<>>
        BY <2>3 DEF LoneAnswer
    <3> QED
        BY <3>1, RefuseFacts
  <2> HIDE DEF x
  <2> QED
      BY <1>2, <2>2, <2>5, <2>6
<1> QED
    BY <1>1, <1>2 DEF RunsExactlyProperCalls
-----------------------------------------------------------------------------
\* What is delivered stays a prefix of the output when it is all of it, when
\* more was printed than delivered, and when a byte is printed.
LEMMA PrefixOfItself == ASSUME NEW S, NEW s \in Seq(S) PROVE IsPrefix(s, s)
<1>1. Len(s) <= Len(s)
    OBVIOUS
<1> QED
    BY <1>1 DEF IsPrefix

\* A sequence is a prefix of itself with more behind it.
LEMMA PrefixOfJoined ==
    ASSUME NEW S, NEW s \in Seq(S), NEW t \in Seq(S)
    PROVE  IsPrefix(s, s \o t)
<1> DEFINE w == s \o t
           n == Len(s)
           a == SubSeq(s, 1, n)
           c == SubSeq(w, 1, n)
<1>1. n \in Nat /\ n <= Len(w) /\ \A i \in 1 .. n : w[i] = s[i]
    OBVIOUS
<1>2. a \in Seq(S) /\ Len(a) = n /\ \A i \in 1 .. n : a[i] = s[i]
    OBVIOUS
<1>3. c \in Seq(S) /\ Len(c) = n /\ \A i \in 1 .. n : c[i] = s[i]
    OBVIOUS
<1> HIDE DEF a, c
<1>4. a = c
    BY <1>2, <1>3, SeqEqual
<1> QED
    BY <1>1, <1>4 DEF IsPrefix, a, c

\* What was delivered of the output still is when a byte is printed.
LEMMA PrefixAppended ==
    ASSUME NEW S, NEW s \in Seq(S), NEW t \in Seq(S), NEW e \in S, IsPrefix(s, t)
    PROVE  IsPrefix(s, Append(t, e))
<1> DEFINE n == Len(s)
           u == Append(t, e)
           a == SubSeq(u, 1, n)
           c == SubSeq(t, 1, n)
<1>1. /\ n <= Len(t) /\ SubSeq(s, 1, n) = c /\ n \in Nat /\ Len(t) \in Nat
    BY DEF IsPrefix
<1>2. u \in Seq(S) /\ Len(u) = Len(t) + 1 /\ \A i \in 1 .. Len(t) : u[i] = t[i]
    OBVIOUS
<1> HIDE DEF n, u
<1>3. a \in Seq(S) /\ Len(a) = n /\ \A i \in 1 .. n : a[i] = u[i]
    BY <1>1, <1>2
<1>4. c \in Seq(S) /\ Len(c) = n /\ \A i \in 1 .. n : c[i] = t[i]
    BY <1>1
<1>5. \A i \in 1 .. n : u[i] = t[i]
    BY <1>1, <1>2
<1> HIDE DEF a, c
<1>6. a = c
    BY <1>3, <1>4, <1>5, SeqEqual
<1>7. n <= Len(u) /\ SubSeq(s, 1, n) = SubSeq(u, 1, n)
    BY <1>1, <1>2, <1>6 DEF a
<1> QED
    BY <1>7 DEF IsPrefix, n, u

\* binary_rpc_flush_data: the chunk leaves whole, or the state remembers that a
\* send failed.
LEMMA FlushFacts ==
    ASSUME NEW state, NEW frames, Counted(state, frames), ~state.tx_failed,
           NEW accepted \in BOOLEAN
    PROVE  LET after == Flush(state, frames, accepted)
           IN /\ Counted(after.state, after.frames)
              /\ Len(after.state.data_chunk) <= Len(state.data_chunk)
              /\ \/ /\ ~after.state.tx_failed /\ after.state.data_chunk = <<>>
                    /\ accepted \/ state.data_chunk = <<>>
                    /\ All(after.frames) = All(frames) \o state.data_chunk
                 \/ /\ after.state.tx_failed /\ ~accepted
                    /\ after.frames = frames
                    /\ state.data_chunk # <<>>
<1> DEFINE after == Flush(state, frames, accepted)
           chunk == state.data_chunk
           b == All(frames)
<1>1. /\ state \in RpcState /\ Open(frames) /\ state.sequence = Len(frames)
      /\ state.total_output_bytes = Len(b)
    BY DEF Counted
<1>2. /\ chunk \in Seq(Printable) /\ Len(chunk) \in Nat
      /\ state.sequence \in Nat /\ state.total_output_bytes \in Nat
      /\ state.tx_failed \in BOOLEAN
  <2>1. /\ chunk \in Seq(Printable) /\ state.sequence \in Nat
        /\ state.total_output_bytes \in Nat /\ state.tx_failed \in BOOLEAN
      BY <1>1 DEF RpcState
  <2> DEFINE R == Printable
  <2> HIDE DEF R, chunk
  <2>2. chunk \in Seq(R)
      BY <2>1 DEF R
  <2>3. Len(chunk) \in Nat
      BY <2>2
  <2> QED
      BY <2>1, <2>3
<1>3. CASE chunk = <<>>
  <2>1. after = [state |-> state, frames |-> frames]
      BY <1>3 DEF Flush
  <2>2. after.state = state /\ after.frames = frames
      BY <2>1
  <2>3. b \in Seq(Printable)
    <3>1. InOrder(frames, Len(frames)) /\ Len(frames) \in Nat
        BY <1>1, <1>2 DEF Open
    <3> QED
        BY <3>1, BytesType DEF All
  <2>4. b \o <<>> = b
    <3> DEFINE R == Printable
    <3> HIDE DEF R, b
    <3>1. b \in Seq(R)
        BY <2>3 DEF R
    <3> QED
        BY <3>1
  <2> HIDE DEF after
  <2>5. /\ Counted(after.state, after.frames)
        /\ Len(after.state.data_chunk) <= Len(state.data_chunk)
        /\ ~after.state.tx_failed /\ after.state.data_chunk = <<>>
        /\ All(after.frames) = All(frames) \o state.data_chunk
      BY <2>2, <2>4, <1>2, <1>3
  <2> QED
      BY <2>5, <1>3 DEF after
<1>4. CASE chunk # <<>> /\ accepted
  <2> DEFINE added == Data(request.id, ActiveId, state.sequence, chunk)
             new == [state EXCEPT
                       !.total_output_bytes = @ + Len(state.data_chunk),
                       !.data_chunk = <<>>,
                       !.sequence = @ + 1]
  <2>1. after = [frames |-> Append(frames, added), state |-> new]
      BY <1>4 DEF Flush, Sent
  <2>2. after.frames = Append(frames, added) /\ after.state = new
      BY <2>1
  <2>3. /\ new \in RpcState /\ new.sequence = state.sequence + 1
        /\ new.total_output_bytes = state.total_output_bytes + Len(chunk)
        /\ new.data_chunk = <<>> /\ new.tx_failed = state.tx_failed
    <3>1. <<>> \in Seq(Printable)
        OBVIOUS
    <3>2. state.total_output_bytes + Len(chunk) \in Nat /\ state.sequence + 1 \in Nat
        BY <1>2
    <3> QED
        BY <3>1, <3>2, <1>1, <1>2 DEF RpcState
  <2>4. added.kind = "DATA" /\ added.sequence = Len(frames) /\ added.bytes = chunk
      BY <1>1, FrameFields
  <2> HIDE DEF after, new, added, chunk
  <2>5. /\ Open(after.frames) /\ Len(after.frames) = Len(frames) + 1
        /\ All(after.frames) = b \o chunk /\ b \in Seq(Printable)
    <3>1. added.bytes \in Seq(Printable)
        BY <2>4, <1>2
    <3>2. LET all == Append(frames, added)
          IN /\ Open(all) /\ Len(all) = Len(frames) + 1
             /\ All(all) = All(frames) \o added.bytes
             /\ All(frames) \in Seq(Printable)
        BY <1>1, <2>4, <3>1, DataAppended
    <3> QED
        BY <2>2, <2>4, <3>2
  <2>6. Len(b \o chunk) = Len(b) + Len(chunk)
    <3> HIDE DEF b
    <3> QED
        BY <2>5, <1>2, Concatenation
  <2>7. Counted(after.state, after.frames)
      BY <1>1, <2>2, <2>3, <2>5, <2>6 DEF Counted
  <2>8. ~after.state.tx_failed /\ after.state.data_chunk = <<>>
        /\ All(after.frames) = b \o chunk
      BY <2>2, <2>3, <2>5
  <2>9. Len(after.state.data_chunk) <= Len(chunk)
    <3>1. Len(after.state.data_chunk) = 0
        BY <2>8
    <3> QED
        BY <3>1, <1>2
  <2> QED
      BY <1>4, <2>7, <2>8, <2>9 DEF after, chunk, b
<1>5. CASE chunk # <<>> /\ ~accepted
  <2> DEFINE new == [state EXCEPT !.tx_failed = TRUE]
  <2>1. after = [frames |-> frames, state |-> new]
      BY <1>5 DEF Flush, Sent
  <2>2. after.frames = frames /\ after.state = new
      BY <2>1
  <2>3. /\ new \in RpcState /\ new.sequence = state.sequence
        /\ new.total_output_bytes = state.total_output_bytes
        /\ new.data_chunk = chunk /\ new.tx_failed
      BY <1>1 DEF RpcState
  <2> HIDE DEF after, new, chunk
  <2>4. Counted(after.state, after.frames)
      BY <1>1, <2>2, <2>3 DEF Counted
  <2>5. after.state.tx_failed /\ Len(after.state.data_chunk) <= Len(chunk)
      BY <2>2, <2>3, <1>2
  <2> QED
      BY <1>5, <2>2, <2>4, <2>5 DEF after, chunk
<1> QED
    BY <1>3, <1>4, <1>5

\* While a method runs.
LEMMA Running ==
    ASSUME RpcInv, phase = "method"
    PROVE  /\ executed /\ request \in Requests /\ Refuse(request) = <<>>
           /\ output \in Seq(Printable) /\ Counted(rpc, exchange)
           /\ IsPrefix(All(exchange), output) /\ All(exchange) \in Seq(Printable)
           /\ rpc.data_chunk \in Seq(Printable) /\ Len(rpc.data_chunk) \in Nat
           /\ Len(rpc.data_chunk) <= ChunkMax /\ ChunkMax \in Nat \ {0}
           /\ rpc.tx_failed \in BOOLEAN /\ write_failed \in BOOLEAN
           /\ write_failed <=> rpc.tx_failed
           /\ ~rpc.tx_failed => /\ output = All(exchange) \o rpc.data_chunk
                                /\ Len(rpc.data_chunk) < ChunkMax
                                /\ rpc.data_chunk # <<>>
                                      => Last(rpc.data_chunk) # Newline
<1>1. executed
    BY DEF RpcInv, AnswerInv
<1>2. /\ CallInv /\ MethodInv /\ DataPart(exchange) = Len(exchange)
    BY <1>1 DEF RpcInv, CallInv, MethodInv
<1>3. /\ request \in Requests /\ Refuse(request) = <<>>
      /\ output \in Seq(Printable) /\ InOrder(exchange, Len(exchange))
      /\ IsPrefix(All(exchange), output)
    BY <1>1, <1>2 DEF CallInv, All
<1>4. /\ rpc.sequence = Len(exchange)
      /\ rpc.total_output_bytes = Len(All(exchange))
      /\ write_failed <=> rpc.tx_failed
      /\ ~rpc.tx_failed => output = All(exchange) \o rpc.data_chunk
    BY <1>2 DEF MethodInv, All
<1>5. Open(exchange)
    BY <1>2, <1>3 DEF RpcInv, Open
<1>6. /\ rpc \in RpcState /\ Len(rpc.data_chunk) <= ChunkMax
      /\ ~rpc.tx_failed => /\ Len(rpc.data_chunk) < ChunkMax
                           /\ rpc.data_chunk # <<>>
                                 => Last(rpc.data_chunk) # Newline
      /\ write_failed \in BOOLEAN
    BY DEF RpcInv, RpcTypeOK, RpcState
<1>7. Counted(rpc, exchange)
    BY <1>4, <1>5, <1>6 DEF Counted
<1>8. rpc.data_chunk \in Seq(Printable) /\ rpc.tx_failed \in BOOLEAN
      /\ rpc.sequence \in Nat
    BY <1>6 DEF RpcState
<1>9. Len(rpc.data_chunk) \in Nat
  <2> DEFINE R == Printable
  <2> HIDE DEF R
  <2>1. rpc.data_chunk \in Seq(R)
      BY <1>8 DEF R
  <2> QED
      BY <2>1
<1>10. All(exchange) \in Seq(Printable)
  <2>1. Len(exchange) \in Nat
      BY <1>4, <1>8
  <2> QED
      BY <2>1, <1>3, BytesType DEF All
<1>11. ChunkMax \in Nat \ {0}
    BY RpcAssumption
<1> QED
    BY <1>1, <1>3, <1>4, <1>6, <1>7, <1>8, <1>9, <1>10, <1>11

\* Nothing has been sent and nothing printed.
LEMMA RpcInitInv == RpcInit => RpcInv
<1> SUFFICES ASSUME RpcInit PROVE RpcInv
    OBVIOUS
<1>1. /\ rpc = Quiescent /\ write_failed = FALSE /\ phase = "idle"
      /\ executed = FALSE /\ output = <<>> /\ exchange = <<>>
    BY DEF RpcInit
<1>2. RpcTypeOK
  <2>1. Quiescent \in RpcState /\ Quiescent.data_chunk = <<>>
    <3>1. <<>> \in Seq(Printable)
        OBVIOUS
    <3> QED
        BY <3>1 DEF Quiescent, RpcState
  <2>2. Len(rpc.data_chunk) <= ChunkMax
    <3>1. ChunkMax \in Nat
        BY RpcAssumption
    <3>2. Len(rpc.data_chunk) = 0
        BY <1>1, <2>1
    <3> QED
        BY <3>1, <3>2
  <2> QED
      BY <1>1, <2>1, <2>2 DEF RpcTypeOK, RpcState
<1>3. IsSequence(exchange)
    BY <1>1, EmptyOpen
<1>4. AnswerInv
    BY <1>1 DEF AnswerInv
<1>5. CallInv
    BY <1>1 DEF CallInv
<1> QED
    BY <1>2, <1>3, <1>4, <1>5 DEF RpcInv

\* The state that is no method's: only its type is asked of.
LEMMA IdleType ==
    ASSUME rpc' \in RpcState, Len(rpc'.data_chunk) <= ChunkMax,
           write_failed' \in BOOLEAN, executed' \in BOOLEAN,
           phase' \in {"idle", "tripped"}
    PROVE  RpcTypeOK'
<1>1. phase' # "method" /\ phase' \in {"idle", "method", "tripped"}
    OBVIOUS
<1> QED
    BY <1>1 DEF RpcTypeOK, RpcState

\* A refused frame is answered with one frame, or with none.
LEMMA RefusedInv ==
    ASSUME RpcInv, NEW f \in Requests, HandleRefused(f)
    PROVE  RpcInv'
<1>1. /\ phase = "idle" /\ phase' = phase /\ Refuse(f) # <<>> /\ request' = f
      /\ executed' = FALSE /\ output' = <<>> /\ write_failed' = write_failed
    BY DEF HandleRefused
<1>2. PICK accepted \in BOOLEAN :
          /\ exchange' = Sent(<<>>, Refuse(f)[1], accepted)
          /\ rpc' = [rpc EXCEPT !.tx_failed = ~accepted]
    BY DEF HandleRefused
<1>3. rpc \in RpcState /\ Len(rpc.data_chunk) <= ChunkMax /\ write_failed \in BOOLEAN
    BY DEF RpcInv, RpcTypeOK, RpcState
<1>4. rpc' \in RpcState /\ rpc'.data_chunk = rpc.data_chunk
  <2> DEFINE b == ~accepted
  <2>1. b \in BOOLEAN
      OBVIOUS
  <2> HIDE DEF b
  <2>2. rpc' = [rpc EXCEPT !.tx_failed = b]
      BY <1>2 DEF b
  <2> QED
      BY <2>1, <2>2, <1>3 DEF RpcState
<1>5. RpcTypeOK'
  <2>1. rpc' \in RpcState /\ Len(rpc'.data_chunk) <= ChunkMax
        /\ write_failed' \in BOOLEAN /\ executed' \in BOOLEAN
        /\ phase' \in {"idle", "tripped"}
      BY <1>1, <1>3, <1>4
  <2> QED
      BY <2>1, IdleType
<1>6. exchange' = <<>> \/ exchange' = <<Refuse(f)[1]>>
    BY <1>2 DEF Sent
<1>7. IsSequence(exchange')
  <2>1. IsSequence(<<>>)
      BY EmptyOpen
  <2>2. \A x : IsSequence(<<x>>)
    <3> TAKE x
    <3>1. <<x>> \in Seq({x})
        OBVIOUS
    <3> QED
        BY <3>1, SequenceOfItsElements
  <2> QED
      BY <2>1, <2>2, <1>6
<1>8. AnswerInv'
  <2>1. Refuse(request)' = Refuse(f)
      BY <1>1 DEF Refuse, RefuseRpc
  <2> QED
      BY <1>1, <1>6, <2>1 DEF AnswerInv
<1>9. CallInv'
    BY <1>1 DEF CallInv
<1> QED
    BY <1>5, <1>7, <1>8, <1>9 DEF RpcInv

\* A method starts with nothing sent, nothing printed and nothing failed.
LEMMA AcceptedInv ==
    ASSUME RpcInv, NEW f \in Requests, HandleAccepted(f)
    PROVE  RpcInv'
<1>1. /\ rpc' = Quiescent /\ write_failed' = FALSE /\ phase' = "method"
      /\ request' = f /\ executed' = TRUE /\ output' = <<>> /\ exchange' = <<>>
      /\ Refuse(f) = <<>>
    BY DEF HandleAccepted
<1>2. /\ Quiescent \in RpcState /\ Quiescent.data_chunk = <<>>
      /\ Quiescent.tx_failed = FALSE /\ Quiescent.sequence = 0
      /\ Quiescent.total_output_bytes = 0
  <2>1. <<>> \in Seq(Printable)
      OBVIOUS
  <2> QED
      BY <2>1 DEF Quiescent, RpcState
<1>3. RpcTypeOK'
  <2>1. Len(rpc'.data_chunk) < ChunkMax /\ Len(rpc'.data_chunk) <= ChunkMax
    <3>1. ChunkMax \in Nat \ {0}
        BY RpcAssumption
    <3>2. Len(rpc'.data_chunk) = 0
        BY <1>1, <1>2
    <3> QED
        BY <3>1, <3>2
  <2> QED
      BY <1>1, <1>2, <2>1 DEF RpcTypeOK, RpcState
<1>4. /\ IsSequence(<<>>) /\ DataPart(<<>>) = 0 /\ Len(<<>>) = 0
      /\ InOrder(<<>>, 0) /\ Bytes(<<>>, 0) = <<>>
    BY EmptyOpen
<1>5. MethodInv'
  <2>1. /\ DataPart(exchange)' = 0 /\ Len(exchange)' = 0
        /\ Bytes(exchange, Len(exchange))' = <<>>
      BY <1>1, <1>4 DEF DataPart, Bytes
  <2>2. <<>> \o <<>> = <<>>
      OBVIOUS
  <2> QED
      BY <1>1, <1>2, <2>1, <2>2 DEF MethodInv
<1>6. TrippedInv' /\ ClosedInv'
    BY <1>1 DEF TrippedInv, ClosedInv
<1>7. CallInv'
  <2>1. Refuse(request)' = <<>>
      BY <1>1 DEF Refuse, RefuseRpc
  <2>2. InOrder(exchange, DataPart(exchange))'
      BY <1>1, <1>4 DEF InOrder, DataPart
  <2>3. IsPrefix(Bytes(exchange, DataPart(exchange)), output)'
    <3>1. IsPrefix(<<>>, <<>>)
        BY DEF IsPrefix
    <3>2. Bytes(exchange, DataPart(exchange))' = <<>>
        BY <1>1, <1>4 DEF Bytes, DataPart
    <3> QED
        BY <1>1, <3>1, <3>2 DEF IsPrefix
  <2>4. output' \in Seq(Printable)
      BY <1>1
  <2> QED
      BY <1>1, <1>5, <1>6, <2>1, <2>2, <2>3, <2>4 DEF CallInv, Printable
<1>8. AnswerInv'
    BY <1>1 DEF AnswerInv
<1>9. IsSequence(exchange)'
    BY <1>1, <1>4 DEF IsSequence
<1> QED
    BY <1>3, <1>7, <1>8, <1>9 DEF RpcInv

\* The reset forgets the exchange.
LEMMA ResetInv == ASSUME RpcInv, WatchdogReset PROVE RpcInv'
<1>1. /\ rpc' = Quiescent /\ write_failed' = FALSE /\ phase' = "idle"
      /\ executed' = FALSE /\ output' = <<>> /\ exchange' = <<>>
    BY DEF WatchdogReset
<1>2. Quiescent \in RpcState /\ Quiescent.data_chunk = <<>>
  <2>1. <<>> \in Seq(Printable)
      OBVIOUS
  <2> QED
      BY <2>1 DEF Quiescent, RpcState
<1>3. RpcTypeOK'
  <2>1. Len(rpc'.data_chunk) <= ChunkMax
    <3>1. ChunkMax \in Nat
        BY RpcAssumption
    <3>2. Len(rpc'.data_chunk) = 0
        BY <1>1, <1>2
    <3> QED
        BY <3>1, <3>2
  <2>2. rpc' \in RpcState /\ write_failed' \in BOOLEAN /\ executed' \in BOOLEAN
        /\ phase' \in {"idle", "tripped"}
      BY <1>1, <1>2
  <2> QED
      BY <2>1, <2>2, IdleType
<1>4. IsSequence(exchange)'
  <2>1. IsSequence(<<>>)
      BY EmptyOpen
  <2> QED
      BY <1>1, <2>1 DEF IsSequence
<1>5. AnswerInv' /\ CallInv'
    BY <1>1 DEF AnswerInv, CallInv
<1> QED
    BY <1>3, <1>4, <1>5 DEF RpcInv

\* One printed byte: it is in the chunk, in a frame, or the state knows that it
\* is lost.
LEMMA WriteInv ==
    ASSUME RpcInv, phase = "method", NEW byte \in Printable, WriteByte(byte)
    PROVE  RpcInv'
<1> DEFINE F == exchange
           chunk == rpc.data_chunk
           b == All(exchange)
           P == Printable
<1>1. /\ executed /\ request \in Requests /\ Refuse(request) = <<>>
      /\ output \in Seq(P) /\ Counted(rpc, F) /\ IsPrefix(b, output) /\ b \in Seq(P)
      /\ chunk \in Seq(P) /\ Len(chunk) \in Nat
      /\ Len(chunk) <= ChunkMax /\ ChunkMax \in Nat \ {0}
      /\ rpc.tx_failed \in BOOLEAN /\ write_failed \in BOOLEAN
      /\ write_failed <=> rpc.tx_failed
      /\ ~rpc.tx_failed => output = b \o chunk /\ Len(chunk) < ChunkMax
    BY Running
<1>2. /\ output' = Append(output, byte) /\ phase' = phase /\ request' = request
      /\ executed' = executed
    BY DEF WriteByte
<1>3. output' \in Seq(P) /\ IsPrefix(b, output')
  <2> HIDE DEF P, b
  <2>1. output \in Seq(P) /\ b \in Seq(P) /\ byte \in P
      BY <1>1 DEF P
  <2>2. IsPrefix(b, Append(output, byte))
      BY <1>1, <2>1, PrefixAppended
  <2>3. Append(output, byte) \in Seq(P)
      BY <2>1
  <2> QED
      BY <1>2, <2>2, <2>3
\* What is to be shown of the next state, whatever the ring did.
<1>4. SUFFICES /\ Counted(rpc', exchange') /\ IsPrefix(All(exchange'), output')
               /\ Len(rpc'.data_chunk) <= ChunkMax
               /\ write_failed' \in BOOLEAN /\ (write_failed' <=> rpc'.tx_failed)
               /\ ~rpc'.tx_failed => /\ output' = All(exchange') \o rpc'.data_chunk
                                     /\ Len(rpc'.data_chunk) < ChunkMax
                                     /\ rpc'.data_chunk # <<>>
                                           => Last(rpc'.data_chunk) # Newline
  <2>1. RpcTypeOK'
      BY <1>1, <1>2, <1>4 DEF RpcTypeOK, Counted, RpcState
  <2>2. /\ IsSequence(exchange') /\ DataPart(exchange') = Len(exchange')
        /\ InOrder(exchange', Len(exchange'))
      BY <1>4 DEF Counted, Open
  <2>3. MethodInv'
    <3>1. /\ DataPart(exchange)' = Len(exchange)'
          /\ Bytes(exchange, Len(exchange))' = All(exchange')
        BY <2>2 DEF DataPart, Bytes, All
    <3>2. rpc'.sequence = Len(exchange') /\ rpc'.total_output_bytes = Len(All(exchange'))
        BY <1>4 DEF Counted
    <3> QED
        BY <1>4, <3>1, <3>2 DEF MethodInv
  <2>4. TrippedInv' /\ ClosedInv'
      BY <1>2 DEF TrippedInv, ClosedInv
  <2>5. AnswerInv'
      BY <1>1, <1>2 DEF AnswerInv
  <2>6. CallInv'
    <3>1. InOrder(exchange, DataPart(exchange))'
        BY <2>2 DEF InOrder, DataPart
    <3>2. IsPrefix(Bytes(exchange, DataPart(exchange)), output)'
      <4>1. Bytes(exchange, DataPart(exchange))' = All(exchange')
          BY <2>2 DEF Bytes, DataPart, All
      <4> QED
          BY <1>4, <4>1 DEF IsPrefix
    <3>3. Refuse(request)' = <<>> /\ request' \in Requests
        BY <1>1, <1>2
    <3> QED
        BY <1>3, <2>3, <2>4, <3>1, <3>2, <3>3 DEF CallInv, Printable
  <2>7. IsSequence(exchange)'
      BY <2>2 DEF IsSequence
  <2> QED
      BY <2>1, <2>5, <2>6, <2>7 DEF RpcInv
<1>5. CASE rpc.tx_failed
  <2>1. write_failed' = TRUE /\ rpc' = rpc /\ exchange' = exchange
      BY <1>5 DEF WriteByte
  <2> QED
      BY <1>1, <1>3, <1>5, <2>1
<1>6. CASE ~rpc.tx_failed
  <2> DEFINE filled == [rpc EXCEPT !.data_chunk = Append(@, byte)]
             due == Len(filled.data_chunk) = ChunkMax \/ byte = Newline
  <2>1. PICK accepted \in BOOLEAN :
           LET after == IF due THEN Flush(filled, exchange, accepted)
                        ELSE [state |-> filled, frames |-> exchange]
           IN /\ rpc' = after.state /\ exchange' = after.frames
              /\ write_failed' = (write_failed \/ (due /\ ~accepted))
      BY <1>6 DEF WriteByte
  <2>2. /\ output = b \o chunk /\ Len(chunk) < ChunkMax /\ write_failed = FALSE
      BY <1>1, <1>6
  <2> DEFINE more == Append(chunk, byte)
  <2>3. /\ more \in Seq(P) /\ Len(more) = Len(chunk) + 1 /\ more # <<>>
        /\ more[Len(chunk) + 1] = byte /\ output' = b \o more
    <3> HIDE DEF P, b, chunk
    <3>1. chunk \in Seq(P) /\ b \in Seq(P) /\ byte \in P
        BY <1>1 DEF P
    <3>2. b \o Append(chunk, byte) = Append(b \o chunk, byte)
        BY <3>1, AppendLaws
    <3>3. more \in Seq(P) /\ Len(more) = Len(chunk) + 1
          /\ more[Len(chunk) + 1] = byte /\ Len(chunk) \in Nat
        BY <3>1
    <3>4. more # <<>>
      <4>1. Len(more) # 0
          BY <3>3
      <4> QED
          BY <4>1
    <3> QED
        BY <1>2, <2>2, <3>2, <3>3, <3>4
  <2>4. Last(more) = byte
      BY <2>3 DEF Last
  <2>5. Len(more) <= ChunkMax
      BY <1>1, <2>2, <2>3
  <2>6. /\ Counted(filled, exchange) /\ filled.data_chunk = more
        /\ filled.tx_failed = rpc.tx_failed
    <3>1. rpc \in RpcState
        BY <1>1 DEF Counted
    <3> HIDE DEF more
    <3>2. filled = [rpc EXCEPT !.data_chunk = more]
        BY DEF more
    <3>3. /\ filled \in RpcState /\ filled.data_chunk = more
          /\ filled.tx_failed = rpc.tx_failed /\ filled.sequence = rpc.sequence
          /\ filled.total_output_bytes = rpc.total_output_bytes
        BY <3>1, <3>2, <2>3 DEF RpcState
    <3> HIDE DEF filled
    <3>4. Counted(filled, exchange)
        BY <3>3, <1>1 DEF Counted
    <3> QED
        BY <3>3, <3>4
  <2> HIDE DEF filled, more, b, chunk
  <2>7. CASE ~due
    <3>1. rpc' = filled /\ exchange' = exchange /\ write_failed' = write_failed
        BY <2>1, <2>2, <2>7
    <3>2. Len(more) # ChunkMax /\ byte # Newline
        BY <2>6, <2>7
    <3>3. Len(more) < ChunkMax
        BY <1>1, <2>3, <2>5, <3>2
    <3>4. Last(rpc'.data_chunk) # Newline
        BY <2>4, <2>6, <3>1, <3>2
    <3>5. All(exchange') = b
        BY <3>1 DEF b
    <3> QED
        BY <1>1, <1>3, <1>6, <2>2, <2>3, <2>5, <2>6, <3>1, <3>3, <3>4, <3>5
  <2>8. CASE due
    <3> DEFINE after == Flush(filled, exchange, accepted)
    <3>1. /\ rpc' = after.state /\ exchange' = after.frames
          /\ write_failed' = (~accepted)
        BY <2>1, <2>2, <2>8
    <3>2. /\ Counted(after.state, after.frames)
          /\ Len(after.state.data_chunk) <= Len(filled.data_chunk)
          /\ \/ /\ ~after.state.tx_failed /\ after.state.data_chunk = <<>>
                /\ accepted \/ filled.data_chunk = <<>>
                /\ All(after.frames) = All(exchange) \o filled.data_chunk
             \/ /\ after.state.tx_failed /\ ~accepted
                /\ after.frames = exchange
                /\ filled.data_chunk # <<>>
      <4>1. Counted(filled, exchange) /\ ~filled.tx_failed
          BY <1>6, <2>6
      <4> QED
          BY <4>1, FlushFacts
    <3> HIDE DEF after, due
    <3>3. /\ Counted(rpc', exchange')
          /\ Len(rpc'.data_chunk) <= Len(more)
          /\ \/ /\ ~rpc'.tx_failed /\ rpc'.data_chunk = <<>> /\ accepted
                /\ All(exchange') = b \o more
             \/ rpc'.tx_failed /\ ~accepted /\ exchange' = exchange
        BY <3>1, <3>2, <2>3, <2>6 DEF b
    <3>4. Len(rpc'.data_chunk) <= ChunkMax
      <4>1. rpc'.data_chunk \in Seq(P)
          BY <3>3 DEF Counted, RpcState
      <4> HIDE DEF P
      <4>2. rpc'.data_chunk \in Seq(P) /\ Len(rpc'.data_chunk) \in Nat
          BY <4>1
      <4> QED
          BY <3>3, <4>2, <1>1, <2>3, <2>5
    <3>5. CASE ~rpc'.tx_failed
      <4>1. rpc'.data_chunk = <<>> /\ accepted /\ All(exchange') = b \o more
          BY <3>3, <3>5
      <4>2. output' \o <<>> = output' /\ IsPrefix(output', output')
        <5> HIDE DEF P
        <5>1. output' \in Seq(P)
            BY <1>3
        <5>2. IsPrefix(output', output')
            BY <5>1, PrefixOfItself
        <5>3. output' \o <<>> = output'
            BY <5>1
        <5> QED
            BY <5>2, <5>3
      <4>3. All(exchange') = output'
          BY <2>3, <4>1
      <4>4. Len(rpc'.data_chunk) < ChunkMax
        <5>1. Len(rpc'.data_chunk) = 0
            BY <4>1
        <5> QED
            BY <5>1, <1>1
      <4> QED
          BY <3>1, <3>3, <3>4, <3>5, <4>1, <4>2, <4>3, <4>4
    <3>6. CASE rpc'.tx_failed
      <4>1. ~accepted /\ exchange' = exchange
          BY <3>3, <3>6
      <4>2. All(exchange') = b
          BY <4>1 DEF b
      <4> QED
          BY <1>3, <3>1, <3>3, <3>4, <3>6, <4>1, <4>2
    <3> QED
        BY <3>5, <3>6
  <2> QED
      BY <2>7, <2>8
<1> QED
    BY <1>1, <1>5, <1>6

\* wdogtrip enters its loop with its line delivered: the newline flushed it.
LEMMA TripInv == ASSUME RpcInv, Trip PROVE RpcInv'
<1> DEFINE b == All(exchange)
           chunk == rpc.data_chunk
           P == Printable
<1>1. /\ phase = "method" /\ ActiveClass = "DESTRUCTIVE" /\ ~write_failed
      /\ output = TripText /\ phase' = "tripped"
      /\ rpc' = rpc /\ write_failed' = write_failed /\ request' = request
      /\ executed' = executed /\ output' = output /\ exchange' = exchange
    BY DEF Trip
<1>2. /\ executed /\ request \in Requests /\ Refuse(request) = <<>>
      /\ output \in Seq(P) /\ Counted(rpc, exchange) /\ IsPrefix(b, output)
      /\ b \in Seq(P) /\ chunk \in Seq(P)
      /\ Len(chunk) \in Nat /\ Len(chunk) <= ChunkMax
      /\ write_failed <=> rpc.tx_failed
      /\ ~rpc.tx_failed => /\ output = b \o chunk
                           /\ chunk # <<>> => Last(chunk) # Newline
    BY <1>1, Running
<1>3. output = b \o chunk /\ (chunk # <<>> => chunk[Len(chunk)] # Newline)
    BY <1>1, <1>2 DEF Last
<1>4. Len(output) = 2 /\ output[2] = Newline
    BY <1>1 DEF TripText
<1>5. chunk = <<>>
  <2> SUFFICES ASSUME chunk # <<>> PROVE FALSE
      OBVIOUS
  <2> HIDE DEF b, chunk, P
  <2>1. /\ Len(b \o chunk) = Len(b) + Len(chunk) /\ Len(b) \in Nat
        /\ \A i \in 1 .. Len(chunk) : (b \o chunk)[Len(b) + i] = chunk[i]
      BY <1>2
  <2>2. Len(chunk) \in 1 .. Len(chunk)
    <3>1. Len(chunk) # 0
        BY <1>2
    <3> QED
        BY <3>1, <1>2
  <2>3. Len(b) + Len(chunk) = 2
      BY <1>3, <1>4, <2>1
  <2>4. output[Len(b) + Len(chunk)] = chunk[Len(chunk)]
      BY <1>3, <2>1, <2>2
  <2> QED
      BY <1>3, <1>4, <2>3, <2>4
<1>6. b = TripText
  <2> HIDE DEF b, chunk, P
  <2>1. b \o <<>> = b
      BY <1>2
  <2> QED
      BY <1>1, <1>3, <1>5, <2>1
<1>7. RpcTypeOK'
    BY <1>1 DEF RpcInv, RpcTypeOK
<1>8. /\ IsSequence(exchange) /\ DataPart(exchange) = Len(exchange)
      /\ InOrder(exchange, DataPart(exchange))
      /\ Bytes(exchange, DataPart(exchange)) = b
    BY <1>2 DEF Counted, Open, All
<1>9. request.flags = AllowDestructive
    BY <1>1, <1>2, AcceptedFacts DEF ActiveClass, ActiveId
<1>10. TrippedInv'
  <2>1. DataPart(exchange)' = Len(exchange)' /\ Bytes(exchange, Len(exchange))' = b
      BY <1>1, <1>8 DEF DataPart, Bytes
  <2> QED
      BY <1>1, <1>6, <1>9, <2>1 DEF TrippedInv
<1>11. MethodInv' /\ ClosedInv'
    BY <1>1 DEF MethodInv, ClosedInv
<1>12. CallInv'
  <2>1. InOrder(exchange, DataPart(exchange))'
      BY <1>1, <1>8 DEF InOrder, DataPart
  <2>2. IsPrefix(Bytes(exchange, DataPart(exchange)), output)'
    <3>1. Bytes(exchange, DataPart(exchange))' = b
        BY <1>1, <1>8 DEF Bytes, DataPart
    <3> QED
        BY <1>1, <1>2, <3>1 DEF IsPrefix
  <2>3. Refuse(request)' = <<>> /\ request' \in Requests /\ output' \in Seq(Printable)
      BY <1>1, <1>2
  <2> QED
      BY <1>10, <1>11, <2>1, <2>2, <2>3 DEF CallInv, Printable
<1>13. AnswerInv'
    BY <1>1, <1>2 DEF AnswerInv
<1>14. IsSequence(exchange)'
    BY <1>1, <1>8 DEF IsSequence
<1> QED
    BY <1>7, <1>12, <1>13, <1>14 DEF RpcInv

\* RPC_END counts what reached the ring, and says OK only over all of it.
LEMMA ReturnInv ==
    ASSUME RpcInv, NEW status \in CommandStatus, Return(status)
    PROVE  RpcInv'
<1> DEFINE b == All(exchange)
           chunk == rpc.data_chunk
           P == Printable
<1>1. /\ phase = "method" /\ phase' = "idle" /\ write_failed' = write_failed
      /\ request' = request /\ executed' = executed /\ output' = output
    BY DEF Return
<1>2. /\ executed /\ request \in Requests /\ Refuse(request) = <<>>
      /\ output \in Seq(P) /\ Counted(rpc, exchange) /\ IsPrefix(b, output)
      /\ b \in Seq(P) /\ chunk \in Seq(P)
      /\ Len(chunk) \in Nat /\ Len(chunk) <= ChunkMax
      /\ write_failed \in BOOLEAN /\ rpc.tx_failed \in BOOLEAN
      /\ write_failed <=> rpc.tx_failed
      /\ ~rpc.tx_failed => output = b \o chunk
    BY <1>1, Running
<1>3. PICK flushed \in BOOLEAN, accepted \in BOOLEAN :
          LET after == IF rpc.tx_failed
                         THEN [state |-> rpc, frames |-> exchange]
                         ELSE Flush(rpc, exchange, flushed)
              end == End(request.id, ActiveId, after.state.sequence,
                         after.state.total_output_bytes, "COMMAND",
                         FinalStatus(status, after.state))
          IN /\ exchange' = Sent(after.frames, end, accepted)
             /\ rpc' = [after.state EXCEPT !.tx_failed = @ \/ ~accepted]
    BY DEF Return
<1> DEFINE after == IF rpc.tx_failed
                      THEN [state |-> rpc, frames |-> exchange]
                      ELSE Flush(rpc, exchange, flushed)
           G == after.frames
           c == All(G)
           end == End(request.id, ActiveId, after.state.sequence,
                      after.state.total_output_bytes, "COMMAND",
                      FinalStatus(status, after.state))
\* The residual bytes.
<1>4. /\ Counted(after.state, G) /\ Len(after.state.data_chunk) <= ChunkMax
      /\ IsPrefix(c, output)
      /\ ~write_failed /\ ~after.state.tx_failed => c = output
  <2>1. CASE rpc.tx_failed
    <3>1. after.state = rpc /\ G = exchange
        BY <2>1
    <3> HIDE DEF after, G
    <3> QED
        BY <3>1, <2>1, <1>2
  <2>2. CASE ~rpc.tx_failed
    <3> DEFINE r == Flush(rpc, exchange, flushed)
    <3>1. /\ Counted(r.state, r.frames)
          /\ Len(r.state.data_chunk) <= Len(rpc.data_chunk)
          /\ \/ /\ ~r.state.tx_failed /\ r.state.data_chunk = <<>>
                /\ flushed \/ rpc.data_chunk = <<>>
                /\ All(r.frames) = All(exchange) \o rpc.data_chunk
             \/ /\ r.state.tx_failed /\ ~flushed
                /\ r.frames = exchange
                /\ rpc.data_chunk # <<>>
        BY <1>2, <2>2, FlushFacts
    <3>2. after = r
        BY <2>2
    <3> HIDE DEF r
    <3>3. G = r.frames /\ after.state = r.state
        BY <3>2
    <3>4. output = b \o chunk
        BY <1>2, <2>2
    <3> HIDE DEF after, G
    <3>5. Len(r.state.data_chunk) <= ChunkMax
      <4>1. r.state.data_chunk \in Seq(P)
          BY <3>1 DEF Counted, RpcState
      <4> HIDE DEF P
      <4>2. Len(r.state.data_chunk) \in Nat
          BY <4>1
      <4>3. ChunkMax \in Nat
          BY RpcAssumption
      <4> QED
          BY <3>1, <4>2, <4>3, <1>2
    <3>6. CASE ~r.state.tx_failed
      <4>1. c = output
          BY <3>1, <3>3, <3>4, <3>6
      <4>2. IsPrefix(output, output)
        <5> HIDE DEF P
        <5>1. output \in Seq(P)
            BY <1>2
        <5> QED
            BY <5>1, PrefixOfItself
      <4> HIDE DEF c
      <4> QED
          BY <3>1, <3>3, <3>5, <4>1, <4>2
    <3>7. CASE r.state.tx_failed
      <4>1. c = b
          BY <3>1, <3>3, <3>7
      <4> HIDE DEF c, b
      <4> QED
          BY <3>1, <3>3, <3>5, <3>7, <4>1, <1>2
    <3> QED
        BY <3>6, <3>7
  <2> QED
      BY <2>1, <2>2
<1>5. /\ exchange' = Sent(G, end, accepted)
      /\ rpc' = [after.state EXCEPT !.tx_failed = @ \/ ~accepted]
    BY <1>3
<1>6. /\ end.kind = "END" /\ end.domain = "COMMAND"
      /\ end.chunks = after.state.sequence
      /\ end.total = after.state.total_output_bytes
      /\ end.status = FinalStatus(status, after.state)
    BY FrameFields
<1> HIDE DEF after, G, end
<1>7. end.status = "OK" => ~write_failed /\ ~after.state.tx_failed
    BY <1>6 DEF FinalStatus
<1>8. rpc' \in RpcState /\ rpc'.data_chunk = after.state.data_chunk
  <2> DEFINE st == after.state
             t == st.tx_failed \/ ~accepted
  <2>1. st \in RpcState /\ t \in BOOLEAN
      BY <1>4 DEF Counted
  <2>2. rpc' = [st EXCEPT !.tx_failed = t]
      BY <1>5
  <2> HIDE DEF st, t
  <2>3. rpc' \in RpcState /\ rpc'.data_chunk = st.data_chunk
      BY <2>1, <2>2 DEF RpcState
  <2> QED
      BY <2>3 DEF st
<1>9. RpcTypeOK'
  <2>1. rpc' \in RpcState /\ Len(rpc'.data_chunk) <= ChunkMax
        /\ write_failed' \in BOOLEAN /\ executed' \in BOOLEAN
        /\ phase' \in {"idle", "tripped"}
      BY <1>1, <1>2, <1>4, <1>8
  <2> QED
      BY <2>1, IdleType
<1>10. /\ Open(G) /\ after.state.sequence = Len(G)
       /\ after.state.total_output_bytes = Len(c)
    BY <1>4 DEF Counted
\* What is to be shown of the frames, whether or not RPC_END was accepted.
<1>11. /\ IsSequence(exchange') /\ InOrder(exchange', DataPart(exchange'))
       /\ Bytes(exchange', DataPart(exchange')) = c
       /\ \/ DataPart(exchange') = Len(exchange')
          \/ /\ DataPart(exchange') = Len(G) /\ exchange'[Len(exchange')] = end
  <2>1. CASE ~accepted
    <3>1. exchange' = G
        BY <2>1, <1>5 DEF Sent
    <3>2. IsSequence(G) /\ DataPart(G) = Len(G) /\ InOrder(G, Len(G))
          /\ Bytes(G, Len(G)) = c
        BY <1>10 DEF Open, All
    <3> QED
        BY <3>1, <3>2
  <2>2. CASE accepted
    <3>1. exchange' = Append(G, end)
        BY <2>2, <1>5 DEF Sent
    <3>2. end.kind # "DATA"
        BY <1>6
    <3>3. LET all == Append(G, end)
          IN /\ IsSequence(all) /\ Len(G) \in Nat
             /\ Len(all) = Len(G) + 1
             /\ DataPart(all) = Len(G) /\ InOrder(all, Len(G))
             /\ Bytes(all, Len(G)) = All(G)
             /\ all[Len(all)] = end
        BY <1>10, <3>2, CloseAppended
    <3> DEFINE all == Append(G, end)
    <3>4. exchange' = all
        BY <3>1
    <3>5. /\ IsSequence(all) /\ DataPart(all) = Len(G) /\ InOrder(all, Len(G))
          /\ Bytes(all, Len(G)) = c /\ all[Len(all)] = end
        BY <3>3
    <3> HIDE DEF all, c
    <3> QED
        BY <3>4, <3>5
  <2> QED
      BY <2>1, <2>2
<1> HIDE DEF c
<1>12. ClosedInv'
  <2> DEFINE last == exchange'[Len(exchange')]
             m == DataPart(exchange')
  <2> SUFFICES ASSUME m < Len(exchange')
               PROVE  /\ last.kind = "END" /\ last.domain = "COMMAND"
                      /\ last.chunks = m
                      /\ last.total = Len(Bytes(exchange', m))
                      /\ last.status = "OK" => Bytes(exchange', m) = output'
      BY <1>1 DEF ClosedInv, DataPart, Bytes
  <2>1. m # Len(exchange')
    <3>1. Len(exchange') \in Nat
      <4> DEFINE R == Range(exchange')
      <4>1. exchange' \in Seq(R)
          BY <1>11 DEF IsSequence
      <4> HIDE DEF R
      <4> QED
          BY <4>1
    <3> QED
        BY <3>1
  <2>2. m = Len(G) /\ last = end /\ Bytes(exchange', m) = c
      BY <2>1, <1>11
  <2> HIDE DEF m, last
  <2> QED
      BY <2>2, <1>1, <1>4, <1>6, <1>7, <1>10
<1>13. MethodInv' /\ TrippedInv'
    BY <1>1 DEF MethodInv, TrippedInv
<1>14. CallInv'
  <2>1. InOrder(exchange, DataPart(exchange))'
      BY <1>11 DEF InOrder, DataPart
  <2>2. IsPrefix(Bytes(exchange, DataPart(exchange)), output)'
    <3>1. Bytes(exchange, DataPart(exchange))' = c
        BY <1>11 DEF Bytes, DataPart
    <3> QED
        BY <1>1, <1>4, <3>1 DEF IsPrefix
  <2>3. Refuse(request)' = <<>> /\ request' \in Requests /\ output' \in Seq(Printable)
      BY <1>1, <1>2
  <2> QED
      BY <1>12, <1>13, <2>1, <2>2, <2>3 DEF CallInv, Printable
<1>15. AnswerInv'
    BY <1>1, <1>2 DEF AnswerInv
<1>16. IsSequence(exchange)'
    BY <1>11 DEF IsSequence
<1> QED
    BY <1>9, <1>14, <1>15, <1>16 DEF RpcInv

\* One step of the exchange, whichever it is.
LEMMA RpcStepInv == RpcInv /\ [RpcNext]_rpcVars => RpcInv'
<1> SUFFICES ASSUME RpcInv, [RpcNext]_rpcVars PROVE RpcInv'
    OBVIOUS
<1>1. CASE \E f \in Requests : HandleRefused(f)
    BY <1>1, RefusedInv
<1>2. CASE \E f \in Requests : HandleAccepted(f)
    BY <1>2, AcceptedInv
<1>3. CASE MethodWrites
  <2>1. PICK byte \in Printable : WriteByte(byte)
      BY <1>3 DEF MethodWrites
  <2>2. phase = "method"
      BY <1>3 DEF MethodWrites
  <2> QED
      BY <2>1, <2>2, WriteInv
<1>4. CASE TripWrites
  <2> DEFINE byte == TripText[Len(output) + 1]
  <2>1. phase = "method" /\ WriteByte(byte) /\ Len(output) < Len(TripText)
      BY <1>4 DEF TripWrites
  <2>2. byte \in Printable
    <3>1. /\ TripText \in Seq(Printable) /\ Len(TripText) = 2
          /\ TripText[1] \in Printable /\ TripText[2] \in Printable
      <4>1. Letters # {}
          BY RpcAssumption
      <4>2. (CHOOSE x \in Letters : TRUE) \in Letters
          BY <4>1
      <4> DEFINE x == CHOOSE y \in Letters : TRUE
      <4>3. x \in Printable /\ Newline \in Printable
          BY <4>2 DEF Printable
      <4> HIDE DEF x
      <4>4. TripText = <<x, Newline>>
          BY DEF TripText, x
      <4> DEFINE P == Printable
                 nl == Newline
      <4>5. x \in P /\ nl \in P
          BY <4>3
      <4> HIDE DEF P, nl
      <4>6. /\ <<x, nl>> \in Seq(P) /\ Len(<<x, nl>>) = 2
            /\ <<x, nl>>[1] \in P /\ <<x, nl>>[2] \in P
          BY <4>5
      <4> QED
          BY <4>4, <4>6 DEF P, nl
    <3>2. Len(output) \in Nat
      <4> DEFINE P == Printable
      <4>1. output \in Seq(P)
          BY <2>1, Running
      <4> HIDE DEF P
      <4> QED
          BY <4>1
    <3>3. Len(output) + 1 = 1 \/ Len(output) + 1 = 2
        BY <2>1, <3>1, <3>2
    <3> QED
        BY <3>1, <3>3
  <2> HIDE DEF byte
  <2> QED
      BY <2>1, <2>2, WriteInv
<1>5. CASE Trip
    BY <1>5, TripInv
<1>6. CASE \E status \in CommandStatus : Return(status)
    BY <1>6, ReturnInv
<1>7. CASE WatchdogReset
    BY <1>7, ResetInv
<1>8. CASE UNCHANGED rpcVars
  <2>1. /\ rpc' = rpc /\ write_failed' = write_failed /\ phase' = phase
        /\ request' = request /\ executed' = executed /\ output' = output
        /\ exchange' = exchange
      BY <1>8 DEF rpcVars
  <2>2. RpcTypeOK'
      BY <2>1 DEF RpcInv, RpcTypeOK
  <2>3. AnswerInv' /\ IsSequence(exchange)'
      BY <2>1 DEF RpcInv, AnswerInv
  <2>4. CallInv'
    <3>1. MethodInv' <=> MethodInv
        BY <2>1 DEF MethodInv
    <3>2. TrippedInv' <=> TrippedInv
        BY <2>1 DEF TrippedInv
    <3>3. ClosedInv' <=> ClosedInv
        BY <2>1 DEF ClosedInv
    <3> QED
        BY <2>1, <3>1, <3>2, <3>3 DEF RpcInv, CallInv
  <2> QED
      BY <2>2, <2>3, <2>4 DEF RpcInv
<1> QED
    BY <1>1, <1>2, <1>3, <1>4, <1>5, <1>6, <1>7, <1>8 DEF RpcNext

\* The invariant holds in every state of every behaviour.
LEMMA RpcSpecInv == RpcSpec => []RpcInv
<1> QED
    BY RpcInitInv, RpcStepInv, PTL DEF RpcSpec

\* The answer to a request is honest whatever the ring accepted of it.
THEOREM HonestAnswers == RpcSpec => []AnswersAreHonest
<1> QED
    BY RpcSpecInv, HonestFromInv, PTL

\* A method runs only on the encoding of a call the registry allows, and the
\* decoder calls no such encoding malformed.
THEOREM ProperCallsOnly == RpcSpec => []RunsExactlyProperCalls
<1> QED
    BY RpcSpecInv, ProperFromInv, PTL
=============================================================================
