-------------------------- MODULE UsbControlProofs --------------------------
(***************************************************************************)
(* Proofs about UsbControl, for every packet size, all lengths of          *)
(* descriptors and requests and every set of addresses.                    *)
(*                                                                         *)
(* The invariant follows a transfer stage by stage: with the SETUP packet  *)
(* waiting (SetupInv), with a packet of the data stage in the endpoint or  *)
(* just taken from it (DataInv), in either status stage (StatusOutInv,     *)
(* StatusInInv), and at rest (IdleInv).  DataInv holds the arithmetic:     *)
(* what the host has got is a multiple of the packet size as long as more  *)
(* is to come, and the zero-length packet is owed exactly when all bytes   *)
(* went out in full packets and the host had asked for more.               *)
(*                                                                         *)
(* A transfer whose SETUP packet overtook an unserved completion follows   *)
(* none of these stages.  OvertakenInv keeps what is left of it: as long   *)
(* as there is no doubt about address and configuration, none of them is   *)
(* pending, so the completion taken for the wrong transfer's changes none. *)
(***************************************************************************)
EXTENDS UsbControl, TLAPS

\* What a request is owed: the descriptor, or the part of it that was asked for.
Total(r) == IF r.data < r.len THEN r.data ELSE r.len

\* The zero-length packet that has to follow the last full one
OwesZlp(r) == Total(r) < r.len /\ Total(r) % MaxPacket = 0

Stages == {"idle", "data", "statusIn", "statusOut", "done", "failed"}
RequestType ==
    [kind : {"none", "GET", "GETIF", "SETIF", "BAD", "ADDR", "CONF"},
     data : Nat, len : Nat, val : Nat]
\* An address or a configuration that is asked for is a possible one.
AskType ==
    {r \in RequestType : /\ r.kind = "ADDR" => r.val \in Address
                         /\ r.kind = "CONF" => r.val \in {0, 1}}
PacketType == [off : Nat, len : Nat]

DevRec ==
    [state : {"IDLE", "DATA_IN", "STATUS_OUT", "STATUS_IN"},
     off : Nat, left : Nat, zlp : BOOLEAN,
     pendingAddress : Address \cup {None}, pendingConfiguration : {None, 0, 1},
     address : Address, configuration : {0, 1}]
HwRec ==
    [tx : {"NAK", "VALID", "STALL"}, rx : {"NAK", "VALID", "STALL"},
     ctrTx : BOOLEAN, ctrRx : BOOLEAN, setup : BOOLEAN,
     packet : PacketType, req : RequestType]
HostRec ==
    [stage : Stages, req : AskType, got : Nat, bad : BOOLEAN, overtook : BOOLEAN]
AckedRec == [address : Address, configuration : {0, 1}, doubt : BOOLEAN]
Types ==
    /\ dev \in DevRec /\ hw \in HwRec
    /\ host \in HostRec
    /\ acked \in AckedRec

Fresh == hw.ctrRx /\ hw.setup

\* A SETUP packet waits for the interrupt: the endpoint takes nothing else.
SetupInv ==
    /\ hw.req = host.req /\ host.req \in Requests
    /\ ~hw.ctrTx /\ hw.tx = "NAK" /\ hw.rx = "NAK"
    /\ host.stage = IF IsIn(host.req) /\ host.req.len > 0 THEN "data" ELSE "statusIn"
    /\ host.got = 0

\* A packet of the data stage is in the endpoint.
PacketOut ==
    /\ hw.tx = "VALID"
    /\ host.stage = IF host.req.len > 0 THEN "data" ELSE "statusIn"
    /\ host.got + hw.packet.len = dev.off
    /\ hw.packet.len <= MaxPacket
    /\ hw.packet.len = 0 => dev.left = 0 /\ ~dev.zlp
    /\ hw.packet.len > 0 =>
        /\ hw.packet.off = host.got /\ host.got % MaxPacket = 0
        /\ dev.left > 0 => hw.packet.len = MaxPacket
        /\ dev.zlp <=> OwesZlp(host.req)

\* The host has taken it, and waits for more, or not.
PacketTaken ==
    /\ hw.tx = "NAK" /\ host.got = dev.off
    /\ \/ /\ host.stage = "data"
          /\ dev.off % MaxPacket = 0
          /\ dev.left > 0 \/ dev.zlp
          /\ dev.zlp <=> OwesZlp(host.req)
       \/ host.stage \in {"statusOut", "done"} /\ dev.left = 0 /\ ~dev.zlp

\* A status stage may have come before the last packet's completion is served.
DataInv ==
    /\ IsIn(host.req) /\ hw.rx # "STALL"
    /\ hw.ctrRx => hw.ctrTx /\ host.stage = "done"
    /\ dev.off + dev.left = Total(host.req)
    /\ IF hw.ctrTx THEN PacketTaken ELSE PacketOut

StatusOutInv ==
    /\ IsIn(host.req) /\ ~hw.ctrTx /\ hw.tx = "NAK" /\ hw.rx # "STALL"
    /\ host.stage \in {"statusOut", "done"}
    /\ hw.ctrRx => host.stage = "done"

StatusInInv ==
    /\ ~hw.ctrRx /\ host.req.kind \in {"SETIF", "ADDR", "CONF"}
    /\ IF hw.ctrTx
       THEN /\ host.stage = "done" /\ hw.tx = "NAK"
            /\ ~acked.doubt =>
                /\ ApplyPendingStatusAction(dev).address = acked.address
                /\ ApplyPendingStatusAction(dev).configuration = acked.configuration
       ELSE /\ host.stage = "statusIn" /\ hw.tx = "VALID"
            /\ dev.pendingAddress = IF host.req.kind = "ADDR" THEN host.req.val ELSE None
            /\ dev.pendingConfiguration =
                IF host.req.kind = "CONF" THEN host.req.val ELSE None
            /\ host.req.kind = "ADDR" => host.req.val \in Address
            /\ host.req.kind = "CONF" => host.req.val \in {0, 1}

IdleInv ==
    /\ ~hw.ctrTx /\ ~hw.ctrRx
    /\ \/ host.stage \in {"idle", "done", "failed"}
       \/ hw.tx = "STALL" /\ host.stage \in {"data", "statusIn"}

StageInv ==
    IF Fresh THEN SetupInv
    ELSE /\ dev.state = "DATA_IN" => DataInv
         /\ dev.state = "STATUS_OUT" => StatusOutInv
         /\ dev.state = "STATUS_IN" => StatusInInv
         /\ dev.state = "IDLE" => IdleInv

\* All that was owed has arrived when the data stage is over.
GotAll ==
    /\ ~host.bad
    /\ host.stage \in {"statusOut", "done"} /\ IsIn(host.req) /\ host.req.len > 0 =>
        host.got = Total(host.req)

\* Only a status stage that is taken and not yet served is ahead of the device.
Same == ~acked.doubt => dev.address = acked.address /\ dev.configuration = acked.configuration
Applied == ~(hw.ctrTx /\ dev.state = "STATUS_IN") => Same

\* Nothing is pending in a transfer that overtook a completion, unless there is doubt.
NothingPending(d) == d.pendingAddress = None /\ d.pendingConfiguration = None
OvertakenInv ==
    /\ Fresh => hw.req = host.req /\ host.req \in Requests
    /\ Same
    /\ ~acked.doubt =>
        /\ Fresh \/ host.stage = "statusIn" => host.req.kind \notin {"ADDR", "CONF"}
        /\ ~Fresh => NothingPending(dev)

OrderInv == Types /\ StageInv /\ GotAll /\ Applied
ControlInv == IF host.overtook THEN Types /\ OvertakenInv ELSE OrderInv

-----------------------------------------------------------------------------
(* Arithmetic of full packets *)

\* One more full packet is a whole number of packets again.
LEMMA FullPackets ==
    ASSUME NEW n \in Nat, n % MaxPacket = 0
    PROVE  (n + MaxPacket) % MaxPacket = 0
<1> DEFINE q == n \div MaxPacket
<1>0. MaxPacket \in Nat \ {0}
    BY ControlAssumption
<1>1. q \in Int /\ n = MaxPacket * q
    BY <1>0
<1> HIDE DEF q
<1>2. n + MaxPacket = MaxPacket * (q + 1) + 0
    BY <1>0, <1>1
<1>3. q + 1 \in Int
    BY <1>1
<1> HIDE <1>1
<1>4. \A m \in Int : (MaxPacket * m + 0) % MaxPacket = 0
    BY <1>0
<1> QED
    BY <1>2, <1>3, <1>4

\* One that is not full makes an uneven number of bytes.
LEMMA ShortPacket ==
    ASSUME NEW n \in Nat, n % MaxPacket = 0, NEW k \in 1 .. MaxPacket - 1
    PROVE  (n + k) % MaxPacket # 0
<1> DEFINE q == n \div MaxPacket
<1>0. MaxPacket \in Nat \ {0}
    BY ControlAssumption
<1>1. q \in Int /\ n = MaxPacket * q
    BY <1>0
<1> HIDE DEF q
<1>2. n + k = MaxPacket * q + k
    BY <1>0, <1>1
<1>3. (MaxPacket * q + k) % MaxPacket = k
    BY <1>0, <1>1
<1> QED
    BY <1>2, <1>3

-----------------------------------------------------------------------------
(* What the handlers return *)

LEMMA RequestShape ==
    ASSUME NEW r \in Requests
    PROVE  /\ r \in RequestType
           /\ r.kind = "ADDR" => r.val \in Address
           /\ r.kind = "CONF" => r.val \in {0, 1}
           /\ r.kind \in {"GET", "GETIF", "SETIF", "BAD", "ADDR", "CONF"}
BY ControlAssumption DEF Requests, Req, RequestType

\* The next packet goes out from where the last one ended: usb_ep0_send_next_in_packet().
LEMMA NextPacketGoesOut ==
    ASSUME NEW d \in DevRec, NEW e \in HwRec, d.left > 0
    PROVE  LET t == SendNextInPacket(S(d, e))
               n == t.e.packet.len
           IN  /\ t.d \in DevRec /\ t.e \in HwRec
               /\ n > 0 /\ n <= MaxPacket
               /\ t.e.packet.off = d.off
               /\ t.d.off = d.off + n /\ t.d.off + t.d.left = d.off + d.left
               /\ t.d.left > 0 => n = MaxPacket
               /\ t.e.tx = "VALID" /\ t.e.rx = e.rx
               /\ t.e.ctrTx = e.ctrTx /\ t.e.ctrRx = e.ctrRx
               /\ t.d.state = d.state /\ t.d.zlp = d.zlp
               /\ t.d.address = d.address /\ t.d.configuration = d.configuration
               /\ NothingPending(d) => NothingPending(t.d)
<1> DEFINE n == IF d.left > MaxPacket THEN MaxPacket ELSE d.left
           t == SendNextInPacket(S(d, e))
<1>1. /\ n \in Nat /\ n > 0 /\ n <= MaxPacket /\ n <= d.left
      /\ d.left - n > 0 => n = MaxPacket
    BY ControlAssumption DEF DevRec
<1>2. /\ t.d = [d EXCEPT !.left = @ - n, !.off = @ + n]
      /\ t.e = [e EXCEPT !.packet = [off |-> d.off, len |-> n], !.tx = "VALID"]
    BY DEF SendNextInPacket, SendPacket, S
<1> HIDE DEF t, n
<1>3. d.off \in Nat /\ d.left \in Nat
    BY DEF DevRec
<1>4. d.left - n \in Nat /\ d.off + n \in Nat
    BY <1>1, <1>3
<1>5. t.d \in DevRec
    BY <1>2, <1>4 DEF DevRec
<1>6. /\ t.d.off = d.off + n /\ t.d.left = d.left - n
      /\ t.d.state = d.state /\ t.d.zlp = d.zlp
      /\ t.d.address = d.address /\ t.d.configuration = d.configuration
      /\ NothingPending(d) => NothingPending(t.d)
    BY <1>2 DEF DevRec, NothingPending
<1>7. [off |-> d.off, len |-> n] \in PacketType
    BY <1>1, <1>3 DEF PacketType
<1>8. t.e \in HwRec
    BY <1>2, <1>7 DEF HwRec
<1>9. /\ t.e.packet = [off |-> d.off, len |-> n]
      /\ t.e.tx = "VALID" /\ t.e.rx = e.rx
      /\ t.e.ctrTx = e.ctrTx /\ t.e.ctrRx = e.ctrRx
    BY <1>2 DEF HwRec
<1>10. t.e.packet.off = d.off /\ t.e.packet.len = n
    BY <1>9
<1>11. t.d.off + t.d.left = d.off + d.left
    BY <1>1, <1>3, <1>6
<1>12. t.d.left > 0 => n = MaxPacket
    BY <1>1, <1>6
<1> QED
    BY <1>1, <1>5, <1>6, <1>8, <1>9, <1>10, <1>11, <1>12 DEF t

\* The first packet of a data stage, which may be an empty one: usb_ep0_start_in().
LEMMA FirstPacketGoesOut ==
    ASSUME NEW d \in DevRec, NEW e \in HwRec, NEW r \in RequestType
    PROVE  LET t == StartIn(S(d, e), r.data, r.len)
               n == t.e.packet.len
           IN  /\ t.d \in DevRec /\ t.e \in HwRec
               /\ n <= MaxPacket /\ t.d.off = n
               /\ t.d.off + t.d.left = Total(r)
               /\ n = 0 => t.d.left = 0 /\ ~t.d.zlp
               /\ n > 0 => /\ t.e.packet.off = 0
                           /\ t.d.left > 0 => n = MaxPacket
                           /\ t.d.zlp <=> OwesZlp(r)
               /\ t.e.tx = "VALID" /\ t.e.rx = e.rx
               /\ t.e.ctrTx = e.ctrTx /\ t.e.ctrRx = e.ctrRx
               /\ t.d.state = "DATA_IN"
               /\ t.d.address = d.address /\ t.d.configuration = d.configuration
               /\ NothingPending(d) => NothingPending(t.d)
<1> DEFINE n == IF r.data > r.len THEN r.len ELSE r.data
           z == n # 0 /\ n < r.len /\ n % MaxPacket = 0
           c == [d EXCEPT !.off = 0, !.left = n, !.zlp = z, !.state = "DATA_IN"]
           t == StartIn(S(d, e), r.data, r.len)
<1>1. n \in Nat /\ n = Total(r) /\ z \in BOOLEAN
    BY DEF RequestType, Total
<1>2. n # 0 => (z <=> OwesZlp(r))
    BY <1>1 DEF OwesZlp
<1>3. n = 0 => ~z
    OBVIOUS
<1>4. t = IF n = 0 THEN SendPacket(S(c, e), Zlp) ELSE SendNextInPacket(S(c, e))
    BY DEF StartIn, S
<1> HIDE DEF t, z, n
<1>5. c \in DevRec
    BY <1>1 DEF DevRec
<1>6. /\ c.off = 0 /\ c.left = n /\ c.zlp = z /\ c.state = "DATA_IN"
      /\ c.address = d.address /\ c.configuration = d.configuration
      /\ NothingPending(d) => NothingPending(c)
    BY DEF DevRec, NothingPending
<1> HIDE DEF c
<1>7. CASE n = 0
  <2>1. t.d = c /\ t.e = [e EXCEPT !.packet = Zlp, !.tx = "VALID"]
      BY <1>4, <1>7 DEF SendPacket, S
  <2>2. Zlp \in PacketType /\ Zlp.len = 0
      BY DEF Zlp, PacketType
  <2>3. t.e \in HwRec
      BY <2>1, <2>2 DEF HwRec
  <2>4. /\ t.e.packet = Zlp /\ t.e.tx = "VALID" /\ t.e.rx = e.rx
        /\ t.e.ctrTx = e.ctrTx /\ t.e.ctrRx = e.ctrRx
      BY <2>1 DEF HwRec
  <2> QED
      BY <1>1, <1>3, <1>5, <1>6, <1>7, <2>1, <2>2, <2>3, <2>4, ControlAssumption DEF t
<1>8. CASE n # 0
  <2>1. t = SendNextInPacket(S(c, e)) /\ c.left > 0
      BY <1>1, <1>4, <1>6, <1>8
  <2>2. /\ t.d \in DevRec /\ t.e \in HwRec
        /\ t.e.packet.len > 0 /\ t.e.packet.len <= MaxPacket
        /\ t.e.packet.off = 0
        /\ t.d.off = 0 + t.e.packet.len /\ t.d.off + t.d.left = 0 + n
        /\ t.d.left > 0 => t.e.packet.len = MaxPacket
        /\ t.e.tx = "VALID" /\ t.e.rx = e.rx
        /\ t.e.ctrTx = e.ctrTx /\ t.e.ctrRx = e.ctrRx
        /\ t.d.state = "DATA_IN" /\ t.d.zlp = z
        /\ t.d.address = d.address /\ t.d.configuration = d.configuration
        /\ NothingPending(d) => NothingPending(t.d)
      BY <1>5, <1>6, <2>1, NextPacketGoesOut
  <2>3. t.e.packet.len \in Nat
      BY <2>2 DEF HwRec, PacketType
  <2> QED
      BY <1>1, <1>2, <1>8, <2>2, <2>3 DEF t
<1> QED
    BY <1>7, <1>8

\* A new SETUP packet, and a stall, end what was under way.
LEMMA ResetShape ==
    ASSUME NEW d \in DevRec
    PROVE  LET c == ResetTransferState(d)
           IN  /\ c \in DevRec /\ c.state = "IDLE"
               /\ c.pendingAddress = None /\ c.pendingConfiguration = None
               /\ c.address = d.address /\ c.configuration = d.configuration
<1> DEFINE c == ResetTransferState(d)
<1>1. c = [d EXCEPT !.state = "IDLE", !.off = 0, !.left = 0, !.zlp = FALSE,
                    !.pendingAddress = None, !.pendingConfiguration = None]
    BY DEF ResetTransferState
<1> HIDE DEF c
<1>2. c \in DevRec
    BY <1>1 DEF DevRec
<1>3. /\ c.state = "IDLE" /\ c.pendingAddress = None /\ c.pendingConfiguration = None
      /\ c.address = d.address /\ c.configuration = d.configuration
    BY <1>1 DEF DevRec
<1> QED
    BY <1>2, <1>3 DEF c

LEMMA StallShape ==
    ASSUME NEW d \in DevRec, NEW e \in HwRec
    PROVE  LET t == Stall(S(d, e))
           IN  /\ t.d \in DevRec /\ t.e \in HwRec
               /\ t.d.state = "IDLE" /\ t.e.tx = "STALL"
               /\ t.e.ctrTx = e.ctrTx /\ t.e.ctrRx = e.ctrRx
               /\ t.d.address = d.address /\ t.d.configuration = d.configuration
               /\ NothingPending(t.d)
<1> DEFINE t == Stall(S(d, e))
<1>1. t.d = ResetTransferState(d) /\ t.e = [e EXCEPT !.tx = "STALL", !.rx = "STALL"]
    BY DEF Stall, S
<1> HIDE DEF t
<1>2. /\ t.e \in HwRec /\ t.e.tx = "STALL"
      /\ t.e.ctrTx = e.ctrTx /\ t.e.ctrRx = e.ctrRx
    BY <1>1 DEF HwRec
<1> QED
    BY <1>1, <1>2, ResetShape DEF t, NothingPending

\* The status stage of a request without data; c is the state with its pending action.
LEMMA StatusInShape ==
    ASSUME NEW c \in DevRec, NEW e \in HwRec
    PROVE  LET t == StartStatusIn(S(c, e))
           IN  /\ t.d \in DevRec /\ t.e \in HwRec
               /\ t.d.state = "STATUS_IN" /\ t.e.tx = "VALID"
               /\ t.e.ctrTx = e.ctrTx /\ t.e.ctrRx = e.ctrRx
               /\ t.d.pendingAddress = c.pendingAddress
               /\ t.d.pendingConfiguration = c.pendingConfiguration
               /\ t.d.address = c.address /\ t.d.configuration = c.configuration
<1> DEFINE t == StartStatusIn(S(c, e))
<1>1. /\ t.d = [c EXCEPT !.state = "STATUS_IN"]
      /\ t.e = [e EXCEPT !.packet = Zlp, !.tx = "VALID"]
    BY DEF StartStatusIn, SendPacket, S
<1> HIDE DEF t
<1>2. Zlp \in PacketType
    BY DEF Zlp, PacketType
<1>3. /\ t.e \in HwRec /\ t.e.tx = "VALID"
      /\ t.e.ctrTx = e.ctrTx /\ t.e.ctrRx = e.ctrRx
    BY <1>1, <1>2 DEF HwRec
<1>4. /\ t.d \in DevRec /\ t.d.state = "STATUS_IN"
      /\ t.d.pendingAddress = c.pendingAddress
      /\ t.d.pendingConfiguration = c.pendingConfiguration
      /\ t.d.address = c.address /\ t.d.configuration = c.configuration
    BY <1>1 DEF DevRec
<1> QED
    BY <1>3, <1>4 DEF t

\* What is pending when a status stage without data begins
StatusAction(c, d, r) ==
    /\ r.kind \in {"SETIF", "ADDR", "CONF"}
    /\ c.pendingAddress = IF r.kind = "ADDR" THEN r.val ELSE None
    /\ c.pendingConfiguration = IF r.kind = "CONF" THEN r.val ELSE None
    /\ c.address = d.address /\ c.configuration = d.configuration

\* A request is stalled, or answered with a data stage or a status stage.
LEMMA SetupAnswer ==
    ASSUME NEW d0 \in DevRec, NEW e0 \in HwRec, NEW r \in Requests,
           d0.pendingAddress = None, d0.pendingConfiguration = None
    PROVE  LET t == IF IsIn(r) THEN StandardIn(S(d0, e0), r) ELSE StandardOut(S(d0, e0), r)
           IN  \/ t = Stall(S(d0, e0))
               \/ IsIn(r) /\ t = StartIn(S(d0, e0), r.data, r.len)
               \/ \E c \in DevRec : t = StartStatusIn(S(c, e0)) /\ StatusAction(c, d0, r)
<1> DEFINE t == IF IsIn(r) THEN StandardIn(S(d0, e0), r) ELSE StandardOut(S(d0, e0), r)
<1>0. /\ r.kind = "ADDR" => r.val \in Address
      /\ r.kind = "CONF" => r.val \in {0, 1}
    BY RequestShape
<1>1. CASE IsIn(r)
    BY <1>1 DEF StandardIn
<1>2. CASE ~IsIn(r) /\ r.kind = "ADDR"
  <2> DEFINE c == [d0 EXCEPT !.pendingAddress = r.val]
  <2>1. t = StartStatusIn(S(c, e0))
      BY <1>2 DEF StandardOut, S
  <2>2. c \in DevRec /\ StatusAction(c, d0, r)
      BY <1>0, <1>2 DEF DevRec, StatusAction
  <2> HIDE DEF c, t
  <2>3. \E x \in DevRec : t = StartStatusIn(S(x, e0)) /\ StatusAction(x, d0, r)
      BY <2>1, <2>2
  <2> QED
      BY <2>3 DEF t
<1>3. CASE ~IsIn(r) /\ r.kind = "CONF"
  <2> DEFINE c == [d0 EXCEPT !.pendingConfiguration = r.val]
  <2>1. t = StartStatusIn(S(c, e0))
      BY <1>3 DEF StandardOut, S
  <2>2. c \in DevRec /\ StatusAction(c, d0, r)
      BY <1>0, <1>3 DEF DevRec, StatusAction
  <2> HIDE DEF c, t
  <2>3. \E x \in DevRec : t = StartStatusIn(S(x, e0)) /\ StatusAction(x, d0, r)
      BY <2>1, <2>2
  <2> QED
      BY <2>3 DEF t
<1>4. CASE ~IsIn(r) /\ r.kind \notin {"ADDR", "CONF"}
  <2>1. (t = StartStatusIn(S(d0, e0)) /\ r.kind = "SETIF") \/ t = Stall(S(d0, e0))
      BY <1>4 DEF StandardOut, S
  <2>2. r.kind = "SETIF" => StatusAction(d0, d0, r)
      BY DEF StatusAction
  <2> HIDE DEF t
  <2>3. \/ t = Stall(S(d0, e0))
        \/ \E x \in DevRec : t = StartStatusIn(S(x, e0)) /\ StatusAction(x, d0, r)
      BY <2>1, <2>2
  <2> QED
      BY <2>3 DEF t
<1> QED
    BY <1>1, <1>2, <1>3, <1>4

-----------------------------------------------------------------------------
(* The interrupt *)

\* A SETUP packet is answered with a data stage, a status stage or a stall.
LEMMA SetupServed ==
    ASSUME OrderInv, Interrupt, Fresh
    PROVE  OrderInv'
<1> DEFINE r == host.req
           d0 == ResetTransferState(dev)
           e0 == [[hw EXCEPT !.ctrRx = FALSE] EXCEPT !.tx = "NAK", !.rx = "VALID"]
           t == IF IsIn(r) THEN StandardIn(S(d0, e0), r) ELSE StandardOut(S(d0, e0), r)
           kept == ~acked.doubt =>
                    d0.address = acked.address /\ d0.configuration = acked.configuration
<1>0. Types /\ SetupInv /\ GotAll /\ Applied
    BY DEF OrderInv, StageInv
<1>1. /\ r \in Requests /\ r \in RequestType /\ hw.req = r
      /\ r.kind = "ADDR" => r.val \in Address
      /\ r.kind = "CONF" => r.val \in {0, 1}
      /\ r.kind \in {"GET", "GETIF", "SETIF", "BAD", "ADDR", "CONF"}
    BY <1>0, RequestShape DEF SetupInv
<1>2. /\ d0 \in DevRec /\ d0.state = "IDLE"
      /\ d0.pendingAddress = None /\ d0.pendingConfiguration = None
      /\ kept
    BY <1>0, ResetShape DEF Types, SetupInv, Applied, Same
<1>3. e0 \in HwRec /\ ~e0.ctrTx /\ ~e0.ctrRx /\ e0.rx = "VALID"
    BY <1>0 DEF Types, SetupInv, HwRec
<1>4. HandleRx(S(dev, hw)) = t
    BY <1>1 DEF HandleRx, HandleSetup, S, Fresh
<1>5. ~t.e.ctrTx => dev' = t.d /\ hw' = t.e
  <2>1. hw.ctrRx
      BY DEF Fresh
  <2> QED
      BY <1>4, <2>1 DEF Interrupt
<1>6. UNCHANGED <<host, acked>>
    BY DEF Interrupt
<1>7. r.len \in Nat /\ host.got = 0 /\ host.stage \in {"data", "statusIn"}
    BY <1>0, <1>1 DEF RequestType, SetupInv
<1>8. GotAll'
    BY <1>0, <1>6, <1>7 DEF GotAll
<1>9. \/ t = Stall(S(d0, e0))
      \/ IsIn(r) /\ t = StartIn(S(d0, e0), r.data, r.len)
      \/ \E c \in DevRec : t = StartStatusIn(S(c, e0)) /\ StatusAction(c, d0, r)
  <2> HIDE DEF d0, e0, r, kept
  <2> QED
      BY <1>1, <1>2, <1>3, SetupAnswer
<1> HIDE DEF t, d0, e0
<1>10. CASE t = Stall(S(d0, e0))
  <2>1. /\ t.d \in DevRec /\ t.e \in HwRec
        /\ t.d.state = "IDLE" /\ t.e.tx = "STALL"
        /\ t.e.ctrTx = e0.ctrTx /\ t.e.ctrRx = e0.ctrRx
        /\ t.d.address = d0.address /\ t.d.configuration = d0.configuration
      BY <1>2, <1>3, <1>10, StallShape
  <2>2. dev' = t.d /\ hw' = t.e
      BY <1>3, <1>5, <2>1
  <2>3. Types' /\ Applied'
      BY <1>0, <1>2, <1>6, <2>1, <2>2 DEF Types, Applied, Same
  <2>4. IdleInv' /\ ~Fresh' /\ dev'.state = "IDLE"
      BY <1>3, <1>6, <1>7, <2>1, <2>2 DEF IdleInv, Fresh
  <2> QED
      BY <1>8, <2>3, <2>4 DEF OrderInv, StageInv
<1>11. CASE IsIn(r) /\ t = StartIn(S(d0, e0), r.data, r.len)
  <2> DEFINE n == t.e.packet.len
  <2>1. /\ t.d \in DevRec /\ t.e \in HwRec
        /\ n <= MaxPacket /\ t.d.off = n
        /\ t.d.off + t.d.left = Total(r)
        /\ n = 0 => t.d.left = 0 /\ ~t.d.zlp
        /\ n > 0 => /\ t.e.packet.off = 0
                    /\ t.d.left > 0 => n = MaxPacket
                    /\ t.d.zlp <=> OwesZlp(r)
        /\ t.e.tx = "VALID" /\ t.e.rx = e0.rx
        /\ t.e.ctrTx = e0.ctrTx /\ t.e.ctrRx = e0.ctrRx
        /\ t.d.state = "DATA_IN"
        /\ t.d.address = d0.address /\ t.d.configuration = d0.configuration
      BY <1>1, <1>2, <1>3, <1>11, FirstPacketGoesOut, ZenonT(60)
  <2>2. dev' = t.d /\ hw' = t.e
      BY <1>3, <1>5, <2>1
  <2>3. Types' /\ Applied'
      BY <1>0, <1>2, <1>6, <2>1, <2>2 DEF Types, Applied, Same
  <2>4. PacketOut'
    <3>1. 0 % MaxPacket = 0
        BY ControlAssumption
    <3>2. n \in Nat
        BY <2>1 DEF HwRec, PacketType
    <3>3. host.stage = IF r.len > 0 THEN "data" ELSE "statusIn"
        BY <1>0, <1>11 DEF SetupInv
    <3>4. OwesZlp(host.req)' <=> OwesZlp(r)
        BY <1>6 DEF OwesZlp, Total
    <3> QED
        BY <1>6, <1>7, <2>1, <2>2, <3>1, <3>2, <3>3, <3>4 DEF PacketOut
  <2>5. DataInv' /\ ~Fresh' /\ dev'.state = "DATA_IN"
      BY <1>3, <1>6, <1>11, <2>1, <2>2, <2>4 DEF DataInv, Fresh, Total, IsIn
  <2> QED
      BY <1>8, <2>3, <2>5 DEF OrderInv, StageInv
<1>12. ASSUME NEW c \in DevRec,
              t = StartStatusIn(S(c, e0)), StatusAction(c, d0, r)
       PROVE  OrderInv'
  <2>0. /\ r.kind \in {"SETIF", "ADDR", "CONF"}
        /\ c.pendingAddress = IF r.kind = "ADDR" THEN r.val ELSE None
        /\ c.pendingConfiguration = IF r.kind = "CONF" THEN r.val ELSE None
        /\ c.address = d0.address /\ c.configuration = d0.configuration
      BY <1>12 DEF StatusAction
  <2>1. /\ t.d \in DevRec /\ t.e \in HwRec
        /\ t.d.state = "STATUS_IN" /\ t.e.tx = "VALID"
        /\ t.e.ctrTx = e0.ctrTx /\ t.e.ctrRx = e0.ctrRx
        /\ t.d.pendingAddress = c.pendingAddress
        /\ t.d.pendingConfiguration = c.pendingConfiguration
        /\ t.d.address = c.address /\ t.d.configuration = c.configuration
      BY <1>3, <1>12, StatusInShape
  <2>2. dev' = t.d /\ hw' = t.e
      BY <1>3, <1>5, <2>1
  <2>3. Types' /\ Applied'
      BY <1>0, <1>2, <1>6, <2>0, <2>1, <2>2 DEF Types, Applied, Same
  <2>4. host.stage = "statusIn"
      BY <1>0, <2>0 DEF SetupInv, IsIn
  <2>5. StatusInInv' /\ ~Fresh' /\ dev'.state = "STATUS_IN"
      BY <1>1, <1>3, <1>6, <2>0, <2>1, <2>2, <2>4 DEF StatusInInv, Fresh
  <2> QED
      BY <1>8, <2>3, <2>5 DEF OrderInv, StageInv
<1> QED
    BY <1>9, <1>10, <1>11, <1>12

\* The host's empty packet closes the transfer.
LEMMA StatusOutServed ==
    ASSUME OrderInv, Interrupt, ~Fresh, hw.ctrRx, ~hw.ctrTx
    PROVE  OrderInv'
<1> DEFINE d == [dev EXCEPT !.state = "IDLE"]
           e == [[hw EXCEPT !.ctrRx = FALSE] EXCEPT !.tx = "NAK", !.rx = "VALID"]
<1>0. Types /\ GotAll /\ Applied /\ ~hw.setup
    BY DEF OrderInv, Fresh
<1>1. dev.state = "STATUS_OUT" /\ StatusOutInv
    BY <1>0 DEF OrderInv, StageInv, DataInv, StatusInInv, IdleInv, Types, DevRec
<1>2. /\ d \in DevRec /\ d.state = "IDLE"
      /\ d.address = dev.address /\ d.configuration = dev.configuration
    BY <1>0 DEF Types, DevRec
<1>3. e \in HwRec /\ ~e.ctrTx /\ ~e.ctrRx
    BY <1>0, <1>1 DEF Types, HwRec, StatusOutInv
<1>4. HandleRx(S(dev, hw)) = S(d, e)
    BY <1>0, <1>1 DEF HandleRx, S
<1> HIDE DEF d, e
<1>5. dev' = d /\ hw' = e /\ UNCHANGED <<host, acked>>
  <2>1. S(d, e).d = d /\ S(d, e).e = e
      BY DEF S
  <2> QED
      BY <1>3, <1>4, <2>1 DEF Interrupt
<1>6. Types' /\ GotAll' /\ Applied'
    BY <1>0, <1>1, <1>2, <1>3, <1>5 DEF Types, GotAll, Applied, Same, StatusOutInv
<1>7. IdleInv' /\ ~Fresh' /\ dev'.state = "IDLE"
    BY <1>1, <1>2, <1>3, <1>5 DEF IdleInv, Fresh, StatusOutInv
<1> QED
    BY <1>6, <1>7 DEF OrderInv, StageInv

\* The status stage came before the last packet's completion was served: the device, not
\* yet waiting for it, stalls a transfer that the host has ended.
LEMMA EarlyStatusServed ==
    ASSUME OrderInv, Interrupt, ~Fresh, hw.ctrRx, hw.ctrTx
    PROVE  OrderInv'
<1> DEFINE c == [hw EXCEPT !.ctrRx = FALSE]
           t == Stall(S(dev, c))
           e == [[t.e EXCEPT !.ctrTx = FALSE] EXCEPT !.tx = "NAK"]
<1>0. Types /\ GotAll /\ Applied /\ ~hw.setup
    BY DEF OrderInv, Fresh
<1>1. dev.state = "DATA_IN" /\ DataInv /\ host.stage = "done"
    BY <1>0 DEF OrderInv, StageInv, DataInv, StatusOutInv, StatusInInv, IdleInv, Types, DevRec
<1>2. c \in HwRec /\ c.ctrTx /\ ~c.ctrRx
    BY <1>0 DEF Types, HwRec
<1>3. HandleRx(S(dev, hw)) = t
    BY <1>0, <1>1 DEF HandleRx, S
<1> HIDE DEF c
<1>4. /\ t.d \in DevRec /\ t.e \in HwRec
      /\ t.d.state = "IDLE" /\ t.e.ctrTx /\ ~t.e.ctrRx
      /\ t.d.address = dev.address /\ t.d.configuration = dev.configuration
    BY <1>0, <1>2, StallShape DEF Types
<1> HIDE DEF t
<1>5. HandleTx(t) = S(t.d, e)
    BY <1>4 DEF HandleTx, S
<1>6. e \in HwRec /\ ~e.ctrTx /\ ~e.ctrRx
    BY <1>4 DEF HwRec
<1> HIDE DEF e
<1>7. dev' = t.d /\ hw' = e /\ UNCHANGED <<host, acked>>
  <2>1. S(t.d, e).d = t.d /\ S(t.d, e).e = e
      BY DEF S
  <2> QED
      BY <1>3, <1>4, <1>5, <2>1 DEF Interrupt
<1>8. Types' /\ GotAll' /\ Applied'
    BY <1>0, <1>1, <1>4, <1>6, <1>7 DEF Types, GotAll, Applied, Same, Same
<1>9. IdleInv' /\ ~Fresh' /\ dev'.state = "IDLE"
    BY <1>1, <1>4, <1>6, <1>7 DEF IdleInv, Fresh
<1> QED
    BY <1>8, <1>9 DEF OrderInv, StageInv

\* A packet that is sent, and none received: usb_ep0_handle_tx() alone.
LEMMA OnlyTx ==
    ASSUME Interrupt, ~hw.ctrRx
    PROVE  /\ hw.ctrTx
           /\ dev' = HandleTx(S(dev, hw)).d /\ hw' = HandleTx(S(dev, hw)).e
           /\ UNCHANGED <<host, acked>>
<1>1. S(dev, hw).e = hw
    BY DEF S
<1> QED
    BY <1>1 DEF Interrupt

\* The next packet of the data stage, the zero-length one, or its end.
LEMMA DataServed ==
    ASSUME OrderInv, Interrupt, ~hw.ctrRx, dev.state = "DATA_IN"
    PROVE  OrderInv'
<1> DEFINE c == [hw EXCEPT !.ctrTx = FALSE]
           t == HandleTx(S(dev, hw))
<1>0. Types /\ GotAll /\ Applied /\ ~Fresh
    BY DEF OrderInv, Fresh
<1>1. hw.ctrTx /\ dev' = t.d /\ hw' = t.e /\ UNCHANGED <<host, acked>>
    BY OnlyTx
<1>2. DataInv /\ PacketTaken
    BY <1>0, <1>1 DEF OrderInv, StageInv, DataInv
<1>3. /\ c \in HwRec /\ ~c.ctrTx /\ ~c.ctrRx /\ c.rx = hw.rx
    BY <1>0 DEF Types, HwRec
<1>4. /\ dev.left \in Nat /\ dev.off \in Nat /\ host.got = dev.off
      /\ host.req.len \in Nat
    BY <1>0, <1>2 DEF Types, DevRec, PacketTaken, RequestType, HostRec, AskType
<1>5. GotAll'
    BY <1>0, <1>1 DEF GotAll
<1>6. Same
    BY <1>0 DEF Applied, Same
<1>7. (OwesZlp(host.req)' <=> OwesZlp(host.req)) /\ Total(host.req)' = Total(host.req)
    BY <1>1 DEF OwesZlp, Total
<1>8. CASE dev.left # 0
  <2>1. t = SendNextInPacket(S(dev, c)) /\ dev.left > 0
      BY <1>4, <1>8 DEF HandleTx, S
  <2> HIDE DEF t, c
  <2> DEFINE n == t.e.packet.len
  <2>2. /\ t.d \in DevRec /\ t.e \in HwRec
        /\ n > 0 /\ n <= MaxPacket
        /\ t.e.packet.off = dev.off
        /\ t.d.off = dev.off + n /\ t.d.off + t.d.left = dev.off + dev.left
        /\ t.d.left > 0 => n = MaxPacket
        /\ t.e.tx = "VALID" /\ t.e.rx = c.rx
        /\ t.e.ctrTx = c.ctrTx /\ t.e.ctrRx = c.ctrRx
        /\ t.d.state = dev.state /\ t.d.zlp = dev.zlp
        /\ t.d.address = dev.address /\ t.d.configuration = dev.configuration
      BY <1>0, <1>3, <2>1, NextPacketGoesOut DEF Types
  <2>3. n \in Nat
      BY <2>2 DEF HwRec, PacketType
  <2>4. /\ host.stage = "data" /\ dev.off % MaxPacket = 0
        /\ dev.zlp <=> OwesZlp(host.req)
      BY <1>2, <1>8 DEF PacketTaken
  <2>5. host.req.len > 0
      BY <1>2, <1>4, <1>8 DEF DataInv, Total
  <2>6. PacketOut'
      BY <1>1, <1>4, <1>7, <2>2, <2>3, <2>4, <2>5 DEF PacketOut
  <2>7. DataInv' /\ ~Fresh' /\ dev'.state = "DATA_IN"
      BY <1>1, <1>2, <1>3, <1>7, <2>2, <2>6 DEF DataInv, Fresh, IsIn
  <2>8. Types' /\ Applied'
      BY <1>0, <1>1, <1>6, <2>2 DEF Types, Applied, Same
  <2> QED
      BY <1>5, <2>7, <2>8 DEF OrderInv, StageInv
<1>9. CASE dev.left = 0 /\ dev.zlp
  <2> DEFINE d == [dev EXCEPT !.zlp = FALSE]
             e == [c EXCEPT !.packet = Zlp, !.tx = "VALID"]
  <2>1. t = S(d, e)
      BY <1>9 DEF HandleTx, SendPacket, S
  <2>2. Zlp \in PacketType /\ Zlp.len = 0
      BY DEF Zlp, PacketType
  <2>3. /\ d \in DevRec /\ d.state = "DATA_IN" /\ ~d.zlp
        /\ d.left = dev.left /\ d.off = dev.off
        /\ d.address = dev.address /\ d.configuration = dev.configuration
      BY <1>0 DEF Types, DevRec
  <2> HIDE DEF c
  <2>4. /\ e \in HwRec /\ ~e.ctrTx /\ ~e.ctrRx /\ e.rx = hw.rx
        /\ e.packet = Zlp /\ e.tx = "VALID"
      BY <1>3, <2>2 DEF HwRec
  <2> HIDE DEF d, e, t
  <2>5. dev' = d /\ hw' = e
      BY <1>1, <2>1 DEF S
  <2>6. host.stage = "data" /\ OwesZlp(host.req)
      BY <1>2, <1>9 DEF PacketTaken
  <2>7. host.req.len > 0
      BY <1>2, <1>4, <1>9, <2>6 DEF OwesZlp, DataInv
  <2>8. PacketOut'
      BY <1>1, <1>4, <1>9, <2>2, <2>3, <2>4, <2>5, <2>6, <2>7, ControlAssumption
      DEF PacketOut
  <2>9. DataInv' /\ ~Fresh' /\ dev'.state = "DATA_IN"
      BY <1>1, <1>2, <1>7, <2>3, <2>4, <2>5, <2>8 DEF DataInv, Fresh, IsIn
  <2>10. Types' /\ Applied'
      BY <1>0, <1>1, <1>6, <2>3, <2>4, <2>5 DEF Types, Applied, Same
  <2> QED
      BY <1>5, <2>9, <2>10 DEF OrderInv, StageInv
<1>10. CASE dev.left = 0 /\ ~dev.zlp
  <2> DEFINE d == [dev EXCEPT !.state = "STATUS_OUT"]
             e == [c EXCEPT !.tx = "NAK", !.rx = "VALID"]
  <2>1. t = S(d, e)
      BY <1>10 DEF HandleTx, S
  <2>2. /\ d \in DevRec /\ d.state = "STATUS_OUT"
        /\ d.address = dev.address /\ d.configuration = dev.configuration
      BY <1>0 DEF Types, DevRec
  <2> HIDE DEF c
  <2>3. /\ e \in HwRec /\ ~e.ctrTx /\ ~e.ctrRx
        /\ e.tx = "NAK" /\ e.rx = "VALID"
      BY <1>3 DEF HwRec
  <2> HIDE DEF d, e, t
  <2>4. dev' = d /\ hw' = e
      BY <1>1, <2>1 DEF S
  <2>5. host.stage \in {"statusOut", "done"} /\ IsIn(host.req)
      BY <1>2, <1>10 DEF PacketTaken, DataInv
  <2>6. StatusOutInv' /\ ~Fresh' /\ dev'.state = "STATUS_OUT"
      BY <1>1, <2>2, <2>3, <2>4, <2>5 DEF StatusOutInv, Fresh, IsIn
  <2>7. Types' /\ Applied'
      BY <1>0, <1>1, <1>6, <2>2, <2>3, <2>4 DEF Types, Applied, Same
  <2> QED
      BY <1>5, <2>6, <2>7 DEF OrderInv, StageInv
<1> QED
    BY <1>0, <1>4, <1>8, <1>9, <1>10 DEF Types, DevRec

\* usb_ep0_apply_pending_status_action() keeps the types.
LEMMA ApplyType ==
    ASSUME NEW d \in DevRec
    PROVE  /\ ApplyPendingStatusAction(d) \in DevRec
           /\ ApplyPendingStatusAction(d).address =
                IF d.pendingAddress = None THEN d.address ELSE d.pendingAddress
           /\ ApplyPendingStatusAction(d).configuration =
                IF d.pendingConfiguration # None THEN d.pendingConfiguration
                ELSE IF d.pendingAddress = 0 THEN 0 ELSE d.configuration
<1> DEFINE a == IF d.pendingAddress = None THEN d
                ELSE [d EXCEPT !.address = d.pendingAddress, !.pendingAddress = None,
                               !.configuration = IF d.pendingAddress = 0 THEN 0 ELSE @]
           b == IF a.pendingConfiguration = None THEN a
                ELSE [a EXCEPT !.configuration = a.pendingConfiguration,
                               !.pendingConfiguration = None]
<1>1. ApplyPendingStatusAction(d) = b
    BY DEF ApplyPendingStatusAction
<1>2. None # 0 /\ 0 \in {0, 1}
    BY DEF None
<1>3. /\ a \in DevRec
      /\ a.address = IF d.pendingAddress = None THEN d.address ELSE d.pendingAddress
      /\ a.pendingConfiguration = d.pendingConfiguration
      /\ a.configuration = IF d.pendingAddress = 0 THEN 0 ELSE d.configuration
    BY <1>2 DEF DevRec
<1> HIDE DEF a
<1>4. /\ b \in DevRec /\ b.address = a.address
      /\ b.configuration =
            IF a.pendingConfiguration = None THEN a.configuration
            ELSE a.pendingConfiguration
    BY <1>2, <1>3 DEF DevRec
<1> HIDE DEF b
<1> QED
    BY <1>1, <1>3, <1>4

\* The status stage is over: the pending address or configuration takes effect.
LEMMA StatusInServed ==
    ASSUME OrderInv, Interrupt, ~hw.ctrRx, dev.state = "STATUS_IN"
    PROVE  OrderInv'
<1> DEFINE d0 == ApplyPendingStatusAction(dev)
           d == [d0 EXCEPT !.state = "IDLE"]
           c == [hw EXCEPT !.ctrTx = FALSE]
           e == [c EXCEPT !.tx = "NAK", !.rx = "VALID"]
<1>0. Types /\ GotAll /\ ~Fresh
    BY DEF OrderInv, Fresh
<1>1. /\ hw.ctrTx /\ UNCHANGED <<host, acked>>
      /\ dev' = HandleTx(S(dev, hw)).d /\ hw' = HandleTx(S(dev, hw)).e
    BY OnlyTx
<1>2. /\ host.stage = "done"
      /\ ~acked.doubt =>
            d0.address = acked.address /\ d0.configuration = acked.configuration
    BY <1>0, <1>1 DEF OrderInv, StageInv, StatusInInv
<1>3. d0 \in DevRec
    BY <1>0, ApplyType DEF Types
<1>4. HandleTx(S(dev, hw)) = S(d, e)
    BY DEF HandleTx, S
<1> HIDE DEF d0
<1>5. /\ d \in DevRec /\ d.state = "IDLE"
      /\ d.address = d0.address /\ d.configuration = d0.configuration
    BY <1>3 DEF DevRec
<1>6. e \in HwRec /\ ~e.ctrTx /\ ~e.ctrRx
    BY <1>0 DEF Types, HwRec
<1> HIDE DEF d, c, e
<1>7. dev' = d /\ hw' = e
    BY <1>1, <1>4 DEF S
<1>8. IdleInv' /\ ~Fresh' /\ dev'.state = "IDLE"
    BY <1>1, <1>2, <1>5, <1>6, <1>7 DEF IdleInv, Fresh
<1>9. Types' /\ GotAll' /\ Applied'
    BY <1>0, <1>1, <1>2, <1>5, <1>6, <1>7 DEF Types, GotAll, Applied, Same
<1> QED
    BY <1>8, <1>9 DEF OrderInv, StageInv

LEMMA InterruptServed ==
    ASSUME OrderInv, Interrupt
    PROVE  OrderInv'
<1>1. CASE hw.ctrRx
    BY <1>1, SetupServed, StatusOutServed, EarlyStatusServed
<1>2. CASE ~hw.ctrRx
  <2>1. hw.ctrTx /\ ~Fresh
      BY <1>2, OnlyTx DEF Fresh
  <2>2. dev.state \in {"DATA_IN", "STATUS_IN"}
      BY <2>1 DEF OrderInv, StageInv, StatusOutInv, IdleInv, Types, DevRec
  <2> QED
      BY <1>2, <2>2, DataServed, StatusInServed
<1> QED
    BY <1>1, <1>2

-----------------------------------------------------------------------------
(* The bus and the host *)

LEMMA InitHolds == Init => OrderInv
<1> SUFFICES ASSUME Init PROVE OrderInv
    OBVIOUS
<1>1. Default \in DevRec /\ Default.state = "IDLE"
    BY ControlAssumption DEF Default, DevRec, None
<1>2. Zlp \in PacketType /\ NoReq \in AskType /\ NoReq \in RequestType
    BY DEF Zlp, PacketType, NoReq, Req, RequestType, AskType
<1>3. Quiet \in HwRec /\ ~Quiet.ctrTx /\ ~Quiet.ctrRx
    BY <1>2 DEF Quiet, HwRec
<1>4. Types
    BY <1>1, <1>2, <1>3, ControlAssumption DEF Init, Types, Stages, HostRec, AckedRec
<1>5. IdleInv /\ ~Fresh /\ dev.state = "IDLE"
    BY <1>1, <1>3 DEF Init, IdleInv, Fresh
<1>6. GotAll /\ Applied
    BY DEF Init, GotAll, Applied, Same, Default
<1> QED
    BY <1>4, <1>5, <1>6 DEF OrderInv, StageInv

LEMMA BusResetKeeps ==
    ASSUME OrderInv, BusReset
    PROVE  OrderInv'
<1>0. Types /\ GotAll
    BY DEF OrderInv
<1>1. Default \in DevRec /\ Default.state = "IDLE"
    BY ControlAssumption DEF Default, DevRec, None
<1>2. Zlp \in PacketType /\ NoReq \in AskType /\ NoReq \in RequestType
    BY DEF Zlp, PacketType, NoReq, Req, RequestType, AskType
<1>3. Quiet \in HwRec /\ ~Quiet.ctrTx /\ ~Quiet.ctrRx
    BY <1>2 DEF Quiet, HwRec
<1>4. /\ host'.stage = "idle" /\ host'.bad = host.bad
      /\ host' \in HostRec
    BY <1>0 DEF BusReset, Types, Stages, HostRec
<1>5. Types'
    BY <1>1, <1>3, <1>4, ControlAssumption DEF BusReset, Types, AckedRec
<1>6. IdleInv' /\ ~Fresh' /\ dev'.state = "IDLE"
    BY <1>1, <1>3, <1>4 DEF BusReset, IdleInv, Fresh
<1>7. GotAll' /\ Applied'
    BY <1>0, <1>4 DEF BusReset, GotAll, Applied, Same, Default
<1> QED
    BY <1>5, <1>6, <1>7 DEF OrderInv, StageInv

\* A packet in the endpoint is one the host may take: nothing is left to serve.
LEMMA NotFresh ==
    ASSUME OrderInv, hw.tx = "VALID"
    PROVE  /\ ~hw.ctrRx /\ ~hw.ctrTx /\ ~Fresh
           /\ \/ dev.state = "DATA_IN" /\ DataInv /\ PacketOut
              \/ dev.state = "STATUS_IN" /\ StatusInInv
              \/ dev.state = "IDLE" /\ IdleInv
<1>1. ~Fresh /\ dev.state \in {"IDLE", "DATA_IN", "STATUS_OUT", "STATUS_IN"}
    BY DEF OrderInv, StageInv, SetupInv, Types, DevRec
<1>2. CASE dev.state = "DATA_IN"
  <2>1. DataInv
      BY <1>1, <1>2 DEF OrderInv, StageInv
  <2>2. ~hw.ctrTx /\ PacketOut
      BY <2>1 DEF DataInv, PacketTaken
  <2> QED
      BY <1>1, <1>2, <2>1, <2>2 DEF DataInv
<1>3. CASE dev.state = "STATUS_OUT"
    BY <1>1, <1>3 DEF OrderInv, StageInv, StatusOutInv
<1>4. CASE dev.state = "STATUS_IN"
    BY <1>1, <1>4 DEF OrderInv, StageInv, StatusInInv
<1>5. CASE dev.state = "IDLE"
    BY <1>1, <1>5 DEF OrderInv, StageInv, IdleInv
<1> QED
    BY <1>1, <1>2, <1>3, <1>4, <1>5

\* The packet the host reads continues what it has; the stage ends when all has come.
LEMMA HostDataKeeps ==
    ASSUME OrderInv, HostData
    PROVE  OrderInv'
<1> DEFINE p == hw.packet
           got == host.got + p.len
           last == p.len < MaxPacket \/ got >= host.req.len
<1>0. Types /\ GotAll /\ Applied /\ MaxPacket \in Nat \ {0}
    BY ControlAssumption DEF OrderInv
<1>1. ~hw.ctrRx /\ ~hw.ctrTx /\ host.stage = "data" /\ hw.tx = "VALID"
    BY NotFresh DEF HostData
<1>2. dev.state = "DATA_IN" /\ DataInv /\ PacketOut
    BY <1>1, NotFresh DEF StatusInInv, IdleInv
<1>3. /\ p.len \in Nat /\ p.off \in Nat /\ host.got \in Nat /\ host.req.len \in Nat
      /\ host.req.data \in Nat /\ dev.left \in Nat /\ dev.off \in Nat
    BY <1>0 DEF Types, HwRec, PacketType, RequestType, DevRec, HostRec, AskType
<1>4. /\ hw' = [hw EXCEPT !.tx = "NAK", !.ctrTx = TRUE]
      /\ host' = [host EXCEPT !.got = got,
                              !.bad = @ \/ (p.len > 0 /\ p.off # host.got),
                              !.stage = IF last THEN "statusOut" ELSE "data"]
      /\ UNCHANGED <<dev, acked>>
    BY DEF HostData
<1>5. ~host.bad /\ ~(p.len > 0 /\ p.off # host.got)
    BY <1>0, <1>2 DEF GotAll, PacketOut
<1>6. /\ hw' \in HwRec /\ hw'.ctrTx /\ ~hw'.ctrRx /\ hw'.tx = "NAK" /\ hw'.rx = hw.rx
    BY <1>0, <1>1, <1>4 DEF Types, HwRec
<1>7. got = dev.off /\ got \in Nat
    BY <1>2, <1>3 DEF PacketOut
<1> HIDE DEF got, last
<1>8. /\ host' \in HostRec
      /\ host'.req = host.req /\ host'.got = got /\ ~host'.bad
      /\ host'.stage = IF last THEN "statusOut" ELSE "data"
    BY <1>0, <1>4, <1>5, <1>7 DEF Types, Stages, HostRec
<1>9. Types' /\ Applied'
    BY <1>0, <1>1, <1>2, <1>4, <1>6, <1>8 DEF Types, Applied, Same
<1>10. last => dev.left = 0 /\ ~dev.zlp
  <2>1. CASE p.len = 0
      BY <1>2, <2>1 DEF PacketOut
  <2>2. CASE p.len > 0 /\ p.len < MaxPacket
    <3>1. dev.left = 0 /\ host.got % MaxPacket = 0 /\ (dev.zlp <=> OwesZlp(host.req))
        BY <1>0, <1>2, <1>3, <2>2 DEF PacketOut
    <3>2. Total(host.req) = host.got + p.len
        BY <1>2, <1>3, <1>7, <3>1 DEF DataInv, got
    <3>3. p.len \in 1 .. MaxPacket - 1
        BY <1>0, <1>3, <2>2
    <3>4. Total(host.req) % MaxPacket # 0
        BY <1>3, <3>1, <3>2, <3>3, ShortPacket
    <3> QED
        BY <3>1, <3>4 DEF OwesZlp
  <2>3. CASE p.len > 0 /\ got >= host.req.len
    <3>1. dev.off + dev.left = Total(host.req) /\ Total(host.req) <= host.req.len
        BY <1>2, <1>3 DEF DataInv, Total
    <3>2. dev.left = 0 /\ Total(host.req) = host.req.len
        BY <1>3, <1>7, <2>3, <3>1
    <3>3. ~OwesZlp(host.req)
        BY <1>3, <3>2 DEF OwesZlp
    <3> QED
        BY <1>2, <2>3, <3>2, <3>3 DEF PacketOut
  <2> QED
      BY <1>3, <2>1, <2>2, <2>3 DEF last
<1>11. ~last => /\ dev.off % MaxPacket = 0
                /\ dev.left > 0 \/ dev.zlp
                /\ dev.zlp <=> OwesZlp(host.req)
  <2> SUFFICES ASSUME ~last
               PROVE  /\ dev.off % MaxPacket = 0
                      /\ dev.left > 0 \/ dev.zlp
                      /\ dev.zlp <=> OwesZlp(host.req)
      OBVIOUS
  <2>1. p.len = MaxPacket /\ got < host.req.len
      BY <1>0, <1>2, <1>3, <1>7 DEF last, PacketOut
  <2>2. host.got % MaxPacket = 0 /\ (dev.zlp <=> OwesZlp(host.req))
      BY <1>0, <1>2, <2>1 DEF PacketOut
  <2>3. dev.off % MaxPacket = 0
      BY <1>3, <1>7, <2>1, <2>2, FullPackets DEF got
  <2>4. CASE dev.left = 0
    <3>1. Total(host.req) = dev.off
        BY <1>2, <1>3, <2>4 DEF DataInv
    <3>2. OwesZlp(host.req)
        BY <1>7, <2>1, <2>3, <3>1 DEF OwesZlp
    <3> QED
        BY <2>2, <2>3, <3>2
  <2>5. CASE dev.left > 0
      BY <2>2, <2>3, <2>5
  <2> QED
      BY <1>3, <2>4, <2>5
<1>12. (OwesZlp(host.req)' <=> OwesZlp(host.req)) /\ Total(host.req)' = Total(host.req)
    BY <1>8 DEF OwesZlp, Total
<1>13. PacketTaken'
    BY <1>4, <1>6, <1>7, <1>8, <1>10, <1>11, <1>12 DEF PacketTaken
<1>14. DataInv' /\ ~Fresh' /\ dev'.state = "DATA_IN"
    BY <1>2, <1>4, <1>6, <1>8, <1>12, <1>13 DEF DataInv, Fresh, IsIn
<1>15. GotAll'
  <2>1. last => got = Total(host.req)
      BY <1>2, <1>3, <1>7, <1>10 DEF DataInv
  <2> QED
      BY <1>8, <1>12, <2>1 DEF GotAll
<1> QED
    BY <1>9, <1>14, <1>15 DEF OrderInv, StageInv

\* The host's empty packet finds the device waiting for it, or with the completion of the
\* last packet still to serve.
LEMMA HostStatusOutKeeps ==
    ASSUME OrderInv, HostStatusOut
    PROVE  OrderInv'
<1>0. Types /\ GotAll /\ Applied
    BY DEF OrderInv
<1>1. ~hw.ctrRx /\ host.stage = "statusOut" /\ hw.rx = "VALID" /\ ~Fresh
    BY DEF HostStatusOut, Fresh
<1>2. \/ dev.state = "STATUS_OUT" /\ StatusOutInv
      \/ dev.state = "DATA_IN" /\ DataInv /\ hw.ctrTx
    BY <1>0, <1>1 DEF OrderInv, StageInv, DataInv, PacketOut, StatusInInv, IdleInv, Types, DevRec
<1>3. /\ hw' = [hw EXCEPT !.rx = "NAK", !.ctrRx = TRUE, !.setup = FALSE]
      /\ host' = [host EXCEPT !.stage = "done"]
      /\ UNCHANGED <<dev, acked>>
    BY DEF HostStatusOut
<1>4. /\ hw' \in HwRec /\ hw'.ctrRx /\ hw'.ctrTx = hw.ctrTx /\ ~hw'.setup
      /\ hw'.tx = hw.tx /\ hw'.rx = "NAK"
    BY <1>0, <1>1, <1>3 DEF Types, HwRec
<1>5. /\ host' \in HostRec
      /\ host'.stage = "done" /\ host'.req = host.req
      /\ host'.got = host.got /\ host'.bad = host.bad
    BY <1>0, <1>3 DEF Types, HostRec, Stages
<1>6. Types' /\ Applied'
    BY <1>0, <1>3, <1>4, <1>5 DEF Types, Applied, Same
<1>7. GotAll'
    BY <1>0, <1>1, <1>5 DEF GotAll, IsIn, Total
<1>8. CASE dev.state = "STATUS_OUT" /\ StatusOutInv
  <2>1. StatusOutInv' /\ ~Fresh' /\ dev'.state = "STATUS_OUT"
      BY <1>3, <1>4, <1>5, <1>8 DEF StatusOutInv, Fresh, IsIn
  <2> QED
      BY <1>6, <1>7, <2>1 DEF OrderInv, StageInv
<1>9. CASE dev.state = "DATA_IN" /\ DataInv /\ hw.ctrTx
  <2>1. PacketTaken'
      BY <1>1, <1>3, <1>4, <1>5, <1>9 DEF DataInv, PacketTaken
  <2>2. DataInv' /\ ~Fresh' /\ dev'.state = "DATA_IN"
      BY <1>3, <1>4, <1>5, <1>9, <2>1 DEF DataInv, Fresh, IsIn, Total
  <2> QED
      BY <1>6, <1>7, <2>2 DEF OrderInv, StageInv
<1> QED
    BY <1>2, <1>8, <1>9

LEMMA HostStatusInKeeps ==
    ASSUME OrderInv, HostStatusIn
    PROVE  OrderInv'
<1>0. Types /\ GotAll /\ Applied
    BY DEF OrderInv
<1>1. ~hw.ctrRx /\ ~hw.ctrTx /\ host.stage = "statusIn" /\ hw.tx = "VALID"
    BY NotFresh DEF HostStatusIn
<1>2. \/ dev.state = "DATA_IN" /\ DataInv /\ PacketOut
      \/ dev.state = "STATUS_IN" /\ StatusInInv
    BY <1>1, NotFresh DEF IdleInv
<1>3. /\ hw' = [hw EXCEPT !.tx = "NAK", !.ctrTx = TRUE]
      /\ host' = [host EXCEPT !.stage = "done"]
      /\ UNCHANGED dev
    BY DEF HostStatusIn
<1>4. acked' = CASE host.req.kind = "ADDR" ->
                       [acked EXCEPT !.address = host.req.val,
                                     !.configuration = IF host.req.val = 0 THEN 0 ELSE @]
                  [] host.req.kind = "CONF" -> [acked EXCEPT !.configuration = host.req.val]
                  [] OTHER -> acked
    BY DEF HostStatusIn
<1>5. /\ hw' \in HwRec /\ ~hw'.ctrRx /\ hw'.ctrTx
      /\ hw'.tx = "NAK" /\ hw'.rx = hw.rx
    BY <1>0, <1>1, <1>3 DEF Types, HwRec
<1>6. /\ host' \in HostRec
      /\ host'.stage = "done" /\ host'.req = host.req
      /\ host'.got = host.got /\ host'.bad = host.bad
    BY <1>0, <1>3 DEF Types, Stages, HostRec
<1>7. Same
    BY <1>0, <1>1 DEF Applied, Same
<1>8. CASE dev.state = "DATA_IN" /\ DataInv /\ PacketOut
  <2>1. host.req.len = 0
      BY <1>0, <1>1, <1>8 DEF PacketOut, Types, RequestType, HostRec, AskType
  <2>2. acked' = acked
      BY <1>4, <1>8 DEF DataInv, IsIn
  <2>3. /\ hw.packet.len \in Nat /\ host.got \in Nat
        /\ dev.left \in Nat /\ dev.off \in Nat /\ host.req.data \in Nat
      BY <1>0 DEF Types, HwRec, PacketType, DevRec, RequestType, HostRec, AskType
  <2>4. dev.off + dev.left = 0
      BY <1>8, <2>1, <2>3 DEF DataInv, Total
  <2>5. dev.off = 0 /\ dev.left = 0
      BY <2>3, <2>4
  <2>6. hw.packet.len = 0 /\ host.got = 0
      BY <1>8, <2>3, <2>5 DEF PacketOut
  <2>7. PacketTaken'
      BY <1>3, <1>5, <1>6, <1>8, <2>1, <2>5, <2>6 DEF PacketTaken, PacketOut
  <2>8. DataInv' /\ ~Fresh' /\ dev'.state = "DATA_IN"
      BY <1>3, <1>5, <1>6, <1>8, <2>7 DEF DataInv, Fresh, IsIn, Total
  <2>9. Types' /\ Applied'
      BY <1>0, <1>3, <1>5, <1>6, <1>7, <2>2 DEF Types, Applied, Same
  <2>10. GotAll'
      BY <1>0, <1>6, <2>1 DEF GotAll
  <2> QED
      BY <2>8, <2>9, <2>10 DEF OrderInv, StageInv
<1>9. CASE dev.state = "STATUS_IN" /\ StatusInInv
  <2> DEFINE r == host.req
             a == ApplyPendingStatusAction(dev)
  <2>1. /\ r.kind \in {"SETIF", "ADDR", "CONF"}
        /\ dev.pendingAddress = IF r.kind = "ADDR" THEN r.val ELSE None
        /\ dev.pendingConfiguration = IF r.kind = "CONF" THEN r.val ELSE None
        /\ r.kind = "ADDR" => r.val \in Address
        /\ r.kind = "CONF" => r.val \in {0, 1}
      BY <1>1, <1>9 DEF StatusInInv
  <2>2. /\ a.address = IF dev.pendingAddress = None THEN dev.address ELSE dev.pendingAddress
        /\ a.configuration =
             IF dev.pendingConfiguration # None THEN dev.pendingConfiguration
             ELSE IF dev.pendingAddress = 0 THEN 0 ELSE dev.configuration
      BY <1>0, ApplyType DEF Types
  <2>3. acked.address \in Address /\ acked.configuration \in {0, 1} /\ acked \in AckedRec
      BY <1>0 DEF Types, AckedRec
  <2>4. None # 0 /\ None # 1 /\ None \notin Address
      BY ControlAssumption DEF None
  <2> HIDE DEF a
  <2>5. /\ acked' \in AckedRec
        /\ ~acked'.doubt =>
              a.address = acked'.address /\ a.configuration = acked'.configuration
    <3>1. CASE r.kind = "ADDR"
      <4> DEFINE c == IF r.val = 0 THEN 0 ELSE acked.configuration
      <4>1. acked' = [acked EXCEPT !.address = r.val, !.configuration = c]
          BY <1>4, <3>1
      <4>2. r.val \in Address /\ c \in {0, 1}
          BY <2>1, <2>3, <3>1
      <4>3. /\ acked' \in AckedRec /\ acked'.address = r.val
            /\ acked'.configuration = c /\ acked'.doubt = acked.doubt
        <5> HIDE DEF c
        <5> QED
            BY <2>3, <4>1, <4>2 DEF AckedRec
      <4> QED
          BY <1>7, <2>1, <2>2, <2>3, <2>4, <3>1, <4>3 DEF Same
    <3>2. CASE r.kind = "CONF"
      <4>1. acked' = [acked EXCEPT !.configuration = r.val]
          BY <1>4, <3>2
      <4>2. /\ acked' \in AckedRec /\ acked'.doubt = acked.doubt
            /\ acked'.address = acked.address /\ acked'.configuration = r.val
          BY <2>1, <2>3, <3>2, <4>1 DEF AckedRec
      <4> QED
          BY <1>7, <2>1, <2>2, <2>4, <3>2, <4>2 DEF Same
    <3>3. CASE r.kind = "SETIF"
      <4>1. acked' = acked
          BY <1>4, <3>3
      <4> QED
          BY <1>7, <2>1, <2>2, <2>3, <2>4, <3>3, <4>1 DEF Same
    <3> QED
        BY <2>1, <3>1, <3>2, <3>3
  <2>6. ApplyPendingStatusAction(dev)' = a
      BY <1>3 DEF ApplyPendingStatusAction, a
  <2>7. StatusInInv' /\ ~Fresh' /\ dev'.state = "STATUS_IN"
      BY <1>3, <1>5, <1>6, <1>9, <2>1, <2>5, <2>6 DEF StatusInInv, Fresh
  <2>8. Types' /\ Applied'
      BY <1>0, <1>3, <1>5, <1>6, <1>9, <2>5 DEF Types, Applied, Same
  <2>9. GotAll'
      BY <1>0, <1>6, <2>1 DEF GotAll, IsIn
  <2> QED
      BY <2>7, <2>8, <2>9 DEF OrderInv, StageInv
<1> QED
    BY <1>2, <1>8, <1>9

LEMMA HostStalledKeeps ==
    ASSUME OrderInv, HostStalled
    PROVE  OrderInv'
<1>0. Types /\ GotAll /\ Applied
    BY DEF OrderInv
<1>1. ~Fresh
    BY DEF OrderInv, StageInv, SetupInv, HostStalled
<1>2. dev.state = "IDLE" /\ IdleInv
    BY <1>0, <1>1 DEF OrderInv, StageInv, HostStalled, DataInv, PacketTaken, PacketOut,
                      StatusOutInv, StatusInInv, Types, DevRec
<1>3. /\ host' = [host EXCEPT !.stage = "failed"]
      /\ UNCHANGED <<dev, hw, acked>>
    BY DEF HostStalled
<1>4. /\ host' \in HostRec
      /\ host'.stage = "failed" /\ host'.bad = host.bad
    BY <1>0, <1>3 DEF Types, Stages, HostRec
<1>5. Types' /\ GotAll' /\ Applied'
    BY <1>0, <1>3, <1>4 DEF Types, GotAll, Applied, Same
<1>6. IdleInv' /\ ~Fresh' /\ dev'.state = "IDLE"
    BY <1>1, <1>2, <1>3, <1>4 DEF IdleInv, Fresh
<1> QED
    BY <1>5, <1>6 DEF OrderInv, StageInv

LEMMA StutterKeeps ==
    ASSUME OrderInv, UNCHANGED vars
    PROVE  OrderInv'
<1>1. UNCHANGED <<dev, hw, host, acked>>
    BY DEF vars
<1> QED
    BY <1>1 DEF OrderInv, Types, StageInv, Fresh, SetupInv, DataInv, PacketTaken, PacketOut,
                StatusOutInv, StatusInInv, ApplyPendingStatusAction, IdleInv, GotAll, Applied,
                Same, IsIn, Total, OwesZlp

-----------------------------------------------------------------------------
(* A SETUP packet, and what comes after one that overtook a completion *)

LEMMA ControlTypes == ControlInv => Types
BY DEF ControlInv, OrderInv

\* Whatever is under way, a SETUP packet begins a transfer anew.
LEMMA HostSetupKeeps ==
    ASSUME ControlInv, NEW r \in Requests, HostSetup(r)
    PROVE  ControlInv'
<1>0. Types
    BY ControlTypes
<1>1. ~hw.ctrRx /\ UNCHANGED dev
    BY DEF HostSetup
<1>2. r \in RequestType
    BY RequestShape
<1>3. hw' = [hw EXCEPT !.ctrRx = TRUE, !.setup = TRUE, !.req = r, !.tx = "NAK", !.rx = "NAK"]
    BY DEF HostSetup
<1>4. /\ hw' \in HwRec /\ hw'.ctrRx /\ hw'.setup /\ hw'.req = r /\ hw'.ctrTx = hw.ctrTx
      /\ hw'.tx = "NAK" /\ hw'.rx = "NAK"
    BY <1>0, <1>2, <1>3 DEF Types, HwRec
<1>5. host' = [stage |-> IF IsIn(r) /\ r.len > 0 THEN "data" ELSE "statusIn",
               req |-> r, got |-> 0, bad |-> FALSE, overtook |-> hw.ctrTx]
    BY DEF HostSetup
<1>6. hw.ctrTx \in BOOLEAN
    BY <1>0 DEF Types, HwRec
<1>7. /\ host' \in HostRec
      /\ host'.req = r /\ host'.got = 0 /\ ~host'.bad /\ host'.overtook = hw.ctrTx
      /\ host'.stage = IF IsIn(r) /\ r.len > 0 THEN "data" ELSE "statusIn"
    BY <1>2, <1>5, <1>6, RequestShape DEF Stages, HostRec, AskType
<1>8. acked' = [acked EXCEPT !.doubt =
                @ \/ (hw.ctrTx /\ (dev.state = "STATUS_IN" \/ r.kind \in {"ADDR", "CONF"}))]
    BY DEF HostSetup
<1>9. /\ acked' \in AckedRec
      /\ acked'.address = acked.address /\ acked'.configuration = acked.configuration
      /\ ~acked'.doubt =>
            ~acked.doubt /\ (hw.ctrTx => dev.state # "STATUS_IN" /\ r.kind \notin {"ADDR", "CONF"})
    BY <1>0, <1>6, <1>8 DEF Types, AckedRec
<1>10. Types'
    BY <1>0, <1>1, <1>4, <1>7, <1>9 DEF Types
<1>11. Fresh'
    BY <1>4 DEF Fresh
<1>12. ~acked'.doubt => Same
  <2>1. CASE host.overtook
      BY <2>1 DEF ControlInv, OvertakenInv
  <2>2. CASE ~host.overtook
      BY <1>9, <2>2 DEF ControlInv, OrderInv, Applied
  <2> QED
      BY <2>1, <2>2
<1>13. Same'
    BY <1>1, <1>9, <1>12 DEF Same
<1>14. CASE hw.ctrTx
  <2>1. OvertakenInv'
      BY <1>4, <1>7, <1>9, <1>11, <1>13, <1>14 DEF OvertakenInv
  <2> QED
      BY <1>7, <1>10, <1>14, <2>1 DEF ControlInv
<1>15. CASE ~hw.ctrTx
  <2>1. SetupInv'
      BY <1>4, <1>7, <1>15 DEF SetupInv, IsIn
  <2>2. GotAll' /\ Applied'
      BY <1>7, <1>13 DEF GotAll, Applied
  <2> QED
      BY <1>7, <1>10, <1>11, <1>15, <2>1, <2>2 DEF ControlInv, OrderInv, StageInv
<1> QED
    BY <1>14, <1>15

\* Where nothing is pending and nothing is asked for, neither handler touches the address
\* or the configuration.
Kept(d, c) ==
    NothingPending(c) /\ c.address = d.address /\ c.configuration = d.configuration

LEMMA RxKeeps ==
    ASSUME NEW d \in DevRec, NEW e \in HwRec, e.setup => e.req \in Requests
    PROVE  LET t == HandleRx(S(d, e))
           IN  /\ t.d \in DevRec /\ t.e \in HwRec /\ ~t.e.ctrRx
               /\ t.d.address = d.address /\ t.d.configuration = d.configuration
               /\ e.setup /\ e.req.kind \notin {"ADDR", "CONF"} => NothingPending(t.d)
               /\ ~e.setup /\ NothingPending(d) => NothingPending(t.d)
<1> DEFINE t == HandleRx(S(d, e))
           c == [e EXCEPT !.ctrRx = FALSE]
<1>0. c \in HwRec /\ ~c.ctrRx
    BY DEF HwRec
<1>1. CASE e.setup
  <2> DEFINE r == e.req
             d0 == ResetTransferState(d)
             e0 == [c EXCEPT !.tx = "NAK", !.rx = "VALID"]
             u == IF IsIn(r) THEN StandardIn(S(d0, e0), r) ELSE StandardOut(S(d0, e0), r)
  <2>1. t = u
      BY <1>1 DEF HandleRx, HandleSetup, S
  <2>2. /\ d0 \in DevRec /\ d0.pendingAddress = None /\ d0.pendingConfiguration = None
        /\ d0.address = d.address /\ d0.configuration = d.configuration
      BY ResetShape
  <2> HIDE DEF c
  <2>3. e0 \in HwRec /\ ~e0.ctrRx
      BY <1>0 DEF HwRec
  <2>4. r \in Requests /\ r \in RequestType
      BY <1>1, RequestShape
  <2>5. NothingPending(d0)
      BY <2>2 DEF NothingPending
  <2> HIDE DEF d0, e0, r, t
  <2>6. \/ u = Stall(S(d0, e0))
        \/ IsIn(r) /\ u = StartIn(S(d0, e0), r.data, r.len)
        \/ \E x \in DevRec : u = StartStatusIn(S(x, e0)) /\ StatusAction(x, d0, r)
      BY <2>2, <2>3, <2>4, SetupAnswer
  <2> HIDE DEF u
  <2>7. /\ t.d \in DevRec /\ t.e \in HwRec /\ t.e.ctrRx = e0.ctrRx
        /\ t.d.address = d0.address /\ t.d.configuration = d0.configuration
        /\ r.kind \notin {"ADDR", "CONF"} => NothingPending(t.d)
    <3>1. CASE u = Stall(S(d0, e0))
        BY <2>1, <2>2, <2>3, <3>1, StallShape
    <3>2. CASE u = StartIn(S(d0, e0), r.data, r.len)
        BY <2>1, <2>2, <2>3, <2>4, <2>5, <3>2, FirstPacketGoesOut, ZenonT(60)
    <3>3. ASSUME NEW x \in DevRec, u = StartStatusIn(S(x, e0)), StatusAction(x, d0, r)
          PROVE  /\ t.d \in DevRec /\ t.e \in HwRec /\ t.e.ctrRx = e0.ctrRx
                 /\ t.d.address = d0.address /\ t.d.configuration = d0.configuration
                 /\ r.kind \notin {"ADDR", "CONF"} => NothingPending(t.d)
        BY <2>1, <2>3, <3>3, StatusInShape DEF StatusAction, NothingPending
    <3> QED
        BY <2>6, <3>1, <3>2, <3>3
  <2> QED
      BY <1>1, <2>2, <2>3, <2>7 DEF r, t
<1>2. CASE ~e.setup /\ d.state = "STATUS_OUT"
  <2> DEFINE a == [d EXCEPT !.state = "IDLE"]
             b == [c EXCEPT !.tx = "NAK", !.rx = "VALID"]
  <2>1. t = S(a, b)
      BY <1>2 DEF HandleRx, S
  <2>2. /\ a \in DevRec /\ a.address = d.address /\ a.configuration = d.configuration
        /\ NothingPending(d) => NothingPending(a)
      BY DEF DevRec, NothingPending
  <2> HIDE DEF c
  <2>3. b \in HwRec /\ ~b.ctrRx
      BY <1>0 DEF HwRec
  <2> HIDE DEF a, b, t
  <2>4. t.d = a /\ t.e = b
      BY <2>1 DEF S
  <2> QED
      BY <1>2, <2>2, <2>3, <2>4 DEF t
<1>3. CASE ~e.setup /\ d.state # "STATUS_OUT"
  <2>1. t = Stall(S(d, c))
      BY <1>3 DEF HandleRx, S
  <2> HIDE DEF c, t
  <2> QED
      BY <1>0, <1>3, <2>1, StallShape DEF t
<1> QED
    BY <1>1, <1>2, <1>3

LEMMA TxKeeps ==
    ASSUME NEW d \in DevRec, NEW e \in HwRec
    PROVE  LET t == HandleTx(S(d, e))
           IN  /\ t.d \in DevRec /\ t.e \in HwRec /\ t.e.ctrRx = e.ctrRx
               /\ NothingPending(d) => Kept(d, t.d)
<1> DEFINE t == HandleTx(S(d, e))
           c == [e EXCEPT !.ctrTx = FALSE]
           n == [c EXCEPT !.tx = "NAK"]
           rest == [c EXCEPT !.tx = "NAK", !.rx = "VALID"]
<1>0. c \in HwRec /\ c.ctrRx = e.ctrRx
    BY DEF HwRec
<1>1. d.left \in Nat
    BY DEF DevRec
<1>2. CASE d.state = "DATA_IN" /\ d.left # 0
  <2>1. t = SendNextInPacket(S(d, c)) /\ d.left > 0
      BY <1>1, <1>2 DEF HandleTx, S
  <2> HIDE DEF c, t
  <2> QED
      BY <1>0, <2>1, NextPacketGoesOut DEF t, Kept
<1>3. CASE d.state = "DATA_IN" /\ d.left = 0 /\ d.zlp
  <2> DEFINE a == [d EXCEPT !.zlp = FALSE]
             b == [c EXCEPT !.packet = Zlp, !.tx = "VALID"]
  <2>1. t = S(a, b)
      BY <1>3 DEF HandleTx, SendPacket, S
  <2>2. a \in DevRec /\ (NothingPending(d) => Kept(d, a))
      BY DEF DevRec, NothingPending, Kept
  <2>3. Zlp \in PacketType
      BY DEF Zlp, PacketType
  <2> HIDE DEF c
  <2>4. b \in HwRec /\ b.ctrRx = e.ctrRx
      BY <1>0, <2>3 DEF HwRec
  <2> HIDE DEF a, b, t
  <2>5. t.d = a /\ t.e = b
      BY <2>1 DEF S
  <2> QED
      BY <2>2, <2>4, <2>5 DEF t
<1>4. rest \in HwRec /\ rest.ctrRx = e.ctrRx
  <2> HIDE DEF c
  <2> QED
      BY <1>0 DEF HwRec
<1>5. n \in HwRec /\ n.ctrRx = e.ctrRx
  <2> HIDE DEF c
  <2> QED
      BY <1>0 DEF HwRec
<1>6. CASE d.state = "DATA_IN" /\ d.left = 0 /\ ~d.zlp
  <2> DEFINE a == [d EXCEPT !.state = "STATUS_OUT"]
  <2>1. t = S(a, rest)
      BY <1>6 DEF HandleTx, S
  <2>2. a \in DevRec /\ (NothingPending(d) => Kept(d, a))
      BY DEF DevRec, NothingPending, Kept
  <2> HIDE DEF a, rest, t
  <2>3. t.d = a /\ t.e = rest
      BY <2>1 DEF S
  <2> QED
      BY <1>4, <2>2, <2>3 DEF t
<1>7. CASE d.state = "STATUS_IN"
  <2> DEFINE a == ApplyPendingStatusAction(d)
             b == [a EXCEPT !.state = "IDLE"]
  <2>1. t = S(b, rest)
      BY <1>7 DEF HandleTx, S
  <2>2. a \in DevRec
      BY ApplyType
  <2>3. NothingPending(d) => a = d
      BY DEF NothingPending, ApplyPendingStatusAction
  <2> HIDE DEF a
  <2>4. b \in DevRec /\ (NothingPending(d) => Kept(d, b))
      BY <2>2, <2>3 DEF DevRec, NothingPending, Kept
  <2> HIDE DEF b, rest, t
  <2>5. t.d = b /\ t.e = rest
      BY <2>1 DEF S
  <2> QED
      BY <1>4, <2>4, <2>5 DEF t
<1>8. CASE d.state \notin {"DATA_IN", "STATUS_IN"}
  <2>1. t = S(d, n)
      BY <1>8 DEF HandleTx, S
  <2> HIDE DEF n, t
  <2>2. t.d = d /\ t.e = n
      BY <2>1 DEF S
  <2> QED
      BY <1>5, <2>2 DEF t, Kept
<1> QED
    BY <1>2, <1>3, <1>6, <1>7, <1>8 DEF DevRec

\* The completion that was overtaken is taken for the new transfer's.
LEMMA OvertakenServed ==
    ASSUME Types, OvertakenInv, Interrupt
    PROVE  Types' /\ OvertakenInv'
<1> DEFINE s == IF hw.ctrRx THEN HandleRx(S(dev, hw)) ELSE S(dev, hw)
           t == IF s.e.ctrTx THEN HandleTx(s) ELSE s
           quiet == ~acked.doubt
<1>1. dev' = t.d /\ hw' = t.e /\ UNCHANGED <<host, acked>>
    BY DEF Interrupt
<1>2. hw.ctrRx /\ hw.setup => hw.req = host.req /\ host.req \in Requests
    BY DEF OvertakenInv, Fresh
<1>3. /\ s.d \in DevRec /\ s.e \in HwRec /\ ~s.e.ctrRx
      /\ s.d.address = dev.address /\ s.d.configuration = dev.configuration
      /\ quiet => NothingPending(s.d)
      /\ s = S(s.d, s.e)
  <2>1. CASE hw.ctrRx
    <3>1. s = HandleRx(S(dev, hw))
        BY <2>1
    <3>2. quiet => IF hw.setup THEN host.req.kind \notin {"ADDR", "CONF"} ELSE NothingPending(dev)
        BY <2>1 DEF OvertakenInv, Fresh
    <3>3. s = S(s.d, s.e)
        BY <3>1 DEF HandleRx, HandleSetup, StandardIn, StandardOut, StartIn, StartStatusIn,
                    SendNextInPacket, SendPacket, Stall, S
    <3> HIDE DEF s
    <3> QED
        BY <1>2, <2>1, <3>1, <3>2, <3>3, RxKeeps DEF Types
  <2>2. CASE ~hw.ctrRx
    <3>1. s.d = dev /\ s.e = hw /\ s = S(s.d, s.e)
        BY <2>2 DEF S
    <3>2. quiet => NothingPending(dev)
        BY <2>2 DEF OvertakenInv, Fresh
    <3> HIDE DEF s
    <3> QED
        BY <2>2, <3>1, <3>2 DEF Types
  <2> QED
      BY <2>1, <2>2
<1> HIDE DEF s
<1>4. /\ t.d \in DevRec /\ t.e \in HwRec /\ ~t.e.ctrRx
      /\ quiet => Kept(s.d, t.d)
  <2>1. CASE s.e.ctrTx
    <3>1. t = HandleTx(S(s.d, s.e))
        BY <1>3, <2>1
    <3> HIDE DEF t
    <3> QED
        BY <1>3, <3>1, TxKeeps
  <2>2. CASE ~s.e.ctrTx
      BY <1>3, <2>2 DEF Kept
  <2> QED
      BY <2>1, <2>2
<1> HIDE DEF t
<1>5. Types'
    BY <1>1, <1>4 DEF Types
<1>6. ~Fresh'
    BY <1>1, <1>4 DEF Fresh
<1>7. Same'
    BY <1>1, <1>3, <1>4 DEF Same, OvertakenInv, Kept
<1>8. ~acked'.doubt =>
        /\ NothingPending(dev)'
        /\ host'.stage = "statusIn" => host'.req.kind \notin {"ADDR", "CONF"}
    BY <1>1, <1>4 DEF OvertakenInv, Kept, NothingPending
<1> QED
    BY <1>5, <1>6, <1>7, <1>8 DEF OvertakenInv

\* The host's steps leave the device alone; a status stage it takes without doubt sets
\* nothing.
LEMMA OvertakenHost ==
    ASSUME Types, OvertakenInv, HostStep
    PROVE  Types' /\ OvertakenInv'
<1>1. UNCHANGED dev
    BY DEF HostStep, HostData, HostStatusOut, HostStatusIn, HostStalled
<1>2. CASE HostData
  <2> DEFINE g == host.got + hw.packet.len
             b == host.bad \/ (hw.packet.len > 0 /\ hw.packet.off # host.got)
             st == IF hw.packet.len < MaxPacket \/ g >= host.req.len THEN "statusOut" ELSE "data"
  <2>1. /\ hw' = [hw EXCEPT !.tx = "NAK", !.ctrTx = TRUE]
        /\ host' = [host EXCEPT !.got = g, !.bad = b, !.stage = st]
        /\ UNCHANGED acked
      BY <1>2 DEF HostData
  <2>2. g \in Nat /\ b \in BOOLEAN /\ st \in Stages /\ st # "statusIn"
      BY DEF Types, HostRec, HwRec, PacketType, Stages
  <2> HIDE DEF g, b, st
  <2>3. host' \in HostRec /\ host'.req = host.req /\ host'.stage = st
      BY <2>1, <2>2 DEF Types, HostRec
  <2>4. hw' \in HwRec /\ hw'.ctrRx = hw.ctrRx /\ hw'.setup = hw.setup /\ hw'.req = hw.req
      BY <2>1 DEF Types, HwRec
  <2> QED
      BY <1>1, <2>1, <2>2, <2>3, <2>4 DEF Types, OvertakenInv, Fresh, Same, NothingPending
<1>3. CASE HostStatusOut
  <2>1. /\ hw' = [hw EXCEPT !.rx = "NAK", !.ctrRx = TRUE, !.setup = FALSE]
        /\ host' = [host EXCEPT !.stage = "done"]
        /\ UNCHANGED acked /\ ~hw.ctrRx
      BY <1>3 DEF HostStatusOut
  <2>2. host' \in HostRec /\ host'.req = host.req /\ host'.stage = "done"
      BY <2>1 DEF Types, HostRec, Stages
  <2>3. hw' \in HwRec /\ ~hw'.setup
      BY <2>1 DEF Types, HwRec
  <2> QED
      BY <1>1, <2>1, <2>2, <2>3 DEF Types, OvertakenInv, Fresh, Same, NothingPending
<1>4. CASE HostStatusIn
  <2> DEFINE k == host.req.kind
             v == host.req.val
  <2>1. /\ hw' = [hw EXCEPT !.tx = "NAK", !.ctrTx = TRUE]
        /\ host' = [host EXCEPT !.stage = "done"]
        /\ host.stage = "statusIn"
      BY <1>4 DEF HostStatusIn
  <2>2. host' \in HostRec /\ host'.req = host.req /\ host'.stage = "done"
      BY <2>1 DEF Types, HostRec, Stages
  <2>3. hw' \in HwRec /\ hw'.ctrRx = hw.ctrRx /\ hw'.setup = hw.setup /\ hw'.req = hw.req
      BY <2>1 DEF Types, HwRec
  <2>4. acked' \in AckedRec /\ acked'.doubt = acked.doubt /\ (~acked.doubt => acked' = acked)
    <3>1. CASE k \notin {"ADDR", "CONF"}
      <4>1. acked' = acked
          BY <1>4, <3>1 DEF HostStatusIn
      <4> QED
          BY <4>1 DEF Types
    <3>2. CASE k = "ADDR"
      <4>1. acked' = [acked EXCEPT !.address = v,
                                   !.configuration = IF v = 0 THEN 0 ELSE @]
          BY <1>4, <3>2 DEF HostStatusIn
      <4>2. v \in Address
          BY <3>2 DEF Types, HostRec, AskType
      <4>3. acked.doubt
          BY <2>1, <3>2 DEF OvertakenInv
      <4> QED
          BY <4>1, <4>2, <4>3 DEF Types, AckedRec
    <3>3. CASE k = "CONF"
      <4>1. acked' = [acked EXCEPT !.configuration = v]
          BY <1>4, <3>3 DEF HostStatusIn
      <4>2. v \in {0, 1}
          BY <3>3 DEF Types, HostRec, AskType
      <4>3. acked.doubt
          BY <2>1, <3>3 DEF OvertakenInv
      <4> QED
          BY <4>1, <4>2, <4>3 DEF Types, AckedRec
    <3> QED
        BY <3>1, <3>2, <3>3
  <2>5. Types'
      BY <1>1, <2>2, <2>3, <2>4 DEF Types
  <2>6. Same'
      BY <1>1, <2>4 DEF OvertakenInv, Same
  <2>7. Fresh' = Fresh
      BY <2>3 DEF Fresh
  <2>8. ~acked'.doubt => (Fresh => host.req.kind \notin {"ADDR", "CONF"})
                         /\ (~Fresh => NothingPending(dev)')
      BY <1>1, <2>4 DEF OvertakenInv, NothingPending
  <2> QED
      BY <2>2, <2>3, <2>5, <2>6, <2>7, <2>8 DEF OvertakenInv
<1>5. CASE HostStalled
  <2>1. /\ host' = [host EXCEPT !.stage = "failed"]
        /\ UNCHANGED <<hw, acked>>
      BY <1>5 DEF HostStalled
  <2>2. host' \in HostRec /\ host'.req = host.req /\ host'.stage = "failed"
      BY <2>1 DEF Types, HostRec, Stages
  <2> QED
      BY <1>1, <2>1, <2>2 DEF Types, OvertakenInv, Fresh, Same, NothingPending
<1> QED
    BY <1>2, <1>3, <1>4, <1>5 DEF HostStep

\* A bus reset ends all doubt; the transfer that was under way is over.
LEMMA OvertakenReset ==
    ASSUME Types, OvertakenInv, BusReset
    PROVE  Types' /\ OvertakenInv'
<1>1. Default \in DevRec /\ Default.address = 0 /\ Default.configuration = 0
    BY ControlAssumption DEF Default, DevRec, None
<1>2. NothingPending(Default)
    BY DEF NothingPending, Default
<1>3. Zlp \in PacketType /\ NoReq \in RequestType
    BY DEF Zlp, PacketType, NoReq, Req, RequestType, AskType
<1>4. Quiet \in HwRec /\ ~Quiet.ctrRx
    BY <1>3 DEF Quiet, HwRec
<1>5. host' \in HostRec /\ host'.stage = "idle"
    BY DEF BusReset, Types, HostRec, Stages
<1>6. /\ dev' = Default /\ hw' = Quiet
      /\ acked' = [address |-> 0, configuration |-> 0, doubt |-> FALSE]
    BY DEF BusReset
<1>7. acked' \in AckedRec
    BY <1>6, ControlAssumption DEF AckedRec
<1>8. Types' /\ ~Fresh'
    BY <1>1, <1>4, <1>5, <1>6, <1>7 DEF Types, Fresh
<1>9. Same' /\ NothingPending(dev)'
    BY <1>1, <1>2, <1>6 DEF Same, NothingPending
<1> QED
    BY <1>5, <1>8, <1>9 DEF OvertakenInv

-----------------------------------------------------------------------------
(* The theorems *)

LEMMA ControlInvariant == Spec => []ControlInv
<1>1. Init => ControlInv
  <2>1. Init => ~host.overtook
      BY DEF Init
  <2> QED
      BY <2>1, InitHolds DEF ControlInv
<1>2. ControlInv /\ [Next]_vars => ControlInv'
  <2> SUFFICES ASSUME ControlInv, [Next]_vars PROVE ControlInv'
      OBVIOUS
  <2>1. CASE \E r \in Requests : HostSetup(r)
      BY <2>1, HostSetupKeeps
  <2>2. CASE Interrupt \/ BusReset \/ HostStep \/ UNCHANGED vars
    <3>1. host'.overtook = host.overtook
        BY <2>2, ControlTypes DEF Interrupt, BusReset, HostStep, HostData, HostStatusOut,
                                  HostStatusIn, HostStalled, vars, Types, HostRec
    <3>2. CASE host.overtook
      <4>1. Types /\ OvertakenInv
          BY <3>2 DEF ControlInv
      <4>2. Types' /\ OvertakenInv'
        <5>1. CASE UNCHANGED vars
            BY <4>1, <5>1 DEF vars, Types, OvertakenInv, Fresh, Same, NothingPending
        <5> QED
            BY <2>2, <4>1, <5>1, OvertakenServed, OvertakenReset, OvertakenHost
      <4> QED
          BY <3>1, <3>2, <4>2 DEF ControlInv
    <3>3. CASE ~host.overtook
      <4>1. OrderInv
          BY <3>3 DEF ControlInv
      <4>2. OrderInv'
          BY <2>2, <4>1, InterruptServed, BusResetKeeps, HostDataKeeps, HostStatusOutKeeps,
             HostStatusInKeeps, HostStalledKeeps, StutterKeeps DEF HostStep
      <4> QED
          BY <3>1, <3>3, <4>2 DEF ControlInv
    <3> QED
        BY <3>2, <3>3
  <2> QED
      BY <2>1, <2>2 DEF Next
<1> QED
    BY <1>1, <1>2, PTL DEF Spec

\* DataStageHolds: usb_ep0_start_in() and usb_ep0_handle_tx() send the host the
\* descriptor from its first byte on, each byte once, and end the data stage exactly
\* when all it asked for has arrived, with a zero-length packet where one is due, in
\* every transfer whose SETUP found no older completion unserved, also in those after
\* one that did, and with the host ahead of the interrupt.
THEOREM ControlDataStageHolds == Spec => []DataStageHolds
<1>1. ControlInv => DataStageHolds
  <2> SUFFICES ASSUME ControlInv PROVE DataStageHolds
      OBVIOUS
  <2>1. TypeOK
      BY ControlTypes DEF Types, DevRec, HwRec, TypeOK
  <2>2. ASSUME ~host.overtook
        PROVE  /\ ~host.bad
               /\ host.stage \in {"statusOut", "done"} /\ host.req.kind = "GET"
                    /\ host.req.len > 0 => host.got = Total(host.req)
      BY <2>2 DEF ControlInv, OrderInv, GotAll, IsIn
  <2> QED
      BY <2>1, <2>2 DEF DataStageHolds, DataCorrect, Total
<1> QED
    BY ControlInvariant, <1>1, PTL

\* AcknowledgedApplied: once usb_ep0_handle_ctr() has served what is pending, address
\* and configuration are those whose status stage the host has seen, in whatever order
\* transfers are begun, given up and repeated and whenever the bus is reset, as long as
\* no SETUP packet overtakes the completion of a status stage, and none that sets one of
\* them overtakes any completion.
THEOREM ControlAcknowledgedApplied == Spec => []AcknowledgedApplied
<1>1. ControlInv => AcknowledgedApplied
  <2> SUFFICES ASSUME ControlInv, ~hw.ctrTx PROVE Same
      BY DEF AcknowledgedApplied, Same
  <2> QED
      BY DEF ControlInv, OrderInv, OvertakenInv, Applied
<1> QED
    BY ControlInvariant, <1>1, PTL
=============================================================================
