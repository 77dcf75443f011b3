------------------------------ MODULE UsbControl ------------------------------
(***************************************************************************)
(* Endpoint 0 of src/src/drivers/usb_device.c: control transfers, from the *)
(* SETUP packet to the status stage, and the address and configuration     *)
(* they set.  The interrupt handler is one step; between a transaction on  *)
(* the bus and its interrupt the host may go on: erasing a flash page      *)
(* stalls the CPU for longer than a transfer takes.  A SETUP packet that   *)
(* overtakes a completion the interrupt has not served finds it there: the *)
(* handler answers the SETUP, then applies the old completion to the new   *)
(* transfer.  The history says when that happened, and the properties say  *)
(* what the code keeps when it did not.                                    *)
(* Descriptors are numbers of bytes: a packet is the offset and length of  *)
(* what it carries.  The requests of one outcome are one kind: "GET" is    *)
(* any descriptor or status, "GETIF" what is answered when configured.     *)
(***************************************************************************)
EXTENDS Integers, Sequences

CONSTANTS
    MaxPacket,       \* USB_EP0_MAX_PACKET
    Descriptor,      \* lengths of the descriptors
    Requested,       \* values of wLength
    Address,         \* device addresses, 0 among them
    MaxTransfers     \* bound: SETUP packets

ASSUME ControlAssumption ==
    /\ MaxPacket \in Nat \ {0} /\ MaxTransfers \in Nat
    /\ Descriptor \subseteq Nat /\ Requested \subseteq Nat
    /\ Address \subseteq Nat /\ 0 \in Address

VARIABLES
    dev,     \* usb_ep0_state, transfer and pending actions, address, configuration
    hw,      \* endpoint register: STAT_TX, STAT_RX, CTR_TX, CTR_RX, and packet memory
    host,    \* host: stage, request, bytes received so far; overtook: its SETUP found
             \* an older completion unserved
    acked,   \* history: address and configuration the host has seen acknowledged; doubt:
             \* since the bus reset, a SETUP overtook the completion of a status stage, or
             \* one that sets either of them overtook any completion
    count

vars == <<dev, hw, host, acked, count>>

None == -1
Zlp == [off |-> 0, len |-> 0]
Req(kind, data, len, val) == [kind |-> kind, data |-> data, len |-> len, val |-> val]
NoReq == Req("none", 0, 0, 0)

Requests ==
    {Req("GET", d, n, 0) : d \in Descriptor, n \in Requested}
        \cup {Req("GETIF", 1, 1, 0), Req("SETIF", 0, 0, 0), Req("BAD", 0, 0, 0)}
        \cup {Req("ADDR", 0, 0, a) : a \in Address}
        \cup {Req("CONF", 0, 0, c) : c \in {0, 1}}

IsIn(r) == r.kind \in {"GET", "GETIF"}

Default ==
    [state |-> "IDLE", off |-> 0, left |-> 0, zlp |-> FALSE, pendingAddress |-> None,
     pendingConfiguration |-> None, address |-> 0, configuration |-> 0]

Quiet == [tx |-> "NAK", rx |-> "VALID", ctrTx |-> FALSE, ctrRx |-> FALSE, setup |-> FALSE,
          packet |-> Zlp, req |-> NoReq]

Init ==
    /\ dev = Default
    /\ hw = Quiet
    /\ host = [stage |-> "idle", req |-> NoReq, got |-> 0, bad |-> FALSE,
               overtook |-> FALSE]
    /\ acked = [address |-> 0, configuration |-> 0, doubt |-> FALSE]
    /\ count = 0

-----------------------------------------------------------------------------
(* The handlers, on a record of the driver's state d and the endpoint e *)

S(d, e) == [d |-> d, e |-> e]

\* Faulty variant: the pending address and configuration survive.
ResetTransferStateKeepsPending(d) ==
    [d EXCEPT !.state = "IDLE", !.off = 0, !.left = 0, !.zlp = FALSE]

\* usb_ep0_reset_transfer_state()
ResetTransferState(d) ==
    [d EXCEPT !.state = "IDLE", !.off = 0, !.left = 0, !.zlp = FALSE,
              !.pendingAddress = None, !.pendingConfiguration = None]

\* usb_ep0_stall()
Stall(s) == S(ResetTransferState(s.d), [s.e EXCEPT !.tx = "STALL", !.rx = "STALL"])

\* usb_ep0_send_packet()
SendPacket(s, p) == S(s.d, [s.e EXCEPT !.packet = p, !.tx = "VALID"])

\* Faulty variant: the data pointer does not move.
SendNextInPacketAgain(s) ==
    LET n == IF s.d.left > MaxPacket THEN MaxPacket ELSE s.d.left
    IN  SendPacket(S([s.d EXCEPT !.left = @ - n], s.e), [off |-> 0, len |-> n])

\* usb_ep0_send_next_in_packet()
SendNextInPacket(s) ==
    LET n == IF s.d.left > MaxPacket THEN MaxPacket ELSE s.d.left
    IN  SendPacket(S([s.d EXCEPT !.left = @ - n, !.off = @ + n], s.e),
                   [off |-> s.d.off, len |-> n])

\* Faulty variant: no zero-length packet ends a transfer of full packets.
StartInNoZlp(s, data, requested) ==
    LET n == IF data > requested THEN requested ELSE data
        d == [s.d EXCEPT !.off = 0, !.left = n, !.zlp = FALSE, !.state = "DATA_IN"]
    IN  IF n = 0 THEN SendPacket(S(d, s.e), Zlp) ELSE SendNextInPacket(S(d, s.e))

\* usb_ep0_start_in()
StartIn(s, data, requested) ==
    LET n == IF data > requested THEN requested ELSE data
        d == [s.d EXCEPT !.off = 0, !.left = n,
                         !.zlp = n # 0 /\ n < requested /\ n % MaxPacket = 0,
                         !.state = "DATA_IN"]
    IN  IF n = 0 THEN SendPacket(S(d, s.e), Zlp) ELSE SendNextInPacket(S(d, s.e))

\* usb_ep0_start_status_in()
StartStatusIn(s) == SendPacket(S([s.d EXCEPT !.state = "STATUS_IN"], s.e), Zlp)

\* usb_ep0_standard_in(), usb_ep0_vendor_in(), usb_get_descriptor()
StandardIn(s, r) ==
    IF r.kind = "GET" \/ s.d.configuration = 1
    THEN StartIn(s, r.data, r.len)
    ELSE Stall(s)

\* usb_ep0_standard_out(): actions wait for the status stage.
StandardOut(s, r) ==
    CASE r.kind = "ADDR" -> StartStatusIn(S([s.d EXCEPT !.pendingAddress = r.val], s.e))
      [] r.kind = "CONF" -> StartStatusIn(S([s.d EXCEPT !.pendingConfiguration = r.val], s.e))
      [] r.kind = "SETIF" /\ s.d.configuration = 1 -> StartStatusIn(s)
      [] OTHER -> Stall(s)

\* usb_ep0_handle_setup()
HandleSetup(s, r) ==
    LET t == S(ResetTransferState(s.d), [s.e EXCEPT !.tx = "NAK", !.rx = "VALID"])
    IN  IF IsIn(r) THEN StandardIn(t, r) ELSE StandardOut(t, r)

\* usb_ep0_handle_rx()
HandleRx(s) ==
    LET t == S(s.d, [s.e EXCEPT !.ctrRx = FALSE])
    IN  IF s.e.setup THEN HandleSetup(t, s.e.req)
        ELSE IF s.d.state = "STATUS_OUT"
        THEN S([s.d EXCEPT !.state = "IDLE"], [t.e EXCEPT !.tx = "NAK", !.rx = "VALID"])
        ELSE Stall(t)

\* usb_ep0_apply_pending_status_action(); a device without address is not configured.
ApplyPendingStatusAction(d) ==
    LET a == IF d.pendingAddress = None THEN d
             ELSE [d EXCEPT !.address = d.pendingAddress, !.pendingAddress = None,
                            !.configuration = IF d.pendingAddress = 0 THEN 0 ELSE @]
    IN  IF a.pendingConfiguration = None THEN a
        ELSE [a EXCEPT !.configuration = a.pendingConfiguration,
                       !.pendingConfiguration = None]

\* usb_ep0_handle_tx()
HandleTx(s) ==
    LET t == S(s.d, [s.e EXCEPT !.ctrTx = FALSE])
        rest == [t.e EXCEPT !.tx = "NAK", !.rx = "VALID"]
    IN  CASE s.d.state = "DATA_IN" /\ s.d.left # 0 -> SendNextInPacket(t)
          [] s.d.state = "DATA_IN" /\ s.d.left = 0 /\ s.d.zlp ->
                SendPacket(S([s.d EXCEPT !.zlp = FALSE], t.e), Zlp)
          [] s.d.state = "DATA_IN" /\ s.d.left = 0 /\ ~s.d.zlp ->
                S([s.d EXCEPT !.state = "STATUS_OUT"], rest)
          [] s.d.state = "STATUS_IN" ->
                S([ApplyPendingStatusAction(s.d) EXCEPT !.state = "IDLE"], rest)
          [] OTHER -> S(s.d, [t.e EXCEPT !.tx = "NAK"])

\* usb_ep0_handle_ctr(): reception first.
Interrupt ==
    /\ hw.ctrRx \/ hw.ctrTx
    /\ LET s == IF hw.ctrRx THEN HandleRx(S(dev, hw)) ELSE S(dev, hw)
           t == IF s.e.ctrTx THEN HandleTx(s) ELSE s
       IN  dev' = t.d /\ hw' = t.e
    /\ UNCHANGED <<host, acked, count>>

\* usb_bus_reset()
BusReset ==
    /\ dev.address # 0
    /\ dev' = Default
    /\ hw' = Quiet
    /\ host' = [host EXCEPT !.stage = "idle"]
    /\ acked' = [address |-> 0, configuration |-> 0, doubt |-> FALSE]
    /\ UNCHANGED count

-----------------------------------------------------------------------------
(* The host and the endpoint hardware, as RM0008 describes it *)

\* A SETUP packet is taken whatever the endpoint's state; it ends any other transfer.
HostSetup(r) ==
    /\ ~hw.ctrRx
    /\ count < MaxTransfers
    /\ count' = count + 1
    /\ hw' = [hw EXCEPT !.ctrRx = TRUE, !.setup = TRUE, !.req = r, !.tx = "NAK", !.rx = "NAK"]
    /\ host' = [stage |-> IF IsIn(r) /\ r.len > 0 THEN "data" ELSE "statusIn",
                req |-> r, got |-> 0, bad |-> FALSE, overtook |-> hw.ctrTx]
    /\ acked' = [acked EXCEPT !.doubt =
                    @ \/ (hw.ctrTx /\ (dev.state = "STATUS_IN" \/ r.kind \in {"ADDR", "CONF"}))]
    /\ UNCHANGED dev

\* The host reads a packet of the data stage.
HostData ==
    /\ host.stage = "data" /\ hw.tx = "VALID"
    /\ hw' = [hw EXCEPT !.tx = "NAK", !.ctrTx = TRUE]
    /\ LET got == host.got + hw.packet.len
           last == hw.packet.len < MaxPacket \/ got >= host.req.len
       IN  host' = [host EXCEPT !.got = got,
                                !.bad = @ \/ (hw.packet.len > 0 /\ hw.packet.off # host.got),
                                !.stage = IF last THEN "statusOut" ELSE "data"]
    /\ UNCHANGED <<dev, acked, count>>

\* The status stage of a transfer with data from the device
HostStatusOut ==
    /\ host.stage = "statusOut" /\ hw.rx = "VALID" /\ ~hw.ctrRx
    /\ hw' = [hw EXCEPT !.rx = "NAK", !.ctrRx = TRUE, !.setup = FALSE]
    /\ host' = [host EXCEPT !.stage = "done"]
    /\ UNCHANGED <<dev, acked, count>>

\* The status stage of a transfer without
HostStatusIn ==
    /\ host.stage = "statusIn" /\ hw.tx = "VALID"
    /\ hw' = [hw EXCEPT !.tx = "NAK", !.ctrTx = TRUE]
    /\ host' = [host EXCEPT !.stage = "done"]
    /\ acked' = CASE host.req.kind = "ADDR" ->
                       [acked EXCEPT !.address = host.req.val,
                                     !.configuration = IF host.req.val = 0 THEN 0 ELSE @]
                  [] host.req.kind = "CONF" -> [acked EXCEPT !.configuration = host.req.val]
                  [] OTHER -> acked
    /\ UNCHANGED <<dev, count>>

HostStalled ==
    /\ \/ host.stage \in {"data", "statusIn"} /\ hw.tx = "STALL"
       \/ host.stage = "statusOut" /\ hw.rx = "STALL"
    /\ host' = [host EXCEPT !.stage = "failed"]
    /\ UNCHANGED <<dev, hw, acked, count>>

HostStep == HostData \/ HostStatusOut \/ HostStatusIn \/ HostStalled

Next ==
    \/ Interrupt
    \/ BusReset
    \/ \E r \in Requests : HostSetup(r)
    \/ HostStep

\* The interrupt is served and the host goes on with a transfer it has begun.
Fairness == WF_vars(Interrupt) /\ WF_vars(HostStep)

Spec == Init /\ [][Next]_vars /\ Fairness

-----------------------------------------------------------------------------
(* Properties *)

TypeOK ==
    /\ dev.state \in {"IDLE", "DATA_IN", "STATUS_OUT", "STATUS_IN"}
    /\ dev.left \in Nat /\ dev.off \in Nat
    /\ dev.address \in Address /\ dev.configuration \in {0, 1}
    /\ hw.tx \in {"NAK", "VALID", "STALL"} /\ hw.rx \in {"NAK", "VALID", "STALL"}

\* In a transfer whose SETUP found no older completion unserved, what the host receives
\* is the descriptor from its first byte on, and all of what it asked for when the data
\* stage is over: usb_ep0_send_next_in_packet().
DataCorrect ==
    ~host.overtook =>
        /\ ~host.bad
        /\ host.stage \in {"statusOut", "done"} /\ host.req.kind = "GET" /\ host.req.len > 0 =>
            host.got = IF host.req.data < host.req.len THEN host.req.data ELSE host.req.len

\* Once interrupts are served, the address and the configuration are the ones the host
\* has seen acknowledged: not those of a transfer it gave up, not older ones, and not the
\* ones of a transfer whose status stage, still at the old address, is to come.  This is
\* so until a SETUP packet overtakes the completion of a status stage, whose action
\* usb_ep0_handle_setup() then drops, or one that sets address or configuration overtakes
\* any completion, which usb_ep0_handle_tx() then takes for its status stage.
AcknowledgedApplied ==
    ~hw.ctrRx /\ ~hw.ctrTx /\ ~acked.doubt =>
        dev.address = acked.address /\ dev.configuration = acked.configuration

\* Every transfer the host has begun comes to its end, by the status stage or by a
\* stall, when its SETUP found no older completion unserved: a data stage of full packets
\* does not leave the host waiting, nor does a status stage that comes early.
TransferEnds ==
    host.stage \in {"data", "statusOut", "statusIn"} /\ ~host.overtook ~>
        host.stage \in {"idle", "done", "failed"} \/ host.overtook

\* The data stage, together: the endpoint state keeps its types and the data is right.
DataStageHolds == TypeOK /\ DataCorrect
==============================================================================
