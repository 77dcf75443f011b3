---------------------------- MODULE UsbManagement ----------------------------
(***************************************************************************)
(* The management endpoint: the rings of src/src/drivers/usb_device.c,     *)
(* filled and drained by the USB interrupt and by the console task, and    *)
(* usb_management_runtime_service(), which reads requests from one ring    *)
(* and writes answers to the other.                                        *)
(*                                                                         *)
(* The interrupt handler is one step: it cannot be preempted by the task.  *)
(* The task can be interrupted between any two of its accesses to the      *)
(* rings, none of which is masked, so each of its calls is several steps.  *)
(* A reset that clears the rings in the middle of one leaves the task with *)
(* an index or a length from before: the ring is torn, until it is cleared *)
(* at another moment.                                                      *)
(* Request n is ReqLen bytes <<kind, n, i>>, answer n is AnsLen bytes      *)
(* <<n, i>>; a frame whose bytes do not belong together has a wrong CRC.   *)
(* Free-running indices wrap at Wrap.                                      *)
(***************************************************************************)
EXTENDS Integers, Sequences, SequencesExt

CONSTANTS
    Kind,              \* requests the host sends: RPC, ASSET, ENTER
    RxCap, TxCap,      \* ring capacities
    Wrap,              \* 2^32, the range of the ring indices
    MaxPacket,         \* USB_MANAGEMENT_MAX_PACKET
    ReqLen, AnsLen,    \* bytes of a request and of an answer
    Fallback,          \* FIRMWARE_UPDATE_RESET_FALLBACK_MS, in ticks
    MaxRequests,       \* bound: requests sent
    MaxResets          \* bound: bus resets and SET_CONFIGURATIONs

ASSUME UsbAssumption ==
    /\ Kind \subseteq {"RPC", "ASSET", "ENTER"}
    /\ {RxCap, TxCap, MaxPacket, ReqLen, AnsLen, Fallback} \subseteq Nat \ {0}
    /\ Wrap \in Nat /\ Wrap % RxCap = 0 /\ Wrap % TxCap = 0
    /\ Wrap > RxCap /\ Wrap > TxCap
    /\ AnsLen <= MaxPacket
    /\ MaxRequests \in Nat /\ MaxResets \in Nat

VARIABLES
    conf,       \* configuration is ONE and management_configured
    rx,         \* usb_management_rx_ring with head and tail
    tx,         \* usb_management_tx_ring with head, tail, inflight, active
    ep,         \* endpoint 4 IN: status, packet memory, completion not yet handled
    busResets,  \* bus_reset_count
    txPackets,  \* management_tx_packet_count
    pc, loc,    \* the task: place in the service and its locals
    parser,     \* bytes of an unfinished frame in usb_management_parser
    seen,       \* usb_management_last_bus_reset_count
    session,    \* epoch in which the asset transfer session was opened, 0 if none
    enter,      \* firmware_update_reset_*: pending, baseline, time left
    out,        \* host: bytes of requests still to be sent
    got,        \* host: bytes read since the endpoint was enabled, from a ring not torn
    queued,     \* history: bytes of the answers accepted since the rings were cleared
    rxLog,      \* history: bytes stored in the RX ring since then
    rxRead,     \* history: bytes the task has read since then
    torn,       \* history: the last reset found the task between reading an index or a
                \* length of this ring and writing what follows from it; the histories of
                \* a torn ring are not kept
    requests, answers, epoch, resets   \* numbers of requests sent, answers built,
                                       \* deconfigurations, and resets of any kind

driverVars == <<conf, rx, tx, ep, busResets, txPackets>>
taskVars == <<pc, loc, parser, seen, session, enter>>
hostVars == <<out, got, requests>>
history == <<queued, rxLog, rxRead, torn, answers, epoch, resets>>
vars == <<driverVars, taskVars, hostVars, history>>

NoByte == <<"none", 0, 0>>
NoLocals == [tail |-> 0, byte |-> NoByte, req |-> "RPC", head |-> 0, base |-> 0,
             n |-> 0, left |-> 0]


Depth(r) == (r.head - r.tail) % Wrap
\* The n bytes of ring r from index i on.
Span(r, cap, i, n) == [k \in 1..n |-> r.ring[(i + k - 1) % cap]]

Frame(kind, n) == [i \in 1..ReqLen |-> <<kind, n, i>>]
Answer(n) == [i \in 1..AnsLen |-> <<n, i>>]

Init ==
    /\ conf = FALSE
    /\ rx = [ring |-> [i \in 0..RxCap-1 |-> NoByte], head |-> 0, tail |-> 0]
    /\ tx = [ring |-> [i \in 0..TxCap-1 |-> NoByte], head |-> 0, tail |-> 0,
             inflight |-> 0, active |-> FALSE]
    /\ ep = [stat |-> "DISABLED", pma |-> <<>>, ctr |-> FALSE]
    /\ busResets = 0 /\ txPackets = 0
    /\ pc = "idle" /\ loc = NoLocals
    /\ parser = <<>> /\ seen = 0 /\ session = 0
    /\ enter = [pending |-> FALSE, base |-> 0, left |-> 0, ans |-> 0]
    /\ out = <<>> /\ got = <<>> /\ requests = 0
    /\ queued = <<>> /\ rxLog = <<>> /\ rxRead = <<>>
    /\ torn = [rx |-> FALSE, tx |-> FALSE]
    /\ answers = 0 /\ epoch = 1 /\ resets = 0

Up == pc # "reset"

-----------------------------------------------------------------------------
(* Interrupt handler and host *)

\* usb_management_reset_rings(); the contents of the rings stay.
ResetRings ==
    /\ rx' = [rx EXCEPT !.head = 0, !.tail = 0]
    /\ tx' = [tx EXCEPT !.head = 0, !.tail = 0, !.inflight = 0, !.active = FALSE]
    /\ queued' = <<>> /\ rxLog' = <<>> /\ rxRead' = <<>>
    /\ torn' = [rx |-> pc = "feed", tx |-> pc \in {"fill", "publish", "commit"}]
    /\ got' = <<>> /\ out' = <<>>

MayReset ==
    /\ Up
    /\ resets < MaxResets
    /\ resets' = resets + 1

\* usb_bus_reset(), usb_management_endpoints_disable()
BusReset ==
    /\ MayReset
    /\ ResetRings
    /\ conf' = FALSE
    /\ ep' = [stat |-> "DISABLED", pma |-> <<>>, ctr |-> FALSE]
    /\ busResets' = busResets + 1
    /\ epoch' = epoch + 1
    /\ UNCHANGED <<txPackets, taskVars, requests, answers>>

\* SET_CONFIGURATION(0), or SET_ADDRESS(0)
Deconfigure ==
    /\ MayReset
    /\ conf
    /\ ResetRings
    /\ conf' = FALSE
    /\ ep' = [stat |-> "DISABLED", pma |-> <<>>, ctr |-> FALSE]
    /\ epoch' = epoch + 1
    /\ UNCHANGED <<busResets, txPackets, taskVars, requests, answers>>

\* SET_CONFIGURATION(1): usb_management_endpoints_enable()
Configure ==
    /\ MayReset
    /\ ResetRings
    /\ conf' = TRUE
    /\ ep' = [stat |-> "NAK", pma |-> <<>>, ctr |-> FALSE]
    /\ UNCHANGED <<busResets, txPackets, taskVars, requests, answers, epoch>>

\* The host has a request to send, whatever is still unanswered.
HostRequest(kind) ==
    /\ Up /\ conf
    /\ requests < MaxRequests
    /\ requests' = requests + 1
    /\ out' = out \o Frame(kind, requests)
    /\ UNCHANGED <<driverVars, taskVars, got, history>>

\* usb_management_handle_out(): a packet of n bytes; what does not fit is dropped.
HandleOut(n) ==
    /\ Up /\ conf
    /\ n <= Len(out)
    /\ LET room == RxCap - Depth(rx)
           k == IF n <= room THEN n ELSE IF room < 0 THEN 0 ELSE room
       IN  /\ rx' = [rx EXCEPT
                       !.ring = [i \in 0..RxCap-1 |->
                           LET j == (i - rx.head) % RxCap
                           IN  IF j < k THEN out[j + 1] ELSE @[i]],
                       !.head = (@ + k) % Wrap]
           /\ rxLog' = IF torn.rx THEN <<>> ELSE rxLog \o SubSeq(out, 1, k)
    /\ out' = SubSeq(out, n + 1, Len(out))
    /\ UNCHANGED <<conf, tx, ep, busResets, txPackets, taskVars, got, requests, queued,
                   rxRead, torn, answers, epoch, resets>>

\* The host reads the packet offered on endpoint 4.
HostIn ==
    /\ Up
    /\ ep.stat = "VALID"
    /\ got' = IF torn.tx THEN <<>> ELSE got \o ep.pma
    /\ ep' = [ep EXCEPT !.stat = "NAK", !.ctr = TRUE]
    /\ UNCHANGED <<conf, rx, tx, busResets, txPackets, taskVars, out, requests, history>>

\* usb_management_tx_kick() has something to send
CanKick(t) == conf /\ ~t.active /\ Depth(t) # 0
KickLength(t) == IF Depth(t) > MaxPacket THEN MaxPacket ELSE Depth(t)
KickEp(t) == [stat |-> "VALID", pma |-> Span(t, TxCap, t.tail, KickLength(t)), ctr |-> FALSE]
KickTx(t) == [t EXCEPT !.inflight = KickLength(t), !.active = TRUE]

\* Faulty variant: the next packet is not started.
HandleInNoKick ==
    /\ Up /\ ep.ctr
    /\ txPackets' = IF tx.active THEN txPackets + 1 ELSE txPackets
    /\ tx' = IF tx.active
             THEN [tx EXCEPT !.tail = (@ + tx.inflight) % Wrap, !.inflight = 0,
                             !.active = FALSE]
             ELSE tx
    /\ ep' = [ep EXCEPT !.stat = "NAK", !.ctr = FALSE]
    /\ UNCHANGED <<conf, rx, busResets, taskVars, hostVars, history>>

\* usb_management_handle_in()
HandleIn ==
    /\ Up /\ ep.ctr
    /\ LET t == IF tx.active
                THEN [tx EXCEPT !.tail = (@ + tx.inflight) % Wrap, !.inflight = 0,
                                !.active = FALSE]
                ELSE tx
       IN  IF CanKick(t)
           THEN tx' = KickTx(t) /\ ep' = KickEp(t)
           ELSE tx' = t /\ ep' = [ep EXCEPT !.stat = "NAK", !.ctr = FALSE]
    /\ txPackets' = IF tx.active THEN txPackets + 1 ELSE txPackets
    /\ UNCHANGED <<conf, rx, busResets, taskVars, hostVars, history>>

-----------------------------------------------------------------------------
(* usb_management_runtime_service(), in the console task *)

TaskOnly == UNCHANGED <<driverVars, hostVars, history>>

\* The service reads bus_reset_count, long before it uses it.
ServiceStart ==
    /\ pc = "idle"
    /\ pc' = "poll"
    /\ loc' = [NoLocals EXCEPT !.base = busResets]
    /\ UNCHANGED <<parser, seen, session, enter>>
    /\ TaskOnly

\* Faulty variant: the deadline is not looked at.
ResetDueOnPacket == enter.pending /\ txPackets # enter.base

\* firmware_update_reset_service() resets the system
ResetDue == enter.pending /\ (txPackets # enter.base \/ enter.left = 0)

SystemReset ==
    /\ pc' = "reset"
    /\ UNCHANGED <<loc, parser, seen, session, enter>>
    /\ TaskOnly

\* The reset service, then usb_management_protocol_reset() after a bus reset or
\* when the interface is not configured.
ServicePoll ==
    /\ pc = "poll"
    /\ IF ResetDue
       THEN SystemReset
       ELSE /\ IF loc.base # seen \/ ~conf
               THEN parser' = <<>> /\ session' = 0
               ELSE UNCHANGED <<parser, session>>
            /\ seen' = loc.base
            /\ pc' = IF conf THEN "getc" ELSE "idle"
            /\ UNCHANGED <<loc, enter>>
            /\ TaskOnly

\* usb_management_try_getc() up to its read of the byte; with no byte the service ends.
GetcRead ==
    /\ pc = "getc"
    /\ IF rx.tail = rx.head
       THEN pc' = "idle" /\ UNCHANGED loc
       ELSE /\ pc' = "feed"
            /\ loc' = [loc EXCEPT !.tail = rx.tail, !.byte = rx.ring[rx.tail % RxCap]]
    /\ UNCHANGED <<parser, seen, session, enter>>
    /\ TaskOnly

\* The rest of try_getc, and binary_frame_parser_feed(), see BinaryFrame.
GetcFeed ==
    /\ pc = "feed"
    /\ rx' = [rx EXCEPT !.tail = (loc.tail + 1) % Wrap]
    /\ rxRead' = IF torn.rx THEN <<>> ELSE Append(rxRead, loc.byte)
    /\ LET p == IF parser = <<>> /\ loc.byte[3] # 1 THEN <<>> ELSE Append(parser, loc.byte)
       IN  IF Len(p) = ReqLen
           THEN /\ parser' = <<>>
                /\ IF p = Frame(p[1][1], p[1][2])
                   THEN pc' = "handle" /\ loc' = [loc EXCEPT !.req = p[1][1]]
                   ELSE pc' = "getc" /\ UNCHANGED loc
           ELSE parser' = p /\ pc' = "getc" /\ UNCHANGED loc
    /\ UNCHANGED <<conf, tx, ep, busResets, txPackets, seen, session, enter, hostVars,
                   queued, rxLog, torn, answers, epoch, resets>>

\* Faulty variant: the head moves on before the bytes are in the ring.
HandlePublishesFirst ==
    /\ pc = "handle"
    /\ UNCHANGED session
    /\ LET fits == conf /\ Depth(tx) <= TxCap /\ AnsLen <= TxCap - Depth(tx)
       IN  /\ loc' = [loc EXCEPT !.base = txPackets, !.head = tx.head]
           /\ pc' = IF fits THEN "fill" ELSE IF loc.req = "ENTER" THEN "enter" ELSE "getc"
           /\ answers' = IF fits THEN answers + 1 ELSE answers
           /\ tx' = IF fits THEN [tx EXCEPT !.head = (@ + AnsLen) % Wrap] ELSE tx
    /\ UNCHANGED <<conf, rx, ep, busResets, txPackets, parser, seen, enter, hostVars, queued,
                   rxLog, rxRead, torn, epoch, resets>>

\* The handler of the request up to its answer; usb_management_write_span_atomic()
\* reads head and depth.  An answer that does not fit is dropped.
Handle ==
    /\ pc = "handle"
    /\ session' = IF loc.req = "ASSET" /\ session = 0 THEN epoch ELSE session
    /\ LET fits == conf /\ Depth(tx) <= TxCap /\ AnsLen <= TxCap - Depth(tx)
       IN  /\ loc' = [loc EXCEPT !.base = txPackets, !.head = tx.head]
           /\ pc' = IF fits THEN "fill" ELSE IF loc.req = "ENTER" THEN "enter" ELSE "getc"
           /\ answers' = IF fits THEN answers + 1 ELSE answers
    /\ UNCHANGED <<driverVars, parser, seen, enter, hostVars, queued, rxLog, rxRead, torn, epoch, resets>>

\* The answer is copied to the ring, behind head.
Fill ==
    /\ pc = "fill"
    /\ tx' = [tx EXCEPT !.ring =
                [i \in 0..TxCap-1 |->
                    LET j == (i - loc.head) % TxCap
                    IN  IF j < AnsLen THEN Answer(answers)[j + 1] ELSE @[i]]]
    /\ pc' = "publish"
    /\ UNCHANGED <<conf, rx, ep, busResets, txPackets, loc, parser, seen, session, enter,
                   hostVars, history>>

\* The single update of head that makes the answer visible to the interrupt.
Publish ==
    /\ pc = "publish"
    /\ tx' = [tx EXCEPT !.head = (loc.head + AnsLen) % Wrap]
    /\ queued' = IF torn.tx THEN <<>> ELSE queued \o Answer(answers)
    /\ pc' = "kick"
    /\ UNCHANGED <<conf, rx, ep, busResets, txPackets, loc, parser, seen, session, enter,
                   hostVars, rxLog, rxRead, torn, answers, epoch, resets>>

\* usb_management_tx_kick() in the task: the packet is copied to the packet memory.
Kick ==
    /\ pc = "kick"
    /\ IF CanKick(tx)
       THEN /\ ep' = [ep EXCEPT !.pma = KickEp(tx).pma]
            /\ loc' = [loc EXCEPT !.n = KickLength(tx)]
            /\ pc' = "commit"
       ELSE UNCHANGED <<ep, loc>> /\ pc' = "answered"
    /\ UNCHANGED <<conf, rx, tx, busResets, txPackets, parser, seen, session, enter, hostVars,
                   history>>

\* Its end: the packet is marked in flight and the endpoint made valid.
KickCommit ==
    /\ pc = "commit"
    /\ tx' = [tx EXCEPT !.inflight = loc.n, !.active = TRUE]
    /\ ep' = [ep EXCEPT !.stat = "VALID"]
    /\ pc' = "answered"
    /\ UNCHANGED <<conf, rx, busResets, txPackets, loc, parser, seen, session, enter,
                   hostVars, history>>

\* firmware_update_handle_runtime_frame() goes on: token, deadline, pending, unless a
\* reset was pending and the answer a refusal.
Answered ==
    /\ pc = "answered"
    /\ IF loc.req = "ENTER"
       THEN /\ enter' = IF enter.pending THEN enter
                        ELSE [pending |-> TRUE, base |-> loc.base, left |-> Fallback, ans |-> answers]
            /\ pc' = "enter"
       ELSE UNCHANGED enter /\ pc' = "getc"
    /\ UNCHANGED <<loc, parser, seen, session>>
    /\ TaskOnly

\* firmware_update_reset_service() after the request
EnterService ==
    /\ pc = "enter"
    /\ IF ResetDue
       THEN SystemReset
       ELSE pc' = "getc" /\ UNCHANGED <<loc, parser, seen, session, enter>> /\ TaskOnly

\* Time passes towards firmware_update_reset_deadline.
Tick ==
    /\ Up
    /\ enter.pending /\ enter.left > 0
    /\ enter' = [enter EXCEPT !.left = @ - 1]
    /\ UNCHANGED <<driverVars, pc, loc, parser, seen, session, hostVars, history>>

\* After the reset the boot loader has the device.
HandOver == ~Up /\ UNCHANGED vars

Interrupt == BusReset \/ Deconfigure \/ Configure \/ HandleIn
Service ==
    \/ ServiceStart \/ ServicePoll \/ GetcRead \/ GetcFeed \/ Handle \/ Fill \/ Publish
    \/ Kick \/ KickCommit \/ Answered \/ EnterService

Next ==
    \/ Interrupt
    \/ \E kind \in Kind : HostRequest(kind)
    \/ \E n \in 1..MaxPacket : HandleOut(n)
    \/ HostIn
    \/ Service
    \/ Tick
    \/ HandOver

\* The console task calls the service again and again (at least every 250 ms), the
\* interrupt is served, SysTick counts, and the host reads what is offered.
Fairness ==
    /\ WF_vars(Service) /\ WF_vars(HandleIn) /\ WF_vars(HostIn) /\ WF_vars(Tick)
    /\ \A n \in 1..MaxPacket : WF_vars(HandleOut(n) /\ n = Len(out))

Spec == Init /\ [][Next]_vars
LiveSpec == Spec /\ Fairness

-----------------------------------------------------------------------------
(* Properties *)

TypeOK ==
    /\ conf \in BOOLEAN
    /\ rx.head \in 0..Wrap-1 /\ rx.tail \in 0..Wrap-1
    /\ tx.head \in 0..Wrap-1 /\ tx.tail \in 0..Wrap-1
    /\ tx.inflight \in 0..MaxPacket /\ tx.active \in BOOLEAN
    /\ ep.stat \in {"DISABLED", "NAK", "VALID"}
    /\ enter.left \in 0..Fallback

\* As long as no reset tore the TX ring, the host reads the answers whole, in the order in
\* which they were accepted, without a byte lost, repeated or torn, however the interrupt
\* splits them into packets: the ring between usb_management_write_span_atomic() and the
\* interrupt.
AnswersIntact == ~torn.tx => IsPrefix(got, queued)

\* As long as no reset tore the RX ring, the task reads the bytes the interrupt stored,
\* each once and in order, also when the ring is full and the indices wrap:
\* usb_management_try_getc() and handle_out.
RequestsIntact == ~torn.rx => IsPrefix(rxRead, rxLog)

\* The bytes waiting in a TX ring that is not torn are within its capacity, and a packet
\* in flight is still in the ring, so that its completion never moves tail past head.
TxRingConsistent ==
    ~torn.tx =>
        /\ Depth(tx) <= TxCap
        /\ tx.active => tx.inflight \in 1..Depth(tx)

\* Every answer accepted into the ring is read by the host in the end unless the
\* endpoint is reset: no completion and no new answer leaves bytes behind unsent.
AnswersDrain == [](queued # <<>> => <>(got = queued \/ queued = <<>> \/ torn.tx \/ ~Up))

\* An accepted ENTER_BOOTLOADER resets the device in the end, with the answer read or
\* not, the bus reset or the interface deconfigured.
EnterResets == enter.pending ~> ~Up

\* The reset of ENTER_BOOTLOADER comes after its answer was sent, or after the fallback
\* time.
AnswerBeforeReset == pc = "reset" /\ enter.left > 0 => <<enter.ans, AnsLen>> \in Range(got)

\* A session of the asset transfer that handles a request was opened since the
\* interface was last deconfigured or the bus reset.
SessionOfThisConfiguration == pc = "handle" /\ session # 0 => session = epoch

\* The rings between interrupt and task, together: indices in range, and in a ring that
\* no reset tore no byte lost, repeated or torn, and no completion past what was queued.
RingsIntact == TypeOK /\ TxRingConsistent /\ AnswersIntact /\ RequestsIntact
==============================================================================
