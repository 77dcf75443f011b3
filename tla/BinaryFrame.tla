---------------------------- MODULE BinaryFrame ----------------------------
(***************************************************************************)
(* The framed transport of the management interface, binary_frame.c: the   *)
(* byte-at-a-time parser and the encoder, on a stream that carries frames, *)
(* frames cut short by the sender and noise.                               *)
(*                                                                         *)
(* A byte has ByteBits bits instead of eight and the CRC twice as many;    *)
(* the polynomial division is the code's.  The header is HeaderLen bytes   *)
(* instead of eight; its last two are the payload length, low byte first,  *)
(* the others are opaque fields.                                           *)
(***************************************************************************)
EXTENDS Naturals, Sequences, SequencesExt

CONSTANTS
    BitXor(_, _),   \* the exclusive or of two words of the CRC's width
    ByteBits,       \* the width of a byte (8 in the code)
    Poly,           \* the CRC polynomial (0x1021)
    Magic0, Magic1, \* BINARY_FRAME_MAGIC0 and _MAGIC1 (0xA5, 0x5A)
    HeaderLen,      \* sizeof(parser->header) (8)
    MaxPayload,     \* BINARY_FRAME_MAX_PAYLOAD (132)
    Frames,         \* the frames the host sends: [fields, payload]
    NoiseBytes,     \* the bytes noise is made of
    MaxNoise,       \* bound: noise bytes in a behaviour
    MaxFrames       \* bound: frames started in a behaviour

Radix == 2 ^ ByteBits
Byte == 0 .. Radix - 1
Crc16 == 0 .. Radix * Radix - 1
CrcInit == Radix * Radix - 1
FieldCount == HeaderLen - 2

ASSUME FrameAssumption ==
    /\ ByteBits \in Nat /\ Radix \in Nat \ {0}
    /\ HeaderLen \in Nat \ {0, 1} /\ MaxPayload \in Crc16
    /\ \A a, b \in Crc16 : BitXor(a, b) \in Crc16
    /\ Poly \in Crc16
    /\ {Magic0, Magic1} \cup NoiseBytes \subseteq Byte
    /\ Magic0 # Magic1
    /\ \A f \in Frames : /\ f \in [fields : Seq(Byte), payload : Seq(Byte)]
                         /\ Len(f.fields) = FieldCount
                         /\ Len(f.payload) <= MaxPayload
    /\ MaxFrames \in Nat

-----------------------------------------------------------------------------
(* The CRC: a shift register of twice the byte width.                      *)

ShiftOut(crc) ==
    IF crc >= (Radix * Radix) \div 2
      THEN BitXor((crc * 2) % (Radix * Radix), Poly)
      ELSE crc * 2

Crc16Table ==
    [crc \in Crc16 |-> [byte \in Byte |->
        LET shifted[bit \in 0 .. ByteBits] ==
                IF bit = 0 THEN BitXor(crc, byte * Radix)
                           ELSE ShiftOut(shifted[bit - 1])
        IN shifted[ByteBits]]]

Crc16Update(crc, byte) == Crc16Table[crc][byte]

Crc16CcittFalse(data) ==
    LET crc[i \in 0 .. Len(data)] ==
            IF i = 0 THEN CrcInit ELSE Crc16Update(crc[i - 1], data[i])
    IN crc[Len(data)]

Low(value) == value % Radix
High(value) == value \div Radix

Encode(frame) ==
    LET covered == frame.fields
                     \o <<Low(Len(frame.payload)), High(Len(frame.payload))>>
                     \o frame.payload
        crc == Crc16CcittFalse(covered)
    IN <<Magic0, Magic1>> \o covered \o <<Low(crc), High(crc)>>

-----------------------------------------------------------------------------
VARIABLES
    frame_parser,   \* binary_frame_parser_t
    result,         \* what the last feed returned
    view,           \* the binary_frame_view_t the last feed filled in
    sending,        \* what is left of the frame the host is writing
    frame,          \* that frame
    aligned,        \* the parser stood between frames when it began
    lost,           \* quiet frames sent whole since the last delivery
    noise, started, \* bounds
    fed             \* the last bytes of the stream, as many as a frame can have

frameVars == <<frame_parser, result, view, sending, frame, aligned, lost,
               noise, started, fed>>

NoFrame == [fields |-> <<>>, payload |-> <<>>]

States == {"IDLE", "MAGIC1", "HEADER", "PAYLOAD", "CRC0", "CRC1", "RESYNC",
           "RESYNC_MAGIC1"}

Results == {"TEXT", "CONSUMED", "SYNC_ERROR_CONSUMED", "SYNC_ERROR_TEXT",
            "LENGTH_ERROR", "CRC_ERROR", "FRAME_READY"}

FrameTypeOK ==
    /\ frame_parser \in [state : States, header : Seq(Byte),
                         payload : Seq(Byte), payload_length : Nat,
                         crc : Crc16, received_crc_low : Byte]
    /\ Len(frame_parser.header) <= HeaderLen
    /\ Len(frame_parser.payload) <= MaxPayload
    /\ frame_parser.state = "PAYLOAD" =>
           Len(frame_parser.payload) < frame_parser.payload_length
    /\ result \in Results
    /\ aligned \in BOOLEAN
    /\ lost \in 0 .. MaxFrames /\ started \in 0 .. MaxFrames

Reset == [state |-> "IDLE", header |-> <<>>, payload |-> <<>>,
          payload_length |-> 0, crc |-> CrcInit, received_crc_low |-> 0]

(* An outcome of one feed: the parser after it, the result, the view.      *)
Outcome(p, r) == [p |-> p, r |-> r, v |-> NoFrame]

(* The second magic byte opens a header with the indices and CRC restarted.*)
OpenHeader(p) == [Reset EXCEPT !.state = "HEADER",
                               !.received_crc_low = p.received_crc_low]

FeedIdle(p, byte) ==
    IF byte = Magic0 THEN Outcome([p EXCEPT !.state = "MAGIC1"], "CONSUMED")
                     ELSE Outcome(p, "TEXT")

(* Faulty variant: a first magic byte after another one is forgotten. *)
FeedMagic1LoneMagic(p, byte) ==
    IF byte = Magic1 THEN Outcome(OpenHeader(p), "CONSUMED")
                     ELSE Outcome(Reset, "SYNC_ERROR_TEXT")

FeedMagic1(p, byte) ==
    CASE byte = Magic1 -> Outcome(OpenHeader(p), "CONSUMED")
      [] byte = Magic0 -> Outcome(p, "SYNC_ERROR_CONSUMED")
      [] OTHER -> Outcome(Reset, "SYNC_ERROR_TEXT")

(* Faulty variant: the length is not checked. *)
FeedHeaderNoLimit(p, byte) ==
    LET header == Append(p.header, byte)
        length == header[HeaderLen - 1] + Radix * header[HeaderLen]
        q == [p EXCEPT !.header = header, !.crc = Crc16Update(p.crc, byte)]
    IN Outcome(IF Len(header) < HeaderLen THEN q
               ELSE [q EXCEPT !.payload_length = length,
                              !.state = IF length = 0 THEN "CRC0"
                                                      ELSE "PAYLOAD"],
               "CONSUMED")

FeedHeader(p, byte) ==
    LET header == Append(p.header, byte)
        length == header[HeaderLen - 1] + Radix * header[HeaderLen]
        q == [p EXCEPT !.header = header, !.crc = Crc16Update(p.crc, byte)]
    IN IF Len(header) < HeaderLen THEN Outcome(q, "CONSUMED")
       ELSE IF length > MaxPayload
         THEN Outcome([q EXCEPT !.state = "RESYNC", !.payload_length = length],
                      "LENGTH_ERROR")
       ELSE Outcome([q EXCEPT !.state = IF length = 0 THEN "CRC0"
                                                      ELSE "PAYLOAD",
                              !.payload_length = length], "CONSUMED")

FeedPayload(p, byte) ==
    LET payload == Append(p.payload, byte)
    IN Outcome([p EXCEPT !.payload = payload,
                         !.crc = Crc16Update(p.crc, byte),
                         !.state = IF Len(payload) = p.payload_length
                                     THEN "CRC0" ELSE "PAYLOAD"], "CONSUMED")

FeedCrc0(p, byte) ==
    Outcome([p EXCEPT !.received_crc_low = byte, !.state = "CRC1"], "CONSUMED")

FeedCrc1(p, byte) ==
    IF p.received_crc_low + Radix * byte # p.crc
      THEN Outcome(Reset, "CRC_ERROR")
      ELSE [p |-> Reset, r |-> "FRAME_READY",
            v |-> [fields |-> SubSeq(p.header, 1, FieldCount),
                   payload |-> p.payload]]

FeedResync(p, byte) ==
    Outcome(IF byte = Magic0 THEN [p EXCEPT !.state = "RESYNC_MAGIC1"] ELSE p,
            "CONSUMED")

FeedResyncMagic1(p, byte) ==
    Outcome(CASE byte = Magic1 -> OpenHeader(p)
              [] byte = Magic0 -> p
              [] OTHER -> [p EXCEPT !.state = "RESYNC"], "CONSUMED")

Feed(p, byte) ==
    CASE p.state = "IDLE" -> FeedIdle(p, byte)
      [] p.state = "MAGIC1" -> FeedMagic1(p, byte)
      [] p.state = "HEADER" -> FeedHeader(p, byte)
      [] p.state = "PAYLOAD" -> FeedPayload(p, byte)
      [] p.state = "CRC0" -> FeedCrc0(p, byte)
      [] p.state = "CRC1" -> FeedCrc1(p, byte)
      [] p.state = "RESYNC" -> FeedResync(p, byte)
      [] p.state = "RESYNC_MAGIC1" -> FeedResyncMagic1(p, byte)

-----------------------------------------------------------------------------
MaxWire == 2 + HeaderLen + MaxPayload + 2

LastOf(bytes, n) == IF Len(bytes) <= n THEN bytes
                    ELSE SubSeq(bytes, Len(bytes) - n + 1, Len(bytes))

Take(byte) ==
    LET o == Feed(frame_parser, byte)
    IN /\ frame_parser' = o.p
       /\ result' = o.r
       /\ view' = o.v
       /\ fed' = LastOf(Append(fed, byte), MaxWire)

BetweenFrames(p) == p.state \in {"IDLE", "MAGIC1", "RESYNC", "RESYNC_MAGIC1"}

(* A frame whose bytes after the first never look like the start of one.   *)
Quiet(f) == LET wire == Encode(f)
            IN \A i \in 2 .. Len(wire) - 1 :
                  ~(wire[i] = Magic0 /\ wire[i + 1] = Magic1)

FrameInit ==
    /\ frame_parser = Reset
    /\ result = "TEXT"
    /\ view = NoFrame
    /\ sending = <<>>
    /\ frame = NoFrame
    /\ aligned = FALSE
    /\ lost = 0
    /\ noise = 0
    /\ started = 0
    /\ fed = <<>>

(* A byte that belongs to no frame: line noise, the bytes of a text shell, *)
(* the tail of a transfer that began before the device was listening.      *)
Noise(byte) ==
    /\ sending = <<>>
    /\ noise < MaxNoise
    /\ Take(byte)
    /\ noise' = noise + 1
    /\ lost' = 0
    /\ aligned' = FALSE
    /\ UNCHANGED <<sending, frame, started>>

(* The host writes a frame; the first byte reaches the parser.             *)
Begin(f) ==
    /\ sending = <<>>
    /\ started < MaxFrames
    /\ started' = started + 1
    /\ frame' = f
    /\ aligned' = BetweenFrames(frame_parser)
    /\ Take(Head(Encode(f)))
    /\ sending' = Tail(Encode(f))
    /\ UNCHANGED <<lost, noise>>

Continue ==
    /\ sending # <<>>
    /\ Take(Head(sending))
    /\ sending' = Tail(sending)
    /\ lost' = IF result' = "FRAME_READY" \/ ~Quiet(frame) THEN 0
               ELSE IF sending' = <<>> THEN lost + 1
               ELSE lost
    /\ UNCHANGED <<frame, aligned, noise, started>>

(* The host gives the transfer up in the middle of a frame.                *)
Truncate ==
    /\ sending # <<>>
    /\ noise < MaxNoise
    /\ noise' = noise + 1
    /\ sending' = <<>>
    /\ aligned' = FALSE
    /\ lost' = 0
    /\ UNCHANGED <<frame_parser, result, view, frame, started, fed>>

FrameNext ==
    \/ \E b \in NoiseBytes : Noise(b)
    \/ \E f \in Frames : Begin(f)
    \/ Continue
    \/ Truncate

FrameSpec == FrameInit /\ [][FrameNext]_frameVars

-----------------------------------------------------------------------------
(* A frame is handed on only when its exact encoding is what the stream    *)
(* has just carried: nothing of an earlier broken frame, of skipped bytes  *)
(* or of another frame's header is ever mixed into the view that           *)
(* binary_frame_parser_feed returns.                                       *)
DeliveredWasSent ==
    result = "FRAME_READY" => IsSuffix(Encode(view), fed)

(* Whatever noise or broken frame came before, a whole frame that begins   *)
(* while the parser stands between frames (idle, resynchronising, or       *)
(* having just seen a lone first magic byte) is delivered with its last    *)
(* byte, even when its own payload contains the magic.                     *)
AlignedFrameDelivered ==
    (aligned /\ sending = <<>>) => (result = "FRAME_READY" /\ view = frame)

(* A false start swallows at most a header, the longest accepted payload   *)
(* and a CRC.  The frames that follow it back to back are lost only while  *)
(* they fit in that span, the length check being what limits it: the       *)
(* parser has no timeout that would end the wait for a missing tail.       *)
SwallowBound ==
    LET shortest == 2 + HeaderLen + 2
        span == HeaderLen + MaxPayload + 2
    IN (span + shortest - 1) \div shortest

BoundedLoss == lost <= SwallowBound

(* Delivery, together: only what was sent, and all that starts aligned.    *)
DeliversWhatWasSent == DeliveredWasSent /\ AlignedFrameDelivered
(* The bounds, together: the buffers are never overrun, and neither is the *)
(* number of frames a false start costs.                                   *)
ParserBounded == FrameTypeOK /\ BoundedLoss

=============================================================================
