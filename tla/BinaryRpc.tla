----------------------------- MODULE BinaryRpc -----------------------------
(***************************************************************************)
(* Remote procedure calls over the management interface: binary_rpc.c,     *)
(* the command service it calls (command_service.c) and the dispatch of    *)
(* kernel.c.  A frame the parser delivered is checked, its arguments are   *)
(* decoded, the method runs and streams its output as RPC_DATA frames of   *)
(* at most ChunkMax bytes, and RPC_END closes the exchange.                *)
(*                                                                         *)
(* Every frame goes to usb_management_write_span_atomic, which refuses it  *)
(* when the transmit ring has no room for all of it; the ring is drained   *)
(* by the interrupt meanwhile, so any single send may be accepted or       *)
(* refused whatever happened to the one before.  What a method prints and  *)
(* which status it returns is chosen freely; methods other than wdogtrip   *)
(* ignore the result of their writes, as the console_ helpers do.          *)
(***************************************************************************)
EXTENDS Naturals, Sequences, SequencesExt, FiniteSets

CONSTANTS
    MaxArgs,        \* COMMAND_SERVICE_MAX_ARGS (4)
    MaxArgBytes,    \* BINARY_RPC_MAX_ARG_BYTES (31)
    ChunkMax,       \* BINARY_RPC_DATA_CHUNK_MAX (48)
    Registry,       \* rpc id -> [class, min, max]: command_registry
    Requests,       \* the frames the host sends
    Letters,        \* the bytes a method prints, newline apart
    MaxOutput,      \* bound: bytes one method prints
    MaxCalls        \* bound: requests in a behaviour

Newline == "newline"
Printable == Letters \cup {Newline}

(* "WDOG_TRIP_ARMED" and its line end.                                     *)
TripText == <<CHOOSE c \in Letters : TRUE, Newline>>

ProtocolVersion == 1
AllowDestructive == 1
CommandStatus == {"OK", "NOT_FOUND", "BAD_ARGS", "BUSY", "INTERNAL_ERROR"}

Octet == 0 .. 255
MaxRpcId == 65535

ASSUME RpcAssumption ==
    /\ MaxArgs \in Nat /\ MaxArgBytes \in Nat
    /\ ChunkMax \in Nat \ {0} /\ Letters # {}
    /\ MaxOutput \in Nat /\ Len(TripText) <= MaxOutput
    /\ DOMAIN Registry \subseteq 1 .. MaxRpcId
    /\ \A r \in DOMAIN Registry :
          /\ Registry[r].class \in {"SAFE", "DIAGNOSTIC", "DESTRUCTIVE"}
          /\ Registry[r].min \in Nat /\ Registry[r].max \in 0 .. MaxArgs
    /\ \A f \in Requests : f.payload \in Seq(Octet)

-----------------------------------------------------------------------------
VARIABLES
    rpc,            \* binary_rpc_state_t: the exchange under way
    write_failed,   \* command_service_context_t.write_failed
    phase,          \* idle, in the method, or in wdogtrip's endless loop
    request,        \* the frame being handled (or the last one)
    executed,       \* its method was run
    output,         \* what the method has written so far
    exchange,       \* the frames the ring accepted for this request
    handled         \* bound

rpcVars == <<rpc, write_failed, phase, request, executed, output, exchange,
          handled>>

RpcTypeOK ==
    /\ rpc \in [sequence : Nat, total_output_bytes : Nat,
                data_chunk : Seq(Printable), tx_failed : BOOLEAN]
    /\ Len(rpc.data_chunk) <= ChunkMax
    /\ phase = "method" /\ ~rpc.tx_failed =>
         /\ Len(rpc.data_chunk) < ChunkMax
         /\ rpc.data_chunk # <<>> => Last(rpc.data_chunk) # Newline
    /\ write_failed \in BOOLEAN
    /\ phase \in {"idle", "method", "tripped"}
    /\ executed \in BOOLEAN

-----------------------------------------------------------------------------
(* Decoding a request's payload:                                           *)
(*   rpc id low, rpc id high, argc, 0, then per argument length and bytes. *)

RpcIdOf(payload) == payload[1] + 256 * payload[2]

(* One argument: it must lie within the payload; its length and a NUL in   *)
(* it only make the arguments bad, and decoding goes on.                   *)
DecodeArgument(payload, acc) ==
    IF acc.malformed \/ acc.offset >= Len(payload)
      THEN [acc EXCEPT !.malformed = TRUE]
      ELSE LET length == payload[acc.offset + 1]
               first == acc.offset + 2
               after == acc.offset + 1 + length
           IN IF after > Len(payload)
                THEN [acc EXCEPT !.malformed = TRUE]
                ELSE [acc EXCEPT
                        !.offset = after,
                        !.bad = \/ @
                                \/ length > MaxArgBytes
                                \/ \E i \in first .. after : payload[i] = 0]

(* The loop over the declared arguments.                                   *)
DecodeArguments(payload) ==
    LET argc == payload[3]
        after[i \in 0 .. argc] ==
            IF i = 0
              THEN [offset |-> 4, malformed |-> FALSE, bad |-> argc > MaxArgs]
              ELSE DecodeArgument(payload, after[i - 1])
    IN after[argc]

(* Faulty variant: bytes left over are accepted. *)
DecodeRequestTrailing(payload) ==
    IF Len(payload) < 4 \/ payload[4] # 0 THEN "MALFORMED"
    ELSE LET decoded == DecodeArguments(payload)
         IN IF decoded.malformed THEN "MALFORMED"
            ELSE IF decoded.bad THEN "BAD_ARGS"
            ELSE "OK"

DecodeRequest(payload) ==
    IF Len(payload) < 4 \/ payload[4] # 0 THEN "MALFORMED"
    ELSE LET decoded == DecodeArguments(payload)
         IN IF decoded.malformed \/ decoded.offset # Len(payload)
              THEN "MALFORMED"
            ELSE IF decoded.bad THEN "BAD_ARGS"
            ELSE "OK"

(* The id an answer to a malformed request carries: the decoder reads it   *)
(* only when the fixed part is there.                                      *)
IdWhenMalformed(payload) == IF Len(payload) < 4 THEN 0 ELSE RpcIdOf(payload)

-----------------------------------------------------------------------------
(* Frames on the wire.                                                     *)

Data(frame_id, rpc_id, sequence, bytes) ==
    [kind |-> "DATA", id |-> frame_id, rpc |-> rpc_id, sequence |-> sequence,
     bytes |-> bytes]

End(frame_id, rpc_id, chunks, total, domain, status) ==
    [kind |-> "END", id |-> frame_id, rpc |-> rpc_id, chunks |-> chunks,
     total |-> total, domain |-> domain, status |-> status]

ProtocolError(frame_id, code) ==
    [kind |-> "PROTOCOL_ERROR", id |-> frame_id, code |-> code]

Hello(frame_id) == [kind |-> "HELLO_RESPONSE", id |-> frame_id]

SimpleEnd(f, rpc_id, domain, status) ==
    End(f.id, rpc_id, 0, 0, domain, status)

(* binary_rpc_handle_frame and binary_rpc_handle_rpc_request up to the     *)
(* call of the method: the frame that refuses the request, or none.        *)
RefuseRpc(f) ==
    LET descriptor == Registry[RpcIdOf(f.payload)]
        decoded == DecodeRequest(f.payload)
    IN IF f.flags \notin {0, AllowDestructive}
         THEN IF Len(f.payload) >= 2
                THEN <<SimpleEnd(f, RpcIdOf(f.payload), "PROTOCOL",
                                 "BAD_FLAGS")>>
                ELSE <<ProtocolError(f.id, "BAD_FLAGS")>>
       ELSE IF decoded = "MALFORMED"
         THEN IF Len(f.payload) >= 2
                THEN <<SimpleEnd(f, IdWhenMalformed(f.payload), "PROTOCOL",
                                 "MALFORMED_REQUEST")>>
                ELSE <<ProtocolError(f.id, "MALFORMED_REQUEST")>>
       ELSE IF RpcIdOf(f.payload) \notin DOMAIN Registry
         THEN <<SimpleEnd(f, RpcIdOf(f.payload), "COMMAND", "NOT_FOUND")>>
       ELSE IF decoded = "BAD_ARGS"
                 \/ f.payload[3] \notin descriptor.min .. descriptor.max
         THEN <<SimpleEnd(f, RpcIdOf(f.payload), "COMMAND", "BAD_ARGS")>>
       ELSE IF descriptor.class = "DESTRUCTIVE" /\ f.flags # AllowDestructive
         THEN <<SimpleEnd(f, RpcIdOf(f.payload), "PROTOCOL",
                          "DESTRUCTIVE_CONFIRM_REQUIRED")>>
       ELSE <<>>

Refuse(f) ==
    IF f.version # ProtocolVersion \/ f.reserved # 0
      THEN <<ProtocolError(f.id, "MALFORMED_REQUEST")>>
    ELSE IF f.id = 0 THEN <<ProtocolError(0, "REQUEST_ID_RESERVED")>>
    ELSE IF f.type = "HELLO_REQUEST"
      THEN IF f.flags # 0 THEN <<ProtocolError(f.id, "BAD_FLAGS")>>
           ELSE IF f.payload # <<>>
             THEN <<ProtocolError(f.id, "MALFORMED_REQUEST")>>
           ELSE <<Hello(f.id)>>
    ELSE IF f.type = "RPC_REQUEST" THEN RefuseRpc(f)
    ELSE <<ProtocolError(f.id, "MALFORMED_REQUEST")>>

-----------------------------------------------------------------------------
NoRequest == [version |-> 0, type |-> "NONE", flags |-> 0, reserved |-> 0,
              id |-> 0, payload |-> <<>>]

Quiescent == [sequence |-> 0, total_output_bytes |-> 0, data_chunk |-> <<>>,
              tx_failed |-> FALSE]

RpcInit ==
    /\ rpc = Quiescent
    /\ write_failed = FALSE
    /\ phase = "idle"
    /\ request = NoRequest
    /\ executed = FALSE
    /\ output = <<>>
    /\ exchange = <<>>
    /\ handled = 0

(* binary_rpc_send_workspace_frame: the whole frame or nothing.            *)
Sent(frames, frame, accepted) ==
    IF accepted THEN Append(frames, frame) ELSE frames

(* A delivered frame that is answered without running a method.            *)
HandleRefused(f) ==
    /\ phase = "idle"
    /\ handled < MaxCalls
    /\ Refuse(f) # <<>>
    /\ \E accepted \in BOOLEAN :
          /\ exchange' = Sent(<<>>, Refuse(f)[1], accepted)
          /\ rpc' = [rpc EXCEPT !.tx_failed = ~accepted]
    /\ request' = f
    /\ executed' = FALSE
    /\ output' = <<>>
    /\ handled' = handled + 1
    /\ UNCHANGED <<write_failed, phase>>

(* A delivered frame whose method is run: the exchange starts from zero.   *)
HandleAccepted(f) ==
    /\ phase = "idle"
    /\ handled < MaxCalls
    /\ Refuse(f) = <<>>
    /\ rpc' = Quiescent
    /\ write_failed' = FALSE
    /\ phase' = "method"
    /\ request' = f
    /\ executed' = TRUE
    /\ output' = <<>>
    /\ exchange' = <<>>
    /\ handled' = handled + 1

ActiveId == RpcIdOf(request.payload)
ActiveClass == Registry[ActiveId].class

(* binary_rpc_flush_data: the state and the frames after it.               *)
Flush(state, frames, accepted) ==
    IF state.data_chunk = <<>> THEN [state |-> state, frames |-> frames]
    ELSE [frames |-> Sent(frames, Data(request.id, ActiveId, state.sequence,
                                       state.data_chunk), accepted),
          state |-> IF accepted
                      THEN [state EXCEPT
                              !.total_output_bytes = @ + Len(state.data_chunk),
                              !.data_chunk = <<>>,
                              !.sequence = @ + 1]
                      ELSE [state EXCEPT !.tx_failed = TRUE]]

(* binary_rpc_output_write_byte below command_service_write_byte: the byte *)
(* joins the chunk, and a full chunk or a newline flushes it.              *)
WriteByte(byte) ==
    /\ phase = "method"
    /\ Len(output) < MaxOutput
    /\ output' = Append(output, byte)
    /\ IF rpc.tx_failed
         THEN /\ write_failed' = TRUE
              /\ UNCHANGED <<rpc, exchange>>
         ELSE LET filled == [rpc EXCEPT !.data_chunk = Append(@, byte)]
                  due == \/ Len(filled.data_chunk) = ChunkMax
                         \/ byte = Newline
              IN \E accepted \in BOOLEAN :
                    LET after == IF due THEN Flush(filled, exchange, accepted)
                                 ELSE [state |-> filled, frames |-> exchange]
                    IN /\ rpc' = after.state
                       /\ exchange' = after.frames
                       /\ write_failed' = (write_failed \/ (due /\ ~accepted))
    /\ UNCHANGED <<phase, request, executed, handled>>

(* Ordinary methods print what they like.                                  *)
MethodWrites ==
    /\ phase = "method" /\ ActiveClass # "DESTRUCTIVE"
    /\ \E byte \in Printable : WriteByte(byte)

(* console_watchdog_trip prints its line and stops at the first failure.   *)
TripWrites ==
    /\ phase = "method" /\ ActiveClass = "DESTRUCTIVE"
    /\ ~write_failed
    /\ Len(output) < Len(TripText)
    /\ WriteByte(TripText[Len(output) + 1])

(* ... and then never returns.                                             *)
Trip ==
    /\ phase = "method" /\ ActiveClass = "DESTRUCTIVE"
    /\ ~write_failed
    /\ output = TripText
    /\ phase' = "tripped"
    /\ UNCHANGED <<rpc, write_failed, request, executed, output, exchange,
                   handled>>

MayReturn(status) ==
    IF ActiveClass = "DESTRUCTIVE" THEN write_failed /\ status = "OK" ELSE TRUE

(* Faulty variant: refused frames do not change the status. *)
FinalStatusOfWrites(status, state) ==
    IF write_failed THEN "INTERNAL_ERROR" ELSE status

(* The rest of binary_rpc_handle_rpc_request: residual bytes are flushed   *)
(* unless a send has failed, any failure makes the status an internal      *)
(* error, and RPC_END is tried once.                                       *)
FinalStatus(status, state) ==
    IF write_failed \/ state.tx_failed THEN "INTERNAL_ERROR" ELSE status

Return(status) ==
    /\ phase = "method"
    /\ MayReturn(status)
    /\ \E flushed, accepted \in BOOLEAN :
          LET after == IF rpc.tx_failed
                         THEN [state |-> rpc, frames |-> exchange]
                         ELSE Flush(rpc, exchange, flushed)
              end == End(request.id, ActiveId, after.state.sequence,
                         after.state.total_output_bytes, "COMMAND",
                         FinalStatus(status, after.state))
          IN /\ exchange' = Sent(after.frames, end, accepted)
             /\ rpc' = [after.state EXCEPT !.tx_failed = @ \/ ~accepted]
    /\ phase' = "idle"
    /\ UNCHANGED <<write_failed, request, executed, output, handled>>

(* The watchdog resets the device out of wdogtrip's loop.                  *)
WatchdogReset ==
    /\ phase = "tripped"
    /\ rpc' = Quiescent
    /\ write_failed' = FALSE
    /\ phase' = "idle"
    /\ request' = NoRequest
    /\ executed' = FALSE
    /\ output' = <<>>
    /\ exchange' = <<>>
    /\ UNCHANGED handled

RpcNext ==
    \/ \E f \in Requests : HandleRefused(f) \/ HandleAccepted(f)
    \/ MethodWrites
    \/ TripWrites
    \/ Trip
    \/ \E status \in CommandStatus : Return(status)
    \/ WatchdogReset

RpcSpec == RpcInit /\ [][RpcNext]_rpcVars

-----------------------------------------------------------------------------
(* The RPC_DATA frames among those the ring accepted, and their bytes.     *)
DataCount == Cardinality({i \in DOMAIN exchange : exchange[i].kind = "DATA"})
Delivered == FlattenSeq([i \in 1 .. DataCount |-> exchange[i].bytes])
Ended == exchange # <<>> /\ Last(exchange).kind = "END"

(* Whichever sends were refused, RPC_END states exactly what the host      *)
(* received of this request: as many chunks as RPC_DATA frames reached the *)
(* ring, before any other frame and numbered from zero without a gap, and  *)
(* their bytes in total.                                                   *)
EndCountsWhatWasSent ==
    /\ \A i \in 1 .. DataCount : /\ exchange[i].kind = "DATA"
                                  /\ exchange[i].sequence = i - 1
    /\ Ended => /\ Last(exchange).chunks = DataCount
                /\ Last(exchange).total = Len(Delivered)

(* RPC_END with status OK is never sent over a hole: every byte the method *)
(* printed is in the RPC_DATA frames before it.  And what was delivered is *)
(* at any time a prefix of the output, never a later part of it.           *)
OkIsComplete ==
    /\ IsPrefix(Delivered, output)
    /\ (executed /\ Ended /\ Last(exchange).status = "OK") => Delivered = output

(* The machine is only made to hang by a well-formed request whose flag    *)
(* confirms it, and after the announcement line reached the ring.          *)
TripConfirmedAndAnnounced ==
    phase = "tripped" => /\ request.flags = AllowDestructive
                         /\ Delivered = TripText

(* The encoding the host is meant to use.                                  *)
EncodeRequest(rpc_id, args) ==
    <<rpc_id % 256, rpc_id \div 256, Len(args), 0>>
      \o FlattenSeq([i \in 1 .. Len(args) |-> <<Len(args[i])>> \o args[i]])

WellFormed(f) ==
    \E rpc_id \in DOMAIN Registry :
       \E n \in Registry[rpc_id].min .. Registry[rpc_id].max :
          \E args \in [1 .. n -> BoundedSeq(Range(f.payload) \ {0},
                                            MaxArgBytes)] :
             f.payload = EncodeRequest(rpc_id, args)

(* The decoder accepts exactly the encodings of calls the registry allows: *)
(* no method runs on a payload with a byte missing, left over or misplaced,*)
(* and no proper call is turned away as malformed.                         *)
RunsExactlyProperCalls ==
    LET proper == WellFormed(request)
    IN /\ executed => proper
       /\ (proper /\ request.type = "RPC_REQUEST" /\ Ended
            /\ Last(exchange).domain = "PROTOCOL")
             => Last(exchange).status \in {"BAD_FLAGS",
                                           "DESTRUCTIVE_CONFIRM_REQUIRED"}

(* "A returning RPC request ends with exactly one RPC_END frame."          *)
EndsWithRpcEnd == (phase = "idle" /\ executed) => Ended

(* The answer to a request, together: it counts what was sent, OK means    *)
(* complete, and a trip was confirmed and announced.                       *)
AnswersAreHonest ==
    RpcTypeOK /\ EndCountsWhatWasSent /\ OkIsComplete /\ TripConfirmedAndAnnounced
=============================================================================
