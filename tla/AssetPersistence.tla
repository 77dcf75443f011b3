-------------------------- MODULE AssetPersistence ---------------------------
(***************************************************************************)
(* The two-slot store of one configuration object:                         *)
(* src/src/kernel/asset_persistence.c over                                 *)
(* src/src/drivers/flash_persistence.c.                                    *)
(*                                                                         *)
(* A call (begin, write, commit) runs to its end in the console task, but  *)
(* a reset can come inside each of its flash operations and between two of *)
(* them.  So every erase or program is an action; `step` names the next    *)
(* one, and `ret` is the result of the last call that ended.  Spec lets    *)
(* the caller make any call at any time; AssetTransfer is the real caller. *)
(*                                                                         *)
(* Abstractions.  The twelve metadata halfwords are one cell `meta` (the   *)
(* generation and payload CRC; the rest is constant), and so are the two   *)
(* halfwords of the header CRC.  Crc is any function: unequal payloads may *)
(* collide.  A torn cell is Junk and passes no check.                      *)
(***************************************************************************)
EXTENDS Naturals, Sequences

CONSTANTS
    PayloadLen,   \* OLED_UI_LAYOUT_CONFIG_V1_BYTES
    Byte,         \* values of a payload byte
    FF,           \* the byte of erased flash
    Junk,         \* content of a torn cell
    CrcValue,     \* values of a CRC-32
    Crc,          \* payload -> CRC-32
    ValidPayload, \* oled_ui_layout_config_v1_validate()
    Chunk,        \* data of a write
    GenMax        \* ASSET_PERSISTENCE_GENERATION_MAX

Payload == [1..PayloadLen -> Byte]

ASSUME AssetAssumption ==
    /\ PayloadLen \in Nat \ {0}
    /\ PayloadLen % 2 = 0
    /\ FF \in Byte
    /\ Junk \notin Byte
    /\ Crc \in [Payload -> CrcValue]
    /\ ValidPayload \subseteq Payload
    /\ Chunk \subseteq Seq(Byte) \ {<<>>}
    /\ GenMax \in Nat \ {0}

Slot == {"A", "B"}
NoSlot == "none"
Meta == [gen : 1..GenMax, crc : CrcValue]
NoMeta == [gen |-> 0]                     \* erased or torn metadata
NoRecord == [slot |-> NoSlot, gen |-> 0]  \* active_record.slot_address = 0
Record == [slot : Slot, gen : 1..GenMax, crc : CrcValue]

Content ==
    [meta : Meta \cup {NoMeta}, blank : BOOLEAN,
     payload : [1..PayloadLen -> Byte \cup {Junk}],
     hcrc : {"erased", "valid", "junk"}, marker : {"erased", "set", "junk"}]

VARIABLES
    slots,   \* flash pages 62 and 63
    active,  \* active_record
    cand,    \* candidate_state
    todo,    \* bytes the current write still has to program
    copy,    \* how many of them come from the compare fallback's copy loop
    step,    \* the flash operation that is next, "none" when no call runs
    ret      \* result of the last call

vars == <<slots, active, cand, todo, copy, step, ret>>
callVars == <<todo, copy, step, ret>>

-----------------------------------------------------------------------------
(* Records in flash *)

ErasedSlot ==
    [meta |-> NoMeta, blank |-> TRUE, payload |-> [i \in 1..PayloadLen |-> FF],
     hcrc |-> "erased", marker |-> "erased"]
JunkSlot ==
    [meta |-> NoMeta, blank |-> FALSE, payload |-> [i \in 1..PayloadLen |-> Junk],
     hcrc |-> "junk", marker |-> "junk"]

\* asset_validate_record(slot, marker)
Validate(c, marker) ==
    IF c.meta \notin Meta \/ c.hcrc # "valid" \/ c.marker # marker
    THEN "STORAGE_ERROR"
    ELSE IF c.payload \notin Payload \/ Crc[c.payload] # c.meta.crc
    THEN "CRC_MISMATCH"
    ELSE IF c.payload \notin ValidPayload THEN "VALIDATION_FAILED"
    ELSE "OK"

Committed(c) == Validate(c, "set") = "OK"

RecordOf(sl, s) == [slot |-> s, gen |-> sl[s].meta.gen, crc |-> sl[s].meta.crc]

\* Faulty variant: slot A wins whenever it is valid.
BootRecordPrefersA(sl) ==
    IF Committed(sl["A"]) THEN RecordOf(sl, "A")
    ELSE IF Committed(sl["B"]) THEN RecordOf(sl, "B")
    ELSE NoRecord

\* asset_select_boot_record()
BootRecord(sl) ==
    LET va == Committed(sl["A"])
        vb == Committed(sl["B"])
        ga == sl["A"].meta.gen
        gb == sl["B"].meta.gen
    IN IF va /\ (~vb \/ ga > gb) THEN RecordOf(sl, "A")
       ELSE IF vb /\ (~va \/ gb > ga) THEN RecordOf(sl, "B")
       ELSE IF va /\ vb /\ sl["A"].meta = sl["B"].meta
                  /\ sl["A"].payload = sl["B"].payload
       THEN RecordOf(sl, "A")
       ELSE NoRecord

\* What asset_persistence_read_active() reads; NoPayload when there is no record.
NoPayload == <<>>
PayloadOf(sl, rec) == IF rec = NoRecord THEN NoPayload ELSE sl[rec.slot].payload

Idle == step = "none"

\* The call ends here with result r.
Return(r) ==
    /\ ret' = r
    /\ step' = "none"
    /\ todo' = <<>>
    /\ copy' = 0

-----------------------------------------------------------------------------
(* asset_persistence_begin_candidate() *)

InactiveSlot == IF active # NoRecord /\ active.slot = "A" THEN "B" ELSE "A"

\* asset_start_changed() on candidate c, with the bytes to program after it.
StartChanged(c, bytes, copied) ==
    IF active # NoRecord /\ active.gen >= GenMax
    THEN cand' = c /\ Return("WEAR_BUDGET_EXHAUSTED")
    ELSE /\ cand' = [c EXCEPT !.slot = InactiveSlot, !.gen = active.gen + 1,
                              !.accepted = 0, !.pend = <<>>, !.compare = FALSE]
         /\ step' = "erase"
         /\ todo' = bytes
         /\ copy' = copied
         /\ UNCHANGED ret

BeginCandidate(crc) ==
    /\ Idle
    /\ LET c == [cand EXCEPT !.active = TRUE, !.crc = crc]
       IN IF cand.active
          THEN UNCHANGED cand /\ Return("BAD_STATE")
          ELSE IF active # NoRecord /\ active.crc = crc
          THEN /\ cand' = [c EXCEPT !.accepted = 0, !.pend = <<>>, !.compare = TRUE]
               /\ Return("OK")
          ELSE StartChanged(c, <<>>, 0)
    /\ UNCHANGED <<slots, active>>

CandidateReset == cand' = [cand EXCEPT !.active = FALSE]

\* The candidate slot with new content c.
Put(c) == slots' = [slots EXCEPT ![cand.slot] = c]

\* What an operation that does not complete may leave in the candidate slot.
TornErase == {slots[cand.slot], ErasedSlot, JunkSlot}

ErasePage ==
    /\ step = "erase"
    /\ Put(ErasedSlot)
    /\ step' = "metadata"
    /\ UNCHANGED <<active, cand, todo, copy, ret>>

ErasePageFails ==
    /\ step = "erase"
    /\ \E c \in TornErase : Put(c)
    /\ CandidateReset
    /\ Return("STORAGE_ERROR")
    /\ UNCHANGED active

\* asset_program_metadata()
ProgramMetadata ==
    /\ step = "metadata"
    /\ slots[cand.slot].blank
    /\ Put([slots[cand.slot] EXCEPT !.meta = [gen |-> cand.gen, crc |-> cand.crc],
                                    !.blank = FALSE])
    /\ IF todo = <<>> THEN Return("OK")
       ELSE step' = "payload" /\ UNCHANGED <<todo, copy, ret>>
    /\ UNCHANGED <<active, cand>>

TornMeta ==
    LET c == slots[cand.slot]
    IN {c, [c EXCEPT !.blank = FALSE],
        [c EXCEPT !.blank = FALSE, !.meta = [gen |-> cand.gen, crc |-> cand.crc]]}

ProgramMetadataFails ==
    /\ step = "metadata"
    /\ \E c \in TornMeta : Put(c)
    /\ CandidateReset
    /\ Return("STORAGE_ERROR")
    /\ UNCHANGED active

-----------------------------------------------------------------------------
(* asset_persistence_write_candidate() *)

ActivePayload == slots[active.slot].payload

\* Faulty variant: the compare mode trusts the CRC and compares nothing.
WriteCandidateTrustsCrc(data) ==
    /\ Idle
    /\ IF ~cand.active \/ cand.accepted + Len(data) > PayloadLen
       THEN UNCHANGED cand /\ Return("BAD_STATE")
       ELSE IF ~cand.compare
       THEN step' = "payload" /\ todo' = data /\ copy' = 0 /\ UNCHANGED <<cand, ret>>
       ELSE /\ cand' = [cand EXCEPT !.accepted = @ + Len(data)]
            /\ Return("OK")
    /\ UNCHANGED <<slots, active>>

\* While the bytes are those of the active record nothing is written; the first
\* different one starts a changed candidate, whose prefix is copied.
WriteCandidate(data) ==
    /\ Idle
    /\ IF ~cand.active \/ cand.accepted + Len(data) > PayloadLen
       THEN UNCHANGED cand /\ Return("BAD_STATE")
       ELSE IF ~cand.compare
       THEN step' = "payload" /\ todo' = data /\ copy' = 0 /\ UNCHANGED <<cand, ret>>
       ELSE LET n == cand.accepted
                differ == {i \in 1..Len(data) : ActivePayload[n + i] # data[i]}
                first == CHOOSE i \in differ : \A j \in differ : i <= j
                equal == n + first - 1
            IN IF differ = {}
               THEN /\ cand' = [cand EXCEPT !.accepted = n + Len(data)]
                    /\ Return("OK")
               ELSE StartChanged(cand, SubSeq(ActivePayload, 1, n) \o data,
                                 equal - (equal % 2))
    /\ UNCHANGED <<slots, active>>

\* The bytes at hand, and where the next halfword goes.
Stream == cand.pend \o todo
Offset == cand.accepted - Len(cand.pend)

\* flash_persistence_program_halfword() writes only erased halfwords it owns.
HalfErased(c, off) == c.payload[off + 1] = FF /\ c.payload[off + 2] = FF
HalfWritable == cand.slot \in Slot /\ HalfErased(slots[cand.slot], Offset)

WithHalf(c, off, lo, hi) ==
    [c EXCEPT !.payload = [@ EXCEPT ![off + 1] = lo, ![off + 2] = hi]]

ProgramPayload ==
    /\ step = "payload"
    /\ Len(Stream) >= 2
    /\ HalfWritable
    /\ Put(WithHalf(slots[cand.slot], Offset, Stream[1], Stream[2]))
    /\ cand' = [cand EXCEPT !.accepted = Offset + 2, !.pend = <<>>]
    /\ todo' = SubSeq(Stream, 3, Len(Stream))
    /\ UNCHANGED <<active, copy, step, ret>>

\* An odd last byte waits for its other half.
PayloadDone ==
    /\ step = "payload"
    /\ Len(Stream) < 2
    /\ cand' = [cand EXCEPT !.accepted = @ + Len(todo), !.pend = Stream]
    /\ Return("OK")
    /\ UNCHANGED <<slots, active>>

\* Programming 0xFFFF touches nothing and cannot fail half-way.
TornHalf ==
    LET c == slots[cand.slot]
    IN {c} \cup IF Len(Stream) < 2 \/ ~HalfWritable \/ (Stream[1] = FF /\ Stream[2] = FF)
                THEN {}
                ELSE {WithHalf(c, Offset, Stream[1], Stream[2]),
                      WithHalf(c, Offset, Junk, Junk)}

ProgramPayloadFails ==
    /\ step = "payload"
    /\ Len(Stream) >= 2
    /\ IF HalfWritable
       THEN /\ Stream[1] # FF \/ Stream[2] # FF
            /\ \E c \in TornHalf : Put(c)
       ELSE UNCHANGED slots
    /\ IF Offset < copy THEN CandidateReset ELSE UNCHANGED cand
    /\ Return("STORAGE_ERROR")
    /\ UNCHANGED active

-----------------------------------------------------------------------------
(* asset_persistence_commit_candidate() and abort_candidate() *)

CommitCandidate ==
    /\ Idle
    /\ IF ~cand.active \/ cand.accepted # PayloadLen
       THEN UNCHANGED cand /\ Return("BAD_STATE")
       ELSE IF cand.compare THEN CandidateReset /\ Return("UNCHANGED")
       ELSE IF cand.pend # <<>> THEN UNCHANGED cand /\ Return("BAD_STATE")
       ELSE step' = "hcrc" /\ UNCHANGED <<cand, todo, copy, ret>>
    /\ UNCHANGED <<slots, active>>

Writable(field) == cand.slot \in Slot /\ slots[cand.slot][field] = "erased"

\* Faulty variant: the record is activated before its marker is written.
ProgramHeaderCrcActivates ==
    /\ step = "hcrc"
    /\ Writable("hcrc")
    /\ LET c == [slots[cand.slot] EXCEPT !.hcrc = "valid"]
       IN /\ Put(c)
          /\ IF Validate(c, "erased") = "OK"
             THEN step' = "marker" /\ active' = RecordOf(slots', cand.slot)
                                   /\ UNCHANGED <<todo, copy, ret>>
             ELSE Return(Validate(c, "erased")) /\ UNCHANGED active
    /\ UNCHANGED cand

\* Header CRC, then the whole record is validated with its marker still erased.
ProgramHeaderCrc ==
    /\ step = "hcrc"
    /\ Writable("hcrc")
    /\ LET c == [slots[cand.slot] EXCEPT !.hcrc = "valid"]
       IN /\ Put(c)
          /\ IF Validate(c, "erased") = "OK"
             THEN step' = "marker" /\ UNCHANGED <<todo, copy, ret>>
             ELSE Return(Validate(c, "erased"))
    /\ UNCHANGED <<active, cand>>

\* The commit marker makes the record authoritative; it is validated once more.
ProgramMarker ==
    /\ step = "marker"
    /\ Writable("marker")
    /\ LET c == [slots[cand.slot] EXCEPT !.marker = "set"]
       IN /\ Put(c)
          /\ Return(Validate(c, "set"))
          /\ IF Committed(c)
             THEN active' = RecordOf(slots', cand.slot) /\ CandidateReset
             ELSE UNCHANGED <<active, cand>>

TornCommit ==
    LET c == slots[cand.slot]
    IN CASE step = "hcrc" /\ c.hcrc = "erased" ->
              {c, [c EXCEPT !.hcrc = "valid"], [c EXCEPT !.hcrc = "junk"]}
         [] step = "marker" /\ c.marker = "erased" ->
              {c, [c EXCEPT !.marker = "set"], [c EXCEPT !.marker = "junk"]}
         [] OTHER -> {c}

CommitFails ==
    /\ step \in {"hcrc", "marker"}
    /\ IF cand.slot \in Slot THEN \E c \in TornCommit : Put(c) ELSE UNCHANGED slots
    /\ Return("STORAGE_ERROR")
    /\ UNCHANGED <<active, cand>>

AbortCandidate ==
    /\ Idle
    /\ CandidateReset
    /\ UNCHANGED <<slots, active, callVars>>

-----------------------------------------------------------------------------
(* Reset, and asset_persistence_init() *)

ZeroCandidate ==
    [active |-> FALSE, slot |-> NoSlot, gen |-> 0, crc |-> CHOOSE v \in CrcValue : TRUE,
     accepted |-> 0, pend |-> <<>>, compare |-> FALSE]

\* What the reset may find in the slot an operation was working on.
TornStep ==
    CASE step = "erase" -> TornErase
      [] step = "metadata" -> TornMeta
      [] step = "payload" -> TornHalf
      [] OTHER -> TornCommit

Reset ==
    /\ IF Idle \/ cand.slot = NoSlot THEN UNCHANGED slots ELSE \E c \in TornStep : Put(c)
    /\ active' = BootRecord(slots')
    /\ cand' = ZeroCandidate
    /\ todo' = <<>>
    /\ copy' = 0
    /\ step' = "none"
    /\ ret' = "none"

-----------------------------------------------------------------------------

\* A new device: both pages erased.
Init ==
    /\ slots = [s \in Slot |-> ErasedSlot]
    /\ active = NoRecord
    /\ cand = ZeroCandidate
    /\ todo = <<>>
    /\ copy = 0
    /\ step = "none"
    /\ ret = "none"

Call ==
    \/ \E v \in CrcValue : BeginCandidate(v)
    \/ \E d \in Chunk : WriteCandidate(d)
    \/ CommitCandidate
    \/ AbortCandidate

FlashStep ==
    \/ ErasePage \/ ErasePageFails
    \/ ProgramMetadata \/ ProgramMetadataFails
    \/ ProgramPayload \/ ProgramPayloadFails \/ PayloadDone
    \/ ProgramHeaderCrc \/ ProgramMarker \/ CommitFails

Next == Call \/ FlashStep \/ Reset

Spec == Init /\ [][Next]_vars

-----------------------------------------------------------------------------
(* Properties *)

Result ==
    {"none", "OK", "UNCHANGED", "BAD_STATE", "STORAGE_ERROR", "CRC_MISMATCH",
     "VALIDATION_FAILED", "WEAR_BUDGET_EXHAUSTED"}

\* Every variable of asset_persistence.c keeps to its range.
TypeOK ==
    /\ slots \in [Slot -> Content]
    /\ active \in Record \cup {NoRecord}
    /\ cand \in [active : BOOLEAN, slot : Slot \cup {NoSlot}, gen : Nat,
                 crc : CrcValue, accepted : 0..PayloadLen, pend : Seq(Byte),
                 compare : BOOLEAN]
    /\ todo \in Seq(Byte)
    /\ copy \in Nat
    /\ step \in {"none", "erase", "metadata", "payload", "hcrc", "marker"}
    /\ ret \in Result

\* The record in use is always a complete, committed record in flash, whatever
\* call, failure or reset came in between: readers and the compare mode never see
\* a page that is being erased or programmed.
ActiveRecordIntact ==
    active # NoRecord =>
        /\ Committed(slots[active.slot])
        /\ active = RecordOf(slots, active.slot)

\* The two slots never hold committed records of equal generation, so the
\* ambiguous case of the boot selection never arises.
NoAmbiguity ==
    Committed(slots["A"]) /\ Committed(slots["B"]) =>
        slots["A"].meta.gen # slots["B"].meta.gen

\* The record in use only advances: over every step, resets and interrupted
\* commits included, it stays the same record with the same payload or gives way
\* to one of a higher generation.
ActiveOnlyAdvances ==
    [][ \/ active' = active /\ PayloadOf(slots', active') = PayloadOf(slots, active)
        \/ active'.gen > active.gen ]_vars

\* At the wear limit the store is read-only: no page is being erased, and no record
\* started or marked.
WornOutIsReadOnly ==
    active # NoRecord /\ active.gen = GenMax => step \notin {"erase", "metadata", "marker"}

\* The store's flash and RAM, together: types, an intact record in use, one candidate
\* for the boot selection, and no erasure past the wear limit.
StoreHolds == TypeOK /\ ActiveRecordIntact /\ NoAmbiguity /\ WornOutIsReadOnly

\* The store implements the abstract register: the object in use is the payload
\* of the active record, the shadow is what the boot selection would choose.
\* (This is Register!RegSpec; that a step which leaves slots and active alone
\* leaves the register alone is said first, where it costs TLC nothing.)
Abstract(sl, rec) == [gen |-> rec.gen, object |-> PayloadOf(sl, rec)]

Register ==
    INSTANCE AssetRegister
        WITH value <- Abstract(slots, active),
             shadow <- Abstract(slots, BootRecord(slots)),
             Object <- ValidPayload, None <- NoPayload, MaxGeneration <- GenMax

ImplementsRegister ==
    /\ Register!RegInit
    /\ [][UNCHANGED <<slots, active>> \/ Register!RegNext]_Register!regVars
==============================================================================
