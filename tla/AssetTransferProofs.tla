------------------------- MODULE AssetTransferProofs -------------------------
(***************************************************************************)
(* What the persistent store and the transfer session above it guarantee   *)
(* for every payload length, checksum function, set of chunks, set of      *)
(* transfer ids and wear limit.                                            *)
(*                                                                         *)
(* The first part is about AssetPersistence alone.  A flash operation      *)
(* works on the slot that is not the one of the record in use, or it       *)
(* changes nothing (StepInv, TornContent).  What it leaves there, complete *)
(* or torn, is not a committed record, or it is one with the candidate's   *)
(* generation, which is one above the generation in use (CandInv,          *)
(* Unmarked).  So the record in use stays intact, no other committed       *)
(* record has its generation (SlotsInv), and the boot selection finds it   *)
(* again or finds a newer one.                                             *)
(*                                                                         *)
(* The second part is about AssetTransfer.  The session calls the store    *)
(* only when no call runs, so it is one of the store's callers and         *)
(* inherits its theorems.  While a session is open the candidate holds     *)
(* exactly the bytes that were acknowledged, and those of the running      *)
(* write: as equal bytes of the record in use, or as programmed halfwords, *)
(* a waiting odd byte and the bytes still to program (Holds).  So a commit *)
(* that succeeds, or finds nothing changed, leaves these bytes in use;     *)
(* they stay in use until the next commit marker, and a reset can bring up *)
(* nothing else unless a marker has failed since (PromiseInv).             *)
(***************************************************************************)
EXTENDS AssetTransfer, SequenceTheorems, WellFoundedInduction, TLAPS

(***************************************************************************)
(* Part one: the persistent store                                          *)
(***************************************************************************)

\* The candidate is in a slot, and not in the slot of the record in use.
OnOther == cand.slot \in Slot /\ cand.slot # active.slot
\* A commit marker is only ever programmed after a header CRC.
Sane(c) == c.marker = "set" => c.hcrc # "erased"

\* Record a, if there is one, is a committed record of the flash content sl.
Intact(sl, a) ==
    a # NoRecord => Committed(sl[a.slot]) /\ a = RecordOf(sl, a.slot)

\* A committed record other than a has another generation; without a record in
\* use it can only be in slot A, where the first candidate goes.
OthersDiffer(sl, a) ==
    \A s \in Slot : Committed(sl[s]) /\ s # a.slot =>
        sl[s].meta.gen # a.gen /\ (a = NoRecord => s = "A")

\* The flash content.
SlotsInv ==
    /\ \A s \in Slot : Sane(slots[s])
    /\ Intact(slots, active)
    /\ OthersDiffer(slots, active)

\* The candidate: which calls it can be in, and where it goes.
CandInv ==
    /\ step # "none" => cand.active /\ ~cand.compare
    /\ cand.active /\ cand.compare => active # NoRecord
    /\ cand.slot \in Slot /\ cand.slot = active.slot =>
           cand.compare \/ cand.accepted = PayloadLen
    /\ OnOther => /\ cand.slot = InactiveSlot
                  /\ cand.gen = active.gen + 1
                  /\ cand.gen <= GenMax

\* What each flash operation can rely on when it is next.
StepInv ==
    /\ step \in {"erase", "metadata", "marker"} => OnOther
    /\ step = "payload" => cand.slot = NoSlot \/ OnOther
    /\ step \in {"hcrc", "marker"} => cand.accepted = PayloadLen
    /\ step = "marker" => slots[cand.slot].hcrc = "valid"

\* A candidate that is being filled has no commit marker, and once its metadata
\* is programmed that metadata carries its generation.
Unmarked ==
    cand.active /\ ~cand.compare /\ OnOther =>
        /\ step \in {"metadata", "payload"} \/ (step = "none" /\ cand.accepted < PayloadLen)
              => slots[cand.slot].marker # "set"
        /\ step \notin {"erase", "metadata"} => slots[cand.slot].meta.gen = cand.gen

\* The bytes at hand fit in the payload.
LengthInv ==
    /\ Len(cand.pend) <= cand.accepted
    /\ step \in {"erase", "metadata", "payload"} =>
           cand.accepted + Len(todo) <= PayloadLen
    /\ step \in {"erase", "metadata"} => cand.accepted = 0

\* The inductive invariant.
Inv == TypeOK /\ SlotsInv /\ CandInv /\ StepInv /\ Unmarked /\ LengthInv

-----------------------------------------------------------------------------

\* Every non-empty set of naturals has a least element.
LEMMA LeastNatural ==
    ASSUME NEW S \in SUBSET Nat, S # {}
    PROVE  \E x \in S : \A y \in S : x <= y
<1>1. PICK x \in S : \A y \in S : <<y, x>> \notin OpToRel(<, Nat)
    BY WFMin, NatLessThanWellFounded, Zenon
<1>2. \A y \in S : ~ (y < x)
    BY <1>1 DEF OpToRel
<1> QED
    BY <1>2

\* What asset_validate_record() has established of a committed slot.
LEMMA CommittedFacts ==
    ASSUME NEW c, Committed(c)
    PROVE  /\ c.meta \in Meta
           /\ c.hcrc = "valid"
           /\ c.marker = "set"
           /\ c.payload \in Payload
           /\ c.payload \in ValidPayload
    BY DEF Committed, Validate

\* The fields of an existing active_record.
LEMMA ActiveFacts ==
    ASSUME TypeOK, active # NoRecord
    PROVE  /\ active \in Record
           /\ active.slot \in Slot
           /\ active.gen \in 1..GenMax
    BY DEF TypeOK, Record

\* The fields of an absent active_record.
LEMMA NoRecordFacts ==
    /\ NoRecord.slot = NoSlot
    /\ NoRecord.gen = 0
    /\ NoSlot \notin Slot
    BY DEF NoRecord, NoSlot, Slot

\* The fields of active_record in either case.
LEMMA ActiveType ==
    ASSUME TypeOK
    PROVE  /\ active.gen \in 0..GenMax
           /\ active.slot \in Slot \cup {NoSlot}
           /\ active.slot = NoSlot <=> active = NoRecord
    BY ActiveFacts, NoRecordFacts, AssetAssumption DEF TypeOK

\* asset_start_changed() never picks the slot of the record in use.
LEMMA InactiveSlotIsOther ==
    ASSUME TypeOK
    PROVE  InactiveSlot \in Slot /\ InactiveSlot # active.slot
    BY NoRecordFacts DEF InactiveSlot, Slot

\* The record that asset_select_boot_record() or a commit reads from a slot.
LEMMA RecordOfType ==
    ASSUME NEW sl, NEW s \in Slot, Committed(sl[s])
    PROVE  /\ RecordOf(sl, s) \in Record
           /\ RecordOf(sl, s) # NoRecord
           /\ RecordOf(sl, s).slot = s
           /\ RecordOf(sl, s).gen = sl[s].meta.gen
           /\ sl[s].meta.gen \in 1..GenMax
<1>1. sl[s].meta \in Meta
    BY CommittedFacts
<1>2. /\ RecordOf(sl, s).slot = s
      /\ RecordOf(sl, s).gen = sl[s].meta.gen
      /\ RecordOf(sl, s) \in Record
      /\ sl[s].meta.gen \in 1..GenMax
    BY <1>1 DEF RecordOf, Record, Meta
<1> QED
    BY <1>2, NoRecordFacts

\* A committed slot whose generation no other has can be the record in use.
LEMMA SelectedRecord ==
    ASSUME NEW sl, NEW s \in Slot, Committed(sl[s]),
           \A o \in Slot \ {s} : Committed(sl[o]) => sl[o].meta.gen # sl[s].meta.gen
    PROVE  /\ Intact(sl, RecordOf(sl, s))
           /\ OthersDiffer(sl, RecordOf(sl, s))
<1> DEFINE r == RecordOf(sl, s)
<1>1. r # NoRecord /\ r.slot = s /\ r.gen = sl[s].meta.gen /\ r = RecordOf(sl, s)
    BY RecordOfType
<1> HIDE DEF r
<1>2. Intact(sl, r)
    BY <1>1 DEF Intact
<1>3. OthersDiffer(sl, r)
    BY <1>1 DEF OthersDiffer
<1> QED
    BY <1>1, <1>2, <1>3

\* asset_select_boot_record() finds record a again, or one of a higher generation.
LEMMA BootRecordAdvances ==
    ASSUME NEW sl, NEW a \in Record \cup {NoRecord},
           Intact(sl, a), OthersDiffer(sl, a)
    PROVE  /\ BootRecord(sl) \in Record \cup {NoRecord}
           /\ BootRecord(sl) = a \/ BootRecord(sl).gen > a.gen
           /\ Intact(sl, BootRecord(sl))
           /\ OthersDiffer(sl, BootRecord(sl))
<1> DEFINE va == Committed(sl["A"])
           vb == Committed(sl["B"])
           ga == sl["A"].meta.gen
           gb == sl["B"].meta.gen
           b == BootRecord(sl)
<1>1. va => /\ RecordOf(sl, "A") \in Record /\ RecordOf(sl, "A") # NoRecord
            /\ RecordOf(sl, "A").slot = "A" /\ RecordOf(sl, "A").gen = ga
            /\ ga \in 1..GenMax
    BY RecordOfType DEF Slot
<1>2. vb => /\ RecordOf(sl, "B") \in Record /\ RecordOf(sl, "B") # NoRecord
            /\ RecordOf(sl, "B").slot = "B" /\ RecordOf(sl, "B").gen = gb
            /\ gb \in 1..GenMax
    BY RecordOfType DEF Slot
<1>3. GenMax \in Nat
    BY AssetAssumption
<1>4. CASE a = NoRecord
    <2>1. ~vb
        BY <1>4, NoRecordFacts DEF OthersDiffer, Slot
    <2>2. b = IF va THEN RecordOf(sl, "A") ELSE NoRecord
        BY <2>1 DEF BootRecord
    <2> HIDE DEF b
    <2> QED
        <3>1. CASE va
            <4>1. b = RecordOf(sl, "A")
                BY <2>2, <3>1
            <4>2. Intact(sl, b) /\ OthersDiffer(sl, b)
                BY <2>1, <3>1, <4>1, SelectedRecord DEF Slot
            <4>3. b \in Record /\ b.gen > a.gen
                BY <1>1, <1>3, <1>4, <3>1, <4>1, NoRecordFacts
            <4> QED
                BY <4>2, <4>3 DEF b
        <3>2. CASE ~va
            <4>1. b = a
                BY <1>4, <2>2, <3>2
            <4> QED
                BY <1>4, <4>1 DEF b
        <3> QED
            BY <3>1, <3>2
<1>5. CASE a # NoRecord /\ a.slot = "A"
    <2>1. va /\ a = RecordOf(sl, "A")
        BY <1>5 DEF Intact
    <2>2. vb => gb # ga
        BY <1>1, <1>5, <2>1 DEF OthersDiffer, Slot
    <2>3. b = IF vb /\ gb > ga THEN RecordOf(sl, "B") ELSE RecordOf(sl, "A")
        BY <1>1, <1>2, <1>3, <2>1, <2>2 DEF BootRecord
    <2> HIDE DEF b
    <2> QED
        <3>1. CASE vb /\ gb > ga
            <4>1. b = RecordOf(sl, "B")
                BY <2>3, <3>1
            <4>2. Intact(sl, b) /\ OthersDiffer(sl, b)
                BY <2>2, <3>1, <4>1, SelectedRecord DEF Slot
            <4>3. b \in Record /\ b.gen > a.gen
                BY <1>1, <1>2, <2>1, <3>1, <4>1
            <4> QED
                BY <4>2, <4>3 DEF b
        <3>2. CASE ~(vb /\ gb > ga)
            <4>1. b = a
                BY <2>1, <2>3, <3>2
            <4> QED
                BY <4>1 DEF b
        <3> QED
            BY <3>1, <3>2
<1>6. CASE a # NoRecord /\ a.slot = "B"
    <2>1. vb /\ a = RecordOf(sl, "B")
        BY <1>6 DEF Intact
    <2>2. va => gb # ga
        BY <1>2, <1>6, <2>1 DEF OthersDiffer, Slot
    <2>3. b = IF va /\ ga > gb THEN RecordOf(sl, "A") ELSE RecordOf(sl, "B")
        BY <1>1, <1>2, <1>3, <2>1, <2>2 DEF BootRecord
    <2> HIDE DEF b
    <2> QED
        <3>1. CASE va /\ ga > gb
            <4>1. b = RecordOf(sl, "A")
                BY <2>3, <3>1
            <4>2. Intact(sl, b) /\ OthersDiffer(sl, b)
                BY <2>2, <3>1, <4>1, SelectedRecord DEF Slot
            <4>3. b \in Record /\ b.gen > a.gen
                BY <1>1, <1>2, <2>1, <3>1, <4>1
            <4> QED
                BY <4>2, <4>3 DEF b
        <3>2. CASE ~(va /\ ga > gb)
            <4>1. b = a
                BY <2>1, <2>3, <3>2
            <4> QED
                BY <4>1 DEF b
        <3> QED
            BY <3>1, <3>2
<1> QED
    BY <1>4, <1>5, <1>6 DEF Record, Slot

\* Writing the other slot keeps the flash invariant if the content that results is
\* uncommitted, unchanged, or carries the candidate's generation.
LEMMA PutOther ==
    ASSUME TypeOK, SlotsInv, CandInv, OnOther, NEW c, Put(c), Sane(c),
           Committed(c) => c.meta.gen = cand.gen \/ c = slots[cand.slot]
    PROVE  /\ \A s \in Slot : Sane(slots'[s])
           /\ Intact(slots', active)
           /\ OthersDiffer(slots', active)
<1>1. /\ slots'[cand.slot] = c
      /\ \A s \in Slot \ {cand.slot} : slots'[s] = slots[s]
    BY DEF Put, TypeOK, OnOther
<1>2. cand.gen = active.gen + 1 /\ (active = NoRecord => cand.slot = "A")
    BY DEF CandInv, InactiveSlot
<1>3. active.gen \in Nat
    BY ActiveType, AssetAssumption
<1>4. \A s \in Slot : Sane(slots'[s])
    BY <1>1 DEF SlotsInv
<1>5. Intact(slots', active)
    BY <1>1, ActiveType DEF SlotsInv, Intact, RecordOf, OnOther
<1>6. OthersDiffer(slots', active)
    BY <1>1, <1>2, <1>3 DEF SlotsInv, OthersDiffer, OnOther
<1> QED
    BY <1>4, <1>5, <1>6

-----------------------------------------------------------------------------

\* The type of candidate_state.
CandidateType ==
    [active : BOOLEAN, slot : Slot \cup {NoSlot}, gen : Nat, crc : CrcValue,
     accepted : 0..PayloadLen, pend : Seq(Byte), compare : BOOLEAN]

\* Erased and half-erased pages are not records.
LEMMA SlotContents ==
    /\ ErasedSlot \in Content /\ Sane(ErasedSlot) /\ ~Committed(ErasedSlot)
    /\ ErasedSlot.marker = "erased"
    /\ JunkSlot \in Content /\ Sane(JunkSlot) /\ ~Committed(JunkSlot)
<1>1. ErasedSlot \in Content /\ JunkSlot \in Content
    BY AssetAssumption DEF ErasedSlot, JunkSlot, Content
<1>2. ErasedSlot.marker = "erased" /\ JunkSlot.marker = "junk"
    BY DEF ErasedSlot, JunkSlot
<1> QED
    BY <1>1, <1>2, CommittedFacts DEF Sane

\* The payload loop stays inside the payload.
LEMMA StreamFacts ==
    ASSUME TypeOK, LengthInv, step = "payload"
    PROVE  /\ Stream \in Seq(Byte)
           /\ Offset \in Nat
           /\ Offset + Len(Stream) <= PayloadLen
           /\ Len(Stream) >= 2 => Stream[1] \in Byte /\ Stream[2] \in Byte
<1>1. cand.pend \in Seq(Byte) /\ todo \in Seq(Byte) /\ cand.accepted \in Nat
    BY AssetAssumption DEF TypeOK
<1>2. /\ Stream \in Seq(Byte)
      /\ Len(Stream) = Len(cand.pend) + Len(todo)
    BY <1>1 DEF Stream
<1>3. Len(cand.pend) \in Nat /\ Len(todo) \in Nat
    BY <1>1
<1>4. Offset \in Nat /\ Offset + Len(Stream) <= PayloadLen
    BY <1>1, <1>2, <1>3, AssetAssumption DEF Offset, LengthInv
<1> QED
    BY <1>2, <1>4

\* A payload halfword, complete or torn, goes to the other slot and leaves it
\* uncommitted.
LEMMA HalfContent ==
    ASSUME Inv, step = "payload", Len(Stream) >= 2, HalfWritable, NEW c,
           \/ c = WithHalf(slots[cand.slot], Offset, Stream[1], Stream[2])
           \/ c = WithHalf(slots[cand.slot], Offset, Junk, Junk)
    PROVE  /\ OnOther
           /\ c \in Content
           /\ c.meta = slots[cand.slot].meta
           /\ c.hcrc = slots[cand.slot].hcrc
           /\ c.marker = slots[cand.slot].marker
           /\ c.marker # "set"
           /\ Sane(c) /\ ~Committed(c)
<1>1. OnOther
    BY NoRecordFacts DEF Inv, StepInv, HalfWritable
<1>2. slots[cand.slot] \in Content
    BY <1>1 DEF Inv, TypeOK, OnOther
<1>3. slots[cand.slot].marker # "set"
    BY <1>1 DEF Inv, Unmarked, CandInv
<1>4. /\ Offset \in Nat /\ Offset + 2 <= PayloadLen
      /\ Stream[1] \in Byte \cup {Junk} /\ Stream[2] \in Byte \cup {Junk}
      /\ Junk \in Byte \cup {Junk}
    <2>1. Len(Stream) \in Nat /\ PayloadLen \in Nat
        BY StreamFacts, AssetAssumption DEF Inv
    <2> QED
        BY <2>1, StreamFacts DEF Inv
<1>5. CASE c = WithHalf(slots[cand.slot], Offset, Stream[1], Stream[2])
    <2>1. /\ c \in Content
          /\ c.meta = slots[cand.slot].meta
          /\ c.hcrc = slots[cand.slot].hcrc
          /\ c.marker = slots[cand.slot].marker
        BY <1>2, <1>4, <1>5, AssetAssumption DEF WithHalf, Content
    <2> QED
        BY <1>1, <1>3, <2>1, CommittedFacts DEF Sane
<1>6. CASE c = WithHalf(slots[cand.slot], Offset, Junk, Junk)
    <2>1. /\ c \in Content
          /\ c.meta = slots[cand.slot].meta
          /\ c.hcrc = slots[cand.slot].hcrc
          /\ c.marker = slots[cand.slot].marker
        BY <1>2, <1>4, <1>6, AssetAssumption DEF WithHalf, Content
    <2> QED
        BY <1>1, <1>3, <2>1, CommittedFacts DEF Sane
<1> QED
    BY <1>5, <1>6

\* Whatever an operation in progress leaves in its slot, the record in use is not
\* touched, and a record that gets committed by it carries the candidate's generation.
LEMMA TornContent ==
    ASSUME Inv, step # "none", cand.slot \in Slot, NEW c \in TornStep
    PROVE  /\ c \in Content
           /\ Sane(c)
           /\ c = slots[cand.slot] \/ OnOther
           /\ Committed(c) => c.meta.gen = cand.gen \/ c = slots[cand.slot]
<1> DEFINE s == slots[cand.slot]
<1>0. s \in Content /\ Sane(s)
    BY DEF Inv, TypeOK, SlotsInv
<1>1. SUFFICES ASSUME c # s
               PROVE  /\ c \in Content
                      /\ Sane(c)
                      /\ OnOther
                      /\ Committed(c) => c.meta.gen = cand.gen
    BY <1>0
<1>2. cand.active /\ ~cand.compare
    BY DEF Inv, CandInv
<1>3. CASE step = "erase"
    <2>1. c \in {ErasedSlot, JunkSlot}
        BY <1>1, <1>3 DEF TornStep, TornErase
    <2>2. OnOther
        BY <1>3 DEF Inv, StepInv
    <2> QED
        BY <2>1, <2>2, SlotContents
<1>4. CASE step = "metadata"
    <2> DEFINE m == [gen |-> cand.gen, crc |-> cand.crc]
    <2>1. OnOther
        BY <1>4 DEF Inv, StepInv
    <2>2. m \in Meta
        <3>1. cand.gen \in 1..GenMax
            BY <2>1, ActiveType, AssetAssumption DEF Inv, CandInv
        <3>2. cand.crc \in CrcValue
            BY DEF Inv, TypeOK
        <3> QED
            BY <3>1, <3>2 DEF Meta
    <2>3. s.marker # "set"
        BY <1>2, <1>4, <2>1 DEF Inv, Unmarked
    <2>4. c = [s EXCEPT !.blank = FALSE] \/ c = [s EXCEPT !.blank = FALSE, !.meta = m]
        BY <1>1, <1>4 DEF TornStep, TornMeta
    <2>5. c \in Content /\ c.marker = s.marker
        <3> HIDE DEF s, m
        <3> QED
            BY <1>0, <2>2, <2>4 DEF Content
    <2> QED
        BY <2>1, <2>3, <2>5, CommittedFacts DEF Sane
<1>5. CASE step = "payload"
    <2>1. /\ Len(Stream) >= 2 /\ HalfWritable
          /\ \/ c = WithHalf(s, Offset, Stream[1], Stream[2])
             \/ c = WithHalf(s, Offset, Junk, Junk)
        BY <1>1, <1>5 DEF TornStep, TornHalf
    <2> QED
        BY <1>5, <2>1, HalfContent
<1>6. CASE step = "hcrc"
    <2>1. s.hcrc = "erased" /\ c \in {[s EXCEPT !.hcrc = "valid"], [s EXCEPT !.hcrc = "junk"]}
        BY <1>1, <1>6 DEF TornStep, TornCommit
    <2>2. c \in Content /\ c.marker = s.marker
        <3> HIDE DEF s
        <3> QED
            BY <1>0, <2>1 DEF Content
    <2>3. s.marker # "set"
        BY <1>0, <2>1 DEF Sane
    <2>4. OnOther
        <3>1. ~Committed(s)
            BY <2>3, CommittedFacts
        <3> QED
            BY <3>1, ActiveType, NoRecordFacts DEF Inv, SlotsInv, Intact, OnOther
    <2> QED
        BY <2>2, <2>3, <2>4, CommittedFacts DEF Sane
<1>7. CASE step = "marker"
    <2>1. c \in {[s EXCEPT !.marker = "set"], [s EXCEPT !.marker = "junk"]}
        BY <1>1, <1>7 DEF TornStep, TornCommit
    <2>2. c \in Content /\ c.hcrc = s.hcrc /\ c.meta = s.meta
        <3> HIDE DEF s
        <3> QED
            BY <1>0, <2>1 DEF Content
    <2>3. OnOther /\ s.hcrc = "valid"
        BY <1>7 DEF Inv, StepInv
    <2>4. s.meta.gen = cand.gen
        BY <1>2, <1>7, <2>3 DEF Inv, Unmarked
    <2> QED
        BY <2>2, <2>3, <2>4 DEF Sane
<1> QED
    BY <1>3, <1>4, <1>5, <1>6, <1>7 DEF Inv, TypeOK

\* So the flash invariant survives every operation, complete or torn.
LEMMA TornPut ==
    ASSUME Inv, step # "none", cand.slot \in Slot, NEW c \in TornStep, Put(c)
    PROVE  /\ slots' \in [Slot -> Content]
           /\ slots'[cand.slot] = c
           /\ \A s \in Slot : Sane(slots'[s])
           /\ Intact(slots', active)
           /\ OthersDiffer(slots', active)
<1>1. slots' \in [Slot -> Content] /\ slots'[cand.slot] = c
    BY TornContent DEF Put, Inv, TypeOK
<1>2. CASE c = slots[cand.slot]
    <2>1. slots' = slots
        BY <1>2 DEF Put, Inv, TypeOK
    <2> QED
        BY <1>1, <2>1 DEF Inv, SlotsInv
<1>3. CASE c # slots[cand.slot]
    <2>1. OnOther /\ Sane(c) /\ (Committed(c) => c.meta.gen = cand.gen)
        BY <1>3, TornContent
    <2> QED
        BY <1>1, <2>1, PutOther DEF Inv
<1> QED
    BY <1>2, <1>3

\* What the end of a call leaves in the call's own state.
LEMMA ReturnFacts ==
    ASSUME NEW r \in Result, Return(r)
    PROVE  /\ step' = "none" /\ todo' \in Seq(Byte) /\ copy' \in Nat
           /\ ret' \in Result
    BY DEF Return

\* asset_candidate_reset() clears only the active flag.
LEMMA ResetFacts ==
    ASSUME cand \in CandidateType, CandidateReset
    PROVE  /\ cand' \in CandidateType
           /\ ~cand'.active
           /\ cand'.slot = cand.slot /\ cand'.gen = cand.gen
           /\ cand'.accepted = cand.accepted /\ cand'.pend = cand.pend
           /\ cand'.compare = cand.compare
    BY DEF CandidateType, CandidateReset

\* A call that ends with the candidate dropped keeps the invariant.
LEMMA CandidateReturns ==
    ASSUME Inv, NEW r \in Result, Return(r),
           slots' \in [Slot -> Content], \A s \in Slot : Sane(slots'[s]),
           Intact(slots', active), OthersDiffer(slots', active),
           active' = active, CandidateReset
    PROVE  Inv'
<1>0. cand \in CandidateType
    BY DEF Inv, TypeOK, CandidateType
<1>1. /\ cand' \in CandidateType /\ ~cand'.active
      /\ cand'.slot = cand.slot /\ cand'.gen = cand.gen
      /\ cand'.accepted = cand.accepted /\ cand'.pend = cand.pend
      /\ cand'.compare = cand.compare
    BY <1>0, ResetFacts
<1>2. step' = "none" /\ todo' \in Seq(Byte) /\ copy' \in Nat /\ ret' \in Result
    BY ReturnFacts
<1>3. active \in Record \cup {NoRecord}
    BY DEF Inv, TypeOK
<1>4. TypeOK'
    BY <1>1, <1>2, <1>3, Zenon DEF TypeOK, CandidateType
<1>5. SlotsInv'
    BY DEF SlotsInv
<1>6. CandInv'
    BY <1>1, <1>2 DEF Inv, CandInv, OnOther, InactiveSlot
<1>7. StepInv' /\ Unmarked'
    BY <1>1, <1>2 DEF StepInv, Unmarked
<1>8. LengthInv'
    BY <1>1, <1>2 DEF Inv, LengthInv
<1> QED
    BY <1>4, <1>5, <1>6, <1>7, <1>8 DEF Inv

\* A call that ends with the candidate as it was keeps the invariant.
LEMMA KeptCandidateReturns ==
    ASSUME Inv, NEW r \in Result, Return(r),
           slots' \in [Slot -> Content], \A s \in Slot : Sane(slots'[s]),
           Intact(slots', active), OthersDiffer(slots', active),
           active' = active, cand' = cand,
           step \in {"none", "payload", "hcrc", "marker"},
           cand.slot \in Slot =>
               /\ slots'[cand.slot].meta = slots[cand.slot].meta
               /\ \/ cand.accepted = PayloadLen
                  \/ slots'[cand.slot].marker = slots[cand.slot].marker
    PROVE  Inv'
<1>2. step' = "none" /\ todo' \in Seq(Byte) /\ copy' \in Nat /\ ret' \in Result
    BY ReturnFacts
<1>3. active \in Record \cup {NoRecord} /\ cand \in CandidateType
    BY DEF Inv, TypeOK, CandidateType
<1>4. TypeOK'
    BY <1>2, <1>3, Zenon DEF TypeOK, CandidateType
<1>5. SlotsInv'
    BY DEF SlotsInv
<1>6. CandInv'
    BY <1>2 DEF Inv, CandInv, OnOther, InactiveSlot
<1>7. StepInv'
    BY <1>2 DEF StepInv
<1>8. Unmarked'
    <2>1. SUFFICES ASSUME cand.active, ~cand.compare, OnOther
                   PROVE  /\ cand.accepted < PayloadLen => slots'[cand.slot].marker # "set"
                          /\ slots'[cand.slot].meta.gen = cand.gen
        BY <1>2 DEF Unmarked, OnOther
    <2>2. slots[cand.slot].meta.gen = cand.gen
        BY <2>1 DEF Inv, Unmarked
    <2>3. ASSUME cand.accepted < PayloadLen
          PROVE  slots[cand.slot].marker # "set" /\ cand.accepted # PayloadLen
        <3>1. cand.accepted # PayloadLen
            BY <2>3, AssetAssumption DEF Inv, TypeOK
        <3> QED
            BY <2>1, <2>3, <3>1 DEF Inv, Unmarked, StepInv
    <2> QED
        BY <2>1, <2>2, <2>3 DEF OnOther
<1>9. LengthInv'
    BY <1>2 DEF Inv, LengthInv
<1> QED
    BY <1>4, <1>5, <1>6, <1>7, <1>8, <1>9 DEF Inv

-----------------------------------------------------------------------------

\* asset_start_changed(), from begin or from the fallback of a write.
LEMMA StartChangedInv ==
    ASSUME Inv, step = "none", NEW c \in CandidateType, NEW bytes \in Seq(Byte),
           NEW copied \in Nat, Len(bytes) <= PayloadLen,
           c.active, c.slot = cand.slot, c.gen = cand.gen,
           c.accepted = cand.accepted, c.pend = cand.pend, c.compare = cand.compare,
           StartChanged(c, bytes, copied), UNCHANGED <<slots, active>>
    PROVE  Inv'
<1>0. /\ slots \in [Slot -> Content] /\ active \in Record \cup {NoRecord}
      /\ ret \in Result /\ cand.accepted \in Nat /\ Len(cand.pend) <= cand.accepted
    BY AssetAssumption DEF Inv, TypeOK, LengthInv
<1>1. SlotsInv'
    BY DEF Inv, SlotsInv, Intact, OthersDiffer
<1>2. CASE active # NoRecord /\ active.gen >= GenMax
    <2>1. cand' = c /\ Return("WEAR_BUDGET_EXHAUSTED")
        BY <1>2 DEF StartChanged
    <2>2. step' = "none" /\ todo' \in Seq(Byte) /\ copy' \in Nat /\ ret' \in Result
        BY <2>1, ReturnFacts DEF Result
    <2>3. ~OnOther
        BY <1>2, ActiveType, AssetAssumption DEF Inv, CandInv
    <2>4. TypeOK'
        BY <1>0, <2>1, <2>2, Zenon DEF TypeOK, CandidateType
    <2>5. ~OnOther'
        BY <2>1, <2>3 DEF OnOther
    <2>6. CandInv'
        BY <1>2, <2>1, <2>2, <2>5 DEF Inv, CandInv
    <2>7. StepInv' /\ Unmarked'
        BY <2>2, <2>5 DEF StepInv, Unmarked
    <2>8. LengthInv'
        BY <1>0, <2>1, <2>2 DEF LengthInv
    <2> QED
        BY <1>1, <2>4, <2>6, <2>7, <2>8 DEF Inv
<1>3. CASE ~(active # NoRecord /\ active.gen >= GenMax)
    <2>1. /\ cand' = [c EXCEPT !.slot = InactiveSlot, !.gen = active.gen + 1,
                               !.accepted = 0, !.pend = <<>>, !.compare = FALSE]
          /\ step' = "erase" /\ todo' = bytes /\ copy' = copied /\ ret' = ret
        BY <1>3 DEF StartChanged
    <2>2. /\ cand'.active = c.active /\ cand'.slot = InactiveSlot
          /\ cand'.gen = active.gen + 1 /\ cand'.accepted = 0 /\ cand'.pend = <<>>
          /\ ~cand'.compare
        BY <2>1 DEF CandidateType
    <2>3. InactiveSlot \in Slot /\ InactiveSlot # active.slot
        BY InactiveSlotIsOther DEF Inv
    <2>4. active.gen \in Nat /\ active.gen + 1 \in Nat /\ active.gen + 1 <= GenMax
        BY <1>3, ActiveType, NoRecordFacts, AssetAssumption DEF Inv
    <2>5. cand' \in CandidateType
        <3>1. <<>> \in Seq(Byte) /\ 0 \in 0..PayloadLen
            BY AssetAssumption
        <3> QED
            BY <2>1, <2>3, <2>4, <3>1, Zenon DEF CandidateType
    <2>6. TypeOK'
        BY <1>0, <2>1, <2>5, Zenon DEF TypeOK, CandidateType
    <2>7. OnOther'
        BY <2>2, <2>3 DEF OnOther
    <2>8. CandInv'
        <3>1. InactiveSlot' = InactiveSlot
            BY DEF InactiveSlot
        <3> QED
            BY <2>1, <2>2, <2>3, <2>4, <2>7, <3>1 DEF CandInv
    <2>9. StepInv' /\ Unmarked'
        BY <2>1, <2>7 DEF StepInv, Unmarked
    <2>10. LengthInv'
        <3>1. Len(bytes) \in Nat /\ Len(<<>>) = 0
            OBVIOUS
        <3> QED
            BY <2>1, <2>2, <3>1 DEF LengthInv
    <2> QED
        BY <1>1, <2>6, <2>8, <2>9, <2>10 DEF Inv
<1> QED
    BY <1>2, <1>3

\* asset_persistence_begin_candidate() keeps the invariant.
LEMMA BeginCandidateInv ==
    ASSUME Inv, NEW v \in CrcValue, BeginCandidate(v)
    PROVE  Inv'
<1> DEFINE c == [cand EXCEPT !.active = TRUE, !.crc = v]
<1>0. /\ step = "none" /\ slots' = slots /\ active' = active
      /\ cand \in CandidateType /\ slots \in [Slot -> Content]
      /\ active \in Record \cup {NoRecord}
    BY DEF BeginCandidate, Idle, Inv, TypeOK, CandidateType
<1>1. /\ c \in CandidateType /\ c.active /\ c.slot = cand.slot /\ c.gen = cand.gen
      /\ c.accepted = cand.accepted /\ c.pend = cand.pend /\ c.compare = cand.compare
    BY <1>0 DEF CandidateType
<1>2. CASE cand.active
    <2>1. Return("BAD_STATE") /\ cand' = cand /\ "BAD_STATE" \in Result
        BY <1>2 DEF BeginCandidate, Result
    <2>2. SlotsInv
        BY DEF Inv
    <2> QED
        BY <1>0, <2>1, <2>2, KeptCandidateReturns DEF SlotsInv
<1>3. CASE ~cand.active /\ active # NoRecord /\ active.crc = v
    <2>1. /\ cand' = [c EXCEPT !.accepted = 0, !.pend = <<>>, !.compare = TRUE]
          /\ Return("OK")
        BY <1>3 DEF BeginCandidate
    <2> HIDE DEF c
    <2>2. /\ cand'.slot = cand.slot /\ cand'.gen = cand.gen
          /\ cand'.accepted = 0 /\ cand'.pend = <<>> /\ cand'.compare
        BY <1>1, <2>1 DEF CandidateType
    <2>3. cand' \in CandidateType
        <3>1. <<>> \in Seq(Byte) /\ 0 \in 0..PayloadLen
            BY AssetAssumption
        <3> QED
            BY <1>1, <2>1, <3>1, Zenon DEF CandidateType
    <2>4. step' = "none" /\ todo' \in Seq(Byte) /\ copy' \in Nat /\ ret' \in Result
        BY <2>1, ReturnFacts DEF Result
    <2>5. TypeOK'
        BY <1>0, <2>3, <2>4, Zenon DEF TypeOK, CandidateType
    <2>6. SlotsInv'
        BY <1>0 DEF Inv, SlotsInv
    <2>7. CandInv'
        BY <1>0, <1>3, <2>2, <2>4 DEF Inv, CandInv, OnOther, InactiveSlot
    <2>8. StepInv' /\ Unmarked'
        BY <2>2, <2>4 DEF StepInv, Unmarked
    <2>9. LengthInv'
        BY <2>2, <2>4 DEF LengthInv
    <2> QED
        BY <2>5, <2>6, <2>7, <2>8, <2>9 DEF Inv
<1>4. CASE ~cand.active /\ ~(active # NoRecord /\ active.crc = v)
    <2>1. StartChanged(c, <<>>, 0)
        BY <1>4 DEF BeginCandidate
    <2>2. <<>> \in Seq(Byte) /\ 0 \in Nat /\ Len(<<>>) <= PayloadLen
        BY AssetAssumption
    <2> HIDE DEF c
    <2> QED
        BY <1>0, <1>1, <2>1, <2>2, StartChangedInv
<1> QED
    BY <1>2, <1>3, <1>4

\* asset_persistence_write_candidate() keeps the invariant.
LEMMA WriteCandidateInv ==
    ASSUME Inv, NEW data \in Chunk, WriteCandidate(data)
    PROVE  Inv'
<1>0. /\ step = "none" /\ slots' = slots /\ active' = active
      /\ cand \in CandidateType /\ slots \in [Slot -> Content]
      /\ active \in Record \cup {NoRecord} /\ SlotsInv
    BY DEF WriteCandidate, Idle, Inv, TypeOK, CandidateType
<1>1. /\ data \in Seq(Byte) /\ Len(data) \in Nat /\ Len(data) > 0
      /\ cand.accepted \in Nat /\ PayloadLen \in Nat
      /\ Len(cand.pend) \in Nat /\ Len(cand.pend) <= cand.accepted
    BY <1>0, AssetAssumption DEF Inv, LengthInv, CandidateType
<1>2. CASE ~cand.active \/ cand.accepted + Len(data) > PayloadLen
    <2>1. Return("BAD_STATE") /\ cand' = cand /\ "BAD_STATE" \in Result
        BY <1>2 DEF WriteCandidate, Result
    <2> QED
        BY <1>0, <2>1, KeptCandidateReturns DEF SlotsInv
<1>3. CASE cand.active /\ cand.accepted + Len(data) <= PayloadLen /\ ~cand.compare
    <2>1. /\ step' = "payload" /\ todo' = data /\ copy' = 0
          /\ cand' = cand /\ ret' = ret
        BY <1>1, <1>3 DEF WriteCandidate
    <2>2. TypeOK'
        <3>1. ret \in Result /\ 0 \in Nat
            BY DEF Inv, TypeOK
        <3> QED
            BY <1>0, <1>1, <2>1, <3>1, Zenon DEF TypeOK, CandidateType
    <2>3. SlotsInv'
        BY <1>0 DEF SlotsInv
    <2>4. CandInv'
        BY <1>0, <1>3, <2>1 DEF Inv, CandInv, OnOther, InactiveSlot
    <2>5. cand.slot = NoSlot \/ OnOther
        BY <1>0, <1>1, <1>3 DEF Inv, CandInv, CandidateType, OnOther
    <2>6. StepInv'
        BY <1>0, <2>1, <2>5 DEF StepInv, OnOther
    <2>7. Unmarked'
        BY <1>0, <1>1, <1>3, <2>1 DEF Inv, Unmarked, OnOther
    <2>8. LengthInv'
        BY <1>1, <1>3, <2>1 DEF LengthInv
    <2> QED
        BY <2>2, <2>3, <2>4, <2>6, <2>7, <2>8 DEF Inv
<1>4. CASE cand.active /\ cand.accepted + Len(data) <= PayloadLen /\ cand.compare
    <2> DEFINE n == cand.accepted
               differ == {i \in 1..Len(data) : ActivePayload[n + i] # data[i]}
               first == CHOOSE i \in differ : \A j \in differ : i <= j
               equal == n + first - 1
    <2>1. /\ differ = {} => /\ cand' = [cand EXCEPT !.accepted = n + Len(data)]
                           /\ Return("OK")
          /\ differ # {} => StartChanged(cand, SubSeq(ActivePayload, 1, n) \o data,
                                         equal - (equal % 2))
        BY <1>1, <1>4 DEF WriteCandidate
    <2>2. CASE differ = {}
        <3>1. cand' = [cand EXCEPT !.accepted = n + Len(data)] /\ Return("OK")
            BY <2>1, <2>2
        <3>2. n + Len(data) \in 0..PayloadLen /\ Len(cand.pend) <= n + Len(data)
            BY <1>1, <1>4
        <3> DEFINE m == n + Len(data)
        <3> HIDE DEF m
        <3>3. /\ cand' \in CandidateType
              /\ cand'.active = cand.active /\ cand'.slot = cand.slot
              /\ cand'.gen = cand.gen /\ cand'.accepted = m
              /\ cand'.pend = cand.pend /\ cand'.compare = cand.compare
            BY <1>0, <3>1, <3>2 DEF CandidateType, m
        <3>4. step' = "none" /\ todo' \in Seq(Byte) /\ copy' \in Nat /\ ret' \in Result
            BY <3>1, ReturnFacts DEF Result
        <3>5. TypeOK'
            BY <1>0, <3>3, <3>4, Zenon DEF TypeOK, CandidateType
        <3>6. SlotsInv'
            BY <1>0 DEF SlotsInv
        <3>7. CandInv'
            BY <1>0, <1>4, <3>3, <3>4 DEF Inv, CandInv, OnOther, InactiveSlot
        <3>8. StepInv' /\ Unmarked'
            BY <1>4, <3>3, <3>4 DEF StepInv, Unmarked
        <3>9. LengthInv'
            BY <3>2, <3>3, <3>4 DEF LengthInv, m
        <3> QED
            BY <3>5, <3>6, <3>7, <3>8, <3>9 DEF Inv
    <2>3. CASE differ # {}
        <3> DEFINE bytes == SubSeq(ActivePayload, 1, n) \o data
        <3>1. StartChanged(cand, bytes, equal - (equal % 2))
            BY <2>1, <2>3
        <3>2. ActivePayload \in Payload
            <4>1. active # NoRecord
                BY <1>4 DEF Inv, CandInv
            <4> QED
                BY <1>0, <4>1, CommittedFacts DEF SlotsInv, Intact, ActivePayload
        <3>3. ActivePayload \in Seq(Byte) /\ Len(ActivePayload) = PayloadLen
            BY <1>1, <3>2 DEF Payload
        <3>4. bytes \in Seq(Byte) /\ Len(bytes) = n + Len(data)
            BY <1>1, <1>4, <3>3
        <3>5. equal - (equal % 2) \in Nat
            <4>1. first \in differ
                <5>1. differ \in SUBSET Nat
                    OBVIOUS
                <5> HIDE DEF differ
                <5>2. \E i \in differ : \A j \in differ : i <= j
                    BY <2>3, <5>1, LeastNatural
                <5> QED
                    BY <5>2
            <4>2. first \in Nat /\ first > 0
                BY <4>1
            <4> HIDE DEF first
            <4>3. equal \in Nat
                BY <1>1, <4>2
            <4> HIDE DEF equal
            <4> QED
                BY <4>3
        <3> HIDE DEF bytes, equal
        <3> DEFINE copied == equal - (equal % 2)
        <3> HIDE DEF copied
        <3>6. StartChanged(cand, bytes, copied) /\ copied \in Nat
            BY <3>1, <3>5 DEF copied
        <3>7. Len(bytes) <= PayloadLen
            BY <1>4, <3>4
        <3> QED
            BY <1>0, <1>4, <3>4, <3>6, <3>7, StartChangedInv
    <2> QED
        BY <2>2, <2>3
<1> QED
    BY <1>1, <1>2, <1>3, <1>4

\* The checks of asset_persistence_commit_candidate() keep the invariant.
LEMMA CommitCandidateInv ==
    ASSUME Inv, CommitCandidate
    PROVE  Inv'
<1>0. /\ step = "none" /\ slots' = slots /\ active' = active
      /\ slots \in [Slot -> Content] /\ SlotsInv
    BY DEF CommitCandidate, Idle, Inv, TypeOK
<1>1. CASE ~cand.active \/ cand.accepted # PayloadLen \/ (~cand.compare /\ cand.pend # <<>>)
    <2>1. Return("BAD_STATE") /\ cand' = cand /\ "BAD_STATE" \in Result
        BY <1>1 DEF CommitCandidate, Result
    <2> QED
        BY <1>0, <2>1, KeptCandidateReturns DEF SlotsInv
<1>2. CASE cand.active /\ cand.accepted = PayloadLen /\ cand.compare
    <2>1. Return("UNCHANGED") /\ CandidateReset /\ "UNCHANGED" \in Result
        BY <1>2 DEF CommitCandidate, Result
    <2> QED
        BY <1>0, <2>1, CandidateReturns DEF SlotsInv
<1>3. CASE /\ cand.active /\ cand.accepted = PayloadLen /\ ~cand.compare /\ cand.pend = <<>>
    <2>1. step' = "hcrc" /\ cand' = cand /\ todo' = todo /\ copy' = copy /\ ret' = ret
        BY <1>3 DEF CommitCandidate
    <2>2. TypeOK'
        BY <1>0, <2>1 DEF Inv, TypeOK
    <2>3. SlotsInv' /\ CandInv' /\ StepInv'
        BY <1>0, <1>3, <2>1 DEF Inv, SlotsInv, CandInv, StepInv, OnOther, InactiveSlot
    <2>4. Unmarked'
        BY <1>0, <1>3, <2>1 DEF Inv, Unmarked, OnOther
    <2>5. LengthInv'
        BY <1>3, <2>1 DEF Inv, LengthInv
    <2> QED
        BY <2>2, <2>3, <2>4, <2>5 DEF Inv
<1> QED
    BY <1>1, <1>2, <1>3

\* asset_persistence_abort_candidate() keeps the invariant.
LEMMA AbortCandidateInv ==
    ASSUME Inv, AbortCandidate
    PROVE  Inv'
<1>0. /\ step = "none" /\ slots' = slots /\ active' = active
      /\ step' = step /\ todo' = todo /\ copy' = copy /\ ret' = ret
      /\ cand \in CandidateType /\ CandidateReset
    BY DEF AbortCandidate, Idle, Inv, TypeOK, CandidateType, callVars
<1>1. /\ cand' \in CandidateType /\ ~cand'.active
      /\ cand'.slot = cand.slot /\ cand'.gen = cand.gen
      /\ cand'.accepted = cand.accepted /\ cand'.pend = cand.pend
      /\ cand'.compare = cand.compare
    BY <1>0, ResetFacts
<1>2. TypeOK'
    BY <1>0, <1>1, Zenon DEF Inv, TypeOK, CandidateType
<1>3. SlotsInv' /\ CandInv' /\ StepInv'
    BY <1>0, <1>1 DEF Inv, SlotsInv, CandInv, StepInv, OnOther, InactiveSlot
<1>4. Unmarked' /\ LengthInv'
    BY <1>0, <1>1 DEF Inv, Unmarked, LengthInv
<1> QED
    BY <1>2, <1>3, <1>4 DEF Inv

\* The page erase keeps the invariant.
LEMMA ErasePageInv ==
    ASSUME Inv, ErasePage
    PROVE  Inv'
<1>0. /\ step = "erase" /\ step' = "metadata" /\ active' = active /\ cand' = cand
      /\ todo' = todo /\ copy' = copy /\ ret' = ret
      /\ Put(ErasedSlot) /\ ErasedSlot \in TornStep /\ OnOther
    BY DEF ErasePage, TornStep, TornErase, Inv, StepInv
<1>1. /\ slots' \in [Slot -> Content] /\ slots'[cand.slot] = ErasedSlot
      /\ \A s \in Slot : Sane(slots'[s])
      /\ Intact(slots', active) /\ OthersDiffer(slots', active)
    BY <1>0, TornPut DEF OnOther
<1>2. TypeOK'
    BY <1>0, <1>1 DEF Inv, TypeOK
<1>3. SlotsInv' /\ CandInv' /\ StepInv'
    BY <1>0, <1>1 DEF Inv, SlotsInv, CandInv, StepInv, OnOther, InactiveSlot
<1>4. Unmarked'
    BY <1>0, <1>1, SlotContents DEF Unmarked
<1>5. LengthInv'
    BY <1>0 DEF Inv, LengthInv
<1> QED
    BY <1>2, <1>3, <1>4, <1>5 DEF Inv

\* A failed page erase keeps the invariant.
LEMMA ErasePageFailsInv ==
    ASSUME Inv, ErasePageFails
    PROVE  Inv'
<1>1. PICK c \in TornErase : Put(c)
    BY DEF ErasePageFails
<1>2. /\ step = "erase" /\ c \in TornStep /\ cand.slot \in Slot /\ active' = active
      /\ CandidateReset /\ Return("STORAGE_ERROR") /\ "STORAGE_ERROR" \in Result
    BY <1>1 DEF ErasePageFails, TornStep, Inv, StepInv, OnOther, Result
<1> QED
    BY <1>1, <1>2, TornPut, CandidateReturns

\* A failed asset_program_metadata() keeps the invariant.
LEMMA ProgramMetadataFailsInv ==
    ASSUME Inv, ProgramMetadataFails
    PROVE  Inv'
<1>1. PICK c \in TornMeta : Put(c)
    BY DEF ProgramMetadataFails
<1>2. /\ step = "metadata" /\ c \in TornStep /\ cand.slot \in Slot /\ active' = active
      /\ CandidateReset /\ Return("STORAGE_ERROR") /\ "STORAGE_ERROR" \in Result
    BY <1>1 DEF ProgramMetadataFails, TornStep, Inv, StepInv, OnOther, Result
<1> QED
    BY <1>1, <1>2, TornPut, CandidateReturns

\* asset_program_metadata() keeps the invariant.
LEMMA ProgramMetadataInv ==
    ASSUME Inv, ProgramMetadata
    PROVE  Inv'
<1> DEFINE s == slots[cand.slot]
           m == [gen |-> cand.gen, crc |-> cand.crc]
           c == [s EXCEPT !.meta = m, !.blank = FALSE]
<1>0. /\ step = "metadata" /\ active' = active /\ cand' = cand /\ Put(c) /\ OnOther
      /\ cand.slot \in Slot /\ s \in Content /\ cand.active /\ ~cand.compare
    BY DEF ProgramMetadata, Inv, StepInv, OnOther, TypeOK, CandInv
<1>1. c \in TornStep
    <2>1. c = [s EXCEPT !.blank = FALSE, !.meta = m]
        <3> HIDE DEF s, m
        <3> QED
            BY <1>0 DEF Content
    <2> QED
        BY <1>0, <2>1 DEF TornStep, TornMeta
<1>2. c.meta.gen = cand.gen /\ c.marker = s.marker
    <2>1. c.meta = m /\ c.marker = s.marker
        <3> HIDE DEF s, m
        <3> QED
            BY <1>0 DEF Content
    <2> QED
        BY <2>1
<1> HIDE DEF c
<1>3. /\ slots' \in [Slot -> Content] /\ slots'[cand.slot] = c
      /\ \A x \in Slot : Sane(slots'[x])
      /\ Intact(slots', active) /\ OthersDiffer(slots', active)
    BY <1>0, <1>1, TornPut
<1>4. s.marker # "set"
    BY <1>0 DEF Inv, Unmarked
<1>5. \/ todo = <<>> /\ Return("OK")
      \/ step' = "payload" /\ todo' = todo /\ copy' = copy /\ ret' = ret
    BY DEF ProgramMetadata
<1>6. /\ step' \in {"none", "payload"} /\ todo' \in Seq(Byte) /\ copy' \in Nat
      /\ ret' \in Result /\ (step' = "payload" => todo' = todo)
    <2>1. CASE Return("OK")
        BY <2>1, ReturnFacts DEF Result
    <2>2. CASE step' = "payload" /\ todo' = todo /\ copy' = copy /\ ret' = ret
        BY <2>2 DEF Inv, TypeOK
    <2> QED
        BY <1>5, <2>1, <2>2
<1>7. TypeOK'
    <2>1. cand \in CandidateType /\ active \in Record \cup {NoRecord}
        BY DEF Inv, TypeOK, CandidateType
    <2>2. step' \in {"none", "erase", "metadata", "payload", "hcrc", "marker"}
        BY <1>6
    <2> QED
        BY <1>0, <1>3, <1>6, <2>1, <2>2, Zenon DEF TypeOK, CandidateType
<1>8. SlotsInv' /\ CandInv' /\ StepInv'
    BY <1>0, <1>3, <1>6 DEF Inv, SlotsInv, CandInv, StepInv, OnOther, InactiveSlot
<1>9. Unmarked'
    BY <1>0, <1>2, <1>3, <1>4, <1>6 DEF Unmarked
<1>10. LengthInv'
    BY <1>0, <1>6 DEF Inv, LengthInv
<1> QED
    BY <1>7, <1>8, <1>9, <1>10 DEF Inv

\* A payload halfword keeps the invariant.
LEMMA ProgramPayloadInv ==
    ASSUME Inv, ProgramPayload
    PROVE  Inv'
<1> DEFINE c == WithHalf(slots[cand.slot], Offset, Stream[1], Stream[2])
<1>0. /\ step = "payload" /\ step' = step /\ active' = active /\ copy' = copy /\ ret' = ret
      /\ Len(Stream) >= 2 /\ HalfWritable /\ Put(c)
      /\ cand' = [cand EXCEPT !.accepted = Offset + 2, !.pend = <<>>]
      /\ todo' = SubSeq(Stream, 3, Len(Stream))
    BY DEF ProgramPayload
<1>1. /\ OnOther /\ c \in Content /\ Sane(c) /\ ~Committed(c)
      /\ c.meta = slots[cand.slot].meta /\ c.marker # "set"
    BY <1>0, HalfContent
<1> HIDE DEF c
<1>2. /\ \A s \in Slot : Sane(slots'[s])
      /\ Intact(slots', active) /\ OthersDiffer(slots', active)
    BY <1>0, <1>1, PutOther DEF Inv
<1>3. slots' \in [Slot -> Content] /\ slots'[cand.slot] = c
    BY <1>0, <1>1 DEF Put, Inv, TypeOK, OnOther
<1>4. /\ Stream \in Seq(Byte) /\ Offset \in Nat /\ Offset + Len(Stream) <= PayloadLen
      /\ Len(Stream) \in Nat /\ PayloadLen \in Nat
    BY <1>0, StreamFacts, AssetAssumption DEF Inv
<1>12. Len(Stream) >= 2
    BY <1>0
<1>5. /\ todo' \in Seq(Byte) /\ Len(todo') = Len(Stream) - 2
      /\ Offset + 2 \in 0..PayloadLen /\ <<>> \in Seq(Byte) /\ Len(<<>>) = 0
    <2>1. Offset + 2 \in 0..PayloadLen
        BY <1>0, <1>4
    <2>2. /\ SubSeq(Stream, 3, Len(Stream)) \in Seq(Byte)
          /\ Len(SubSeq(Stream, 3, Len(Stream))) =
                 IF 3 <= Len(Stream) THEN Len(Stream) - 3 + 1 ELSE 0
        <3>1. 3 \in 1..(Len(Stream) + 1) /\ Len(Stream) \in (3 - 1)..Len(Stream)
            BY <1>0, <1>4
        <3> QED
            BY <1>4, <3>1, SubSeqProperties
    <2>3. Len(SubSeq(Stream, 3, Len(Stream))) = Len(Stream) - 2
        <3> DEFINE n == Len(Stream)
                   k == Len(SubSeq(Stream, 3, Len(Stream)))
        <3>1. n \in Nat /\ n >= 2 /\ k = IF 3 <= n THEN n - 3 + 1 ELSE 0
            BY <1>4, <1>12, <2>2
        <3> HIDE DEF n, k
        <3>2. k = n - 2
            BY <3>1
        <3> QED
            BY <3>2 DEF n, k
    <2> QED
        BY <1>0, <2>1, <2>2, <2>3
<1>6. /\ cand'.active = cand.active /\ cand'.slot = cand.slot /\ cand'.gen = cand.gen
      /\ cand'.accepted = Offset + 2 /\ cand'.pend = <<>> /\ cand'.compare = cand.compare
    BY <1>0 DEF Inv, TypeOK
<1>7. TypeOK'
    <2>1. cand \in CandidateType
        BY DEF Inv, TypeOK, CandidateType
    <2>2. cand' \in CandidateType
        BY <1>0, <1>5, <2>1, Zenon DEF CandidateType
    <2> QED
        BY <1>0, <1>3, <1>5, <2>2, Zenon DEF Inv, TypeOK, CandidateType
<1>8. SlotsInv'
    BY <1>0, <1>2 DEF SlotsInv
<1>9. CandInv' /\ StepInv'
    BY <1>0, <1>1, <1>6 DEF Inv, CandInv, StepInv, OnOther, InactiveSlot
<1>10. Unmarked'
    BY <1>0, <1>1, <1>3, <1>6 DEF Inv, Unmarked, OnOther
<1>11. LengthInv'
    BY <1>0, <1>4, <1>5, <1>6 DEF LengthInv
<1> QED
    BY <1>7, <1>8, <1>9, <1>10, <1>11 DEF Inv

\* The end of a write keeps the invariant.
LEMMA PayloadDoneInv ==
    ASSUME Inv, PayloadDone
    PROVE  Inv'
<1>0. /\ step = "payload" /\ active' = active /\ slots' = slots
      /\ cand' = [cand EXCEPT !.accepted = cand.accepted + Len(todo), !.pend = Stream]
      /\ Return("OK")
    BY DEF PayloadDone, Inv, TypeOK
<1>1. step' = "none" /\ todo' \in Seq(Byte) /\ copy' \in Nat /\ ret' \in Result
    BY <1>0, ReturnFacts DEF Result
<1>2. /\ Stream \in Seq(Byte) /\ cand.accepted \in Nat /\ Len(cand.pend) \in Nat
      /\ Len(todo) \in Nat /\ PayloadLen \in Nat
      /\ Len(Stream) = Len(cand.pend) + Len(todo)
    BY AssetAssumption DEF Inv, TypeOK, Stream
<1>3. /\ cand.accepted + Len(todo) \in 0..PayloadLen
      /\ Len(Stream) <= cand.accepted + Len(todo)
    BY <1>0, <1>2 DEF Inv, LengthInv
<1>4. /\ cand'.active = cand.active /\ cand'.slot = cand.slot /\ cand'.gen = cand.gen
      /\ cand'.accepted = cand.accepted + Len(todo) /\ cand'.pend = Stream
      /\ cand'.compare = cand.compare
    BY <1>0 DEF Inv, TypeOK
<1>5. TypeOK'
    <2>1. cand \in CandidateType
        BY DEF Inv, TypeOK, CandidateType
    <2>2. cand' \in CandidateType
        BY <1>0, <1>2, <1>3, <2>1, Zenon DEF CandidateType
    <2> QED
        BY <1>0, <1>1, <2>2, Zenon DEF Inv, TypeOK, CandidateType
<1>6. SlotsInv'
    BY <1>0 DEF Inv, SlotsInv
<1>7. CandInv' /\ StepInv'
    BY <1>0, <1>1, <1>4, NoRecordFacts DEF Inv, CandInv, StepInv, OnOther, InactiveSlot
<1>8. Unmarked'
    BY <1>0, <1>1, <1>4 DEF Inv, Unmarked, OnOther
<1>9. LengthInv'
    BY <1>1, <1>3, <1>4 DEF LengthInv
<1> QED
    BY <1>5, <1>6, <1>7, <1>8, <1>9 DEF Inv

\* A failed payload halfword keeps the invariant, with the candidate kept (the
\* caller's bytes) or dropped (the copy loop).
LEMMA ProgramPayloadFailsInv ==
    ASSUME Inv, ProgramPayloadFails
    PROVE  Inv'
<1>0. /\ step = "payload" /\ Len(Stream) >= 2 /\ active' = active
      /\ Return("STORAGE_ERROR") /\ "STORAGE_ERROR" \in Result
      /\ CandidateReset \/ cand' = cand
      /\ SlotsInv /\ slots \in [Slot -> Content]
    BY DEF ProgramPayloadFails, Result, Inv, TypeOK
<1>1. /\ slots' \in [Slot -> Content]
      /\ \A s \in Slot : Sane(slots'[s])
      /\ Intact(slots', active) /\ OthersDiffer(slots', active)
      /\ cand.slot \in Slot => /\ slots'[cand.slot].meta = slots[cand.slot].meta
                              /\ slots'[cand.slot].marker = slots[cand.slot].marker
    <2>1. CASE HalfWritable
        <3>1. PICK c \in TornHalf : Put(c)
            BY <2>1 DEF ProgramPayloadFails
        <3>2. c \in TornStep /\ cand.slot \in Slot
            BY <1>0, <2>1 DEF TornStep, HalfWritable
        <3>3. c.meta = slots[cand.slot].meta /\ c.marker = slots[cand.slot].marker
            <4>1. CASE c = slots[cand.slot]
                BY <4>1
            <4>2. CASE c # slots[cand.slot]
                <5>1. \/ c = WithHalf(slots[cand.slot], Offset, Stream[1], Stream[2])
                      \/ c = WithHalf(slots[cand.slot], Offset, Junk, Junk)
                    BY <4>2 DEF TornHalf
                <5> QED
                    BY <1>0, <2>1, <5>1, HalfContent
            <4> QED
                BY <4>1, <4>2
        <3> QED
            BY <1>0, <3>1, <3>2, <3>3, TornPut
    <2>2. CASE ~HalfWritable
        <3>1. slots' = slots
            BY <2>2 DEF ProgramPayloadFails
        <3> QED
            BY <1>0, <3>1 DEF SlotsInv
    <2> QED
        BY <2>1, <2>2
<1>2. CASE CandidateReset
    BY <1>0, <1>1, <1>2, CandidateReturns
<1>3. CASE cand' = cand
    BY <1>0, <1>1, <1>3, KeptCandidateReturns
<1> QED
    BY <1>0, <1>2, <1>3

\* The header CRC and the validation that follows it keep the invariant.
LEMMA ProgramHeaderCrcInv ==
    ASSUME Inv, ProgramHeaderCrc
    PROVE  Inv'
<1> DEFINE s == slots[cand.slot]
           c == [s EXCEPT !.hcrc = "valid"]
<1>0. /\ step = "hcrc" /\ cand.slot \in Slot /\ s.hcrc = "erased" /\ Put(c)
      /\ active' = active /\ cand' = cand /\ s \in Content /\ Sane(s)
      /\ cand.active /\ ~cand.compare /\ cand.accepted = PayloadLen
      /\ \/ step' = "marker" /\ todo' = todo /\ copy' = copy /\ ret' = ret
         \/ Return(Validate(c, "erased"))
    BY DEF ProgramHeaderCrc, Writable, Inv, TypeOK, SlotsInv, CandInv, StepInv
<1>1. c \in TornStep
    BY <1>0 DEF TornStep, TornCommit
<1>2. c.meta = s.meta /\ c.marker = s.marker /\ c.hcrc = "valid"
    <2> HIDE DEF s
    <2> QED
        BY <1>0 DEF Content
<1>3. OnOther
    <2>1. ~Committed(s)
        BY <1>0, CommittedFacts
    <2> QED
        BY <1>0, <2>1, ActiveType, NoRecordFacts DEF Inv, SlotsInv, Intact, OnOther
<1>4. Validate(c, "erased") \in Result
    BY DEF Validate, Result
<1> HIDE DEF c
<1>5. /\ slots' \in [Slot -> Content] /\ slots'[cand.slot] = c
      /\ \A x \in Slot : Sane(slots'[x])
      /\ Intact(slots', active) /\ OthersDiffer(slots', active)
    BY <1>0, <1>1, TornPut
<1>6. CASE Return(Validate(c, "erased"))
    BY <1>0, <1>2, <1>4, <1>5, <1>6, KeptCandidateReturns
<1>7. CASE step' = "marker" /\ todo' = todo /\ copy' = copy /\ ret' = ret
    <2>1. TypeOK'
        BY <1>0, <1>5, <1>7 DEF Inv, TypeOK
    <2>2. SlotsInv'
        BY <1>0, <1>5 DEF SlotsInv
    <2>3. CandInv'
        BY <1>0, <1>7 DEF Inv, CandInv, OnOther, InactiveSlot
    <2>4. StepInv'
        BY <1>0, <1>2, <1>3, <1>5, <1>7 DEF StepInv, OnOther
    <2>5. s.meta.gen = cand.gen
        BY <1>0, <1>3 DEF Inv, Unmarked
    <2>6. Unmarked'
        BY <1>0, <1>2, <1>5, <1>7, <2>5 DEF Unmarked
    <2>7. LengthInv'
        BY <1>0, <1>7 DEF Inv, LengthInv
    <2> QED
        BY <2>1, <2>2, <2>3, <2>4, <2>6, <2>7 DEF Inv
<1> QED
    BY <1>0, <1>6, <1>7

\* The commit marker keeps the invariant and replaces the record in use only by
\* one of a higher generation.
LEMMA ProgramMarkerInv ==
    ASSUME Inv, ProgramMarker
    PROVE  /\ Inv'
           /\ \/ active' = active /\ PayloadOf(slots', active') = PayloadOf(slots, active)
              \/ active'.gen > active.gen
<1> DEFINE s == slots[cand.slot]
           c == [s EXCEPT !.marker = "set"]
<1>0. /\ step = "marker" /\ cand.slot \in Slot /\ s.marker = "erased" /\ Put(c)
      /\ s \in Content /\ OnOther /\ cand.active /\ ~cand.compare
      /\ cand.accepted = PayloadLen
      /\ Return(Validate(c, "set"))
      /\ \/ Committed(c) /\ active' = RecordOf(slots', cand.slot) /\ CandidateReset
         \/ ~Committed(c) /\ active' = active /\ cand' = cand
    BY DEF ProgramMarker, Writable, Inv, TypeOK, SlotsInv, CandInv, StepInv
<1>1. c \in TornStep
    BY <1>0 DEF TornStep, TornCommit
<1>2. c.meta = s.meta
    <2> HIDE DEF s
    <2> QED
        BY <1>0 DEF Content
<1>3. Validate(c, "set") \in Result
    BY DEF Validate, Result
<1>4. s.meta.gen = cand.gen /\ cand.gen = active.gen + 1 /\ active.gen \in Nat
    BY <1>0, ActiveType, AssetAssumption DEF Inv, Unmarked, CandInv
<1> HIDE DEF c
<1>5. /\ slots' \in [Slot -> Content] /\ slots'[cand.slot] = c
      /\ \A x \in Slot : Sane(slots'[x])
      /\ Intact(slots', active) /\ OthersDiffer(slots', active)
    BY <1>0, <1>1, TornPut
<1>6. CASE ~Committed(c) /\ active' = active /\ cand' = cand
    <2>1. Inv'
        BY <1>0, <1>2, <1>3, <1>5, <1>6, KeptCandidateReturns
    <2>2. active # NoRecord => slots'[active.slot] = slots[active.slot]
        BY <1>0, ActiveType DEF Put, OnOther, Inv, TypeOK
    <2> QED
        BY <1>6, <2>1, <2>2 DEF PayloadOf
<1>7. CASE Committed(c) /\ active' = RecordOf(slots', cand.slot) /\ CandidateReset
    <2>1. /\ active' \in Record /\ active' # NoRecord /\ active'.slot = cand.slot
          /\ active'.gen = c.meta.gen
        BY <1>0, <1>5, <1>7, RecordOfType
    <2>2. cand \in CandidateType
        BY DEF Inv, TypeOK, CandidateType
    <2>3. /\ cand' \in CandidateType /\ ~cand'.active
          /\ cand'.slot = cand.slot /\ cand'.accepted = cand.accepted
          /\ cand'.pend = cand.pend /\ cand'.compare = cand.compare
        BY <1>7, <2>2, ResetFacts
    <2>4. step' = "none" /\ todo' \in Seq(Byte) /\ copy' \in Nat /\ ret' \in Result
        BY <1>0, <1>3, ReturnFacts
    <2>5. TypeOK'
        BY <1>5, <2>1, <2>3, <2>4, Zenon DEF TypeOK, CandidateType
    <2>6. \A o \in Slot \ {cand.slot} : Committed(slots'[o]) =>
              slots'[o].meta.gen # slots'[cand.slot].meta.gen
        <3>1. SUFFICES ASSUME NEW o \in Slot, o # cand.slot, Committed(slots'[o])
                       PROVE  slots'[o].meta.gen # cand.gen
            BY <1>2, <1>4, <1>5
        <3>2. CASE o = active.slot
            <4>1. active # NoRecord
                BY <3>2, NoRecordFacts
            <4>2. active = RecordOf(slots', o)
                BY <1>5, <3>2, <4>1 DEF Intact
            <4>3. slots'[o].meta.gen = active.gen
                BY <3>1, <4>2, RecordOfType
            <4> QED
                BY <1>4, <4>3
        <3>3. CASE o # active.slot
            <4>1. active # NoRecord \/ (o = "A" /\ cand.slot = "A")
                BY <1>0, <1>5, <3>1, <3>3 DEF OthersDiffer, Inv, CandInv, InactiveSlot
            <4> QED
                BY <1>0, <3>1, <3>3, <4>1, ActiveType DEF Inv, OnOther, Slot
        <3> QED
            BY <3>2, <3>3
    <2>7. SlotsInv'
        <3>1. /\ Intact(slots', RecordOf(slots', cand.slot))
              /\ OthersDiffer(slots', RecordOf(slots', cand.slot))
            BY <1>0, <1>5, <1>7, <2>6, SelectedRecord
        <3> QED
            BY <1>5, <1>7, <3>1 DEF SlotsInv
    <2>8. CandInv'
        BY <1>0, <2>1, <2>3, <2>4 DEF CandInv, OnOther
    <2>9. StepInv' /\ Unmarked'
        BY <2>3, <2>4 DEF StepInv, Unmarked
    <2>10. LengthInv'
        BY <2>3, <2>4 DEF Inv, LengthInv
    <2>11. active'.gen > active.gen
        BY <1>2, <1>4, <2>1
    <2> QED
        BY <2>5, <2>7, <2>8, <2>9, <2>10, <2>11 DEF Inv
<1> QED
    BY <1>0, <1>6, <1>7

\* A failed header CRC or marker keeps the invariant.
LEMMA CommitFailsInv ==
    ASSUME Inv, CommitFails
    PROVE  Inv'
<1>0. /\ step \in {"hcrc", "marker"} /\ active' = active /\ cand' = cand
      /\ Return("STORAGE_ERROR") /\ "STORAGE_ERROR" \in Result
      /\ SlotsInv /\ slots \in [Slot -> Content] /\ cand.accepted = PayloadLen
    BY DEF CommitFails, Result, Inv, TypeOK, StepInv
<1>1. CASE cand.slot \in Slot
    <2>1. PICK c \in TornCommit : Put(c)
        BY <1>1 DEF CommitFails
    <2>2. c \in TornStep
        BY <1>0, <2>1 DEF TornStep
    <2>3. c.meta = slots[cand.slot].meta
        <3> DEFINE s == slots[cand.slot]
        <3>1. s \in Content
            BY <1>0, <1>1
        <3>2. \/ c = s
              \/ c = [s EXCEPT !.hcrc = "valid"] \/ c = [s EXCEPT !.hcrc = "junk"]
              \/ c = [s EXCEPT !.marker = "set"] \/ c = [s EXCEPT !.marker = "junk"]
            BY <1>0, <2>1 DEF TornCommit
        <3> HIDE DEF s
        <3>3. c.meta = s.meta
            BY <3>1, <3>2 DEF Content
        <3> QED
            BY <3>3 DEF s
    <2>4. /\ slots' \in [Slot -> Content] /\ slots'[cand.slot] = c
          /\ \A x \in Slot : Sane(slots'[x])
          /\ Intact(slots', active) /\ OthersDiffer(slots', active)
        BY <1>0, <1>1, <2>1, <2>2, TornPut
    <2> QED
        BY <1>0, <2>3, <2>4, KeptCandidateReturns
<1>2. CASE cand.slot \notin Slot
    <2>1. slots' = slots
        BY <1>2 DEF CommitFails
    <2> QED
        BY <1>0, <2>1, KeptCandidateReturns DEF SlotsInv
<1> QED
    BY <1>1, <1>2

\* candidate_state after asset_persistence_init().
LEMMA ZeroCandidateType ==
    /\ ZeroCandidate \in CandidateType /\ ~ZeroCandidate.active
    /\ ZeroCandidate.slot = NoSlot /\ ZeroCandidate.accepted = 0
    /\ ZeroCandidate.pend = <<>> /\ ~ZeroCandidate.compare
<1>1. (CHOOSE v \in CrcValue : TRUE) \in CrcValue
    <2>1. [i \in 1..PayloadLen |-> FF] \in Payload
        BY AssetAssumption DEF Payload
    <2>2. Crc[[i \in 1..PayloadLen |-> FF]] \in CrcValue
        BY <2>1, AssetAssumption
    <2> QED
        BY <2>2
<1>2. 0 \in 0..PayloadLen /\ <<>> \in Seq(Byte) /\ 0 \in Nat
    BY AssetAssumption
<1> QED
    BY <1>1, <1>2 DEF ZeroCandidate, CandidateType

\* A device with both pages erased satisfies the invariant.
LEMMA InitInv ==
    Init => Inv
<1> SUFFICES ASSUME Init PROVE Inv
    OBVIOUS
<1>0. /\ slots = [s \in Slot |-> ErasedSlot] /\ active = NoRecord
      /\ cand = ZeroCandidate /\ todo = <<>> /\ copy = 0 /\ step = "none" /\ ret = "none"
    BY DEF Init
<1>1. slots \in [Slot -> Content] /\ SlotsInv
    BY <1>0, SlotContents DEF SlotsInv, Intact, OthersDiffer
<1>2. TypeOK
    <2>1. todo \in Seq(Byte) /\ copy \in Nat /\ ret \in Result
        BY <1>0 DEF Result
    <2> QED
        BY <1>0, <1>1, <2>1, ZeroCandidateType, Zenon DEF TypeOK, CandidateType
<1>3. CandInv /\ StepInv /\ Unmarked /\ LengthInv
    BY <1>0, ZeroCandidateType, NoRecordFacts
       DEF CandInv, StepInv, Unmarked, OnOther, LengthInv
<1> QED
    BY <1>1, <1>2, <1>3 DEF Inv

\* The payload of the record in use is not touched.
LEMMA PutKeepsActive ==
    ASSUME Inv, NEW c, Put(c), OnOther \/ c = slots[cand.slot]
    PROVE  PayloadOf(slots', active) = PayloadOf(slots, active)
<1>1. CASE OnOther
    <2>1. active # NoRecord => slots'[active.slot] = slots[active.slot]
        BY <1>1, ActiveType DEF Put, OnOther, Inv, TypeOK
    <2> QED
        BY <2>1 DEF PayloadOf
<1>2. CASE c = slots[cand.slot]
    <2>1. slots' = slots
        BY <1>2 DEF Put, Inv, TypeOK
    <2> QED
        BY <2>1
<1> QED
    BY <1>1, <1>2

\* A reset inside or between flash operations, and the boot selection after it,
\* keep the invariant and never fall back to an older record.
LEMMA ResetInv ==
    ASSUME Inv, Reset
    PROVE  /\ Inv'
           /\ \/ active' = active /\ PayloadOf(slots', active') = PayloadOf(slots, active)
              \/ active'.gen > active.gen
<1>0. /\ active' = BootRecord(slots') /\ cand' = ZeroCandidate
      /\ todo' = <<>> /\ copy' = 0 /\ step' = "none" /\ ret' = "none"
      /\ slots \in [Slot -> Content] /\ active \in Record \cup {NoRecord} /\ SlotsInv
    BY DEF Reset, Inv, TypeOK
<1>1. /\ slots' \in [Slot -> Content]
      /\ \A s \in Slot : Sane(slots'[s])
      /\ Intact(slots', active) /\ OthersDiffer(slots', active)
      /\ PayloadOf(slots', active) = PayloadOf(slots, active)
    <2>1. CASE Idle \/ cand.slot = NoSlot
        <3>1. slots' = slots
            BY <2>1 DEF Reset
        <3> QED
            BY <1>0, <3>1 DEF SlotsInv
    <2>2. CASE ~(Idle \/ cand.slot = NoSlot)
        <3>1. PICK c \in TornStep : Put(c)
            BY <2>2 DEF Reset
        <3>2. step # "none" /\ cand.slot \in Slot
            BY <2>2 DEF Idle, Inv, TypeOK
        <3>3. PayloadOf(slots', active) = PayloadOf(slots, active)
            BY <3>1, <3>2, TornContent, PutKeepsActive
        <3> QED
            BY <3>1, <3>2, <3>3, TornPut
    <2> QED
        BY <2>1, <2>2
<1>2. /\ active' \in Record \cup {NoRecord}
      /\ active' = active \/ active'.gen > active.gen
      /\ Intact(slots', active') /\ OthersDiffer(slots', active')
    BY <1>0, <1>1, BootRecordAdvances
<1>3. SlotsInv'
    BY <1>1, <1>2 DEF SlotsInv
<1>4. TypeOK'
    <2>1. todo' \in Seq(Byte) /\ copy' \in Nat /\ ret' \in Result
        BY <1>0 DEF Result
    <2> QED
        BY <1>0, <1>1, <1>2, <2>1, ZeroCandidateType, Zenon DEF TypeOK, CandidateType
<1>5. CandInv' /\ StepInv' /\ Unmarked' /\ LengthInv'
    BY <1>0, ZeroCandidateType, NoRecordFacts
       DEF CandInv, StepInv, Unmarked, OnOther, LengthInv
<1> QED
    BY <1>1, <1>2, <1>3, <1>4, <1>5 DEF Inv

\* A step that changes nothing keeps the invariant.
LEMMA StutterInv ==
    ASSUME Inv, UNCHANGED vars
    PROVE  Inv'
    BY DEF Inv, vars, TypeOK, SlotsInv, CandInv, StepInv, Unmarked, LengthInv, OnOther,
           InactiveSlot

\* Every step keeps the invariant.
LEMMA NextInv ==
    Inv /\ [Next]_vars => Inv'
<1> SUFFICES ASSUME Inv, [Next]_vars PROVE Inv'
    OBVIOUS
<1>1. CASE Call
    BY <1>1, BeginCandidateInv, WriteCandidateInv, CommitCandidateInv, AbortCandidateInv
       DEF Call
<1>2. CASE FlashStep
    BY <1>2, ErasePageInv, ErasePageFailsInv, ProgramMetadataInv, ProgramMetadataFailsInv,
       ProgramPayloadInv, ProgramPayloadFailsInv, PayloadDoneInv, ProgramHeaderCrcInv,
       ProgramMarkerInv, CommitFailsInv
       DEF FlashStep
<1>3. CASE Reset
    BY <1>3, ResetInv
<1>4. CASE UNCHANGED vars
    BY <1>4, StutterInv
<1> QED
    BY <1>1, <1>2, <1>3, <1>4 DEF Next

\* The inductive invariant holds in every state the store reaches, for every
\* payload length, checksum function and wear limit.
THEOREM StoreInvariant ==
    Spec => []Inv
    BY InitInv, NextInv, PTL DEF Spec

\* Every variable of asset_persistence.c keeps to its range.
THEOREM StoreTypeOK ==
    Spec => []TypeOK
<1>1. Inv => TypeOK
    BY DEF Inv
<1> QED
    BY <1>1, StoreInvariant, PTL

\* The record in use is always a complete committed record in flash: no call,
\* failed operation or reset ever touches the page of active_record.
THEOREM StoreActiveRecordIntact ==
    Spec => []ActiveRecordIntact
<1>1. Inv => ActiveRecordIntact
    BY DEF Inv, SlotsInv, Intact, ActiveRecordIntact
<1> QED
    BY <1>1, StoreInvariant, PTL

\* The two slots never hold committed records of equal generation, so the
\* ambiguous branch of asset_select_boot_record() is never taken.
THEOREM StoreNoAmbiguity ==
    Spec => []NoAmbiguity
<1>1. Inv => NoAmbiguity
    <2> SUFFICES ASSUME Inv, Committed(slots["A"]), Committed(slots["B"])
                 PROVE  slots["A"].meta.gen # slots["B"].meta.gen
        BY DEF NoAmbiguity
    <2>1. active # NoRecord
        BY NoRecordFacts DEF Inv, SlotsInv, OthersDiffer, Slot
    <2>2. active.slot \in Slot /\ active = RecordOf(slots, active.slot)
        BY <2>1, ActiveFacts DEF Inv, SlotsInv, Intact
    <2>3. active.gen = slots[active.slot].meta.gen
        BY <2>2, RecordOfType DEF Slot
    <2> QED
        BY <2>2, <2>3 DEF Inv, SlotsInv, OthersDiffer, Slot
<1> QED
    BY <1>1, StoreInvariant, PTL

\* At the wear limit no erase, metadata or marker operation is ever under way.
THEOREM StoreWornOutIsReadOnly ==
    Spec => []WornOutIsReadOnly
<1>1. Inv => WornOutIsReadOnly
    BY AssetAssumption DEF Inv, StepInv, CandInv, WornOutIsReadOnly
<1> QED
    BY <1>1, StoreInvariant, PTL

\* What asset_persistence.c keeps in flash and in RAM, together.
THEOREM StoreAlwaysHolds ==
    Spec => []StoreHolds
<1>1. TypeOK /\ ActiveRecordIntact /\ NoAmbiguity /\ WornOutIsReadOnly => StoreHolds
    BY DEF StoreHolds
<1> QED
    BY <1>1, StoreTypeOK, StoreActiveRecordIntact, StoreNoAmbiguity,
       StoreWornOutIsReadOnly, PTL

\* A step keeps the record in use with its payload, or moves to a higher generation.
LEMMA StepAdvances ==
    ASSUME Inv, Next
    PROVE  \/ active' = active /\ PayloadOf(slots', active') = PayloadOf(slots, active)
           \/ active'.gen > active.gen
<1>1. CASE ErasePage
    <2>1. Put(ErasedSlot) /\ OnOther /\ active' = active
        BY <1>1 DEF ErasePage, Inv, StepInv
    <2> QED
        BY <2>1, PutKeepsActive
<1>2. CASE ErasePageFails
    <2>1. PICK c \in TornErase : Put(c)
        BY <1>2 DEF ErasePageFails
    <2>2. OnOther /\ active' = active
        BY <1>2 DEF ErasePageFails, Inv, StepInv
    <2> QED
        BY <2>1, <2>2, PutKeepsActive
<1>3. CASE ProgramMetadata
    <2>1. OnOther /\ active' = active
        BY <1>3 DEF ProgramMetadata, Inv, StepInv
    <2>2. PICK c : Put(c)
        BY <1>3 DEF ProgramMetadata
    <2> QED
        BY <2>1, <2>2, PutKeepsActive
<1>4. CASE ProgramMetadataFails
    <2>1. PICK c \in TornMeta : Put(c)
        BY <1>4 DEF ProgramMetadataFails
    <2>2. OnOther /\ active' = active
        BY <1>4 DEF ProgramMetadataFails, Inv, StepInv
    <2> QED
        BY <2>1, <2>2, PutKeepsActive
<1>5. CASE ProgramPayload
    <2>1. OnOther /\ active' = active
        BY <1>5, NoRecordFacts DEF ProgramPayload, HalfWritable, Inv, StepInv
    <2>2. PICK c : Put(c)
        BY <1>5 DEF ProgramPayload
    <2> QED
        BY <2>1, <2>2, PutKeepsActive
<1>6. CASE ProgramPayloadFails
    <2>1. active' = active
        BY <1>6 DEF ProgramPayloadFails
    <2>2. CASE HalfWritable
        <3>1. PICK c \in TornHalf : Put(c)
            BY <1>6, <2>2 DEF ProgramPayloadFails
        <3>2. OnOther
            BY <1>6, <2>2, NoRecordFacts DEF ProgramPayloadFails, HalfWritable, Inv, StepInv
        <3> QED
            BY <2>1, <3>1, <3>2, PutKeepsActive
    <2>3. CASE ~HalfWritable
        BY <1>6, <2>1, <2>3 DEF ProgramPayloadFails
    <2> QED
        BY <2>2, <2>3
<1>7. CASE ProgramHeaderCrc
    <2>1. /\ active' = active /\ step # "none" /\ cand.slot \in Slot
          /\ [slots[cand.slot] EXCEPT !.hcrc = "valid"] \in TornStep
          /\ Put([slots[cand.slot] EXCEPT !.hcrc = "valid"])
        BY <1>7 DEF ProgramHeaderCrc, Writable, TornStep, TornCommit
    <2> QED
        BY <2>1, TornContent, PutKeepsActive
<1>8. CASE ProgramMarker
    BY <1>8, ProgramMarkerInv
<1>9. CASE CommitFails
    <2>1. active' = active
        BY <1>9 DEF CommitFails
    <2>2. CASE cand.slot \in Slot
        <3>1. PICK c \in TornCommit : Put(c)
            BY <1>9, <2>2 DEF CommitFails
        <3>2. c \in TornStep /\ step # "none"
            BY <1>9, <3>1 DEF CommitFails, TornStep
        <3> QED
            BY <2>1, <2>2, <3>1, <3>2, TornContent, PutKeepsActive
    <2>3. CASE cand.slot \notin Slot
        BY <1>9, <2>1, <2>3 DEF CommitFails
    <2> QED
        BY <2>2, <2>3
<1>10. CASE Reset
    BY <1>10, ResetInv
<1>11. CASE Call \/ PayloadDone
    BY <1>11 DEF Call, BeginCandidate, WriteCandidate, CommitCandidate, AbortCandidate,
                 PayloadDone
<1> QED
    BY <1>1, <1>2, <1>3, <1>4, <1>5, <1>6, <1>7, <1>8, <1>9, <1>10, <1>11
       DEF Next, FlashStep

\* The record in use never falls back to an older one: over every step, resets in
\* the middle of a commit included, it stays the same with the same payload or
\* gives way to a higher generation.
THEOREM StoreActiveOnlyAdvances ==
    Spec => ActiveOnlyAdvances
<1>1. Inv /\ [Next]_vars =>
        [ \/ active' = active /\ PayloadOf(slots', active') = PayloadOf(slots, active)
          \/ active'.gen > active.gen ]_vars
    BY StepAdvances
<1> QED
    BY <1>1, StoreInvariant, PTL DEF Spec, ActiveOnlyAdvances

-----------------------------------------------------------------------------
(* The abstract register *)

\* A step leaves flash and the record in use alone, or puts something complete or torn
\* into the other slot; only a marker and a reset move the record in use.
LEMMA FlashChange ==
    ASSUME Inv, Next
    PROVE  \/ UNCHANGED <<slots, active>>
           \/ /\ step # "none" /\ OnOther
              /\ \E c \in TornStep :
                     /\ Put(c)
                     /\ \/ active' = active
                        \/ active' = BootRecord(slots')
                        \/ /\ Committed(c) /\ c # slots[cand.slot]
                           /\ active' = RecordOf(slots', cand.slot)
           \/ slots' = slots /\ active' = BootRecord(slots)
<1> DEFINE Goal == \/ UNCHANGED <<slots, active>>
                   \/ /\ step # "none" /\ OnOther
                      /\ \E c \in TornStep :
                             /\ Put(c)
                             /\ \/ active' = active
                                \/ active' = BootRecord(slots')
                                \/ /\ Committed(c) /\ c # slots[cand.slot]
                                   /\ active' = RecordOf(slots', cand.slot)
                   \/ slots' = slots /\ active' = BootRecord(slots)
<1>1. ASSUME step # "none", cand.slot \in Slot, NEW c \in TornStep, Put(c),
             \/ active' = active
             \/ active' = BootRecord(slots')
             \/ Committed(c) /\ c # slots[cand.slot] /\ active' = RecordOf(slots', cand.slot)
      PROVE  Goal
    <2>1. c = slots[cand.slot] \/ OnOther
        BY <1>1, TornContent
    <2>2. c = slots[cand.slot] => slots' = slots
        BY <1>1 DEF Put, Inv, TypeOK
    <2> QED
        BY <1>1, <2>1, <2>2
<1>2. CASE ErasePage \/ ErasePageFails
    <2>1. step = "erase" /\ cand.slot \in Slot /\ active' = active
        BY <1>2 DEF ErasePage, ErasePageFails, Inv, StepInv, OnOther
    <2>2. PICK c \in TornErase : Put(c)
        BY <1>2 DEF ErasePage, ErasePageFails, TornErase
    <2>3. c \in TornStep
        BY <2>1, <2>2 DEF TornStep
    <2> QED
        BY <1>1, <2>1, <2>2, <2>3
<1>3. CASE ProgramMetadata \/ ProgramMetadataFails
    <2>1. step = "metadata" /\ cand.slot \in Slot /\ active' = active
        BY <1>3 DEF ProgramMetadata, ProgramMetadataFails, Inv, StepInv, OnOther
    <2>2. PICK c \in TornMeta : Put(c)
        <3>1. CASE ProgramMetadata
            <4> DEFINE s == slots[cand.slot]
                       m == [gen |-> cand.gen, crc |-> cand.crc]
            <4>1. [s EXCEPT !.meta = m, !.blank = FALSE] = [s EXCEPT !.blank = FALSE, !.meta = m]
                <5>1. s \in Content
                    BY <2>1 DEF Inv, TypeOK
                <5> HIDE DEF s, m
                <5> QED
                    BY <5>1 DEF Content
            <4>2. Put([s EXCEPT !.meta = m, !.blank = FALSE])
                BY <3>1 DEF ProgramMetadata
            <4>3. [s EXCEPT !.blank = FALSE, !.meta = m] \in TornMeta
                BY DEF TornMeta
            <4> QED
                BY <4>1, <4>2, <4>3
        <3>2. CASE ProgramMetadataFails
            BY <3>2 DEF ProgramMetadataFails
        <3> QED
            BY <1>3, <3>1, <3>2
    <2>3. c \in TornStep
        BY <2>1, <2>2 DEF TornStep
    <2> QED
        BY <1>1, <2>1, <2>2, <2>3
<1>4. CASE ProgramPayload
    <2>1. /\ step = "payload" /\ cand.slot \in Slot /\ active' = active
          /\ Len(Stream) >= 2 /\ HalfWritable
          /\ Put(WithHalf(slots[cand.slot], Offset, Stream[1], Stream[2]))
        BY <1>4 DEF ProgramPayload, HalfWritable
    <2> DEFINE c == WithHalf(slots[cand.slot], Offset, Stream[1], Stream[2])
    <2>2. OnOther
        BY <2>1, NoRecordFacts DEF Inv, StepInv
    <2>3. CASE c \in TornStep
        BY <1>1, <2>1, <2>3
    <2>4. CASE c \notin TornStep
        <3>1. Stream[1] = FF /\ Stream[2] = FF
            BY <2>1, <2>4 DEF TornStep, TornHalf
        <3>2. c = slots[cand.slot]
            <4>1. /\ slots[cand.slot].payload[Offset + 1] = FF
                  /\ slots[cand.slot].payload[Offset + 2] = FF
                  /\ slots[cand.slot] \in Content
                BY <2>1 DEF HalfWritable, HalfErased, Inv, TypeOK
            <4> QED
                BY <3>1, <4>1 DEF WithHalf, Content
        <3>3. slots' = slots
            BY <2>1, <3>2 DEF Put, Inv, TypeOK
        <3> QED
            BY <2>1, <3>3
    <2> QED
        BY <2>3, <2>4
<1>5. CASE ProgramPayloadFails
    <2>1. step = "payload" /\ active' = active /\ Len(Stream) >= 2
        BY <1>5 DEF ProgramPayloadFails
    <2>2. CASE HalfWritable
        <3>1. PICK c \in TornHalf : Put(c)
            BY <1>5, <2>2 DEF ProgramPayloadFails
        <3>2. c \in TornStep /\ cand.slot \in Slot
            BY <2>1, <2>2, <3>1 DEF TornStep, HalfWritable
        <3> QED
            BY <1>1, <2>1, <3>1, <3>2
    <2>3. CASE ~HalfWritable
        BY <1>5, <2>1, <2>3 DEF ProgramPayloadFails
    <2> QED
        BY <2>2, <2>3
<1>6. CASE ProgramHeaderCrc
    <2>1. /\ active' = active /\ step # "none" /\ cand.slot \in Slot
          /\ [slots[cand.slot] EXCEPT !.hcrc = "valid"] \in TornStep
          /\ Put([slots[cand.slot] EXCEPT !.hcrc = "valid"])
        BY <1>6 DEF ProgramHeaderCrc, Writable, TornStep, TornCommit
    <2> QED
        BY <1>1, <2>1
<1>7. CASE ProgramMarker
    <2> DEFINE c == [slots[cand.slot] EXCEPT !.marker = "set"]
    <2>1. /\ step = "marker" /\ cand.slot \in Slot /\ OnOther /\ c \in TornStep /\ Put(c)
          /\ active' = active \/ (Committed(c) /\ active' = RecordOf(slots', cand.slot))
        BY <1>7 DEF ProgramMarker, Writable, TornStep, TornCommit, Inv, StepInv
    <2>2. c # slots[cand.slot]
        <3>1. slots[cand.slot] \in Content /\ slots[cand.slot].marker = "erased"
            BY <1>7, <2>1 DEF ProgramMarker, Writable, Inv, TypeOK
        <3> QED
            BY <3>1 DEF Content
    <2> QED
        BY <1>1, <2>1, <2>2
<1>8. CASE CommitFails
    <2>1. active' = active /\ step \in {"hcrc", "marker"}
        BY <1>8 DEF CommitFails
    <2>2. CASE cand.slot \in Slot
        <3>1. PICK c \in TornCommit : Put(c)
            BY <1>8, <2>2 DEF CommitFails
        <3>2. c \in TornStep
            BY <2>1, <3>1 DEF TornStep
        <3> QED
            BY <1>1, <2>1, <2>2, <3>1, <3>2
    <2>3. CASE cand.slot \notin Slot
        BY <1>8, <2>1, <2>3 DEF CommitFails
    <2> QED
        BY <2>2, <2>3
<1>9. CASE Reset
    <2>1. CASE Idle \/ cand.slot = NoSlot
        BY <1>9, <2>1 DEF Reset
    <2>2. CASE ~(Idle \/ cand.slot = NoSlot)
        <3>1. active' = BootRecord(slots') /\ \E c \in TornStep : Put(c)
            BY <1>9, <2>2 DEF Reset
        <3>2. step # "none" /\ cand.slot \in Slot
            BY <2>2 DEF Idle, Inv, TypeOK
        <3> QED
            BY <1>1, <3>1, <3>2
    <2> QED
        BY <2>1, <2>2
<1>10. CASE Call \/ PayloadDone
    BY <1>10 DEF Call, BeginCandidate, WriteCandidate, CommitCandidate, AbortCandidate,
                 PayloadDone
<1> QED
    BY <1>2, <1>3, <1>4, <1>5, <1>6, <1>7, <1>8, <1>9, <1>10 DEF Next, FlashStep

\* Without a committed record beside it, the boot selection finds record a again.
LEMMA BootIsOld ==
    ASSUME NEW sl, NEW a \in Record \cup {NoRecord}, Intact(sl, a),
           \A s \in Slot : s # a.slot => ~Committed(sl[s])
    PROVE  BootRecord(sl) = a
<1>1. CASE a = NoRecord
    BY <1>1, NoRecordFacts DEF BootRecord, Slot
<1>2. CASE a # NoRecord
    <2>1. a.slot \in Slot /\ Committed(sl[a.slot]) /\ a = RecordOf(sl, a.slot)
        BY <1>2 DEF Intact, Record
    <2>2. CASE a.slot = "A"
        BY <2>1, <2>2 DEF BootRecord, Slot
    <2>3. CASE a.slot = "B"
        BY <2>1, <2>3 DEF BootRecord, Slot
    <2> QED
        BY <2>1, <2>2, <2>3 DEF Slot
<1> QED
    BY <1>1, <1>2

\* A committed record of the next generation in the other slot is what the boot
\* selection finds.
LEMMA BootIsNew ==
    ASSUME NEW sl, NEW a \in Record \cup {NoRecord}, Intact(sl, a), OthersDiffer(sl, a),
           NEW s \in Slot, s # a.slot, Committed(sl[s]), sl[s].meta.gen = a.gen + 1
    PROVE  BootRecord(sl) = RecordOf(sl, s)
<1>1. sl[s].meta.gen \in Nat
    BY RecordOfType, AssetAssumption
<1>2. CASE a = NoRecord
    <2>1. s = "A" /\ ~Committed(sl["B"])
        BY <1>2, NoRecordFacts DEF OthersDiffer, Slot
    <2> QED
        BY <2>1 DEF BootRecord
<1>3. CASE a # NoRecord
    <2>1. /\ a.slot \in Slot /\ Committed(sl[a.slot]) /\ sl[a.slot].meta.gen = a.gen
          /\ a.gen \in Nat
        BY <1>3, RecordOfType, AssetAssumption DEF Intact, Record
    <2>2. sl[s].meta.gen > sl[a.slot].meta.gen /\ ~(sl[a.slot].meta.gen > sl[s].meta.gen)
        BY <2>1
    <2>3. CASE s = "A"
        <3>1. a.slot = "B"
            BY <2>1, <2>3 DEF Slot
        <3> QED
            BY <2>1, <2>2, <2>3, <3>1 DEF BootRecord
    <2>4. CASE s = "B"
        <3>1. a.slot = "A"
            BY <2>1, <2>4 DEF Slot
        <3> QED
            BY <2>1, <2>2, <2>4, <3>1 DEF BootRecord
    <2> QED
        BY <2>3, <2>4 DEF Slot
<1> QED
    BY <1>2, <1>3

\* Something put into the other slot is invisible, or is the next record and is then
\* what a reset brings up.
LEMMA PutOnRegister ==
    ASSUME Inv, step # "none", OnOther, NEW c \in TornStep, Put(c), c # slots[cand.slot]
    PROVE  /\ Abstract(slots', active) = Abstract(slots, active)
           /\ ~Committed(c) => BootRecord(slots') = active
           /\ Committed(c) =>
                  /\ BootRecord(slots') = RecordOf(slots', cand.slot)
                  /\ active.gen < GenMax
                  /\ c.payload \in ValidPayload
                  /\ Abstract(slots', BootRecord(slots')) =
                         [gen |-> active.gen + 1, object |-> c.payload]
<1>1. /\ slots'[cand.slot] = c /\ cand.slot \in Slot /\ cand.slot # active.slot
      /\ Intact(slots', active) /\ OthersDiffer(slots', active)
      /\ active \in Record \cup {NoRecord}
    BY TornPut DEF OnOther, Inv, TypeOK
<1>2. Abstract(slots', active) = Abstract(slots, active)
    BY PutKeepsActive DEF Abstract
<1>3. ASSUME ~Committed(c) PROVE BootRecord(slots') = active
    <2>1. ASSUME NEW s \in Slot, s # active.slot PROVE ~Committed(slots'[s])
        <3>1. CASE active = NoRecord
            <4>1. cand.slot = "A"
                BY <3>1 DEF Inv, CandInv, InactiveSlot
            <4> QED
                BY <1>1, <1>3, <2>1, <3>1, <4>1 DEF OthersDiffer, Slot
        <3>2. CASE active # NoRecord
            <4>1. s = cand.slot
                BY <1>1, <2>1, <3>2, ActiveFacts DEF Inv, Slot
            <4> QED
                BY <1>1, <1>3, <4>1
        <3> QED
            BY <3>1, <3>2
    <2> QED
        BY <1>1, <2>1, BootIsOld
<1>4. ASSUME Committed(c)
      PROVE  /\ BootRecord(slots') = RecordOf(slots', cand.slot)
             /\ active.gen < GenMax
             /\ c.payload \in ValidPayload
             /\ Abstract(slots', BootRecord(slots')) =
                    [gen |-> active.gen + 1, object |-> c.payload]
    <2>1. c.meta.gen = cand.gen /\ cand.gen = active.gen + 1 /\ cand.gen <= GenMax
        BY <1>1, <1>4, TornContent DEF Inv, CandInv
    <2>2. active.gen < GenMax
        BY <2>1, ActiveType, AssetAssumption DEF Inv
    <2>3. BootRecord(slots') = RecordOf(slots', cand.slot)
        BY <1>1, <1>4, <2>1, BootIsNew
    <2>4. /\ RecordOf(slots', cand.slot) # NoRecord
          /\ RecordOf(slots', cand.slot).slot = cand.slot
          /\ RecordOf(slots', cand.slot).gen = active.gen + 1
        BY <1>1, <1>4, <2>1, RecordOfType
    <2> QED
        BY <1>1, <1>4, <2>2, <2>3, <2>4, CommittedFacts DEF Abstract, PayloadOf
<1> QED
    BY <1>2, <1>3, <1>4

\* Every step of the store is a step of the register, or leaves it alone.
LEMMA StepOnRegister ==
    ASSUME Inv, Next
    PROVE  UNCHANGED <<slots, active>> \/ Register!RegNext
<1> USE DEF Register!RegNext, Register!Forget, Register!Surface, Register!Store,
            Register!StoreInDoubt, Register!Successors
<1> DEFINE value == Abstract(slots, active)
           shadow == Abstract(slots, BootRecord(slots))
<1>1. CASE slots' = slots /\ active' = BootRecord(slots)
    <2>1. value' = shadow /\ shadow' = shadow
        BY <1>1
    <2> QED
        BY <2>1
<1>2. ASSUME step # "none", OnOther, NEW c \in TornStep, Put(c), c # slots[cand.slot],
             \/ active' = active
             \/ active' = BootRecord(slots')
             \/ Committed(c) /\ active' = RecordOf(slots', cand.slot)
      PROVE  Register!RegNext
    <2>1. CASE ~Committed(c)
        <3>1. active' = active /\ BootRecord(slots') = active
            BY <1>2, <2>1, PutOnRegister
        <3>2. value' = value /\ shadow' = value
            BY <1>2, <3>1, PutOnRegister
        <3> QED
            BY <3>2
    <2>2. CASE Committed(c)
        <3>1. /\ BootRecord(slots') = RecordOf(slots', cand.slot)
              /\ value.gen < GenMax
              /\ shadow' = [gen |-> value.gen + 1, object |-> c.payload]
              /\ c.payload \in ValidPayload
            BY <1>2, <2>2, PutOnRegister DEF Abstract
        <3>2. shadow' \in {[gen |-> value.gen + 1, object |-> p] : p \in ValidPayload}
            BY <3>1
        <3>3. value' = value \/ value' = shadow'
            BY <1>2, <3>1, PutOnRegister
        <3> HIDE DEF value, shadow
        <3>4. \/ value.gen < GenMax /\ value' \in {[gen |-> value.gen + 1, object |-> p] : p \in ValidPayload}
                 /\ shadow' = value'
              \/ value.gen < GenMax /\ shadow' \in {[gen |-> value.gen + 1, object |-> p] : p \in ValidPayload}
                 /\ value' = value
            BY <3>1, <3>2, <3>3
        <3> QED
            BY <3>4 DEF value, shadow
    <2> QED
        BY <2>1, <2>2
<1>4. CASE /\ step # "none" /\ OnOther
           /\ \E c \in TornStep :
                  /\ Put(c)
                  /\ \/ active' = active
                     \/ active' = BootRecord(slots')
                     \/ /\ Committed(c) /\ c # slots[cand.slot]
                        /\ active' = RecordOf(slots', cand.slot)
    <2>1. PICK c \in TornStep :
              /\ Put(c)
              /\ \/ active' = active
                 \/ active' = BootRecord(slots')
                 \/ /\ Committed(c) /\ c # slots[cand.slot]
                    /\ active' = RecordOf(slots', cand.slot)
        BY <1>4
    <2>2. CASE c # slots[cand.slot]
        BY <1>2, <1>4, <2>1, <2>2
    <2>3. CASE c = slots[cand.slot]
        <3>1. slots' = slots
            BY <2>1, <2>3 DEF Put, Inv, TypeOK
        <3>2. active' = active \/ active' = BootRecord(slots')
            BY <2>1, <2>3
        <3> QED
            BY <1>1, <3>1, <3>2
    <2> QED
        BY <2>2, <2>3
<1> QED
    BY <1>1, <1>4, FlashChange

\* The register says what a user of the store may rely on: whatever calls, failures and
\* resets asset_persistence.c meets, the object in use changes only to a valid object of
\* the next generation, at a commit, or to the one that a failed commit left in doubt,
\* at the next boot selection.
THEOREM StoreImplementsRegister == Spec => ImplementsRegister
<1>1. Init => Register!RegInit
    <2>1. SUFFICES ASSUME Init PROVE Register!RegInit
        OBVIOUS
    <2>2. ~Committed(ErasedSlot)
        BY CommittedFacts DEF ErasedSlot
    <2>3. slots["A"] = ErasedSlot /\ slots["B"] = ErasedSlot /\ active = NoRecord
        BY <2>1 DEF Init, Slot
    <2>4. BootRecord(slots) = NoRecord
        BY <2>2, <2>3 DEF BootRecord
    <2> QED
        BY <2>3, <2>4, NoRecordFacts
           DEF Register!RegInit, Register!Nothing, Abstract, PayloadOf
<1>2. Inv /\ [Next]_vars
          => [UNCHANGED <<slots, active>> \/ Register!RegNext]_Register!regVars
    BY StepOnRegister DEF vars, Register!regVars, Abstract
<1> QED
    BY <1>1, <1>2, StoreInvariant, PTL DEF Spec, ImplementsRegister

(***************************************************************************)
(* Part two: the transfer session                                          *)
(***************************************************************************)

-----------------------------------------------------------------------------
(* The invariant *)

\* The bytes given to the candidate: the acknowledged ones, and those of a write that
\* runs or has succeeded.
Given ==
    IF busy /\ req.kind = "WRITE" /\ (~Idle \/ ret = "OK") THEN sent \o req.data ELSE sent

\* In compare mode the record in use begins with the bytes s.
Compared(s) ==
    /\ Idle
    /\ active # NoRecord
    /\ cand.accepted = Len(s)
    /\ \A i \in 1..Len(s) : ActivePayload[i] = s[i]

\* In a changed candidate the bytes s are programmed up to Offset, and the bytes at
\* hand go on from there.
Filled(s) ==
    /\ OnOther
    /\ Offset % 2 = 0
    /\ Len(cand.pend) <= 1
    /\ Offset + Len(Stream) = Len(s)
    /\ \A i \in 1..Offset : slots[cand.slot].payload[i] = s[i]
    /\ \A i \in 1..Len(Stream) : Stream[i] = s[Offset + i]

Holds(s) == cand.active /\ IF cand.compare THEN Compared(s) ELSE Filled(s)

TransferTypeOK ==
    /\ sess \in [active : BOOLEAN, id : TransferId \cup {NoId}, crc : CrcValue,
                 next : Nat, last : Seq(Byte)]
    /\ req \in [kind : {"none", "BEGIN", "WRITE", "COMMIT", "ABORT"},
                id : TransferId \cup {NoId}, off : Nat, data : Seq(Byte)]
    /\ busy \in BOOLEAN
    /\ sent \in Seq(Byte)
    /\ doubt \in BOOLEAN

\* A handler waits for a call that its request makes.
CallInv ==
    /\ ~busy => Idle
    /\ todo # <<>> => step \in {"erase", "metadata", "payload"}
    /\ busy => /\ sess.active /\ reply = "none"
               /\ req.kind \in {"BEGIN", "WRITE", "COMMIT"}
               /\ req.kind = "BEGIN" => /\ step \in {"none", "erase", "metadata"}
                                        /\ sent = <<>>
               /\ req.kind = "WRITE" => /\ step \in {"none", "erase", "metadata", "payload"}
                                        /\ req.off = Len(sent)
                                        /\ Len(sent) + Len(req.data) <= PayloadLen
               /\ req.kind = "COMMIT" => /\ step \in {"none", "hcrc", "marker"}
                                         /\ Len(sent) = PayloadLen

\* The results with which the calls of a session end.
RetInv ==
    /\ ret # "BAD_STATE"
    /\ busy /\ Idle =>
           IF req.kind = "COMMIT"
           THEN ret \in {"OK", "UNCHANGED", "STORAGE_ERROR", "CRC_MISMATCH",
                         "VALIDATION_FAILED"}
           ELSE ret \in {"OK", "WEAR_BUDGET_EXHAUSTED", "STORAGE_ERROR"}

\* The session and what it has acknowledged.
SessionInv ==
    /\ sess.active => /\ sess.next = Len(sent) /\ Len(sent) <= PayloadLen
                      /\ Len(sess.last) <= Len(sent)
                      /\ \A i \in 1..Len(sess.last) :
                             sess.last[i] = sent[Len(sent) - Len(sess.last) + i]
    /\ ~sess.active /\ sess.id # NoId => PayloadOf(slots, active) = sent
    /\ ~busy /\ cand.active => sess.active

\* Unless its call has failed, an open session finds its bytes in the candidate, or in
\* use when the call was a successful commit.
Failed ==
    busy /\ Idle /\
        \/ ret \in {"STORAGE_ERROR", "CRC_MISMATCH", "VALIDATION_FAILED"}
        \/ ret = "WEAR_BUDGET_EXHAUSTED" /\ req.kind = "BEGIN"
Stored == busy /\ Idle /\ req.kind = "COMMIT"

HoldInv ==
    sess.active /\ ~Failed =>
        IF Stored THEN ~cand.active /\ PayloadOf(slots, active) = sent ELSE Holds(Given)

\* An acknowledged object is in use, and the boot selection finds it.
PromiseInv ==
    /\ promised # NoPayload => PayloadOf(slots, active) = promised
    /\ ~doubt => BootRecord(slots) = active

TransferInv ==
    /\ TransferTypeOK /\ CallInv /\ RetInv /\ SessionInv /\ HoldInv /\ PromiseInv
    /\ WriteOkMeansAccepted /\ CommitOkMeansStored

-----------------------------------------------------------------------------
(* The session is a caller of the store *)

\* Every action of the session makes one step of the store, or none.
LEMMA TransferStep ==
    ASSUME ~busy => Idle, TransferNext
    PROVE  Next \/ UNCHANGED vars
<1> USE DEF Next, Call
<1>1. ASSUME ClearSession, Idle PROVE Next
    BY <1>1 DEF ClearSession, AbortCandidate
<1>2. ASSUME NEW id \in TransferId, NEW v \in CrcValue,
             HandleBegin(id, v) \/ HandleBeginActive(id, v)
      PROVE  Next \/ UNCHANGED vars
    BY <1>2 DEF HandleBegin, HandleBeginActive
<1>3. ASSUME NEW id \in TransferId, NEW off \in 0..(PayloadLen - 1), NEW d \in Chunk,
             HandleWrite(id, off, d) \/ HandleWriteAnswered(id, off, d)
      PROVE  Next \/ UNCHANGED vars
    BY <1>3 DEF HandleWrite, HandleWriteAnswered
<1>4. ASSUME NEW id \in TransferId,
             HandleCommit(id) \/ HandleCommitAnswered(id) \/ HandleAbort(id)
      PROVE  Next \/ UNCHANGED vars
    BY <1>1, <1>4 DEF HandleCommit, HandleCommitAnswered, HandleAbort, Answer
<1>5. CASE EndBegin \/ EndWrite \/ EndCommit
    BY <1>1, <1>5 DEF EndBegin, EndWrite, EndCommit, Returned
<1>6. CASE PollTimeout \/ ProtocolReset
    BY <1>1, <1>6 DEF PollTimeout, ProtocolReset, Quiet
<1>7. CASE StoreStep \/ TransferReset
    BY <1>7 DEF StoreStep, TransferReset
<1> QED
    BY <1>2, <1>3, <1>4, <1>5, <1>6, <1>7 DEF TransferNext, Handle

\* No call runs while no handler waits for one.
LEMMA IdleUnlessBusy == TransferSpec => [](~busy => Idle)
<1>1. TransferInit => (~busy => Idle)
    BY DEF TransferInit, Init, Idle
<1>2. (~busy => Idle) /\ [TransferNext]_xvars => (~busy => Idle)'
    <2>1. SUFFICES ASSUME ~busy => Idle, [TransferNext]_xvars, ~busy' PROVE Idle'
        OBVIOUS
    <2>2. CASE UNCHANGED xvars
        BY <2>1, <2>2 DEF xvars, xferVars, vars, Idle
    <2>3. CASE Handle
        BY <2>1, <2>3 DEF Handle, HandleBegin, HandleBeginActive, HandleWrite,
                HandleWriteAnswered, HandleCommit, HandleCommitAnswered, HandleAbort,
                CallStore, Answer, ClearSession, vars, callVars, Idle
    <2>4. CASE EndBegin \/ EndWrite \/ EndCommit
        BY <2>4 DEF EndBegin, EndWrite, EndCommit, Returned, ClearSession, vars, callVars,
                    Idle
    <2>5. CASE PollTimeout \/ ProtocolReset
        BY <2>1, <2>5 DEF PollTimeout, ProtocolReset, Quiet, ClearSession, callVars, Idle
    <2>6. CASE StoreStep
        <3>1. busy /\ busy' = busy
            BY <2>6 DEF StoreStep
        <3> QED
            BY <2>1, <3>1
    <2>7. CASE TransferReset
        BY <2>7 DEF TransferReset, Reset, Idle
    <2> QED
        BY <2>1, <2>2, <2>3, <2>4, <2>5, <2>6, <2>7 DEF TransferNext
<1> QED
    BY <1>1, <1>2, PTL DEF TransferSpec

\* asset_transfer.c uses asset_persistence.c as the store's specification allows any
\* caller to: one call at a time, each run to its end.
THEOREM TransferUsesStore == TransferSpec => Spec
<1>1. TransferInit => Init
    BY DEF TransferInit
<1>2. (~busy => Idle) /\ [TransferNext]_xvars => [Next]_vars
    BY TransferStep DEF xvars
<1> QED
    BY <1>1, <1>2, IdleUnlessBusy, PTL DEF TransferSpec, Spec

\* The store's types, its intact record in use, its unambiguous boot selection and its
\* wear limit hold under the requests of a host.
THEOREM TransferStoreHolds == TransferSpec => []StoreHolds
    BY TransferUsesStore, StoreAlwaysHolds

\* Whatever requests, repetitions, failures and resets come, the object in use moves
\* as the abstract register does.
THEOREM TransferImplementsRegister == TransferSpec => ImplementsRegister
    BY TransferUsesStore, StoreImplementsRegister

-----------------------------------------------------------------------------
(* What the candidate holds *)

\* Where an index beyond the first part of a sequence points in the second.
LEMMA Beyond ==
    ASSUME NEW a \in Nat, NEW b \in Nat, NEW o \in Nat, NEW i \in 1..(a + b), i > a
    PROVE  i - a \in 1..b /\ i = a + (i - a) /\ o + i = (o + a) + (i - a)
    OBVIOUS

\* The bytes at hand, one after the other.
LEMMA StreamElements ==
    ASSUME NEW p \in Seq(Byte), NEW t \in Seq(Byte)
    PROVE  /\ p \o t \in Seq(Byte)
           /\ Len(p \o t) = Len(p) + Len(t)
           /\ \A i \in 1..Len(p) : (p \o t)[i] = p[i]
           /\ \A i \in 1..Len(t) : (p \o t)[Len(p) + i] = t[i]
<1>1. /\ p \o t \in Seq(Byte) /\ Len(p \o t) = Len(p) + Len(t)
      /\ \A i \in 1..(Len(p) + Len(t)) :
             (p \o t)[i] = IF i <= Len(p) THEN p[i] ELSE t[i - Len(p)]
    BY ConcatProperties
<1>2. Len(p) \in Nat /\ Len(t) \in Nat
    OBVIOUS
<1> QED
    BY <1>1, <1>2

\* The lengths and types that every call relies on.
LEMMA CandidateFacts ==
    ASSUME Inv
    PROVE  /\ cand \in CandidateType /\ cand.accepted \in 0..PayloadLen
           /\ PayloadLen \in Nat
           /\ cand.pend \in Seq(Byte) /\ todo \in Seq(Byte)
           /\ Len(cand.pend) \in Nat /\ Len(cand.pend) <= cand.accepted
           /\ Offset \in Nat
           /\ Stream \in Seq(Byte) /\ Len(Stream) = Len(cand.pend) + Len(todo)
<1>1. cand \in CandidateType /\ PayloadLen \in Nat
    BY AssetAssumption DEF Inv, TypeOK, CandidateType
<1>2. cand.pend \in Seq(Byte) /\ todo \in Seq(Byte) /\ cand.accepted \in 0..PayloadLen
    BY <1>1 DEF Inv, TypeOK, CandidateType
<1>3. Len(cand.pend) \in Nat /\ Len(cand.pend) <= cand.accepted
    BY <1>2 DEF Inv, LengthInv
<1> QED
    BY <1>1, <1>2, <1>3, StreamElements DEF Stream, Offset

\* The payload of the record in use is a sequence of bytes.
LEMMA ActivePayloadType ==
    ASSUME Inv, active # NoRecord
    PROVE  ActivePayload \in Payload /\ active.slot \in Slot
    BY CommittedFacts, ActiveFacts DEF Inv, SlotsInv, Intact, ActivePayload

\* asset_start_changed() refuses at the wear limit; otherwise it starts with an erase
\* and with all the bytes still at hand.
LEMMA StartChangedHolds ==
    ASSUME Inv, NEW c \in CandidateType, c.active, NEW bytes \in Seq(Byte), NEW copied,
           StartChanged(c, bytes, copied), UNCHANGED <<slots, active>>
    PROVE  \/ /\ step' = "none" /\ ret' = "WEAR_BUDGET_EXHAUSTED" /\ todo' = <<>>
              /\ cand' = c
           \/ step' = "erase" /\ Holds(bytes)'
<1>1. CASE active # NoRecord /\ active.gen >= GenMax
    BY <1>1 DEF StartChanged, Return
<1>2. CASE ~(active # NoRecord /\ active.gen >= GenMax)
    <2>1. /\ step' = "erase" /\ todo' = bytes
          /\ cand'.active /\ ~cand'.compare
          /\ cand'.slot = InactiveSlot /\ cand'.accepted = 0 /\ cand'.pend = <<>>
        BY <1>2 DEF StartChanged, CandidateType
    <2>2. OnOther'
        BY <2>1, InactiveSlotIsOther DEF OnOther, Inv
    <2>3. Offset' = 0 /\ Stream' = bytes
        <3>1. cand'.accepted - Len(cand'.pend) = 0
            <4>1. Len(cand'.pend) = 0
                BY <2>1
            <4>2. 0 - 0 = 0
                OBVIOUS
            <4> QED
                BY <2>1, <4>1, <4>2, Zenon
        <3>2. cand'.pend \o todo' = bytes
            BY <2>1, ConcatEmptySeq
        <3> QED
            BY <3>1, <3>2 DEF Offset, Stream
    <2> QED
        BY <2>1, <2>2, <2>3 DEF Holds, Filled
<1> QED
    BY <1>1, <1>2

\* BEGIN leaves an empty candidate, one about to be erased, or a refusal.
LEMMA BeginHolds ==
    ASSUME Inv, Idle, ~cand.active, NEW v \in CrcValue, BeginCandidate(v)
    PROVE  \/ step' = "none" /\ ret' = "OK" /\ todo' = <<>> /\ Holds(<<>>)'
           \/ step' = "none" /\ ret' = "WEAR_BUDGET_EXHAUSTED" /\ todo' = <<>>
           \/ step' = "erase" /\ Holds(<<>>)'
<1> DEFINE c == [cand EXCEPT !.active = TRUE, !.crc = v]
<1>1. c \in CandidateType /\ c.active /\ cand \in CandidateType
    BY CandidateFacts DEF CandidateType
<1>2. CASE active # NoRecord /\ active.crc = v
    <2>1. /\ cand' = [c EXCEPT !.accepted = 0, !.pend = <<>>, !.compare = TRUE]
          /\ Return("OK") /\ active' = active /\ slots' = slots
        BY <1>2 DEF BeginCandidate
    <2>2. cand'.active /\ cand'.accepted = 0 /\ cand'.compare
        BY <1>1, <2>1 DEF CandidateType
    <2> QED
        BY <1>2, <2>1, <2>2 DEF Holds, Compared, Return, Idle
<1>3. CASE ~(active # NoRecord /\ active.crc = v)
    <2>1. StartChanged(c, <<>>, 0) /\ UNCHANGED <<slots, active>>
        BY <1>3 DEF BeginCandidate
    <2> HIDE DEF c
    <2>2. <<>> \in Seq(Byte)
        OBVIOUS
    <2>3. \/ step' = "none" /\ ret' = "WEAR_BUDGET_EXHAUSTED" /\ todo' = <<>> /\ cand' = c
          \/ step' = "erase" /\ Holds(<<>>)'
        BY <1>1, <2>1, <2>2, StartChangedHolds
    <2> QED
        BY <2>3
<1> QED
    BY <1>2, <1>3

\* Between calls the candidate has accepted exactly the bytes it holds.
LEMMA AcceptedIsHeld ==
    ASSUME Inv, NEW s \in Seq(Byte), Holds(s), todo = <<>>
    PROVE  cand.accepted = Len(s) /\ cand.active
<1>1. CASE cand.compare
    BY <1>1 DEF Holds, Compared
<1>2. CASE ~cand.compare
    <2>1. Offset + Len(Stream) = Len(s) /\ Len(todo) = 0
        BY <1>2 DEF Holds, Filled
    <2> QED
        BY <1>2, <2>1, CandidateFacts DEF Holds, Offset
<1> QED
    BY <1>1, <1>2 DEF Holds

\* A write that fits is taken to the end, goes on with its bytes at hand, or is refused
\* at the wear limit with the candidate as it was.
LEMMA WriteHolds ==
    ASSUME Inv, Idle, todo = <<>>, NEW s \in Seq(Byte), Holds(s),
           NEW data \in Chunk, Len(s) + Len(data) <= PayloadLen, WriteCandidate(data)
    PROVE  \/ step' = "none" /\ ret' = "OK" /\ todo' = <<>> /\ Holds(s \o data)'
           \/ /\ step' = "none" /\ ret' = "WEAR_BUDGET_EXHAUSTED" /\ todo' = <<>>
              /\ Holds(s)'
           \/ step' \in {"erase", "payload"} /\ Holds(s \o data)'
<1>1. /\ data \in Seq(Byte) /\ Len(data) \in Nat /\ Len(s) \in Nat
      /\ slots' = slots /\ active' = active
    BY AssetAssumption DEF WriteCandidate
<1>2. /\ s \o data \in Seq(Byte) /\ Len(s \o data) = Len(s) + Len(data)
      /\ \A i \in 1..Len(s) : (s \o data)[i] = s[i]
      /\ \A i \in 1..Len(data) : (s \o data)[Len(s) + i] = data[i]
    BY <1>1, StreamElements
<1>3. cand.accepted = Len(s) /\ cand.active
    BY AcceptedIsHeld
<1>6. cand.active /\ ~(cand.accepted + Len(data) > PayloadLen)
    BY <1>1, <1>3, CandidateFacts
<1>4. CASE ~cand.compare
    <2>1. step' = "payload" /\ todo' = data /\ cand' = cand
        BY <1>4, <1>6 DEF WriteCandidate
    <2>2. Filled(s)
        BY <1>4 DEF Holds
    <2>3. Offset' = Offset /\ Stream' = cand.pend \o data /\ Stream = cand.pend
        BY <2>1, CandidateFacts DEF Offset, Stream
    <2>4. /\ Len(Stream') = Len(cand.pend) + Len(data)
          /\ \A i \in 1..Len(cand.pend) : Stream'[i] = cand.pend[i]
          /\ \A i \in 1..Len(data) : Stream'[Len(cand.pend) + i] = data[i]
        BY <1>1, <2>3, CandidateFacts, StreamElements
    <2>5. /\ Offset + Len(cand.pend) = Len(s)
          /\ Offset \in Nat /\ Len(cand.pend) \in Nat
          /\ \A i \in 1..Len(cand.pend) : cand.pend[i] = s[Offset + i]
        BY <2>2, <2>3, CandidateFacts DEF Filled
    <2>6. ASSUME NEW i \in 1..Len(Stream') PROVE Stream'[i] = (s \o data)[Offset + i]
        <3>1. CASE i <= Len(cand.pend)
            <4>1. Offset + i \in 1..Len(s) /\ i \in 1..Len(cand.pend)
                BY <2>5, <2>6, <3>1
            <4> QED
                BY <1>2, <2>4, <2>5, <4>1
        <3>2. CASE i > Len(cand.pend)
            <4> DEFINE j == i - Len(cand.pend)
            <4>1. /\ i \in 1..(Len(cand.pend) + Len(data)) /\ Len(data) \in Nat
                  /\ Len(s) \in Nat /\ i > Len(cand.pend)
                  /\ Offset + Len(cand.pend) = Len(s)
                  /\ Offset \in Nat /\ Len(cand.pend) \in Nat
                BY <1>1, <2>4, <2>5, <2>6, <3>2
            <4>3. j \in 1..Len(data) /\ i = Len(cand.pend) + j /\ Offset + i = Len(s) + j
                <5>1. /\ i - Len(cand.pend) \in 1..Len(data)
                      /\ i = Len(cand.pend) + (i - Len(cand.pend))
                      /\ Offset + i = (Offset + Len(cand.pend)) + (i - Len(cand.pend))
                    BY <4>1, Beyond, ZenonT(60)
                <5> QED
                    BY <4>1, <5>1, Zenon
            <4> HIDE DEF j
            <4> QED
                BY <1>2, <2>4, <4>3
        <3> QED
            BY <2>4, <2>5, <2>6, <3>1, <3>2, SMTT(30)
    <2>7. ASSUME NEW i \in 1..Offset
          PROVE  slots[cand.slot].payload[i] = (s \o data)[i]
        <3>1. i \in 1..Len(s)
            BY <1>1, <2>5, <2>7
        <3> QED
            BY <1>2, <2>2, <3>1 DEF Filled
    <2>8. Filled(s \o data)'
        <3>1. OnOther' /\ Offset' % 2 = 0 /\ Len(cand'.pend) <= 1
            BY <1>1, <2>1, <2>2, <2>3 DEF Filled, OnOther
        <3>2. Offset' + Len(Stream') = Len(s \o data)
            <4>1. /\ Offset + Len(cand.pend) = Len(s) /\ Len(s) \in Nat
                  /\ Offset \in Nat /\ Len(cand.pend) \in Nat /\ Len(data) \in Nat
                BY <1>1, <2>5
            <4>2. Offset + (Len(cand.pend) + Len(data)) = Len(s) + Len(data)
                BY <4>1
            <4> QED
                BY <1>2, <2>3, <2>4, <4>2
        <3>3. \A i \in 1..Offset' : slots'[cand'.slot].payload[i] = (s \o data)[i]
            BY <1>1, <2>1, <2>3, <2>7
        <3>4. \A i \in 1..Len(Stream') : Stream'[i] = (s \o data)[Offset' + i]
            BY <2>3, <2>6
        <3> QED
            BY <3>1, <3>2, <3>3, <3>4 DEF Filled
    <2> QED
        BY <1>3, <1>4, <2>1, <2>8 DEF Holds
<1>5. CASE cand.compare
    <2> DEFINE n == cand.accepted
               differ == {i \in 1..Len(data) : ActivePayload[n + i] # data[i]}
               first == CHOOSE i \in differ : \A j \in differ : i <= j
               equal == n + first - 1
    <2>1. /\ active # NoRecord /\ n \in Nat
          /\ \A i \in 1..n : ActivePayload[i] = s[i]
          /\ ActivePayload' = ActivePayload
        BY <1>1, <1>3, <1>5 DEF Holds, Compared, ActivePayload
    <2>2. CASE differ = {}
        <3>1. cand' = [cand EXCEPT !.accepted = n + Len(data)] /\ Return("OK")
            BY <1>3, <1>5, <1>6, <2>2 DEF WriteCandidate
        <3>2. cand'.active /\ cand'.compare /\ cand'.accepted = n + Len(data)
            BY <1>3, <1>5, <3>1, CandidateFacts DEF CandidateType
        <3>3. ASSUME NEW i \in 1..Len(s \o data)
              PROVE  ActivePayload[i] = (s \o data)[i]
            <4>1. CASE i <= n
                BY <1>2, <1>3, <2>1, <3>3, <4>1
            <4>2. CASE i > n
                <5> DEFINE j == i - n
                <5>1. j \in 1..Len(data) /\ i = n + j
                    BY <1>1, <1>2, <1>3, <3>3, <4>2
                <5> HIDE DEF j
                <5>2. ActivePayload[n + j] = data[j]
                    BY <2>2, <5>1
                <5> QED
                    BY <1>2, <1>3, <5>1, <5>2
            <4> QED
                BY <1>1, <1>2, <1>3, <3>3, <4>1, <4>2
        <3>4. Compared(s \o data)'
            BY <1>1, <1>2, <1>3, <2>1, <3>1, <3>2, <3>3 DEF Compared, Return, Idle
        <3> QED
            BY <3>1, <3>2, <3>4 DEF Holds, Return
    <2>3. CASE differ # {}
        <3> DEFINE prefix == SubSeq(ActivePayload, 1, n)
        <3>1. StartChanged(cand, prefix \o data, equal - (equal % 2))
            BY <1>3, <1>5, <1>6, <2>3 DEF WriteCandidate
        <3>2. prefix = s
            <4>1. ActivePayload \in Seq(Byte) /\ Len(ActivePayload) = PayloadLen
                BY <2>1, ActivePayloadType, AssetAssumption DEF Payload
            <4>2. n <= PayloadLen
                BY CandidateFacts
            <4>3. 1 \in 1..(Len(ActivePayload) + 1) /\ n \in (1 - 1)..Len(ActivePayload)
                BY <2>1, <4>1, <4>2, AssetAssumption
            <4>4. /\ prefix \in Seq(Byte)
                  /\ Len(prefix) = IF 1 <= n THEN n - 1 + 1 ELSE 0
                  /\ \A i \in 1..n - 1 + 1 : prefix[i] = ActivePayload[1 + i - 1]
                BY <4>1, <4>3, SubSeqProperties
            <4> HIDE DEF prefix
            <4>5. Len(prefix) = Len(s) /\ \A i \in 1..Len(s) : prefix[i] = s[i]
                BY <1>1, <1>3, <2>1, <4>4
            <4> QED
                BY <4>4, <4>5
        <3> DEFINE copied == equal - (equal % 2)
        <3> HIDE DEF prefix, copied
        <3>3. StartChanged(cand, s \o data, copied) /\ cand \in CandidateType
            BY <3>1, <3>2, CandidateFacts DEF copied
        <3>4. CASE step' = "none" /\ ret' = "WEAR_BUDGET_EXHAUSTED" /\ todo' = <<>> /\ cand' = cand
            BY <1>1, <1>3, <1>5, <2>1, <3>4 DEF Holds, Compared, Idle
        <3>5. CASE step' = "erase" /\ Holds(s \o data)'
            BY <3>5
        <3> QED
            BY <1>1, <1>2, <1>3, <3>3, <3>4, <3>5, StartChangedHolds
    <2> QED
        BY <2>2, <2>3
<1> QED
    BY <1>4, <1>5

\* A complete candidate is the whole payload, with no odd byte waiting.
LEMMA CompleteCandidate ==
    ASSUME Inv, NEW s \in Seq(Byte), Holds(s), Len(s) = PayloadLen, todo = <<>>
    PROVE  /\ cand.active /\ cand.accepted = PayloadLen
           /\ cand.compare => active # NoRecord /\ ActivePayload = s
           /\ ~cand.compare => /\ OnOther /\ cand.pend = <<>>
                               /\ \A i \in 1..PayloadLen : slots[cand.slot].payload[i] = s[i]
<1>1. cand.active /\ s \in [1..PayloadLen -> Byte] /\ PayloadLen \in Nat
    BY AssetAssumption DEF Holds
<1>2. CASE cand.compare
    <2>1. /\ active # NoRecord /\ cand.accepted = PayloadLen
          /\ \A i \in 1..PayloadLen : ActivePayload[i] = s[i]
        BY <1>2 DEF Holds, Compared
    <2>2. ActivePayload \in [1..PayloadLen -> Byte]
        BY <2>1, ActivePayloadType DEF Payload
    <2>3. ActivePayload = s
        BY <1>1, <2>1, <2>2
    <2> QED
        BY <1>1, <1>2, <2>1, <2>3
<1>3. CASE ~cand.compare
    <2>1. Filled(s)
        BY <1>3 DEF Holds
    <2> DEFINE a == cand.accepted
               p == Len(cand.pend)
    <2>2. Len(Stream) = p /\ a \in Nat /\ p \in Nat /\ Offset = a - p
        BY CandidateFacts DEF Offset
    <2>3. (a - p) % 2 = 0 /\ p <= 1 /\ (a - p) + p = PayloadLen
        BY <2>1, <2>2 DEF Filled
    <2> HIDE DEF a, p
    <2>4. a = PayloadLen
        BY <2>2, <2>3
    <2>5. p = 0
        BY <2>2, <2>3, <2>4, AssetAssumption
    <2>6. Offset = PayloadLen
        <3>1. a - 0 = PayloadLen
            BY <1>1, <2>4
        <3> QED
            BY <2>2, <2>5, <3>1, Zenon
    <2>7. cand.pend = <<>>
        BY <2>5, CandidateFacts, EmptySeq DEF p
    <2> QED
        BY <1>1, <1>3, <2>1, <2>4, <2>6, <2>7 DEF Filled, a
<1> QED
    BY <1>2, <1>3

\* A commit of a complete candidate finds its bytes in use already, or goes on to the
\* header CRC.
LEMMA CommitHolds ==
    ASSUME Inv, Idle, todo = <<>>, NEW s \in Seq(Byte), Holds(s), Len(s) = PayloadLen,
           CommitCandidate
    PROVE  \/ /\ step' = "none" /\ ret' = "UNCHANGED" /\ todo' = <<>>
              /\ ~cand'.active /\ PayloadOf(slots', active') = s
           \/ step' = "hcrc" /\ todo' = <<>> /\ Holds(s)'
<1>1. /\ cand.active /\ cand.accepted = PayloadLen
      /\ cand.compare => active # NoRecord /\ ActivePayload = s
      /\ ~cand.compare => cand.pend = <<>>
      /\ slots' = slots /\ active' = active /\ cand \in CandidateType
    BY CompleteCandidate, CandidateFacts DEF CommitCandidate
<1>2. CASE cand.compare
    <2>1. CandidateReset /\ Return("UNCHANGED")
        BY <1>1, <1>2 DEF CommitCandidate
    <2> QED
        BY <1>1, <1>2, <2>1, ResetFacts DEF Return, PayloadOf, ActivePayload
<1>3. CASE ~cand.compare
    <2>1. step' = "hcrc" /\ cand' = cand /\ todo' = todo
        BY <1>1, <1>3 DEF CommitCandidate
    <2> QED
        BY <1>1, <1>3, <2>1 DEF Holds, Filled, OnOther, Offset, Stream
<1> QED
    BY <1>2, <1>3

\* An operation that leaves the candidate's bytes and its payload cells alone.
LEMMA HoldsKept ==
    ASSUME Inv, NEW s \in Seq(Byte), Holds(s), step # "none",
           active' = active, cand' = cand, todo' = todo,
           cand.accepted > 0 => slots'[cand.slot].payload = slots[cand.slot].payload
    PROVE  Holds(s)'
<1>1. ~cand.compare /\ Filled(s)
    BY DEF Holds, Inv, CandInv
<1>2. Offset' = Offset /\ Stream' = Stream /\ OnOther'
    BY <1>1 DEF Offset, Stream, OnOther, Filled
<1>3. ASSUME NEW i \in 1..Offset PROVE slots'[cand.slot].payload[i] = s[i]
    <2>1. cand.accepted > 0
        <3> DEFINE a == cand.accepted
                   p == Len(cand.pend)
        <3>1. a \in Nat /\ p \in Nat /\ p <= a /\ i \in 1..(a - p)
            BY <1>3, CandidateFacts DEF Offset
        <3> HIDE DEF a, p
        <3>2. a > 0
            BY <3>1
        <3> QED
            BY <3>2 DEF a
    <2> QED
        BY <1>1, <2>1 DEF Filled
<1> QED
    BY <1>1, <1>2, <1>3 DEF Holds, Filled

\* The erase: nothing of the candidate is programmed yet.
LEMMA EraseHolds ==
    ASSUME Inv, NEW s \in Seq(Byte), Holds(s), ErasePage \/ ErasePageFails
    PROVE  \/ step' = "metadata" /\ Holds(s)'
           \/ step' = "none" /\ ret' = "STORAGE_ERROR" /\ todo' = <<>>
<1>1. CASE ErasePage
    <2>1. cand.accepted = 0 /\ step = "erase"
        BY <1>1 DEF ErasePage, Inv, LengthInv
    <2>2. step' = "metadata" /\ active' = active /\ cand' = cand /\ todo' = todo
        BY <1>1 DEF ErasePage
    <2> QED
        BY <2>1, <2>2, HoldsKept
<1>2. CASE ErasePageFails
    BY <1>2 DEF ErasePageFails, Return
<1> QED
    BY <1>1, <1>2

\* The metadata: a BEGIN ends here, a write goes on with its bytes.
LEMMA MetadataHolds ==
    ASSUME Inv, NEW s \in Seq(Byte), Holds(s), ProgramMetadata \/ ProgramMetadataFails
    PROVE  \/ step' = "payload" /\ s # <<>> /\ Holds(s)'
           \/ step' = "none" /\ ret' = "OK" /\ todo' = <<>> /\ Holds(s)'
           \/ step' = "none" /\ ret' = "STORAGE_ERROR" /\ todo' = <<>>
<1>1. CASE ProgramMetadata
    <2>1. step = "metadata" /\ active' = active /\ cand' = cand /\ todo' = todo
        BY <1>1 DEF ProgramMetadata, Return
    <2>2. slots'[cand.slot].payload = slots[cand.slot].payload
        BY <1>1, <2>1 DEF ProgramMetadata, Put, Inv, TypeOK, StepInv, OnOther, Content
    <2>3. Holds(s)'
        BY <2>1, <2>2, HoldsKept
    <2>4. \/ todo = <<>> /\ step' = "none" /\ ret' = "OK"
          \/ todo # <<>> /\ step' = "payload"
        BY <1>1 DEF ProgramMetadata, Return
    <2>5. s = <<>> => todo = <<>>
        <3>1. Offset \in Nat /\ Offset + Len(Stream) = Len(s) /\ Len(Stream) \in Nat
              /\ Len(Stream) = Len(cand.pend) + Len(todo) /\ Len(cand.pend) \in Nat
              /\ Len(todo) \in Nat /\ todo \in Seq(Byte)
            BY <2>1, CandidateFacts DEF Holds, Filled, Inv, CandInv
        <3>2. s = <<>> => Len(todo) = 0
            BY <3>1
        <3> QED
            BY <3>1, <3>2, EmptySeq
    <2> QED
        BY <2>1, <2>3, <2>4, <2>5
<1>2. CASE ProgramMetadataFails
    BY <1>2 DEF ProgramMetadataFails, Return
<1> QED
    BY <1>1, <1>2

\* One halfword more is programmed: it leaves the bytes at hand.
LEMMA ProgramPayloadHolds ==
    ASSUME Inv, NEW s \in Seq(Byte), Holds(s), ProgramPayload
    PROVE  step' = "payload" /\ Holds(s)'
<1> DEFINE c == WithHalf(slots[cand.slot], Offset, Stream[1], Stream[2])
           n == Len(Stream)
           o == Offset
<1>1. /\ step = "payload" /\ step' = step /\ active' = active
      /\ n >= 2 /\ HalfWritable /\ Put(c)
      /\ cand' = [cand EXCEPT !.accepted = o + 2, !.pend = <<>>]
      /\ todo' = SubSeq(Stream, 3, n)
    BY DEF ProgramPayload
<1>2. /\ o \in Nat /\ n \in Nat /\ o + n <= PayloadLen /\ Stream \in Seq(Byte)
      /\ PayloadLen \in Nat
    BY <1>1, StreamFacts, AssetAssumption DEF Inv
<1>3. ~cand.compare /\ Filled(s) /\ cand.active
    BY <1>1 DEF Holds, Inv, CandInv
<1>4. o % 2 = 0 /\ o + n = Len(s) /\ OnOther
    BY <1>3 DEF Filled
<1>5. /\ cand'.active /\ ~cand'.compare /\ cand'.slot = cand.slot
      /\ cand'.accepted = o + 2 /\ cand'.pend = <<>>
    BY <1>1, <1>3, CandidateFacts DEF CandidateType
<1>6. OnOther' /\ slots'[cand.slot] = c
    BY <1>1, <1>4, <1>5 DEF OnOther, Put, Inv, TypeOK
<1>7. /\ todo' \in Seq(Byte) /\ Len(todo') = n - 2
      /\ \A i \in 1..(n - 2) : todo'[i] = Stream[i + 2]
    <2>1. 3 \in 1..(n + 1) /\ n \in (3 - 1)..n
        BY <1>1, <1>2
    <2>2. /\ todo' \in Seq(Byte)
          /\ Len(todo') = IF 3 <= n THEN n - 3 + 1 ELSE 0
          /\ \A i \in 1..n - 3 + 1 : todo'[i] = Stream[3 + i - 1]
        <3>1. /\ SubSeq(Stream, 3, n) \in Seq(Byte)
              /\ Len(SubSeq(Stream, 3, n)) = IF 3 <= n THEN n - 3 + 1 ELSE 0
              /\ \A i \in 1..n - 3 + 1 : SubSeq(Stream, 3, n)[i] = Stream[3 + i - 1]
            BY <1>2, <2>1, SubSeqProperties
        <3> QED
            BY <1>1, <3>1, Zenon
    <2> HIDE DEF n
    <2>3. Len(todo') = n - 2 /\ n - 3 + 1 = n - 2
        BY <1>1, <1>2, <2>2
    <2>4. ASSUME NEW i \in 1..(n - 2) PROVE todo'[i] = Stream[i + 2]
        <3>1. 3 + i - 1 = i + 2
            OBVIOUS
        <3>2. todo'[i] = Stream[3 + i - 1]
            BY <2>2, <2>3, <2>4, Zenon
        <3> QED
            BY <3>1, <3>2, Zenon
    <2> QED
        BY <2>2, <2>3, <2>4
<1>8. Offset' = o + 2 /\ Stream' = todo'
    <2>1. Len(cand'.pend) = 0 /\ (o + 2) - 0 = o + 2
        BY <1>2, <1>5
    <2>2. Offset' = o + 2
        BY <1>5, <2>1, Zenon DEF Offset
    <2>3. cand'.pend \o todo' = todo'
        BY <1>5, <1>7, ConcatEmptySeq, Zenon
    <2> QED
        BY <2>2, <2>3 DEF Stream
<1>9. Offset' % 2 = 0 /\ Offset' + Len(Stream') = Len(s) /\ Len(cand'.pend) <= 1
    <2> HIDE DEF o, n
    <2>1. (o + 2) % 2 = 0 /\ (o + 2) + (n - 2) = o + n
        BY <1>2, <1>4
    <2>2. Len(cand'.pend) = 0
        BY <1>5
    <2> QED
        BY <1>4, <1>7, <1>8, <2>1, <2>2
<1>10. ASSUME NEW i \in 1..(o + 2) PROVE c.payload[i] = s[i]
    <2> DEFINE old == slots[cand.slot].payload
    <2>1. /\ old \in [1..PayloadLen -> Byte \cup {Junk}]
          /\ c.payload = [old EXCEPT ![o + 1] = Stream[1], ![o + 2] = Stream[2]]
        BY <1>4 DEF WithHalf, Inv, TypeOK, Content, OnOther
    <2>2. /\ \A j \in 1..o : old[j] = s[j]
          /\ \A j \in 1..n : Stream[j] = s[o + j]
        BY <1>3 DEF Filled
    <2> HIDE DEF c, o, n, old
    <2>3. i \in 1..PayloadLen /\ o + 1 \in 1..PayloadLen /\ o + 2 \in 1..PayloadLen
        BY <1>1, <1>2, <1>10
    <2>4. Stream[1] = s[o + 1] /\ Stream[2] = s[o + 2]
        <3>1. 1 \in 1..n /\ 2 \in 1..n
            BY <1>1, <1>2
        <3> QED
            BY <2>2, <3>1, Zenon
    <2>5. CASE i \in 1..o
        <3>1. i # o + 1 /\ i # o + 2
            BY <1>2, <2>5
        <3> QED
            BY <2>1, <2>2, <2>3, <2>5, <3>1
    <2>6. CASE i = o + 1
        BY <1>2, <2>1, <2>3, <2>4, <2>6
    <2>7. CASE i = o + 2
        BY <2>1, <2>3, <2>4, <2>7
    <2> QED
        BY <1>2, <1>10, <2>5, <2>6, <2>7
<1>11. ASSUME NEW i \in 1..(n - 2) PROVE todo'[i] = s[(o + 2) + i]
    <2>1. \A j \in 1..n : Stream[j] = s[o + j]
        BY <1>3 DEF Filled
    <2> HIDE DEF o, n
    <2>2. i + 2 \in 1..n /\ o + (i + 2) = (o + 2) + i
        BY <1>2, <1>11
    <2> QED
        BY <1>7, <1>11, <2>1, <2>2
<1>12. Filled(s)'
    <2>1. \A i \in 1..Offset' : slots'[cand'.slot].payload[i] = s[i]
        BY <1>5, <1>6, <1>8, <1>10
    <2>2. \A i \in 1..Len(Stream') : Stream'[i] = s[Offset' + i]
        BY <1>7, <1>8, <1>11
    <2> QED
        BY <1>6, <1>9, <2>1, <2>2 DEF Filled
<1> QED
    BY <1>1, <1>5, <1>12 DEF Holds

\* The end of a write: an odd last byte waits in the candidate.
LEMMA PayloadDoneHolds ==
    ASSUME Inv, NEW s \in Seq(Byte), Holds(s), PayloadDone
    PROVE  step' = "none" /\ ret' = "OK" /\ todo' = <<>> /\ Holds(s)'
<1> DEFINE a == cand.accepted
           p == Len(cand.pend)
           t == Len(todo)
<1>1. /\ step = "payload" /\ slots' = slots /\ active' = active
      /\ cand' = [cand EXCEPT !.accepted = a + t, !.pend = Stream]
      /\ step' = "none" /\ ret' = "OK" /\ todo' = <<>> /\ Len(Stream) < 2
    BY DEF PayloadDone, Return
<1>2. ~cand.compare /\ Filled(s) /\ cand.active
    BY <1>1 DEF Holds, Inv, CandInv
<1>3. /\ cand'.active /\ ~cand'.compare /\ cand'.slot = cand.slot
      /\ cand'.accepted = a + t /\ cand'.pend = Stream
    BY <1>1, <1>2, CandidateFacts DEF CandidateType
<1>4. /\ a \in Nat /\ p \in Nat /\ t \in Nat /\ p <= a
      /\ Stream \in Seq(Byte) /\ Len(Stream) = p + t /\ Offset = a - p
    BY CandidateFacts DEF Offset
<1>5. Offset' = Offset
    <2>1. Offset' = (a + t) - (p + t)
        BY <1>3, <1>4, Zenon DEF Offset
    <2> HIDE DEF a, p, t
    <2>2. (a + t) - (p + t) = a - p
        BY <1>4
    <2> QED
        BY <1>4, <2>1, <2>2
<1>6. Stream' = Stream
    BY <1>1, <1>3, <1>4, ConcatEmptySeq, Zenon DEF Stream
<1>7. OnOther' /\ Len(cand'.pend) <= 1
    BY <1>1, <1>2, <1>3, <1>4 DEF Filled, OnOther
<1> QED
    BY <1>1, <1>2, <1>3, <1>5, <1>6, <1>7 DEF Holds, Filled

CommitFailure == {"STORAGE_ERROR", "CRC_MISMATCH", "VALIDATION_FAILED"}

\* Validation fails with one of these, or succeeds.
LEMMA ValidateResult ==
    ASSUME NEW c, NEW marker
    PROVE  Validate(c, marker) \in CommitFailure \cup {"OK"}
    BY DEF Validate, CommitFailure

\* The header CRC leaves the payload alone.
LEMMA HeaderCrcHolds ==
    ASSUME Inv, NEW s \in Seq(Byte), Holds(s), todo = <<>>, ProgramHeaderCrc
    PROVE  \/ step' = "marker" /\ todo' = <<>> /\ Holds(s)'
           \/ step' = "none" /\ ret' \in CommitFailure /\ todo' = <<>>
<1> DEFINE c == [slots[cand.slot] EXCEPT !.hcrc = "valid"]
<1>1. /\ step = "hcrc" /\ Put(c) /\ active' = active /\ cand' = cand
      /\ \/ step' = "marker" /\ todo' = todo
         \/ Validate(c, "erased") # "OK" /\ Return(Validate(c, "erased"))
    BY DEF ProgramHeaderCrc
<1>2. cand.slot \in Slot
    BY DEF ProgramHeaderCrc, Writable
<1>3. slots'[cand.slot].payload = slots[cand.slot].payload
    BY <1>1, <1>2 DEF Put, Inv, TypeOK, Content
<1> HIDE DEF c
<1>4. CASE step' = "marker" /\ todo' = todo
    BY <1>1, <1>3, <1>4, HoldsKept
<1>5. CASE Validate(c, "erased") # "OK" /\ Return(Validate(c, "erased"))
    BY <1>5, ValidateResult DEF Return
<1> QED
    BY <1>1, <1>4, <1>5

\* A marker that validates puts exactly the bytes s in use.
LEMMA MarkerHolds ==
    ASSUME Inv, NEW s \in Seq(Byte), Holds(s), Len(s) = PayloadLen, todo = <<>>,
           ProgramMarker
    PROVE  /\ step' = "none" /\ todo' = <<>>
           /\ \/ ret' \in CommitFailure
              \/ ret' = "OK" /\ ~cand'.active /\ PayloadOf(slots', active') = s
<1> DEFINE c == [slots[cand.slot] EXCEPT !.marker = "set"]
<1>1. /\ step = "marker" /\ Put(c) /\ Return(Validate(c, "set"))
      /\ Committed(c) => active' = RecordOf(slots', cand.slot) /\ CandidateReset
    BY DEF ProgramMarker
<1>2. /\ step' = "none" /\ todo' = <<>> /\ ret' = Validate(c, "set")
    BY <1>1 DEF Return
<1>3. ~cand.compare /\ cand.slot \in Slot
    BY <1>1 DEF Inv, CandInv, ProgramMarker, Writable
<1>4. /\ slots[cand.slot] \in Content /\ slots'[cand.slot] = c
      /\ c.payload = slots[cand.slot].payload
    BY <1>1, <1>3 DEF Put, Inv, TypeOK, Content
<1> HIDE DEF c
<1>5. CASE Committed(c)
    <2>1. /\ RecordOf(slots', cand.slot) # NoRecord
          /\ RecordOf(slots', cand.slot).slot = cand.slot
        BY <1>3, <1>4, <1>5, RecordOfType
    <2>2. PayloadOf(slots', active') = c.payload
        BY <1>1, <1>4, <1>5, <2>1 DEF PayloadOf
    <2>3. /\ c.payload \in Payload
          /\ \A i \in 1..PayloadLen : c.payload[i] = s[i]
        BY <1>3, <1>4, <1>5, CompleteCandidate, CommittedFacts
    <2>4. c.payload = s
        BY <2>3 DEF Payload
    <2>5. ret' = "OK" /\ ~cand'.active
        BY <1>1, <1>2, <1>5, ResetFacts, CandidateFacts DEF Committed
    <2> QED
        BY <1>2, <2>2, <2>4, <2>5
<1>6. CASE ~Committed(c)
    BY <1>2, <1>6, ValidateResult DEF Committed
<1> QED
    BY <1>5, <1>6

\* One flash operation of a call that is to bring the bytes s.
LEMMA FlashHolds ==
    ASSUME Inv, NEW s \in Seq(Byte), Holds(s), FlashStep,
           step \in {"hcrc", "marker"} => todo = <<>> /\ Len(s) = PayloadLen
    PROVE  \/ step' = "none" /\ todo' = <<>> /\ ret' = "STORAGE_ERROR"
           \/ step = "erase" /\ step' = "metadata" /\ Holds(s)'
           \/ step = "metadata" /\ step' = "payload" /\ s # <<>> /\ Holds(s)'
           \/ step = "payload" /\ step' = "payload" /\ Holds(s)'
           \/ /\ step \in {"metadata", "payload"} /\ step' = "none" /\ todo' = <<>>
              /\ ret' = "OK" /\ Holds(s)'
           \/ step = "hcrc" /\ step' = "marker" /\ todo' = <<>> /\ Holds(s)'
           \/ /\ step \in {"hcrc", "marker"} /\ step' = "none" /\ todo' = <<>>
              /\ ret' \in CommitFailure
           \/ /\ step = "marker" /\ step' = "none" /\ todo' = <<>> /\ ret' = "OK"
              /\ ~cand'.active /\ PayloadOf(slots', active') = s
<1>1. CASE ErasePage \/ ErasePageFails
    <2>1. step = "erase"
        BY <1>1 DEF ErasePage, ErasePageFails
    <2> QED
        BY <1>1, <2>1, EraseHolds
<1>2. CASE ProgramMetadata \/ ProgramMetadataFails
    <2>1. step = "metadata"
        BY <1>2 DEF ProgramMetadata, ProgramMetadataFails
    <2> QED
        BY <1>2, <2>1, MetadataHolds
<1>3. CASE ProgramPayload
    <2>1. step = "payload"
        BY <1>3 DEF ProgramPayload
    <2> QED
        BY <1>3, <2>1, ProgramPayloadHolds
<1>4. CASE PayloadDone
    <2>1. step = "payload"
        BY <1>4 DEF PayloadDone
    <2> QED
        BY <1>4, <2>1, PayloadDoneHolds
<1>5. CASE ProgramPayloadFails \/ CommitFails
    BY <1>5 DEF ProgramPayloadFails, CommitFails, Return
<1>6. CASE ProgramHeaderCrc
    <2>1. step = "hcrc"
        BY <1>6 DEF ProgramHeaderCrc
    <2> QED
        BY <1>6, <2>1, HeaderCrcHolds
<1>7. CASE ProgramMarker
    <2>1. step = "marker"
        BY <1>7 DEF ProgramMarker
    <2> QED
        BY <1>7, <2>1, MarkerHolds
<1> QED
    BY <1>1, <1>2, <1>3, <1>4, <1>5, <1>6, <1>7 DEF FlashStep

-----------------------------------------------------------------------------
(* What is in use, and what a reset brings up *)

\* Only a marker can leave a committed record in the other slot.
LEMMA TornUncommitted ==
    ASSUME Inv, step \notin {"none", "marker"}, OnOther, NEW c \in TornStep,
           c # slots[cand.slot]
    PROVE  ~Committed(c)
<1> USE CommittedFacts
<1>1. slots[cand.slot] \in Content /\ Sane(slots[cand.slot])
    BY DEF Inv, TypeOK, SlotsInv, OnOther
<1>2. CASE step = "erase"
    BY <1>2, SlotContents DEF TornStep, TornErase
<1>3. step \in {"metadata", "payload"} => slots[cand.slot].marker # "set"
    BY DEF Inv, CandInv, Unmarked
<1>4. CASE step = "metadata"
    <2>1. c.marker = slots[cand.slot].marker
        BY <1>1, <1>4 DEF TornStep, TornMeta, Content
    <2> QED
        BY <1>3, <1>4, <2>1
<1>5. CASE step = "payload"
    <2>1. /\ Len(Stream) >= 2 /\ HalfWritable
          /\ \/ c = WithHalf(slots[cand.slot], Offset, Stream[1], Stream[2])
             \/ c = WithHalf(slots[cand.slot], Offset, Junk, Junk)
        BY <1>5, StreamFacts DEF TornStep, TornHalf, Inv
    <2> QED
        BY <1>5, <2>1, HalfContent
<1>6. CASE step = "hcrc"
    <2>1. slots[cand.slot].hcrc = "erased" /\ c.marker = slots[cand.slot].marker
        BY <1>1, <1>6 DEF TornStep, TornCommit, Content
    <2> QED
        BY <1>1, <2>1 DEF Sane
<1> QED
    BY <1>2, <1>4, <1>5, <1>6 DEF Inv, TypeOK

\* While the boot selection finds the record in use, no step but one at a marker changes
\* that, the record or its payload; a reset brings up the same.
LEMMA BootKept ==
    ASSUME Inv, Next, BootRecord(slots) = active, step # "marker"
    PROVE  /\ active' = active /\ BootRecord(slots') = active'
           /\ PayloadOf(slots', active') = PayloadOf(slots, active)
<1>1. CASE UNCHANGED <<slots, active>>
    BY <1>1
<1>2. CASE slots' = slots /\ active' = BootRecord(slots)
    BY <1>2
<1>3. CASE /\ step # "none" /\ OnOther
           /\ \E c \in TornStep :
                  /\ Put(c)
                  /\ \/ active' = active
                     \/ active' = BootRecord(slots')
                     \/ /\ Committed(c) /\ c # slots[cand.slot]
                        /\ active' = RecordOf(slots', cand.slot)
    <2>1. PICK c \in TornStep :
              /\ Put(c)
              /\ \/ active' = active
                 \/ active' = BootRecord(slots')
                 \/ /\ Committed(c) /\ c # slots[cand.slot]
                    /\ active' = RecordOf(slots', cand.slot)
        BY <1>3
    <2>2. CASE c = slots[cand.slot]
        <3>1. slots' = slots
            BY <2>1, <2>2 DEF Put, Inv, TypeOK
        <3> QED
            BY <2>1, <2>2, <3>1
    <2>3. CASE c # slots[cand.slot]
        <3>1. ~Committed(c)
            BY <1>3, <2>3, TornUncommitted
        <3>2. BootRecord(slots') = active
            BY <1>3, <2>1, <2>3, <3>1, PutOnRegister
        <3> QED
            BY <1>3, <2>1, <3>1, <3>2, PutKeepsActive
    <2> QED
        BY <2>2, <2>3
<1> QED
    BY <1>1, <1>2, <1>3, FlashChange

\* A marker that did not fail is the record in use, and what a reset brings up.
LEMMA BootAfterMarker ==
    ASSUME Inv, Next, BootRecord(slots) = active, step = "marker",
           ret' # "STORAGE_ERROR"
    PROVE  BootRecord(slots') = active'
<1>1. CASE Reset
    BY <1>1 DEF Reset
<1>2. CASE ProgramMarker
    <2> DEFINE c == [slots[cand.slot] EXCEPT !.marker = "set"]
    <2>1. /\ cand.slot \in Slot /\ OnOther /\ Put(c) /\ c \in TornStep
          /\ Committed(c) => active' = RecordOf(slots', cand.slot)
          /\ ~Committed(c) => active' = active
        BY <1>2 DEF ProgramMarker, Writable, TornStep, TornCommit, Inv, StepInv
    <2>2. c # slots[cand.slot]
        <3>1. slots[cand.slot] \in Content /\ slots[cand.slot].marker = "erased"
            BY <1>2, <2>1 DEF ProgramMarker, Writable, Inv, TypeOK
        <3> QED
            BY <3>1 DEF Content
    <2> HIDE DEF c
    <2> QED
        BY <2>1, <2>2, PutOnRegister
<1>3. CASE CommitFails
    BY <1>3 DEF CommitFails, Return
<1> QED
    BY <1>1, <1>2, <1>3
       DEF Next, Call, FlashStep, BeginCandidate, WriteCandidate, CommitCandidate,
           AbortCandidate, Idle, ErasePage, ErasePageFails, ProgramMetadata,
           ProgramMetadataFails, ProgramPayload, ProgramPayloadFails, PayloadDone,
           ProgramHeaderCrc

\* An erase removes whatever a failed marker left in doubt.
LEMMA BootAfterErase ==
    ASSUME Inv, ErasePage
    PROVE  BootRecord(slots') = active'
<1>1. /\ cand.slot \in Slot /\ OnOther /\ Put(ErasedSlot) /\ active' = active
      /\ step # "none" /\ ErasedSlot \in TornStep
    BY DEF ErasePage, Inv, StepInv, OnOther, TornStep, TornErase
<1>2. Intact(slots', active) /\ slots'[cand.slot] = ErasedSlot
    BY <1>1, TornPut
<1>3. active \in Record \cup {NoRecord}
    BY DEF Inv, TypeOK
<1>4. ASSUME NEW s \in Slot, s # active.slot PROVE ~Committed(slots'[s])
    <2>1. CASE active = NoRecord
        <3>1. cand.slot = "A"
            BY <1>1, <2>1 DEF Inv, CandInv, InactiveSlot
        <3>2. OthersDiffer(slots', active)
            BY <1>1, TornPut
        <3> QED
            BY <1>2, <1>4, <2>1, <3>1, <3>2, SlotContents DEF OthersDiffer, Slot
    <2>2. CASE active # NoRecord
        <3>1. s = cand.slot
            BY <1>1, <1>4, <2>2, ActiveFacts DEF Inv, Slot, OnOther
        <3> QED
            BY <1>2, <3>1, SlotContents
    <2> QED
        BY <2>1, <2>2
<1> QED
    BY <1>1, <1>2, <1>3, <1>4, BootIsOld

\* No call and no flash operation but the marker touches the record in use.
LEMMA ActiveKept ==
    ASSUME Inv, Call \/ FlashStep, step # "marker"
    PROVE  active' = active /\ PayloadOf(slots', active') = PayloadOf(slots, active)
<1>1. active' = active
    BY DEF Call, FlashStep, BeginCandidate, WriteCandidate, CommitCandidate,
           AbortCandidate, ErasePage, ErasePageFails, ProgramMetadata,
           ProgramMetadataFails, ProgramPayload, ProgramPayloadFails, PayloadDone,
           ProgramHeaderCrc, ProgramMarker, CommitFails
<1>2. active.gen \in Nat
    BY ActiveType, AssetAssumption DEF Inv
<1>3. ~(active'.gen > active.gen)
    BY <1>1, <1>2
<1> QED
    BY <1>1, <1>3, StepAdvances DEF Next

-----------------------------------------------------------------------------
(* The steps of the session *)

\* A call that goes on has no result yet.
LEMMA ResultKept ==
    ASSUME Call \/ FlashStep, step' # "none"
    PROVE  ret' = ret
    BY DEF Call, FlashStep, BeginCandidate, StartChanged, WriteCandidate, CommitCandidate,
           AbortCandidate, callVars, ErasePage, ErasePageFails, ProgramMetadata,
           ProgramMetadataFails, ProgramPayload, ProgramPayloadFails, PayloadDone,
           ProgramHeaderCrc, ProgramMarker, CommitFails, Return

RequestType ==
    [kind : {"none", "BEGIN", "WRITE", "COMMIT", "ABORT"},
     id : TransferId \cup {NoId}, off : Nat, data : Seq(Byte)]

\* The requests the handlers take.
LEMMA RequestFacts ==
    ASSUME NEW kind \in {"BEGIN", "WRITE", "COMMIT", "ABORT"}, NEW id \in TransferId,
           NEW off \in Nat, NEW data \in Seq(Byte)
    PROVE  /\ Request(kind, id, off, data) \in RequestType
           /\ Request(kind, id, off, data).kind = kind
           /\ Request(kind, id, off, data).id = id
           /\ Request(kind, id, off, data).off = off
           /\ Request(kind, id, off, data).data = data
    BY DEF Request, RequestType

LEMMA PlainRequestFacts ==
    ASSUME NEW kind \in {"BEGIN", "COMMIT", "ABORT"}, NEW id \in TransferId
    PROVE  /\ Request(kind, id, 0, <<>>) \in RequestType
           /\ Request(kind, id, 0, <<>>).kind = kind
           /\ Request(kind, id, 0, <<>>).data = <<>>
<1>1. <<>> \in Seq(Byte) /\ 0 \in Nat
    OBVIOUS
<1> DEFINE none == <<>>
<1> HIDE DEF none
<1>2. none \in Seq(Byte)
    BY <1>1 DEF none
<1>3. /\ Request(kind, id, 0, none) \in RequestType
      /\ Request(kind, id, 0, none).kind = kind
      /\ Request(kind, id, 0, none).data = none
    BY <1>1, <1>2 DEF Request, RequestType
<1> QED
    BY <1>3 DEF none

\* Nothing runs while no handler waits.
LEMMA RestFacts ==
    ASSUME TransferInv, ~busy
    PROVE  /\ Idle /\ step = "none" /\ todo = <<>>
           /\ ~Failed /\ ~Stored /\ Given = sent
           /\ sess.active => Holds(sent) /\ cand.active
    BY DEF TransferInv, CallInv, HoldInv, Idle, Failed, Stored, Given, Holds

\* An answer without the store.
LEMMA AnsweredInv ==
    ASSUME TransferInv, ~busy, UNCHANGED <<vars, sess, busy, sent, doubt>>,
           req' \in RequestType,
           promised' # promised => promised' = sent /\ PayloadOf(slots, active) = sent,
           WriteOkMeansAccepted', CommitOkMeansStored'
    PROVE  TransferInv'
<1>1. TransferTypeOK'
    BY DEF TransferInv, TransferTypeOK, RequestType
<1>2. ~busy' /\ Idle' = Idle
    BY DEF vars, Idle
<1>3. CallInv' /\ RetInv'
    BY <1>2 DEF TransferInv, CallInv, RetInv, vars, Idle
<1>4. SessionInv' /\ PromiseInv'
    BY <1>2 DEF TransferInv, SessionInv, PromiseInv, vars
<1>5. HoldInv'
    <2>1. sess.active => Holds(sent)
        BY RestFacts
    <2>2. Given' = sent
        BY <1>2 DEF Given
    <2>3. sess'.active => Holds(sent)'
        BY <2>1 DEF Holds, Compared, Filled, OnOther, Offset, Stream, ActivePayload, Idle,
                    vars
    <2>4. sess'.active => Holds(Given)'
        BY <2>2, <2>3 DEF Holds, Compared, Filled
    <2> QED
        BY <1>2, <2>4 DEF HoldInv, Stored
<1> QED
    BY <1>1, <1>3, <1>4, <1>5 DEF TransferInv

\* asset_clear_session(), wherever it is called.
LEMMA ClearSessionInv ==
    ASSUME Inv, TransferInv, Idle, ~busy', busy' \in BOOLEAN, ClearSession,
           req' \in RequestType, UNCHANGED <<sent, promised, doubt>>, CommitOkMeansStored'
    PROVE  TransferInv'
<1>1. /\ ~cand'.active
      /\ UNCHANGED <<slots, active, todo, copy, step, ret>>
      /\ sess' = [sess EXCEPT !.id = NoId, !.active = FALSE]
    BY ResetFacts, CandidateFacts DEF ClearSession, callVars
<1>2. TransferTypeOK' /\ ~sess'.active /\ sess'.id = NoId
    BY <1>1 DEF TransferInv, TransferTypeOK, RequestType
<1>3. CallInv' /\ RetInv'
    BY <1>1 DEF TransferInv, CallInv, RetInv, Idle
<1>4. SessionInv' /\ PromiseInv' /\ HoldInv' /\ WriteOkMeansAccepted'
    BY <1>1, <1>2 DEF TransferInv, SessionInv, PromiseInv, HoldInv, WriteOkMeansAccepted
<1> QED
    BY <1>2, <1>3, <1>4 DEF TransferInv

\* BEGIN opens a session and starts the candidate.
LEMMA HandleBeginInv ==
    ASSUME Inv, TransferInv, NEW id \in TransferId, NEW v \in CrcValue, HandleBegin(id, v)
    PROVE  TransferInv'
<1>1. /\ ~busy /\ ~sess.active /\ busy' = TRUE /\ reply' = "none"
      /\ req' = Request("BEGIN", id, 0, <<>>)
      /\ sess' = [active |-> TRUE, id |-> id, crc |-> v, next |-> 0, last |-> <<>>]
      /\ sent' = <<>> /\ promised' = promised /\ doubt' = doubt
      /\ BeginCandidate(v)
    BY DEF HandleBegin, CallStore
<1>2. ~cand.active /\ Idle
    BY <1>1, RestFacts DEF TransferInv, SessionInv
<1>3. \/ step' = "none" /\ ret' = "OK" /\ todo' = <<>> /\ Holds(<<>>)'
      \/ step' = "none" /\ ret' = "WEAR_BUDGET_EXHAUSTED" /\ todo' = <<>>
      \/ step' = "erase" /\ Holds(<<>>)' /\ ret' = ret
    <2>1. step' # "none" => ret' = ret
        BY <1>1, ResultKept DEF Call
    <2> QED
        BY <1>1, <1>2, <2>1, BeginHolds
<1>4. /\ req' \in RequestType /\ req'.kind = "BEGIN" /\ req'.data = <<>>
      /\ sess'.active /\ sess'.next = 0 /\ sess'.last = <<>> /\ sess'.id = id
    <2>2. req' \in RequestType /\ req'.kind = "BEGIN" /\ req'.data = <<>>
        BY <1>1, PlainRequestFacts
    <2>3. sess'.active /\ sess'.next = 0 /\ sess'.last = <<>> /\ sess'.id = id
        BY <1>1
    <2> QED
        BY <2>2, <2>3
<1>5. TransferTypeOK'
    BY <1>1, <1>4 DEF TransferInv, TransferTypeOK, RequestType
<1>6. CallInv' /\ RetInv'
    BY <1>1, <1>3, <1>4 DEF TransferInv, CallInv, RetInv, Idle
<1>7. SessionInv'
    BY <1>1, <1>4, AssetAssumption DEF SessionInv
<1>8. HoldInv'
    <2>1. Given' = <<>>
        BY <1>1, <1>4 DEF Given
    <2>2. Failed' \/ Holds(<<>>)'
        BY <1>1, <1>3, <1>4 DEF Failed, Idle
    <2>3. Failed' \/ Holds(Given)'
        BY <2>1, <2>2 DEF Holds, Compared, Filled
    <2> QED
        BY <1>4, <2>3 DEF HoldInv, Stored
<1>9. PromiseInv' /\ WriteOkMeansAccepted' /\ CommitOkMeansStored'
    BY <1>1, <1>4 DEF TransferInv, PromiseInv, WriteOkMeansAccepted, CommitOkMeansStored,
                      BeginCandidate
<1> QED
    BY <1>5, <1>6, <1>7, <1>8, <1>9 DEF TransferInv

\* A chunk in order goes to the store.
LEMMA HandleWriteInv ==
    ASSUME Inv, TransferInv, NEW id \in TransferId, NEW off \in Nat, NEW d \in Chunk,
           HandleWrite(id, off, d)
    PROVE  TransferInv'
<1>0. d \in Seq(Byte) /\ Len(d) \in Nat /\ sent \in Seq(Byte) /\ Len(sent) \in Nat
    BY AssetAssumption DEF TransferInv, TransferTypeOK
<1>1. /\ ~busy /\ busy' = TRUE /\ reply' = "none"
      /\ req' = Request("WRITE", id, off, d)
      /\ sess' = sess /\ sent' = sent /\ promised' = promised /\ doubt' = doubt
      /\ WriteCandidate(d)
    BY DEF HandleWrite, CallStore
<1>2. sess.active /\ off = sess.next /\ ~(off + Len(d) > PayloadLen)
    BY DEF HandleWrite, WriteStatus, ForSession
<1>3. off = Len(sent) /\ Len(sent) + Len(d) <= PayloadLen
    BY <1>0, <1>2, AssetAssumption DEF TransferInv, SessionInv
<1>4. \/ step' = "none" /\ ret' = "OK" /\ todo' = <<>> /\ Holds(sent \o d)'
      \/ /\ step' = "none" /\ ret' = "WEAR_BUDGET_EXHAUSTED" /\ todo' = <<>>
         /\ Holds(sent)'
      \/ step' \in {"erase", "payload"} /\ Holds(sent \o d)' /\ ret' = ret
    <2>1. step' # "none" => ret' = ret
        BY <1>1, ResultKept DEF Call
    <2>2. PICK s \in Seq(Byte) : s = sent
        BY <1>0
    <2>3. \/ step' = "none" /\ ret' = "OK" /\ todo' = <<>> /\ Holds(s \o d)'
          \/ /\ step' = "none" /\ ret' = "WEAR_BUDGET_EXHAUSTED" /\ todo' = <<>>
             /\ Holds(s)'
          \/ step' \in {"erase", "payload"} /\ Holds(s \o d)'
        BY <1>0, <1>1, <1>2, <1>3, <2>2, RestFacts, WriteHolds
    <2>4. s = sent'
        BY <1>1, <2>2
    <2> QED
        BY <2>1, <2>3, <2>4 DEF Holds, Compared, Filled
<1>5. req' \in RequestType /\ req'.kind = "WRITE" /\ req'.data = d /\ req'.off = off
    BY <1>0, <1>1, RequestFacts
<1>6. TransferTypeOK'
    BY <1>1, <1>5 DEF TransferInv, TransferTypeOK, RequestType
<1>7. CallInv' /\ RetInv'
    BY <1>1, <1>2, <1>3, <1>4, <1>5 DEF TransferInv, CallInv, RetInv, Idle
<1>8. SessionInv' /\ PromiseInv' /\ WriteOkMeansAccepted' /\ CommitOkMeansStored'
    BY <1>1, <1>2, <1>5 DEF TransferInv, SessionInv, PromiseInv, WriteOkMeansAccepted,
       CommitOkMeansStored, WriteCandidate
<1>9. HoldInv'
    <2>1. Given' = IF step' # "none" \/ ret' = "OK" THEN sent' \o d ELSE sent'
        BY <1>1, <1>5 DEF Given, Idle
    <2>2. Holds(Given)'
        BY <1>4, <2>1 DEF Holds, Compared, Filled
    <2> QED
        BY <1>5, <2>2 DEF HoldInv, Stored
<1> QED
    BY <1>6, <1>7, <1>8, <1>9 DEF TransferInv

\* A commit of a complete session goes to the store.
LEMMA HandleCommitInv ==
    ASSUME Inv, TransferInv, NEW id \in TransferId, HandleCommit(id)
    PROVE  TransferInv'
<1>0. sent \in Seq(Byte) /\ Len(sent) \in Nat
    BY DEF TransferInv, TransferTypeOK
<1>1. /\ ~busy /\ busy' = TRUE /\ reply' = "none"
      /\ req' = Request("COMMIT", id, 0, <<>>)
      /\ sess' = sess /\ sent' = sent /\ promised' = promised /\ doubt' = doubt
      /\ CommitCandidate
    BY DEF HandleCommit, CallStore
<1>2. sess.active /\ Len(sent) = PayloadLen
    BY DEF HandleCommit, CommitStatus, TransferInv, SessionInv
<1>3. \/ /\ step' = "none" /\ ret' = "UNCHANGED" /\ todo' = <<>>
         /\ ~cand'.active /\ PayloadOf(slots', active') = sent'
      \/ step' = "hcrc" /\ todo' = <<>> /\ Holds(sent)' /\ ret' = ret
    <2>1. step' # "none" => ret' = ret
        BY <1>1, ResultKept DEF Call
    <2>2. PICK s \in Seq(Byte) : s = sent
        BY <1>0
    <2>3. \/ /\ step' = "none" /\ ret' = "UNCHANGED" /\ todo' = <<>>
             /\ ~cand'.active /\ PayloadOf(slots', active') = s
          \/ step' = "hcrc" /\ todo' = <<>> /\ Holds(s)'
        BY <1>1, <1>2, <2>2, RestFacts, CommitHolds
    <2>4. s = sent'
        BY <1>1, <2>2
    <2> QED
        BY <2>1, <2>3, <2>4 DEF Holds, Compared, Filled
<1>4. req' \in RequestType /\ req'.kind = "COMMIT"
    BY <1>1, PlainRequestFacts
<1>5. TransferTypeOK'
    BY <1>1, <1>4 DEF TransferInv, TransferTypeOK, RequestType
<1>6. CallInv' /\ RetInv'
    BY <1>1, <1>2, <1>3, <1>4 DEF TransferInv, CallInv, RetInv, Idle
<1>7. SessionInv' /\ PromiseInv' /\ WriteOkMeansAccepted' /\ CommitOkMeansStored'
    BY <1>1, <1>2, <1>4 DEF TransferInv, SessionInv, PromiseInv, WriteOkMeansAccepted,
       CommitOkMeansStored, CommitCandidate
<1>8. HoldInv'
    <2>1. Given' = sent'
        BY <1>4 DEF Given
    <2>2. IF Stored' THEN ~cand'.active /\ PayloadOf(slots', active') = sent'
          ELSE Holds(Given)'
        BY <1>1, <1>3, <1>4, <2>1 DEF Holds, Compared, Filled, Stored, Idle
    <2> QED
        BY <2>2 DEF HoldInv
<1> QED
    BY <1>5, <1>6, <1>7, <1>8 DEF TransferInv

\* BEGIN in an open session.
LEMMA HandleBeginActiveInv ==
    ASSUME Inv, TransferInv, NEW id \in TransferId, NEW v \in CrcValue,
           HandleBeginActive(id, v)
    PROVE  TransferInv'
<1>1. /\ req' = Request("BEGIN", id, 0, <<>>) /\ ~busy
      /\ UNCHANGED <<vars, sess, busy, sent, doubt>> /\ promised' = promised
    BY DEF HandleBeginActive, Answer
<1>2. req' \in RequestType /\ req'.kind = "BEGIN"
    BY <1>1, PlainRequestFacts
<1>3. WriteOkMeansAccepted' /\ CommitOkMeansStored'
    BY <1>2 DEF WriteOkMeansAccepted, CommitOkMeansStored
<1> QED
    BY <1>1, <1>2, <1>3, AnsweredInv

\* A chunk that repeats the last one, or does not fit.
LEMMA HandleWriteAnsweredInv ==
    ASSUME Inv, TransferInv, NEW id \in TransferId, NEW off \in Nat, NEW d \in Chunk,
           HandleWriteAnswered(id, off, d)
    PROVE  TransferInv'
<1>0. /\ d \in Seq(Byte) /\ TransferTypeOK /\ SessionInv
    BY AssetAssumption DEF TransferInv
<1>1. /\ req' = Request("WRITE", id, off, d) /\ ~busy /\ reply' = WriteStatus(id, off, d)
      /\ UNCHANGED <<vars, sess, busy, sent, doubt>> /\ promised' = promised
      /\ WriteStatus(id, off, d) # "write"
    BY DEF HandleWriteAnswered, Answer
<1>2. /\ req' \in RequestType /\ req'.kind = "WRITE"
      /\ req'.off = off /\ req'.data = d
    BY <1>0, <1>1, RequestFacts
<1>3. ASSUME reply' = "OK", sess.active PROVE SubSeq(sent, off + 1, off + Len(d)) = d
    <2>1. d = sess.last /\ off + Len(d) = sess.next
        BY <1>1, <1>3 DEF WriteStatus
    <2>2. /\ off + Len(d) = Len(sent) /\ sent \in Seq(Byte)
          /\ Len(d) \in Nat /\ Len(sent) \in Nat
          /\ \A i \in 1..Len(d) : d[i] = sent[Len(sent) - Len(d) + i]
        <3>1. sess.next = Len(sent) /\ sent \in Seq(Byte)
            BY <1>0, <1>3 DEF SessionInv, TransferTypeOK
        <3>2. \A i \in 1..Len(sess.last) :
                  sess.last[i] = sent[Len(sent) - Len(sess.last) + i]
            BY <1>0, <1>3 DEF SessionInv
        <3>3. \A i \in 1..Len(d) : d[i] = sent[Len(sent) - Len(d) + i]
            BY <2>1, <3>2, Zenon
        <3>4. off + Len(d) = Len(sent)
            BY <2>1, <3>1, Zenon
        <3>5. Len(d) \in Nat /\ Len(sent) \in Nat
            BY <1>0, <3>1
        <3> QED
            BY <3>1, <3>3, <3>4, <3>5, Zenon
    <2> DEFINE n == Len(sent)
               k == Len(d)
               t == SubSeq(sent, off + 1, off + k)
    <2>3. /\ t \in Seq(Byte)
          /\ Len(t) = IF off + 1 <= off + k THEN off + k - (off + 1) + 1 ELSE 0
          /\ \A i \in 1..off + k - (off + 1) + 1 : t[i] = sent[off + 1 + i - 1]
        <3>1. off + 1 \in Int /\ off + k \in Int /\ off + k = n
            BY <2>2
        <3>2. \A i \in (off + 1)..(off + k) : sent[i] \in Byte
            <4>1. \A i \in 1..n : sent[i] \in Byte
                BY <2>2
            <4> HIDE DEF n, k
            <4>2. \A i \in (off + 1)..(off + k) : i \in 1..n
                BY <3>1
            <4> QED
                BY <4>1, <4>2
        <3> QED
            BY <3>1, <3>2, SubSeqProperties, SMTT(30)
    <2>4. k \in Nat /\ n \in Nat /\ off + k = n /\ k > 0
        BY <1>0, <2>2, AssetAssumption, EmptySeq
    <2>5. \A i \in 1..k : d[i] = sent[n - k + i]
        BY <2>2
    <2> HIDE DEF n, k, t
    <2>6. Len(t) = k
        BY <2>3, <2>4
    <2>7. ASSUME NEW i \in 1..k PROVE t[i] = d[i]
        <3>1. /\ off + k - (off + 1) + 1 = k
              /\ off + 1 + i - 1 = off + i /\ n - k + i = off + i
            BY <2>4, <2>7
        <3>2. t[i] = sent[off + i]
            BY <2>3, <2>7, <3>1
        <3> QED
            BY <2>5, <2>7, <3>1, <3>2
    <2>8. t = d
        BY <1>0, <2>3, <2>6, <2>7 DEF k
    <2> QED
        BY <2>8 DEF t, k
<1>4. WriteOkMeansAccepted' /\ CommitOkMeansStored'
    BY <1>1, <1>2, <1>3 DEF WriteOkMeansAccepted, CommitOkMeansStored
<1> QED
    BY <1>1, <1>2, <1>4, AnsweredInv

\* A COMMIT that repeats one that succeeded, or comes too early.
LEMMA HandleCommitAnsweredInv ==
    ASSUME Inv, TransferInv, NEW id \in TransferId,
           HandleCommitAnswered(id)
    PROVE  TransferInv'
<1>0. TransferTypeOK /\ SessionInv
    BY DEF TransferInv
<1>1. /\ req' = Request("COMMIT", id, 0, <<>>) /\ ~busy /\ reply' = CommitStatus(id)
      /\ UNCHANGED <<vars, sess, busy, sent, doubt>>
      /\ promised' = IF reply' = "OK" THEN sent ELSE promised
    BY DEF HandleCommitAnswered, Answer
<1>2. req' \in RequestType /\ req'.kind = "COMMIT"
    BY <1>1, PlainRequestFacts
<1>3. reply' = "OK" => PayloadOf(slots, active) = sent
    BY <1>0, <1>1, TransferAssumption
       DEF HandleCommitAnswered, CommitStatus, LastCommitMatches, SessionInv
<1>4. WriteOkMeansAccepted' /\ CommitOkMeansStored'
    BY <1>1, <1>2, <1>3 DEF WriteOkMeansAccepted, CommitOkMeansStored, vars
<1> QED
    BY <1>1, <1>2, <1>3, <1>4, AnsweredInv

\* ABORT.
LEMMA HandleAbortInv ==
    ASSUME Inv, TransferInv, NEW id \in TransferId,
           HandleAbort(id)
    PROVE  TransferInv'
<1>0. busy \in BOOLEAN
    BY DEF TransferInv, TransferTypeOK
<1>1. /\ req' = Request("ABORT", id, 0, <<>>) /\ ~busy
      /\ UNCHANGED <<busy, sent, doubt, promised>>
      /\ IF ForSession(id) THEN ClearSession ELSE UNCHANGED <<vars, sess>>
    BY DEF HandleAbort, Answer
<1>2. req' \in RequestType /\ req'.kind = "ABORT"
    BY <1>1, PlainRequestFacts
<1>3. WriteOkMeansAccepted' /\ CommitOkMeansStored'
    BY <1>2 DEF WriteOkMeansAccepted, CommitOkMeansStored
<1>4. CASE ForSession(id)
    BY <1>0, <1>1, <1>2, <1>3, <1>4, RestFacts, ClearSessionInv
<1>5. CASE ~ForSession(id)
    BY <1>1, <1>2, <1>3, <1>5, AnsweredInv
<1> QED
    BY <1>4, <1>5

\* The idle timeout and the loss of the connection.
LEMMA SessionLostInv ==
    ASSUME Inv, TransferInv, PollTimeout \/ ProtocolReset
    PROVE  TransferInv'
<1>1. ~busy /\ UNCHANGED <<req, busy, reply, sent, promised, doubt>> /\ ClearSession
    BY DEF PollTimeout, ProtocolReset, Quiet
<1>2. req' \in RequestType /\ busy' \in BOOLEAN
    BY <1>1 DEF TransferInv, TransferTypeOK, RequestType
<1>3. CommitOkMeansStored'
    BY <1>1 DEF TransferInv, CommitOkMeansStored, ClearSession
<1> QED
    BY <1>1, <1>2, <1>3, RestFacts, ClearSessionInv

\* The store has returned to the handler: the session goes on, ends or is cleared.
LEMMA ReturnedInv ==
    ASSUME Inv, TransferInv, EndBegin \/ EndWrite \/ EndCommit
    PROVE  TransferInv'
<1>0. /\ busy /\ Idle /\ ~busy' /\ busy' = FALSE /\ req' = req /\ doubt' = doubt
      /\ reply' = Status(ret)
      /\ sess.active /\ sent \in Seq(Byte) /\ req.data \in Seq(Byte) /\ req.off \in Nat
      /\ busy' \in BOOLEAN /\ req' \in RequestType
    BY DEF EndBegin, EndWrite, EndCommit, Returned, TransferInv, CallInv, TransferTypeOK,
           RequestType
<1>1. ASSUME ClearSession, UNCHANGED <<sent, promised>>, reply' # "OK"
      PROVE  TransferInv'
    BY <1>0, <1>1, ClearSessionInv DEF CommitOkMeansStored
<1>2. CASE EndBegin
    <2>1. req.kind = "BEGIN" /\ UNCHANGED <<sent, promised>>
        BY <1>2 DEF EndBegin, Returned
    <2>2. ret \in {"OK", "WEAR_BUDGET_EXHAUSTED", "STORAGE_ERROR"}
        BY <1>0, <2>1 DEF TransferInv, RetInv
    <2>3. CASE reply' # "OK"
        BY <1>1, <1>2, <2>1, <2>3 DEF EndBegin
    <2>4. CASE reply' = "OK"
        <3>1. ret = "OK" /\ UNCHANGED <<vars, sess>>
            BY <1>0, <1>2, <2>2, <2>4 DEF EndBegin, Status
        <3>2. Holds(sent)
            BY <1>0, <2>1, <3>1 DEF TransferInv, HoldInv, Failed, Stored, Given
        <3>3. Holds(Given)' /\ cand.active
            <4>1. Given' = sent
                BY <1>0, <2>1 DEF Given
            <4> QED
                BY <3>1, <3>2, <4>1 DEF Holds, Compared, Filled, OnOther, Offset, Stream,
                                        ActivePayload, Idle, vars
        <3>4. TransferTypeOK' /\ CallInv' /\ RetInv' /\ PromiseInv'
            BY <1>0, <2>1, <3>1 DEF TransferInv, TransferTypeOK, CallInv, RetInv, PromiseInv,
                                    vars, Idle
        <3>5. SessionInv' /\ HoldInv'
            BY <1>0, <2>1, <3>1, <3>3 DEF TransferInv, SessionInv, HoldInv, Stored, vars
        <3>6. WriteOkMeansAccepted' /\ CommitOkMeansStored'
            BY <1>0, <2>1 DEF WriteOkMeansAccepted, CommitOkMeansStored
        <3> QED
            BY <3>4, <3>5, <3>6 DEF TransferInv
    <2> QED
        BY <2>3, <2>4
<1>3. CASE EndWrite
    <2>1. req.kind = "WRITE" /\ promised' = promised
        BY <1>3 DEF EndWrite, Returned
    <2>2. /\ ret \in {"OK", "WEAR_BUDGET_EXHAUSTED", "STORAGE_ERROR"}
          /\ req.off = Len(sent) /\ Len(sent) + Len(req.data) <= PayloadLen
          /\ sess.next = Len(sent)
        BY <1>0, <2>1 DEF TransferInv, RetInv, CallInv, SessionInv
    <2>3. CASE ret = "STORAGE_ERROR"
        <3>1. reply' = "STORAGE_ERROR"
            BY <1>0, <2>3 DEF Status
        <3> QED
            BY <1>1, <1>3, <2>1, <3>1 DEF EndWrite
    <2>4. CASE ret = "WEAR_BUDGET_EXHAUSTED"
        <3>1. reply' = "WEAR_BUDGET_EXHAUSTED" /\ UNCHANGED <<vars, sess, sent>>
            BY <1>0, <1>3, <2>4 DEF EndWrite, Status
        <3>2. Holds(sent)
            BY <1>0, <2>1, <2>4 DEF TransferInv, HoldInv, Failed, Stored, Given
        <3>3. Holds(Given)' /\ cand.active
            <4>1. Given' = sent
                BY <1>0, <3>1 DEF Given
            <4> QED
                BY <3>1, <3>2, <4>1 DEF Holds, Compared, Filled, OnOther, Offset, Stream,
                                        ActivePayload, Idle, vars
        <3>4. TransferTypeOK' /\ CallInv' /\ RetInv' /\ PromiseInv'
            BY <1>0, <2>1, <3>1 DEF TransferInv, TransferTypeOK, CallInv, RetInv, PromiseInv,
                                    vars, Idle
        <3>5. SessionInv' /\ HoldInv'
            BY <1>0, <2>1, <3>1, <3>3 DEF TransferInv, SessionInv, HoldInv, Stored, vars
        <3>6. WriteOkMeansAccepted' /\ CommitOkMeansStored'
            BY <1>0, <2>1, <3>1 DEF WriteOkMeansAccepted, CommitOkMeansStored
        <3> QED
            BY <3>4, <3>5, <3>6 DEF TransferInv
    <2>5. CASE ret = "OK"
        <3>1. /\ reply' = "OK" /\ UNCHANGED vars
              /\ sess' = [sess EXCEPT !.last = req.data, !.next = req.off + Len(req.data)]
              /\ sent' = sent \o req.data
            BY <1>0, <1>3, <2>5 DEF EndWrite, Status
        <3>2. Holds(sent \o req.data)
            BY <1>0, <2>1, <2>5 DEF TransferInv, HoldInv, Failed, Stored, Given
        <3>3. Holds(Given)' /\ cand.active
            <4>1. Given' = sent \o req.data
                BY <1>0, <3>1 DEF Given
            <4> QED
                BY <3>1, <3>2, <4>1 DEF Holds, Compared, Filled, OnOther, Offset, Stream,
                                        ActivePayload, Idle, vars
        <3> DEFINE n == Len(sent)
                   k == Len(req.data)
        <3>4. /\ sent' \in Seq(Byte) /\ Len(sent') = n + k /\ n \in Nat /\ k \in Nat
              /\ \A i \in 1..k : sent'[n + i] = req.data[i]
            BY <1>0, <3>1, StreamElements
        <3>5. /\ sess'.active /\ sess'.last = req.data /\ sess'.next = n + k
              /\ TransferTypeOK'
            <4>1. n + k \in Nat /\ req.off + Len(req.data) = n + k
                BY <2>2, <3>4
            <4>2. /\ sess' \in [active : BOOLEAN, id : TransferId \cup {NoId}, crc : CrcValue,
                                next : Nat, last : Seq(Byte)]
                  /\ sess'.active /\ sess'.last = req.data /\ sess'.next = n + k
                BY <1>0, <3>1, <4>1 DEF TransferInv, TransferTypeOK
            <4> QED
                BY <1>0, <3>4, <4>2 DEF TransferInv, TransferTypeOK, RequestType
        <3>6. CallInv' /\ RetInv' /\ PromiseInv'
            BY <1>0, <2>1, <3>1 DEF TransferInv, CallInv, RetInv, PromiseInv, vars, Idle
        <3>7. /\ n + k <= PayloadLen
              /\ k <= n + k /\ (n + k) - k = n
            <4> HIDE DEF n, k
            <4>1. k <= n + k /\ (n + k) - k = n
                BY <3>4
            <4> QED
                BY <2>2, <4>1 DEF n, k
        <3>8. SessionInv'
            <4>1. \A i \in 1..k : sess'.last[i] = sent'[Len(sent') - Len(sess'.last) + i]
                BY <3>4, <3>5, <3>7, Zenon
            <4> QED
                BY <1>0, <3>4, <3>5, <3>7, <4>1 DEF SessionInv
        <3>9. HoldInv'
            BY <1>0, <3>3 DEF HoldInv, Stored
        <3>10. WriteOkMeansAccepted' /\ CommitOkMeansStored'
            <4>1. SubSeq(sent', n + 1, n + k) = req.data
                <5> DEFINE t == SubSeq(sent', n + 1, n + k)
                <5>1. /\ t \in Seq(Byte)
                      /\ Len(t) = IF n + 1 <= n + k THEN n + k - (n + 1) + 1 ELSE 0
                      /\ \A i \in 1..n + k - (n + 1) + 1 : t[i] = sent'[n + 1 + i - 1]
                    <6>1. \A i \in (n + 1)..(n + k) : sent'[i] \in Byte
                        <7>1. \A i \in 1..(n + k) : sent'[i] \in Byte
                            BY <3>4
                        <7> HIDE DEF n, k
                        <7>2. \A i \in (n + 1)..(n + k) : i \in 1..(n + k)
                            BY <3>4
                        <7> QED
                            BY <7>1, <7>2
                    <6>2. n + 1 \in Int /\ n + k \in Int
                        BY <3>4
                    <6> QED
                        BY <6>1, <6>2, SubSeqProperties
                <5> HIDE DEF t, n, k
                <5>2. n + k - (n + 1) + 1 = k /\ Len(t) = k
                    BY <3>4, <5>1
                <5>3. ASSUME NEW i \in 1..k PROVE t[i] = req.data[i]
                    <6>1. n + 1 + i - 1 = n + i
                        BY <3>4, <5>3
                    <6>2. t[i] = sent'[n + 1 + i - 1]
                        BY <5>1, <5>2, <5>3, Zenon
                    <6> QED
                        BY <3>4, <5>3, <6>1, <6>2, Zenon
                <5>4. t = req.data
                    BY <1>0, <5>1, <5>2, <5>3, SMTT(30) DEF k
                <5> QED
                    BY <5>4 DEF t, n, k
            <4> QED
                BY <1>0, <2>1, <2>2, <4>1 DEF WriteOkMeansAccepted, CommitOkMeansStored
        <3> QED
            BY <3>5, <3>6, <3>8, <3>9, <3>10 DEF TransferInv
    <2> QED
        BY <2>2, <2>3, <2>4, <2>5
<1>4. CASE EndCommit
    <2>1. req.kind = "COMMIT" /\ sent' = sent
        BY <1>4 DEF EndCommit, Returned
    <2>2. CASE reply' # "OK"
        BY <1>1, <1>4, <2>1, <2>2 DEF EndCommit
    <2>3. CASE reply' = "OK"
        <3>1. /\ ret \in {"OK", "UNCHANGED"} /\ UNCHANGED vars
              /\ sess' = [sess EXCEPT !.active = FALSE] /\ promised' = sent
            BY <1>0, <1>4, <2>3 DEF EndCommit, Status
        <3>2. ~cand.active /\ PayloadOf(slots, active) = sent
            BY <1>0, <2>1, <3>1 DEF TransferInv, HoldInv, Failed, Stored
        <3>3. TransferTypeOK' /\ ~sess'.active
            BY <1>0, <2>1, <3>1 DEF TransferInv, TransferTypeOK
        <3>4. CallInv' /\ RetInv' /\ PromiseInv'
            BY <1>0, <3>1, <3>2 DEF TransferInv, CallInv, RetInv, PromiseInv, vars, Idle
        <3>5. SessionInv' /\ HoldInv' /\ WriteOkMeansAccepted' /\ CommitOkMeansStored'
            BY <1>0, <2>1, <3>1, <3>2, <3>3
               DEF SessionInv, HoldInv, WriteOkMeansAccepted, CommitOkMeansStored, vars
        <3> QED
            BY <3>3, <3>4, <3>5 DEF TransferInv
    <2> QED
        BY <2>2, <2>3
<1> QED
    BY <1>2, <1>3, <1>4

\* A flash step of the running call.
LEMMA StoreStepInv ==
    ASSUME Inv, TransferInv, StoreStep
    PROVE  TransferInv'
<1>0. /\ busy /\ FlashStep /\ UNCHANGED <<sess, req, busy, reply, sent>>
      /\ promised' = IF step = "marker" THEN NoPayload ELSE promised
      /\ doubt' = IF step' = "metadata" THEN FALSE
                  ELSE doubt \/ (step = "marker" /\ ret' = "STORAGE_ERROR")
      /\ sess.active /\ reply = "none"
      /\ req.kind \in {"BEGIN", "WRITE", "COMMIT"}
      /\ sent \in Seq(Byte) /\ req.data \in Seq(Byte)
    BY DEF StoreStep, TransferInv, CallInv, TransferTypeOK
<1>1. step # "none"
    BY <1>0 DEF FlashStep, ErasePage, ErasePageFails, ProgramMetadata,
                ProgramMetadataFails, ProgramPayload, ProgramPayloadFails, PayloadDone,
                ProgramHeaderCrc, ProgramMarker, CommitFails
<1>2. PICK s \in Seq(Byte) : s = Given
    <2>1. sent \o req.data \in Seq(Byte)
        BY <1>0, StreamElements
    <2> QED
        BY <1>0, <2>1 DEF Given
<1>3. s = IF req.kind = "WRITE" THEN sent \o req.data ELSE sent
    BY <1>0, <1>1, <1>2 DEF Given, Idle
<1>4. Holds(s)
    <2>1. Holds(Given)
        BY <1>0, <1>1 DEF TransferInv, HoldInv, Failed, Stored, Idle
    <2> QED
        BY <1>2, <2>1
<1>5. /\ req.kind = "BEGIN" => step \in {"erase", "metadata"} /\ sent = <<>>
      /\ req.kind = "WRITE" => step \in {"erase", "metadata", "payload"}
      /\ req.kind = "COMMIT" => /\ step \in {"hcrc", "marker"} /\ todo = <<>>
                                /\ Len(sent) = PayloadLen
    BY <1>0, <1>1 DEF TransferInv, CallInv
<1>6. step \in {"hcrc", "marker"} => todo = <<>> /\ Len(s) = PayloadLen
    BY <1>0, <1>3, <1>5
<1>7. \/ step' = "none" /\ todo' = <<>> /\ ret' = "STORAGE_ERROR"
      \/ step = "erase" /\ step' = "metadata" /\ Holds(s)'
      \/ step = "metadata" /\ step' = "payload" /\ s # <<>> /\ Holds(s)'
      \/ step = "payload" /\ step' = "payload" /\ Holds(s)'
      \/ /\ step \in {"metadata", "payload"} /\ step' = "none" /\ todo' = <<>>
         /\ ret' = "OK" /\ Holds(s)'
      \/ step = "hcrc" /\ step' = "marker" /\ todo' = <<>> /\ Holds(s)'
      \/ /\ step \in {"hcrc", "marker"} /\ step' = "none" /\ todo' = <<>>
         /\ ret' \in CommitFailure
      \/ /\ step = "marker" /\ step' = "none" /\ todo' = <<>> /\ ret' = "OK"
         /\ ~cand'.active /\ PayloadOf(slots', active') = s
    BY <1>0, <1>4, <1>6, FlashHolds
<1>8. step' # "none" => ret' = ret
    BY <1>0, ResultKept
<1>9. TransferTypeOK'
    <2>1. doubt' \in BOOLEAN
        BY <1>0 DEF TransferInv, TransferTypeOK
    <2> QED
        BY <1>0, <2>1, Zenon DEF TransferInv, TransferTypeOK
<1>10. CallInv'
    <2>1. todo' # <<>> => step' \in {"erase", "metadata", "payload"}
        BY <1>7
    <2>2. /\ req.kind = "BEGIN" => step' \in {"none", "erase", "metadata"}
          /\ req.kind = "WRITE" => step' \in {"none", "erase", "metadata", "payload"}
          /\ req.kind = "COMMIT" => step' \in {"none", "hcrc", "marker"}
        BY <1>0, <1>3, <1>5, <1>7
    <2> QED
        BY <1>0, <2>1, <2>2 DEF TransferInv, CallInv
<1>11. RetInv'
    <2>1. step' # "none" => ret' # "BAD_STATE"
        BY <1>8 DEF TransferInv, RetInv
    <2>2. step' = "none" =>
              IF req.kind = "COMMIT"
              THEN ret' \in {"OK", "STORAGE_ERROR", "CRC_MISMATCH", "VALIDATION_FAILED"}
              ELSE ret' \in {"OK", "STORAGE_ERROR"}
        BY <1>0, <1>5, <1>7 DEF CommitFailure
    <2> QED
        BY <1>0, <2>1, <2>2 DEF RetInv, Idle
<1>12. HoldInv'
    <2>1. Failed' \/ (IF Stored' THEN ~cand'.active /\ PayloadOf(slots', active') = s
                      ELSE Holds(s)')
        <3>1. Stored' => step' = "none" /\ req.kind = "COMMIT"
            BY <1>0 DEF Stored, Idle
        <3>2. req.kind = "COMMIT" /\ step' = "none" => Stored'
            BY <1>0 DEF Stored, Idle
        <3>3. step' = "none" /\ ret' \in CommitFailure => Failed'
            BY <1>0 DEF Failed, Idle, CommitFailure
        <3>4. "STORAGE_ERROR" \in CommitFailure
            BY DEF CommitFailure
        <3> QED
            BY <1>0, <1>5, <1>7, <3>1, <3>2, <3>3, <3>4
    <2>2. Failed' \/ Given' = s
        <3>1. CASE req.kind = "WRITE"
            <4>1. step' # "none" \/ ret' = "OK" \/ ret' = "STORAGE_ERROR"
                BY <1>5, <1>7, <3>1
            <4> QED
                BY <1>0, <1>3, <3>1, <4>1 DEF Given, Failed, Idle
        <3>2. CASE req.kind # "WRITE"
            BY <1>0, <1>3, <3>2 DEF Given
        <3> QED
            BY <3>1, <3>2
    <2>3. Stored' => s = sent'
        BY <1>0, <1>3 DEF Stored
    <2> QED
        BY <2>1, <2>2, <2>3 DEF HoldInv, Holds, Compared, Filled
<1>13. SessionInv'
    BY <1>0 DEF TransferInv, SessionInv
<1>14. WriteOkMeansAccepted' /\ CommitOkMeansStored'
    BY <1>0 DEF WriteOkMeansAccepted, CommitOkMeansStored
<1>15. PromiseInv'
    <2>1. promised' # NoPayload => PayloadOf(slots', active') = promised'
        BY <1>0, ActiveKept DEF TransferInv, PromiseInv
    <2>2. ASSUME ~doubt' PROVE BootRecord(slots') = active'
        <3>1. CASE step' = "metadata"
            <4>1. ErasePage
                BY <1>0, <3>1 DEF FlashStep, ErasePage, ErasePageFails, ProgramMetadata,
                   ProgramMetadataFails, ProgramPayload, ProgramPayloadFails, PayloadDone,
                   ProgramHeaderCrc, ProgramMarker, CommitFails, Return
            <4> QED
                BY <4>1, BootAfterErase
        <3>2. CASE step' # "metadata"
            <4>1. ~doubt /\ ~(step = "marker" /\ ret' = "STORAGE_ERROR")
                BY <1>0, <2>2, <3>2
            <4>2. BootRecord(slots) = active
                BY <4>1 DEF TransferInv, PromiseInv
            <4> QED
                BY <1>0, <4>1, <4>2, BootKept, BootAfterMarker DEF Next
        <3> QED
            BY <3>1, <3>2
    <2> QED
        BY <2>1, <2>2 DEF PromiseInv
<1> QED
    BY <1>9, <1>10, <1>11, <1>12, <1>13, <1>14, <1>15 DEF TransferInv

\* The first session state is well typed.
LEMMA NoSessionFacts ==
    /\ NoSession \in [active : BOOLEAN, id : TransferId \cup {NoId}, crc : CrcValue,
                      next : Nat, last : Seq(Byte)]
    /\ ~NoSession.active /\ NoSession.id = NoId
    /\ NoRequest \in RequestType /\ NoRequest.kind = "none"
<1>1. (CHOOSE v \in CrcValue : TRUE) \in CrcValue
    <2>1. [i \in 1..PayloadLen |-> FF] \in Payload
        BY AssetAssumption DEF Payload
    <2>2. Crc[[i \in 1..PayloadLen |-> FF]] \in CrcValue
        BY <2>1, AssetAssumption
    <2> QED
        BY <2>2
<1>2. <<>> \in Seq(Byte) /\ 0 \in Nat
    OBVIOUS
<1> DEFINE v0 == CHOOSE v \in CrcValue : TRUE
           none == <<>>
<1> HIDE DEF v0, none
<1>3. v0 \in CrcValue /\ none \in Seq(Byte) /\ 0 \in Nat
    BY <1>1, <1>2 DEF v0, none
<1>4. /\ NoSession = [active |-> FALSE, id |-> NoId, crc |-> v0, next |-> 0, last |-> none]
      /\ NoRequest = [kind |-> "none", id |-> NoId, off |-> 0, data |-> none]
    BY DEF NoSession, NoRequest, Request, v0, none
<1> QED
    BY <1>3, <1>4 DEF RequestType

\* A reset, in whatever state the session and the store are.
LEMMA TransferResetInv ==
    ASSUME Inv, TransferInv, TransferReset
    PROVE  TransferInv'
<1>0. /\ Reset /\ sess' = NoSession /\ req' = NoRequest /\ busy' = FALSE
      /\ reply' = "none" /\ sent' = <<>> /\ doubt' = FALSE
      /\ promised' = IF step = "marker" \/ doubt THEN NoPayload ELSE promised
    BY DEF TransferReset
<1>1. /\ step' = "none" /\ todo' = <<>> /\ ret' = "none" /\ ~cand'.active
      /\ active' = BootRecord(slots')
    BY <1>0, ZeroCandidateType DEF Reset
<1>2. TransferTypeOK'
    <2>1. sent' \in Seq(Byte)
        BY <1>0
    <2> QED
        BY <1>0, <2>1, NoSessionFacts DEF TransferTypeOK, RequestType
<1>3. CallInv' /\ RetInv'
    BY <1>0, <1>1 DEF CallInv, RetInv, Idle
<1>4. SessionInv' /\ HoldInv' /\ WriteOkMeansAccepted' /\ CommitOkMeansStored'
    BY <1>0, <1>1, NoSessionFacts
       DEF SessionInv, HoldInv, WriteOkMeansAccepted, CommitOkMeansStored
<1>5. PromiseInv'
    <2>1. CASE step = "marker" \/ doubt
        BY <1>0, <1>1, <2>1 DEF PromiseInv
    <2>2. CASE ~(step = "marker" \/ doubt)
        <3>1. PayloadOf(slots', active') = PayloadOf(slots, active)
            BY <1>0, <2>2, BootKept DEF TransferInv, PromiseInv, Next
        <3> QED
            BY <1>0, <1>1, <2>2, <3>1 DEF TransferInv, PromiseInv
    <2> QED
        BY <2>1, <2>2
<1> QED
    BY <1>2, <1>3, <1>4, <1>5 DEF TransferInv

\* A new device, and every step after it.
LEMMA TransferInitInv == TransferInit => TransferInv
<1> SUFFICES ASSUME TransferInit PROVE TransferInv
    OBVIOUS
<1>1. /\ Init /\ sess = NoSession /\ req = NoRequest /\ busy = FALSE /\ reply = "none"
      /\ sent = <<>> /\ promised = NoPayload /\ doubt = FALSE
      /\ step = "none" /\ todo = <<>> /\ ret = "none" /\ ~cand.active
    BY ZeroCandidateType DEF TransferInit, Init
<1>2. TransferTypeOK
    <2>1. sent \in Seq(Byte)
        BY <1>1
    <2> QED
        BY <1>1, <2>1, NoSessionFacts DEF TransferTypeOK, RequestType
<1>3. CallInv /\ RetInv
    BY <1>1 DEF CallInv, RetInv, Idle
<1>4. SessionInv /\ HoldInv /\ WriteOkMeansAccepted /\ CommitOkMeansStored
    BY <1>1, NoSessionFacts
       DEF SessionInv, HoldInv, WriteOkMeansAccepted, CommitOkMeansStored
<1>5. PromiseInv
    <2>1. slots["A"] = ErasedSlot /\ slots["B"] = ErasedSlot /\ active = NoRecord
        BY <1>1 DEF Init, Slot
    <2> QED
        BY <1>1, <2>1, SlotContents DEF PromiseInv, BootRecord
<1> QED
    BY <1>2, <1>3, <1>4, <1>5 DEF TransferInv

LEMMA TransferNextInv == Inv /\ TransferInv /\ [TransferNext]_xvars => TransferInv'
<1> SUFFICES ASSUME Inv, TransferInv, [TransferNext]_xvars PROVE TransferInv'
    OBVIOUS
<1>1. CASE UNCHANGED xvars
    <2>1. UNCHANGED <<vars, xferVars, slots, active, cand, todo, step, ret, sess, req, busy,
                      reply, sent, promised, doubt>>
        BY <1>1 DEF xvars, xferVars, vars
    <2>2. TransferTypeOK' /\ CallInv' /\ RetInv'
        BY <2>1 DEF TransferInv, TransferTypeOK, CallInv, RetInv, Idle
    <2>3. SessionInv' /\ PromiseInv' /\ WriteOkMeansAccepted' /\ CommitOkMeansStored'
        BY <2>1 DEF TransferInv, SessionInv, PromiseInv, WriteOkMeansAccepted,
                    CommitOkMeansStored
    <2>4. Failed' = Failed /\ Stored' = Stored /\ Given' = Given
        BY <2>1 DEF Failed, Stored, Given, Idle
    <2>5. Holds(Given) => Holds(Given)'
        BY <2>1, <2>4 DEF Holds, Compared, Filled, OnOther, Offset, Stream, ActivePayload,
                          Idle
    <2>6. HoldInv'
        BY <2>1, <2>4, <2>5 DEF TransferInv, HoldInv
    <2> QED
        BY <2>2, <2>3, <2>6 DEF TransferInv
<1>2. CASE Handle
    <2>1. ASSUME NEW id \in TransferId, NEW v \in CrcValue,
                 HandleBegin(id, v) \/ HandleBeginActive(id, v)
          PROVE  TransferInv'
        BY <2>1, HandleBeginInv, HandleBeginActiveInv
    <2>2. ASSUME NEW id \in TransferId, NEW off \in 0..(PayloadLen - 1), NEW d \in Chunk,
                 HandleWrite(id, off, d) \/ HandleWriteAnswered(id, off, d)
          PROVE  TransferInv'
        <3>1. off \in Nat
            BY AssetAssumption
        <3> QED
            BY <2>2, <3>1, HandleWriteInv, HandleWriteAnsweredInv
    <2>3. ASSUME NEW id \in TransferId,
                 HandleCommit(id) \/ HandleCommitAnswered(id) \/ HandleAbort(id)
          PROVE  TransferInv'
        BY <2>3, HandleCommitInv, HandleCommitAnsweredInv, HandleAbortInv
    <2> QED
        BY <1>2, <2>1, <2>2, <2>3 DEF Handle
<1>3. CASE EndBegin \/ EndWrite \/ EndCommit
    BY <1>3, ReturnedInv
<1>4. CASE PollTimeout \/ ProtocolReset
    BY <1>4, SessionLostInv
<1>5. CASE StoreStep
    BY <1>5, StoreStepInv
<1>6. CASE TransferReset
    BY <1>6, TransferResetInv
<1> QED
    BY <1>1, <1>2, <1>3, <1>4, <1>5, <1>6 DEF TransferNext

-----------------------------------------------------------------------------
(* Theorems *)

\* The session's state and the candidate it fills are in this invariant in every
\* reachable state of asset_transfer.c and asset_persistence.c together.
THEOREM TransferInvariant == TransferSpec => [](Inv /\ TransferInv)
<1>1. TransferSpec => []Inv
    BY TransferUsesStore, StoreInvariant
<1>2. TransferInit => TransferInv
    BY TransferInitInv
<1>3. Inv /\ TransferInv /\ [TransferNext]_xvars => TransferInv'
    BY TransferNextInv
<1> QED
    BY <1>1, <1>2, <1>3, PTL DEF TransferSpec

\* The session of asset_transfer.c and the candidate of asset_persistence.c are open
\* together and have accepted the same bytes, so the store never answers BAD_STATE.
THEOREM TransferSessionMatchesCandidate == TransferSpec => []SessionMatchesCandidate
<1>1. Inv /\ TransferInv => SessionMatchesCandidate
    <2>1. SUFFICES ASSUME Inv, TransferInv, ~busy
                   PROVE  /\ sess.active <=> cand.active
                          /\ sess.active =>
                                 sess.next = cand.accepted /\ sess.next = Len(sent)
                          /\ ret # "BAD_STATE"
        BY DEF SessionMatchesCandidate
    <2>2. ret # "BAD_STATE"
        BY <2>1 DEF TransferInv, RetInv
    <2>3. cand.active => sess.active
        BY <2>1 DEF TransferInv, SessionInv
    <2>4. ASSUME sess.active
          PROVE  cand.active /\ sess.next = cand.accepted /\ sess.next = Len(sent)
        <3>1. sent \in Seq(Byte) /\ sess.next = Len(sent)
            BY <2>1, <2>4 DEF TransferInv, TransferTypeOK, SessionInv
        <3>2. PICK s \in Seq(Byte) : s = sent
            BY <3>1
        <3>3. Holds(s) /\ todo = <<>>
            BY <2>1, <2>4, <3>2, RestFacts
        <3>4. cand.accepted = Len(s) /\ cand.active
            BY <2>1, <3>3, AcceptedIsHeld
        <3> QED
            BY <3>1, <3>2, <3>4
    <2> QED
        BY <2>2, <2>3, <2>4
<1> QED
    BY <1>1, TransferInvariant, PTL

\* The acknowledgements of asset_transfer.c are true: an acknowledged chunk is in the
\* session, an acknowledged commit is the object in use, also when checksums collide
\* or the request is a repetition, and it survives resets and unfinished transfers
\* unless a commit marker has failed.
THEOREM TransferAcknowledgementsHold == TransferSpec => []AcknowledgementsHold
<1>1. TransferInv => AcknowledgementsHold
    BY DEF TransferInv, PromiseInv, AcknowledgementsHold, AcknowledgedSurvives
<1> QED
    BY <1>1, TransferInvariant, PTL
=============================================================================
