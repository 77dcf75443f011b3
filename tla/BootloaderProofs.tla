-------------------------- MODULE BootloaderProofs --------------------------
(***************************************************************************)
(* What Bootloader guarantees for every region and page size, set of       *)
(* signed headers and set of bootable images.                              *)
(*                                                                         *)
(* The argument.  From the erase that AUTHORIZE_HEADER starts until the    *)
(* commit marker, the target slot holds no authenticated record and the    *)
(* other slot holds the version floor (AuthorizeInv, ReceivingInv).  So    *)
(* while the application region is rewritten at most one record can boot,  *)
(* and it carries the floor.  The marker is programmed only after the      *)
(* chunks in flash were compared with the header's image (MetadataInv), so *)
(* the record that it completes boots, and its version was accepted        *)
(* against the floor.                                                      *)
(***************************************************************************)
EXTENDS Bootloader, SequenceTheorems, TLAPS

\* What a metadata page contributes to the version floor and to the boot selection.
FloorVersion(c) == IF Authenticated(c) THEN c.hdr.version ELSE 0
BootVersion(c, a) == IF Boots(c, a) THEN c.hdr.version ELSE 0

Other(s) == IF s = "A" THEN "B" ELSE "A"

\* AUTHORIZE_HEADER accepted the header on the scan just made, and the page that is
\* about to be erased is not the one that holds the floor.
AuthorizeInv ==
    step = "eraseSlot" =>
        /\ upd = "HEADER_STAGED"
        /\ staged \in Signed
        /\ target = TargetSlot(HighSlotOf(slots))
        /\ floor = FloorOf(slots)
        /\ committed = CommittedOf(slots, app)
        /\ staged.version >= floor

\* While an image is received the target slot is as erased as the next operation
\* on it needs, and the header was accepted against the floor that flash still has.
ReceivingInv ==
    Receiving =>
        /\ step # "eraseSlot"
        /\ floor = FloorOf(slots)
        /\ staged.version >= floor
        /\ slots[target] =
               [hdr |-> IF step \in {"tag", "marker"} THEN staged ELSE Erased,
                tag |-> IF step = "marker" THEN "valid" ELSE "erased",
                marker |-> "erased"]

\* What was hashed is in flash, chunk by chunk, also while the next is programmed.
StreamInv ==
    Receiving =>
        /\ Len(stream) = expected
        /\ expected <= Len(staged.image)
        /\ \A i \in 1..expected : app[i] = stream[i]

\* The DATA request being programmed is the next one in sequence.
DataInv ==
    step \in {"erasePage", "program"} =>
        /\ Receiving
        /\ chunk # <<>>
        /\ chunk[1] = expected
        /\ expected < Len(staged.image)
        /\ step = "erasePage" => expected % PageChunks = 0

\* Metadata is programmed only for an image that END has verified in flash.
MetadataInv == step \in Metadata => Receiving /\ ImageVerified

Inv ==
    /\ TypeOK
    /\ OneRequestAtATime
    /\ OnlyFloorBoots
    /\ AuthorizeInv /\ ReceivingInv /\ StreamInv /\ DataInv /\ MetadataInv
    /\ CommittedHolds

-----------------------------------------------------------------------------
(* Headers and metadata pages *)

\* A header with a valid tag has a positive version and an image that fits.
LEMMA SignedFacts ==
    ASSUME NEW h \in Signed
    PROVE  /\ h \in Header
           /\ h.version \in Nat /\ h.version > 0
           /\ h.image \in Seq(Chunk)
           /\ Len(h.image) \in 1..MaxChunks
           /\ \A i \in 1..Len(h.image) : h.image[i] \in Chunk
           /\ h # Erased /\ h # Junk
<1>1. h \in Header /\ h \in [version : Nat \ {0}, image : Seq(Chunk)]
    BY BootloaderAssumption
<1>2. h.image \in Seq(Chunk) /\ Len(h.image) \in 1..MaxChunks
    BY <1>1, BootloaderAssumption
<1>3. \A i \in 1..Len(h.image) : h.image[i] \in Chunk
    BY <1>2, ElementOfSeq
<1> QED
    BY <1>1, <1>2, <1>3, BootloaderAssumption

\* What a page contributes is a version, or nothing.
LEMMA VersionFacts ==
    ASSUME NEW c, NEW a
    PROVE  /\ FloorVersion(c) \in Nat
           /\ BootVersion(c, a) \in {0, FloorVersion(c)}
           /\ Authenticated(c) => c.hdr \in Signed /\ FloorVersion(c) = c.hdr.version
           /\ ~Authenticated(c) => FloorVersion(c) = 0
<1>1. Authenticated(c) => c.hdr \in Signed
    BY DEF Authenticated
<1>2. Authenticated(c) => c.hdr.version \in Nat
    BY <1>1, SignedFacts
<1> QED
    BY <1>1, <1>2 DEF FloorVersion, BootVersion, Boots

\* scan_metadata(): the floor is the higher version of the two pages, and so is the
\* version that may be booted among the pages that boot.
LEMMA ScanFacts ==
    ASSUME NEW sl, NEW a
    PROVE  /\ FloorOf(sl) \in Nat
           /\ CommittedOf(sl, a) \in Nat
           /\ HighSlotOf(sl) \in Slot \cup {NoSlot}
           /\ \A s \in Slot : FloorVersion(sl[s]) <= FloorOf(sl)
           /\ \E s \in Slot : FloorOf(sl) = FloorVersion(sl[s])
           /\ \A s \in Slot : BootVersion(sl[s], a) <= CommittedOf(sl, a)
           /\ \E s \in Slot : CommittedOf(sl, a) = BootVersion(sl[s], a)
<1> DEFINE va == FloorVersion(sl["A"])
           vb == FloorVersion(sl["B"])
           ba == BootVersion(sl["A"], a)
           bb == BootVersion(sl["B"], a)
<1>1. va \in Nat /\ vb \in Nat /\ ba \in Nat /\ bb \in Nat
    BY VersionFacts
<1>2. FloorOf(sl) = IF vb >= va THEN vb ELSE va
    <2>1. FloorOf(sl) = IF Authenticated(sl["B"]) /\ sl["B"].hdr.version >= va
                        THEN sl["B"].hdr.version ELSE va
        BY DEF FloorOf, FloorVersion
    <2>2. Authenticated(sl["B"]) => vb = sl["B"].hdr.version
        BY DEF FloorVersion
    <2>3. ~Authenticated(sl["B"]) => vb = 0
        BY DEF FloorVersion
    <2> HIDE DEF va, vb
    <2> QED
        BY <1>1, <2>1, <2>2, <2>3
<1>3. CommittedOf(sl, a) = IF bb >= ba THEN bb ELSE ba
    <2>1. CommittedOf(sl, a) = IF Boots(sl["B"], a) /\ sl["B"].hdr.version >= ba
                               THEN sl["B"].hdr.version ELSE ba
        BY DEF CommittedOf, BootVersion
    <2>2. Boots(sl["B"], a) => bb = sl["B"].hdr.version
        BY DEF BootVersion
    <2>3. ~Boots(sl["B"], a) => bb = 0
        BY DEF BootVersion
    <2> HIDE DEF ba, bb
    <2> QED
        BY <1>1, <2>1, <2>2, <2>3
<1>4. HighSlotOf(sl) \in Slot \cup {NoSlot}
    BY DEF HighSlotOf, Slot
<1> HIDE DEF va, vb, ba, bb
<1>5. /\ FloorOf(sl) \in Nat /\ va <= FloorOf(sl) /\ vb <= FloorOf(sl)
      /\ FloorOf(sl) = va \/ FloorOf(sl) = vb
    BY <1>1, <1>2
<1>6. /\ CommittedOf(sl, a) \in Nat
      /\ ba <= CommittedOf(sl, a) /\ bb <= CommittedOf(sl, a)
      /\ CommittedOf(sl, a) = ba \/ CommittedOf(sl, a) = bb
    BY <1>1, <1>3
<1> QED
    BY <1>4, <1>5, <1>6 DEF Slot, va, vb, ba, bb

\* AUTHORIZE_HEADER keeps the page that holds the floor: highest_floor_slot.
LEMMA TargetFacts ==
    ASSUME NEW sl, NEW t, t = TargetSlot(HighSlotOf(sl))
    PROVE  /\ t \in Slot
           /\ Other(t) \in Slot /\ Other(t) # t
           /\ FloorOf(sl) = FloorVersion(sl[Other(t)])
           /\ Authenticated(sl[t]) => Authenticated(sl[Other(t)])
<1>1. t \in Slot /\ Other(t) \in Slot /\ Other(t) # t
    BY DEF TargetSlot, Other, Slot
<1>2. CASE HighSlotOf(sl) = "A"
    <2>1. t = "B" /\ Other(t) = "A"
        BY <1>2 DEF TargetSlot, Other
    <2>2. /\ Authenticated(sl["A"])
          /\ ~(Authenticated(sl["B"]) /\ sl["B"].hdr.version >= sl["A"].hdr.version)
        BY <1>2 DEF HighSlotOf, NoSlot
    <2> QED
        BY <1>1, <2>1, <2>2 DEF FloorOf, FloorVersion
<1>3. CASE HighSlotOf(sl) = "B"
    <2>1. t = "A" /\ Other(t) = "B"
        BY <1>3 DEF TargetSlot, Other
    <2>2. /\ Authenticated(sl["B"])
          /\ sl["B"].hdr.version >= FloorVersion(sl["A"])
        BY <1>3 DEF HighSlotOf, NoSlot, FloorVersion
    <2> QED
        BY <1>1, <2>1, <2>2 DEF FloorOf, FloorVersion
<1>4. CASE HighSlotOf(sl) = NoSlot
    <2>1. t = "A" /\ Other(t) = "B"
        BY <1>4 DEF TargetSlot, Other, NoSlot
    <2>2. ~Authenticated(sl["A"])
        BY <1>4 DEF HighSlotOf, NoSlot
    <2>3. ~Authenticated(sl["B"])
        <3>1. Authenticated(sl["B"]) => sl["B"].hdr.version >= 0
            BY SignedFacts DEF Authenticated
        <3> QED
            BY <1>4, <2>2, <3>1 DEF HighSlotOf, NoSlot
    <2> QED
        BY <1>1, <2>1, <2>2, <2>3 DEF FloorOf, FloorVersion
<1> QED
    BY <1>2, <1>3, <1>4, ScanFacts DEF Slot

\* With no record in one slot, the other alone decides.
LEMMA OneRecord ==
    ASSUME NEW sl, NEW a, NEW t \in Slot, ~Authenticated(sl[t])
    PROVE  /\ FloorOf(sl) = FloorVersion(sl[Other(t)])
           /\ CommittedOf(sl, a) = BootVersion(sl[Other(t)], a)
           /\ CommittedOf(sl, a) \in {0, FloorOf(sl)}
<1>1. /\ FloorVersion(sl[t]) = 0 /\ BootVersion(sl[t], a) = 0
      /\ FloorVersion(sl[Other(t)]) \in Nat
      /\ BootVersion(sl[Other(t)], a) \in {0, FloorVersion(sl[Other(t)])}
    BY VersionFacts DEF FloorVersion
<1>2. Slot = {t, Other(t)}
    BY DEF Slot, Other
<1>3. FloorOf(sl) = FloorVersion(sl[Other(t)])
    BY <1>1, <1>2, ScanFacts
<1>4. CommittedOf(sl, a) = BootVersion(sl[Other(t)], a)
    BY <1>1, <1>2, ScanFacts
<1> QED
    BY <1>1, <1>3, <1>4

\* A record that boots and is not older than the other page's decides.
LEMMA NewestBoots ==
    ASSUME NEW sl, NEW a, NEW t \in Slot, Boots(sl[t], a),
           sl[t].hdr.version >= FloorVersion(sl[Other(t)])
    PROVE  /\ FloorOf(sl) = sl[t].hdr.version
           /\ CommittedOf(sl, a) = sl[t].hdr.version
<1>1. /\ FloorVersion(sl[t]) = sl[t].hdr.version
      /\ BootVersion(sl[t], a) = sl[t].hdr.version
      /\ sl[t].hdr.version \in Nat
    BY SignedFacts DEF FloorVersion, BootVersion, Boots, Authenticated
<1>2. /\ FloorVersion(sl[Other(t)]) \in Nat
      /\ BootVersion(sl[Other(t)], a) \in {0, FloorVersion(sl[Other(t)])}
    BY VersionFacts
<1>3. Slot = {t, Other(t)}
    BY DEF Slot, Other
<1>4. FloorOf(sl) = sl[t].hdr.version
    BY <1>1, <1>2, <1>3, ScanFacts
<1>5. CommittedOf(sl, a) = sl[t].hdr.version
    BY <1>1, <1>2, <1>3, ScanFacts
<1> QED
    BY <1>4, <1>5

\* Replacing a page that has no record by one that has none changes no scan.
LEMMA SameScan ==
    ASSUME NEW sl, NEW sn, NEW a, NEW t \in Slot, sn[Other(t)] = sl[Other(t)],
           ~Authenticated(sl[t]), ~Authenticated(sn[t])
    PROVE  FloorOf(sn) = FloorOf(sl) /\ CommittedOf(sn, a) = CommittedOf(sl, a)
    BY OneRecord

\* A page erase never reaches back into a page before its own.
LEMMA PageStart ==
    ASSUME NEW off \in Nat, off % PageChunks = 0, NEW i \in Cell, i <= off
    PROVE  i \notin Page(off)
<1>1. PageChunks \in Nat \ {0} /\ i - 1 \in Nat /\ i - 1 < off
    BY BootloaderAssumption DEF Cell
<1>2. ASSUME NEW p \in Nat \ {0}, NEW j \in Nat, off % p = 0, j < off
      PROVE  j \div p # off \div p
    BY <1>2
<1> QED
    BY <1>1, <1>2 DEF Page

-----------------------------------------------------------------------------
(* What a flash operation may leave *)

FlashType == slots \in [Slot -> SlotContent] /\ app \in [Cell -> Chunk \cup {Erased, Junk}]

\* The flash after a step: nothing but the floor can boot, and the floor never falls
\* and rises only to a version that boots.
FlashSafe ==
    /\ FlashType'
    /\ OnlyFloorBoots'
    /\ FloorOf(slots') >= FloorOf(slots)
    /\ FloorOf(slots') > FloorOf(slots) => CommittedOf(slots', app') = FloorOf(slots')

\* A step that leaves the metadata pages alone cannot move the floor.
LEMMA SlotsKept ==
    ASSUME FlashType', OnlyFloorBoots', UNCHANGED slots
    PROVE  FlashSafe
<1>1. FloorOf(slots') = FloorOf(slots) /\ FloorOf(slots) \in Nat
    BY ScanFacts
<1> QED
    BY <1>1 DEF FlashSafe

\* A step that leaves the flash alone.
LEMMA FlashKept ==
    ASSUME Inv, UNCHANGED flashVars
    PROVE  FlashSafe
<1>1. FlashType' /\ OnlyFloorBoots'
    BY DEF Inv, TypeOK, FlashType, flashVars, OnlyFloorBoots
<1> QED
    BY <1>1, SlotsKept DEF flashVars

\* The erase of AUTHORIZE_HEADER, complete or torn, hits only the page whose version
\* the floor does not need.
LEMMA EraseSlotContent ==
    ASSUME Inv, step = "eraseSlot", UNCHANGED app,
           NEW c \in TornErase(target), slots' = [slots EXCEPT ![target] = c]
    PROVE  FlashSafe
<1>1. CASE c = slots[target]
    <2>1. slots' = slots
        BY <1>1 DEF Inv, TypeOK
    <2> QED
        BY <2>1, FlashKept DEF flashVars
<1>2. CASE c \in {ErasedSlot, JunkSlot}
    <2>1. /\ target \in Slot /\ Other(target) \in Slot /\ Other(target) # target
          /\ FloorOf(slots) = FloorVersion(slots[Other(target)])
        BY TargetFacts DEF Inv, AuthorizeInv
    <2>2. c \in SlotContent /\ ~Authenticated(c)
        BY <1>2 DEF ErasedSlot, JunkSlot, SlotContent, Authenticated
    <2>3. FlashType'
        BY <2>1, <2>2 DEF Inv, TypeOK, FlashType
    <2>4. slots'[target] = c /\ slots'[Other(target)] = slots[Other(target)]
        BY <2>1 DEF Inv, TypeOK
    <2>5. /\ FloorOf(slots') = FloorOf(slots)
          /\ CommittedOf(slots', app') \in {0, FloorOf(slots')}
        BY <2>1, <2>2, <2>4, OneRecord
    <2> QED
        BY <2>3, <2>5, ScanFacts DEF FlashSafe, OnlyFloorBoots
<1> QED
    BY <1>1, <1>2 DEF TornErase

\* While the application region is written the target slot holds no record, so at
\* most the floor's own image boots.
LEMMA AppContent ==
    ASSUME Inv, Receiving, UNCHANGED slots, app' \in [Cell -> Chunk \cup {Erased, Junk}]
    PROVE  FlashSafe
<1>1. target \in Slot /\ ~Authenticated(slots[target])
    BY DEF Inv, TypeOK, ReceivingInv, Authenticated
<1>2. FlashType'
    BY DEF Inv, TypeOK, FlashType
<1>3. OnlyFloorBoots'
    BY <1>1, OneRecord DEF OnlyFloorBoots
<1> QED
    BY <1>2, <1>3, SlotsKept

\* The record that the commit marker completes boots, and holds the new floor.
LEMMA MarkedRecord ==
    ASSUME Inv, step = "marker", UNCHANGED app,
           slots' = [slots EXCEPT ![target].marker = "committed"]
    PROVE  /\ FlashType'
           /\ FloorOf(slots') = staged.version
           /\ CommittedOf(slots', app') = staged.version
           /\ staged.version \in Nat
           /\ staged.version >= FloorOf(slots)
<1>1. Receiving /\ ImageVerified
    BY DEF Inv, MetadataInv, Metadata
<1>2. /\ staged \in Signed /\ target \in Slot
      /\ Other(target) \in Slot /\ Other(target) # target
    BY <1>1 DEF Inv, TypeOK, Other, Slot
<1>3. slots[target] = [hdr |-> staged, tag |-> "valid", marker |-> "erased"]
    BY <1>1 DEF Inv, ReceivingInv
<1>4. /\ slots'[target] = [hdr |-> staged, tag |-> "valid", marker |-> "committed"]
      /\ slots'[Other(target)] = slots[Other(target)]
    BY <1>2, <1>3 DEF Inv, TypeOK
<1>5. FlashType'
    BY <1>2, <1>3, <1>4, SignedFacts DEF Inv, TypeOK, FlashType, SlotContent
<1>6. /\ staged.version \in Nat
      /\ staged.version >= FloorOf(slots)
      /\ FloorOf(slots) >= FloorVersion(slots[Other(target)])
      /\ FloorOf(slots) \in Nat /\ FloorVersion(slots[Other(target)]) \in Nat
    BY <1>1, <1>2, SignedFacts, ScanFacts, VersionFacts DEF Inv, ReceivingInv
<1>7. Boots(slots'[target], app')
    BY <1>1, <1>2, <1>4 DEF Boots, Authenticated, AppMatches, ImageVerified
<1>8. slots'[target].hdr.version >= FloorVersion(slots'[Other(target)])
    BY <1>4, <1>6
<1>9. /\ FloorOf(slots') = slots'[target].hdr.version
      /\ CommittedOf(slots', app') = slots'[target].hdr.version
    BY <1>2, <1>7, <1>8, NewestBoots
<1> QED
    BY <1>4, <1>5, <1>6, <1>9

\* A metadata program, complete or torn, adds no record or one that boots.
LEMMA MetadataContent ==
    ASSUME Inv, step \in Metadata, UNCHANGED app,
           NEW c \in TornMetadata, slots' = [slots EXCEPT ![target] = c]
    PROVE  FlashSafe
<1>1. Receiving
    BY DEF Inv, MetadataInv
<1>2. /\ staged \in Signed /\ target \in Slot
      /\ Other(target) \in Slot /\ Other(target) # target
    BY <1>1 DEF Inv, TypeOK, Other, Slot
<1>3. slots[target] = [hdr |-> IF step \in {"tag", "marker"} THEN staged ELSE Erased,
                       tag |-> IF step = "marker" THEN "valid" ELSE "erased",
                       marker |-> "erased"]
    BY <1>1 DEF Inv, ReceivingInv
<1>4. CASE step = "marker" /\ c = [slots[target] EXCEPT !.marker = "committed"]
    <2>1. slots' = [slots EXCEPT ![target].marker = "committed"]
        BY <1>4
    <2> QED
        BY <1>4, <2>1, MarkedRecord, ScanFacts DEF FlashSafe, OnlyFloorBoots
<1>5. CASE ~(step = "marker" /\ c = [slots[target] EXCEPT !.marker = "committed"])
    <2>1. c \in SlotContent /\ c.marker # "committed"
        BY <1>2, <1>3, <1>5, SignedFacts
           DEF TornMetadata, Metadata, SlotContent
    <2>2. ~Authenticated(c) /\ ~Authenticated(slots[target])
        BY <1>3, <2>1 DEF Authenticated
    <2>3. slots'[target] = c /\ slots'[Other(target)] = slots[Other(target)]
        BY <1>2 DEF Inv, TypeOK
    <2>4. FlashType'
        BY <1>2, <2>1 DEF Inv, TypeOK, FlashType
    <2>5. /\ FloorOf(slots') = FloorOf(slots)
          /\ CommittedOf(slots', app') \in {0, FloorOf(slots')}
        BY <1>2, <2>2, <2>3, OneRecord
    <2> QED
        BY <2>4, <2>5, ScanFacts DEF FlashSafe, OnlyFloorBoots
<1> QED
    BY <1>4, <1>5

\* What the erase of an application page may leave.
LEMMA TornPageType ==
    ASSUME NEW off, NEW a \in TornPage(off)
    PROVE  a \in [Cell -> Chunk \cup {Erased, Junk}]
    BY DEF TornPage

\* What the program of a chunk may leave.
LEMMA TornCellType ==
    ASSUME Inv, step = "program", NEW a \in TornCell(chunk[1] + 1, chunk[2])
    PROVE  a \in [Cell -> Chunk \cup {Erased, Junk}]
<1>1. chunk \in (0..(MaxChunks - 1)) \X Chunk
    BY DEF Inv, TypeOK, DataInv
<1>2. chunk[1] + 1 \in Cell /\ chunk[2] \in Chunk
    BY <1>1, BootloaderAssumption DEF Cell
<1> QED
    BY <1>2 DEF Inv, TypeOK, TornCell

\* No flash operation and no loss of power, wherever it strikes, lowers the floor or
\* makes anything but the floor bootable.
LEMMA StepSafe ==
    ASSUME Inv, [Next]_vars
    PROVE  FlashSafe
<1>1. CASE EraseSlot
    <2>1. ErasedSlot \in TornErase(target)
        BY DEF TornErase
    <2> QED
        BY <1>1, <2>1, EraseSlotContent DEF EraseSlot
<1>2. CASE EraseSlotFails
    BY <1>2, EraseSlotContent DEF EraseSlotFails
<1>3. CASE ErasePage
    <2>1. app' \in [Cell -> Chunk \cup {Erased, Junk}]
        BY <1>3 DEF ErasePage, Inv, TypeOK
    <2> QED
        BY <1>3, <2>1, AppContent DEF ErasePage, Inv, DataInv
<1>4. CASE ErasePageFails
    BY <1>4, AppContent, TornPageType DEF ErasePageFails, Inv, DataInv
<1>5. CASE Program
    <2>1. app' \in TornCell(chunk[1] + 1, chunk[2])
        BY <1>5 DEF Program, TornCell
    <2> QED
        BY <1>5, <2>1, AppContent, TornCellType DEF Program, Inv, DataInv
<1>6. CASE ProgramFails
    BY <1>6, AppContent, TornCellType DEF ProgramFails, Inv, DataInv
<1>7. CASE ProgramHeader
    <2>1. [slots[target] EXCEPT !.hdr = staged] \in TornMetadata
        BY <1>7 DEF ProgramHeader, TornMetadata
    <2>2. slots' = [slots EXCEPT ![target] = [slots[target] EXCEPT !.hdr = staged]]
        BY <1>7 DEF ProgramHeader
    <2> QED
        BY <1>7, <2>1, <2>2, MetadataContent DEF ProgramHeader, Metadata
<1>8. CASE ProgramTag
    <2>1. [slots[target] EXCEPT !.tag = "valid"] \in TornMetadata
        BY <1>8 DEF ProgramTag, TornMetadata
    <2>2. slots' = [slots EXCEPT ![target] = [slots[target] EXCEPT !.tag = "valid"]]
        BY <1>8 DEF ProgramTag
    <2> QED
        BY <1>8, <2>1, <2>2, MetadataContent DEF ProgramTag, Metadata
<1>9. CASE ProgramMarker
    BY <1>9, MarkedRecord, ScanFacts DEF ProgramMarker, FlashSafe, OnlyFloorBoots
<1>10. CASE MetadataFails
    BY <1>10, MetadataContent DEF MetadataFails
<1>11. CASE PowerLoss
    <2>1. CASE step = "eraseSlot"
        <3>1. /\ \E c \in TornErase(target) : slots' = [slots EXCEPT ![target] = c]
              /\ UNCHANGED app
            BY <1>11, <2>1 DEF PowerLoss, Metadata
        <3> QED
            BY <2>1, <3>1, EraseSlotContent
    <2>2. CASE step \in Metadata
        BY <1>11, <2>2, MetadataContent DEF PowerLoss, Metadata
    <2>3. CASE step = "erasePage"
        BY <1>11, <2>3, AppContent, TornPageType DEF PowerLoss, Metadata, Inv, DataInv
    <2>4. CASE step = "program"
        BY <1>11, <2>4, AppContent, TornCellType DEF PowerLoss, Metadata, Inv, DataInv
    <2>5. CASE step = "poll"
        BY <1>11, <2>5, FlashKept DEF PowerLoss, Metadata
    <2> QED
        BY <2>1, <2>2, <2>3, <2>4, <2>5 DEF Inv, TypeOK
<1>12. CASE Boot \/ Usb \/ Request \/ UNCHANGED vars
    <2>1. UNCHANGED flashVars
        BY <1>12 DEF Boot, BootApp, BootRecovery, EnterBootloader, Usb, TxComplete,
            UsbBusReset, UsbConfigure, Refuse, Info, Request, HandleBegin, HandleBeginBad,
            HandleAuthorize, HandleData, HandleEnd, HandleEndRejects, vars
    <2> QED
        BY <2>1, FlashKept
<1> QED
    BY <1>1, <1>2, <1>3, <1>4, <1>5, <1>6, <1>7, <1>8, <1>9, <1>10, <1>11, <1>12
       DEF Next, FlashStep

-----------------------------------------------------------------------------
(* The inductive invariant *)

\* A device as it leaves the factory.
LEMMA InitInv ==
    Init => Inv
<1> SUFFICES ASSUME Init PROVE Inv
    OBVIOUS
<1>1. FlashType /\ \E s \in Slot : ~Authenticated(slots[s])
    <2>1. ErasedSlot \in SlotContent /\ ~Authenticated(ErasedSlot)
        BY DEF ErasedSlot, SlotContent, Authenticated
    <2>2. CASE slots = [s \in Slot |-> ErasedSlot] /\ app = [i \in Cell |-> Erased]
        BY <2>1, <2>2 DEF FlashType, Slot
    <2>3. CASE \E h \in Signed :
                   /\ slots = [s \in Slot |->
                         IF s = "A" THEN [hdr |-> h, tag |-> "valid", marker |-> "committed"]
                         ELSE ErasedSlot]
                   /\ app = [i \in Cell |-> IF i <= Len(h.image) THEN h.image[i] ELSE Erased]
        <3>1. PICK h \in Signed :
                   /\ slots = [s \in Slot |->
                         IF s = "A" THEN [hdr |-> h, tag |-> "valid", marker |-> "committed"]
                         ELSE ErasedSlot]
                   /\ app = [i \in Cell |-> IF i <= Len(h.image) THEN h.image[i] ELSE Erased]
            BY <2>3
        <3>2. [hdr |-> h, tag |-> "valid", marker |-> "committed"] \in SlotContent
            BY SignedFacts DEF SlotContent
        <3>3. slots \in [Slot -> SlotContent]
            BY <2>1, <3>1, <3>2
        <3>4. slots["B"] = ErasedSlot
            BY <3>1 DEF Slot
        <3>5. app \in [Cell -> Chunk \cup {Erased, Junk}]
            BY <3>1, SignedFacts DEF Cell
        <3> QED
            BY <2>1, <3>3, <3>4, <3>5 DEF FlashType, Slot
    <2> QED
        BY <2>2, <2>3 DEF Init
<1>2. OnlyFloorBoots
    BY <1>1, OneRecord DEF OnlyFloorBoots
<1>3. TypeOK
    <2>1. expected \in 0..MaxChunks /\ stream \in Seq(Chunk) /\ floor \in Nat /\ committed \in Nat
        BY EmptySeq, BootloaderAssumption DEF Init
    <2>2. ~Receiving
        BY DEF Init, Receiving
    <2> QED
        BY <1>1, <2>1, <2>2, Zenon
           DEF Init, TypeOK, FlashType, UpdateState, NoSlot, Metadata
<1>4. OneRequestAtATime
    BY DEF Init, OneRequestAtATime
<1>5. AuthorizeInv /\ ReceivingInv /\ StreamInv /\ DataInv /\ MetadataInv /\ CommittedHolds
    BY DEF Init, AuthorizeInv, ReceivingInv, StreamInv, DataInv, MetadataInv, Receiving,
           CommittedHolds, CommitIsDurable, AuthorizeKeepsBootable, Metadata
<1> QED
    BY <1>2, <1>3, <1>4, <1>5 DEF Inv

\* Every reset of the core, whatever it leaves in flash.
LEMMA ResetCoreInv ==
    ASSUME ResetCore, FlashSafe, token' \in BOOLEAN
    PROVE  Inv'
<1>1. TypeOK'
    <2>1. /\ expected' \in 0..MaxChunks /\ stream' \in Seq(Chunk)
          /\ floor' \in Nat /\ committed' \in Nat
        BY EmptySeq, BootloaderAssumption DEF ResetCore
    <2>2. ~Receiving'
        BY DEF ResetCore, Receiving
    <2> QED
        BY <2>1, <2>2, Zenon
           DEF ResetCore, TypeOK, FlashSafe, FlashType, UpdateState, NoSlot, Metadata
<1>2. OneRequestAtATime'
    BY DEF ResetCore, OneRequestAtATime
<1>3. (AuthorizeInv /\ ReceivingInv /\ StreamInv /\ DataInv /\ MetadataInv /\ CommittedHolds)'
    BY DEF ResetCore, AuthorizeInv, ReceivingInv, StreamInv, DataInv, MetadataInv, Receiving,
           CommittedHolds, CommitIsDurable, AuthorizeKeepsBootable, Metadata
<1> QED
    BY <1>1, <1>2, <1>3 DEF Inv, FlashSafe

\* The endpoint after an answer was queued, or could not be.
UsbOK ==
    /\ configured \in BOOLEAN /\ txActive \in BOOLEAN
    /\ epTx \in {"disabled", "nak", "valid"}
    /\ epRx \in {"disabled", "nak", "valid"}
    /\ epTx = "valid" => txActive /\ configured /\ epRx # "valid"

LEMMA AnswerFacts ==
    ASSUME UsbOK, epTx # "valid", Answer
    PROVE  UsbOK'
    BY DEF UsbOK, Answer

LEMMA UsbFacts ==
    ASSUME Inv
    PROVE  /\ UsbOK
           /\ step # "poll" => mode = "recovery" /\ epTx # "valid"
           /\ Received => mode = "recovery" /\ step = "poll" /\ epTx # "valid"
    BY DEF Inv, TypeOK, OneRequestAtATime, UsbOK, Received, Polling

\* The scan variables after scan_metadata(), or left alone.
ScanKept == UNCHANGED scanVars \/ ScanMetadata

LEMMA ScanKeptFacts ==
    ASSUME Inv, ScanKept, UNCHANGED flashVars
    PROVE  /\ floor' \in Nat /\ committed' \in Nat
           /\ highSlot' \in Slot \cup {NoSlot}
           /\ floor = FloorOf(slots) => floor' = FloorOf(slots')
           /\ committed = CommittedOf(slots, app) => committed' = CommittedOf(slots', app')
           /\ ScanMetadata => floor' = FloorOf(slots') /\ committed' = CommittedOf(slots', app')
<1>1. CASE UNCHANGED scanVars
    <2>1. UNCHANGED <<floor, committed, highSlot, slots, app>>
        BY <1>1 DEF scanVars, flashVars
    <2> QED
        BY <2>1 DEF Inv, TypeOK, ScanMetadata
<1>2. CASE ScanMetadata
    <2>1. UNCHANGED <<slots, app>>
        BY DEF flashVars
    <2> QED
        BY <1>2, <2>1, ScanFacts DEF ScanMetadata
<1> QED
    BY <1>1, <1>2 DEF ScanKept

\* A request that is only answered, and an event of the bus: nothing of the update
\* moves.
LEMMA QuietInv ==
    ASSUME Inv, step = "poll", UNCHANGED <<flashVars, updVars, step, chunk>>, ScanKept,
           mode' \in {"reset", "recovery", "app", "halted"}, token' \in BOOLEAN, UsbOK'
    PROVE  Inv'
<1> USE DEF flashVars, updVars
<1>1. FlashSafe
    BY FlashKept
<1>2. TypeOK'
    BY <1>1, ScanKeptFacts DEF Inv, TypeOK, UsbOK, Receiving
<1>3. OneRequestAtATime'
    BY DEF UsbOK, OneRequestAtATime
<1>4. AuthorizeInv' /\ DataInv' /\ MetadataInv'
    BY DEF AuthorizeInv, DataInv, MetadataInv, Metadata
<1>5. ReceivingInv'
    BY ScanKeptFacts DEF Inv, ReceivingInv, Receiving, ScanKept, scanVars, ScanMetadata
<1>6. StreamInv'
    BY DEF Inv, StreamInv, Receiving
<1>7. CommitIsDurable'
    BY ScanKeptFacts DEF Inv, CommittedHolds, CommitIsDurable
<1>8. AuthorizeKeepsBootable'
    <2>1. CASE UNCHANGED scanVars
        BY <2>1 DEF Inv, CommittedHolds, AuthorizeKeepsBootable, scanVars
    <2>2. CASE ScanMetadata
        BY <2>2, ScanKeptFacts DEF AuthorizeKeepsBootable
    <2> QED
        BY <2>1, <2>2 DEF ScanKept
<1> QED
    BY <1>1, <1>2, <1>3, <1>4, <1>5, <1>6, <1>7, <1>8
       DEF Inv, FlashSafe, CommittedHolds

\* The transaction ends, with or without a failed flash operation: nothing is being
\* received any more.
LEMMA IdleInv ==
    ASSUME Inv, FlashSafe, upd' \in {"RECOVERY_IDLE", "HEADER_STAGED"}, step' = "poll",
           UNCHANGED <<token, mode, scanVars, stream, resetAfterTx, chunk>>, UsbOK',
           staged' \in Header \cup {Erased, Junk}, expected' \in 0..MaxChunks,
           previous' \in {<<>>, previous}, target' \in {NoSlot, target}
    PROVE  Inv'
<1> USE DEF scanVars
<1>1. TypeOK'
    BY DEF Inv, TypeOK, FlashSafe, FlashType, UsbOK, UpdateState, Receiving, Metadata
<1>2. OneRequestAtATime'
    BY DEF UsbOK, OneRequestAtATime
<1>3. (AuthorizeInv /\ ReceivingInv /\ StreamInv /\ DataInv /\ MetadataInv /\ CommittedHolds)'
    BY DEF AuthorizeInv, ReceivingInv, StreamInv, DataInv, MetadataInv, Receiving,
           CommittedHolds, CommitIsDurable, AuthorizeKeepsBootable, Metadata
<1> QED
    BY <1>1, <1>2, <1>3 DEF Inv, FlashSafe

LEMMA FlashFailedInv ==
    ASSUME Inv, FlashSafe, step # "poll", FlashFailed
    PROVE  Inv'
<1>1. UsbOK'
    BY UsbFacts, AnswerFacts DEF FlashFailed
<1> QED
    BY <1>1, IdleInv DEF FlashFailed, Inv, TypeOK

LEMMA BootInv ==
    ASSUME Inv, Boot
    PROVE  Inv'
<1>1. FlashSafe
    BY StepSafe DEF Next
<1>2. CASE BootApp
    <2>1. step = "poll"
        BY <1>2 DEF BootApp, Inv, OneRequestAtATime
    <2>2. UsbOK'
        BY <1>2, UsbFacts DEF BootApp, usbVars, UsbOK
    <2> QED
        BY <1>2, <2>1, <2>2, QuietInv DEF BootApp, ScanKept
<1>3. CASE BootRecovery
    <2>1. step = "poll"
        BY <1>3 DEF BootRecovery, Inv, OneRequestAtATime
    <2>2. UsbOK'
        BY <1>3, UsbFacts DEF BootRecovery, usbVars, UsbOK
    <2>3. TypeOK'
        <3>1. floor' \in Nat /\ committed' \in Nat /\ highSlot' \in Slot \cup {NoSlot}
            BY <1>3, ScanFacts DEF BootRecovery, ScanMetadata
        <3>2. expected' \in 0..MaxChunks /\ ~Receiving'
            BY <1>3, BootloaderAssumption DEF BootRecovery, Receiving
        <3> QED
            BY <1>1, <1>3, <2>2, <3>1, <3>2, Zenon
               DEF BootRecovery, FlashSafe, FlashType, Inv, TypeOK, UsbOK, UpdateState
    <2>4. OneRequestAtATime'
        BY <1>3, <2>1, <2>2 DEF BootRecovery, UsbOK, OneRequestAtATime
    <2>5. (AuthorizeInv /\ ReceivingInv /\ StreamInv /\ DataInv /\ MetadataInv /\ CommittedHolds)'
        BY <1>3, <2>1
           DEF BootRecovery, AuthorizeInv, ReceivingInv, StreamInv, DataInv, MetadataInv,
               Receiving, CommittedHolds, CommitIsDurable, AuthorizeKeepsBootable, Metadata
    <2> QED
        BY <1>1, <2>3, <2>4, <2>5 DEF Inv, FlashSafe
<1>4. CASE EnterBootloader
    BY <1>1, <1>4, ResetCoreInv DEF EnterBootloader
<1> QED
    BY <1>2, <1>3, <1>4 DEF Boot

LEMMA UsbInv ==
    ASSUME Inv, Usb
    PROVE  Inv'
<1>1. FlashSafe /\ mode \in {"reset", "recovery", "app", "halted"} /\ token \in BOOLEAN
    BY StepSafe DEF Next, Inv, TypeOK
<1>2. CASE TxComplete
    <2>1. CASE resetAfterTx
        BY <1>1, <1>2, <2>1, ResetCoreInv DEF TxComplete
    <2>2. CASE ~resetAfterTx
        <3>1. UsbOK'
            BY <1>2, <2>2, UsbFacts DEF TxComplete, UsbOK
        <3> QED
            BY <1>1, <1>2, <2>2, <3>1, QuietInv DEF TxComplete, Polling, ScanKept
    <2> QED
        BY <2>1, <2>2
<1>3. CASE UsbBusReset
    <2>1. UsbOK'
        BY <1>3 DEF UsbBusReset, BulkDisable, UsbOK
    <2> QED
        BY <1>1, <1>3, <2>1, QuietInv DEF UsbBusReset, Polling, ScanKept
<1>4. CASE UsbConfigure
    <2>1. UsbOK'
        BY <1>4, UsbFacts DEF UsbConfigure, UsbOK
    <2> QED
        BY <1>1, <1>4, <2>1, QuietInv DEF UsbConfigure, Polling, ScanKept
<1>5. CASE Refuse
    <2>1. UsbOK'
        BY <1>5, UsbFacts, AnswerFacts DEF Refuse
    <2> QED
        BY <1>1, <1>5, <2>1, QuietInv DEF Refuse, Received, Polling, ScanKept
<1>6. CASE Info
    <2>1. UsbOK'
        BY <1>6, UsbFacts, AnswerFacts DEF Info
    <2> QED
        BY <1>1, <1>6, <2>1, QuietInv DEF Info, Received, Polling, ScanKept
<1> QED
    BY <1>2, <1>3, <1>4, <1>5, <1>6 DEF Usb

\* BEGIN stages a header, or refuses a malformed one.
LEMMA HandleBeginInv ==
    ASSUME Inv, HandleBeginBad \/ \E h \in Header : HandleBegin(h)
    PROVE  Inv'
<1>1. FlashSafe
    BY StepSafe DEF Next, Request
<1>2. UsbOK'
    BY UsbFacts, AnswerFacts DEF HandleBegin, HandleBeginBad
<1>3. /\ staged' \in Header \cup {Erased, Junk}
      /\ expected' \in 0..MaxChunks
      /\ previous' = <<>> /\ target' = NoSlot
      /\ upd' \in {"RECOVERY_IDLE", "HEADER_STAGED"}
      /\ step' = "poll"
      /\ UNCHANGED <<token, mode, scanVars, stream, resetAfterTx, chunk>>
    BY BootloaderAssumption
       DEF HandleBegin, HandleBeginBad, ClearTransaction, Received, Polling
<1> QED
    BY <1>1, <1>2, <1>3, IdleInv

\* AUTHORIZE_HEADER: refused by the version policy, or about to erase the target.
LEMMA HandleAuthorizeInv ==
    ASSUME Inv, HandleAuthorize
    PROVE  Inv'
<1>1. /\ FlashSafe /\ step = "poll" /\ UNCHANGED flashVars
      /\ mode = "recovery" /\ upd = "HEADER_STAGED" /\ staged \in Signed
    BY StepSafe DEF Next, Request, HandleAuthorize, Received, Polling
<1>2. CASE VersionAccepted(staged.version)
    <2>1. /\ floor' = FloorOf(slots) /\ floor' \in Nat
          /\ committed' = CommittedOf(slots, app) /\ committed' \in Nat
          /\ highSlot' = HighSlotOf(slots) /\ highSlot' \in Slot \cup {NoSlot}
        BY ScanFacts DEF HandleAuthorize, ScanMetadata
    <2>2. /\ target' = TargetSlot(HighSlotOf(slots)) /\ target' \in Slot
          /\ step' = "eraseSlot"
          /\ UNCHANGED <<token, mode, upd, staged, expected, previous, stream,
                         resetAfterTx, chunk, usbVars>>
        BY <1>2, <2>1, TargetFacts DEF HandleAuthorize
    <2>3. staged.version >= floor'
        BY <1>1, <1>2, <2>1, SignedFacts DEF VersionAccepted
    <2>4. TypeOK'
        BY <1>1, <2>1, <2>2 DEF FlashSafe, FlashType, Inv, TypeOK, Receiving, usbVars
    <2>5. OneRequestAtATime'
        BY <1>1, <2>2, UsbFacts DEF HandleAuthorize, OneRequestAtATime, UsbOK, usbVars
    <2>6. AuthorizeInv'
        BY <1>1, <2>1, <2>2, <2>3 DEF AuthorizeInv, flashVars
    <2>7. (ReceivingInv /\ StreamInv /\ DataInv /\ MetadataInv /\ CommittedHolds)'
        BY <1>1, <2>2
           DEF ReceivingInv, StreamInv, DataInv, MetadataInv, Receiving, CommittedHolds,
               CommitIsDurable, AuthorizeKeepsBootable, Metadata
    <2> QED
        BY <1>1, <2>4, <2>5, <2>6, <2>7 DEF Inv, FlashSafe
<1>3. CASE ~VersionAccepted(staged.version)
    <2>1. UsbOK'
        BY <1>3, UsbFacts, AnswerFacts DEF HandleAuthorize
    <2> QED
        BY <1>1, <1>3, <2>1, QuietInv DEF HandleAuthorize, ScanKept, updVars, Inv, TypeOK
<1> QED
    BY <1>2, <1>3

\* DATA: a repetition or a wrong offset is only answered, the next chunk is taken.
LEMMA HandleDataInv ==
    ASSUME Inv, NEW off \in 0..(MaxChunks - 1), NEW v \in Chunk, HandleData(off, v)
    PROVE  Inv'
<1>1. /\ FlashSafe /\ step = "poll" /\ mode = "recovery" /\ Receiving
      /\ off < Len(staged.image)
      /\ UNCHANGED <<flashVars, token, mode, scanVars, updVars>>
    BY StepSafe DEF Next, Request, HandleData, Received, Polling
<1>2. CASE previous = <<off, v>> \/ off # expected
    <2>1. UsbOK'
        BY <1>2, UsbFacts, AnswerFacts DEF HandleData
    <2> QED
        BY <1>1, <1>2, <2>1, QuietInv DEF HandleData, ScanKept, Inv, TypeOK
<1>3. CASE off = expected /\ previous # <<off, v>>
    <2> USE DEF flashVars, scanVars, updVars, usbVars
    <2>1. /\ chunk' = <<expected, v>>
          /\ step' = IF expected % PageChunks = 0 THEN "erasePage" ELSE "program"
          /\ UNCHANGED usbVars
        BY <1>3 DEF HandleData
    <2>2. TypeOK'
        BY <1>1, <1>3, <2>1 DEF Inv, TypeOK, Receiving
    <2>3. OneRequestAtATime'
        BY <1>1, <2>1, UsbFacts DEF HandleData, OneRequestAtATime, UsbOK
    <2>4. ReceivingInv'
        BY <1>1, <2>1 DEF Inv, ReceivingInv, Receiving
    <2>5. StreamInv'
        BY <1>1, <2>1 DEF Inv, StreamInv, Receiving
    <2>6. DataInv'
        BY <1>1, <1>3, <2>1 DEF DataInv, Receiving
    <2>7. AuthorizeInv' /\ MetadataInv'
        BY <2>1 DEF AuthorizeInv, MetadataInv, Metadata
    <2>8. CommittedHolds'
        BY <1>1, <2>1 DEF CommittedHolds, CommitIsDurable, AuthorizeKeepsBootable, Receiving
    <2> QED
        BY <1>1, <2>2, <2>3, <2>4, <2>5, <2>6, <2>7, <2>8 DEF Inv, FlashSafe
<1> QED
    BY <1>2, <1>3

\* END: the image is verified in flash before its metadata is programmed.
LEMMA HandleEndInv ==
    ASSUME Inv, HandleEnd
    PROVE  Inv'
<1> USE DEF flashVars, scanVars, updVars, usbVars
<1>1. /\ FlashSafe /\ step = "poll" /\ mode = "recovery" /\ Receiving /\ ImageVerified
      /\ step' = "header"
      /\ UNCHANGED <<flashVars, token, mode, scanVars, updVars, chunk, usbVars>>
    BY StepSafe DEF Next, Request, HandleEnd, EndReceived, Received, Polling
<1>2. TypeOK'
    BY <1>1 DEF Inv, TypeOK, Receiving, Metadata
<1>3. OneRequestAtATime'
    BY <1>1, UsbFacts DEF HandleEnd, EndReceived, OneRequestAtATime, UsbOK
<1>4. ReceivingInv' /\ StreamInv'
    BY <1>1 DEF Inv, ReceivingInv, StreamInv, Receiving
<1>5. AuthorizeInv' /\ DataInv' /\ MetadataInv'
    BY <1>1 DEF AuthorizeInv, DataInv, MetadataInv, Receiving, ImageVerified
<1>6. CommittedHolds'
    BY <1>1 DEF CommittedHolds, CommitIsDurable, AuthorizeKeepsBootable, Receiving
<1> QED
    BY <1>1, <1>2, <1>3, <1>4, <1>5, <1>6 DEF Inv, FlashSafe

LEMMA HandleEndRejectsInv ==
    ASSUME Inv, HandleEndRejects
    PROVE  Inv'
<1>1. FlashSafe
    BY StepSafe DEF Next, Request
<1>2. UsbOK'
    BY UsbFacts, AnswerFacts DEF HandleEndRejects, EndReceived
<1> QED
    BY <1>1, <1>2, IdleInv DEF HandleEndRejects, EndReceived, Received, Polling, Inv, TypeOK

LEMMA RequestInv ==
    ASSUME Inv, Request
    PROVE  Inv'
    BY HandleBeginInv, HandleAuthorizeInv, HandleDataInv, HandleEndInv, HandleEndRejectsInv
       DEF Request

\* The target page is erased: the image may now be received.
LEMMA EraseSlotInv ==
    ASSUME Inv, EraseSlot
    PROVE  Inv'
<1> USE DEF scanVars
<1>1. /\ FlashSafe /\ step = "eraseSlot" /\ mode = "recovery" /\ step' = "poll"
      /\ upd' = "AUTHORIZED" /\ stream' = <<>> /\ expected' = 0 /\ previous' = <<>>
      /\ slots' = [slots EXCEPT ![target] = ErasedSlot]
      /\ UNCHANGED <<app, token, mode, scanVars, staged, target, resetAfterTx, chunk>>
      /\ UsbOK'
    BY StepSafe, UsbFacts, AnswerFacts DEF Next, FlashStep, EraseSlot
<1>2. /\ staged \in Signed /\ target \in Slot
      /\ Other(target) \in Slot /\ Other(target) # target
      /\ FloorOf(slots) = FloorVersion(slots[Other(target)])
      /\ Authenticated(slots[target]) => Authenticated(slots[Other(target)])
      /\ floor = FloorOf(slots) /\ committed = CommittedOf(slots, app)
      /\ staged.version >= floor
    BY <1>1, TargetFacts DEF Inv, AuthorizeInv
<1>3. /\ slots'[target] = ErasedSlot /\ slots'[Other(target)] = slots[Other(target)]
      /\ ~Authenticated(slots'[target])
    BY <1>1, <1>2 DEF Inv, TypeOK, ErasedSlot, Authenticated
<1>4. /\ FloorOf(slots') = FloorOf(slots)
      /\ CommittedOf(slots', app') = BootVersion(slots[Other(target)], app)
    BY <1>1, <1>2, <1>3, OneRecord, ZenonT(60)
<1>5. TypeOK'
    <2>1. expected' \in 0..MaxChunks /\ stream' \in Seq(Chunk)
        BY <1>1, EmptySeq, BootloaderAssumption
    <2> QED
        BY <1>1, <1>2, <2>1, Zenon
           DEF FlashSafe, FlashType, Inv, TypeOK, UsbOK, UpdateState, Receiving
<1>6. OneRequestAtATime'
    BY <1>1 DEF UsbOK, OneRequestAtATime
<1>7. ReceivingInv'
    BY <1>1, <1>2, <1>3, <1>4 DEF ReceivingInv, ErasedSlot
<1>8. StreamInv'
    BY <1>1, <1>2, SignedFacts DEF StreamInv
<1>9. AuthorizeInv' /\ DataInv' /\ MetadataInv'
    BY <1>1 DEF AuthorizeInv, DataInv, MetadataInv, Metadata
<1>10. CommitIsDurable'
    BY <1>1 DEF CommitIsDurable
<1>11. AuthorizeKeepsBootable'
    <2> SUFFICES ASSUME \A g, h \in Signed :
                            g.version = committed /\ h.version = committed => g = h
                 PROVE  BootVersion(slots[Other(target)], app) = committed
        BY <1>1, <1>4 DEF AuthorizeKeepsBootable
    <2>1. PICK s \in Slot : committed = BootVersion(slots[s], app)
        BY <1>2, ScanFacts
    <2>2. CASE s = Other(target)
        BY <2>1, <2>2
    <2>3. CASE s = target /\ committed = 0
        <3>1. BootVersion(slots[Other(target)], app) <= 0
            BY <1>2, <2>3, ScanFacts
        <3>2. BootVersion(slots[Other(target)], app) \in Nat
            BY VersionFacts
        <3> QED
            BY <2>3, <3>1, <3>2
    <2>4. CASE s = target /\ committed # 0
        <3>1. Boots(slots[target], app) /\ committed = slots[target].hdr.version
            BY <2>1, <2>4 DEF BootVersion
        <3>2. Authenticated(slots[target]) /\ Authenticated(slots[Other(target)])
            BY <1>2, <3>1 DEF Boots
        <3>3. committed = slots[Other(target)].hdr.version
            BY <1>2, <2>4, <3>2, VersionFacts DEF Inv, OnlyFloorBoots
        <3>4. slots[target].hdr = slots[Other(target)].hdr
            BY <3>1, <3>2, <3>3 DEF Authenticated
        <3>5. Boots(slots[Other(target)], app)
            BY <3>1, <3>2, <3>4 DEF Boots
        <3> QED
            BY <3>3, <3>5 DEF BootVersion
    <2>5. s \in {target, Other(target)}
        BY <1>2 DEF Slot, Other
    <2> QED
        BY <2>2, <2>3, <2>4, <2>5
<1> QED
    BY <1>1, <1>5, <1>6, <1>7, <1>8, <1>9, <1>10, <1>11 DEF Inv, FlashSafe, CommittedHolds

\* The first chunk of a page erases the page, and no chunk before it.
LEMMA ErasePageInv ==
    ASSUME Inv, ErasePage
    PROVE  Inv'
<1> USE DEF flashVars, scanVars, updVars, usbVars
<1>1. /\ FlashSafe /\ step = "erasePage" /\ mode = "recovery" /\ step' = "program"
      /\ app' = [i \in Cell |-> IF i \in Page(chunk[1]) THEN Erased ELSE app[i]]
      /\ UNCHANGED <<slots, token, mode, scanVars, updVars, chunk, usbVars>>
    BY StepSafe, UsbFacts DEF Next, FlashStep, ErasePage
<1>2. /\ Receiving /\ chunk # <<>> /\ chunk[1] = expected
      /\ expected < Len(staged.image) /\ expected % PageChunks = 0
    BY <1>1 DEF Inv, DataInv
<1>3. staged \in Signed /\ Len(staged.image) \in 1..MaxChunks /\ expected \in Nat
    BY <1>2, SignedFacts DEF Inv, TypeOK
<1>4. TypeOK'
    BY <1>1 DEF FlashSafe, FlashType, Inv, TypeOK, Receiving
<1>5. OneRequestAtATime'
    BY <1>1 DEF Inv, OneRequestAtATime
<1>6. ReceivingInv'
    BY <1>1 DEF Inv, ReceivingInv, Receiving
<1>7. StreamInv'
    <2>1. \A i \in 1..expected : app'[i] = app[i]
        <3> SUFFICES ASSUME NEW i \in 1..expected PROVE app'[i] = app[i]
            OBVIOUS
        <3>1. i \in Cell /\ i <= expected
            BY <1>2, <1>3, BootloaderAssumption DEF Cell
        <3> QED
            BY <1>1, <1>2, <1>3, <3>1, PageStart
    <2> QED
        BY <1>1, <1>2, <2>1 DEF Inv, StreamInv
<1>8. DataInv'
    BY <1>1, <1>2 DEF DataInv, Receiving
<1>9. AuthorizeInv' /\ MetadataInv' /\ CommittedHolds'
    BY <1>1, <1>2 DEF AuthorizeInv, MetadataInv, Metadata, Receiving,
                      CommittedHolds, CommitIsDurable, AuthorizeKeepsBootable
<1> QED
    BY <1>1, <1>4, <1>5, <1>6, <1>7, <1>8, <1>9 DEF Inv, FlashSafe

\* The chunk is programmed, read back and hashed.
LEMMA ProgramInv ==
    ASSUME Inv, Program
    PROVE  Inv'
<1> USE DEF scanVars
<1>1. /\ FlashSafe /\ step = "program" /\ mode = "recovery" /\ step' = "poll"
      /\ app' = [app EXCEPT ![chunk[1] + 1] = chunk[2]]
      /\ stream' = Append(stream, chunk[2]) /\ previous' = chunk
      /\ expected' = expected + 1 /\ upd' = "RECEIVING"
      /\ UNCHANGED <<slots, token, mode, scanVars, staged, target, resetAfterTx, chunk>>
      /\ UsbOK'
    BY StepSafe, UsbFacts, AnswerFacts DEF Next, FlashStep, Program
<1>2. /\ Receiving /\ chunk # <<>> /\ chunk[1] = expected
      /\ expected < Len(staged.image)
    BY <1>1 DEF Inv, DataInv
<1>3. /\ staged \in Signed /\ target \in Slot
      /\ Len(staged.image) \in 1..MaxChunks /\ expected \in Nat
    BY <1>2, SignedFacts DEF Inv, TypeOK
<1>4. /\ chunk[2] \in Chunk /\ stream \in Seq(Chunk) /\ Len(stream) = expected
      /\ \A i \in 1..expected : app[i] = stream[i]
    BY <1>2 DEF Inv, TypeOK, StreamInv
<1>5. /\ stream' \in Seq(Chunk) /\ Len(stream') = expected + 1
      /\ stream'[expected + 1] = chunk[2]
      /\ \A i \in 1..expected : stream'[i] = stream[i]
    BY <1>1, <1>4, AppendProperties
<1>6. TypeOK'
    <2>1. expected' \in 0..MaxChunks
        BY <1>1, <1>2, <1>3, BootloaderAssumption
    <2> QED
        BY <1>1, <1>3, <1>5, <2>1, Zenon
           DEF FlashSafe, FlashType, Inv, TypeOK, UsbOK, UpdateState, Receiving
<1>7. OneRequestAtATime'
    BY <1>1 DEF UsbOK, OneRequestAtATime
<1>8. ReceivingInv'
    BY <1>1, <1>2 DEF Inv, ReceivingInv, Receiving
<1>9. StreamInv'
    <2>1. \A i \in 1..(expected + 1) : app'[i] = stream'[i]
        <3>1. expected + 1 \in Cell
            BY <1>2, <1>3, BootloaderAssumption DEF Cell
        <3> QED
            BY <1>1, <1>2, <1>3, <1>4, <1>5, <3>1 DEF Inv, TypeOK, Cell
    <2> QED
        BY <1>1, <1>2, <1>3, <1>5, <2>1 DEF StreamInv
<1>10. AuthorizeInv' /\ DataInv' /\ MetadataInv' /\ CommittedHolds'
    BY <1>1 DEF AuthorizeInv, DataInv, MetadataInv, Metadata,
                CommittedHolds, CommitIsDurable, AuthorizeKeepsBootable
<1> QED
    BY <1>1, <1>6, <1>7, <1>8, <1>9, <1>10 DEF Inv, FlashSafe

\* Header and tag go into the erased target, the image stays verified.
LEMMA ProgramHeaderTagInv ==
    ASSUME Inv, ProgramHeader \/ ProgramTag
    PROVE  Inv'
<1> USE DEF scanVars, updVars, usbVars
<1>1. /\ FlashSafe /\ step \in {"header", "tag"}
      /\ step' = IF step = "header" THEN "tag" ELSE "marker"
      /\ slots' = IF step = "header" THEN [slots EXCEPT ![target].hdr = staged]
                  ELSE [slots EXCEPT ![target].tag = "valid"]
      /\ UNCHANGED <<app, token, mode, scanVars, updVars, chunk, usbVars>>
    BY StepSafe DEF Next, FlashStep, ProgramHeader, ProgramTag
<1>2. Receiving /\ ImageVerified /\ mode = "recovery" /\ epTx # "valid"
    BY <1>1, UsbFacts DEF Inv, MetadataInv, Metadata
<1>3. staged \in Signed /\ target \in Slot
      /\ Other(target) \in Slot /\ Other(target) # target
    BY <1>2 DEF Inv, TypeOK, Other, Slot
<1>4. /\ slots[target] = [hdr |-> IF step = "tag" THEN staged ELSE Erased,
                           tag |-> "erased", marker |-> "erased"]
      /\ floor = FloorOf(slots) /\ staged.version >= floor
    BY <1>1, <1>2 DEF Inv, ReceivingInv
<1>5. /\ slots'[target] = [hdr |-> staged, tag |-> IF step = "tag" THEN "valid" ELSE "erased",
                            marker |-> "erased"]
      /\ slots'[Other(target)] = slots[Other(target)]
    BY <1>1, <1>3, <1>4 DEF Inv, TypeOK
<1>6. FloorOf(slots') = FloorOf(slots)
    BY <1>3, <1>4, <1>5, SameScan DEF Authenticated
<1>7. TypeOK'
    BY <1>1, <1>2, <1>3 DEF FlashSafe, FlashType, Inv, TypeOK, Receiving, Metadata
<1>8. OneRequestAtATime'
    BY <1>1, <1>2 DEF Inv, OneRequestAtATime
<1>9. ReceivingInv'
    BY <1>1, <1>2, <1>4, <1>5, <1>6 DEF ReceivingInv
<1>10. StreamInv'
    BY <1>1 DEF Inv, StreamInv, Receiving
<1>11. AuthorizeInv' /\ DataInv' /\ MetadataInv' /\ CommittedHolds'
    BY <1>1, <1>2 DEF AuthorizeInv, DataInv, MetadataInv, Metadata, Receiving, ImageVerified,
                CommittedHolds, CommitIsDurable, AuthorizeKeepsBootable
<1> QED
    BY <1>1, <1>7, <1>8, <1>9, <1>10, <1>11 DEF Inv, FlashSafe

\* The commit marker: what END will acknowledge is what flash alone says.
LEMMA ProgramMarkerInv ==
    ASSUME Inv, ProgramMarker
    PROVE  Inv'
<1>1. /\ FlashSafe /\ step = "marker" /\ mode = "recovery" /\ step' = "poll"
      /\ slots' = [slots EXCEPT ![target].marker = "committed"]
      /\ floor' = IF staged.version > floor THEN staged.version ELSE floor
      /\ committed' = staged.version /\ upd' = "COMMITTED" /\ resetAfterTx' = TRUE
      /\ UNCHANGED <<app, token, mode, highSlot, staged, expected, previous, stream,
                     target, chunk>>
      /\ UsbOK'
    BY StepSafe, UsbFacts, AnswerFacts DEF Next, FlashStep, ProgramMarker
<1>2. /\ FloorOf(slots') = staged.version /\ CommittedOf(slots', app') = staged.version
      /\ staged.version \in Nat /\ staged.version >= FloorOf(slots)
    BY <1>1, MarkedRecord
<1>3. floor = FloorOf(slots) /\ floor \in Nat
    BY <1>1 DEF Inv, MetadataInv, Metadata, ReceivingInv, TypeOK
<1>4. floor' = staged.version
    BY <1>1, <1>2, <1>3
<1>5. TypeOK'
    BY <1>1, <1>2, <1>4
       DEF FlashSafe, FlashType, Inv, TypeOK, UsbOK, UpdateState, Receiving
<1>6. OneRequestAtATime'
    BY <1>1 DEF UsbOK, OneRequestAtATime
<1>7. (AuthorizeInv /\ ReceivingInv /\ StreamInv /\ DataInv /\ MetadataInv)'
    BY <1>1 DEF AuthorizeInv, ReceivingInv, StreamInv, DataInv, MetadataInv, Metadata, Receiving
<1>8. CommittedHolds'
    BY <1>1, <1>2, <1>4 DEF CommittedHolds, CommitIsDurable, AuthorizeKeepsBootable
<1> QED
    BY <1>1, <1>5, <1>6, <1>7, <1>8 DEF Inv, FlashSafe

\* A flash operation that fails ends the transaction.
LEMMA FlashFailsInv ==
    ASSUME Inv, EraseSlotFails \/ ErasePageFails \/ ProgramFails \/ MetadataFails
    PROVE  Inv'
<1>1. FlashSafe
    BY StepSafe DEF Next, FlashStep
<1>2. FlashFailed /\ step # "poll"
    BY DEF EraseSlotFails, ErasePageFails, ProgramFails, MetadataFails, Metadata
<1> QED
    BY <1>1, <1>2, FlashFailedInv

LEMMA FlashStepInv ==
    ASSUME Inv, FlashStep
    PROVE  Inv'
    BY EraseSlotInv, ErasePageInv, ProgramInv, ProgramHeaderTagInv, ProgramMarkerInv,
       FlashFailsInv DEF FlashStep

\* Every step keeps the invariant.
LEMMA NextInv ==
    Inv /\ [Next]_vars => Inv'
<1> SUFFICES ASSUME Inv, [Next]_vars PROVE Inv'
    OBVIOUS
<1>1. CASE PowerLoss
    <2>1. ResetCore /\ token' \in BOOLEAN
        BY <1>1 DEF PowerLoss, Inv, TypeOK
    <2> QED
        BY <2>1, StepSafe, ResetCoreInv
<1>2. CASE UNCHANGED vars
    BY <1>2 DEF vars, flashVars, scanVars, updVars, usbVars, Inv, TypeOK, Receiving,
        OneRequestAtATime, OnlyFloorBoots, AuthorizeInv, ReceivingInv, StreamInv, DataInv,
        MetadataInv, ImageVerified, CommittedHolds, CommitIsDurable, AuthorizeKeepsBootable
<1> QED
    BY <1>1, <1>2, BootInv, UsbInv, RequestInv, FlashStepInv DEF Next

\* The inductive invariant holds in every state the bootloader reaches, for every
\* region and page size and every set of headers and images.
THEOREM BootloaderInvariant ==
    Spec => []Inv
    BY InitInv, NextInv, PTL DEF Spec

\* At every moment, torn flash included, the only version a reset could boot is the
\* version floor: an old signed image never becomes bootable again.
THEOREM BootloaderOnlyFloorBoots ==
    Spec => []OnlyFloorBoots
<1>1. Inv => OnlyFloorBoots
    BY DEF Inv
<1> QED
    BY <1>1, BootloaderInvariant, PTL

\* Requests are handled one at a time, what was hashed is what is in flash, and every
\* variable of bootloader.c keeps to its range.
THEOREM BootloaderProtocolHolds ==
    Spec => []ProtocolHolds
<1>1. Inv => ProtocolHolds
    BY DEF Inv, ProtocolHolds, StreamInv, StreamIsFlash
<1> QED
    BY <1>1, BootloaderInvariant, PTL

\* An acknowledged END is durable: flash alone boots the version that was reported;
\* and an authorisation alone gives up nothing that could be booted.
THEOREM BootloaderCommittedHolds ==
    Spec => []CommittedHolds
<1>1. Inv => CommittedHolds
    BY DEF Inv
<1> QED
    BY <1>1, BootloaderInvariant, PTL

\* No rollback over any step, a power loss in the middle of any flash operation
\* included; and the floor rises only to a version whose image boots.
THEOREM BootloaderFloorHolds ==
    Spec => FloorHolds
<1>1. Inv /\ [Next]_vars =>
        [ /\ FloorOf(slots') >= FloorOf(slots)
          /\ FloorOf(slots') > FloorOf(slots) =>
                 CommittedOf(slots', app') = FloorOf(slots') ]_vars
    BY StepSafe DEF FlashSafe
<1> QED
    BY <1>1, BootloaderInvariant, PTL DEF Spec, FloorHolds
=============================================================================
