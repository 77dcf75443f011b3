----------------------------- MODULE Bootloader ------------------------------
(***************************************************************************)
(* The update bootloader of src/bootloader/bootloader.c: boot selection,   *)
(* the update protocol BEGIN / AUTHORIZE_HEADER / DATA / END / INFO over   *)
(* one bulk endpoint, and the flash it owns (the application region and    *)
(* the metadata pages A and B).                                            *)
(*                                                                         *)
(* The bootloader polls and runs no interrupts, so a request is handled to *)
(* the end before the next.  But power can fail inside any flash operation *)
(* and between two of them: each erase or program is an action of its own, *)
(* `step` says which one the handler has reached, and PowerLoss may leave  *)
(* the page or cell being written torn.                                    *)
(*                                                                         *)
(* Abstractions.  A header is a record of its version and its image (the   *)
(* SHA-256 is taken to be injective).  Signed holds the headers whose tag  *)
(* exists and whose target is this device; any other header fails the HMAC *)
(* or the target check, and torn metadata fails the HMAC.  An image is a   *)
(* sequence of chunks; a DATA request carries one chunk, PageChunks chunks *)
(* make a flash page.  Requests refused before they reach a handler only   *)
(* cause an answer (Refuse).                                               *)
(***************************************************************************)
EXTENDS Naturals, Sequences

CONSTANTS
    Header,      \* structurally valid headers, [version, image]
    Signed,      \* those with a valid tag for this target
    Bootable,    \* images whose initial MSP and reset vector are valid
    Chunk,       \* what a DATA request can carry
    MaxChunks,   \* size of the application region (APP_MAX_BYTES)
    PageChunks,  \* chunks in a flash page
    Erased,      \* content of an erased cell or page
    Junk         \* content of a torn or failed write

ASSUME BootloaderAssumption ==
    /\ MaxChunks \in Nat \ {0}
    /\ PageChunks \in Nat \ {0}
    /\ Header \subseteq [version : Nat \ {0}, image : Seq(Chunk)]
    /\ \A h \in Header : Len(h.image) \in 1..MaxChunks
    /\ Signed \subseteq Header
    /\ Erased # Junk
    /\ Erased \notin Chunk /\ Erased \notin Header
    /\ Junk \notin Chunk /\ Junk \notin Header

Slot == {"A", "B"}                        \* META_A, META_B
NoSlot == "none"                          \* 0u
Cell == 1..MaxChunks
UpdateState ==
    {"RECOVERY_IDLE", "HEADER_STAGED", "AUTHORIZED", "RECEIVING", "COMMITTED"}

VARIABLES
    slots,      \* flash: the two metadata pages
    app,        \* flash: the application region
    token,      \* backup registers hold the update token
    mode,       \* "reset", "recovery", "app", or "halted" (no clock)
    upd,        \* update_state
    staged,     \* staged_header (Erased when none)
    expected,   \* expected_offset, in chunks
    previous,   \* previous_offset and previous_data, <<>> when not valid
    stream,     \* stream_sha: the chunks hashed so far
    floor,      \* version_floor
    committed,  \* committed_version
    highSlot,   \* highest_floor_slot
    target,     \* target_metadata_slot
    resetAfterTx, \* reset_after_tx
    step,       \* the flash operation the handler is about to do
    chunk,      \* the DATA request being handled
    configured, \* usb_configuration = 1
    txActive,   \* usb_tx_active
    epTx, epRx  \* status of the bulk endpoint

flashVars == <<slots, app>>
scanVars == <<floor, committed, highSlot>>
updVars == <<upd, staged, expected, previous, stream, target, resetAfterTx>>
usbVars == <<configured, txActive, epTx, epRx>>
vars == <<flashVars, token, mode, scanVars, updVars, step, chunk, usbVars>>

-----------------------------------------------------------------------------
(* Metadata *)

ErasedSlot == [hdr |-> Erased, tag |-> "erased", marker |-> "erased"]
JunkSlot == [hdr |-> Junk, tag |-> "junk", marker |-> "junk"]
SlotContent ==
    [hdr : Header \cup {Erased, Junk}, tag : {"erased", "valid", "junk"},
     marker : {"erased", "committed", "junk"}]

\* metadata_authenticated()
Authenticated(c) ==
    c.marker = "committed" /\ c.hdr \in Signed /\ c.tag = "valid"

\* app_matches_header()
AppMatches(a, h) ==
    /\ \A i \in 1..Len(h.image) : a[i] = h.image[i]
    /\ h.image \in Bootable

Boots(c, a) == Authenticated(c) /\ AppMatches(a, c.hdr)

\* scan_metadata(): the version floor, the slot that holds it, and the version
\* that may be booted (0 when there is none).
FloorOf(sl) ==
    LET va == IF Authenticated(sl["A"]) THEN sl["A"].hdr.version ELSE 0
    IN IF Authenticated(sl["B"]) /\ sl["B"].hdr.version >= va
       THEN sl["B"].hdr.version ELSE va

\* Faulty variant: protects the slot that boots, not the one with the floor.
HighSlotOfBootable(sl) ==
    LET va == IF Boots(sl["A"], app) THEN sl["A"].hdr.version ELSE 0
    IN IF Boots(sl["B"], app) /\ sl["B"].hdr.version >= va THEN "B"
       ELSE IF Boots(sl["A"], app) THEN "A" ELSE NoSlot

HighSlotOf(sl) ==
    LET va == IF Authenticated(sl["A"]) THEN sl["A"].hdr.version ELSE 0
    IN IF Authenticated(sl["B"]) /\ sl["B"].hdr.version >= va THEN "B"
       ELSE IF Authenticated(sl["A"]) THEN "A" ELSE NoSlot

CommittedOf(sl, a) ==
    LET va == IF Boots(sl["A"], a) THEN sl["A"].hdr.version ELSE 0
    IN IF Boots(sl["B"], a) /\ sl["B"].hdr.version >= va
       THEN sl["B"].hdr.version ELSE va

ScanMetadata ==
    /\ floor' = FloorOf(slots)
    /\ committed' = CommittedOf(slots, app)
    /\ highSlot' = HighSlotOf(slots)

-----------------------------------------------------------------------------
(* Boot *)

\* boot_main(): the token is consumed before anything else.
BootApp ==
    /\ mode = "reset"
    /\ token' = FALSE
    /\ ScanMetadata
    /\ ~token
    /\ committed' # 0
    /\ mode' = "app"
    /\ UNCHANGED <<flashVars, updVars, step, chunk, usbVars>>

BootRecovery ==
    /\ mode = "reset"
    /\ token' = FALSE
    /\ ScanMetadata
    /\ token \/ committed' = 0
    /\ mode' \in {"recovery", "halted"}         \* halted: clock_init() failed
    /\ upd' = "RECOVERY_IDLE"
    /\ expected' = 0
    /\ previous' = <<>>
    /\ resetAfterTx' = FALSE
    /\ UNCHANGED <<flashVars, staged, stream, target, step, chunk, usbVars>>

\* What a reset does to the core: SRAM is zeroed by the startup code.
ResetCore ==
    /\ mode' = "reset"
    /\ upd' = "RECOVERY_IDLE"
    /\ staged' = Erased
    /\ expected' = 0
    /\ previous' = <<>>
    /\ stream' = <<>>
    /\ target' = NoSlot
    /\ resetAfterTx' = FALSE
    /\ floor' = 0
    /\ committed' = 0
    /\ highSlot' = NoSlot
    /\ step' = "poll"
    /\ chunk' = <<>>
    /\ configured' = FALSE
    /\ txActive' = FALSE
    /\ epTx' = "disabled"
    /\ epRx' = "disabled"

\* The application asks for an update: it writes the token and resets.
EnterBootloader ==
    /\ mode = "app"
    /\ token' = TRUE
    /\ ResetCore
    /\ UNCHANGED flashVars

-----------------------------------------------------------------------------
(* The bulk endpoint *)

Polling == mode = "recovery" /\ step = "poll"

\* A request arrived: RX is NAK until the answer has gone out.
Received == Polling /\ epRx = "valid"

\* bulk_send() at the end of process_bulk_packet().
Answer ==
    IF configured /\ ~txActive
    THEN txActive' = TRUE /\ epTx' = "valid" /\ epRx' = "nak" /\ UNCHANGED configured
    ELSE epRx' = "valid" /\ UNCHANGED <<configured, txActive, epTx>>

\* The host collected the answer: handle_ep1_tx().
TxComplete ==
    /\ Polling
    /\ epTx = "valid"
    /\ IF resetAfterTx
       THEN ResetCore
       ELSE /\ txActive' = FALSE
            /\ epTx' = "nak"
            /\ epRx' = "valid"
            /\ UNCHANGED <<mode, updVars, scanVars, step, chunk, configured>>
    /\ UNCHANGED <<flashVars, token>>

BulkDisable ==
    /\ txActive' = FALSE
    /\ epTx' = "disabled"
    /\ epRx' = "disabled"

\* usb_bus_reset(), or SET_CONFIGURATION(0).
UsbBusReset ==
    /\ Polling
    /\ BulkDisable
    /\ configured' = FALSE
    /\ UNCHANGED <<flashVars, token, mode, scanVars, updVars, step, chunk>>

\* SET_CONFIGURATION(1): bulk_enable() leaves usb_tx_active as it is.
UsbConfigure ==
    /\ Polling
    /\ configured' = TRUE
    /\ epTx' = "nak"
    /\ epRx' = "valid"
    /\ UNCHANGED <<txActive, flashVars, token, mode, scanVars, updVars, step, chunk>>

\* Bad flags, bad length, or a request its handler refuses without a change.
Refuse ==
    /\ Received
    /\ Answer
    /\ UNCHANGED <<flashVars, token, mode, scanVars, updVars, step, chunk>>

Info ==
    /\ Received
    /\ ScanMetadata
    /\ Answer
    /\ UNCHANGED <<flashVars, token, mode, updVars, step, chunk>>

-----------------------------------------------------------------------------
(* BEGIN and AUTHORIZE_HEADER *)

MayBegin == upd \in {"RECOVERY_IDLE", "HEADER_STAGED"}

ClearTransaction ==
    /\ previous' = <<>>
    /\ expected' = 0
    /\ target' = NoSlot

HandleBegin(h) ==
    /\ Received
    /\ MayBegin
    /\ ClearTransaction
    /\ staged' = h
    /\ upd' = "HEADER_STAGED"
    /\ Answer
    /\ UNCHANGED <<flashVars, token, mode, scanVars, stream, resetAfterTx, step, chunk>>

\* The header is not structurally valid.
HandleBeginBad ==
    /\ Received
    /\ MayBegin
    /\ ClearTransaction
    /\ staged' = Junk
    /\ upd' = "RECOVERY_IDLE"
    /\ Answer
    /\ UNCHANGED <<flashVars, token, mode, scanVars, stream, resetAfterTx, step, chunk>>

\* The version policy, on the values of the scan just made.
VersionAccepted(cand) ==
    IF committed' # 0 THEN cand > floor' ELSE cand >= floor'

TargetSlot(high) == IF high = "A" THEN "B" ELSE "A"

\* The tag is right: rescan, apply the policy, choose the page to erase.
HandleAuthorize ==
    /\ Received
    /\ upd = "HEADER_STAGED"
    /\ staged \in Signed
    /\ ScanMetadata
    /\ IF VersionAccepted(staged.version)
       THEN /\ target' = TargetSlot(highSlot')
            /\ step' = "eraseSlot"
            /\ UNCHANGED usbVars
       ELSE /\ Answer
            /\ UNCHANGED <<target, step>>
    /\ UNCHANGED <<flashVars, token, mode, upd, staged, expected, previous, stream,
                   resetAfterTx, chunk>>

\* A flash operation failed: the transaction is over and the host is told.
FlashFailed ==
    /\ upd' = "RECOVERY_IDLE"
    /\ step' = "poll"
    /\ Answer
    /\ UNCHANGED <<token, mode, scanVars, staged, expected, previous, stream,
                   target, resetAfterTx, chunk>>

\* What an erase of a metadata page may leave when it does not complete.
TornErase(s) == {slots[s], ErasedSlot, JunkSlot}

\* Faulty variants: the page is not erased; the hash is not restarted.
EraseSlotSkipped ==
    /\ step = "eraseSlot"
    /\ stream' = <<>>
    /\ expected' = 0
    /\ previous' = <<>>
    /\ upd' = "AUTHORIZED"
    /\ step' = "poll"
    /\ Answer
    /\ UNCHANGED <<flashVars, token, mode, scanVars, staged, target, resetAfterTx,
                   chunk>>

EraseSlotKeepsHash ==
    /\ step = "eraseSlot"
    /\ slots' = [slots EXCEPT ![target] = ErasedSlot]
    /\ expected' = 0
    /\ previous' = <<>>
    /\ upd' = "AUTHORIZED"
    /\ step' = "poll"
    /\ Answer
    /\ UNCHANGED <<app, token, mode, scanVars, staged, stream, target, resetAfterTx,
                   chunk>>

EraseSlot ==
    /\ step = "eraseSlot"
    /\ slots' = [slots EXCEPT ![target] = ErasedSlot]
    /\ stream' = <<>>
    /\ expected' = 0
    /\ previous' = <<>>
    /\ upd' = "AUTHORIZED"
    /\ step' = "poll"
    /\ Answer
    /\ UNCHANGED <<app, token, mode, scanVars, staged, target, resetAfterTx, chunk>>

EraseSlotFails ==
    /\ step = "eraseSlot"
    /\ \E c \in TornErase(target) : slots' = [slots EXCEPT ![target] = c]
    /\ FlashFailed
    /\ UNCHANGED app

-----------------------------------------------------------------------------
(* DATA *)

Receiving == upd \in {"AUTHORIZED", "RECEIVING"}

Page(off) == {i \in Cell : (i - 1) \div PageChunks = off \div PageChunks}

\* An exact repetition of the previous chunk is acknowledged without effect; any
\* other offset than the expected one is OUT_OF_SEQUENCE.
HandleData(off, v) ==
    /\ Received
    /\ Receiving
    /\ off < Len(staged.image)
    /\ IF previous = <<off, v>> \/ off # expected
       THEN Answer /\ UNCHANGED <<step, chunk>>
       ELSE /\ chunk' = <<off, v>>
            /\ step' = IF off % PageChunks = 0 THEN "erasePage" ELSE "program"
            /\ UNCHANGED usbVars
    /\ UNCHANGED <<flashVars, token, mode, scanVars, updVars>>

ErasePage ==
    /\ step = "erasePage"
    /\ app' = [i \in Cell |-> IF i \in Page(chunk[1]) THEN Erased ELSE app[i]]
    /\ step' = "program"
    /\ UNCHANGED <<slots, token, mode, scanVars, updVars, chunk, usbVars>>

TornPage(off) ==
    {a \in [Cell -> Chunk \cup {Erased, Junk}] :
        \A i \in Cell : IF i \in Page(off) THEN a[i] \in {app[i], Erased, Junk}
                        ELSE a[i] = app[i]}

ErasePageFails ==
    /\ step = "erasePage"
    /\ app' \in TornPage(chunk[1])
    /\ FlashFailed
    /\ UNCHANGED slots

\* Program the chunk, read it back, and only then hash it and move on.
Program ==
    /\ step = "program"
    /\ app[chunk[1] + 1] = Erased
    /\ app' = [app EXCEPT ![chunk[1] + 1] = chunk[2]]
    /\ stream' = Append(stream, chunk[2])
    /\ previous' = chunk
    /\ expected' = expected + 1
    /\ upd' = "RECEIVING"
    /\ step' = "poll"
    /\ Answer
    /\ UNCHANGED <<slots, token, mode, scanVars, staged, target, resetAfterTx, chunk>>

TornCell(i, v) == {[app EXCEPT ![i] = c] : c \in {app[i], v, Junk}}

ProgramFails ==
    /\ step = "program"
    /\ app' \in TornCell(chunk[1] + 1, chunk[2])
    /\ FlashFailed
    /\ UNCHANGED slots

-----------------------------------------------------------------------------
(* END *)

EndReceived == Received /\ Receiving /\ expected = Len(staged.image)

\* Streamed digest, digest of the flash read back, vectors.
ImageVerified ==
    /\ stream = staged.image
    /\ \A i \in 1..Len(staged.image) : app[i] = staged.image[i]
    /\ staged.image \in Bootable

HandleEnd ==
    /\ EndReceived
    /\ ImageVerified
    /\ target \in Slot
    /\ step' = "header"
    /\ UNCHANGED <<flashVars, token, mode, scanVars, updVars, chunk, usbVars>>

HandleEndRejects ==
    /\ EndReceived
    /\ ~ImageVerified \/ target \notin Slot
    /\ upd' = "RECOVERY_IDLE"
    /\ Answer
    /\ UNCHANGED <<flashVars, token, mode, scanVars, staged, expected, previous,
                   stream, target, resetAfterTx, step, chunk>>

\* The metadata is programmed in this order: header, tag, commit marker.
ProgramHeader ==
    /\ step = "header"
    /\ slots[target].hdr = Erased
    /\ slots' = [slots EXCEPT ![target].hdr = staged]
    /\ step' = "tag"
    /\ UNCHANGED <<app, token, mode, scanVars, updVars, chunk, usbVars>>

ProgramTag ==
    /\ step = "tag"
    /\ slots[target].tag = "erased"
    /\ slots' = [slots EXCEPT ![target].tag = "valid"]
    /\ step' = "marker"
    /\ UNCHANGED <<app, token, mode, scanVars, updVars, chunk, usbVars>>

\* Faulty variant: version_floor is not raised.
ProgramMarkerOldFloor ==
    /\ step = "marker"
    /\ slots[target].marker = "erased"
    /\ slots' = [slots EXCEPT ![target].marker = "committed"]
    /\ committed' = staged.version
    /\ upd' = "COMMITTED"
    /\ resetAfterTx' = TRUE
    /\ step' = "poll"
    /\ Answer
    /\ UNCHANGED <<app, token, mode, floor, highSlot, staged, expected, previous,
                   stream, target, chunk>>

ProgramMarker ==
    /\ step = "marker"
    /\ slots[target].marker = "erased"
    /\ slots' = [slots EXCEPT ![target].marker = "committed"]
    /\ floor' = IF staged.version > floor THEN staged.version ELSE floor
    /\ committed' = staged.version
    /\ upd' = "COMMITTED"
    /\ resetAfterTx' = TRUE
    /\ step' = "poll"
    /\ Answer
    /\ UNCHANGED <<app, token, mode, highSlot, staged, expected, previous, stream,
                   target, chunk>>

\* What an interrupted program of header, tag or marker may leave.
TornMetadata ==
    LET c == slots[target]
    IN CASE step = "header" -> {c, [c EXCEPT !.hdr = Junk], [c EXCEPT !.hdr = staged]}
         [] step = "tag" -> {c, [c EXCEPT !.tag = "junk"], [c EXCEPT !.tag = "valid"]}
         [] step = "marker" ->
              {c, [c EXCEPT !.marker = "junk"], [c EXCEPT !.marker = "committed"]}

Metadata == {"header", "tag", "marker"}

MetadataFails ==
    /\ step \in Metadata
    /\ \E c \in TornMetadata : slots' = [slots EXCEPT ![target] = c]
    /\ FlashFailed
    /\ UNCHANGED app

-----------------------------------------------------------------------------
(* Power loss and external reset, at any time *)

PowerLoss ==
    /\ CASE step = "eraseSlot" ->
              /\ \E c \in TornErase(target) : slots' = [slots EXCEPT ![target] = c]
              /\ UNCHANGED app
         [] step \in Metadata ->
              /\ \E c \in TornMetadata : slots' = [slots EXCEPT ![target] = c]
              /\ UNCHANGED app
         [] step = "erasePage" -> app' \in TornPage(chunk[1]) /\ UNCHANGED slots
         [] step = "program" ->
              app' \in TornCell(chunk[1] + 1, chunk[2]) /\ UNCHANGED slots
         [] OTHER -> UNCHANGED flashVars
    /\ token' \in {token, FALSE}              \* VBAT may or may not hold
    /\ ResetCore

-----------------------------------------------------------------------------

\* A device as it leaves the factory: metadata blank, or one signed image
\* installed in slot A.
Init ==
    /\ \/ slots = [s \in Slot |-> ErasedSlot] /\ app = [i \in Cell |-> Erased]
       \/ \E h \in Signed :
            /\ h.image \in Bootable
            /\ slots = [s \in Slot |->
                  IF s = "A" THEN [hdr |-> h, tag |-> "valid", marker |-> "committed"]
                  ELSE ErasedSlot]
            /\ app = [i \in Cell |-> IF i <= Len(h.image) THEN h.image[i] ELSE Erased]
    /\ token = FALSE
    /\ mode = "reset"
    /\ upd = "RECOVERY_IDLE"
    /\ staged = Erased
    /\ expected = 0
    /\ previous = <<>>
    /\ stream = <<>>
    /\ floor = 0
    /\ committed = 0
    /\ highSlot = NoSlot
    /\ target = NoSlot
    /\ resetAfterTx = FALSE
    /\ step = "poll"
    /\ chunk = <<>>
    /\ configured = FALSE
    /\ txActive = FALSE
    /\ epTx = "disabled"
    /\ epRx = "disabled"

Boot == BootApp \/ BootRecovery \/ EnterBootloader

Usb == TxComplete \/ UsbBusReset \/ UsbConfigure \/ Refuse \/ Info

Request ==
    \/ \E h \in Header : HandleBegin(h)
    \/ HandleBeginBad
    \/ HandleAuthorize
    \/ \E off \in 0..(MaxChunks - 1), v \in Chunk : HandleData(off, v)
    \/ HandleEnd
    \/ HandleEndRejects

FlashStep ==
    \/ EraseSlot \/ EraseSlotFails
    \/ ErasePage \/ ErasePageFails
    \/ Program \/ ProgramFails
    \/ ProgramHeader \/ ProgramTag \/ ProgramMarker \/ MetadataFails

Next == Boot \/ Usb \/ Request \/ FlashStep \/ PowerLoss

Spec == Init /\ [][Next]_vars

\* The device runs, and a host stays with it: it configures the device whenever it
\* finds it unconfigured, keeps asking INFO and keeps collecting the answers.
Fairness ==
    /\ WF_vars(Boot)
    /\ WF_vars(FlashStep)
    /\ WF_vars(UsbConfigure /\ ~configured)
    /\ SF_vars(Info)
    /\ SF_vars(TxComplete)

FairSpec == Spec /\ Fairness

-----------------------------------------------------------------------------
(* Properties *)

\* Every variable of bootloader.c keeps to its range, and an image is received
\* only for an authenticated header and a chosen metadata slot.
TypeOK ==
    /\ slots \in [Slot -> SlotContent]
    /\ app \in [Cell -> Chunk \cup {Erased, Junk}]
    /\ token \in BOOLEAN
    /\ mode \in {"reset", "recovery", "app", "halted"}
    /\ upd \in UpdateState
    /\ staged \in Header \cup {Erased, Junk}
    /\ expected \in 0..MaxChunks
    /\ previous \in {<<>>} \cup ((0..(MaxChunks - 1)) \X Chunk)
    /\ stream \in Seq(Chunk)
    /\ floor \in Nat
    /\ committed \in Nat
    /\ highSlot \in Slot \cup {NoSlot}
    /\ target \in Slot \cup {NoSlot}
    /\ resetAfterTx \in BOOLEAN
    /\ step \in {"poll", "eraseSlot", "erasePage", "program"} \cup Metadata
    /\ chunk \in {<<>>} \cup ((0..(MaxChunks - 1)) \X Chunk)
    /\ configured \in BOOLEAN
    /\ txActive \in BOOLEAN
    /\ epTx \in {"disabled", "nak", "valid"}
    /\ epRx \in {"disabled", "nak", "valid"}
    /\ Receiving => staged \in Signed /\ target \in Slot

\* No rollback: whatever requests arrive, whatever flash operation fails, and
\* wherever power is lost, the version floor found by the next scan_metadata()
\* is never lower than the one found before.  And it rises only to a version whose
\* image is completely in place, verified and bootable: the commit marker comes
\* after everything it vouches for.
FloorHolds ==
    [][ /\ FloorOf(slots') >= FloorOf(slots)
        /\ FloorOf(slots') > FloorOf(slots) =>
               CommittedOf(slots', app') = FloorOf(slots') ]_vars

\* An old authenticated record is never bootable again: at every moment the only
\* version a reset could boot is the version floor itself.  (AUTHORIZE_HEADER
\* destroys the older record before the first DATA can bring an old image back.)
OnlyFloorBoots == CommittedOf(slots, app) \in {0, FloorOf(slots)}

\* The hash that END compares has seen exactly the chunks that are in flash, each
\* once, also when DATA requests were repeated.
StreamIsFlash ==
    Receiving /\ step = "poll" =>
        /\ Len(stream) = expected
        /\ expected <= Len(staged.image)
        /\ \A i \in 1..expected : app[i] = stream[i]

\* Once END is acknowledged the update is durable: flash alone, rescanned after
\* any reset, boots the version that was reported as committed.
CommitIsDurable ==
    upd = "COMMITTED" =>
        /\ CommittedOf(slots, app) = committed
        /\ FloorOf(slots) = floor
        /\ committed = staged.version

\* Unless the version in use was signed twice, authorisation alone costs nothing:
\* until the first DATA arrives, a reset still boots what it booted before.
AuthorizeKeepsBootable ==
    /\ upd = "AUTHORIZED" /\ step = "poll"
    /\ \A g, h \in Signed : g.version = committed /\ h.version = committed => g = h
    => CommittedOf(slots, app) = committed

\* The update plan's step 11, "reset/handoff through the normal boot decision":
\* after a committed END the bootloader leaves recovery by itself.
CommittedThenReset == (upd = "COMMITTED") ~> (mode # "recovery")

\* The update plan on reset or USB loss during an update, "Retry always restarts
\* from BEGIN": a host that finds the device unconfigured can BEGIN again.
RetryRestartsFromBegin ==
    mode = "recovery" /\ ~configured /\ upd # "COMMITTED" => MayBegin

\* While a request is being handled or an answer is outstanding, the endpoint
\* accepts no other request: the single tx_packet is never overwritten.
OneRequestAtATime ==
    /\ epTx = "valid" => txActive /\ configured /\ epRx # "valid"
    /\ step # "poll" => mode = "recovery" /\ epTx # "valid"

\* The protocol part, together: the update state machine keeps its types, requests
\* come one at a time, and what was hashed is what was programmed.
ProtocolHolds == TypeOK /\ OneRequestAtATime /\ StreamIsFlash

\* What the bootloader has reported stays true: an acknowledged END is durable, and
\* an authorisation gives nothing up.
CommittedHolds == CommitIsDurable /\ AuthorizeKeepsBootable
==============================================================================
