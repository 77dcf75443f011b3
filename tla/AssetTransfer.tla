---------------------------- MODULE AssetTransfer ----------------------------
(***************************************************************************)
(* The transfer session of src/src/kernel/asset_transfer.c: BEGIN,         *)
(* WRITE_CHUNK, COMMIT, ABORT and STATUS requests of a host that may       *)
(* retry, repeat and reorder them, on top of AssetPersistence.             *)
(*                                                                         *)
(* A handler that calls the store is two actions here: HandleX starts the  *)
(* call, EndX goes on with its result.  Between them only flash steps and  *)
(* Reset can happen.  Time is left out: the 30 s timeout can strike in any *)
(* pause between requests.  Frames refused before a handler (flags,        *)
(* lengths, types, transfer id 0) and READ_CHUNK change nothing.           *)
(***************************************************************************)
EXTENDS AssetPersistence

CONSTANT TransferId   \* non-zero transfer ids

NoId == 0

ASSUME TransferAssumption == NoId \notin TransferId

VARIABLES
    sess,      \* asset_transfer_state
    req,       \* the request being handled, or handled last
    busy,      \* a handler waits for the store
    reply,     \* status of the answer to req, "none" before it is sent
    sent,      \* history: the bytes the session has accepted
    promised,  \* history: payload of the last COMMIT answered OK, until the next
               \* commit reaches its marker, or a reset while in doubt
    doubt      \* history: a commit failed at its marker; no erase or reset since

xferVars == <<sess, req, busy, reply, sent, promised, doubt>>
xvars == <<vars, xferVars>>

Request(kind, id, off, data) == [kind |-> kind, id |-> id, off |-> off, data |-> data]
NoRequest == Request("none", NoId, 0, <<>>)

NoSession ==
    [active |-> FALSE, id |-> NoId, crc |-> CHOOSE v \in CrcValue : TRUE, next |-> 0,
     last |-> <<>>]

-----------------------------------------------------------------------------

\* Faulty variant: the candidate is not aborted.
ClearSessionKeepsCandidate ==
    /\ sess' = [sess EXCEPT !.id = NoId, !.active = FALSE]
    /\ UNCHANGED vars

\* asset_clear_session()
ClearSession ==
    /\ CandidateReset
    /\ sess' = [sess EXCEPT !.id = NoId, !.active = FALSE]
    /\ UNCHANGED <<slots, active, callVars>>

\* asset_map_persistence_result()
Status(r) == IF r = "UNCHANGED" THEN "OK" ELSE r

\* Request r is handled without a call of the store and answered with `status`.
Answer(r, status) ==
    /\ ~busy
    /\ req' = r
    /\ reply' = status
    /\ UNCHANGED <<busy, doubt>>

\* Request r goes on in the store.
CallStore(r) ==
    /\ ~busy
    /\ req' = r
    /\ reply' = "none"
    /\ busy' = TRUE
    /\ UNCHANGED <<promised, doubt>>

\* The store has returned to the handler of a request of this kind.
Returned(kind) ==
    /\ busy
    /\ Idle
    /\ req.kind = kind
    /\ busy' = FALSE
    /\ reply' = Status(ret)
    /\ UNCHANGED <<req, doubt>>

-----------------------------------------------------------------------------
(* asset_handle_begin() *)

HandleBeginActive(id, crc) ==
    /\ sess.active
    /\ Answer(Request("BEGIN", id, 0, <<>>),
              IF sess.id # id \/ sess.crc # crc THEN "BUSY" ELSE "OK")
    /\ UNCHANGED <<vars, sess, sent, promised>>

HandleBegin(id, crc) ==
    /\ ~sess.active
    /\ CallStore(Request("BEGIN", id, 0, <<>>))
    /\ sess' = [active |-> TRUE, id |-> id, crc |-> crc, next |-> 0, last |-> <<>>]
    /\ sent' = <<>>
    /\ BeginCandidate(crc)

EndBegin ==
    /\ Returned("BEGIN")
    /\ IF reply' = "OK" THEN UNCHANGED <<vars, sess>> ELSE ClearSession
    /\ UNCHANGED <<sent, promised>>

-----------------------------------------------------------------------------
(* asset_handle_write() *)

ForSession(id) == sess.active /\ sess.id = id

\* An exact repetition of the last chunk is acknowledged again.
WriteStatus(id, off, data) ==
    IF ~ForSession(id) THEN "BAD_TRANSFER_ID"
    ELSE IF off < sess.next /\ off + Len(data) = sess.next /\ Len(data) = Len(sess.last)
    THEN IF data = sess.last THEN "OK" ELSE "DATA_CONFLICT"
    ELSE IF off # sess.next THEN "BAD_OFFSET"
    ELSE IF off + Len(data) > PayloadLen THEN "BAD_LENGTH"
    ELSE "write"

HandleWriteAnswered(id, off, data) ==
    /\ WriteStatus(id, off, data) # "write"
    /\ Answer(Request("WRITE", id, off, data), WriteStatus(id, off, data))
    /\ UNCHANGED <<vars, sess, sent, promised>>

HandleWrite(id, off, data) ==
    /\ WriteStatus(id, off, data) = "write"
    /\ CallStore(Request("WRITE", id, off, data))
    /\ WriteCandidate(data)
    /\ UNCHANGED <<sess, sent>>

\* Only a storage error ends the session; after WEAR_BUDGET_EXHAUSTED it goes on.
EndWrite ==
    /\ Returned("WRITE")
    /\ IF reply' = "OK"
       THEN /\ sess' = [sess EXCEPT !.last = req.data, !.next = req.off + Len(req.data)]
            /\ sent' = sent \o req.data
            /\ UNCHANGED vars
       ELSE /\ IF reply' = "STORAGE_ERROR" THEN ClearSession ELSE UNCHANGED <<vars, sess>>
            /\ UNCHANGED sent
    /\ UNCHANGED promised

-----------------------------------------------------------------------------
(* asset_handle_commit() *)

\* asset_last_commit_matches(): the request repeats a COMMIT that succeeded.
LastCommitMatches(id) ==
    active # NoRecord /\ sess.id = id /\ active.crc = sess.crc

CommitStatus(id) ==
    IF ~sess.active THEN IF LastCommitMatches(id) THEN "OK" ELSE "BAD_TRANSFER_ID"
    ELSE IF sess.id # id THEN "BAD_TRANSFER_ID"
    ELSE IF sess.next # PayloadLen THEN "BAD_STATE"
    ELSE "commit"

HandleCommitAnswered(id) ==
    /\ CommitStatus(id) # "commit"
    /\ Answer(Request("COMMIT", id, 0, <<>>), CommitStatus(id))
    /\ promised' = IF reply' = "OK" THEN sent ELSE promised
    /\ UNCHANGED <<vars, sess, sent>>

HandleCommit(id) ==
    /\ CommitStatus(id) = "commit"
    /\ CallStore(Request("COMMIT", id, 0, <<>>))
    /\ CommitCandidate
    /\ UNCHANGED <<sess, sent>>

\* asset_finish_commit() keeps the id, so that a repeated COMMIT is recognised.
EndCommit ==
    /\ Returned("COMMIT")
    /\ IF reply' = "OK"
       THEN /\ sess' = [sess EXCEPT !.active = FALSE]
            /\ promised' = sent
            /\ UNCHANGED vars
       ELSE ClearSession /\ UNCHANGED promised
    /\ UNCHANGED sent

-----------------------------------------------------------------------------
(* ABORT, the idle timeout, and loss of the USB connection *)

HandleAbort(id) ==
    /\ Answer(Request("ABORT", id, 0, <<>>),
              IF sess.active /\ sess.id # id THEN "BAD_TRANSFER_ID" ELSE "OK")
    /\ IF ForSession(id) THEN ClearSession ELSE UNCHANGED <<vars, sess>>
    /\ UNCHANGED <<sent, promised>>

Quiet == ~busy /\ UNCHANGED <<req, busy, reply, sent, promised, doubt>>

\* asset_transfer_poll() after 30 s without a matching request.
PollTimeout == Quiet /\ sess.active /\ ClearSession

\* usb_management_protocol_reset() calls asset_transfer_reset_session().
ProtocolReset == Quiet /\ ClearSession

-----------------------------------------------------------------------------

\* A flash step of the running call.
StoreStep ==
    /\ busy
    /\ FlashStep
    /\ promised' = IF step = "marker" THEN NoPayload ELSE promised
    /\ doubt' = IF step' = "metadata" THEN FALSE
                ELSE doubt \/ (step = "marker" /\ ret' = "STORAGE_ERROR")
    /\ UNCHANGED <<sess, req, busy, reply, sent>>

TransferReset ==
    /\ Reset
    /\ sess' = NoSession
    /\ req' = NoRequest
    /\ busy' = FALSE
    /\ reply' = "none"
    /\ sent' = <<>>
    /\ promised' = IF step = "marker" \/ doubt THEN NoPayload ELSE promised
    /\ doubt' = FALSE

TransferInit ==
    /\ Init
    /\ sess = NoSession
    /\ req = NoRequest
    /\ busy = FALSE
    /\ reply = "none"
    /\ sent = <<>>
    /\ promised = NoPayload
    /\ doubt = FALSE

Handle ==
    \/ \E id \in TransferId, v \in CrcValue : HandleBegin(id, v) \/ HandleBeginActive(id, v)
    \/ \E id \in TransferId, off \in 0..(PayloadLen - 1), d \in Chunk :
           HandleWrite(id, off, d) \/ HandleWriteAnswered(id, off, d)
    \/ \E id \in TransferId :
           HandleCommit(id) \/ HandleCommitAnswered(id) \/ HandleAbort(id)

TransferNext ==
    \/ Handle
    \/ EndBegin \/ EndWrite \/ EndCommit
    \/ PollTimeout \/ ProtocolReset
    \/ StoreStep
    \/ TransferReset

TransferSpec == TransferInit /\ [][TransferNext]_xvars

-----------------------------------------------------------------------------
(* Properties *)

\* The session and the candidate it fills stay in step: one is open exactly when
\* the other is, and both have accepted the same number of bytes, so no request
\* sequence makes the store answer BAD_STATE.
SessionMatchesCandidate ==
    ~busy => /\ sess.active <=> cand.active
             /\ sess.active =>
                    sess.next = cand.accepted /\ sess.next = Len(sent)
             /\ ret # "BAD_STATE"

\* An acknowledged WRITE_CHUNK, first or repeated, means that exactly these bytes
\* are the bytes the session holds at this offset.
WriteOkMeansAccepted ==
    req.kind = "WRITE" /\ reply = "OK" /\ sess.active =>
        SubSeq(sent, req.off + 1, req.off + Len(req.data)) = req.data

\* A COMMIT answered OK, first or repeated, changed or unchanged, means that the
\* object in use is exactly the sequence of bytes that the host had acknowledged,
\* even when CRCs collide.
CommitOkMeansStored ==
    req.kind = "COMMIT" /\ reply = "OK" => PayloadOf(slots, active) = sent

\* An acknowledged object survives later transfers and resets until another commit
\* reaches its marker, provided no commit failed at its marker.
AcknowledgedSurvives ==
    promised # NoPayload /\ ~doubt => PayloadOf(slots, BootRecord(slots)) = promised

\* The persistence contract on a failed commit marker: the old committed record
\* stays the committed one.  Then an acknowledged object survives every reset.
AcknowledgedAlwaysSurvives ==
    promised # NoPayload => PayloadOf(slots, BootRecord(slots)) = promised

\* The acknowledgements of the protocol, together: an acknowledged chunk is held, an
\* acknowledged commit is stored, and what is stored survives.
AcknowledgementsHold ==
    WriteOkMeansAccepted /\ CommitOkMeansStored /\ AcknowledgedSurvives
==============================================================================
