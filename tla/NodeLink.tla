------------------------------ MODULE NodeLink ------------------------------
(* The request/response protocol of shared/node_link: the controller's and     *)
(* the worker's handlers as functions of their state and a frame.  A frame     *)
(* that does not decode (dnl_decode: magic, lengths, CRC) reaches neither, so  *)
(* a damaged frame is a lost one.  Every reply carries, in `for', the request  *)
(* it was made for; that field is not on the wire and no handler reads it.     *)
EXTENDS Integers

CONSTANTS
    Sessions,    \* challenges; also the session identifiers (nonzero)
    Jobs,        \* payloads of JOB_CRC32 requests
    Length(_),   \* declared length of a job
    Crc(_),      \* dnl_crc32_ieee of a job
    MaxJob,      \* DNL_MAX_JOB_BYTES
    MaxSequence  \* the last sequence number, 0xffff

Zero == 0        \* no session

ASSUME LinkAssumption ==
    /\ Zero \notin Sessions
    /\ \A j \in Jobs : Length(j) \in Nat
    /\ MaxJob \in Nat
    /\ MaxSequence \in Nat \ {0}

None == [type |-> "NONE"]
Nothing == "nothing"   \* an empty payload

Request(type, seq, session, arg) ==
    [type |-> type, seq |-> seq, session |-> session, arg |-> arg]
Reply(type, req, session, arg) ==
    [type |-> type, seq |-> req.seq, session |-> session, arg |-> arg, for |-> req]

(* dnl_validate_payload, for the requests.                                     *)
ValidRequest(req) ==
    CASE req.type = "HELLO" -> req.arg \in Sessions
      [] req.type = "JOB" -> Length(req.arg) <= MaxJob
      [] OTHER -> req.arg = Nothing

-----------------------------------------------------------------------------
(* The worker: dnl_worker_init and dnl_worker_process.  A handler returns the  *)
(* new state and the reply, None when the frame is dropped.                    *)

NewWorker == [session |-> Zero, highest |-> 0, jobs |-> 0,
              last |-> None, reply |-> None, hello |-> None]

Outcome(w, reply) == [worker |-> w, reply |-> reply]

WorkerError(req, session) ==
    Reply("ERROR", req, session, [error |-> "BAD_SEQUENCE", about |-> req.type])

(* HELLO: a repeated one is answered from the cache, a new one starts afresh.  *)
WorkerHello(w, req) ==
    LET ack == Reply("HELLO_ACK", req, req.arg, req.arg)
    IN  IF req.session # Zero \/ req.seq # 1 \/ ~ValidRequest(req) THEN Outcome(w, None)
        ELSE IF req.arg = w.session /\ w.hello # None THEN Outcome(w, w.hello)
        ELSE Outcome([NewWorker EXCEPT !.session = req.arg, !.highest = 1, !.hello = ack], ack)

Answer(w, req) ==
    CASE ~ValidRequest(req) ->
             Reply("ERROR", req, w.session, [error |-> "BAD_PAYLOAD", about |-> req.type])
      [] ValidRequest(req) /\ req.type = "PING" -> Reply("PONG", req, w.session, Nothing)
      [] ValidRequest(req) /\ req.type = "JOB" ->
             Reply("JOB_RESULT", req, w.session,
                   [length |-> Length(req.arg), crc |-> Crc(req.arg)])
      [] ValidRequest(req) /\ req.type = "GET_STATUS" ->
             Reply("STATUS", req, w.session, w.jobs)
      [] OTHER -> Reply("ERROR", req, w.session, [error |-> "UNSUPPORTED", about |-> req.type])

Executes(w, req) == req.type = "JOB" /\ Answer(w, req).type = "JOB_RESULT"

(* A new request: answered, remembered for repetition, a job counted.          *)
WorkerExecute(w, req) ==
    LET answer == Answer(w, req)
    IN  Outcome([w EXCEPT !.last = req, !.reply = answer, !.highest = req.seq,
                          !.jobs = IF Executes(w, req) /\ @ < MaxSequence THEN @ + 1 ELSE @],
                answer)

(* Faulty variant: a repeated job is executed again. *)
WorkerProcessAgain(w, req) ==
    IF req.type = "HELLO" THEN WorkerHello(w, req)
    ELSE IF w.session = Zero \/ req.session # w.session THEN Outcome(w, None)
    ELSE IF req.seq < w.highest THEN Outcome(w, None)
    ELSE IF req.seq > w.highest + 1 THEN Outcome(w, WorkerError(req, w.session))
    ELSE WorkerExecute(w, req)

WorkerProcess(w, req) ==
    IF req.type = "HELLO" THEN WorkerHello(w, req)
    ELSE IF w.session = Zero \/ req.session # w.session THEN Outcome(w, None)
    ELSE IF req.seq = w.highest /\ w.last # None
    THEN Outcome(w, IF req = w.last THEN w.reply ELSE WorkerError(req, w.session))
    ELSE IF req.seq < w.highest THEN Outcome(w, None)
    ELSE IF req.seq # w.highest + 1 THEN Outcome(w, WorkerError(req, w.session))
    ELSE WorkerExecute(w, req)

-----------------------------------------------------------------------------
(* The controller: one outstanding request, `request' keeps its bytes.         *)

NewController == [session |-> Zero, seq |-> 0, ready |-> FALSE, pending |-> FALSE,
                  request |-> None, retries |-> 0]

(* controller_emit and the fields its two callers set.                         *)
Emit(c, req) == [c EXCEPT !.request = req, !.pending = TRUE, !.retries = 0, !.seq = req.seq]

(* dnl_controller_hello: only the current session's challenge is refused.      *)
MayHello(c, challenge) == challenge # c.session
HelloFrame(challenge) == Request("HELLO", 1, Zero, challenge)
ControllerHello(c, challenge) ==
    [Emit(c, HelloFrame(challenge)) EXCEPT !.session = challenge, !.ready = FALSE]

(* dnl_controller_request.                                                     *)
RequestFrame(c, type, arg) == Request(type, c.seq + 1, c.session, arg)
MayRequest(c, type, arg) ==
    /\ c.ready /\ ~c.pending
    /\ c.seq # MaxSequence             \* DNL_REHANDSHAKE_REQUIRED
    /\ ValidRequest(RequestFrame(c, type, arg))
ControllerRequest(c, type, arg) == Emit(c, RequestFrame(c, type, arg))

ReplyType == [HELLO |-> "HELLO_ACK", PING |-> "PONG", JOB |-> "JOB_RESULT",
              GET_STATUS |-> "STATUS"]

(* Faulty variant: the sequence number is not compared. *)
MatchesUnsequenced(c, reply) ==
    /\ c.pending
    /\ reply.session = c.session
    /\ \/ reply.type = ReplyType[c.request.type]
       \/ reply.type = "ERROR" /\ reply.arg.about = c.request.type
    /\ reply.type = "HELLO_ACK" => reply.arg = c.session
    /\ reply.type = "JOB_RESULT" => reply.arg.length = Length(c.request.arg)

(* dnl_controller_receive: a reply is matched with the outstanding request by  *)
(* session, sequence, type and the declared length of a job.                   *)
Matches(c, reply) ==
    /\ c.pending
    /\ reply.session = c.session
    /\ reply.seq = c.seq
    /\ \/ reply.type = ReplyType[c.request.type]
       \/ reply.type = "ERROR" /\ reply.arg.about = c.request.type
    /\ reply.type = "HELLO_ACK" => reply.arg = c.session
    /\ reply.type = "JOB_RESULT" => reply.arg.length = Length(c.request.arg)
Accept(c, reply) ==
    [c EXCEPT !.pending = FALSE, !.ready = @ \/ reply.type = "HELLO_ACK"]

(* Faulty variant: the retries are not counted. *)
RetriesForever(c) == c.request.type # "JOB"

(* dnl_controller_timeout: one byte-identical retry, never of a job; then the  *)
(* link is given up until the next HELLO.                                      *)
Retries(c) == c.request.type # "JOB" /\ c.retries = 0
ControllerTimeout(c) ==
    IF Retries(c) THEN [c EXCEPT !.retries = 1]
    ELSE [c EXCEPT !.pending = FALSE, !.ready = FALSE]
=============================================================================
