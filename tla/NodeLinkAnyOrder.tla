-------------------------- MODULE NodeLinkAnyOrder --------------------------
(* The node link with the weakest of lines: a frame, once sent, may arrive     *)
(* never, once or many times, at any time and in any order, and the node may   *)
(* restart.  What holds here holds for every adapter below the link.           *)
EXTENDS NodeLink, FiniteSets

VARIABLES
    ctrl,      \* the controller
    node,      \* the worker
    requests,  \* every request that was ever sent
    replies,   \* every reply that was ever sent
    used,      \* challenges used so far: a new HELLO takes a fresh one
    ran,       \* history: job requests executed since the node's session began
    accepted   \* history: the last reply the controller accepted, with its request

vars == <<ctrl, node, requests, replies, used, ran, accepted>>

Init ==
    /\ ctrl = NewController /\ node = NewWorker
    /\ requests = {} /\ replies = {} /\ used = {}
    /\ ran = {} /\ accepted = None

Hello ==
    \E challenge \in Sessions \ used :
        /\ MayHello(ctrl, challenge)
        /\ ctrl' = ControllerHello(ctrl, challenge)
        /\ requests' = requests \union {HelloFrame(challenge)}
        /\ used' = used \union {challenge}
        /\ UNCHANGED <<node, replies, ran, accepted>>

Ask ==
    \E type \in {"PING", "JOB", "GET_STATUS"} :
        \E arg \in IF type = "JOB" THEN Jobs ELSE {Nothing} :
            /\ MayRequest(ctrl, type, arg)
            /\ ctrl' = ControllerRequest(ctrl, type, arg)
            /\ requests' = requests \union {RequestFrame(ctrl, type, arg)}
            /\ UNCHANGED <<node, replies, used, ran, accepted>>

(* A retry sends a request that was sent before.                               *)
Timeout ==
    /\ ctrl.pending
    /\ ctrl' = ControllerTimeout(ctrl)
    /\ UNCHANGED <<node, requests, replies, used, ran, accepted>>

NodeReceives ==
    \E req \in requests :
        \E out \in {WorkerProcess(node, req)} :
            /\ node' = out.worker
            /\ replies' = IF out.reply = None THEN replies ELSE replies \union {out.reply}
            /\ ran' = IF out.worker.last = None THEN {}
                      ELSE IF out.worker.jobs > node.jobs THEN ran \union {req} ELSE ran
            /\ UNCHANGED <<ctrl, requests, used, accepted>>

ControllerReceives ==
    \E reply \in replies :
        /\ Matches(ctrl, reply)
        /\ ctrl' = Accept(ctrl, reply)
        /\ accepted' = [req |-> ctrl.request, reply |-> reply]
        /\ UNCHANGED <<node, requests, replies, used, ran>>

NodeRestart ==
    /\ node' = NewWorker /\ ran' = {}
    /\ UNCHANGED <<ctrl, requests, replies, used, accepted>>

Next == Hello \/ Ask \/ Timeout \/ NodeReceives \/ ControllerReceives \/ NodeRestart

Spec == Init /\ [][Next]_vars

(* The controller's owner calls dnl_controller_timeout while a request is      *)
(* outstanding; nothing is assumed of the line or of the node.                 *)
LiveSpec == Spec /\ WF_vars(Timeout)

-----------------------------------------------------------------------------
(* Both ends keep within their types; the sequence number never passes the     *)
(* last one and the node is never ahead of the controller in its session.      *)
TypeOK ==
    /\ ctrl.session \in Sessions \union {Zero} /\ ctrl.seq \in 0 .. MaxSequence
    /\ ctrl.ready \in BOOLEAN /\ ctrl.pending \in BOOLEAN /\ ctrl.retries \in 0 .. 1
    /\ node.session \in Sessions \union {Zero} /\ node.jobs \in 0 .. MaxSequence
    /\ node.session = ctrl.session => node.highest <= ctrl.seq

(* The reply that the controller accepts was made for its outstanding request  *)
(* and for no other, and a job's result is the CRC of that job: a late, stale, *)
(* repeated or reordered reply is never taken for the answer, whatever came    *)
(* between (dnl_controller_receive).                                           *)
AcceptedMatches ==
    accepted # None =>
        /\ accepted.reply.for = accepted.req
        /\ accepted.reply.type = "JOB_RESULT" =>
              accepted.reply.arg.crc = Crc(accepted.req.arg)

(* The job count that the node reports is the number of different job requests *)
(* it executed in its session: repetition never executes one twice             *)
(* (dnl_worker_process).                                                       *)
JobsAreDistinct == node.jobs = Cardinality(ran)

(* Every outstanding request ends even when no reply ever comes: answered, or  *)
(* given up after one retry (dnl_controller_timeout).                          *)
PendingEnds == ctrl.pending ~> ~ctrl.pending

(* The worker, together: types, a node never ahead of its controller, and no   *)
(* job executed twice.                                                         *)
WorkerHolds == TypeOK /\ JobsAreDistinct
=============================================================================
