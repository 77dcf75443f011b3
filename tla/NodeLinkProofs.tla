--------------------------- MODULE NodeLinkProofs ---------------------------
(* What the node link guarantees on every line, for any number of sessions,    *)
(* jobs and sequence numbers: an accepted reply belongs to the outstanding     *)
(* request, and no job request runs twice in a session.                        *)
EXTENDS NodeLinkAnyOrder, FiniteSetTheorems, TLAPS

(* The session a request belongs to; a HELLO names it in its payload.          *)
SessionOf(req) == IF req.type = "HELLO" THEN req.arg ELSE req.session

Types == {"HELLO", "PING", "JOB", "GET_STATUS"}

ControllerInv ==
    /\ ctrl \in [session : used \union {Zero}, seq : Nat, ready : BOOLEAN,
                 pending : BOOLEAN, request : requests \union {None}, retries : {0, 1}]
    /\ used \subseteq Sessions
    /\ ctrl.ready => ctrl.session \in used
    /\ ctrl.pending => /\ ctrl.request \in requests
                       /\ SessionOf(ctrl.request) = ctrl.session
                       /\ ctrl.request.seq = ctrl.seq

(* A session and a sequence number name one request; none is ahead of the      *)
(* controller.                                                                 *)
RequestsInv ==
    /\ \A r \in requests :
          /\ r = Request(r.type, r.seq, r.session, r.arg)
          /\ r.type \in Types
          /\ r.seq \in Nat
          /\ r.type = "HELLO" => r.seq = 1
          /\ SessionOf(r) \in used
          /\ SessionOf(r) = ctrl.session => r.seq <= ctrl.seq
    /\ \A r, s \in requests : SessionOf(r) = SessionOf(s) /\ r.seq = s.seq => r = s

(* A reply carries the session and sequence number of the request it is for.   *)
RightReply(p, Reqs) ==
    /\ p.for \in Reqs
    /\ p.session = SessionOf(p.for)
    /\ p.seq = p.for.seq
    /\ p.type # "NONE"
    /\ p.type = "JOB_RESULT" => p.arg.crc = Crc(p.for.arg)

RepliesInv == \A p \in replies : RightReply(p, requests)

NodeInv ==
    node \in [session : Sessions \union {Zero}, highest : Nat, jobs : Nat,
              last : requests \union {None}, reply : replies \union {None},
              hello : replies \union {None}]

(* The jobs that ran have sequence numbers the node has passed.                *)
RanInv ==
    /\ IsFiniteSet(ran)
    /\ node.jobs = Cardinality(ran)
    /\ node.last = None => ran = {}
    /\ \A r \in ran : r.seq \in Nat /\ r.seq <= node.highest

LinkInv == ControllerInv /\ RequestsInv /\ RepliesInv /\ NodeInv /\ RanInv /\ AcceptedMatches
-----------------------------------------------------------------------------
LEMMA InitInv == Init => LinkInv
<1> SUFFICES ASSUME Init PROVE LinkInv
  OBVIOUS
<1>1. ControllerInv
  BY DEF Init, ControllerInv, NewController
<1>2. RequestsInv /\ RepliesInv
  BY DEF Init, RequestsInv, RepliesInv
<1>3. NodeInv
  BY DEF Init, NodeInv, NewWorker
<1>4. RanInv
  BY FS_EmptySet DEF Init, RanInv, NewWorker
<1>5. AcceptedMatches
  BY DEF Init, AcceptedMatches
<1> QED
  BY <1>1, <1>2, <1>3, <1>4, <1>5 DEF LinkInv

(* A new session has no requests yet, and the replies are not disturbed.       *)
LEMMA HelloInv == LinkInv /\ Hello => LinkInv'
<1> SUFFICES ASSUME LinkInv, Hello PROVE LinkInv'
  OBVIOUS
<1> USE DEF LinkInv
<1>1. PICK challenge \in Sessions \ used :
        /\ ctrl' = ControllerHello(ctrl, challenge)
        /\ requests' = requests \union {HelloFrame(challenge)}
        /\ used' = used \union {challenge}
        /\ UNCHANGED <<node, replies, ran, accepted>>
  BY DEF Hello
<1> DEFINE h == HelloFrame(challenge)
<1>2. /\ h = Request(h.type, h.seq, h.session, h.arg)
      /\ h.type = "HELLO" /\ h.seq = 1 /\ SessionOf(h) = challenge
  BY DEF HelloFrame, Request, SessionOf
<1>3. /\ ctrl'.session = challenge /\ ctrl'.seq = 1 /\ ctrl'.request = h
      /\ ctrl' = [session |-> challenge, seq |-> 1, ready |-> FALSE,
                  pending |-> TRUE, request |-> h, retries |-> 0]
  BY <1>1, <1>2 DEF ControllerHello, Emit, ControllerInv
<1> HIDE DEF h
<1>4. h \in requests'
  BY <1>1 DEF h
<1>5. ControllerInv'
  BY <1>1, <1>2, <1>3, <1>4 DEF ControllerInv
<1>6. RequestsInv'
  <2>1. requests' = requests \union {h}
    BY <1>1 DEF h
  <2>2. \A r \in requests : SessionOf(r) # challenge
    BY DEF RequestsInv
  <2>3. ASSUME NEW r \in requests'
        PROVE /\ r = Request(r.type, r.seq, r.session, r.arg)
              /\ r.type \in Types
              /\ r.seq \in Nat
              /\ r.type = "HELLO" => r.seq = 1
              /\ SessionOf(r) \in used'
              /\ SessionOf(r) = ctrl'.session => r.seq <= ctrl'.seq
    <3>1. CASE r \in requests
      BY <1>1, <1>3, <2>2, <3>1 DEF RequestsInv
    <3>2. CASE r = h
      BY <1>1, <1>2, <1>3, <3>2 DEF Types
    <3> QED
      BY <2>1, <3>1, <3>2
  <2>4. ASSUME NEW r \in requests', NEW s \in requests',
               SessionOf(r) = SessionOf(s), r.seq = s.seq
        PROVE r = s
    BY <1>2, <2>1, <2>2, <2>4 DEF RequestsInv
  <2> QED
    BY <2>3, <2>4 DEF RequestsInv, SessionOf
<1>7. RepliesInv'
  BY <1>1 DEF RepliesInv, RightReply, SessionOf
<1>8. NodeInv'
  BY <1>1 DEF NodeInv
<1>9. RanInv' /\ AcceptedMatches'
  BY <1>1 DEF RanInv, AcceptedMatches
<1> QED
  BY <1>5, <1>6, <1>7, <1>8, <1>9

(* A request takes the next sequence number, which none of its session has.    *)
LEMMA AskInv == LinkInv /\ Ask => LinkInv'
<1> SUFFICES ASSUME LinkInv, Ask PROVE LinkInv'
  OBVIOUS
<1> USE DEF LinkInv
<1>1. PICK type \in {"PING", "JOB", "GET_STATUS"} :
        \E arg \in IF type = "JOB" THEN Jobs ELSE {Nothing} :
            /\ MayRequest(ctrl, type, arg)
            /\ ctrl' = ControllerRequest(ctrl, type, arg)
            /\ requests' = requests \union {RequestFrame(ctrl, type, arg)}
            /\ UNCHANGED <<node, replies, used, ran, accepted>>
  BY DEF Ask
<1>2. PICK arg :
            /\ MayRequest(ctrl, type, arg)
            /\ ctrl' = ControllerRequest(ctrl, type, arg)
            /\ requests' = requests \union {RequestFrame(ctrl, type, arg)}
            /\ UNCHANGED <<node, replies, used, ran, accepted>>
  BY <1>1
<1> DEFINE q == RequestFrame(ctrl, type, arg)
<1>3. /\ q = Request(q.type, q.seq, q.session, q.arg)
      /\ q.type = type /\ q.seq = ctrl.seq + 1 /\ SessionOf(q) = ctrl.session
      /\ type # "HELLO" /\ type \in Types
  BY DEF RequestFrame, Request, SessionOf, Types
<1>4. /\ ctrl.seq \in Nat /\ ctrl.session \in used
  BY <1>2 DEF MayRequest, ControllerInv
<1>5. /\ ctrl'.session = ctrl.session /\ ctrl'.seq = ctrl.seq + 1 /\ ctrl'.request = q
      /\ ctrl' = [session |-> ctrl.session, seq |-> ctrl.seq + 1, ready |-> ctrl.ready,
                  pending |-> TRUE, request |-> q, retries |-> 0]
  BY <1>2, <1>3 DEF ControllerRequest, Emit, ControllerInv
<1> HIDE DEF q
<1>6. requests' = requests \union {q}
  BY <1>2 DEF q
<1>7. ControllerInv'
  BY <1>2, <1>3, <1>4, <1>5, <1>6 DEF ControllerInv
<1>8. RequestsInv'
  <2>1. \A r \in requests : SessionOf(r) = ctrl.session => r.seq # ctrl.seq + 1
    BY <1>4 DEF RequestsInv
  <2>2. ASSUME NEW r \in requests'
        PROVE /\ r = Request(r.type, r.seq, r.session, r.arg)
              /\ r.type \in Types
              /\ r.seq \in Nat
              /\ r.type = "HELLO" => r.seq = 1
              /\ SessionOf(r) \in used'
              /\ SessionOf(r) = ctrl'.session => r.seq <= ctrl'.seq
    <3>1. CASE r \in requests
      BY <1>2, <1>4, <1>5, <3>1 DEF RequestsInv
    <3>2. CASE r = q
      BY <1>2, <1>3, <1>4, <1>5, <3>2
    <3> QED
      BY <1>6, <3>1, <3>2
  <2>3. ASSUME NEW r \in requests', NEW s \in requests',
               SessionOf(r) = SessionOf(s), r.seq = s.seq
        PROVE r = s
    BY <1>3, <1>6, <2>1, <2>3 DEF RequestsInv
  <2> QED
    BY <2>2, <2>3 DEF RequestsInv, SessionOf
<1>9. RepliesInv'
  BY <1>2 DEF RepliesInv, RightReply, SessionOf
<1>10. NodeInv'
  BY <1>2 DEF NodeInv
<1>11. RanInv' /\ AcceptedMatches'
  BY <1>2 DEF RanInv, AcceptedMatches
<1> QED
  BY <1>7, <1>8, <1>9, <1>10, <1>11

LEMMA TimeoutInv == LinkInv /\ Timeout => LinkInv'
<1> SUFFICES ASSUME LinkInv, Timeout PROVE LinkInv'
  OBVIOUS
<1> USE DEF LinkInv
<1>1. /\ ctrl' = [session |-> ctrl.session, seq |-> ctrl.seq, ready |-> ctrl'.ready,
                  pending |-> ctrl'.pending, request |-> ctrl.request,
                  retries |-> ctrl'.retries]
      /\ ctrl'.session = ctrl.session /\ ctrl'.seq = ctrl.seq /\ ctrl'.request = ctrl.request
      /\ ctrl'.retries \in {0, 1}
  BY DEF Timeout, ControllerTimeout, ControllerInv
<1>2. /\ ctrl'.ready \in BOOLEAN /\ ctrl'.pending \in BOOLEAN
      /\ ctrl'.ready => ctrl.ready
      /\ ctrl'.pending => ctrl.pending
  BY DEF Timeout, ControllerTimeout, ControllerInv
<1>3. ControllerInv'
  BY <1>1, <1>2 DEF Timeout, ControllerInv, SessionOf
<1>4. RequestsInv'
  BY <1>1 DEF Timeout, RequestsInv, SessionOf
<1>5. RepliesInv' /\ NodeInv' /\ RanInv' /\ AcceptedMatches'
  BY DEF Timeout, RepliesInv, NodeInv, RanInv, AcceptedMatches, RightReply, SessionOf
<1> QED
  BY <1>3, <1>4, <1>5

(* The outstanding request is the only one with its session and sequence       *)
(* number, so a reply that matches them was made for it.                       *)
LEMMA ReceiveInv == LinkInv /\ ControllerReceives => LinkInv'
<1> SUFFICES ASSUME LinkInv, ControllerReceives PROVE LinkInv'
  OBVIOUS
<1> USE DEF LinkInv
<1>1. PICK reply \in replies :
        /\ Matches(ctrl, reply)
        /\ ctrl' = Accept(ctrl, reply)
        /\ accepted' = [req |-> ctrl.request, reply |-> reply]
        /\ UNCHANGED <<node, requests, replies, used, ran>>
  BY DEF ControllerReceives
<1>2. /\ reply.session = ctrl.session /\ reply.seq = ctrl.seq
      /\ RightReply(reply, requests)
      /\ ctrl.request \in requests
      /\ SessionOf(ctrl.request) = ctrl.session /\ ctrl.request.seq = ctrl.seq
  BY <1>1 DEF Matches, RepliesInv, ControllerInv
<1>3. reply.for = ctrl.request
  BY <1>2 DEF RightReply, RequestsInv
<1>4. AcceptedMatches'
  BY <1>1, <1>2, <1>3 DEF AcceptedMatches, RightReply
<1>5. ctrl.session \in used
  BY <1>2 DEF RequestsInv
<1>6. /\ ctrl' = [session |-> ctrl.session, seq |-> ctrl.seq, ready |-> ctrl'.ready,
                  pending |-> FALSE, request |-> ctrl.request, retries |-> ctrl.retries]
      /\ ctrl'.session = ctrl.session /\ ctrl'.seq = ctrl.seq /\ ctrl'.request = ctrl.request
  BY <1>1 DEF Accept, ControllerInv
<1>7. ctrl'.ready \in BOOLEAN /\ ctrl'.pending = FALSE
  BY <1>1 DEF Accept, ControllerInv
<1>8. ControllerInv'
  <2>1. /\ used \subseteq Sessions /\ ctrl.seq \in Nat /\ ctrl.retries \in {0, 1}
        /\ ctrl.request \in requests \union {None}
    BY DEF ControllerInv
  <2>2. ctrl' \in [session : used \union {Zero}, seq : Nat, ready : BOOLEAN,
                   pending : BOOLEAN, request : requests \union {None}, retries : {0, 1}]
    <3> DEFINE now == ctrl'.ready
    <3>1. /\ now \in BOOLEAN
          /\ ctrl' = [session |-> ctrl.session, seq |-> ctrl.seq, ready |-> now,
                      pending |-> FALSE, request |-> ctrl.request, retries |-> ctrl.retries]
      BY <1>6, <1>7
    <3> HIDE DEF now
    <3> QED
      BY <1>5, <2>1, <3>1
  <2> QED
    BY <1>1, <1>5, <1>6, <1>7, <2>1, <2>2 DEF ControllerInv
<1>9. RequestsInv'
  BY <1>1, <1>6 DEF RequestsInv, SessionOf
<1>10. RepliesInv' /\ NodeInv' /\ RanInv'
  BY <1>1 DEF RepliesInv, NodeInv, RanInv, RightReply, SessionOf
<1> QED
  BY <1>4, <1>8, <1>9, <1>10

LEMMA RestartInv == LinkInv /\ NodeRestart => LinkInv'
<1> SUFFICES ASSUME LinkInv, NodeRestart PROVE LinkInv'
  OBVIOUS
<1> USE DEF LinkInv, NodeRestart
<1>1. ControllerInv' /\ RequestsInv'
  BY DEF ControllerInv, RequestsInv, SessionOf
<1>2. RepliesInv' /\ AcceptedMatches'
  BY DEF RepliesInv, AcceptedMatches, RightReply, SessionOf
<1>3. NodeInv'
  BY DEF NodeInv, NewWorker
<1>4. RanInv'
  BY FS_EmptySet DEF RanInv, NewWorker
<1> QED
  BY <1>1, <1>2, <1>3, <1>4

-----------------------------------------------------------------------------
(* The five things the node can do with a request.                             *)
LEMMA WorkerCases ==
  ASSUME LinkInv, NEW req \in requests
  PROVE  LET out == WorkerProcess(node, req)
         IN  \/ out = Outcome(node, None)
             \/ \E p \in replies : out = Outcome(node, p)
             \/ /\ req.type # "HELLO" /\ req.session = node.session
                /\ out = Outcome(node, WorkerError(req, node.session))
             \/ /\ req.type = "HELLO" /\ req.arg \in Sessions
                /\ LET ack == Reply("HELLO_ACK", req, req.arg, req.arg)
                   IN  out = Outcome([NewWorker EXCEPT !.session = req.arg, !.highest = 1,
                                                       !.hello = ack], ack)
             \/ /\ req.type # "HELLO" /\ req.session = node.session
                /\ req.seq = node.highest + 1
                /\ out = WorkerExecute(node, req)
<1> USE DEF LinkInv
<1>1. CASE req.type = "HELLO"
  <2>1. node.hello # None => node.hello \in replies
    BY DEF NodeInv
  <2> QED
    BY <1>1, <2>1 DEF WorkerProcess, WorkerHello, ValidRequest
<1>2. CASE req.type # "HELLO"
  <2>1. req = node.last /\ node.last # None => node.reply \in replies \union {None}
    BY DEF NodeInv
  <2> QED
    BY <1>2, <2>1 DEF WorkerProcess
<1> QED
  BY <1>1, <1>2

(* What the node answers carries the request's own session and number.         *)
LEMMA AnswerRight ==
  ASSUME LinkInv, NEW req \in requests, req.type # "HELLO", req.session = node.session
  PROVE  RightReply(Answer(node, req), requests)
<1>1. req.type \in Types /\ SessionOf(req) = req.session
  BY DEF LinkInv, RequestsInv, SessionOf
<1> QED
  BY <1>1 DEF Answer, Reply, RightReply, Types

(* A step that changes only the node, its history and the replies.             *)
LEMMA NodeStep ==
  ASSUME LinkInv, UNCHANGED <<ctrl, requests, used, accepted>>,
         replies \subseteq replies', \A p \in replies' \ replies : RightReply(p, requests),
         NodeInv', RanInv'
  PROVE  LinkInv'
<1> USE DEF LinkInv
<1>1. ControllerInv' /\ RequestsInv'
  BY DEF ControllerInv, RequestsInv, SessionOf
<1>2. AcceptedMatches'
  BY DEF AcceptedMatches
<1>3. RepliesInv'
  <2>1. \A p \in replies' : RightReply(p, requests)
    BY DEF RepliesInv
  <2> QED
    BY <2>1 DEF RepliesInv, RightReply, SessionOf
<1> QED
  BY <1>1, <1>2, <1>3

(* Only the last case executes: its sequence number is one past all that ran.  *)
LEMMA NodeReceivesInv == LinkInv /\ NodeReceives => LinkInv'
<1> SUFFICES ASSUME LinkInv, NodeReceives PROVE LinkInv'
  OBVIOUS
<1>1. PICK req \in requests :
        \E out \in {WorkerProcess(node, req)} :
            /\ node' = out.worker
            /\ replies' = IF out.reply = None THEN replies ELSE replies \union {out.reply}
            /\ ran' = IF out.worker.last = None THEN {}
                      ELSE IF out.worker.jobs > node.jobs THEN ran \union {req} ELSE ran
            /\ UNCHANGED <<ctrl, requests, used, accepted>>
  BY DEF NodeReceives
<1> DEFINE out == WorkerProcess(node, req)
<1>2. /\ node' = out.worker
      /\ replies' = IF out.reply = None THEN replies ELSE replies \union {out.reply}
      /\ ran' = IF out.worker.last = None THEN {}
                ELSE IF out.worker.jobs > node.jobs THEN ran \union {req} ELSE ran
      /\ UNCHANGED <<ctrl, requests, used, accepted>>
  BY <1>1
<1> HIDE DEF out
<1>3. /\ NodeInv /\ RanInv /\ RepliesInv
      /\ node.jobs \in Nat /\ node.highest \in Nat
      /\ node.last \in requests \union {None}
      /\ req.seq \in Nat /\ req.type # "NONE" /\ req.type \in Types
      /\ req # None
  BY DEF LinkInv, NodeInv, RequestsInv, Types, None
<1>4. ASSUME NEW p, out = Outcome(node, p), p = None \/ RightReply(p, requests)
      PROVE  LinkInv'
  <2>1. /\ node' = node /\ out.reply = p
        /\ replies' \in {replies, replies \union {p}}
        /\ p = None => replies' = replies
    BY <1>2, <1>4 DEF Outcome
  <2>2. ran' = ran
    BY <1>2, <1>3, <1>4 DEF Outcome, RanInv
  <2>3. NodeInv'
    BY <1>2, <1>3, <2>1 DEF NodeInv
  <2>4. RanInv'
    BY <1>3, <2>1, <2>2 DEF RanInv
  <2> QED
    BY <1>2, <1>4, <2>1, <2>3, <2>4, NodeStep
<1>5. CASE \E p \in replies : out = Outcome(node, p)
  BY <1>3, <1>4, <1>5 DEF RepliesInv
<1>6. CASE /\ req.type # "HELLO" /\ req.session = node.session
           /\ out = Outcome(node, WorkerError(req, node.session))
  <2>1. RightReply(WorkerError(req, node.session), requests)
    BY <1>6 DEF RightReply, WorkerError, Reply, SessionOf
  <2> QED
    BY <1>4, <1>6, <2>1
<1>7. ASSUME req.type = "HELLO", req.arg \in Sessions, NEW ack,
             ack = Reply("HELLO_ACK", req, req.arg, req.arg),
             out = Outcome([NewWorker EXCEPT !.session = req.arg, !.highest = 1,
                                             !.hello = ack], ack)
      PROVE  LinkInv'
  <2>1. /\ RightReply(ack, requests) /\ ack # None
    BY <1>7 DEF RightReply, Reply, SessionOf, None
  <2>2. /\ node' = [session |-> req.arg, highest |-> 1, jobs |-> 0, last |-> None,
                    reply |-> None, hello |-> ack]
        /\ out.reply = ack
    BY <1>2, <1>7 DEF Outcome, NewWorker
  <2>3. replies' = replies \union {ack}
    BY <1>2, <2>1, <2>2
  <2>4. ran' = {}
    BY <1>2, <2>2
  <2>5. NodeInv'
    BY <1>2, <1>7, <2>2, <2>3 DEF NodeInv
  <2>6. RanInv'
    BY <2>2, <2>4, FS_EmptySet DEF RanInv
  <2> QED
    BY <1>2, <2>1, <2>3, <2>5, <2>6, NodeStep
<1>8. CASE /\ req.type # "HELLO" /\ req.session = node.session
           /\ req.seq = node.highest + 1
           /\ out = WorkerExecute(node, req)
  <2> DEFINE answer == Answer(node, req)
             jobs == IF Executes(node, req) /\ node.jobs < MaxSequence
                     THEN node.jobs + 1 ELSE node.jobs
  <2>1. RightReply(answer, requests) /\ answer # None
    <3>1. RightReply(answer, requests)
      BY <1>8, AnswerRight
    <3> QED
      BY <3>1 DEF RightReply, None
  <2>2. /\ out.reply = answer
        /\ node' = [session |-> node.session, highest |-> req.seq, jobs |-> jobs,
                    last |-> req, reply |-> answer, hello |-> node.hello]
    BY <1>2, <1>3, <1>8 DEF WorkerExecute, Outcome, NodeInv
  <2>3. jobs \in {node.jobs, node.jobs + 1}
    OBVIOUS
  <2> HIDE DEF answer, jobs
  <2>4. replies' = replies \union {answer}
    BY <1>2, <2>1, <2>2
  <2>5. NodeInv'
    BY <1>2, <1>3, <2>2, <2>3, <2>4 DEF NodeInv
  <2>6. RanInv'
    <3>1. req \notin ran
      BY <1>3, <1>8 DEF RanInv
    <3>2. /\ node'.jobs = jobs /\ node'.highest = node.highest + 1 /\ node'.last = req
          /\ out.worker.jobs = jobs /\ out.worker.last = req
      BY <1>2, <1>8, <2>2
    <3>3. CASE jobs = node.jobs
      <4>1. ran' = ran
        BY <1>2, <1>3, <3>2, <3>3
      <4> QED
        BY <1>3, <3>2, <3>3, <4>1 DEF RanInv
    <3>4. CASE jobs = node.jobs + 1
      <4>1. ran' = ran \union {req}
        BY <1>2, <1>3, <3>2, <3>4
      <4>2. IsFiniteSet(ran') /\ Cardinality(ran') = Cardinality(ran) + 1
        BY <1>3, <3>1, <4>1, FS_AddElement DEF RanInv
      <4>3. \A r \in ran' : r.seq \in Nat /\ r.seq <= node.highest + 1
        BY <1>3, <1>8, <4>1 DEF RanInv
      <4> QED
        BY <1>3, <3>2, <3>4, <4>2, <4>3 DEF RanInv
    <3> QED
      BY <2>3, <3>3, <3>4
  <2> QED
    BY <1>2, <2>1, <2>4, <2>5, <2>6, NodeStep
<1>9. CASE out = Outcome(node, None)
  BY <1>4, <1>9
<1> QED
  BY <1>5, <1>6, <1>7, <1>8, <1>9, WorkerCases DEF out

-----------------------------------------------------------------------------
(* Every step of either end and every fault of the line keeps LinkInv.         *)
THEOREM LinkInvariant == Spec => []LinkInv
<1>1. LinkInv /\ [Next]_vars => LinkInv'
  <2> SUFFICES ASSUME LinkInv, [Next]_vars PROVE LinkInv'
    OBVIOUS
  <2>1. CASE UNCHANGED vars
    BY <2>1 DEF vars, LinkInv, ControllerInv, RequestsInv, RepliesInv, NodeInv, RanInv,
                AcceptedMatches, RightReply, SessionOf
  <2> QED
    BY <2>1, HelloInv, AskInv, TimeoutInv, NodeReceivesInv, ReceiveInv, RestartInv DEF Next
<1> QED
  BY <1>1, InitInv, PTL DEF Spec

(* On a line that loses, repeats and reorders frames at will, with a node that *)
(* restarts at will, dnl_controller_receive accepts only the reply to the      *)
(* outstanding request, given that challenges are fresh.                       *)
THEOREM AcceptedAlwaysMatches == Spec => []AcceptedMatches
<1>1. LinkInv => AcceptedMatches
  BY DEF LinkInv
<1> QED
  BY <1>1, LinkInvariant, PTL

(* On the same line dnl_worker_process executes no job request twice in a      *)
(* session.                                                                    *)
THEOREM JobsAlwaysDistinct == Spec => []JobsAreDistinct
<1>1. LinkInv => JobsAreDistinct
  BY DEF LinkInv, RanInv, JobsAreDistinct
<1> QED
  BY <1>1, LinkInvariant, PTL

-----------------------------------------------------------------------------
(* Where the two ends stand to each other: in a common session the node is     *)
(* never ahead of the controller, and neither passes the last sequence number. *)
OrderInv ==
    /\ node.session \in used \union {Zero}
    /\ node.session = Zero => node.highest = 0
    /\ node.session = ctrl.session => node.highest <= ctrl.seq
    /\ ctrl.seq <= MaxSequence
    /\ node.jobs <= MaxSequence

LEMMA InitOrder == Init => OrderInv
  BY LinkAssumption DEF Init, OrderInv, NewController, NewWorker

(* A new session is one the node has never heard of.                           *)
LEMMA HelloOrder == LinkInv /\ OrderInv /\ Hello => OrderInv'
<1> SUFFICES ASSUME LinkInv, OrderInv,
                    NEW challenge \in Sessions \ used,
                    ctrl' = ControllerHello(ctrl, challenge),
                    used' = used \union {challenge}, node' = node
             PROVE  OrderInv'
  BY DEF Hello
<1>1. ctrl'.session = challenge /\ ctrl'.seq = 1
  BY DEF ControllerHello, Emit, HelloFrame, Request, LinkInv, ControllerInv
<1>2. challenge # node.session
  BY LinkAssumption DEF OrderInv
<1> QED
  BY <1>1, <1>2, LinkAssumption DEF OrderInv

LEMMA AskOrder == LinkInv /\ OrderInv /\ Ask => OrderInv'
<1> SUFFICES ASSUME LinkInv, OrderInv, NEW type, NEW arg,
                    MayRequest(ctrl, type, arg),
                    ctrl' = ControllerRequest(ctrl, type, arg),
                    used' = used, node' = node
             PROVE  OrderInv'
  BY DEF Ask
<1>1. ctrl'.session = ctrl.session /\ ctrl'.seq = ctrl.seq + 1
  BY DEF ControllerRequest, Emit, RequestFrame, Request, LinkInv, ControllerInv
<1>2. ctrl.seq \in Nat /\ ctrl.seq # MaxSequence /\ node.highest \in Nat
  BY DEF MayRequest, LinkInv, ControllerInv, NodeInv
<1> QED
  BY <1>1, <1>2, LinkAssumption DEF OrderInv

LEMMA ControllerOrder == LinkInv /\ OrderInv /\ (Timeout \/ ControllerReceives) => OrderInv'
<1> SUFFICES ASSUME LinkInv, OrderInv, Timeout \/ ControllerReceives PROVE OrderInv'
  OBVIOUS
<1>1. ctrl'.session = ctrl.session /\ ctrl'.seq = ctrl.seq
  BY DEF Timeout, ControllerReceives, ControllerTimeout, Accept, LinkInv, ControllerInv
<1>2. node' = node /\ used' = used
  BY DEF Timeout, ControllerReceives
<1> QED
  BY <1>1, <1>2 DEF OrderInv

(* The node follows the requests it is sent, none of which is ahead.           *)
LEMMA NodeOrder == LinkInv /\ OrderInv /\ NodeReceives => OrderInv'
<1> SUFFICES ASSUME LinkInv, OrderInv, NEW req \in requests,
                    node' = WorkerProcess(node, req).worker, ctrl' = ctrl, used' = used
             PROVE  OrderInv'
  BY DEF NodeReceives
<1>1. SessionOf(req) \in used /\ req.seq \in Nat
      /\ (req.type = "HELLO" => req.seq = 1)
      /\ (SessionOf(req) = ctrl.session => req.seq <= ctrl.seq)
  BY DEF LinkInv, RequestsInv
<1>2. node.jobs \in Nat /\ node.highest \in Nat
  BY DEF LinkInv, NodeInv
<1>3. used \subseteq Sessions
  BY DEF LinkInv, ControllerInv
<1>4. CASE node' = node
  BY <1>4 DEF OrderInv
<1>5. CASE /\ req.type = "HELLO"
           /\ node'.session = req.arg /\ node'.highest = 1 /\ node'.jobs = 0
  <2>1. req.arg \in used /\ req.arg # Zero
    BY <1>1, <1>3, <1>5, LinkAssumption DEF SessionOf
  <2> QED
    BY <1>1, <1>5, <2>1, LinkAssumption DEF OrderInv, SessionOf
<1>6. CASE /\ req.type # "HELLO" /\ req.session = node.session
           /\ node' = WorkerExecute(node, req).worker
  <2>1. node'.session = node.session /\ node'.highest = req.seq
        /\ node'.jobs \in {node.jobs, node.jobs + 1}
        /\ (node'.jobs # node.jobs => node.jobs < MaxSequence)
    BY <1>2, <1>6 DEF WorkerExecute, Outcome, LinkInv, NodeInv
  <2>2. node.session \in used /\ node.session # Zero
    BY <1>1, <1>3, <1>6, LinkAssumption DEF SessionOf
  <2> QED
    BY <1>1, <1>2, <1>6, <2>1, <2>2, LinkAssumption DEF OrderInv, SessionOf
<1> DEFINE out == WorkerProcess(node, req)
<1>7. node' = out.worker
  OBVIOUS
<1> HIDE DEF out
<1>8. ASSUME NEW p, out = Outcome(node, p) PROVE OrderInv'
  BY <1>4, <1>7, <1>8 DEF Outcome
<1>9. ASSUME req.type = "HELLO", NEW ack,
             out = Outcome([NewWorker EXCEPT !.session = req.arg, !.highest = 1,
                                             !.hello = ack], ack)
      PROVE  OrderInv'
  <2>1. node'.session = req.arg /\ node'.highest = 1 /\ node'.jobs = 0
    BY <1>7, <1>9 DEF Outcome, NewWorker
  <2> QED
    BY <1>5, <1>9, <2>1
<1>10. CASE /\ req.type # "HELLO" /\ req.session = node.session
            /\ out = WorkerExecute(node, req)
  BY <1>6, <1>7, <1>10
<1> QED
  BY <1>8, <1>9, <1>10, WorkerCases DEF out

LEMMA RestartOrder == LinkInv /\ OrderInv /\ NodeRestart => OrderInv'
  BY LinkAssumption DEF NodeRestart, OrderInv, NewWorker, LinkInv, ControllerInv

(* The worker's promises together: types, a node never ahead of its            *)
(* controller, and no job executed twice by dnl_worker_process.                *)
THEOREM WorkerAlwaysHolds == Spec => []WorkerHolds
<1>1. LinkInv /\ OrderInv /\ [Next]_vars => OrderInv'
  <2> SUFFICES ASSUME LinkInv, OrderInv, [Next]_vars PROVE OrderInv'
    OBVIOUS
  <2>1. CASE UNCHANGED vars
    BY <2>1 DEF vars, OrderInv
  <2> QED
    BY <2>1, HelloOrder, AskOrder, ControllerOrder, NodeOrder, RestartOrder DEF Next
<1>2. LinkInv /\ OrderInv => WorkerHolds
  BY LinkAssumption DEF LinkInv, OrderInv, ControllerInv, NodeInv, RanInv, WorkerHolds,
                        TypeOK, JobsAreDistinct
<1> QED
  BY <1>1, <1>2, InitOrder, LinkInvariant, PTL DEF Spec
=============================================================================
