---------------------------- MODULE MCScheduler ------------------------------
(* Runs of Scheduler from the state its callers reach before scheduler_start(): *)
(* every task bound and prepared, priorities chosen, and set-up over.           *)
EXTENDS Scheduler

PreparedInit ==
    /\ state = [i \in Task |-> "READY"]
    /\ priority \in [Task -> Priority]
    /\ wait = [i \in Task |-> {}]
    /\ deadline = [i \in Task |-> 0]
    /\ deadlineActive = [i \in Task |-> FALSE]
    /\ r0 = [i \in Task |-> {}]
    /\ bound = [i \in Task |-> TRUE]
    /\ current = NoTask
    /\ active = FALSE
    /\ completed = 0
    /\ target = 0
    /\ runResult = FALSE
    /\ preempt = FALSE
    /\ pending = {}
    /\ now = 0
    /\ pendsv = FALSE
    /\ eventReg = FALSE
    /\ host = "idle"
    /\ irq = "none"
    /\ sel = NoTask
    /\ remaining = [i \in Task |-> 0]
    /\ fault = FALSE
    /\ runEvents = {}

RunNext ==
    \/ \E m \in BOOLEAN : completed = 0 /\ ~fault /\ StartMode(m)
    \/ HostLoop \/ WfeSpurious \/ TaskStep \/ PendSV \/ PendSVFault \/ Handler

RunFairSpec == PreparedInit /\ [][RunNext]_vars /\ Fairness
==============================================================================
