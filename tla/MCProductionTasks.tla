------------------------ MODULE MCProductionTasks ------------------------
(* A registry with one method of each kind that the console tells apart: a    *)
(* plain answer, schedtimed and wdogtrip.  The names of the last two are one   *)
(* and two times the only letter the serial host sends.                        *)
EXTENDS ProductionTasks

MCMethods ==
    <<"h">> :> [class |-> "SAFE", min |-> 0, max |-> 1, blocks |-> FALSE]
        @@ <<"t">> :> [class |-> "SAFE", min |-> 0, max |-> 0, blocks |-> TRUE]
        @@ <<"t", "t">> :> [class |-> "DESTRUCTIVE", min |-> 0, max |-> 0, blocks |-> FALSE]
===========================================================================
