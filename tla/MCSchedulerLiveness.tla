-------------------------- MODULE MCSchedulerLiveness --------------------------
(***************************************************************************)
(* Two families of behaviours of a small fleet, under the fairness of      *)
(* Scheduler.  In "loops" nobody drives a run of its own and everything    *)
(* else happens freely.  In "reader" the process that drives the run stops *)
(* and its reader goes on ticking, while the other process is up.          *)
(***************************************************************************)
EXTENDS Scheduler

VARIABLE family

familyVars == <<schedulerVars, family>>

Undriven == \A i \in Instances : driven'[i] = 0

\* The processes with a reader start the runs.  They stop, once, and never crash;
\* the others are up before them, stay up, and tick only while no reader's process
\* runs its loop.
TakesOver ==
    /\ \A r \in Runs : run[r] = "absent" /\ run'[r] # "absent" =>
          \E i \in Readers : driven'[i] = r
    /\ \A i \in Readers :
          /\ life'[i] = "down" => life[i] \in {"down", "stopped"}
          /\ life[i] = "down" /\ life'[i] = "running" => row.token = 0
    /\ \A i \in Instances \ Readers :
          /\ life'[i] \in {"down", "running"}
          /\ life'[i] = "down" => life[i] = "down" /\ \A j \in Readers : life'[j] = "down"
    /\ \A t \in Threads :
          t[1] \notin Readers /\ stage'[t] # "idle" => \A i \in Readers : life'[i] # "running"

FamilyNext ==
    /\ SchedulerNext
    /\ family = "loops" => Undriven
    /\ family = "reader" => TakesOver
    /\ UNCHANGED family

FamilySpec ==
    /\ SchedulerInit /\ family \in {"loops", "reader"}
    /\ [][FamilyNext]_familyVars
    /\ SchedulerFairness

=============================================================================
