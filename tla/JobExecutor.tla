---------------------------- MODULE JobExecutor ----------------------------
(***************************************************************************)
(* The service of the run queue that its clients rely on, with no threads, *)
(* locks or notifications: a submitted job is pending until the executor   *)
(* takes it, one job runs at a time, a job of the highest pending priority *)
(* goes first, and each job runs once.  The order is that of operator< of  *)
(* jobs (run_queue.cpp:28), and analyze() of the code view depends on it   *)
(* (codeview.cpp:65-72).  It is not the order that run_queue.h announces,  *)
(* where submit() adds a job "to the bottom of the queue" (line 97).       *)
(* run() and stop(), announced there too, do nothing.                      *)
(***************************************************************************)
EXTENDS Integers

CONSTANTS
  Jobs,      \* the jobs that may be submitted
  NoJob,     \* not a job
  Priority   \* an integer per job

VARIABLES
  pending,   \* submitted, not taken yet
  active,    \* the job that runs, NoJob when there is none
  finished   \* the jobs that have run

execVars == <<pending, active, finished>>

JInit == pending = {} /\ active = NoJob /\ finished = {}

(* A client, or the active job, hands over a job nobody submitted before. *)
Submit(j) ==
  /\ j \notin pending \cup finished \cup {active}
  /\ pending' = pending \cup {j}
  /\ UNCHANGED <<active, finished>>

(* The idle executor takes a pending job that no pending job outranks. *)
Begin(j) ==
  /\ active = NoJob
  /\ j \in pending
  /\ \A k \in pending : Priority[k] <= Priority[j]
  /\ active' = j
  /\ pending' = pending \ {j}
  /\ UNCHANGED finished

(* The job returns, or fails: either way it is not run again. *)
Finish ==
  /\ active \in Jobs
  /\ finished' = finished \cup {active}
  /\ active' = NoJob
  /\ UNCHANGED pending

JNext == Finish \/ \E j \in Jobs : Submit(j) \/ Begin(j)

JSpec == JInit /\ [][JNext]_execVars
=============================================================================
