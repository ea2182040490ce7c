--------------------------- MODULE RunQueueMonitor ---------------------------
(***************************************************************************)
(* The run queue together with the label that tells what it does           *)
(* (qt/runqueuemonitor.cpp).  A timer on the GUI thread asks the queue,    *)
(* which answers without its mutex while the worker goes on: the reads of  *)
(* m_taskRunning, of m_currentTask and of the name behind it are steps of  *)
(* their own.  A job lives as long as the queue, the worker or             *)
(* m_currentTask hold it.                                                  *)
(***************************************************************************)
EXTENDS RunQueue

VARIABLES
  running,   \* m_running of the monitor
  label,     \* the job that the label names; NoJob: idle, or an empty name
  mpc,       \* where timeout() is
  named,     \* the job whose name currentTaskName() returned a reference to
  freed      \* history: that job was gone when the name was copied

monitor == <<running, label, mpc, named, freed>>

(* setRuntimeModel() *)
MonitorInit ==
  /\ Init
  /\ running = FALSE
  /\ label = NoJob
  /\ mpc = "idle"
  /\ named = NoJob
  /\ freed = FALSE

(* isRunning(): nothing is done while the answer stays the same. *)
Timeout ==
  /\ mpc = "idle"
  /\ taskRunning # running
  /\ IF taskRunning
     THEN mpc' = "name" /\ UNCHANGED <<running, label>>
     ELSE running' = FALSE /\ label' = NoJob /\ UNCHANGED mpc
  /\ UNCHANGED <<named, freed>>

(* currentTaskName(): a name, or the empty string if no job runs any more. *)
TaskName ==
  /\ mpc = "name"
  /\ IF taskRunning
     THEN mpc' = "copy" /\ named' = currentTask /\ UNCHANGED <<running, label>>
     ELSE mpc' = "idle" /\ running' = TRUE /\ label' = NoJob /\ UNCHANGED named
  /\ UNCHANGED freed

Lives(j) == j = currentTask \/ j = nextjob \/ j \in jobs

(* The name is copied into the label. *)
CopyName ==
  /\ mpc = "copy"
  /\ freed' = (freed \/ ~Lives(named))
  /\ label' = named
  /\ running' = TRUE
  /\ named' = NoJob
  /\ mpc' = "idle"

(* The queue exists while the monitor asks it. *)
MonitorStep ==
  /\ dpc = "idle"
  /\ Timeout \/ TaskName \/ CopyName
  /\ UNCHANGED vars

MonitoredNext ==
  \/ Next /\ UNCHANGED monitor
  \/ MonitorStep

MonitoredSpec ==
  MonitorInit /\ [][MonitoredNext]_<<vars, monitor>> /\ Fairness

-----------------------------------------------------------------------------
(* Properties the monitor does not have. *)

(* The name that is copied belongs to a job that lives (run_queue.cpp:191). *)
NameLives == ~freed

(* The label, when the monitor agrees with the queue that a job runs, names *)
(* the job that runs (runqueuemonitor.cpp:38): jobs that follow each other  *)
(* between two timeouts keep the name of the first.                         *)
LabelTold == mpc = "idle" /\ running /\ pc = "exec" => label = currentTask
=============================================================================
