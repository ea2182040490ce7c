------------------------------ MODULE RunQueue ------------------------------
(***************************************************************************)
(* The run queue of the workspace (src/client/run_queue.cpp): one worker   *)
(* thread that executes jobs in priority order, the mutex m_jobFifoMutex   *)
(* and the condition variable m_runQueueWaitCondition it sleeps on.        *)
(*                                                                         *)
(* Threads submit jobs from outside (the GUI thread) and the worker        *)
(* submits the jobs its running job asks for (the flow analysis of a       *)
(* branch target).  Every lock, unlock, wait and unlocked access of the    *)
(* code is a step of its own, so that all interleavings the memory the two *)
(* threads share can see are explored.                                     *)
(***************************************************************************)
EXTENDS Integers

CONSTANTS
  Jobs,       \* the sp_RunQueueJob objects of the run; each is submitted once
  NoJob,      \* the null sp_RunQueueJob
  Clients,    \* threads other than the worker that call submit()
  Worker,     \* the thread startThread() creates
  Destructor, \* the thread that runs ~RunQueueControl()
  Free,       \* the owner of m_jobFifoMutex when nobody holds it
  Priority,   \* getPriority() of each job
  Parent      \* the job whose exec() submits the job, NoJob: a client does

Threads == Clients \cup {Worker}

ASSUME RunQueueAssumption ==
  /\ NoJob \notin Jobs
  /\ Worker \notin Clients
  /\ Free \notin Threads
  /\ Destructor \notin Threads \cup {Free}
  /\ Priority \in [Jobs -> Int]
  /\ Parent \in [Jobs -> Jobs \cup {NoJob}]

VARIABLES
  lock,         \* owner of m_jobFifoMutex
  jobs,         \* m_jobs: the priority queue, as the set of its elements
  currentTask,  \* m_currentTask
  taskRunning,  \* m_taskRunning
  done,         \* m_done
  pc,           \* where the worker is in operator()()
  nextjob,      \* the worker's local nextjob
  waiting,      \* the worker sleeps in wait() and was not notified
  spc,          \* where each thread is in submit()
  sjob,         \* the argument of each thread's submit()
  dpc,          \* where the destructor is
  execs,        \* history: how often exec() of each job has ended
  ahead         \* history: the jobs that must end before a job may begin

workerVars == <<currentTask, taskRunning, pc, nextjob>>
submitVars == <<spc, sjob>>
history    == <<execs, ahead>>
vars == <<lock, jobs, done, waiting, dpc, workerVars, submitVars, history>>

-----------------------------------------------------------------------------
(* The life of a job. *)

Ended(j)    == execs[j] > 0
Held        == {j \in Jobs : j = nextjob /\ pc # "clear"}  \* popped, not ended
Submitted   == {j \in Jobs : j \in jobs \/ j \in Held \/ Ended(j)}

(* operator< on jobs: a is popped before b. *)
Before(a, b) == Priority[a] > Priority[b]

(* Mutant: operator< compares the other way round. *)
IsBottom(j) == /\ j \in jobs
               /\ \A k \in jobs : ~Before(j, k)

(* m_jobs.top(): a job no queued job goes before.  Which one of several of *)
(* the same priority is up to the heap.                                    *)
IsTop(j) == /\ j \in jobs
            /\ \A k \in jobs : ~Before(k, j)

-----------------------------------------------------------------------------
Init ==
  /\ lock = Free
  /\ jobs = {}
  /\ currentTask = NoJob
  /\ taskRunning = FALSE
  /\ done = FALSE
  /\ pc = "check"
  /\ nextjob = NoJob
  /\ waiting = FALSE
  /\ spc = [t \in Threads |-> "idle"]
  /\ sjob = [t \in Threads |-> NoJob]
  /\ dpc = "idle"
  /\ execs = [j \in Jobs |-> 0]
  /\ ahead = [j \in Jobs |-> {}]

-----------------------------------------------------------------------------
(* The worker thread, RunQueueControl::operator()(). *)

(* while (!m_done): the flag is read without the mutex. *)
CheckDone ==
  /\ pc = "check"
  /\ pc' = IF done THEN "exited" ELSE "lock"
  /\ UNCHANGED <<lock, jobs, done, waiting, dpc, currentTask, taskRunning,
                 nextjob, submitVars, history>>

LockFifo ==
  /\ pc = "lock"
  /\ lock = Free
  /\ lock' = Worker
  /\ pc' = "fetch"
  /\ UNCHANGED <<jobs, done, waiting, dpc, currentTask, taskRunning, nextjob,
                 submitVars, history>>

(* Mutant: top() without pop(). *)
KeptBy(j) == jobs

(* m_jobs.pop() *)
PoppedBy(j) == jobs \ {j}

(* if (!m_jobs.empty()) { nextjob = m_jobs.top(); m_jobs.pop(); } *)
Fetch ==
  /\ pc = "fetch"
  /\ pc' = "test"
  /\ \/ /\ jobs = {}
        /\ UNCHANGED <<jobs, nextjob>>
     \/ \E j \in Jobs : /\ IsTop(j)
                        /\ nextjob' = j
                        /\ jobs' = PoppedBy(j)
  /\ UNCHANGED <<lock, done, waiting, dpc, currentTask, taskRunning,
                 submitVars, history>>

(* Mutant: m_done is not read again under the mutex. *)
WaitsIfEmpty == nextjob = NoJob

(* !nextjob && !m_done *)
MustWait == nextjob = NoJob /\ ~done

(* if (!nextjob && !m_done) wait(lock), which releases the mutex and goes  *)
(* to sleep in one step; otherwise fall out of the scope of the lock.      *)
WaitOrGo ==
  /\ pc = "test"
  /\ IF MustWait
     THEN /\ pc' = "waiting"
          /\ waiting' = TRUE
          /\ lock' = Free
     ELSE /\ pc' = "unlock"
          /\ UNCHANGED <<waiting, lock>>
  /\ UNCHANGED <<jobs, done, dpc, currentTask, taskRunning, nextjob,
                 submitVars, history>>

(* wait() may return without a notification. *)
SpuriousWakeup ==
  /\ pc = "waiting"
  /\ waiting
  /\ waiting' = FALSE
  /\ UNCHANGED <<lock, jobs, done, dpc, workerVars, submitVars, history>>

(* wait() returns with the mutex held again; the loop does not look at the *)
(* queue before it has released the mutex and read m_done.                 *)
WakeUp ==
  /\ pc = "waiting"
  /\ ~waiting
  /\ lock = Free
  /\ lock' = Worker
  /\ pc' = "unlock"
  /\ UNCHANGED <<jobs, done, waiting, dpc, currentTask, taskRunning, nextjob,
                 submitVars, history>>

(* Mutant: the job is run without the test of if (nextjob). *)
AlwaysRun == "setcurrent"

(* while the worker holds no job it starts over *)
RunIfFetched == IF nextjob = NoJob THEN "check" ELSE "setcurrent"

UnlockFifo ==
  /\ pc = "unlock"
  /\ lock' = Free
  /\ pc' = RunIfFetched
  /\ UNCHANGED <<jobs, done, waiting, dpc, currentTask, taskRunning, nextjob,
                 submitVars, history>>

(* Mutant: the flag goes up before the pointer is set. *)
SetRunningFirst ==
  /\ pc = "setcurrent"
  /\ taskRunning' = TRUE
  /\ pc' = "setrunning"
  /\ UNCHANGED <<lock, jobs, done, waiting, dpc, currentTask, nextjob,
                 submitVars, history>>

SetCurrent ==
  /\ pc = "setcurrent"
  /\ currentTask' = nextjob
  /\ pc' = "setrunning"
  /\ UNCHANGED <<lock, jobs, done, waiting, dpc, taskRunning, nextjob,
                 submitVars, history>>

SetRunning ==
  /\ pc = "setrunning"
  /\ taskRunning' = TRUE
  /\ pc' = "exec"
  /\ UNCHANGED <<lock, jobs, done, waiting, dpc, currentTask, nextjob,
                 submitVars, history>>

(* exec() returns, or throws one of the exceptions the loop catches: both  *)
(* go on with the statement after the try block.  A job that is inside     *)
(* submit() has not returned.                                              *)
EndExec ==
  /\ pc = "exec"
  /\ spc[Worker] = "idle"
  /\ execs' = [execs EXCEPT ![nextjob] = @ + 1]
  /\ pc' = "clear"
  /\ UNCHANGED <<lock, jobs, done, waiting, dpc, currentTask, taskRunning,
                 nextjob, submitVars, ahead>>

(* m_taskRunning = false, and nextjob goes out of scope. *)
ClearRunning ==
  /\ pc = "clear"
  /\ taskRunning' = FALSE
  /\ nextjob' = NoJob
  /\ pc' = "check"
  /\ UNCHANGED <<lock, jobs, done, waiting, dpc, currentTask, submitVars,
                 history>>

WorkerStep ==
  \/ CheckDone \/ LockFifo \/ Fetch \/ WaitOrGo \/ WakeUp \/ UnlockFifo
  \/ SetCurrent \/ SetRunning \/ EndExec \/ ClearRunning

-----------------------------------------------------------------------------
(* RunQueueControl::submit(), called by thread t. *)

(* A job is new when no thread has handed it to submit() yet. *)
New(j) == /\ j \notin Submitted
          /\ \A t \in Threads : sjob[t] # j

(* Whether t may submit j now: a client submits the jobs no job submits    *)
(* while the queue exists, the worker those of the job it executes.        *)
MaySubmit(t, j) ==
  IF t = Worker
  THEN pc = "exec" /\ Parent[j] = nextjob
  ELSE dpc = "idle" /\ Parent[j] = NoJob

BeginSubmit(t) ==
  /\ spc[t] = "idle"
  /\ \E j \in Jobs : /\ New(j)
                     /\ MaySubmit(t, j)
                     /\ sjob' = [sjob EXCEPT ![t] = j]
  /\ spc' = [spc EXCEPT ![t] = "lock"]
  /\ UNCHANGED <<lock, jobs, done, waiting, dpc, workerVars, history>>

SubmitLock(t) ==
  /\ spc[t] = "lock"
  /\ lock = Free
  /\ lock' = t
  /\ spc' = [spc EXCEPT ![t] = "push"]
  /\ UNCHANGED <<jobs, done, waiting, dpc, workerVars, sjob, history>>

(* What the new job j must wait for: the submitted jobs that go before it  *)
(* and have not ended.  A job k that waits for j's parent waits for j as   *)
(* well, when j goes before k.                                             *)
Precede(j) ==
  [k \in Jobs |->
     IF k = j
     THEN {i \in Submitted : Before(i, j) /\ ~Ended(i)}
     ELSE IF Parent[j] \in ahead[k] /\ Before(j, k)
          THEN ahead[k] \cup {j}
          ELSE ahead[k]]

(* Mutant: the new job replaces the queue. *)
PushedOver(j) == {j}

(* m_jobs.push(job) *)
PushedOn(j) == jobs \cup {j}

SubmitPush(t) ==
  /\ spc[t] = "push"
  /\ jobs' = PushedOn(sjob[t])
  /\ ahead' = Precede(sjob[t])
  /\ spc' = [spc EXCEPT ![t] = "notify"]
  /\ UNCHANGED <<lock, done, waiting, dpc, workerVars, sjob, execs>>

(* Mutant: submit() does not notify. *)
SubmitNoNotify(t) ==
  /\ spc[t] = "notify"
  /\ spc' = [spc EXCEPT ![t] = "unlock"]
  /\ UNCHANGED <<lock, jobs, done, waiting, dpc, workerVars, sjob, history>>

(* m_runQueueWaitCondition.notify_all() *)
SubmitNotify(t) ==
  /\ spc[t] = "notify"
  /\ waiting' = FALSE
  /\ spc' = [spc EXCEPT ![t] = "unlock"]
  /\ UNCHANGED <<lock, jobs, done, dpc, workerVars, sjob, history>>

SubmitUnlock(t) ==
  /\ spc[t] = "unlock"
  /\ lock' = Free
  /\ spc' = [spc EXCEPT ![t] = "idle"]
  /\ sjob' = [sjob EXCEPT ![t] = NoJob]
  /\ UNCHANGED <<jobs, done, waiting, dpc, workerVars, history>>

InSubmit(t) ==
  SubmitLock(t) \/ SubmitPush(t) \/ SubmitNotify(t) \/ SubmitUnlock(t)

-----------------------------------------------------------------------------
(* RunQueueControl::~RunQueueControl(), called when no client is inside    *)
(* submit(): m_done is set under the mutex, the notification follows       *)
(* outside of it, and nobody joins the worker.                             *)

DestroyLock ==
  /\ dpc = "idle"
  /\ \A t \in Clients : spc[t] = "idle"
  /\ lock = Free
  /\ lock' = Destructor
  /\ dpc' = "setdone"
  /\ UNCHANGED <<jobs, done, waiting, workerVars, submitVars, history>>

DestroySetDone ==
  /\ dpc = "setdone"
  /\ done' = TRUE
  /\ dpc' = "unlock"
  /\ UNCHANGED <<lock, jobs, waiting, workerVars, submitVars, history>>

DestroyUnlock ==
  /\ dpc = "unlock"
  /\ lock' = Free
  /\ dpc' = "notify"
  /\ UNCHANGED <<jobs, done, waiting, workerVars, submitVars, history>>

(* Mutant: the destructor does not notify. *)
DestroyNoNotify ==
  /\ dpc = "notify"
  /\ dpc' = "gone"
  /\ UNCHANGED <<lock, jobs, done, waiting, workerVars, submitVars, history>>

DestroyNotify ==
  /\ dpc = "notify"
  /\ waiting' = FALSE
  /\ dpc' = "gone"
  /\ UNCHANGED <<lock, jobs, done, workerVars, submitVars, history>>

InDestructor == DestroySetDone \/ DestroyUnlock \/ DestroyNotify

-----------------------------------------------------------------------------
Next ==
  \/ WorkerStep
  \/ SpuriousWakeup
  \/ \E t \in Threads : BeginSubmit(t) \/ InSubmit(t)
  \/ DestroyLock
  \/ InDestructor

Spec == Init /\ [][Next]_vars

(* Every thread that can run is scheduled, and jobs end.  Nothing obliges  *)
(* a client to submit, the destructor to run or wait() to return without a *)
(* notification.                                                           *)
Fairness ==
  /\ WF_vars(WorkerStep)
  /\ \A t \in Threads : WF_vars(InSubmit(t))
  /\ WF_vars(InDestructor)

FairSpec == Spec /\ Fairness

-----------------------------------------------------------------------------
(* Properties. *)

TypeOK ==
  /\ lock \in Threads \cup {Destructor, Free}
  /\ jobs \subseteq Jobs
  /\ currentTask \in Jobs \cup {NoJob}
  /\ taskRunning \in BOOLEAN
  /\ done \in BOOLEAN
  /\ pc \in {"check", "lock", "fetch", "test", "waiting", "unlock",
             "setcurrent", "setrunning", "exec", "clear", "exited"}
  /\ nextjob \in Jobs \cup {NoJob}
  /\ pc \in {"setcurrent", "setrunning", "exec", "clear"} => nextjob \in Jobs
  /\ waiting \in BOOLEAN
  /\ spc \in [Threads -> {"idle", "lock", "push", "notify", "unlock"}]
  /\ sjob \in [Threads -> Jobs \cup {NoJob}]
  /\ dpc \in {"idle", "setdone", "unlock", "notify", "gone"}
  /\ execs \in [Jobs -> Nat]
  /\ ahead \in [Jobs -> SUBSET Jobs]

(* No wakeup is lost: when the worker sleeps although a job is queued or   *)
(* m_done is set, a thread is still on its way to notify_all().            *)
NoLostWakeup ==
  waiting =>
    /\ jobs # {} => \E t \in Threads : spc[t] = "notify"
    /\ done => dpc \in {"unlock", "notify"}

(* exec() of a job is called at most once: a job is queued, or popped, or  *)
(* has ended, and never two of these at a time.                            *)
ExecutedOnce ==
  \A j \in Jobs :
    /\ execs[j] \in {0, 1}
    /\ j \in jobs => j \notin Held /\ ~Ended(j)
    /\ j \in Held => ~Ended(j)

(* What the GUI relies on when it submits a flow analysis and then a       *)
(* symbol analysis of lower priority (codeview.cpp:65-72): when a job is   *)
(* taken off the queue, every job of higher priority that was submitted    *)
(* before it has ended, and so has every job of higher priority that one   *)
(* of those submitted while it ran.                                        *)
DrainedBeforeBegin ==
  \A j \in Jobs : j \in Held \/ Ended(j) => \A k \in ahead[j] : Ended(k)

(* currentTaskName() dereferences m_currentTask after it has seen          *)
(* m_taskRunning: while the flag is up the pointer is set, and names the   *)
(* job the worker executes.                                                *)
RunningTaskIsCurrent ==
  taskRunning => currentTask \in Jobs /\ currentTask = nextjob

(* Every queued job is executed, unless the queue is destroyed. *)
QueuedJobRuns == \A j \in Jobs : j \in jobs ~> (Ended(j) \/ done)

(* The run queue implements the executor its clients rely on: one job at a *)
(* time, each once, by priority.  A job is active from the moment it is    *)
(* popped (run_queue.cpp:137) until exec() has ended.                      *)
Executor == INSTANCE JobExecutor WITH
              pending  <- jobs,
              active   <- IF pc = "clear" THEN NoJob ELSE nextjob,
              finished <- {j \in Jobs : Ended(j)}

ImplementsExecutor == Executor!JSpec

(* Once m_done is set the worker leaves its loop: it is never left asleep. *)
WorkerExits == done ~> (pc = "exited")
=============================================================================
