--------------------------- MODULE RunQueueProofs ---------------------------
(***************************************************************************)
(* Proofs about the run queue, for every set of jobs, every priority and   *)
(* every number of client threads.                                         *)
(*                                                                         *)
(* The inductive invariant IInv is the conjunction of TypeOK and the named *)
(* parts below: who owns the mutex at which program counter (Mutex), what  *)
(* the worker knows of its job (WorkerJob), what a thread inside submit()  *)
(* holds (Submitting), and the safety properties of RunQueue with the two  *)
(* facts they need to be inductive.                                        *)
(***************************************************************************)
EXTENDS RunQueueMonitor, TLAPS

(* The mutex is owned by the thread whose program counter says so. *)
Mutex ==
  /\ pc \in {"fetch", "test", "unlock"} => lock = Worker
  /\ \A t \in Threads : spc[t] \in {"push", "notify", "unlock"} => lock = t
  /\ dpc \in {"setdone", "unlock"} => lock = Destructor

(* What nextjob, m_currentTask, m_taskRunning and m_done say at each point *)
(* of the loop.                                                            *)
WorkerJob ==
  /\ pc \in {"check", "lock", "fetch", "waiting", "exited"} => nextjob = NoJob
  /\ pc \in {"setrunning", "exec", "clear"} => currentTask = nextjob
  /\ taskRunning => pc \in {"exec", "clear"}
  /\ waiting => pc = "waiting"
  /\ pc = "clear" => Ended(nextjob)
  /\ spc[Worker] # "idle" => pc = "exec"
  /\ done => dpc \in {"unlock", "notify", "gone"}

(* A thread inside submit() holds a job of its own, which is not on the    *)
(* queue before the push.                                                  *)
Submitting ==
  /\ \A t \in Threads :
       /\ spc[t] = "idle" <=> sjob[t] = NoJob
       /\ spc[t] \in {"lock", "push"} => sjob[t] \notin Submitted
       /\ sjob[t] # NoJob =>
            Parent[sjob[t]] = IF t = Worker THEN nextjob ELSE NoJob
  /\ \A t, u \in Threads : sjob[t] = sjob[u] /\ t # u => sjob[t] = NoJob

(* When the worker found the queue empty it stays so until wait(). *)
EmptyBeforeWait == pc = "test" /\ nextjob = NoJob => jobs = {}

(* Only submitted jobs wait and are waited for, by priority. *)
AheadSubmitted ==
  \A j \in Jobs : \A k \in ahead[j] :
     j \in Submitted /\ k \in Submitted /\ Before(k, j)

IInv ==
  /\ TypeOK /\ Mutex /\ WorkerJob /\ Submitting
  /\ ExecutedOnce /\ EmptyBeforeWait /\ NoLostWakeup
  /\ AheadSubmitted /\ DrainedBeforeBegin

(* The assumptions on the thread names, as the proofs use them. *)
LEMMA ThreadNames ==
  /\ Worker \in Threads
  /\ Free \notin Threads
  /\ Destructor \notin Threads
  /\ Destructor # Free
  /\ NoJob \notin Jobs
  /\ Clients = Threads \ {Worker}
BY RunQueueAssumption DEF Threads

(* Every step keeps the types. *)
LEMMA TypeStep ==
  TypeOK /\ WorkerJob /\ Submitting /\ [Next]_vars => TypeOK'
<1> SUFFICES ASSUME TypeOK, WorkerJob, Submitting, [Next]_vars
             PROVE  TypeOK'
  OBVIOUS
<1> USE ThreadNames DEF TypeOK
<1>1. CASE WorkerStep
  <2> USE DEF submitVars, history
  <2>1. CASE CheckDone \/ LockFifo \/ WaitOrGo \/ WakeUp
    BY <2>1 DEF CheckDone, LockFifo, WaitOrGo, WakeUp
  <2>2. CASE Fetch
    BY <2>2 DEF Fetch, PoppedBy, IsTop
  <2>3. CASE UnlockFifo
    BY <2>3 DEF UnlockFifo, RunIfFetched
  <2>4. CASE SetCurrent \/ SetRunning
    BY <2>4 DEF SetCurrent, SetRunning
  <2>5. CASE EndExec
    BY <2>5 DEF EndExec
  <2>6. CASE ClearRunning
    BY <2>6 DEF ClearRunning
  <2>7. QED
    BY <1>1, <2>1, <2>2, <2>3, <2>4, <2>5, <2>6 DEF WorkerStep
<1>2. ASSUME NEW t \in Threads, BeginSubmit(t)
      PROVE  TypeOK'
  BY <1>2 DEF BeginSubmit, workerVars, history
<1>3. ASSUME NEW t \in Threads, InSubmit(t)
      PROVE  TypeOK'
  <2> USE DEF workerVars, history
  <2>1. CASE SubmitLock(t)
    BY <2>1 DEF SubmitLock
  <2>2. CASE SubmitPush(t)
    <3>1. sjob[t] \in Jobs
      BY <2>2 DEF SubmitPush, Submitting
    <3>2. Precede(sjob[t]) \in [Jobs -> SUBSET Jobs]
      BY <3>1 DEF Precede, Submitted
    <3>3. QED
      BY <2>2, <3>1, <3>2 DEF SubmitPush, PushedOn
  <2>3. CASE SubmitNotify(t)
    BY <2>3, ZenonT(60) DEF SubmitNotify
  <2>4. CASE SubmitUnlock(t)
    BY <2>4 DEF SubmitUnlock
  <2>5. QED
    BY <1>3, <2>1, <2>2, <2>3, <2>4 DEF InSubmit
<1>4. CASE SpuriousWakeup \/ DestroyLock \/ InDestructor
  BY <1>4, ZenonT(60) DEF SpuriousWakeup, DestroyLock, InDestructor, DestroySetDone,
     DestroyUnlock, DestroyNotify, workerVars, submitVars, history
<1>5. CASE UNCHANGED vars
  BY <1>5 DEF vars, workerVars, submitVars, history
<1>6. QED
  BY <1>1, <1>2, <1>3, <1>4, <1>5 DEF Next

(* Every step keeps the ownership of the mutex. *)
LEMMA MutexStep == TypeOK /\ Mutex /\ WorkerJob /\ [Next]_vars => Mutex'
<1> SUFFICES ASSUME TypeOK, Mutex, WorkerJob, [Next]_vars
             PROVE  Mutex'
  OBVIOUS
<1> USE ThreadNames DEF TypeOK, Mutex
<1>1. CASE WorkerStep
  <2> USE DEF submitVars, history
  <2>1. CASE CheckDone \/ LockFifo \/ Fetch \/ WakeUp
    BY <2>1 DEF CheckDone, LockFifo, Fetch, WakeUp
  <2>2. CASE WaitOrGo \/ UnlockFifo
    <3>1. \A t \in Threads : spc[t] \notin {"push", "notify", "unlock"}
      BY <2>2 DEF WaitOrGo, UnlockFifo, WorkerJob
    <3>2. QED
      BY <2>2, <3>1 DEF WaitOrGo, UnlockFifo, RunIfFetched
  <2>3. CASE SetCurrent \/ SetRunning \/ EndExec \/ ClearRunning
    BY <2>3 DEF SetCurrent, SetRunning, EndExec, ClearRunning
  <2>4. QED
    BY <1>1, <2>1, <2>2, <2>3 DEF WorkerStep
<1>2. ASSUME NEW t \in Threads, BeginSubmit(t)
      PROVE  Mutex'
  BY <1>2 DEF BeginSubmit, workerVars, history
<1>3. ASSUME NEW t \in Threads, InSubmit(t)
      PROVE  Mutex'
  <2> USE DEF workerVars, history
  <2>1. CASE SubmitLock(t) \/ SubmitPush(t) \/ SubmitNotify(t)
    BY <2>1 DEF SubmitLock, SubmitPush, SubmitNotify
  <2>2. CASE SubmitUnlock(t)
    <3>1. lock = t
      BY <2>2 DEF SubmitUnlock
    <3>2. pc \notin {"fetch", "test", "unlock"}
      BY <2>2, <3>1 DEF SubmitUnlock, WorkerJob
    <3>3. \A u \in Threads \ {t} : spc[u] \notin {"push", "notify", "unlock"}
      BY <3>1
    <3>4. QED
      BY <2>2, <3>1, <3>2, <3>3 DEF SubmitUnlock
  <2>3. QED
    BY <1>3, <2>1, <2>2 DEF InSubmit
<1>4. CASE SpuriousWakeup \/ DestroyLock \/ InDestructor
  BY <1>4 DEF SpuriousWakeup, DestroyLock, InDestructor, DestroySetDone,
     DestroyUnlock, DestroyNotify, workerVars, submitVars, history
<1>5. CASE UNCHANGED vars
  BY <1>5 DEF vars, workerVars, submitVars, history
<1>6. QED
  BY <1>1, <1>2, <1>3, <1>4, <1>5 DEF Next

(* Every step keeps what the worker knows of its job. *)
LEMMA WorkerJobStep ==
  TypeOK /\ WorkerJob /\ [Next]_vars => WorkerJob'
<1> SUFFICES ASSUME TypeOK, WorkerJob, [Next]_vars
             PROVE  WorkerJob'
  OBVIOUS
<1> USE ThreadNames DEF TypeOK, WorkerJob, Ended
<1>1. CASE WorkerStep
  <2> USE DEF submitVars, history
  <2>1. CASE CheckDone \/ LockFifo \/ Fetch \/ WakeUp
    BY <2>1 DEF CheckDone, LockFifo, Fetch, WakeUp
  <2>2. CASE WaitOrGo \/ UnlockFifo
    BY <2>2 DEF WaitOrGo, MustWait, UnlockFifo, RunIfFetched
  <2>3. CASE SetCurrent \/ SetRunning \/ ClearRunning
    BY <2>3 DEF SetCurrent, SetRunning, ClearRunning
  <2>4. CASE EndExec
    BY <2>4 DEF EndExec
  <2>5. QED
    BY <1>1, <2>1, <2>2, <2>3, <2>4 DEF WorkerStep
<1>2. ASSUME NEW t \in Threads, BeginSubmit(t)
      PROVE  WorkerJob'
  BY <1>2 DEF BeginSubmit, MaySubmit, workerVars, history
<1>3. ASSUME NEW t \in Threads, InSubmit(t)
      PROVE  WorkerJob'
  BY <1>3 DEF InSubmit, SubmitLock, SubmitPush, SubmitNotify, SubmitUnlock,
     workerVars, history
<1>4. CASE SpuriousWakeup \/ DestroyLock \/ InDestructor
  BY <1>4 DEF SpuriousWakeup, DestroyLock, InDestructor, DestroySetDone,
     DestroyUnlock, DestroyNotify, workerVars, submitVars, history
<1>5. CASE UNCHANGED vars
  BY <1>5 DEF vars, workerVars, submitVars, history
<1>6. QED
  BY <1>1, <1>2, <1>3, <1>4, <1>5 DEF Next


-----------------------------------------------------------------------------
(* Only three kinds of step move a job: Fetch takes it off the queue,      *)
(* EndExec ends it, SubmitPush puts it on the queue.                       *)
Quiet == UNCHANGED <<jobs, execs, ahead, Held, Submitted>>

LEMMA JobMoves ==
  TypeOK /\ WorkerJob /\ [Next]_vars =>
    Quiet \/ Fetch \/ EndExec \/ \E t \in Threads : SubmitPush(t)
<1> SUFFICES ASSUME TypeOK, WorkerJob, [Next]_vars,
                    ~Fetch, ~EndExec, \A t \in Threads : ~SubmitPush(t)
             PROVE  UNCHANGED <<jobs, execs, ahead>> /\ UNCHANGED Held
  BY DEF Quiet, Submitted, Ended
<1> USE ThreadNames DEF Held
<1>1. CASE WorkerStep
  <2>1. CASE CheckDone \/ LockFifo \/ WaitOrGo \/ WakeUp \/ UnlockFifo
    BY <2>1 DEF CheckDone, LockFifo, WaitOrGo, WakeUp, UnlockFifo,
       RunIfFetched, history
  <2>2. CASE SetCurrent \/ SetRunning \/ ClearRunning
    BY <2>2 DEF SetCurrent, SetRunning, ClearRunning, history
  <2>3. QED
    BY <1>1, <2>1, <2>2 DEF WorkerStep
<1>2. ASSUME NEW t \in Threads, BeginSubmit(t) \/ InSubmit(t)
      PROVE  UNCHANGED <<jobs, execs, ahead>> /\ UNCHANGED Held
  BY <1>2 DEF BeginSubmit, InSubmit, SubmitLock, SubmitNotify, SubmitUnlock,
     workerVars, history
<1>3. CASE SpuriousWakeup \/ DestroyLock \/ InDestructor
  BY <1>3 DEF SpuriousWakeup, DestroyLock, InDestructor, DestroySetDone,
     DestroyUnlock, DestroyNotify, workerVars, history
<1>4. CASE UNCHANGED vars
  BY <1>4 DEF vars, workerVars, history
<1>5. QED
  BY <1>1, <1>2, <1>3, <1>4 DEF Next

(* What those three steps do to the sets of submitted and held jobs. *)
LEMMA FetchMoves ==
  ASSUME TypeOK, WorkerJob, Fetch
  PROVE  /\ Submitted' = Submitted /\ Held = {} /\ UNCHANGED <<execs, ahead>>
         /\ \/ UNCHANGED <<jobs, Held>>
            \/ \E j \in Jobs : /\ IsTop(j) /\ nextjob' = j
                               /\ jobs' = jobs \ {j} /\ Held' = {j}
<1> USE ThreadNames DEF TypeOK, WorkerJob, Fetch, PoppedBy, history, Held
<1>1. Held = {} /\ UNCHANGED <<execs, ahead>> /\ nextjob = NoJob
  OBVIOUS
<1>2. CASE UNCHANGED <<jobs, nextjob>>
  BY <1>1, <1>2 DEF Submitted, Ended
<1>3. CASE \E j \in Jobs : IsTop(j) /\ nextjob' = j /\ jobs' = jobs \ {j}
  BY <1>1, <1>3 DEF Submitted, Ended, IsTop
<1>4. QED
  BY <1>2, <1>3

LEMMA EndMoves ==
  ASSUME TypeOK, WorkerJob, EndExec
  PROVE  /\ nextjob \in Jobs /\ Held = {nextjob} /\ Held' = {}
         /\ execs' = [execs EXCEPT ![nextjob] = @ + 1]
         /\ Submitted' = Submitted /\ UNCHANGED <<jobs, ahead>>
<1> USE DEF TypeOK, WorkerJob, EndExec
<1>1. /\ nextjob \in Jobs /\ Held = {nextjob} /\ Held' = {}
      /\ execs' = [execs EXCEPT ![nextjob] = @ + 1] /\ UNCHANGED <<jobs, ahead>>
  BY DEF Held
<1>2. \A j \in Jobs : Ended(j)' <=> Ended(j) \/ j = nextjob
  BY <1>1 DEF Ended
<1>3. QED
  BY <1>1, <1>2 DEF Submitted

LEMMA PushMoves ==
  ASSUME TypeOK, Submitting, NEW t \in Threads, SubmitPush(t)
  PROVE  /\ sjob[t] \in Jobs \ Submitted
         /\ jobs' = jobs \cup {sjob[t]} /\ UNCHANGED <<execs, Held>>
         /\ Submitted' = Submitted \cup {sjob[t]}
         /\ ahead' = Precede(sjob[t])
<1>1. sjob[t] \in Jobs \ Submitted
  BY DEF TypeOK, Submitting, SubmitPush
<1>2. UNCHANGED <<execs, Held>> /\ jobs' = jobs \cup {sjob[t]}
      /\ ahead' = Precede(sjob[t])
  BY DEF SubmitPush, PushedOn, Held, workerVars
<1>3. QED
  BY <1>1, <1>2 DEF Submitted, Ended

-----------------------------------------------------------------------------
(* Every step keeps the jobs of submitting threads their own. *)
LEMMA SubmittingStep ==
  TypeOK /\ WorkerJob /\ Submitting /\ [Next]_vars => Submitting'
<1> SUFFICES ASSUME TypeOK, WorkerJob, Submitting, [Next]_vars
             PROVE  Submitting'
  OBVIOUS
<1> USE ThreadNames
<1>1. CASE WorkerStep
  <2>1. UNCHANGED submitVars /\ Submitted' = Submitted
    <3>1. UNCHANGED submitVars
      BY <1>1 DEF WorkerStep, CheckDone, LockFifo, Fetch, WaitOrGo, WakeUp,
         UnlockFifo, SetCurrent, SetRunning, EndExec, ClearRunning
    <3>2. \A t \in Threads : ~SubmitPush(t)
      BY <3>1 DEF TypeOK, SubmitPush, submitVars
    <3>3. QED
      BY <3>1, <3>2, JobMoves, FetchMoves, EndMoves DEF Quiet
  <2>2. nextjob' = nextjob \/ spc[Worker] = "idle"
    BY <1>1 DEF WorkerStep, CheckDone, LockFifo, Fetch, WaitOrGo, WakeUp,
       UnlockFifo, SetCurrent, SetRunning, EndExec, ClearRunning, WorkerJob
  <2>3. QED
    BY <2>1, <2>2 DEF Submitting, submitVars
<1>2. ASSUME NEW t \in Threads, BeginSubmit(t)
      PROVE  Submitting'
  <2>1. PICK j \in Jobs : New(j) /\ MaySubmit(t, j)
                          /\ sjob' = [sjob EXCEPT ![t] = j]
    BY <1>2 DEF BeginSubmit
  <2>2. spc' = [spc EXCEPT ![t] = "lock"] /\ UNCHANGED <<nextjob, Submitted>>
    BY <1>2 DEF BeginSubmit, workerVars, history, Submitted, Held, Ended
  <2>3. Parent[j] = IF t = Worker THEN nextjob ELSE NoJob
    BY <2>1 DEF MaySubmit
  <2>4. QED
    BY <2>1, <2>2, <2>3 DEF Submitting, New, TypeOK
<1>3. ASSUME NEW t \in Threads, SubmitPush(t)
      PROVE  Submitting'
  <2>1. /\ spc[t] = "push" /\ spc' = [spc EXCEPT ![t] = "notify"]
        /\ UNCHANGED <<nextjob, sjob>>
    BY <1>3 DEF SubmitPush, workerVars
  <2>2. Submitted' = Submitted \cup {sjob[t]}
    BY <1>3, PushMoves
  <2>3. QED
    BY <2>1, <2>2 DEF Submitting, TypeOK
<1>4. ASSUME NEW t \in Threads, SubmitLock(t) \/ SubmitNotify(t) \/ SubmitUnlock(t)
      PROVE  Submitting'
  <2>1. UNCHANGED <<nextjob, Submitted>>
    BY <1>4 DEF SubmitLock, SubmitNotify, SubmitUnlock, workerVars, history,
       Submitted, Held, Ended
  <2>2. CASE SubmitLock(t) \/ SubmitNotify(t)
    BY <2>1, <2>2 DEF SubmitLock, SubmitNotify, Submitting, TypeOK
  <2>3. CASE SubmitUnlock(t)
    BY <2>1, <2>3 DEF SubmitUnlock, Submitting, TypeOK
  <2>4. QED
    BY <1>4, <2>2, <2>3
<1>5. CASE SpuriousWakeup \/ DestroyLock \/ InDestructor \/ UNCHANGED vars
  <2>1. UNCHANGED <<spc, sjob, nextjob, Submitted>>
    BY <1>5 DEF SpuriousWakeup, DestroyLock, InDestructor, DestroySetDone,
       DestroyUnlock, DestroyNotify, vars, workerVars, submitVars, history,
       Submitted, Held, Ended
  <2>2. QED
    BY <2>1 DEF Submitting
<1>6. QED
  BY <1>1, <1>2, <1>3, <1>4, <1>5 DEF Next, InSubmit

(* Every step keeps a job queued, popped or ended, and one of these only.  *)
LEMMA OnceStep ==
  TypeOK /\ WorkerJob /\ Submitting /\ ExecutedOnce /\ [Next]_vars
    => ExecutedOnce'
<1> SUFFICES ASSUME TypeOK, WorkerJob, Submitting, ExecutedOnce, [Next]_vars
             PROVE  ExecutedOnce'
  OBVIOUS
<1> USE DEF ExecutedOnce, Ended
<1>1. CASE Quiet
  BY <1>1 DEF Quiet
<1>2. CASE Fetch
  BY <1>2, FetchMoves DEF IsTop
<1>3. CASE EndExec
  BY <1>3, EndMoves DEF TypeOK
<1>4. ASSUME NEW t \in Threads, SubmitPush(t)
      PROVE  ExecutedOnce'
  BY <1>4, PushMoves DEF Submitted
<1>5. QED
  BY <1>1, <1>2, <1>3, <1>4, JobMoves

(* Every step keeps the queue empty between the failed fetch and wait(),   *)
(* because the worker owns the mutex in between.                           *)
LEMMA EmptyStep ==
  TypeOK /\ Mutex /\ WorkerJob /\ EmptyBeforeWait /\ [Next]_vars
    => EmptyBeforeWait'
<1> SUFFICES ASSUME TypeOK, Mutex, WorkerJob, EmptyBeforeWait, [Next]_vars,
                    pc' = "test", nextjob' = NoJob
             PROVE  jobs' = {}
  BY DEF EmptyBeforeWait
<1> USE ThreadNames
<1>1. CASE Fetch
  BY <1>1 DEF Fetch
<1>2. CASE WorkerStep /\ ~Fetch
  BY <1>2 DEF WorkerStep, CheckDone, LockFifo, WaitOrGo, WakeUp, UnlockFifo,
     RunIfFetched, SetCurrent, SetRunning, EndExec, ClearRunning
<1>3. ASSUME NEW t \in Threads, SubmitPush(t)
      PROVE  FALSE
  <2>1. lock = t /\ spc[t] = "push" /\ pc = "test"
    BY <1>3 DEF SubmitPush, Mutex, workerVars
  <2>2. QED
    BY <2>1 DEF Mutex, WorkerJob
<1>4. CASE UNCHANGED <<jobs, pc, nextjob>>
  BY <1>4 DEF EmptyBeforeWait
<1>5. QED
  BY <1>1, <1>2, <1>3, <1>4 DEF Next, BeginSubmit, InSubmit, SubmitLock,
     SubmitNotify, SubmitUnlock, SpuriousWakeup, DestroyLock, InDestructor,
     DestroySetDone, DestroyUnlock, DestroyNotify, vars, workerVars

(* Every step keeps a notification due whenever the sleeping worker is     *)
(* wanted.                                                                 *)
LEMMA WakeupStep ==
  ASSUME TypeOK, Mutex, WorkerJob, EmptyBeforeWait, NoLostWakeup, [Next]_vars
  PROVE  NoLostWakeup'
<1> SUFFICES ASSUME waiting'
             PROVE  /\ jobs' # {} => \E t \in Threads : spc'[t] = "notify"
                    /\ done' => dpc' \in {"unlock", "notify"}
  BY DEF NoLostWakeup
<1> USE ThreadNames DEF TypeOK
<1>1. CASE WaitOrGo
  <2>1. waiting => pc = "waiting"
    BY DEF WorkerJob
  <2>2. MustWait /\ UNCHANGED <<jobs, done, dpc>>
    BY <1>1, <2>1 DEF WaitOrGo
  <2>3. QED
    BY <1>1, <2>2 DEF WaitOrGo, MustWait, EmptyBeforeWait
<1>2. CASE WorkerStep /\ ~WaitOrGo
  <2>1. waiting => pc = "waiting"
    BY DEF WorkerJob
  <2>2. QED
    BY <1>2, <2>1 DEF WorkerStep, CheckDone, LockFifo, Fetch, WakeUp,
       UnlockFifo, SetCurrent, SetRunning, EndExec, ClearRunning
<1>3. ASSUME NEW t \in Threads, SubmitPush(t)
      PROVE  /\ jobs' # {} => \E u \in Threads : spc'[u] = "notify"
             /\ done' => dpc' \in {"unlock", "notify"}
  <2>1. waiting /\ UNCHANGED <<done, dpc>> /\ spc'[t] = "notify"
    BY <1>3 DEF SubmitPush
  <2>2. QED
    BY <2>1 DEF NoLostWakeup
<1>4. ASSUME NEW t \in Threads, BeginSubmit(t) \/ SubmitLock(t) \/ SubmitUnlock(t)
      PROVE  /\ jobs' # {} => \E u \in Threads : spc'[u] = "notify"
             /\ done' => dpc' \in {"unlock", "notify"}
  <2>1. waiting /\ UNCHANGED <<jobs, done, dpc>>
    BY <1>4 DEF BeginSubmit, SubmitLock, SubmitUnlock
  <2>2. \A u \in Threads : spc[u] = "notify" => spc'[u] = "notify"
    BY <1>4 DEF BeginSubmit, SubmitLock, SubmitUnlock
  <2>3. QED
    BY <2>1, <2>2 DEF NoLostWakeup
<1>5. ASSUME NEW t \in Threads, SubmitNotify(t)
      PROVE  FALSE
  BY <1>5 DEF SubmitNotify
<1>6. CASE DestroyLock \/ InDestructor
  <2>1. done => dpc \in {"unlock", "notify", "gone"}
    BY DEF WorkerJob
  <2>2. UNCHANGED <<jobs, spc, waiting>>
    BY <1>6 DEF DestroyLock, InDestructor, DestroySetDone, DestroyUnlock,
       DestroyNotify, submitVars
  <2>3. done' => dpc' \in {"unlock", "notify"}
    BY <1>6, <2>1, <2>2 DEF DestroyLock, InDestructor, DestroySetDone,
       DestroyUnlock, DestroyNotify, NoLostWakeup
  <2>4. QED
    BY <2>2, <2>3 DEF NoLostWakeup
<1>7. CASE SpuriousWakeup \/ UNCHANGED vars
  <2>1. UNCHANGED <<jobs, done, dpc, spc, waiting>>
    BY <1>7 DEF SpuriousWakeup, vars, submitVars
  <2>2. QED
    BY <2>1 DEF NoLostWakeup
<1>8. QED
  BY <1>1, <1>2, <1>3, <1>4, <1>5, <1>6, <1>7 DEF Next, InSubmit

(* Every step keeps the waiting relation among submitted jobs. *)
LEMMA AheadStep ==
  TypeOK /\ WorkerJob /\ Submitting /\ AheadSubmitted /\ [Next]_vars
    => AheadSubmitted'
<1> SUFFICES ASSUME TypeOK, WorkerJob, Submitting, AheadSubmitted, [Next]_vars
             PROVE  AheadSubmitted'
  OBVIOUS
<1>1. CASE Quiet \/ Fetch \/ EndExec
  <2>1. UNCHANGED <<ahead, Submitted>>
    BY <1>1, FetchMoves, EndMoves DEF Quiet
  <2>2. QED
    BY <2>1 DEF AheadSubmitted, Before
<1>2. ASSUME NEW t \in Threads, SubmitPush(t)
      PROVE  AheadSubmitted'
  <2>1. /\ sjob[t] \in Jobs \ Submitted
        /\ Submitted' = Submitted \cup {sjob[t]}
        /\ ahead' = Precede(sjob[t])
    BY <1>2, PushMoves
  <2>2. Parent[sjob[t]] \in Jobs \cup {NoJob}
    BY <2>1, RunQueueAssumption
  <2>3. ASSUME NEW j \in Jobs, NEW k \in ahead'[j]
        PROVE  j \in Submitted' /\ k \in Submitted' /\ Before(k, j)
    BY <2>1, <2>2, <2>3 DEF Precede, AheadSubmitted, TypeOK
  <2>4. QED
    BY <2>3 DEF AheadSubmitted, Before
<1>3. QED
  BY <1>1, <1>2, JobMoves

(* Every step keeps the jobs ahead of a popped job ended: a job is popped  *)
(* only when it is at the top, and a popped job gains no one ahead of it,  *)
(* since the job that submits is being executed and has not ended.         *)
LEMMA DrainedStep ==
  ASSUME TypeOK, WorkerJob, Submitting, ExecutedOnce, AheadSubmitted,
         DrainedBeforeBegin, [Next]_vars
  PROVE  DrainedBeforeBegin'
<1> USE DEF DrainedBeforeBegin
<1>1. CASE Quiet
  BY <1>1 DEF Quiet, Ended
<1>2. CASE Fetch
  <2>1. Held = {} /\ UNCHANGED <<execs, ahead>>
    BY <1>2, FetchMoves
  <2>2. ASSUME NEW j \in Jobs, IsTop(j), NEW k \in ahead[j]
        PROVE  Ended(k)
    <3>1. k \in Submitted /\ Before(k, j)
      BY <2>2 DEF AheadSubmitted
    <3>2. k \notin jobs
      BY <2>2, <3>1 DEF IsTop
    <3>3. QED
      BY <2>1, <3>1, <3>2 DEF Submitted
  <2>3. QED
    BY <1>2, <2>1, <2>2, FetchMoves DEF Ended
<1>3. CASE EndExec
  <2>1. \A j \in Jobs : Ended(j) => Ended(j)'
    BY <1>3, EndMoves DEF Ended, TypeOK
  <2>2. \A j \in Jobs : j \in Held' \/ Ended(j)' => j \in Held \/ Ended(j)
    BY <1>3, EndMoves DEF Ended, TypeOK
  <2>3. QED
    BY <1>3, <2>1, <2>2, EndMoves DEF TypeOK
<1>4. ASSUME NEW t \in Threads, SubmitPush(t)
      PROVE  DrainedBeforeBegin'
  <2> DEFINE new == sjob[t]
  <2>1. /\ new \in Jobs \ Submitted /\ ahead' = Precede(new)
        /\ UNCHANGED <<execs, Held>>
    BY <1>4, PushMoves
  <2>2. Parent[new] = NoJob \/ (Parent[new] \in Held /\ ~Ended(Parent[new]))
    <3>1. new # NoJob
      BY <2>1, ThreadNames
    <3>2. CASE t # Worker
      BY <3>1, <3>2 DEF Submitting
    <3>3. CASE t = Worker
      <4>1. pc = "exec" /\ Parent[new] = nextjob /\ nextjob \in Jobs
        BY <1>4, <3>1, <3>3 DEF Submitting, SubmitPush, WorkerJob, TypeOK
      <4>2. QED
        BY <4>1 DEF Held, ExecutedOnce
    <3>4. QED
      BY <3>2, <3>3
  <2>3. ASSUME NEW j \in Jobs, j \in Held \/ Ended(j)
        PROVE  ahead'[j] = ahead[j]
    <3>1. j # new
      BY <2>1, <2>3 DEF Submitted
    <3>2. Parent[new] \notin ahead[j]
      BY <2>2, <2>3, ThreadNames DEF TypeOK
    <3>3. QED
      BY <2>1, <3>1, <3>2 DEF Precede
  <2>4. QED
    BY <2>1, <2>3 DEF Ended
<1>5. QED
  BY <1>1, <1>2, <1>3, <1>4, JobMoves

-----------------------------------------------------------------------------
(* IInv holds in every reachable state of the run queue. *)
THEOREM RunQueueInvariant == Spec => []IInv
<1>1. Init => IInv
  <2> SUFFICES ASSUME Init
               PROVE  IInv
    OBVIOUS
  <2> USE ThreadNames DEF Init
  <2>1. TypeOK
    BY DEF TypeOK
  <2>2. Mutex /\ WorkerJob /\ EmptyBeforeWait /\ NoLostWakeup
    BY DEF Mutex, WorkerJob, EmptyBeforeWait, NoLostWakeup
  <2>3. Submitting
    BY DEF Submitting
  <2>4. ExecutedOnce /\ AheadSubmitted /\ DrainedBeforeBegin
    BY DEF ExecutedOnce, AheadSubmitted, DrainedBeforeBegin, Held, Ended
  <2>5. QED
    BY <2>1, <2>2, <2>3, <2>4 DEF IInv
<1>2. IInv /\ [Next]_vars => IInv'
  BY TypeStep, MutexStep, WorkerJobStep, SubmittingStep, OnceStep, EmptyStep,
     WakeupStep, AheadStep, DrainedStep DEF IInv
<1>3. QED
  BY <1>1, <1>2, PTL DEF Spec

(* The variables of the run queue always have their types. *)
THEOREM RunQueueTypes == Spec => []TypeOK
BY RunQueueInvariant, PTL DEF IInv

(* The worker never sleeps through a job or through its own shutdown. *)
THEOREM RunQueueWakesUp == Spec => []NoLostWakeup
BY RunQueueInvariant, PTL DEF IInv

(* exec() of a job is called at most once. *)
THEOREM RunQueueExecutesOnce == Spec => []ExecutedOnce
BY RunQueueInvariant, PTL DEF IInv

(* A job begins after all the jobs of higher priority submitted before it  *)
(* and after all those they submitted.                                     *)
THEOREM RunQueueDrains == Spec => []DrainedBeforeBegin
BY RunQueueInvariant, PTL DEF IInv

(* m_currentTask is set and is the executed job while m_taskRunning is up. *)
THEOREM RunQueueNamesTask == Spec => []RunningTaskIsCurrent
<1>1. IInv => RunningTaskIsCurrent
  BY DEF IInv, TypeOK, WorkerJob, RunningTaskIsCurrent
<1>2. QED
  BY <1>1, RunQueueInvariant, PTL

(* The run queue implements the executor its clients rely on: Fetch begins *)
(* a job, EndExec finishes it, SubmitPush submits one, and no other step   *)
(* is visible to a client.                                                 *)
THEOREM RunQueueRefines == Spec => ImplementsExecutor
<1> DEFINE active == IF pc = "clear" THEN NoJob ELSE nextjob
<1>1. Init => Executor!JInit
  BY ThreadNames DEF Init, Executor!JInit, Ended
<1>2. ASSUME IInv, [Next]_vars
      PROVE  [Executor!JNext]_(Executor!execVars)
  <2> USE <1>2 DEF IInv, Executor!execVars, Executor!JNext
  <2>1. CASE Quiet
    <3>1. active' = active
      <4>1. TypeOK'
        BY TypeStep
      <4>2. /\ \A j \in Jobs : active = j <=> j \in Held
            /\ \A j \in Jobs : active' = j <=> j \in Held'
            /\ active \in Jobs \cup {NoJob} /\ active' \in Jobs \cup {NoJob}
        BY <4>1, ThreadNames DEF Held, TypeOK
      <4>3. QED
        BY <2>1, <4>2 DEF Quiet
    <3>2. QED
      BY <2>1, <3>1 DEF Quiet, Ended
  <2>2. CASE Fetch
    <3>1. active = NoJob /\ active' = nextjob'
      BY <2>2 DEF Fetch, WorkerJob
    <3>2. CASE UNCHANGED <<jobs, nextjob>>
      BY <2>2, <3>1, <3>2, FetchMoves DEF Ended, WorkerJob, Fetch
    <3>3. ASSUME NEW j \in Jobs, IsTop(j), nextjob' = j, jobs' = jobs \ {j}
          PROVE  Executor!Begin(j)
      <4>1. \A k \in jobs : Priority[k] <= Priority[j]
        BY <3>3, RunQueueAssumption DEF IsTop, Before, TypeOK
      <4>2. UNCHANGED {i \in Jobs : Ended(i)}
        BY <2>2, FetchMoves DEF Ended
      <4>3. QED
        BY <3>1, <3>3, <4>1, <4>2 DEF Executor!Begin, IsTop
    <3>4. QED
      BY <2>2, <3>2, <3>3 DEF Fetch, PoppedBy
  <2>3. CASE EndExec
    <3>1. active = nextjob /\ active' = NoJob /\ nextjob \in Jobs
      BY <2>3, EndMoves DEF EndExec
    <3>2. {i \in Jobs : Ended(i)}' = {i \in Jobs : Ended(i)} \cup {nextjob}
      BY <2>3, EndMoves DEF Ended, TypeOK
    <3>3. Executor!Finish
      BY <2>3, <3>1, <3>2, EndMoves DEF Executor!Finish
    <3>4. QED
      BY <3>3
  <2>4. ASSUME NEW t \in Threads, SubmitPush(t)
        PROVE  Executor!JNext
    <3>1. sjob[t] \in Jobs \ Submitted
      BY <2>4, PushMoves
    <3>2. sjob[t] # active
      BY <3>1, ThreadNames DEF Submitted, Held
    <3>3. UNCHANGED active
      BY <2>4 DEF SubmitPush, workerVars
    <3>4. Executor!Submit(sjob[t])
      BY <2>4, <3>1, <3>2, <3>3, PushMoves DEF Executor!Submit, Submitted, Ended
    <3>5. QED
      BY <3>1, <3>4
  <2>5. QED
    BY <1>2, <2>1, <2>2, <2>3, <2>4, JobMoves
<1>3. QED
  BY <1>1, <1>2, RunQueueInvariant, PTL DEF Spec, ImplementsExecutor, Executor!JSpec

-----------------------------------------------------------------------------
(* The monitor. *)

(* The monitor asks the queue and changes nothing in it (currentTaskName() *)
(* and isRunning() only read): what the queue does while it is watched is  *)
(* what it does alone, so that every theorem about Spec holds there too.   *)
THEOREM MonitorObserves == MonitoredSpec => Spec
<1>1. MonitorInit => Init
  BY DEF MonitorInit
<1>2. [MonitoredNext]_<<vars, monitor>> => [Next]_vars
  <2> SUFFICES ASSUME [MonitoredNext]_<<vars, monitor>>
               PROVE  [Next]_vars
    OBVIOUS
  <2>1. CASE Next /\ UNCHANGED monitor
    BY <2>1
  <2>2. CASE MonitorStep
    BY <2>2 DEF MonitorStep
  <2>3. CASE UNCHANGED <<vars, monitor>>
    BY <2>3
  <2> QED
    BY <2>1, <2>2, <2>3 DEF MonitoredNext
<1>3. MonitorInit /\ [][MonitoredNext]_<<vars, monitor>> => Spec
  BY <1>1, <1>2, PTL DEF Spec
<1> QED
  BY <1>3, PTL DEF MonitoredSpec
=============================================================================
