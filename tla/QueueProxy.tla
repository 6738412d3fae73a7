----------------------------- MODULE QueueProxy -----------------------------
(***************************************************************************)
(* The queue in front of the local language model                          *)
(* (scripts/minecraft/lmstudio_queue_proxy.py): one HTTP thread per        *)
(* request enqueues a job and waits for its event; worker threads take     *)
(* jobs by priority, forward them with retries, and set the event.  The    *)
(* counters are guarded by a lock; every telemetry line is a write to a    *)
(* file that may raise.  An action is the code between two writes of       *)
(* shared state.                                                           *)
(***************************************************************************)
EXTENDS Naturals, FiniteSets

CONSTANTS ProxyJobs,     \* requests of the bots
          ChatJobs,      \* those for chat completions: priority 0
          Workers,
          RetryAttempts, \* retry_attempts
          MaxWriteErrors \* bound on telemetry writes that raise

ASSUME ProxyAssumption ==
    /\ IsFiniteSet(ProxyJobs) /\ IsFiniteSet(Workers)
    /\ ChatJobs \subseteq ProxyJobs
    /\ RetryAttempts \in Nat /\ MaxWriteErrors \in Nat

VARIABLES queued,    \* jobs: the entries of the priority queue that are jobs
          sentinels, \* and those that end a worker
          handler,   \* where the HTTP thread of each job is
          worker,    \* where each worker is, and its job and attempts
          stats,     \* ProxyStats
          writeErrors

proxyVars == <<queued, sentinels, handler, worker, stats, writeErrors>>

Getting == [step |-> "getting", jobs |-> {}, attempt |-> 0]

ProxyInit ==
    /\ queued = {}
    /\ sentinels = 0
    /\ handler = [j \in ProxyJobs |-> "new"]
    /\ worker = [w \in Workers |-> Getting]
    /\ stats = [enqueued |-> 0, running |-> 0, completed |-> 0, failed |-> 0]
    /\ writeErrors = 0

WriteRaises == writeErrors < MaxWriteErrors /\ writeErrors' = writeErrors + 1

(* Worker w goes on to a step; the counters of a set go up by one.         *)
Moves(w, step) == worker' = [worker EXCEPT ![w].step = step]
Counts(names) ==
    stats' = [n \in DOMAIN stats |-> IF n \in names THEN stats[n] + 1 ELSE stats[n]]

-----------------------------------------------------------------------------
(* enqueue counts the job, writes telemetry, and puts the job.             *)
Enqueue(j) ==
    /\ handler[j] = "new"
    /\ handler' = [handler EXCEPT ![j] = "announcing"]
    /\ Counts({"enqueued"})
    /\ UNCHANGED <<queued, sentinels, worker, writeErrors>>

Put(j) ==
    /\ handler[j] = "announcing"
    /\ handler' = [handler EXCEPT ![j] = "waiting"]
    /\ queued' = queued \cup {j}
    /\ UNCHANGED <<sentinels, worker, stats, writeErrors>>

(* The write raises: the HTTP thread ends without an answer.               *)
EnqueueFails(j) ==
    /\ handler[j] = "announcing"
    /\ WriteRaises
    /\ handler' = [handler EXCEPT ![j] = "dropped"]
    /\ UNCHANGED <<queued, sentinels, worker, stats>>

(* A worker takes a job of the best priority, in the order of sequence     *)
(* numbers (left open here), or a sentinel when there is no job.           *)
Take(w) ==
    LET chats == queued \cap ChatJobs
        best == IF chats # {} THEN chats ELSE queued
    IN
    /\ worker[w].step = "getting"
    /\ \/ \E j \in best :
             /\ queued' = queued \ {j}
             /\ worker' = [worker EXCEPT ![w] = [step |-> "starting", jobs |-> {j}, attempt |-> 0]]
             /\ Counts({"running"})
             /\ UNCHANGED sentinels
       \/ /\ queued = {} /\ sentinels > 0
          /\ sentinels' = sentinels - 1
          /\ Moves(w, "stopped")
          /\ UNCHANGED <<queued, stats>>
    /\ UNCHANGED <<handler, writeErrors>>

Started(w) ==
    /\ worker[w].step = "starting"
    /\ Moves(w, "forwarding")
    /\ UNCHANGED <<queued, sentinels, handler, stats, writeErrors>>

(* The write of llm.queue.started is outside the try: the worker dies with *)
(* its job, which stays counted as running and is never answered.          *)
StartedFails(w) ==
    /\ worker[w].step = "starting"
    /\ WriteRaises
    /\ Moves(w, "lost")
    /\ UNCHANGED <<queued, sentinels, handler, stats>>

(* _forward: a model that is not loaded is tried again,                    *)
Retry(w) ==
    /\ worker[w].step = "forwarding"
    /\ worker[w].attempt < RetryAttempts
    /\ worker' = [worker EXCEPT ![w].attempt = @ + 1]
    /\ UNCHANGED <<queued, sentinels, handler, stats, writeErrors>>

(* and any other answer, or the last one, is passed on;                    *)
Forwarded(w) ==
    /\ worker[w].step = "forwarding"
    /\ Moves(w, "completing")
    /\ Counts({"completed"})
    /\ UNCHANGED <<queued, sentinels, handler, writeErrors>>

(* a timeout or a refused connection raises.                               *)
ForwardFails(w) ==
    /\ worker[w].step = "forwarding"
    /\ Moves(w, "failing")
    /\ Counts({"failed"})
    /\ UNCHANGED <<queued, sentinels, handler, writeErrors>>

(* The retry line or the completed line cannot be written: the job fails,  *)
(* a completed one too.                                                    *)
ReportFails(w) ==
    /\ worker[w].step \in {"forwarding", "completing"}
    /\ worker[w].step = "forwarding" => worker[w].attempt < RetryAttempts
    /\ WriteRaises
    /\ Moves(w, "failing")
    /\ Counts({"failed"})
    /\ UNCHANGED <<queued, sentinels, handler>>

Reported(w) ==
    /\ worker[w].step \in {"completing", "failing"}
    /\ Moves(w, "closing")
    /\ UNCHANGED <<queued, sentinels, handler, stats, writeErrors>>

(* Mutant: a failure report that raises ends the worker before its finally. *)
FailureReportKills(w) ==
    /\ worker[w].step = "failing"
    /\ WriteRaises
    /\ worker' = [worker EXCEPT ![w] = [Getting EXCEPT !.step = "dead"]]
    /\ UNCHANGED <<queued, sentinels, handler, stats>>

(* The failed line cannot be written: the worker dies after its finally.   *)
FailureReportFails(w) ==
    /\ worker[w].step = "failing"
    /\ WriteRaises
    /\ Moves(w, "dying")
    /\ UNCHANGED <<queued, sentinels, handler, stats>>

(* The finally: the count goes down and the event of the job is set.       *)
Finish(w) ==
    /\ worker[w].step \in {"closing", "dying"}
    /\ stats' = [stats EXCEPT !.running = IF @ > 0 THEN @ - 1 ELSE 0]
    /\ handler' = [j \in ProxyJobs |-> IF j \in worker[w].jobs THEN "answered" ELSE handler[j]]
    /\ worker' = [worker EXCEPT ![w] =
          [Getting EXCEPT !.step = IF worker[w].step = "dying" THEN "dead" ELSE "getting"]]
    /\ UNCHANGED <<queued, sentinels, writeErrors>>

(* stop puts a sentinel for every worker, dead ones included.  Requests    *)
(* under way go on; their threads end with the process.                    *)
StopProxy ==
    /\ sentinels = 0
    /\ \A w \in Workers : worker[w].step # "stopped"
    /\ sentinels' = Cardinality(Workers)
    /\ UNCHANGED <<queued, handler, worker, stats, writeErrors>>

-----------------------------------------------------------------------------
WorkerStep(w) ==
    \/ Take(w) \/ Started(w) \/ Forwarded(w) \/ ForwardFails(w) \/ Reported(w) \/ Finish(w)

ProxyNext ==
    \/ StopProxy
    \/ \E j \in ProxyJobs : Enqueue(j) \/ Put(j) \/ EnqueueFails(j)
    \/ \E w \in Workers :
          \/ WorkerStep(w) \/ Retry(w)
          \/ StartedFails(w) \/ ReportFails(w) \/ FailureReportFails(w)

ProxySpec == ProxyInit /\ [][ProxyNext]_proxyVars

-----------------------------------------------------------------------------
Holding(w) == worker[w].step \in
    {"starting", "forwarding", "completing", "failing", "closing", "dying"}

LostWorkers == {w \in Workers : worker[w].step = "lost"}

(* Types of all the variables; a job is held by a worker exactly while the *)
(* worker is at it.                                                        *)
ProxyTypeOK ==
    /\ queued \subseteq ProxyJobs
    /\ sentinels \in 0..Cardinality(Workers)
    /\ handler \in [ProxyJobs -> {"new", "announcing", "waiting", "answered", "dropped"}]
    /\ \A w \in Workers :
          /\ worker[w].jobs \subseteq ProxyJobs
          /\ worker[w].attempt \in 0..RetryAttempts
          /\ worker[w].jobs # {} <=> Holding(w) \/ w \in LostWorkers
    /\ \A n \in DOMAIN stats : stats[n] \in 0..2 * Cardinality(ProxyJobs)
    /\ writeErrors \in 0..MaxWriteErrors

(* What /healthz reports as running is what the workers are at, and one    *)
(* job for every worker that died before its try: no other failure of the  *)
(* telemetry leaves the count too high or too low for good.                *)
RunningIsExact ==
    stats.running = Cardinality({w \in Workers : Holding(w)} \cup LostWorkers)

(* No job is lost or answered twice: one that waits is in the queue or     *)
(* with exactly one worker, the running ones are counted exactly, and the  *)
(* finished ones once each, or once more per telemetry line that could not *)
(* be written.                                                             *)
JobsAccounted ==
    LET held == UNION {worker[w].jobs : w \in Workers}
        answered == {j \in ProxyJobs : handler[j] = "answered"}
        counted == {w \in Workers : worker[w].step \in {"completing", "failing", "closing", "dying"}}
        finished == Cardinality(answered) + Cardinality(counted)
    IN
    /\ RunningIsExact
    /\ {j \in ProxyJobs : handler[j] = "waiting"} = queued \cup held
    /\ queued \cap held = {}
    /\ \A v, w \in Workers : v # w => worker[v].jobs \cap worker[w].jobs = {}
    /\ stats.completed + stats.failed \in finished..(finished + writeErrors)

(* Every job that was put is answered, even when it fails upstream, unless *)
(* it went down with its worker or no worker is left to take it.           *)
JobsAnswered ==
    \A j \in ProxyJobs : handler[j] = "waiting" ~>
        \/ handler[j] = "answered"
        \/ \E w \in LostWorkers : j \in worker[w].jobs
        \/ \A w \in Workers : worker[w].step \in {"lost", "dead", "stopped"}

=============================================================================
