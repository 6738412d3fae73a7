------------------------------ MODULE TaskBoard ------------------------------
(***************************************************************************)
(* The shared task board (core/shared_state.py, called by the Minecraft    *)
(* bridge and by ManageTaskTool): one Redis hash of tasks and one SET NX   *)
(* marker per task.  Requests are coroutines: every Redis command is       *)
(* atomic and an await, so other requests run between any two commands of  *)
(* one request.  An action is one Redis command with the code up to the    *)
(* next one.                                                               *)
(***************************************************************************)
EXTENDS Naturals, FiniteSets

CONSTANTS Agents, Nobody,
          Requests,       \* names for the requests in flight at the same time
          Tasks, NoTask,  \* the ids of the tasks that may be created
          MaxCompleted,   \* _MAX_COMPLETED_TASKS
          Statuses,       \* statuses that update_status may be asked for
          Origins,        \* kinds of tasks created: "open", "owned"
          MaxFailures     \* bound on requests that fail half-way

ASSUME BoardAssumption ==
    /\ Nobody \notin Agents
    /\ NoTask \notin Tasks
    /\ MaxFailures \in Nat
    /\ Statuses \subseteq {"pending", "in_progress", "blocked", "done"}

VARIABLES task,     \* the hash TASK_KEY: status and owner of each task
          marker,   \* the TASK_CLAIM_KEY markers, which nothing ever clears
          origin,   \* ghost: how each task was created
          job,      \* the requests in flight
          oks,      \* ghost: who was answered "ok" to a claim of which task
          told,     \* ghost: whom losers of the race for a marker were told of
          failures  \* requests that failed so far

vars == <<task, marker, origin, job, oks, told, failures>>

Entry == [status : {"absent", "pending", "in_progress", "blocked", "done"},
          owner  : Agents \cup {Nobody}]

Absent == [status |-> "absent", owner |-> Nobody]

(* A request between two commands: the agent, the task, the copy of the    *)
(* task it has read, the status it is to write, and the tasks it has still *)
(* to prune.                                                               *)
Steps == {"idle", "race", "lost", "won", "own", "edit", "scan", "prune"}

Jobs == [step : Steps, agent : Agents \cup {Nobody}, task : Tasks \cup {NoTask},
         copy : Entry, status : Statuses \cup {"none"}, todo : SUBSET Tasks]

Job(step, a, k, copy, status, todo) ==
    [step |-> step, agent |-> a, task |-> k, copy |-> copy, status |-> status, todo |-> todo]

NoJob == Job("idle", Nobody, NoTask, Absent, "none", {})

Init ==
    /\ task = [k \in Tasks |-> Absent]
    /\ marker = [k \in Tasks |-> Nobody]
    /\ origin = [k \in Tasks |-> "none"]
    /\ job = [r \in Requests |-> NoJob]
    /\ oks = {}
    /\ told = {}
    /\ failures = 0

Created == {k \in Tasks : origin[k] # "none"}

(* add_task, one HSET: task_create and create_task post an open task;      *)
(* seeds, commitments and rescue tasks have an owner and are pending;      *)
(* create_task with claim=true has an owner and is in progress.            *)
AddTask(k, kind, owner, status) ==
    /\ kind \in Origins
    /\ task' = [task EXCEPT ![k] = [status |-> status, owner |-> owner]]
    /\ origin' = [origin EXCEPT ![k] = kind]
    /\ UNCHANGED <<marker, job, oks, told, failures>>

Post(k) ==
    /\ origin[k] = "none"
    /\ \/ AddTask(k, "open", Nobody, "pending")
       \/ \E a \in Agents, status \in {"pending", "in_progress"} : AddTask(k, "owned", a, status)

(* dispatch_rescue_task for a danger that already has a rescue task posts  *)
(* the same id again, with the new rescuer.                                *)
Redispatch(k) ==
    /\ origin[k] = "owned"
    /\ \E a \in Agents : AddTask(k, "owned", a, "pending")

-----------------------------------------------------------------------------
(* claim_task reads the task.  Missing or finished, it is refused.  Its    *)
(* owner is told ok.  Another agent's task is refused while it is worked   *)
(* on; otherwise the request goes for the marker.                          *)
ClaimRefused(entry, a) ==
    \/ entry.status \in {"absent", "done"}
    \/ entry.owner \notin {Nobody, a} /\ entry.status \in {"in_progress", "blocked"}

ClaimReads(r, a, k) ==
    /\ job[r].step = "idle"
    /\ k \in Created
    /\ ~ClaimRefused(task[k], a)
    /\ IF task[k].owner = a
         THEN oks' = oks \cup {<<a, k>>} /\ job' = job
         ELSE oks' = oks /\ job' = [job EXCEPT ![r] = Job("race", a, k, Absent, "none", {})]
    /\ UNCHANGED <<task, marker, origin, told, failures>>

(* Mutant: SET without NX.                                                 *)
ClaimOverwrites(r) ==
    LET a == job[r].agent
        k == job[r].task
    IN
    /\ job[r].step = "race"
    /\ marker' = [marker EXCEPT ![k] = a]
    /\ job' = [job EXCEPT ![r] = Job("won", a, k, Absent, "none", {})]
    /\ UNCHANGED <<task, origin, oks, told, failures>>

(* SET NX on the marker.                                                   *)
ClaimRaces(r) ==
    LET a == job[r].agent
        k == job[r].task
    IN
    /\ job[r].step = "race"
    /\ IF marker[k] = Nobody
         THEN /\ marker' = [marker EXCEPT ![k] = a]
              /\ job' = [job EXCEPT ![r] = Job("won", a, k, Absent, "none", {})]
         ELSE /\ marker' = marker
              /\ job' = [job EXCEPT ![r] = Job("lost", a, k, Absent, "none", {})]
    /\ UNCHANGED <<task, origin, oks, told, failures>>

(* Mutant: the loser reads the owner from the task hash.                   *)
LoserReadsTask(r) ==
    LET k == job[r].task IN
    /\ job[r].step = "lost"
    /\ told' = told \cup {<<k, task[k].owner>>}
    /\ job' = [job EXCEPT ![r] = NoJob]
    /\ UNCHANGED <<task, marker, origin, oks, failures>>

(* The loser reads the marker and reports its holder.                      *)
ClaimLoses(r) ==
    LET k == job[r].task IN
    /\ job[r].step = "lost"
    /\ told' = told \cup {<<k, marker[k]>>}
    /\ job' = [job EXCEPT ![r] = NoJob]
    /\ UNCHANGED <<task, marker, origin, oks, failures>>

(* The winner calls update_task_status, which reads the task again; a task *)
(* that is gone by now is not written, and the answer is ok all the same.  *)
ClaimRereads(r) ==
    LET a == job[r].agent
        k == job[r].task
    IN
    /\ job[r].step = "won"
    /\ IF task[k].status = "absent"
         THEN oks' = oks \cup {<<a, k>>} /\ job' = [job EXCEPT ![r] = NoJob]
         ELSE oks' = oks /\ job' = [job EXCEPT ![r] = Job("own", a, k, task[k], "none", {})]
    /\ UNCHANGED <<task, marker, origin, told, failures>>

ClaimWrites(r) ==
    LET a == job[r].agent
        k == job[r].task
    IN
    /\ job[r].step = "own"
    /\ task' = [task EXCEPT ![k] = [status |-> "in_progress", owner |-> a]]
    /\ oks' = oks \cup {<<a, k>>}
    /\ job' = [job EXCEPT ![r] = NoJob]
    /\ UNCHANGED <<marker, origin, told, failures>>

-----------------------------------------------------------------------------
(* update_task_status from update_status and task_complete, by any agent:  *)
(* read the task, then write the copy back with the new status.            *)
EditReads(r, k, status) ==
    /\ job[r].step = "idle"
    /\ task[k].status # "absent"
    /\ job' = [job EXCEPT ![r] = Job("edit", Nobody, k, task[k], status, {})]
    /\ UNCHANGED <<task, marker, origin, oks, told, failures>>

EditWrites(r) ==
    LET k == job[r].task
        status == job[r].status
    IN
    /\ job[r].step = "edit"
    /\ task' = [task EXCEPT ![k] = [status |-> status, owner |-> job[r].copy.owner]]
    /\ job' = [job EXCEPT ![r] =
                  IF status = "done" THEN Job("scan", Nobody, NoTask, Absent, "none", {}) ELSE NoJob]
    /\ UNCHANGED <<marker, origin, oks, told, failures>>

(* _run_maintenance between two phases prunes as well.                     *)
MaintenanceStarts(r) ==
    /\ job[r].step = "idle"
    /\ job' = [job EXCEPT ![r] = Job("scan", Nobody, NoTask, Absent, "none", {})]
    /\ UNCHANGED <<task, marker, origin, oks, told, failures>>

(* prune_completed_tasks picks the finished tasks past their TTL and, of   *)
(* the others, the oldest above the limit.  created_at is left out: any    *)
(* choice that respects the limit.                                         *)
PruneScans(r) ==
    LET done == {k \in Tasks : task[k].status = "done"} IN
    /\ job[r].step = "scan"
    /\ \E old \in SUBSET done :
          /\ Cardinality(done \ old) <= MaxCompleted
          /\ job' = [job EXCEPT ![r] = IF old = {} THEN NoJob
                                       ELSE Job("prune", Nobody, NoTask, Absent, "none", old)]
    /\ UNCHANGED <<task, marker, origin, oks, told, failures>>

(* and deletes them, one HDEL after the other.                             *)
PruneDeletes(r) ==
    /\ job[r].step = "prune"
    /\ \E k \in job[r].todo :
          LET left == job[r].todo \ {k} IN
          /\ task' = [task EXCEPT ![k] = Absent]
          /\ job' = [job EXCEPT ![r] = IF left = {} THEN NoJob
                                       ELSE Job("prune", Nobody, NoTask, Absent, "none", left)]
    /\ UNCHANGED <<marker, origin, oks, told, failures>>

(* Redis fails or the caller is cancelled: the rest of the request is lost. *)
RequestFails(r) ==
    /\ job[r].step # "idle"
    /\ failures < MaxFailures
    /\ failures' = failures + 1
    /\ job' = [job EXCEPT ![r] = NoJob]
    /\ UNCHANGED <<task, marker, origin, oks, told>>

-----------------------------------------------------------------------------
Proceed(r) ==
    \/ ClaimRaces(r) \/ ClaimLoses(r) \/ ClaimRereads(r) \/ ClaimWrites(r)
    \/ EditWrites(r) \/ PruneScans(r) \/ PruneDeletes(r)

Next ==
    \/ \E k \in Tasks : Post(k) \/ Redispatch(k)
    \/ \E r \in Requests :
          \/ \E a \in Agents, k \in Tasks : ClaimReads(r, a, k)
          \/ \E k \in Tasks, status \in Statuses : EditReads(r, k, status)
          \/ MaintenanceStarts(r)
          \/ Proceed(r)
          \/ RequestFails(r)

Spec == Init /\ [][Next]_vars

(* The event loop runs every coroutine whose Redis reply has arrived.      *)
FairSpec == Spec /\ \A r \in Requests : WF_vars(Proceed(r))

-----------------------------------------------------------------------------
(* Types of all the variables.                                             *)
TypeOK ==
    /\ task \in [Tasks -> Entry]
    /\ marker \in [Tasks -> Agents \cup {Nobody}]
    /\ origin \in [Tasks -> {"none", "open", "owned"}]
    /\ job \in [Requests -> Jobs]
    /\ oks \in SUBSET (Agents \X Tasks)
    /\ told \in SUBSET (Tasks \X (Agents \cup {Nobody}))
    /\ failures \in Nat

(* First claim wins on the open board: however claims, blind status edits, *)
(* pruning and failed requests interleave, all the "ok" answers to claims  *)
(* of one open task go to the same agent.                                  *)
OneWinner ==
    \A x, y \in oks : x[2] = y[2] /\ origin[x[2]] = "open" => x[1] = y[1]

(* A loser is told who holds the task, even while the winner has not yet   *)
(* written itself into the task (the case the comment in claim_task        *)
(* describes); and that agent is the only one that can have been told ok.  *)
LoserToldWinner ==
    \A x \in told :
        /\ x[2] # Nobody
        /\ \A y \in oks : y[2] = x[1] /\ origin[x[1]] = "open" => y[1] = x[2]

(* A won marker becomes ownership: as long as nobody edits statuses and no *)
(* request fails, the winner of the race for an open task ends up as its   *)
(* owner, although claim_task writes the owner two commands later.         *)
WinnerBecomesOwner ==
    \A k \in Tasks, a \in Agents : marker[k] = a ~> task[k].owner = a

(* claim_task: "A finished task can never be re-owned."                    *)
FinishedStaysFinished ==
    [][\A r \in Requests : ClaimWrites(r) => task[job[r].task].status # "done"]_vars

=============================================================================
