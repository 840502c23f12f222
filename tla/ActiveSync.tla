----------------------------- MODULE ActiveSync -----------------------------
(***************************************************************************)
(* The active-sync hand-off between the block pool, the sync service and  *)
(* the consensus engine's mining switch:                                  *)
(*   BlockChain.StartActiveSync (core/blockchain.go) calls                *)
(*   Service.StartActiveSync (sync/sync_service.go), suspends mining and   *)
(*   starts a goroutine that runs Service.WaitingForFinish and then        *)
(*   ResumeMining.                                                         *)
(* Each goroutine is a process with a program counter.  The sync Task     *)
(* itself is not in the repository's sources: it only signals its status  *)
(* channel once, when it ends.  The consensus engine is external: mining  *)
(* suspension is one flag.                                                 *)
(***************************************************************************)
EXTENDS Naturals

CONSTANTS
    MaxSyncTasks    \* bound on the number of sync tasks ever started

Tasks == 1..MaxSyncTasks
NoTask == 0         \* ss.activeTask == nil

VARIABLES
    activeTask,     \* ss.activeTask
    taskState,      \* per task: "none", "running", "signalled" (status sent), "consumed"
    waiter,         \* program counter of the goroutine started with task t
    waitOn,         \* the task whose statusCh that goroutine blocks on
    miningSuspended \* consensus.IsSuspend()

syncVars == <<activeTask, taskState, waiter, waitOn, miningSuspended>>

SyncTypeOK ==
    /\ activeTask \in Tasks \cup {NoTask}
    /\ taskState \in [Tasks -> {"none", "running", "signalled", "consumed"}]
    /\ waiter \in [Tasks -> {"idle", "check", "wait", "resume", "done"}]
    /\ waitOn \in [Tasks -> Tasks \cup {NoTask}]
    /\ miningSuspended \in BOOLEAN

SyncInit ==
    /\ activeTask = NoTask
    /\ taskState = [t \in Tasks |-> "none"]
    /\ waiter = [t \in Tasks |-> "idle"]
    /\ waitOn = [t \in Tasks |-> NoTask]
    /\ miningSuspended = FALSE

IsActiveSyncing == activeTask # NoTask

\* The next task id; tasks are numbered in the order they are created.
NextTask == CHOOSE t \in Tasks : taskState[t] = "none" /\
                                 \A u \in Tasks : u < t => taskState[u] # "none"

CanStartTask == \E t \in Tasks : taskState[t] = "none"

\* BlockChain.StartActiveSync as a step fragment.  When a task is active the
\* service returns false and nothing changes; otherwise it creates and
\* starts a task (under activeTaskMutex), then mining is suspended and the
\* waiting goroutine is spawned.  Enabled only while the task bound allows.
StartActiveSync ==
    IF IsActiveSyncing
    THEN UNCHANGED syncVars
    ELSE /\ CanStartTask
         /\ activeTask' = NextTask
         /\ taskState' = [taskState EXCEPT ![NextTask] = "running"]
         /\ waiter' = [waiter EXCEPT ![NextTask] = "check"]
         /\ miningSuspended' = TRUE
         /\ UNCHANGED waitOn

\* The sync Task ends and sends on its statusCh.
TaskFinish(t) ==
    /\ taskState[t] = "running"
    /\ taskState' = [taskState EXCEPT ![t] = "signalled"]
    /\ UNCHANGED <<activeTask, waiter, waitOn, miningSuspended>>

\* WaitingForFinish, first half: return at once if no task is active,
\* otherwise block on the active task's statusCh.
WaitCheck(g) ==
    /\ waiter[g] = "check"
    /\ IF activeTask = NoTask
       THEN /\ waiter' = [waiter EXCEPT ![g] = "resume"]
            /\ UNCHANGED waitOn
       ELSE /\ waiter' = [waiter EXCEPT ![g] = "wait"]
            /\ waitOn' = [waitOn EXCEPT ![g] = activeTask]
    /\ UNCHANGED <<activeTask, taskState, miningSuspended>>

\* Mutation: the goroutine ends after WaitingForFinish without ResumeMining.
WaitReceive_NoResume(g) ==
    /\ waiter[g] = "wait"
    /\ taskState[waitOn[g]] = "signalled"
    /\ taskState' = [taskState EXCEPT ![waitOn[g]] = "consumed"]
    /\ activeTask' = NoTask
    /\ waiter' = [waiter EXCEPT ![g] = "done"]
    /\ UNCHANGED <<waitOn, miningSuspended>>

\* WaitingForFinish, second half: the status arrives; activeTask = nil.
WaitReceive(g) ==
    /\ waiter[g] = "wait"
    /\ taskState[waitOn[g]] = "signalled"
    /\ taskState' = [taskState EXCEPT ![waitOn[g]] = "consumed"]
    /\ activeTask' = NoTask
    /\ waiter' = [waiter EXCEPT ![g] = "resume"]
    /\ UNCHANGED <<waitOn, miningSuspended>>

\* The goroutine's last statement: consensus.ResumeMining().
ResumeMining(g) ==
    /\ waiter[g] = "resume"
    /\ miningSuspended' = FALSE
    /\ waiter' = [waiter EXCEPT ![g] = "done"]
    /\ UNCHANGED <<activeTask, taskState, waitOn>>

SyncStep ==
    \E t \in Tasks : TaskFinish(t) \/ WaitCheck(t) \/ WaitReceive(t) \/ ResumeMining(t)

-----------------------------------------------------------------------------
(* Stand-alone specification: any caller may ask for an active sync (the  *)
(* block pool does so when a relayed block is more than a chunk away from *)
(* the chain).                                                             *)

RequestSync == StartActiveSync /\ ~IsActiveSyncing

SyncNext == RequestSync \/ SyncStep

SyncSpec == SyncInit /\ [][SyncNext]_syncVars

\* Spec 5: "Active sync suspends block production (mining) for the duration,
\* resumed automatically when the sync task's completion signal fires."
\* Mining is suspended whenever a sync task is active.  The goroutine of an
\* ended task clears activeTask before it calls ResumeMining, and a new
\* task may start in between.
SyncSuspendsMining == IsActiveSyncing => miningSuspended

=============================================================================
