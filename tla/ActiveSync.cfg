\* Two sync tasks, one after the other, each with its waiting goroutine.
CONSTANTS
    MaxSyncTasks = 2
SPECIFICATION SyncSpec
INVARIANT SyncSuspendsMining
