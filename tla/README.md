# Model checking colonies

TLA+ models of the process lifecycle of colonies (`src/`), checked with TLC.
The repository is a partial snapshot. It contains the PostgreSQL repository
for processes and runtimes, the file-system sync client, the RPC message
types, the ownership checks and the CLI. The server handlers (assign, close,
recovery loop, event bus) are not under `src/`. Where a handler is needed to
drive the repository code, it is modelled from `spec.md` and marked
`spec_modelled` in `PROJECT.json`.

## The system's parts and how they interact

| Part | Source | State | Operations |
|---|---|---|---|
| Process table | `pkg/database/postgresql/pq_database_processes.go` | PROCESSES rows: STATUS, IS_ASSIGNED, ASSIGNED_COMPUTER_ID, target executors, DEADLINE, RETRIES; the ATTRIBUTES rows | AddProcess, FindUnassignedProcesses + selectCandidate, AssignComputer, UnassignComputer, ResetProcess, MarkSuccessful, MarkFailed, DeleteProcessByID, DeleteAllProcesses, ResetAllProcesses |
| Assign handler (spec 4.4) | not in src | per-colony mutex | lock, find, assign, unlock |
| Close handlers (spec 4.2, 4.7) | not in src | none of its own | GetProcessByID, MarkSuccessful/MarkFailed, publish the event |
| Recovery loop (spec 4.5) | not in src | none of its own; reads the table each tick | reset with retries+1, or fail when the retries are used up |
| Runtime registry | `pq_database_runtimes.go`, `core/executor.go` | RUNTIMES rows with a status (pending/approved/rejected) | add, approve, reject, delete |
| Authorization | `security/ownership_*.go`, `server/utils.go` | none of its own (reads the registry) | the ownership checks and resolveInitiator |
| File sync client | `pkg/fs/fs_client.go` | local directory, S3 objects, file metadata on the server | CalcSyncPlan, ApplySyncPlan, upload, download, remove, snapshots |
| RPC messages | `pkg/rpc/*.go` | none | JSON round-trip, Equals |
| CLI | `internal/cli/*.go` | none | flag handling and printing |

How they interact: executors pull work through the assign handler. They run
it and close it through a close handler. Both handlers act only through the
process table. The recovery loop runs beside them and writes the same rows.
None of these writes are conditional. Every `UPDATE ... WHERE PROCESS_ID=$1`
in the table code overwrites whatever the row holds, so the interleavings of
the three are the hard part of the system. That is what the first modules
check. The file-sync client is a separate part. It talks to the server's
file metadata and to S3, and every one of its calls can fail on its own.

## Modules

* `ProcessTable.tla` holds the table's row type and the repository methods,
  each a pure operator on a row or on the table.
  * `AddProcessRow` is the row AddProcess inserts. An empty target list is
    stored as `"*"`, so `Wildcard` is in the set.
  * `FindUnassignedProcesses` is the SQL filter `IS_ASSIGNED=FALSE AND
    (TARGET = e OR TARGET = '*')` over the submission order.
  * `selectCandidate` takes the head of that result.
  * `AssignComputer`, `UnassignComputer`, `ResetProcess`, `MarkSuccessfulRow`
    and `MarkFailedRow` are the UPDATE statements, column by column.
  * `MarkSuccessfulAllowed` and `MarkFailedAllowed` are the status checks.
    Each method applies its check twice: to the caller's object and to a
    re-read row.
* `ColoniesServer.tla` composes the table with the handlers. Its variables
  are:
  * `db`, the rows of the submitted processes, and `order`, the submission
    order;
  * `lock`, the colony mutex;
  * per executor, a program counter `pc` plus the handler's locals: `cand`,
    the process `held` and the close `outcome`;
  * `rqueue`, the list the recovery tick read;
  * `adding`, the processes whose AddProcess has inserted the row but not
    yet the attributes;
  * `removed`, the ids that were deleted (UUIDs are never reused);
  * `nilDeref`, a history flag set when a close handler dereferences the
    nil row GetProcessByID returns;
  * `adminOps`, the count of administrative calls, bounded by
    `MaxAdminOps`.

  Every action is one database round-trip, so handlers interleave exactly
  where the Go code would. AddProcess is `Submit`, the row INSERT, then
  `AddAttributes` or `AddAttributesFails`: the three attribute inserts are
  one step, since nothing reads the attributes between them, and the row
  is an assign candidate from the INSERT on. The assign handler is RequestAssign, AcquireLock,
  FindCandidate or FindNoCandidate, then AssignProcess or AssignFails. Close
  is CloseRead, CloseRecheck and CloseWrite, or a refusal at either check.
  The executor can also Abandon its process. Time is `Tick`, which moves a
  deadline that was set from future to past. The recovery loop is
  RecoveryScan, then RecoveryReset or RecoveryFail for each process read.
  The reset's row (`RecoveryResetRow`) is ResetProcess plus the RETRIES
  increment and the cleared deadline, which no method under src/ writes:
  they come from spec 4.5.

  Administrators call DeleteProcessByID, DeleteAllProcesses and
  ResetAllProcesses at any time. No handler lock covers these calls, so
  every handler step copes with a row that is gone:
  * an UPDATE ... WHERE PROCESS_ID (`WhereID`) then affects nothing and
    reports no error;
  * the close handler's own read answers NotFound (`CloseReadNotFound`);
  * MarkSuccessful's re-read hits the nil process (`CloseRecheckNil`);
  * the recovery loop drops the id (`RecoveryGone`).

  The attribute rows the deletes remove in a second statement are a flag
  on the row, so that statement is not a step of its own.
* `ExclusiveAssignment.tla` is the abstract promise of the assign path. Each
  process has at most one owner; it is granted only when free and released
  later, and an administrator may revoke every assignment at once
  (`RevokeAll`, for ResetAllProcesses and DeleteAllProcesses).
  ColoniesServer refines it through `Owner`, which reads the
  IS_ASSIGNED and ASSIGNED_COMPUTER_ID columns as an owner.
  The refinement is checked in the core run, which has no administrative
  calls. Because RevokeAll is always allowed, a run with them would add
  nothing the refinement can tell apart.
* `FileSync.tla` models the file-sync client (`pkg/fs/fs_client.go`) for
  one label. Its variables are:
  * `local`, each client's directory;
  * `s3`, the S3 objects;
  * `meta`, the server's revisions in the order they were added;
  * `nextObj`, the count of `GenerateRandomID`s used.

  A sync is `SyncStart`, which is `CalcSyncPlan` over the directory and
  `GetLatestFileByName` of every name. Then `ApplySyncPlan`'s three loops
  run in order. Within a loop, Go's map iteration order is any order.
  * An upload is `UploadS3`, which stats the file and uploads its current
    bytes, then `AddFile` with the plan's checksum.
  * A download is `Download`.
  * Any call can fail, in `StepFails` or `AddFileFails`, and the method
    returns.

  Removal is `RemoveFileByID`, `RemoveFileByName` or
  `RemoveAllFilesWithLabel`. Each picks the revisions to remove; then, per
  revision, `RemoveS3` removes the object and `RemoveMeta` removes the
  metadata. Either call can fail (`RemoveFails`). `EditLocal` is the user
  writing a file.

  Snapshots: `snap` is the label's snapshot, the revisions it pins.
  `AddSnapshot` is the server's call, modelled from the spec: it pins the
  latest revision of every name. `DownloadByID` is `Download`, which is
  GetFileByID and then the S3 download, taken as one step: a removal in
  between ends in the same error either way. `DownloadSnapshot` reads the
  snapshot; then one `SnapshotFile` per pinned id. Each SnapshotFile does
  GetFileByID, compares checksums (`SnapshotSkip`) and downloads when they
  differ. `SnapshotFileFails` is the loop's error return: the revision was
  removed, or MkdirAll or the download failed. `pinned` is a history
  variable holding the snapshot the call read.

  A checksum is taken to be the content itself, since SHA-256 is treated as
  collision free. Two history variables serve the properties only:
  * `interfered[c]` records that, during c's sync, another client changed
    the label, or that the user edited c's directory during c's sync or
    snapshot restore;
  * `corrupt` records that some AddFile registered a revision whose
    object does not hold its checksum. This is the fs_stale_checksum
    defect: a file edited between the plan and its upload.

  The user may edit any directory at any time, including during a sync or
  a restore.
* `RuntimeRegistry.tla` models the RUNTIMES table
  (`pq_database_runtimes.go`) and the caller's runtime object.
  core.Runtime's `Approve`/`Reject` are not under src/; they are modelled
  from the spec as setting the object's status. A caller reads the object
  with `GetRuntimeByID`, then passes it to `ApproveRuntime` or `RejectRuntime`. Adds and deletes happen
  concurrently.
* `MC_ColoniesServer.tla`, `MC_FileSync.tla` and `MC_RuntimeRegistry.tla`
  supply the model values. For ColoniesServer these are: executors e1 and e2,
  processes p1 and p2, and the symmetry of both sets.

## Runs

| Run | Expect | What it shows |
|---|---|---|
| core | pass | Two executors and two processes, with the recovery loop allowed one retry. `TypeOK`; `RunningIsAssigned` (a RUNNING row always has an assignee); `Assignment`, the refinement of ExclusiveAssignment: under the mutex, two pulls never both get a process |
| liveness | pass | One process, with up to two administrative deletes and resets interleaved. Under the fairness below, `ExpiredRunningEventuallyRecovered` holds: every RUNNING process past its deadline is eventually reset or failed, although the loop acts on a list read earlier and handlers and deletes race it. MaxRetries = 0 here, so the recovery loop must fail the process and not reset it. The run also makes the administrative actions fire; nothing the spec promises about a handler racing them is a property here (see the hazards) |
| success_final | violation | A recovery tick read p as RUNNING, the executor closed it SUCCESS, and then ResetProcess overwrote it with WAITING. The spec says a compare-and-set makes this miss; the code has none (pq_database_processes.go:256) |
| assign_waiting | violation | UnassignComputer leaves a FAILED row with IS_ASSIGNED=FALSE, and FindUnassignedProcesses has no STATUS filter, so the process is assigned again: FAILED → RUNNING (:209) |
| close_deleted | violation | A process is deleted after its executor's close handler read it. GetProcessByID then returns (nil, nil), and MarkSuccessful calls `Status()` on nil (:327, and :365 in MarkFailed). Spec section 7 asks for NotFound |
| stale_close | violation | A close that passed both status checks writes after the recovery loop reset the process. MarkSuccessful checks the status, never the assignee (:326). In the shortest trace SUCCESS is written over a WAITING row with no assignee, a process queued to run again; if assign has given it to another executor first (a longer trace), that executor's run is closed under it. Spec section 7 says a caller that does not own the process is Unauthorized |
| abandoned | violation | AssignComputer stores no deadline. Once a process was reset, its next executor can die and leave it RUNNING for ever (:283; scenario S4 expects FAILED) |
| attributes | violation | AddProcess inserts the row before the attributes, with no transaction. An assign in between, with no failure at all, gives an executor a RUNNING process without its input attributes; a failed attribute insert leaves the row so for good (:26) |
| fs_sync | pass | Two clients sync, upload, remove, download by id and restore a snapshot under one label, the user edits either directory at any time, and every remote call can fail. `SyncedAgrees`: an ApplySyncPlan that returns nil, with no other actor changing the label and no edit of the directory during it, leaves the directory equal to the label's latest revisions. `KeepLocalPreservesLocal`: with keepLocal, a sync nobody interferes with never overwrites a local file. `SnapshotRestored`: a DownloadSnapshot that returns nil, with no edit during it, leaves every pinned file with its revision's content, whatever the other client uploads, syncs or removes meanwhile. All three set aside the behaviours after a revision with a stale checksum was registered (the fs_stale_checksum defect). A later sync nobody interferes with would then download bytes that differ from the checksum it compares, so the three properties are claims about the sync, restore and keepLocal logic given consistent metadata. The cfg's state constraint `NoCorruptRevision` stops exploring those behaviours |
| fs_dangling | violation | RemoveFileByID, RemoveFileByName and RemoveAllFilesWithLabel remove the S3 object before the metadata. A failed second call leaves a revision naming a missing object, and every later sync of that file fails (fs_client.go:338) |
| fs_stale_checksum | violation | uploadFile registers the checksum from the plan but uploads the file as it is now. A file edited in between is stored with a checksum that does not match, so other clients conflict on it for ever (fs_client.go:95) |
| registry_status | violation | ApproveRuntime and RejectRuntime ignore rows affected. A runtime deleted after the caller read it is reported approved; if the id was re-added, possibly in another colony, that runtime is approved instead (pq_database_runtimes.go:101) |

Each property of a passing run has a mutant in `PROJECT.json`: a plausible
bug in the mapped code, defined beside it, that TLC must catch.

## Bounds

Two executors and two processes are the fewest that let two pulls race for
one process while a second process is waiting. One executor would miss the
race, and one process would miss the head-of-queue ordering.

MaxAdminOps is 0 in core and 2 in liveness. In core, a single
administrative call multiplies the state space about eightfold, to more
than 5 minutes. Two calls are enough for a reset followed by a delete,
and for a delete racing any one handler step. close_deleted needs one.

The liveness run has one process. With two processes and two
administrative calls, it runs for more than 10 minutes. The races it
checks (the lock handover, the recovery of an expired process, and a
delete or reset racing a handler step) need one process and two
executors.

MaxRetries is 1 in the safety runs, so both the reset branch and the
fail-after-retries branch exist. AssignComputer sets no deadline, though, so
a reset process never expires again. RecoveryFail is reachable only at
MaxRetries = 0, and the liveness run uses that value.

FileSync has two clients, one name and two contents. fs_sync has two S3
objects; the violation runs have three. Two objects are enough for a
conflict (each client writes the name with a different content) and for
two revisions of one name, which make RemoveFileByID and RemoveFileByName
differ and let a snapshot pin a revision another one later replaces. With
edits allowed at any time, three objects take fs_sync past 5 minutes. A
second name would only add map-order permutations inside a loop, and the
run then takes far longer than 5 minutes.

RuntimeRegistry has two runtime ids, two colonies and two administrators.
That is enough for a delete followed by a re-add in another colony between
one caller's read and its approve.

Time is abstracted to a deadline in {none, future, past}. The code compares
a deadline with `now` and nothing else, so this abstraction is exact.

## Fairness

* **Strong fairness on AcquireLock.** Go's `sync.Mutex` goes into starvation
  mode and hands the lock to a waiter that has waited more than 1 ms.
* **Weak fairness on the in-handler steps** (find, assign, recheck, write,
  and AddProcess's attribute inserts).
  A goroutine serving a request is scheduled.
* **Weak fairness on Tick and on the recovery steps.** Time passes and the
  loop's ticker fires.
* **No fairness on executors' own choices** (requesting, closing, crashing).

## Not modelled yet, and why

* **Authorization.** `OwnershipImpl.CheckIfColonyHasWorker` returns nil for
  every worker. resolveInitiator and deriveInitiator read executor and user
  tables that have no repository code here.
* **File-sync client, remaining parts.** CalcSyncPlans' walk over
  sub-directories is not modelled. It calls CalcSyncPlan once per label,
  and the labels are independent. What a snapshot promises once a pinned
  revision is removed is not stated anywhere under `src/` or in the spec.
  RemoveFile* removes the S3 object without looking at snapshots, so such
  a snapshot can no longer be restored. No run states this.
* **FileSync fairness.** FileSync has no liveness property. Every step is a
  client's or a user's own choice.
* **RPC Equals predicates.** These are pure field comparisons, with
  nothing to interleave. GetFunctionsMsg.Equals compares `msg.ColonyName`
  with itself (get_functions_msg.go:55), a bug a unit test shows directly.
* **Executor comparison helpers** (`core/executor.go` 135-299). These
  are pure and have nothing to interleave, and a unit test reaches every
  case, so they are not modelled. Reading them shows two bugs:
  * `IsExecutorArraysEqual` counts matching pairs and compares the count
    with both lengths. So `[a, a]` equals `[a, b]`, but `[a, a]` does not
    equal itself.
  * `IsProjectsEqual` reads a key missing from the second map as a zero
    Project. So `{x: zero}` equals `{y: zero}`.
* **MarkFailed sets the caller's object to SUCCESS** (:380), so an event
  published from that object reports a failed process as successful. The
  spec's design notes already flag the line, and a unit test of MarkFailed
  shows it, so it has no run. The model leaves the caller's object and
  the event out, since no property reads them.
* **MarkSuccessful leaves IS_ASSIGNED true** (:337), against invariant 3
  of spec section 8. It is a single UPDATE's column list, visible in a
  unit test, so it has no run.
* **CLI, JSON encoding and cryptography.** Out of scope: they are I/O and
  formatting, with no state a property is about.
* **The ATTRIBUTES table.** It is a flag on the process row. Attribute
  rows left behind by a failed second DELETE belong to an id that is
  never reused, so no modelled reader sees them.
