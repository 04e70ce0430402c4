--------------------------- MODULE ColoniesServer ---------------------------
(***************************************************************************)
(* The server's process lifecycle: executors pulling work through the      *)
(* assign handler, closing it through the close handlers, and the recovery *)
(* loop resetting or failing processes whose deadline has passed, all over *)
(* the PROCESSES table of ProcessTable.                                    *)
(*                                                                         *)
(* The repository methods are translated from pq_database_processes.go.    *)
(* The handlers that call them live outside src/ and follow the spec:      *)
(*  - assign (4.4): under a per-colony mutex, FindUnassignedProcesses,     *)
(*    selectCandidate, AssignComputer;                                     *)
(*  - close (4.2, 4.7): GetProcessByID, MarkSuccessful or MarkFailed on    *)
(*    the row read, then publish the process object as an event;           *)
(*  - recovery (4.5): each tick reads the RUNNING processes past their     *)
(*    deadline, then resets each (ResetProcess, RETRIES+1, deadline        *)
(*    cleared) while retries remain, and fails it (UnassignComputer)       *)
(*    otherwise.                                                           *)
(* Each handler is a sequence of database round-trips; every step below is *)
(* one round-trip, so the handlers of different executors and the recovery *)
(* loop interleave between them.                                           *)
(***************************************************************************)
EXTENDS ProcessTable

CONSTANTS
    MaxWaitTime,    \* maxWaitTime of submitted processes; > 0 sets a deadline
    MaxAdminOps     \* bound on the administrative deletes and resets

VARIABLES
    db,         \* the PROCESSES table: a function on the submitted ids
    order,      \* submitted ids in SUBMISSION_TIME order
    lock,       \* the colony's assignment mutex: holder or None
    pc,         \* pc[e]: where executor e and its in-flight request are
    cand,       \* cand[e]: the candidate the assign handler chose
    held,       \* held[e]: the process e was given and is running
    outcome,    \* outcome[e]: the state e's close request asks for
    rqueue,     \* recovery: ids read by the current tick, not yet handled
    adding,     \* ids whose AddProcess has inserted the row, not the attributes
    removed,    \* ids DeleteProcessByID removed (UUIDs are never reused)
    nilDeref,   \* history: a close handler dereferenced a nil row
    adminOps    \* administrative operations done so far (bounded)

vars == <<db, order, lock, pc, cand, held, outcome, rqueue, adding, removed, nilDeref, adminOps>>

PCs == {"idle", "lock", "find", "assign", "holding", "recheck", "write"}

\* Target lists a submitter can give: none (stored as "*") or one executor.
TargetChoices == {{}} \cup {{e} : e \in Executors}

SubmitDeadline == IF MaxWaitTime > 0 THEN "future" ELSE "none"

TypeOK ==
    /\ DOMAIN db \subseteq Processes
    /\ \A p \in DOMAIN db : db[p] \in Row
    /\ order \in Seq(Processes)
    /\ lock \in Executors \cup {None}
    /\ pc \in [Executors -> PCs]
    /\ cand \in [Executors -> Processes \cup {None}]
    /\ held \in [Executors -> Processes \cup {None}]
    /\ outcome \in [Executors -> Terminal]
    /\ rqueue \subseteq Processes
    /\ adding \subseteq Processes
    /\ removed \subseteq Processes
    /\ nilDeref \in BOOLEAN
    /\ adminOps \in 0..MaxAdminOps

Init ==
    /\ db = <<>>
    /\ order = <<>>
    /\ lock = None
    /\ pc = [e \in Executors |-> "idle"]
    /\ cand = [e \in Executors |-> None]
    /\ held = [e \in Executors |-> None]
    /\ outcome = [e \in Executors |-> "SUCCESS"]
    /\ rqueue = {}
    /\ adding = {}
    /\ removed = {}
    /\ nilDeref = FALSE
    /\ adminOps = 0

\* An UPDATE ... WHERE PROCESS_ID=p: it affects no row once p is deleted,
\* and Exec then reports no error.  `row` is only evaluated when p exists.
WhereID(p, row) == IF p \in DOMAIN db THEN [db EXCEPT ![p] = row] ELSE db

(***************************************************************************)
(* Submission: AddProcess inserts the row, then the IN, ERR and OUT       *)
(* attributes by three further statements.  Between the two the row is    *)
(* visible to the assign handler; a failed attribute insert returns the   *)
(* error and leaves the row in place (the XXX comments).                   *)
(***************************************************************************)
Submit(p) ==
    /\ p \notin DOMAIN db \cup removed
    /\ \E tg \in TargetChoices :
         db' = db @@ (p :> AddProcessRow(tg, SubmitDeadline, FALSE))
    /\ order' = Append(order, p)
    /\ adding' = adding \cup {p}
    /\ UNCHANGED <<removed, nilDeref, adminOps, lock, pc, cand, held, outcome, rqueue>>

\* The three attribute inserts succeed (they do not look at the row).
AddAttributes(p) ==
    /\ p \in adding
    /\ db' = WhereID(p, [db[p] EXCEPT !.attrs = TRUE])
    /\ adding' = adding \ {p}
    /\ UNCHANGED <<removed, nilDeref, adminOps, order, lock, pc, cand, held, outcome, rqueue>>

\* One of them fails: AddProcess returns the error, the row stays.
AddAttributesFails(p) ==
    /\ p \in adding
    /\ adding' = adding \ {p}
    /\ UNCHANGED <<removed, nilDeref, adminOps, db, order, lock, pc, cand, held, outcome, rqueue>>

(***************************************************************************)
(* Assign handler.                                                         *)
(***************************************************************************)
RequestAssign(e) ==
    /\ pc[e] = "idle"
    /\ pc' = [pc EXCEPT ![e] = "lock"]
    /\ UNCHANGED <<removed, nilDeref, adminOps, db, order, lock, cand, held, outcome, rqueue, adding>>

\* A variant that does not take the colony mutex, for the claim of 5.5
\* that correctness does not depend on it.
AcquireLockUnguarded(e) ==
    /\ pc[e] = "lock"
    /\ pc' = [pc EXCEPT ![e] = "find"]
    /\ UNCHANGED <<removed, nilDeref, adminOps, db, order, lock, cand, held, outcome, rqueue, adding>>

AcquireLock(e) ==
    /\ pc[e] = "lock"
    /\ lock = None
    /\ lock' = e
    /\ pc' = [pc EXCEPT ![e] = "find"]
    /\ UNCHANGED <<removed, nilDeref, adminOps, db, order, cand, held, outcome, rqueue, adding>>

Candidate(e) == selectCandidate(FindUnassignedProcesses(db, order, e))

FindCandidate(e) ==
    /\ pc[e] = "find"
    /\ Candidate(e) # None
    /\ cand' = [cand EXCEPT ![e] = Candidate(e)]
    /\ pc' = [pc EXCEPT ![e] = "assign"]
    /\ UNCHANGED <<removed, nilDeref, adminOps, db, order, lock, held, outcome, rqueue, adding>>

FindNoCandidate(e) ==
    /\ pc[e] = "find"
    /\ Candidate(e) = None
    /\ lock' = IF lock = e THEN None ELSE lock
    /\ pc' = [pc EXCEPT ![e] = "idle"]
    /\ UNCHANGED <<removed, nilDeref, adminOps, db, order, cand, held, outcome, rqueue, adding>>

AssignProcess(e) ==
    /\ pc[e] = "assign"
    /\ db' = WhereID(cand[e], AssignComputer(db[cand[e]], e))
    /\ lock' = IF lock = e THEN None ELSE lock
    /\ held' = [held EXCEPT ![e] = cand[e]]
    /\ cand' = [cand EXCEPT ![e] = None]
    /\ pc' = [pc EXCEPT ![e] = "holding"]
    /\ UNCHANGED <<removed, nilDeref, adminOps, order, outcome, rqueue, adding>>

\* AssignComputer's Exec returns an error: nothing written, error returned.
AssignFails(e) ==
    /\ pc[e] = "assign"
    /\ lock' = IF lock = e THEN None ELSE lock
    /\ cand' = [cand EXCEPT ![e] = None]
    /\ pc' = [pc EXCEPT ![e] = "idle"]
    /\ UNCHANGED <<removed, nilDeref, adminOps, db, order, held, outcome, rqueue, adding>>

(***************************************************************************)
(* Executor side: run the process, then close it, or crash and restart     *)
(* (the process is abandoned and left to the recovery loop).               *)
(***************************************************************************)
Abandon(e) ==
    /\ pc[e] = "holding"
    /\ pc' = [pc EXCEPT ![e] = "idle"]
    /\ held' = [held EXCEPT ![e] = None]
    /\ UNCHANGED <<removed, nilDeref, adminOps, db, order, lock, cand, outcome, rqueue, adding>>

(***************************************************************************)
(* Close handler: GetProcessByID, then MarkSuccessful / MarkFailed, which  *)
(* check the object read, re-read the row and check it again, and UPDATE.  *)
(***************************************************************************)
CloseAllowed(st, s) ==
    IF st = "SUCCESS" THEN MarkSuccessfulAllowed(s) ELSE MarkFailedAllowed(s)

CloseDone(e) ==
    /\ pc' = [pc EXCEPT ![e] = "idle"]
    /\ held' = [held EXCEPT ![e] = None]

CloseRead(e, st) ==
    /\ pc[e] = "holding"
    /\ held[e] \in DOMAIN db
    /\ CloseAllowed(st, db[held[e]].state)
    /\ outcome' = [outcome EXCEPT ![e] = st]
    /\ pc' = [pc EXCEPT ![e] = "recheck"]
    /\ UNCHANGED <<removed, nilDeref, adminOps, db, order, lock, cand, held, rqueue, adding>>

\* The check on the process object fails: an error is returned.
CloseReadRefused(e, st) ==
    /\ pc[e] = "holding"
    /\ held[e] \in DOMAIN db
    /\ ~CloseAllowed(st, db[held[e]].state)
    /\ CloseDone(e)
    /\ UNCHANGED <<removed, nilDeref, adminOps, db, order, lock, cand, outcome, rqueue, adding>>

\* The handler's GetProcessByID returns nil: NotFound (section 7).
CloseReadNotFound(e) ==
    /\ pc[e] = "holding"
    /\ held[e] \notin DOMAIN db
    /\ CloseDone(e)
    /\ UNCHANGED <<removed, nilDeref, adminOps, db, order, lock, cand, outcome, rqueue, adding>>

CloseRecheck(e) ==
    /\ pc[e] = "recheck"
    /\ held[e] \in DOMAIN db
    /\ CloseAllowed(outcome[e], GetProcessByID(db, held[e]).state)
    /\ pc' = [pc EXCEPT ![e] = "write"]
    /\ UNCHANGED <<removed, nilDeref, adminOps, db, order, lock, cand, held, outcome, rqueue, adding>>

CloseRecheckRefused(e) ==
    /\ pc[e] = "recheck"
    /\ held[e] \in DOMAIN db
    /\ ~CloseAllowed(outcome[e], GetProcessByID(db, held[e]).state)
    /\ CloseDone(e)
    /\ UNCHANGED <<removed, nilDeref, adminOps, db, order, lock, cand, outcome, rqueue, adding>>

\* The row was deleted after the handler read it: GetProcessByID returns
\* (nil, nil), the err check passes and processFromDB.Status() is called
\* on nil.  The request ends there.
CloseRecheckNil(e) ==
    /\ pc[e] = "recheck"
    /\ held[e] \notin DOMAIN db
    /\ nilDeref' = TRUE
    /\ CloseDone(e)
    /\ UNCHANGED <<removed, adminOps, db, order, lock, cand, outcome, rqueue, adding>>

\* The UPDATE, keyed by PROCESS_ID only.
CloseWrite(e) ==
    LET p == held[e] IN
    /\ pc[e] = "write"
    /\ db' = WhereID(p, IF outcome[e] = "SUCCESS" THEN MarkSuccessfulRow(db[p])
                                                ELSE MarkFailedRow(db[p]))
    /\ CloseDone(e)
    /\ UNCHANGED <<removed, nilDeref, adminOps, order, lock, cand, outcome, rqueue, adding>>

(***************************************************************************)
(* Time: a DEADLINE that was set passes.                                   *)
(***************************************************************************)
Tick(p) ==
    /\ p \in DOMAIN db
    /\ db[p].deadline = "future"
    /\ db' = [db EXCEPT ![p].deadline = "past"]
    /\ UNCHANGED <<removed, nilDeref, adminOps, order, lock, pc, cand, held, outcome, rqueue, adding>>

(***************************************************************************)
(* Recovery loop: a tick reads findRunningPastDeadline once, then handles  *)
(* the processes it read one by one, writing without re-reading.          *)
(***************************************************************************)
RunningPastDeadline == {p \in DOMAIN db : db[p].state = "RUNNING" /\ db[p].deadline = "past"}

RecoveryScan ==
    /\ rqueue = {}
    /\ RunningPastDeadline # {}
    /\ rqueue' = RunningPastDeadline
    /\ UNCHANGED <<removed, nilDeref, adminOps, db, order, lock, pc, cand, held, outcome, adding>>

RetriesLeft(p) == MaxRetries = -1 \/ db[p].retries < MaxRetries

RecoveryResetRow(row) ==
    [ResetProcess(row) EXCEPT !.retries = IF MaxRetries = -1 THEN @ ELSE @ + 1,
                              !.deadline = "none"]

RecoveryReset ==
    \E p \in rqueue :
       /\ p \in DOMAIN db
       /\ RetriesLeft(p)
       /\ db' = [db EXCEPT ![p] = RecoveryResetRow(@)]
       /\ rqueue' = rqueue \ {p}
       /\ UNCHANGED <<removed, nilDeref, adminOps, order, lock, pc, cand, held, outcome, adding>>

\* A variant that drops a process whose retries are used up.
RecoveryFailSkips ==
    \E p \in rqueue :
       /\ p \in DOMAIN db
       /\ ~RetriesLeft(p)
       /\ rqueue' = rqueue \ {p}
       /\ UNCHANGED <<removed, nilDeref, adminOps, db, order, lock, pc, cand, held, outcome, adding>>

RecoveryFail ==
    \E p \in rqueue :
       /\ p \in DOMAIN db
       /\ ~RetriesLeft(p)
       /\ db' = [db EXCEPT ![p] = UnassignComputer(@)]
       /\ rqueue' = rqueue \ {p}
       /\ UNCHANGED <<removed, nilDeref, adminOps, order, lock, pc, cand, held, outcome, adding>>

\* A process the tick read was deleted since: the UPDATE affects no row.
RecoveryGone ==
    \E p \in rqueue :
       /\ p \notin DOMAIN db
       /\ rqueue' = rqueue \ {p}
       /\ UNCHANGED <<removed, nilDeref, adminOps, db, order, lock, pc, cand, held, outcome, adding>>

\* Counts an administrative call against MaxAdminOps.
AdminStep ==
    /\ adminOps < MaxAdminOps
    /\ adminOps' = adminOps + 1

(***************************************************************************)
(* Administration, outside any handler's lock: DeleteProcessByID (the row, *)
(* then its attribute rows, which are not modelled), DeleteAllProcesses    *)
(* and ResetAllProcesses.                                                  *)
(***************************************************************************)
DeleteProcessByID(p) ==
    /\ AdminStep
    /\ p \in DOMAIN db
    /\ db' = [q \in DOMAIN db \ {p} |-> db[q]]
    /\ order' = SelectSeq(order, LAMBDA q : q # p)
    /\ removed' = removed \cup {p}
    /\ UNCHANGED <<nilDeref, lock, pc, cand, held, outcome, rqueue, adding>>

DeleteAllProcesses ==
    /\ AdminStep
    /\ DOMAIN db # {}
    /\ db' = [q \in {} |-> db[q]]
    /\ order' = <<>>
    /\ removed' = removed \cup DOMAIN db
    /\ UNCHANGED <<nilDeref, lock, pc, cand, held, outcome, rqueue, adding>>

\* One UPDATE with no WHERE clause: every row is reset.
ResetAllProcesses ==
    /\ AdminStep
    /\ DOMAIN db # {}
    /\ db' = [q \in DOMAIN db |-> ResetProcess(db[q])]
    /\ UNCHANGED <<removed, nilDeref, order, lock, pc, cand, held, outcome, rqueue, adding>>

(***************************************************************************)
(* Specification.                                                          *)
(***************************************************************************)
ExecutorStep(e) ==
    \/ RequestAssign(e)
    \/ AcquireLock(e)
    \/ FindCandidate(e)
    \/ FindNoCandidate(e)
    \/ AssignProcess(e)
    \/ AssignFails(e)
    \/ Abandon(e)
    \/ \E st \in Terminal : CloseRead(e, st) \/ CloseReadRefused(e, st)
    \/ CloseRecheck(e)
    \/ CloseReadNotFound(e)
    \/ CloseRecheckRefused(e)
    \/ CloseRecheckNil(e)
    \/ CloseWrite(e)

Next ==
    \/ \E p \in Processes : Submit(p) \/ AddAttributes(p) \/ AddAttributesFails(p) \/ Tick(p)
    \/ \E e \in Executors : ExecutorStep(e)
    \/ RecoveryScan
    \/ RecoveryReset
    \/ RecoveryFail
    \/ RecoveryGone
    \/ \E p \in Processes : DeleteProcessByID(p)
    \/ DeleteAllProcesses
    \/ ResetAllProcesses

\* A request being served runs to completion (its goroutine is scheduled);
\* the Go mutex hands itself to a waiter that keeps asking (starvation
\* mode), hence strong fairness there; time passes; the recovery loop ticks.
\* Executors' own choices (requesting, closing, crashing) are not fair.
Fairness ==
    /\ \A p \in Processes : WF_vars(AddAttributes(p) \/ AddAttributesFails(p))
    /\ \A e \in Executors :
         /\ SF_vars(AcquireLock(e))
         /\ WF_vars(FindCandidate(e) \/ FindNoCandidate(e))
         /\ WF_vars(AssignProcess(e) \/ AssignFails(e))
         /\ WF_vars(CloseRecheck(e) \/ CloseRecheckRefused(e) \/ CloseRecheckNil(e))
         /\ WF_vars(CloseWrite(e))
    /\ \A p \in Processes : WF_vars(Tick(p))
    /\ WF_vars(RecoveryScan)
    /\ WF_vars(RecoveryReset \/ RecoveryFail \/ RecoveryGone)

Spec == Init /\ [][Next]_vars
FairSpec == Spec /\ Fairness

(***************************************************************************)
(* Properties.                                                             *)
(***************************************************************************)

\* The DB's IS_ASSIGNED / ASSIGNED_COMPUTER_ID columns, read as an owner.
Owner == [p \in Processes |->
            IF p \in DOMAIN db /\ db[p].assigned THEN db[p].assignee ELSE None]

A == INSTANCE ExclusiveAssignment WITH owner <- Owner

\* At-most-once assignment (4.4, scenario S2): the assign handlers, the
\* close handlers and the recovery loop together implement
\* ExclusiveAssignment: a process is given to an executor only while no
\* executor holds it in the table, so two concurrent pulls never both get it.
Assignment == A!Spec

\* Half of invariant 3 of section 8: a RUNNING row is assigned to an
\* executor, whatever the close handlers and the recovery loop wrote
\* in between.
RunningIsAssigned ==
    \A p \in DOMAIN db :
        db[p].state = "RUNNING" => db[p].assigned /\ db[p].assignee # None

\* The recovery loop handles every RUNNING process past its deadline.
ExpiredRunning(p) == p \in RunningPastDeadline
ExpiredRunningEventuallyRecovered ==
    \A p \in Processes : ExpiredRunning(p) ~> ~ExpiredRunning(p)

\* Terminal states are final (4.2, 4.5): once SUCCESS a row never changes
\* state; the spec relies on a compare-and-set on state so that the
\* recovery loop racing a close "simply misses".
SuccessIsFinal ==
    [][\A p \in DOMAIN db : db[p].state = "SUCCESS" => db'[p].state = "SUCCESS"]_vars

\* assign moves only WAITING processes to RUNNING (4.2: "must fail if ...
\* not WAITING"); FindUnassignedProcesses is what chooses them.
AssignOnlyWaiting ==
    [][\A p \in DOMAIN db :
         (db'[p].state = "RUNNING" /\ db[p].state # "RUNNING") => db[p].state = "WAITING"]_vars

\* Closing a process that is not in the table is answered NotFound
\* (section 7): MarkSuccessful and MarkFailed never call a method on the
\* nil process GetProcessByID returns for a missing row, however an
\* administrator's DeleteProcessByID interleaves with a close.
NoNilDereference == ~nilDeref

\* Only the owner of a process closes it (section 7: "caller not owner of
\* the process" is Unauthorized): when MarkSuccessful or MarkFailed writes
\* a row, the row is assigned to the executor whose close it is, even
\* after the recovery loop reset the process and assign gave it to
\* another executor while the first one was still running it.
CloseOnlyByAssignee ==
    [][\A e \in Executors :
         (CloseWrite(e) /\ held[e] \in DOMAIN db) => db[held[e]].assignee = e]_vars

\* Scenario S4: a process whose executor died is eventually taken back
\* from RUNNING (reset or failed) by the recovery loop, also after a retry.
Abandoned(p) ==
    /\ p \in DOMAIN db
    /\ db[p].state = "RUNNING"
    /\ \A e \in Executors : held[e] # p
AbandonedEventuallyRecovered ==
    \A p \in Processes : Abandoned(p) ~> (p \in DOMAIN db /\ db[p].state # "RUNNING")

\* A process handed to an executor has its input attributes (4.1: add
\* process "with attribute sub-records").
RunningHasAttributes ==
    \A p \in DOMAIN db : db[p].state = "RUNNING" => db[p].attrs
=============================================================================
