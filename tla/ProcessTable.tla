---------------------------- MODULE ProcessTable ----------------------------
(***************************************************************************)
(* The PROCESSES table of the PostgreSQL repository                        *)
(* (src/pkg/database/postgresql/pq_database_processes.go) and the row      *)
(* updates its methods perform.  A row keeps the columns the server's      *)
(* control flow reads: STATUS, IS_ASSIGNED, ASSIGNED_COMPUTER_ID,          *)
(* TARGET_COMPUTER_IDS, DEADLINE and RETRIES, plus whether the attribute   *)
(* rows written after the INSERT made it to the database.  Times, logs and *)
(* resource columns are left out: no guard of the code reads them.         *)
(***************************************************************************)
EXTENDS Integers, Sequences, FiniteSets, TLC

CONSTANTS
    Executors,      \* executor (computer) ids of the colony
    Processes,      \* process ids that may be submitted
    None,           \* the empty string "" in ASSIGNED_COMPUTER_ID
    Wildcard,            \* the wildcard "*" in TARGET_COMPUTER_IDS
    MaxRetries      \* the processes' maxRetries; -1 means unbounded

ASSUME None \notin Executors /\ Wildcard \notin Executors
ASSUME MaxRetries \in Nat \cup {-1}

\* core.WAITING, core.RUNNING, core.SUCCESS, core.FAILED
States == {"WAITING", "RUNNING", "SUCCESS", "FAILED"}
Terminal == {"SUCCESS", "FAILED"}

\* DEADLINE relative to the clock: not set, not yet reached, passed.
Deadlines == {"none", "future", "past"}

RetryRange == IF MaxRetries = -1 THEN {0} ELSE 0..MaxRetries

Row == [state    : States,
        assigned : BOOLEAN,
        assignee : Executors \cup {None},
        targets  : SUBSET (Executors \cup {Wildcard}) \ {{}},
        deadline : Deadlines,
        retries  : RetryRange,
        attrs    : BOOLEAN]

(***************************************************************************)
(* AddProcess: an empty target list is stored as {"*"}; the row is        *)
(* inserted with the process' own status (WAITING for a new process),      *)
(* IS_ASSIGNED false, RETRIES 0.  attrs says whether the IN, ERR and OUT   *)
(* attribute rows, inserted by the statements after it, exist yet.        *)
(***************************************************************************)
\* A variant that stores the caller's target list as given, empty or not.
AddProcessRowKeepsEmpty(targets, deadline, attrsOK) ==
    [state |-> "WAITING", assigned |-> FALSE, assignee |-> None,
     targets |-> targets, deadline |-> deadline, retries |-> 0,
     attrs |-> attrsOK]

AddProcessRow(targets, deadline, attrsOK) ==
    [state    |-> "WAITING",
     assigned |-> FALSE,
     assignee |-> None,
     targets  |-> IF targets = {} THEN {Wildcard} ELSE targets,
     deadline |-> deadline,
     retries  |-> 0,
     attrs    |-> attrsOK]

\* FindUnassignedProcesses: IS_ASSIGNED=FALSE and the target list contains
\* the computer id or "*", ORDER BY SUBMISSION_TIME.  There is no STATUS
\* condition.  `order` is the table in submission order.
FindUnassignedProcesses(db, order, e) ==
    SelectSeq(order, LAMBDA p : /\ ~db[p].assigned
                                /\ (e \in db[p].targets \/ Wildcard \in db[p].targets))

\* selectCandidate: the first candidate, or nil.
selectCandidate(candidates) ==
    IF Len(candidates) > 0 THEN Head(candidates) ELSE None

\* GetProcessByID: the row, or nil when no row has the id.
GetProcessByID(db, p) == IF p \in DOMAIN db THEN db[p] ELSE None

\* AssignComputer: SET IS_ASSIGNED=TRUE, START_TIME, ASSIGNED_COMPUTER_ID,
\* STATUS=RUNNING WHERE PROCESS_ID: no condition on the current row, and
\* DEADLINE is not written.
AssignComputer(row, e) ==
    [row EXCEPT !.assigned = TRUE, !.assignee = e, !.state = "RUNNING"]

\* UnassignComputer: SET IS_ASSIGNED=FALSE, END_TIME, STATUS=FAILED; the
\* assignee column is kept.
UnassignComputer(row) ==
    [row EXCEPT !.assigned = FALSE, !.state = "FAILED"]

\* A variant of the reset whose SET list misses STATUS.
ResetProcessKeepsStatus(row) ==
    [row EXCEPT !.assigned = FALSE, !.assignee = None]

\* ResetProcess: SET IS_ASSIGNED=FALSE, START_TIME, END_TIME zero,
\* ASSIGNED_COMPUTER_ID="", STATUS=WAITING; RETRIES and DEADLINE untouched.
ResetProcess(row) ==
    [row EXCEPT !.assigned = FALSE, !.assignee = None, !.state = "WAITING"]

\* The two status checks MarkSuccessful makes, first on the caller's copy
\* and then on the row it re-reads with GetProcessByID.
MarkSuccessfulAllowed(st) == st \notin {"FAILED", "WAITING"}

\* MarkSuccessful's UPDATE: SET END_TIME, STATUS=SUCCESS, nothing else.
MarkSuccessfulRow(row) == [row EXCEPT !.state = "SUCCESS"]

\* The two status checks of MarkFailed.
MarkFailedAllowed(st) == st \notin {"SUCCESS", "WAITING"}

\* MarkFailed's UPDATE: SET END_TIME, STATUS=FAILED.
MarkFailedRow(row) == [row EXCEPT !.state = "FAILED"]

=============================================================================
