--------------------------- MODULE RuntimeRegistry ---------------------------
(***************************************************************************)
(* The RUNTIMES table (src/pkg/database/postgresql/pq_database_runtimes.go) *)
(* and the runtime objects callers hold (core: Approve, Reject, IsApproved).*)
(* Approval is done on an object the caller read earlier: GetRuntimeByID,  *)
(* then ApproveRuntime or RejectRuntime with that object, each a single    *)
(* statement.  Administrators do this concurrently with adds and deletes.  *)
(***************************************************************************)
EXTENDS Naturals, FiniteSets

CONSTANTS
    RuntimeIDs,   \* runtime ids
    Colonies,     \* colony ids
    Admins,       \* concurrent callers of the repository
    None          \* nil

\* core.PENDING, core.APPROVED, core.REJECTED and the STATUS column.
PENDING == 0
APPROVED == 1
REJECTED == 2
Statuses == {PENDING, APPROVED, REJECTED}

\* A RUNTIMES row (parseRuntimes keeps ID, COLONY_ID, STATUS; the resource
\* columns are left out).
RuntimeRow == [colony : Colonies, status : Statuses]
RuntimeObj == [id : RuntimeIDs, colony : Colonies, status : Statuses]

VARIABLES
    table,     \* table[r]: the row with RUNTIME_ID r, or None
    obj,       \* obj[a]: the runtime object admin a holds, or None
    reported   \* history: the object a's last successful approve/reject returned

vars == <<table, obj, reported>>

TypeOK ==
    /\ table \in [RuntimeIDs -> RuntimeRow \cup {None}]
    /\ obj \in [Admins -> RuntimeObj \cup {None}]
    /\ reported \in [Admins -> RuntimeObj \cup {None}]

Init ==
    /\ table = [r \in RuntimeIDs |-> None]
    /\ obj = [a \in Admins |-> None]
    /\ reported = [a \in Admins |-> None]

\* Runtime.Approve / Runtime.Reject on the caller's object.  core.Runtime is
\* not under src/; the spec has them set the status field.
Approve(o) == [o EXCEPT !.status = APPROVED]
Reject(o) == [o EXCEPT !.status = REJECTED]
IsApproved(o) == o.status = APPROVED

\* AddRuntime: INSERT with STATUS 0.  A second insert of the id violates
\* the primary key and returns the error, changing nothing.
AddRuntime(r, c) ==
    /\ table[r] = None
    /\ table' = [table EXCEPT ![r] = [colony |-> c, status |-> PENDING]]
    /\ UNCHANGED <<obj, reported>>

\* GetRuntimeByID: the row as an object, or nil when there is none.
GetRuntimeByID(a, r) ==
    /\ obj[a] = None
    /\ table[r] # None
    /\ obj' = [obj EXCEPT ![a] = [id |-> r, colony |-> table[r].colony, status |-> table[r].status]]
    /\ UNCHANGED <<table, reported>>

\* UPDATE RUNTIMES SET STATUS=s WHERE RUNTIME_ID: affects the row if it
\* still exists; Exec reports no error when it affects none.
SetStatus(s, r) == IF table[r] = None THEN table ELSE [table EXCEPT ![r].status = s]

\* ApproveRuntime: the UPDATE, then runtime.Approve(); returns nil.
ApproveRuntime(a) ==
    /\ obj[a] # None
    /\ table' = SetStatus(APPROVED, obj[a].id)
    /\ reported' = [reported EXCEPT ![a] = Approve(obj[a])]
    /\ obj' = [obj EXCEPT ![a] = None]

\* RejectRuntime: the UPDATE, then runtime.Reject(); returns nil.
RejectRuntime(a) ==
    /\ obj[a] # None
    /\ table' = SetStatus(REJECTED, obj[a].id)
    /\ reported' = [reported EXCEPT ![a] = Reject(obj[a])]
    /\ obj' = [obj EXCEPT ![a] = None]

\* Exec returns an error: nothing is written and the object is untouched.
UpdateFails(a) ==
    /\ obj[a] # None
    /\ obj' = [obj EXCEPT ![a] = None]
    /\ UNCHANGED <<table, reported>>

DeleteRuntimeByID(r) ==
    /\ table[r] # None
    /\ table' = [table EXCEPT ![r] = None]
    /\ UNCHANGED <<obj, reported>>

DeleteRuntimesByColonyID(c) ==
    /\ \E r \in RuntimeIDs : table[r] # None /\ table[r].colony = c
    /\ table' = [r \in RuntimeIDs |-> IF table[r] # None /\ table[r].colony = c
                                       THEN None ELSE table[r]]
    /\ UNCHANGED <<obj, reported>>

Next ==
    \/ \E r \in RuntimeIDs, c \in Colonies : AddRuntime(r, c)
    \/ \E a \in Admins, r \in RuntimeIDs : GetRuntimeByID(a, r)
    \/ \E a \in Admins : ApproveRuntime(a) \/ RejectRuntime(a) \/ UpdateFails(a)
    \/ \E r \in RuntimeIDs : DeleteRuntimeByID(r)
    \/ \E c \in Colonies : DeleteRuntimesByColonyID(c)

Spec == Init /\ [][Next]_vars

(***************************************************************************)
(* Properties.                                                             *)
(***************************************************************************)

\* When ApproveRuntime or RejectRuntime returns success, the runtime the
\* caller read is in the table, in the same colony, with the status the
\* returned object shows (spec section 7: an id not in the database is
\* NotFound), however the caller's read and other callers' adds and
\* deletes interleave.
ReportedStatusCommitted ==
    [][\A a \in Admins :
         (reported'[a] # reported[a] /\ reported'[a] # None)
            => /\ table'[reported'[a].id] # None
               /\ table'[reported'[a].id].colony = reported'[a].colony
               /\ table'[reported'[a].id].status = reported'[a].status]_vars

=============================================================================
