------------------------------ MODULE FileSync ------------------------------
(***************************************************************************)
(* The executor-side file system client, src/pkg/fs/fs_client.go.  A file  *)
(* under a label is two things: an S3 object holding the bytes and a       *)
(* metadata revision on the colonies server naming that object.  Every     *)
(* client call that changes them is a sequence of independent remote      *)
(* calls, so clients interleave between them and any one of them can fail. *)
(*                                                                         *)
(* One label is modelled.  A client syncs a local directory with it        *)
(* (CalcSyncPlan, then ApplySyncPlan one file at a time, each upload being *)
(* uploadFile's two calls), or removes revisions (RemoveFileByID,          *)
(* RemoveFileByName, RemoveAllFilesWithLabel: per revision, the S3 object  *)
(* then the metadata).  The user edits local files.  A checksum is the     *)
(* content itself: SHA-256 is taken to be collision free.                  *)
(***************************************************************************)
EXTENDS Integers, Sequences, SequencesExt, FiniteSets

CONSTANTS
    Clients,            \* executors running an FSClient
    Names,              \* file names under the label
    Contents,           \* possible file contents (and so checksums)
    Absent,             \* no such file / object
    MaxObjects          \* bound on S3 objects created (GenerateRandomID)

ASSUME Absent \notin Contents /\ MaxObjects \in Nat

Objects == 1..MaxObjects

\* A metadata revision (core.File): its name, checksum and S3 object.
Revision == [obj : Objects, name : Names, sum : Contents]

\* A FileInfo of a sync plan; obj is 0 when the plan has no S3 object.
FileInfo == [name : Names, sum : Contents, obj : 0..MaxObjects]
Step == [op : {"up", "down"}, name : Names, sum : Contents, obj : 0..MaxObjects]

VARIABLES
    local,       \* local[c][n]: content of the file in c's directory
    s3,          \* s3[o]: content of S3 object o
    meta,        \* the server's revisions of the label, in the order added
    nextObj,     \* objects created so far
    pc,          \* what each client is doing
    todo,        \* the phases of the plan c is applying
    keep,        \* KeepLocal of c's plan
    cur,         \* the FileInfo or revision between two calls
    rmq,         \* revisions c still has to remove
    interfered,  \* history: another actor changed what c syncs or restores
    corrupt,     \* history: a revision was added whose object lacks its checksum
    snap,        \* the label's snapshot: the revisions it pins, or Absent
    snapq,       \* revisions of the snapshot c still has to restore
    pinned       \* history: the snapshot c's DownloadSnapshot read

snapVars == <<snap, snapq, pinned>>
vars == <<local, s3, meta, nextObj, pc, todo, keep, cur, rmq, interfered, corrupt, snapVars>>

SyncPCs == {"apply", "addfile"}
NoInfo == [name |-> CHOOSE n \in Names : TRUE, sum |-> CHOOSE v \in Contents : TRUE, obj |-> 0]

TypeOK ==
    /\ local \in [Clients -> [Names -> Contents \cup {Absent}]]
    /\ s3 \in [Objects -> Contents \cup {Absent}]
    /\ meta \in Seq(Revision)
    /\ nextObj \in 0..MaxObjects
    /\ pc \in [Clients -> {"idle", "apply", "addfile", "remove", "rmmeta", "snapshot"}]
    /\ todo \in [Clients -> Seq(SUBSET Step)]
    /\ keep \in [Clients -> BOOLEAN]
    /\ cur \in [Clients -> FileInfo \cup Revision]
    /\ rmq \in [Clients -> SUBSET Revision]
    /\ interfered \in [Clients -> BOOLEAN]
    /\ corrupt \in BOOLEAN
    /\ snap \in SUBSET Revision \cup {Absent}
    /\ snapq \in [Clients -> SUBSET Revision]
    /\ pinned \in [Clients -> SUBSET Revision]

Init ==
    /\ local = [c \in Clients |-> [n \in Names |-> Absent]]
    /\ s3 = [o \in Objects |-> Absent]
    /\ meta = <<>>
    /\ nextObj = 0
    /\ pc = [c \in Clients |-> "idle"]
    /\ todo = [c \in Clients |-> <<>>]
    /\ keep = [c \in Clients |-> FALSE]
    /\ cur = [c \in Clients |-> NoInfo]
    /\ rmq = [c \in Clients |-> {}]
    /\ interfered = [c \in Clients |-> FALSE]
    /\ corrupt = FALSE
    /\ snap = Absent
    /\ snapq = [c \in Clients |-> {}]
    /\ pinned = [c \in Clients |-> {}]

\* GetLatestFileByName: the last revision added under the name, or Absent.
Latest(n) ==
    LET i == SelectLastInSeq(meta, LAMBDA r : r.name = n)
    IN IF i = 0 THEN Absent ELSE meta[i]

RemoteView == [n \in Names |-> Latest(n)]

\* A variant whose conflict test compares the local checksum with itself.
CalcSyncPlanSelfCompare(loc, remote, k) ==
    [RemoteMissing |-> {[name |-> n, sum |-> loc[n], obj |-> 0] :
                          n \in {m \in Names : loc[m] # Absent /\ remote[m] = Absent}},
     LocalMissing  |-> {[name |-> n, sum |-> remote[n].sum, obj |-> remote[n].obj] :
                          n \in {m \in Names : loc[m] = Absent /\ remote[m] # Absent}},
     Conflicts     |-> {},
     KeepLocal     |-> k]

\* A variant whose local-missing loop drops the test that the file is
\* absent locally.
CalcSyncPlanNoLocalCheck(loc, remote, k) ==
    LET both == {m \in Names : loc[m] # Absent /\ remote[m] # Absent /\ loc[m] # remote[m].sum}
    IN [RemoteMissing |-> {[name |-> n, sum |-> loc[n], obj |-> 0] :
                             n \in {m \in Names : loc[m] # Absent /\ remote[m] = Absent}},
        LocalMissing  |-> {[name |-> n, sum |-> remote[n].sum, obj |-> remote[n].obj] :
                             n \in {m \in Names : remote[m] # Absent}},
        Conflicts     |-> IF k THEN {[name |-> n, sum |-> loc[n], obj |-> 0] : n \in both}
                               ELSE {[name |-> n, sum |-> remote[n].sum, obj |-> remote[n].obj] : n \in both},
        KeepLocal     |-> k]

\* CalcSyncPlan: local files unknown to the server, server files missing
\* locally, and files on both sides whose checksums differ, taken with the
\* local checksum when keepLocal and with the server's revision otherwise.
CalcSyncPlan(loc, remote, k) ==
    LET both == {m \in Names : loc[m] # Absent /\ remote[m] # Absent /\ loc[m] # remote[m].sum}
    IN [RemoteMissing |-> {[name |-> n, sum |-> loc[n], obj |-> 0] :
                             n \in {m \in Names : loc[m] # Absent /\ remote[m] = Absent}},
        LocalMissing  |-> {[name |-> n, sum |-> remote[n].sum, obj |-> remote[n].obj] :
                             n \in {m \in Names : loc[m] = Absent /\ remote[m] # Absent}},
        Conflicts     |-> IF k THEN {[name |-> n, sum |-> loc[n], obj |-> 0] : n \in both}
                               ELSE {[name |-> n, sum |-> remote[n].sum, obj |-> remote[n].obj] : n \in both},
        KeepLocal     |-> k]

\* Step 3 of ApplySyncPlan: conflicts are uploaded when KeepLocal, and
\* downloaded otherwise.
ConflictOp(k) == IF k THEN "up" ELSE "down"

\* ApplySyncPlan's three loops, in order; within a loop the order is Go's
\* map iteration order in CalcSyncPlan, i.e. any.
PlanPhases(plan) ==
    LET AsStep(op, S) == {[op |-> op, name |-> f.name, sum |-> f.sum, obj |-> f.obj] : f \in S}
    IN << AsStep("up", plan.RemoteMissing),
         AsStep("down", plan.LocalMissing),
         AsStep(ConflictOp(plan.KeepLocal), plan.Conflicts) >>

\* The steps of the loop ApplySyncPlan is in: the first phase left.
NextSteps(c) == IF todo[c] = <<>> THEN {} ELSE Head(todo[c])

Done(c, s) ==
    LET rest == Head(todo[c]) \ {s}
    IN IF rest = {} THEN Tail(todo[c]) ELSE <<rest>> \o Tail(todo[c])

\* The remote label changed under every other client that is syncing.
MarkOthers(c) ==
    interfered' = [d \in Clients |-> interfered[d] \/ (d # c /\ pc[d] \in SyncPCs)]

\* ApplySyncPlan returns an error: c is idle again.
Fail(c) ==
    /\ pc' = [pc EXCEPT ![c] = "idle"]
    /\ todo' = [todo EXCEPT ![c] = <<>>]
    /\ cur' = [cur EXCEPT ![c] = NoInfo]
    /\ keep' = [keep EXCEPT ![c] = FALSE]
    /\ interfered' = [interfered EXCEPT ![c] = FALSE]

(***************************************************************************)
(* Sync.                                                                   *)
(***************************************************************************)
SyncStart(c) ==
    /\ pc[c] = "idle"
    /\ \E k \in BOOLEAN :
          /\ keep' = [keep EXCEPT ![c] = k]
          /\ todo' = [todo EXCEPT ![c] = SelectSeq(PlanPhases(CalcSyncPlan(local[c], RemoteView, k)),
                                                   LAMBDA S : S # {})]
    /\ pc' = [pc EXCEPT ![c] = "apply"]
    /\ interfered' = [interfered EXCEPT ![c] = FALSE]
    /\ UNCHANGED <<snapVars, local, s3, meta, nextObj, cur, rmq, corrupt>>

\* A variant that registers the plan's FileInfo, whose S3Filename is "",
\* instead of the reference of the object just uploaded.
UploadS3PlanRef(c) ==
    /\ pc[c] = "apply"
    /\ nextObj < MaxObjects
    /\ \E s \in NextSteps(c) :
          /\ s.op = "up"
          /\ local[c][s.name] # Absent
          /\ s3' = [s3 EXCEPT ![nextObj + 1] = local[c][s.name]]
          /\ cur' = [cur EXCEPT ![c] = [name |-> s.name, sum |-> s.sum, obj |-> s.obj]]
          /\ todo' = [todo EXCEPT ![c] = Done(c, s)]
    /\ nextObj' = nextObj + 1
    /\ pc' = [pc EXCEPT ![c] = "addfile"]
    /\ UNCHANGED <<snapVars, local, meta, keep, rmq, interfered, corrupt>>

\* uploadFile: stat the file, then s3Client.Upload of what the file holds
\* now, under a fresh object id.
UploadS3(c) ==
    /\ pc[c] = "apply"
    /\ nextObj < MaxObjects
    /\ \E s \in NextSteps(c) :
          /\ s.op = "up"
          /\ local[c][s.name] # Absent
          /\ s3' = [s3 EXCEPT ![nextObj + 1] = local[c][s.name]]
          /\ cur' = [cur EXCEPT ![c] = [name |-> s.name, sum |-> s.sum, obj |-> nextObj + 1]]
          /\ todo' = [todo EXCEPT ![c] = Done(c, s)]
    /\ nextObj' = nextObj + 1
    /\ pc' = [pc EXCEPT ![c] = "addfile"]
    /\ UNCHANGED <<snapVars, local, meta, keep, rmq, interfered, corrupt>>

\* uploadFile, second call: AddFile with the checksum from the plan.
AddFile(c) ==
    /\ pc[c] = "addfile"
    /\ meta' = Append(meta, cur[c])
    /\ pc' = [pc EXCEPT ![c] = "apply"]
    /\ cur' = [cur EXCEPT ![c] = NoInfo]
    /\ MarkOthers(c)
    /\ corrupt' = (corrupt \/ ~(cur[c].obj \in Objects /\ s3[cur[c].obj] = cur[c].sum))
    /\ UNCHANGED <<snapVars, local, s3, nextObj, todo, keep, rmq>>

AddFileFails(c) ==
    /\ pc[c] = "addfile"
    /\ Fail(c)
    /\ UNCHANGED <<snapVars, local, s3, meta, nextObj, rmq, corrupt>>

\* s3Client.Download of the plan's object into the directory.
Download(c) ==
    /\ pc[c] = "apply"
    /\ \E s \in NextSteps(c) :
          /\ s.op = "down"
          /\ s.obj \in DOMAIN s3 /\ s3[s.obj] # Absent
          /\ local' = [local EXCEPT ![c][s.name] = s3[s.obj]]
          /\ todo' = [todo EXCEPT ![c] = Done(c, s)]
    /\ UNCHANGED <<snapVars, s3, meta, nextObj, pc, keep, cur, rmq, interfered, corrupt>>

\* A call of the current loop returns an error: os.Stat of a file that is
\* gone, a failed S3 upload, a download of a missing object or a failed
\* one.  ApplySyncPlan returns at once.
StepFails(c) ==
    /\ pc[c] = "apply"
    /\ NextSteps(c) # {}
    /\ Fail(c)
    /\ UNCHANGED <<snapVars, local, s3, meta, nextObj, rmq, corrupt>>

SyncDone(c) ==
    /\ pc[c] = "apply"
    /\ todo[c] = <<>>
    /\ pc' = [pc EXCEPT ![c] = "idle"]
    /\ keep' = [keep EXCEPT ![c] = FALSE]
    /\ interfered' = [interfered EXCEPT ![c] = FALSE]
    /\ UNCHANGED <<snapVars, local, s3, meta, nextObj, todo, cur, rmq, corrupt>>

(***************************************************************************)
(* Removal: the revisions GetFileByID, GetFileByName or, for every name of *)
(* the label, GetFileByName returned; for each, s3Client.Remove and then   *)
(* RemoveFileByID on the server; the first error ends the call.            *)
(***************************************************************************)
StartRemoving(c, revs) ==
    /\ pc[c] = "idle"
    /\ revs # {}
    /\ rmq' = [rmq EXCEPT ![c] = revs]
    /\ pc' = [pc EXCEPT ![c] = "remove"]
    /\ UNCHANGED <<snapVars, local, s3, meta, nextObj, todo, keep, cur, interfered, corrupt>>

\* RemoveFileByID: GetFileByID must return exactly one revision.
RemoveFileByID(c) == \E i \in DOMAIN meta : StartRemoving(c, {meta[i]})

\* RemoveFileByName: every revision GetFileByName returns for the name.
RemoveFileByName(c) ==
    \E n \in Names : StartRemoving(c, {r \in Range(meta) : r.name = n})

\* RemoveAllFilesWithLabel: for every name of the label, its revisions.
RemoveAllFilesWithLabel(c) == StartRemoving(c, Range(meta))

RemoveS3(c) ==
    /\ pc[c] = "remove"
    /\ \E r \in rmq[c] :
          /\ s3' = [s3 EXCEPT ![r.obj] = Absent]
          /\ cur' = [cur EXCEPT ![c] = r]
          /\ rmq' = [rmq EXCEPT ![c] = @ \ {r}]
    /\ pc' = [pc EXCEPT ![c] = "rmmeta"]
    /\ MarkOthers(c)
    /\ UNCHANGED <<snapVars, local, meta, nextObj, todo, keep, corrupt>>

RemoveMeta(c) ==
    /\ pc[c] = "rmmeta"
    /\ meta' = SelectSeq(meta, LAMBDA r : r # cur[c])
    /\ pc' = [pc EXCEPT ![c] = "remove"]
    /\ cur' = [cur EXCEPT ![c] = NoInfo]
    /\ MarkOthers(c)
    /\ UNCHANGED <<snapVars, local, s3, nextObj, todo, keep, rmq, corrupt>>

RemoveDone(c) ==
    /\ pc[c] = "remove"
    /\ rmq[c] = {}
    /\ pc' = [pc EXCEPT ![c] = "idle"]
    /\ UNCHANGED <<snapVars, local, s3, meta, nextObj, todo, keep, cur, rmq, interfered, corrupt>>

\* Either remote call returns an error and the loop stops.
RemoveFails(c) ==
    /\ pc[c] \in {"remove", "rmmeta"}
    /\ pc[c] = "remove" => rmq[c] # {}
    /\ pc' = [pc EXCEPT ![c] = "idle"]
    /\ rmq' = [rmq EXCEPT ![c] = {}]
    /\ cur' = [cur EXCEPT ![c] = NoInfo]
    /\ UNCHANGED <<snapVars, local, s3, meta, nextObj, todo, keep, interfered, corrupt>>

(***************************************************************************)
(* Snapshots and downloads by id.                                          *)
(***************************************************************************)

\* AddSnapshot (server side): the snapshot pins the file ids of the
\* label's current files, the latest revision of every name.
AddSnapshot ==
    /\ snap' = {Latest(n) : n \in {m \in Names : Latest(m) # Absent}}
    /\ UNCHANGED <<local, s3, meta, nextObj, pc, todo, keep, cur, rmq, interfered, snapq, pinned, corrupt>>

\* Download: GetFileByID must return one revision, then s3Client.Download
\* of its object into the directory.  An error changes nothing.
DownloadByID(c) ==
    /\ pc[c] = "idle"
    /\ \E i \in DOMAIN meta :
          /\ s3[meta[i].obj] # Absent
          /\ local' = [local EXCEPT ![c][meta[i].name] = s3[meta[i].obj]]
    /\ UNCHANGED <<snapVars, s3, meta, nextObj, pc, todo, keep, cur, rmq, interfered, corrupt>>

\* DownloadSnapshot: GetSnapshotByID, then a loop over its file ids.
DownloadSnapshot(c) ==
    /\ pc[c] = "idle"
    /\ snap # Absent
    /\ snapq' = [snapq EXCEPT ![c] = snap]
    /\ pinned' = [pinned EXCEPT ![c] = snap]
    /\ pc' = [pc EXCEPT ![c] = "snapshot"]
    /\ interfered' = [interfered EXCEPT ![c] = FALSE]
    /\ UNCHANGED <<snap, local, s3, meta, nextObj, todo, keep, cur, rmq, corrupt>>

\* A variant that skips a file the directory has, whatever it holds.
SnapshotSkipIfPresent(loc, r) == loc[r.name] # Absent

\* The file is skipped when its local checksum equals the revision's; a
\* missing file (checksum fails) is downloaded.
SnapshotSkip(loc, r) == loc[r.name] = r.sum

\* One iteration: GetFileByID finds the revision, then the file is skipped
\* or s3Client.Download writes the object into the directory.
SnapshotFile(c) ==
    /\ pc[c] = "snapshot"
    /\ \E r \in snapq[c] :
          /\ r \in Range(meta)
          /\ \/ /\ SnapshotSkip(local[c], r)
                /\ UNCHANGED local
             \/ /\ ~SnapshotSkip(local[c], r)
                /\ s3[r.obj] # Absent
                /\ local' = [local EXCEPT ![c][r.name] = s3[r.obj]]
          /\ snapq' = [snapq EXCEPT ![c] = @ \ {r}]
    /\ UNCHANGED <<snap, pinned, s3, meta, nextObj, pc, todo, keep, cur, rmq, interfered, corrupt>>

\* The loop returns an error: GetFileByID finds no revision (it was
\* removed), MkdirAll fails, or the S3 download fails (the object is gone).
SnapshotFileFails(c) ==
    /\ pc[c] = "snapshot"
    /\ snapq[c] # {}
    /\ pc' = [pc EXCEPT ![c] = "idle"]
    /\ snapq' = [snapq EXCEPT ![c] = {}]
    /\ pinned' = [pinned EXCEPT ![c] = {}]
    /\ interfered' = [interfered EXCEPT ![c] = FALSE]
    /\ UNCHANGED <<snap, local, s3, meta, nextObj, todo, keep, cur, rmq, corrupt>>

SnapshotDone(c) ==
    /\ pc[c] = "snapshot"
    /\ snapq[c] = {}
    /\ pc' = [pc EXCEPT ![c] = "idle"]
    /\ pinned' = [pinned EXCEPT ![c] = {}]
    /\ interfered' = [interfered EXCEPT ![c] = FALSE]
    /\ UNCHANGED <<snap, snapq, local, s3, meta, nextObj, todo, keep, cur, rmq, corrupt>>

(***************************************************************************)
(* The user writes a file of c's directory.                                *)
(***************************************************************************)
EditLocal(c) ==
    /\ \E n \in Names, v \in Contents :
          /\ local[c][n] # v
          /\ local' = [local EXCEPT ![c][n] = v]
    /\ interfered' = [interfered EXCEPT ![c] = @ \/ pc[c] \in SyncPCs \cup {"snapshot"}]
    /\ UNCHANGED <<snapVars, s3, meta, nextObj, pc, todo, keep, cur, rmq, corrupt>>

Next ==
    \/ AddSnapshot
    \/ \E c \in Clients :
       \/ SyncStart(c) \/ UploadS3(c) \/ AddFile(c) \/ AddFileFails(c)
       \/ Download(c) \/ StepFails(c) \/ SyncDone(c)
       \/ RemoveFileByID(c) \/ RemoveFileByName(c) \/ RemoveAllFilesWithLabel(c)
       \/ RemoveS3(c) \/ RemoveMeta(c) \/ RemoveDone(c)
       \/ RemoveFails(c) \/ EditLocal(c)
       \/ DownloadByID(c) \/ DownloadSnapshot(c) \/ SnapshotFile(c)
       \/ SnapshotFileFails(c) \/ SnapshotDone(c)

Spec == Init /\ [][Next]_vars

(***************************************************************************)
(* Properties.                                                             *)
(***************************************************************************)

\* c's directory holds, for every name, what the label's latest revision
\* says, and nothing the label lacks.
Agrees(c) ==
    \A n \in Names : local[c][n] = IF Latest(n) = Absent THEN Absent ELSE Latest(n).sum

\* ApplySyncPlan reports success only when the directory and the label
\* agree: the plan CalcSyncPlan computed, applied by the three loops,
\* leaves nothing unsynced, unless another client changed the label (or
\* the user the directory) during the sync.  Edits at any other time, by
\* any user, are allowed.  Behaviours in which some upload registered a
\* revision whose object lacks its checksum (the defect MetadataMatchesObject
\* shows) are set aside: a later sync then downloads bytes that differ
\* from the checksum it compares against.
SyncedAgrees ==
    [][\A c \in Clients :
         (SyncDone(c) /\ ~interfered[c] /\ ~corrupt)
            => Agrees(c)']_vars

\* With KeepLocal, a sync never overwrites a file the directory had:
\* conflicts go to the server, only missing files are downloaded.  A file
\* the user writes during the sync may be one the plan, computed before,
\* downloads: that step and the rest of such a sync are set aside (with
\* the syncs the label changed under, which cannot cause an overwrite).
KeepLocalPreservesLocal ==
    [][\A c \in Clients, n \in Names :
         (keep[c] /\ pc[c] \in SyncPCs /\ local[c][n] # Absent /\ ~interfered[c])
            => (local'[c][n] = local[c][n] \/ EditLocal(c))]_vars

\* DownloadSnapshot reports success only when the directory holds, for
\* every file the snapshot pins, the content of that revision, however
\* other clients upload, sync and remove under the label meanwhile, unless
\* the user edited the directory during the restore; behaviours with a
\* revision whose object lacks its checksum are set aside as above.
SnapshotRestored ==
    [][\A c \in Clients :
         (SnapshotDone(c) /\ ~interfered[c] /\ ~corrupt)
            => \A r \in pinned[c] : local'[c][r.name] = r.sum]_vars

\* Every revision the server lists names an S3 object that exists, except
\* while a client is between its S3 remove and its metadata remove of it
\* (RemoveFileByID / RemoveFileByName / RemoveAllFilesWithLabel).
DanglingOnlyWhileRemoving ==
    \A i \in DOMAIN meta :
       s3[meta[i].obj] = Absent => \E c \in Clients : pc[c] = "rmmeta" /\ cur[c] = meta[i]

\* Every object a revision names holds the content its checksum says.
MetadataMatchesObject ==
    \A i \in DOMAIN meta : s3[meta[i].obj] \in {meta[i].sum, Absent}

=============================================================================
