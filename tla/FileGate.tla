------------------------------ MODULE FileGate ------------------------------
(***************************************************************************)
(* Guarded file operations and their approvals (guardrails.py).            *)
(*                                                                         *)
(* A request is decided by the path rules, the orchestration context and   *)
(* the hook rules.  One that needs approval claims the record that names   *)
(* it; then the operation runs, in one step, or in two when it has a       *)
(* target to clear, and any call it makes may fail.  Between these steps   *)
(* other processes on the same data, and commands that run, do what they   *)
(* like.  A process serves one request at a time.  A file is its kind, of  *)
(* which "cut" is one that was written in part, and the time it was        *)
(* modified.  No place of the model is below another one.                  *)
(***************************************************************************)
EXTENDS HookPolicy, TaskContext

CONSTANTS
    Place,          \* paths, resolved
    Outside,        \* those that are not under the root directory
    StateFile,      \* those that are under the data directory
    FileKind,       \* what there is at a path at first, or after an edit
    FileRequest,    \* requests that clients make
    FileId,         \* approvals
    FileProcess,    \* backend processes that share the data directory
    Environment,    \* "production", or "development", where a flag will do
    MaxStamp        \* bound: how often a file is modified

ASSUME FileAssumption ==
    /\ None \notin FileId /\ "absent" \notin FileKind
    /\ \A r \in FileRequest :
          /\ r.action \in {"read", "binary_read", "metadata", "list", "write", "binary_write",
                           "delete", "move", "rename", "copy"}
          /\ r.path \in Place
          /\ r.action \in {"move", "rename", "copy"} => r.target \in Place

VARIABLES
    files,          \* files[x]: what is at x
    stamp,          \* the time of the last modification
    fileApprovals,  \* the collection filesystem-approvals
    fileOp,         \* fileOp[p]: the request that p serves
    fileActs        \* history: how many operations an approval has let run

fileVars == <<files, stamp, fileApprovals, fileOp, fileActs>>

Targeted == {"move", "copy", "rename"}
Guarded == Targeted \cup {"delete"}

Gone == [kind |-> "absent", at |-> 0]
Kept(kind, at) == [kind |-> kind, at |-> at]

Present(F, x) == F[x].kind # "absent"
Directory(F, x) == F[x].kind \in {"empty", "tree"}
Oversized(F, x) == F[x].kind = "big"

\* What is left of k when it could not be removed: a tree may have lost parts.
Remains(k) ==
    {k} \cup IF k.kind = "tree" THEN {Kept("tree", stamp + 1), Kept("empty", stamp + 1)} ELSE {}

Contained(x) == x \notin Outside \cup StateFile

PathMode(r) ==
    IF \/ ~Contained(r.path)
       \/ r.action \in Targeted /\ r.target = None
       \/ r.target # None /\ ~Contained(r.target)
    THEN "blocked"
    ELSE IF r.action \in Guarded THEN "approval" ELSE "safe"

Written(r) ==
    CASE r.action \in ReadsOnly           -> {}
      [] r.action = "copy"                -> {r.target}
      [] r.action \in {"move", "rename"}  -> {r.path, r.target}
      [] OTHER                            -> {r.path}

\* The orchestration decision is asked first, and only it is remembered as
\* the reason of a block; a hook rule then tightens what is left.
FileDecision(r) ==
    LET bound == PathMode(r) # "blocked" /\ r.context # NoContext
        verdict == FileVerdict(r.context, r.action, Written(r))
        mode == IF bound /\ ~verdict.allowed THEN "blocked" ELSE PathMode(r)
        hook == HookDecision("filesystem", r.action, r.path, r.context.role, mode)
    IN  [mode |-> hook.mode, rule |-> hook.rule, task |-> IF bound THEN verdict.task ELSE None]

\* What an approval is bound to: the request with its options and payload,
\* the decision, and the state of both paths.
FileBinding(r, decision) ==
    [request |-> r, decision |-> decision, source |-> files[r.path],
     target |-> IF r.target = None THEN None ELSE files[r.target]]

Fits(r) == r.payload # "big"     \* _ensure_payload_size

NoFileOp == [pc |-> "idle", request |-> None, id |-> None, decision |-> None]

FileIdle(p) == fileOp[p] = NoFileOp

FileEnds(p) == fileOp' = [fileOp EXCEPT ![p] = NoFileOp]

RequestFile(p, id, r) ==
    /\ FileIdle(p)
    /\ fileApprovals[id].status = "absent"
    /\ FileDecision(r).mode = "approval"
    /\ Fits(r)
    /\ fileApprovals' = [fileApprovals EXCEPT ![id] = NewApproval(FileBinding(r, FileDecision(r)))]
    /\ UNCHANGED <<files, stamp, fileOp, fileActs>>

ApproveFile(id) ==
    /\ Approvable(fileApprovals[id])
    /\ fileApprovals' = [fileApprovals EXCEPT ![id] = Decided(@, "approved")]
    /\ UNCHANGED <<files, stamp, fileOp, fileActs>>

DenyFile(id) ==
    /\ Deniable(fileApprovals[id])
    /\ fileApprovals' = [fileApprovals EXCEPT ![id] = Decided(@, "denied")]
    /\ UNCHANGED <<files, stamp, fileOp, fileActs>>

FileExpires(id) ==
    /\ fileApprovals[id].status \in {"pending", "approved"}
    /\ ~fileApprovals[id].expired
    /\ fileApprovals' = [fileApprovals EXCEPT ![id].expired = TRUE]
    /\ UNCHANGED <<files, stamp, fileOp, fileActs>>

EvaluateFile(p, r, id) ==
    /\ FileIdle(p)
    /\ fileOp' = [fileOp EXCEPT ![p] =
           [pc |-> "decided", request |-> r, id |-> id, decision |-> FileDecision(r)]]
    /\ UNCHANGED <<files, stamp, fileApprovals, fileActs>>

FileClaimable(o) ==
    /\ o.id # None
    /\ o.decision.mode = "approval"
    /\ Claimable(fileApprovals[o.id], FileBinding(o.request, o.decision))

\* The record is read, compared and marked in one update of the collection.
ClaimFile(p) ==
    /\ fileOp[p].pc = "decided"
    /\ FileClaimable(fileOp[p])
    /\ fileApprovals' = [fileApprovals EXCEPT ![fileOp[p].id] = Claimed(@)]
    /\ fileOp' = [fileOp EXCEPT ![p].pc = "perform"]
    /\ UNCHANGED <<files, stamp, fileActs>>

\* _require_file_permission without a claim: a safe operation that names no
\* approval, or the approved flag, which only development trusts.
Admissible(o) ==
    /\ o.id = None
    /\ \/ o.decision.mode = "safe"
       \/ o.decision.mode = "approval" /\ o.request.forced /\ Environment = "development"

AdmitFile(p) ==
    /\ fileOp[p].pc = "decided"
    /\ Admissible(fileOp[p])
    /\ fileOp' = [fileOp EXCEPT ![p].pc = "perform"]
    /\ UNCHANGED <<files, stamp, fileApprovals, fileActs>>

RefuseFile(p) ==
    /\ fileOp[p].pc = "decided"
    /\ ~FileClaimable(fileOp[p]) /\ ~Admissible(fileOp[p])
    /\ FileEnds(p)
    /\ UNCHANGED <<files, stamp, fileApprovals, fileActs>>

\* Operations may fail at any call they make: each of the states of the files
\* that they can then leave is one of their outcomes, and so is a crash.
Fails(F, x) == {[F EXCEPT ![x] = k] : k \in Remains(F[x])}

\* Reading changes nothing, whether it succeeds or not.
ReadText(F, r) == {F}
ReadBinary(F, r) == ReadText(F, r)
Metadata(F, r) == {F}
ListDirectory(F, r) == {F}

\* Opening a file to write empties it, before the content is written.
WriteText(F, r) ==
    IF ~Fits(r) \/ Directory(F, r.path) THEN {F}
    ELSE {F} \cup {[F EXCEPT ![r.path] = Kept(kind, stamp + 1)] : kind \in {"file", "cut"}}

WriteBinary(F, r) == WriteText(F, r)

DeletePath(F, r) ==
    IF ~Present(F, r.path) \/ (F[r.path].kind = "tree" /\ ~r.recursive) THEN {F}
    ELSE Fails(F, r.path) \cup {[F EXCEPT ![r.path] = Gone]}

Outcomes(F, r) ==
    CASE r.action = "read"         -> ReadText(F, r)
      [] r.action = "binary_read"  -> ReadBinary(F, r)
      [] r.action = "metadata"     -> Metadata(F, r)
      [] r.action = "list"         -> ListDirectory(F, r)
      [] r.action = "write"        -> WriteText(F, r)
      [] r.action = "binary_write" -> WriteBinary(F, r)
      [] r.action = "delete"       -> DeletePath(F, r)

\* What is at the target may get into the way again after it was cleared: a
\* directory then takes in what is moved or copied, a file is written over.
Arrived(F, r) ==
    IF Directory(F, r.target) THEN [F EXCEPT ![r.target] = Kept("tree", stamp + 1)]
    ELSE [F EXCEPT ![r.target] = F[r.path]]

\* A copy that fails midway.
Partial(F, r) ==
    {[F EXCEPT ![r.target] = Kept(kind, stamp + 1)] :
        kind \in IF Directory(F, r.path) \/ Directory(F, r.target) THEN {"empty", "tree"} ELSE {"cut"}}

\* copytree makes the target itself; copy2 does not mind what is there.
Copies(F, r) ==
    IF Directory(F, r.path) /\ Present(F, r.target) THEN {F}
    ELSE {F, Arrived(F, r)} \cup Partial(F, r)

\* A rename within a directory, which replaces a file, or an empty directory.
RenamePath(F, r) ==
    IF \/ Directory(F, r.target) /\ (F[r.target].kind = "tree" \/ ~Directory(F, r.path))
       \/ Present(F, r.target) /\ Directory(F, r.path) /\ ~Directory(F, r.target)
    THEN {F}
    ELSE {F, [F EXCEPT ![r.target] = F[r.path], ![r.path] = Gone]}

\* Variant: what was copied is deleted, however far the copy got.
MovePathRegardless(F, r) == {[G EXCEPT ![r.path] = Gone] : G \in Copies(F, r)}

\* shutil.move renames and, where it cannot, copies and then deletes.
MovePath(F, r) ==
    LET whole == Arrived(F, r)
    IN  Copies(F, r)
          \cup IF Directory(F, r.path) /\ Present(F, r.target) /\ ~Directory(F, r.target) THEN {}
               ELSE Fails(whole, r.path) \cup {[whole EXCEPT ![r.path] = Gone]}

CopyPath(F, r) ==
    IF (Directory(F, r.path) /\ ~r.recursive) \/ Oversized(F, r.path) THEN {F} ELSE Copies(F, r)

Transfers(F, r) ==
    IF ~Present(F, r.path) THEN {F}     \* cleared with the target, or gone since
    ELSE CASE r.action = "move"   -> MovePath(F, r)
           [] r.action = "rename" -> RenamePath(F, r)
           [] r.action = "copy"   -> CopyPath(F, r)

FileLeaves(F) ==
    /\ files' = F
    /\ stamp' = IF \E x \in Place : F[x].at > stamp THEN stamp + 1 ELSE stamp
    /\ stamp' <= MaxStamp

\* Operations with a target clear it first; the others are done in one.
PerformFile(p) ==
    LET o == fileOp[p]
    IN  /\ o.pc = "perform"
        /\ o.request.action \notin Targeted
        /\ \E F \in Outcomes(files, o.request) : FileLeaves(F)
        /\ fileActs' = IF o.id = None THEN fileActs ELSE [fileActs EXCEPT ![o.id] = @ + 1]
        /\ FileEnds(p)
        /\ UNCHANGED fileApprovals

InTheWay(F, r) == Present(F, r.target) /\ ~r.overwrite

\* What is in the way is removed before it is known that the rest succeeds.
ClearTarget(p) ==
    LET o == fileOp[p]
        r == o.request
    IN  /\ o.pc = "perform"
        /\ r.action \in Targeted
        /\ \/ /\ Present(files, r.path) /\ ~InTheWay(files, r)
              /\ FileLeaves([files EXCEPT ![r.target] = Gone])
              /\ fileOp' = [fileOp EXCEPT ![p].pc = "transfer"]
           \/ /\ ~Present(files, r.path) \/ InTheWay(files, r)
              /\ FileLeaves(files)
              /\ FileEnds(p)
           \/ /\ Present(files, r.path) /\ Present(files, r.target) /\ r.overwrite
              /\ \E F \in Fails(files, r.target) : FileLeaves(F)
              /\ FileEnds(p)
        /\ fileActs' = IF o.id = None THEN fileActs ELSE [fileActs EXCEPT ![o.id] = @ + 1]
        /\ UNCHANGED fileApprovals

\* Others may have been at both places since.
TransferFile(p) ==
    /\ fileOp[p].pc = "transfer"
    /\ \E F \in Transfers(files, fileOp[p].request) : FileLeaves(F)
    /\ FileEnds(p)
    /\ UNCHANGED <<fileApprovals, fileActs>>

\* A command that runs, or anybody else, changes what is at x.
EditFile(x) ==
    /\ stamp < MaxStamp
    /\ \E kind \in FileKind : files' = [files EXCEPT ![x] = Kept(kind, stamp + 1)]
    /\ stamp' = stamp + 1
    /\ UNCHANGED <<fileApprovals, fileOp, fileActs>>

FileCrash(p) ==
    /\ ~FileIdle(p)
    /\ fileOp' = [fileOp EXCEPT ![p] = NoFileOp]
    /\ UNCHANGED <<files, stamp, fileApprovals, fileActs>>

FileInit ==
    /\ files \in [Place -> {Gone} \cup {Kept(kind, 0) : kind \in FileKind}]
    /\ \A x \in Place : ~Contained(x) => files[x] = Gone     \* no operation gets there
    /\ stamp = 0
    /\ fileApprovals = [id \in FileId |-> NoApproval]
    /\ fileOp = [p \in FileProcess |-> NoFileOp]
    /\ fileActs = [id \in FileId |-> 0]

FileNext ==
    \/ \E p \in FileProcess, id \in FileId, r \in FileRequest : RequestFile(p, id, r)
    \/ \E id \in FileId : ApproveFile(id) \/ DenyFile(id) \/ FileExpires(id)
    \/ \E p \in FileProcess, r \in FileRequest, id \in FileId \cup {None} : EvaluateFile(p, r, id)
    \/ \E p \in FileProcess :
           \/ ClaimFile(p) \/ AdmitFile(p) \/ RefuseFile(p)
           \/ PerformFile(p) \/ ClearTarget(p) \/ TransferFile(p) \/ FileCrash(p)
    \/ \E x \in Place : Contained(x) /\ EditFile(x)     \* the others never matter
=============================================================================
