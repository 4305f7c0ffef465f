---------------------------- MODULE GitWorkflows ----------------------------
(***************************************************************************)
(* Commits, pushes and pull requests that are reviewed before they happen  *)
(* (git_workflows.py).  A client looks at a checkpoint of the repository,  *)
(* and what it asks for is refused unless a fresh checkpoint is the same.  *)
(* Developers and other clones go on working meanwhile.  The digest of a   *)
(* checkpoint is what was read for it, where most of the git commands that *)
(* read it may fail, which reads as nothing: a diff that is not UTF-8, for *)
(* one, is never read.  A commit stands for its history, and changes of    *)
(* the same file have the same statistics; test evidence, without which    *)
(* nothing is ready, is always given.                                      *)
(***************************************************************************)
EXTENDS Naturals, Sequences, FiniteSets

CONSTANTS
    Unset,
    Branch,             \* branches, also those of the remote
    ProtectedBranch,
    Change,             \* what may be staged or committed
    PathOf,             \* PathOf[change]: the file that it changes
    ProtectedPath,
    Secret,             \* changes that add what looks like a secret
    MaxCommits          \* bound on the length of a history

VARIABLES
    branch, logs, upstream, staged, edited,     \* the local repository
    tracked, remote,                            \* the remote: as last seen, and as it is
    reviewed,                                   \* the checkpoint the client has looked at
    gitApproval,                                \* the checkpoint an approval is bound to
    gitOp               \* the git command on its way; found: what was there when it was checked

repoVars == <<branch, logs, upstream, staged, edited>>
remoteVars == <<tracked, remote>>
gitVars == <<repoVars, remoteVars, reviewed, gitApproval, gitOp>>

Common(s, t) == Cardinality({n \in DOMAIN s \cap DOMAIN t : SubSeq(s, 1, n) = SubSeq(t, 1, n)})

Distance(s, t) == Len(s) - Common(s, t)

\* _git_optional_output: the output, or nothing at all.
Optional(output, nothing) == {output, nothing}

Path(change) == IF change = Unset THEN Unset ELSE PathOf[change]

Level == [ahead |-> 0, behind |-> 0]

Counts(target) ==
    IF target = Unset THEN Level
    ELSE [ahead  |-> Distance(logs[branch], tracked[target]),
          behind |-> Distance(tracked[target], logs[branch])]

\* Only git status must succeed, which tells the branch and the paths.
Checkpoints(action) ==
    {c \in [action : {action}, branch : {branch},
            paths : {[staged |-> Path(staged), edited |-> Path(edited)]},
            head     : Optional(logs[branch], <<>>),
            upstream : Optional(upstream[branch], Unset),
            counts   : Optional(Counts(upstream[branch]), Level),
            staged   : Optional(staged, Unset),
            edited   : Optional(edited, Unset),
            secret   : Optional(staged \in Secret, FALSE)] :
        c.upstream = Unset => c.counts = Level}

Ready(c) ==
    /\ c.paths.staged \notin ProtectedPath
    /\ ~c.secret
    /\ IF c.action = "commit" THEN c.paths.staged # Unset
       ELSE c.branch \notin ProtectedBranch /\ c.paths.staged = Unset /\ c.paths.edited = Unset

\* A push needs something to push, a pull request what has been pushed.
Publishable(c) ==
    c.action # "commit" =>
        c.upstream # Unset /\ c.counts.behind = 0 /\ (c.counts.ahead > 0 <=> c.action = "push")

\* Variant: only what is about to change is compared.
SameContents(c, d) == c.branch = d.branch /\ c.paths = d.paths /\ c.staged = d.staged /\ c.edited = d.edited
SameCheckpoint(c, d) == c = d

Accepted(c, held) == Ready(c) /\ SameCheckpoint(c, held) /\ Publishable(c)

----------------------------------------------------------------------------
(* Requests of the client. *)

Review(action) ==
    /\ reviewed' \in Checkpoints(action)
    /\ UNCHANGED <<repoVars, remoteVars, gitApproval, gitOp>>

\* The repository itself, as a checkpoint cannot always see it.
Actual == [branch |-> branch, head |-> logs[branch], upstream |-> upstream[branch],
           staged |-> staged, edited |-> edited]

Launch(by, fresh, held) ==
    gitOp' = [by |-> by, action |-> fresh.action, target |-> fresh.upstream,
              reviewed |-> held, found |-> Actual]

\* The client looks again before it asks for something else.
Forgotten == reviewed' = Unset

\* The runner names the branch it pushes to, which must not be protected.
StartRun ==
    /\ gitOp = Unset /\ reviewed # Unset
    /\ \E c \in Checkpoints(reviewed.action) :
          /\ Accepted(c, reviewed)
          /\ c.action = "push" => c.upstream \notin ProtectedBranch
          /\ Launch("runner", c, reviewed)
    /\ Forgotten
    /\ UNCHANGED <<repoVars, remoteVars, gitApproval>>

\* A command approval is bound to the checkpoint it was asked for with.
AskGitApproval ==
    /\ gitApproval = Unset /\ reviewed # Unset
    /\ \E c \in Checkpoints(reviewed.action) : Accepted(c, reviewed) /\ gitApproval' = c
    /\ Forgotten
    /\ UNCHANGED <<repoVars, remoteVars, gitOp>>

\* The repository is looked at again before the approval is used up.
ExecuteGitApproval ==
    /\ gitOp = Unset /\ gitApproval # Unset
    /\ \E c \in Checkpoints(gitApproval.action) :
          Accepted(c, gitApproval) /\ Launch("approval", c, gitApproval)
    /\ gitApproval' = Unset
    /\ UNCHANGED <<repoVars, remoteVars, reviewed>>

GitApprovalLapses ==
    /\ gitApproval # Unset
    /\ gitApproval' = Unset
    /\ UNCHANGED <<repoVars, remoteVars, reviewed, gitOp>>

----------------------------------------------------------------------------
(* The command of the request. *)

Commits ==
    /\ staged # Unset /\ Len(logs[branch]) < MaxCommits
    /\ logs' = [logs EXCEPT ![branch] = Append(@, staged)]
    /\ staged' = Unset
    /\ UNCHANGED <<branch, upstream, edited>>

\* A push that is not a fast-forward is rejected; one that is stopped in time
\* may have reached the remote.
Pushes(target) ==
    /\ Common(remote[target], logs[branch]) = Len(remote[target])
    /\ remote' = [remote EXCEPT ![target] = logs[branch]]
    /\ tracked' \in Optional([tracked EXCEPT ![target] = logs[branch]], tracked)

\* The runner pushes to the branch of the checkpoint; the approved command is
\* a plain git push, which goes by the configuration and wants equal names.
\* Either pushes the branch that is checked out by then.
PushTarget(o) ==
    IF o.by = "runner" THEN {o.target} ELSE {branch} \cap {upstream[branch]}

\* A pull request is a matter of the hosting service and changes no history.
GitRuns ==
    /\ gitOp # Unset
    /\ LET o == gitOp IN
          \/ /\ o.action = "commit"
             /\ Commits
             /\ UNCHANGED remoteVars
          \/ /\ o.action = "push"
             /\ \E target \in PushTarget(o) : Pushes(target)
             /\ UNCHANGED repoVars
          \/ /\ o.action = "pr"
             /\ UNCHANGED <<repoVars, remoteVars>>
    /\ gitOp' = Unset
    /\ UNCHANGED <<reviewed, gitApproval>>

\* It fails, or is stopped before it has done anything.
GitFails ==
    /\ gitOp # Unset
    /\ gitOp' = Unset
    /\ UNCHANGED <<repoVars, remoteVars, reviewed, gitApproval>>

----------------------------------------------------------------------------
(* Work that goes on beside. *)

Edit(change) ==
    /\ edited' = change
    /\ UNCHANGED <<branch, logs, upstream, staged>>

Stage ==
    /\ edited # Unset
    /\ staged' = edited /\ edited' = Unset
    /\ UNCHANGED <<branch, logs, upstream>>

SwitchBranch(b) ==
    /\ branch' = b
    /\ UNCHANGED <<logs, upstream, staged, edited>>

Reset ==
    /\ logs' = [logs EXCEPT ![branch] = <<>>]
    /\ UNCHANGED <<branch, upstream, staged, edited>>

SetUpstream(u) ==
    /\ upstream' = [upstream EXCEPT ![branch] = u]
    /\ UNCHANGED <<branch, logs, staged, edited>>

Develop ==
    /\ \/ \E change \in Change : Edit(change)
       \/ Stage
       \/ Commits
       \/ Reset
       \/ \E b \in Branch : SwitchBranch(b) \/ SetUpstream(b)
    /\ UNCHANGED <<remoteVars, reviewed, gitApproval, gitOp>>

Fetch ==
    /\ tracked' = remote
    /\ UNCHANGED <<repoVars, remote, reviewed, gitApproval, gitOp>>

OthersPush(b, change) ==
    /\ Len(remote[b]) < MaxCommits
    /\ remote' = [remote EXCEPT ![b] = Append(@, change)]
    /\ UNCHANGED <<repoVars, tracked, reviewed, gitApproval, gitOp>>

GitInit ==
    /\ branch = CHOOSE b \in Branch : TRUE
    /\ logs = [b \in Branch |-> <<>>]
    /\ upstream = [b \in Branch |-> Unset]
    /\ staged = Unset /\ edited = Unset
    /\ tracked = logs /\ remote = logs
    /\ reviewed = Unset /\ gitApproval = Unset /\ gitOp = Unset

GitNext ==
    \/ \E action \in {"commit", "push", "pr"} : Review(action)
    \/ StartRun \/ AskGitApproval \/ ExecuteGitApproval \/ GitApprovalLapses
    \/ GitRuns \/ GitFails
    \/ Develop \/ Fetch
    \/ \E b \in Branch, change \in Change : OthersPush(b, change)
=============================================================================
