------------------------------- MODULE Workspace -------------------------------
(* Git worktrees that a worker makes, inspects, pushes and removes for the    *)
(* gateway.  Every request has its own goroutine; SetupWorkspace and          *)
(* CleanupWorkspace take the lock of the worktree path and then that of the   *)
(* repository, the others one of the two or none.  Each git command is a step *)
(* and may fail.  Meanwhile agents commit in the worktrees, and others push.  *)
(* A commit is the set of changes it contains, so that an ancestor is a subset. *)
EXTENDS Integers, FiniteSets

CONSTANTS
    WsOps,        \* goroutines serving requests
    WsPaths,      \* worktree paths of one repository
    WsBranches,   \* workspace branches (their names begin with echo/)
    WsChanges,    \* changes that agents and others commit
    NoHolder, NoBranch,
    MaxWsAsks, MaxWsFaults

ASSUME WorkspaceAssumption ==
    /\ NoHolder \notin WsOps /\ NoBranch \notin WsBranches
    /\ 0 \notin WsChanges
    /\ {MaxWsAsks, MaxWsFaults} \subseteq Nat

VARIABLES
    wsRepo,      \* the clone: none, partial (a killed clone) or ok
    wsMain,      \* the base branch at the origin
    wsTrack,     \* refs/remotes/origin/<base> in the clone
    wsBase,      \* the local base branch, stale as it may be
    wsRemote,    \* workspace branches at the origin
    wsLocal,     \* workspace branches in the clone
    wsTree,      \* per path: whether it is there, the branch (or none) and the detached head
    wsPathLock, wsRepoLock,
    wsOp,        \* what each goroutine does
    wsRewritten, \* history: pushes whose HEAD was rewritten after the ancestor check
    wsUsed, wsAsks, wsFaults

wsGit == <<wsRepo, wsMain, wsTrack, wsBase, wsRemote, wsLocal, wsTree>>
wsLocks == <<wsPathLock, wsRepoLock>>
wsCounts == <<wsUsed, wsAsks, wsFaults>>
wsVars == <<wsGit, wsLocks, wsOp, wsRewritten, wsCounts>>

Missing == {0}
NoTree == [there |-> FALSE, on |-> NoBranch, at |-> {}]
WsIdle == [op |-> "none", path |-> NoHolder, branch |-> NoBranch, at |-> "idle", saw |-> {}, new |-> FALSE,
           fresh |-> FALSE, head |-> {}]

WsInit ==
    /\ wsRepo \in {"none", "ok"}
    /\ wsMain = {} /\ wsTrack = {} /\ wsBase = {}
    /\ wsRemote = [b \in WsBranches |-> Missing]
    /\ wsLocal = [b \in WsBranches |-> Missing]
    /\ wsTree = [p \in WsPaths |-> NoTree]
    /\ wsPathLock = [p \in WsPaths |-> NoHolder] /\ wsRepoLock = NoHolder
    /\ wsOp = [o \in WsOps |-> WsIdle]
    /\ wsRewritten = {}
    /\ wsUsed = {} /\ wsAsks = 0 /\ wsFaults = 0

-----------------------------------------------------------------------------
WsHead(p) == IF wsTree[p].on = NoBranch THEN wsTree[p].at ELSE wsLocal[wsTree[p].on]
CheckedOut(b) == \E p \in WsPaths : wsTree[p].there /\ wsTree[p].on = b
\* HEAD of the worktree moves to commit c.
MovesTo(p, c) ==
    /\ IF wsTree[p].on = NoBranch
       THEN wsTree' = [wsTree EXCEPT ![p].at = c] /\ UNCHANGED wsLocal
       ELSE wsLocal' = [wsLocal EXCEPT ![wsTree[p].on] = c] /\ UNCHANGED wsTree
    /\ UNCHANGED <<wsRepo, wsMain, wsTrack, wsBase, wsRemote>>

\* A change that is not used yet is committed there.
CommitOn(p) ==
    \E c \in WsChanges \ wsUsed :
        wsUsed' = wsUsed \cup {c} /\ MovesTo(p, WsHead(p) \cup {c})

WsAt(o, op, label) == wsOp[o].op = op /\ wsOp[o].at = label
WsGoes(o, label) == wsOp' = [wsOp EXCEPT ![o].at = label]

\* The operation returns and its deferred unlocks run.
WsReturns(o) ==
    /\ wsOp' = [wsOp EXCEPT ![o].at = "idle"]
    /\ wsPathLock' = [p \in WsPaths |-> IF wsPathLock[p] = o THEN NoHolder ELSE wsPathLock[p]]
    /\ wsRepoLock' = IF wsRepoLock = o THEN NoHolder ELSE wsRepoLock
    /\ UNCHANGED <<wsGit, wsRewritten, wsCounts>>

\* A request arrives and its goroutine begins with step label; a path that must be there
\* is looked at first, without a lock.
WsAsk(o, op, p, b, label) ==
    /\ wsOp[o].at = "idle"
    /\ wsAsks < MaxWsAsks
    /\ wsAsks' = wsAsks + 1
    /\ wsOp' = [wsOp EXCEPT ![o] = [WsIdle EXCEPT !.op = op, !.path = p, !.branch = b, !.at = label]]
    /\ wsRewritten' = wsRewritten \ {o}
    /\ UNCHANGED <<wsGit, wsLocks, wsUsed, wsFaults>>

AskSetup(o, p, b) == wsRepo = "ok" /\ WsAsk(o, "setup", p, b, "resolve")
AskCleanup(o, p, keep) == WsAsk(o, IF keep THEN "keep" ELSE "cleanup", p, NoBranch, "path")
AskFinalize(o, p, b) == wsTree[p].there /\ WsAsk(o, "finalize", p, b, "repo")
AskPushRef(o, p, b) == wsTree[p].there /\ WsAsk(o, "push", p, b, "path")
AskDeleteRemote(o, p, b) == wsTree[p].there /\ WsAsk(o, "delete", p, b, "list")
AskSnapshot(o, p) == wsTree[p].there /\ WsAsk(o, "look", p, NoBranch, "path")
AskCheckout(o) == WsAsk(o, "clone", NoHolder, NoBranch, "repo")

TakesPathLock(o, next) ==
    /\ wsPathLock[wsOp[o].path] = NoHolder
    /\ wsPathLock' = [wsPathLock EXCEPT ![wsOp[o].path] = o]
    /\ WsGoes(o, next)
    /\ UNCHANGED <<wsGit, wsRepoLock, wsRewritten, wsCounts>>

TakesRepoLock(o, next) ==
    /\ wsRepoLock = NoHolder
    /\ wsRepoLock' = o
    /\ WsGoes(o, next)
    /\ UNCHANGED <<wsGit, wsPathLock, wsRewritten, wsCounts>>

\* A git command fails, or takes longer than thirty seconds; the operation returns.
GitFails(o) ==
    /\ wsOp[o].at \notin {"idle", "path", "repo"}
    /\ wsFaults < MaxWsFaults
    /\ wsFaults' = wsFaults + 1
    /\ wsOp' = [wsOp EXCEPT ![o].at = "idle"]
    /\ wsPathLock' = [p \in WsPaths |-> IF wsPathLock[p] = o THEN NoHolder ELSE wsPathLock[p]]
    /\ wsRepoLock' = IF wsRepoLock = o THEN NoHolder ELSE wsRepoLock
    /\ wsRepo' = IF WsAt(o, "clone", "clone") THEN "partial" ELSE wsRepo
    /\ UNCHANGED <<wsMain, wsTrack, wsBase, wsRemote, wsLocal, wsTree, wsRewritten, wsUsed, wsAsks>>

-----------------------------------------------------------------------------
\* resolveAuthoritativeBaseRef, before any lock: the commit of the remote tracking ref
\* after a fetch, or that of the local branch if the fetch fails.
SetupResolves(o) ==
    /\ WsAt(o, "setup", "resolve")
    /\ \/ /\ wsTrack' = wsMain
          /\ wsOp' = [wsOp EXCEPT ![o].at = "path", ![o].saw = wsMain, ![o].fresh = TRUE]
          /\ UNCHANGED wsFaults
       \/ /\ wsFaults < MaxWsFaults
          /\ wsFaults' = wsFaults + 1
          /\ wsOp' = [wsOp EXCEPT ![o].at = "path", ![o].saw = wsBase]
          /\ UNCHANGED wsTrack
    /\ UNCHANGED <<wsRepo, wsMain, wsBase, wsRemote, wsLocal, wsTree, wsLocks, wsRewritten, wsUsed, wsAsks>>

\* Mutant of SetupLocks: the two locks are taken in the other order.
SetupLocks_Swapped(o) ==
    \/ WsAt(o, "setup", "path") /\ TakesRepoLock(o, "repo")
    \/ WsAt(o, "setup", "repo") /\ TakesPathLock(o, "list")

SetupLocks(o) ==
    \/ WsAt(o, "setup", "path") /\ TakesPathLock(o, "repo")
    \/ WsAt(o, "setup", "repo") /\ TakesRepoLock(o, "list")

\* stat of the path and branch --list.
SetupLists(o) ==
    /\ WsAt(o, "setup", "list")
    /\ IF wsTree[wsOp[o].path].there
       THEN WsReturns(o)
       ELSE /\ wsOp' = [wsOp EXCEPT ![o].at = "add", ![o].new = (wsLocal[wsOp[o].branch] = Missing)]
            /\ UNCHANGED <<wsGit, wsLocks, wsRewritten, wsCounts>>

\* worktree add: an existing branch is checked out (git refuses a branch that is checked
\* out elsewhere); a new worktree is detached at what the base ref is by now.
SetupAdds(o) ==
    LET p == wsOp[o].path
        b == wsOp[o].branch
        Adds(tree, next) == wsTree' = [wsTree EXCEPT ![p] = tree] /\ WsGoes(o, next)
    IN  /\ WsAt(o, "setup", "add")
        /\ ~CheckedOut(b)
        /\ IF wsOp[o].new
           THEN Adds([there |-> TRUE, on |-> NoBranch,
                      at |-> IF wsOp[o].fresh THEN wsTrack ELSE wsBase], "pin")
           ELSE Adds([there |-> TRUE, on |-> b, at |-> {}], "head")
        /\ UNCHANGED <<wsRepo, wsMain, wsTrack, wsBase, wsRemote, wsLocal, wsLocks, wsRewritten, wsCounts>>

\* checkout --detach <commit>, then checkout -b <branch> <commit>.
SetupPins(o) ==
    LET p == wsOp[o].path
        b == wsOp[o].branch
    IN  /\ \/ /\ WsAt(o, "setup", "pin")
              /\ wsTree' = [wsTree EXCEPT ![p].at = wsOp[o].saw]
              /\ WsGoes(o, "branch")
              /\ UNCHANGED wsLocal
           \/ /\ WsAt(o, "setup", "branch")
              /\ wsLocal' = [wsLocal EXCEPT ![b] = wsOp[o].saw]
              /\ wsTree' = [wsTree EXCEPT ![p].on = b]
              /\ WsGoes(o, "head")
        /\ UNCHANGED <<wsRepo, wsMain, wsTrack, wsBase, wsRemote, wsLocks, wsRewritten, wsCounts>>

\* rev-parse HEAD; the result names the requested and the initial commit.
SetupHead(o) ==
    /\ WsAt(o, "setup", "head")
    /\ wsOp' = [wsOp EXCEPT ![o].at = "report", ![o].head = WsHead(wsOp[o].path)]
    /\ UNCHANGED <<wsGit, wsLocks, wsRewritten, wsCounts>>

SetupEnds(o) == WsAt(o, "setup", "report") /\ WsReturns(o)

\* git refuses the branch: it is checked out in another worktree.
SetupRefused(o) ==
    /\ WsAt(o, "setup", "add")
    /\ CheckedOut(wsOp[o].branch)
    /\ WsReturns(o)

-----------------------------------------------------------------------------
\* CleanupWorkspaceWithOptions: under the path lock the branch is read, under both locks
\* the worktree is removed and the branch deleted, unless it is kept.
Cleaning(o) == wsOp[o].op \in {"cleanup", "keep"}

CleanupReads(o) ==
    /\ Cleaning(o)
    /\ \/ wsOp[o].at = "path" /\ TakesPathLock(o, "read")
       \/ /\ wsOp[o].at = "read"
          /\ IF wsTree[wsOp[o].path].there
             THEN /\ wsOp' = [wsOp EXCEPT ![o].at = "repo", ![o].branch = wsTree[wsOp[o].path].on]
                  /\ UNCHANGED <<wsGit, wsLocks, wsRewritten, wsCounts>>
             ELSE WsReturns(o)
       \/ wsOp[o].at = "repo" /\ TakesRepoLock(o, "remove")

CleanupRemoves(o) ==
    LET b == wsOp[o].branch
        deletes == wsOp[o].op = "cleanup" /\ b # NoBranch
    IN  /\ Cleaning(o)
        /\ \/ /\ wsOp[o].at = "remove"
              /\ wsTree' = [wsTree EXCEPT ![wsOp[o].path] = NoTree]
              /\ WsGoes(o, IF deletes THEN "drop" ELSE "end")
              /\ UNCHANGED <<wsRepo, wsMain, wsTrack, wsBase, wsRemote, wsLocal, wsLocks, wsRewritten, wsCounts>>
           \/ /\ wsOp[o].at = "drop"
              /\ wsLocal' = IF CheckedOut(b) THEN wsLocal ELSE [wsLocal EXCEPT ![b] = Missing]
              /\ WsGoes(o, "end")
              /\ UNCHANGED <<wsRepo, wsMain, wsTrack, wsBase, wsRemote, wsTree, wsLocks, wsRewritten, wsCounts>>
           \/ wsOp[o].at = "end" /\ WsReturns(o)

-----------------------------------------------------------------------------
\* finalizeSourceCommitLocked: with artifacts their changes are committed, if there are
\* any; then the branch is pushed.  The worktree may be gone since it was looked at.
FinalizeCommits(o) ==
    LET p == wsOp[o].path
    IN  /\ WsAt(o, "finalize", "status")
        /\ IF ~wsTree[p].there
           THEN WsReturns(o)
           ELSE \/ /\ WsGoes(o, "remote")
                   /\ UNCHANGED <<wsGit, wsLocks, wsRewritten, wsCounts>>
                \/ /\ CommitOn(p)
                   /\ WsGoes(o, "remote")
                   /\ UNCHANGED <<wsLocks, wsRewritten, wsAsks, wsFaults>>

\* pushSourceBranch: ls-remote, then the ancestor test.
PushLists(o) ==
    LET tip == wsRemote[wsOp[o].branch]
    IN  /\ WsAt(o, "finalize", "remote")
        /\ wsOp' = [wsOp EXCEPT ![o].saw = tip, ![o].at = IF tip = Missing THEN "pushnew" ELSE "ancestor"]
        /\ UNCHANGED <<wsGit, wsLocks, wsRewritten, wsCounts>>

\* Mutant of PushTests: the branch is pushed with the lease whatever it contains.
PushTests_Not(o) ==
    /\ WsAt(o, "finalize", "ancestor")
    /\ WsGoes(o, "lease")
    /\ UNCHANGED <<wsGit, wsLocks, wsRewritten, wsCounts>>

PushTests(o) ==
    /\ WsAt(o, "finalize", "ancestor")
    /\ IF wsOp[o].saw \subseteq WsHead(wsOp[o].path)
       THEN WsGoes(o, "lease") /\ UNCHANGED <<wsGit, wsLocks, wsRewritten, wsCounts>>
       ELSE WsReturns(o)

\* The push; with a lease it is forced if the remote branch is what ls-remote saw,
\* otherwise git accepts only a descendant.
Pushed(o, b, accepted) ==
    /\ IF accepted THEN wsRemote' = [wsRemote EXCEPT ![b] = WsHead(wsOp[o].path)] ELSE UNCHANGED wsRemote
    /\ WsGoes(o, "end")
    /\ UNCHANGED <<wsRepo, wsMain, wsTrack, wsBase, wsLocal, wsTree, wsLocks, wsRewritten, wsCounts>>

FastForward(b, p) == wsRemote[b] = Missing \/ wsRemote[b] \subseteq WsHead(p)

FinalizePushes(o) ==
    LET b == wsOp[o].branch
    IN  \/ WsAt(o, "finalize", "lease") /\ Pushed(o, b, wsRemote[b] = wsOp[o].saw)
        \/ WsAt(o, "finalize", "pushnew") /\ Pushed(o, b, FastForward(b, wsOp[o].path))

FinalizeSteps(o) ==
    \/ WsAt(o, "finalize", "repo") /\ TakesRepoLock(o, "status")
    \/ FinalizeCommits(o) \/ PushLists(o) \/ PushTests(o) \/ FinalizePushes(o)
    \/ WsAt(o, "finalize", "end") /\ WsReturns(o)

\* PushRef pushes HEAD, or another commit of the worktree, without force.
PushRefSteps(o) ==
    LET p == wsOp[o].path
        b == wsOp[o].branch
    IN  \/ WsAt(o, "push", "path") /\ TakesPathLock(o, "push")
        \/ WsAt(o, "push", "push") /\ wsTree[p].there /\ Pushed(o, b, FastForward(b, p))
        \/ WsAt(o, "push", "push") /\ ~wsTree[p].there /\ WsReturns(o)
        \/ WsAt(o, "push", "end") /\ WsReturns(o)

\* DeleteRemoteRef takes no lock.
DeleteRemoteSteps(o) ==
    LET b == wsOp[o].branch
    IN  \/ WsAt(o, "delete", "list") /\ wsRemote[b] = Missing /\ WsReturns(o)
        \/ /\ WsAt(o, "delete", "list") /\ wsRemote[b] # Missing
           /\ WsGoes(o, "drop")
           /\ UNCHANGED <<wsGit, wsLocks, wsRewritten, wsCounts>>
        \/ /\ WsAt(o, "delete", "drop")
           /\ wsRemote' = [wsRemote EXCEPT ![b] = Missing]
           /\ WsGoes(o, "end")
           /\ UNCHANGED <<wsRepo, wsMain, wsTrack, wsBase, wsLocal, wsTree, wsLocks, wsRewritten, wsCounts>>
        \/ WsAt(o, "delete", "end") /\ WsReturns(o)

\* CaptureWorkspaceSnapshot and InspectWorkspace read under the path lock.
SnapshotSteps(o) ==
    \/ WsAt(o, "look", "path") /\ TakesPathLock(o, "look")
    \/ WsAt(o, "look", "look") /\ WsReturns(o)

\* EnsureRepoCheckout clones, or fetches and checks out; what a killed clone has left may
\* or may not pass for a repository.
CheckoutSteps(o) ==
    \/ WsAt(o, "clone", "repo") /\ TakesRepoLock(o, "clone")
    \/ /\ WsAt(o, "clone", "clone")
       /\ wsRepo' \in IF wsRepo = "partial" THEN {"ok", "partial"} ELSE {"ok"}
       /\ wsTrack' = wsMain
       /\ WsGoes(o, "end")
       /\ UNCHANGED <<wsMain, wsBase, wsRemote, wsLocal, wsTree, wsLocks, wsRewritten, wsCounts>>
    \/ WsAt(o, "clone", "end") /\ WsReturns(o)

-----------------------------------------------------------------------------
\* A job gets its worktree once the setup is reported.
AgentWorks(p) ==
    /\ wsTree[p].there
    /\ \A o \in WsOps : wsOp[o].op = "setup" /\ wsOp[o].path = p => wsOp[o].at = "idle"

\* The agent of a job commits in its worktree, or amends or resets what it committed.
AgentCommits(p) ==
    /\ AgentWorks(p)
    /\ CommitOn(p)
    /\ UNCHANGED <<wsLocks, wsOp, wsRewritten, wsAsks, wsFaults>>

AgentRewrites(p) ==
    /\ AgentWorks(p)
    /\ \E c \in WsHead(p) : MovesTo(p, WsHead(p) \ {c})
    /\ wsRewritten' = wsRewritten \cup {o \in WsOps : WsAt(o, "finalize", "lease") /\ wsOp[o].path = p}
    /\ UNCHANGED <<wsLocks, wsOp, wsCounts>>

\* The base branch advances at the origin; another clone pushes to a workspace branch.
OthersPush ==
    /\ \E c \in WsChanges \ wsUsed :
           /\ wsUsed' = wsUsed \cup {c}
           /\ \/ wsMain' = wsMain \cup {c} /\ UNCHANGED wsRemote
              \/ /\ \E b \in WsBranches : /\ wsRemote[b] # Missing
                                          /\ wsRemote' = [wsRemote EXCEPT ![b] = @ \cup {c}]
                 /\ UNCHANGED wsMain
    /\ UNCHANGED <<wsRepo, wsTrack, wsBase, wsLocal, wsTree, wsLocks, wsOp, wsRewritten, wsAsks, wsFaults>>

SetupStep(o) ==
    \/ SetupResolves(o) \/ SetupLocks(o) \/ SetupLists(o) \/ SetupAdds(o) \/ SetupPins(o)
    \/ SetupHead(o) \/ SetupEnds(o) \/ SetupRefused(o)

WsStep(o) ==
    \/ SetupStep(o) \/ CleanupReads(o) \/ CleanupRemoves(o) \/ FinalizeSteps(o)
    \/ PushRefSteps(o) \/ DeleteRemoteSteps(o) \/ SnapshotSteps(o) \/ CheckoutSteps(o)

WsAsks(o) ==
    \/ AskCheckout(o)
    \/ \E p \in WsPaths :
           \/ AskSnapshot(o, p) \/ \E keep \in BOOLEAN : AskCleanup(o, p, keep)
           \/ \E b \in WsBranches : AskSetup(o, p, b) \/ AskFinalize(o, p, b) \/ AskPushRef(o, p, b)
                                    \/ AskDeleteRemote(o, p, b)

WsNext ==
    \/ \E o \in WsOps : WsAsks(o) \/ WsStep(o) \/ GitFails(o)
    \/ \E p \in WsPaths : AgentCommits(p) \/ AgentRewrites(p)
    \/ OthersPush

WsSpec == WsInit /\ [][WsNext]_wsVars

\* Goroutines run, and a git command ends: it has thirty seconds.
WsFairness == \A o \in WsOps : WF_wsVars(WsStep(o))

-----------------------------------------------------------------------------
\* A branch at the origin never loses commits to a push: the ancestor test, the lease and
\* the rules of git see to it, whoever pushes and deletes in between.  The exception is
\* that of the code: the lease forces, so that an agent that rewrites its HEAD after the
\* test takes commits away.
RemoteKeepsCommits ==
    [][\A b \in WsBranches :
           wsRemote[b] # Missing /\ wsRemote'[b] # Missing =>
               \/ wsRemote[b] \subseteq wsRemote'[b]
               \/ \E o \in wsRewritten : WsAt(o, "finalize", "lease") /\ wsOp[o].branch = b]_wsVars

\* SetupWorkspace pins a new branch to the commit that it resolved and reports, although
\* another request may fetch and move the ref before the worktree is added.
SetupPinned ==
    \A o \in WsOps : WsAt(o, "setup", "report") /\ wsOp[o].new => wsOp[o].head = wsOp[o].saw

\* Every request is answered: the locks of paths and of the repository never wait for each
\* other in a circle.
WorkspaceReturns == \A o \in WsOps : wsOp[o].at # "idle" ~> wsOp[o].at = "idle"
=============================================================================
