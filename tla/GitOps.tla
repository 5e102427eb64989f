------------------------------- MODULE GitOps -------------------------------
(***************************************************************************)
(* GitOps of one project: the workflows in the database of the portal are  *)
(* kept in step with the files of a git repository.  A periodic sync       *)
(* applies what users push to the repository, and the portal pushes what   *)
(* users create, update and delete through its API before it writes to the *)
(* database.  Every operation holds the lock of the project while it works *)
(* on the local clone, but neither users of the repository nor the portal's *)
(* own write to the database wait for that lock.                           *)
(***************************************************************************)
EXTENDS Naturals, FiniteSets, SequencesExt

CONSTANTS
  File,       \* workflow names, which are file names in the repository
  None,       \* no clone, no configuration, no workflow_id
  Circumstances, \* of each kind of behaviour to consider, what may go wrong
  MaxEdits,   \* bound: pushes and requests of users
  MaxCrashes  \* bound: restarts of the server

\* race: users push while the portal works on its clone; overlap: and while a
\* request has still to write to the database; conflict: the portal changes a
\* workflow whose file was changed in git; duplicate: it creates one under a
\* name in use; reuse: a name is used again after a deletion; fault: an entry
\* cannot be written to the database; push: a push fails although it would
\* have been a fast-forward; crash: the server is restarted, in a new pod or
\* in the same.
Trouble == {"race", "overlap", "conflict", "duplicate", "reuse", "fault",
            "push", "crash", "disable"}

ASSUME GitOpsAssumption == /\ Circumstances \subseteq SUBSET Trouble
                           /\ {MaxEdits, MaxCrashes} \subseteq Nat

\* None is not a commit or a workflow_id.
ASSUME NoneIsNoNumber == None \notin Nat
ASSUME FileAssumption == File # {}

VARIABLES
  allowed,  \* what may go wrong in this behaviour
  remote,   \* the branch of the repository: a sequence of commits
  local,    \* the clone: its commits and its work tree, or None
  latest,   \* latest_commit of the git config, or None when disabled
  db,       \* the workflows collection
  job,      \* what the sync and the request at work are doing
  edits,    \* pushes and requests of users so far
  clock,    \* identifiers given out so far (commits and workflows)
  crashes,  \* restarts of the server so far
  since     \* history: the commit GitOps was last enabled at

system == <<remote, local, latest, db, job, edits, clock, crashes, since>>
vars   == <<allowed, system>>

Proc == {"sync", "portal"}

Gone    == [id |-> None, rev |-> 0]
NoFiles == [f \in File |-> Gone]

\* The files of a workflow carry its workflow_id once the portal knows it;
\* rev stands for all the rest of the manifest.
Content == [id : Nat \cup {None}, rev : Nat]
Commit  == [n : Nat, tree : [File -> Content]]

Workflow == [id : Nat, file : File, rev : Nat, isRemoved : BOOLEAN]

Idle == [step |-> "idle"]

Init ==
  /\ allowed \in Circumstances
  /\ remote = <<[n |-> 0, tree |-> NoFiles]>>
  /\ local = None
  /\ latest = None
  /\ db = {}
  /\ job = [p \in Proc |-> Idle]
  /\ edits = 0
  /\ clock = 0
  /\ crashes = 0
  /\ since = 0

-----------------------------------------------------------------------------
Files(history) == Last(history).tree

Live(f)  == {w \in db : w.file = f /\ ~ w.isRemoved}
Named(f) == {w \in db : w.file = f}

\* The lock of the project is held from the first step of a job to the last
\* one on the clone; the write of a request to the database comes after it.
Locked == \E p \in Proc : job[p].step \notin {"idle", "db"}

Resting == job["portal"] = Idle

\* When users act, unless the trouble is allowed.
Undisturbed == /\ "race" \in allowed \/ ~ Locked
               /\ "overlap" \in allowed \/ Resting

Fresh(f) == /\ Named(f) = {}
            /\ \A i \in DOMAIN remote : remote[i].tree[f] = Gone

-----------------------------------------------------------------------------
(***************************************************************************)
(* Users of the repository.                                                *)
(***************************************************************************)
UserPush(f) ==
  LET tree == Files(remote)
      Add(c) == remote' = Append(remote, [n |-> clock + 1,
                                          tree |-> [tree EXCEPT ![f] = c]])
  IN /\ Undisturbed
     /\ edits < MaxEdits
     /\ \/ /\ tree[f] = Gone
           /\ "reuse" \in allowed \/ Fresh(f)
           /\ "duplicate" \in allowed \/ Live(f) = {}
           /\ Add([id |-> None, rev |-> edits + 1])
        \/ /\ tree[f] # Gone
           /\ Add([tree[f] EXCEPT !.rev = edits + 1])
        \/ /\ tree[f] # Gone
           /\ Add(Gone)
     /\ edits' = edits + 1
     /\ clock' = clock + 1
     /\ UNCHANGED <<local, latest, db, job, crashes, since>>

-----------------------------------------------------------------------------
(***************************************************************************)
(* Jobs.                                                                   *)
(***************************************************************************)
Job(op, f, id, rev, step) ==
  [op |-> op, file |-> f, id |-> id, rev |-> rev, step |-> step,
   todo |-> {}, new |-> FALSE, head |-> 0]

\* A request of the portal takes the lock; without GitOps it goes on to the
\* database at once.
Request(op, f, id) ==
  /\ ~ Locked
  /\ Resting
  /\ "overlap" \in allowed \/ job["sync"] = Idle
  /\ edits < MaxEdits
  /\ edits' = edits + 1
  /\ job' = [job EXCEPT !["portal"] =
       Job(op, f, id, edits + 1, IF latest = None THEN "db" ELSE "pull")]
  /\ UNCHANGED <<remote, local, latest, db, crashes, since>>

\* CreateChaosWorkflow makes up a workflow_id and does not look at the name.
CreateChaosWorkflow(f) ==
  /\ "duplicate" \in allowed \/ (Live(f) = {} /\ Files(remote)[f] = Gone)
  /\ "reuse" \in allowed \/ Fresh(f) \/ Live(f) # {}
  /\ Request("create", f, clock + 1)
  /\ clock' = clock + 1

InGit(w) == \/ "conflict" \in allowed
            \/ latest = None
            \/ Files(remote)[w.file].id = w.id

UpdateChaosWorkflow(w) ==
  /\ ~ w.isRemoved
  /\ InGit(w)
  /\ Request("update", w.file, w.id)
  /\ UNCHANGED clock

DeleteChaosWorkflow(w) ==
  /\ ~ w.isRemoved
  /\ InGit(w)
  /\ Request("delete", w.file, w.id)
  /\ UNCHANGED clock

\* Mutant: the sync does not take the lock.
SyncUnlocked ==
  /\ job["sync"] = Idle
  /\ latest # None
  /\ job' = [job EXCEPT !["sync"] =
       Job("sync", CHOOSE f \in File : TRUE, None, 0, "pull")]
  /\ UNCHANGED <<remote, local, latest, db, edits, clock, crashes, since>>

\* Every two minutes, for ever.
GitSyncHelper ==
  /\ ~ Locked
  /\ job["sync"] = Idle
  /\ "overlap" \in allowed \/ Resting
  /\ latest # None
  /\ job' = [job EXCEPT !["sync"] =
       Job("sync", CHOOSE f \in File : TRUE, None, 0, "pull")]
  /\ UNCHANGED <<remote, local, latest, db, edits, clock, crashes, since>>

\* EnableGitOpsHandler clones whatever there was before.
EnableGitOps ==
  /\ ~ Locked
  /\ Resting
  /\ edits < MaxEdits
  /\ edits' = edits + 1
  /\ local' = None
  /\ job' = [job EXCEPT !["portal"] =
       Job("enable", CHOOSE f \in File : TRUE, None, 0, "pull")]
  /\ UNCHANGED <<remote, latest, db, clock, crashes, since>>

DisableGitOps ==
  /\ "disable" \in allowed
  /\ ~ Locked
  /\ Resting
  /\ latest # None
  /\ latest' = None
  /\ local' = None
  /\ UNCHANGED <<remote, db, job, edits, clock, crashes, since>>

Goto(p, step) == job' = [job EXCEPT ![p].step = step]
Stop(p)       == job' = [job EXCEPT ![p] = Idle]

\* git push and git pull fast-forward only.
Behind == IsPrefix(local.history, remote)
Ahead  == IsPrefix(remote, local.history)

\* A tracked file of the work tree is not as committed.
Dirty == \E f \in File : /\ Files(local.history)[f] # Gone
                         /\ local.tree[f] # Files(local.history)[f]

\* A pull leaves the untracked files alone that it does not bring.
CheckedOut ==
  [f \in File |-> IF Files(remote)[f] = Gone /\ Files(local.history)[f] = Gone
                  THEN local.tree[f] ELSE Files(remote)[f]]

\* A commit of the work tree on top of the clone.
Committed(tree) ==
  [history |-> Append(local.history, [n |-> clock + 1, tree |-> tree]),
   tree    |-> tree]

-----------------------------------------------------------------------------
(***************************************************************************)
(* SyncDBToGit.                                                            *)
(***************************************************************************)
\* Without a clone the repository is set up again, which adds a commit.  A
\* clone that is level or ahead has nothing to pull.  A pull is refused when
\* the clone has commits of its own (when it is only ahead, that depends on
\* what it last fetched) and when it would overwrite a change of a file.
Pull(p) ==
  /\ job[p].step = "pull"
  /\ \/ /\ local = None
        /\ local' = [history |-> Append(remote, [n |-> clock + 1,
                                                 tree |-> Files(remote)]),
                     tree    |-> Files(remote)]
        /\ clock' = clock + 1
        /\ Goto(p, "setup")
     \/ /\ local # None
        /\ \/ Ahead /\ local' = local
           \/ /\ Behind /\ ~ Ahead /\ ~ Dirty
              /\ local' = [history |-> remote, tree |-> CheckedOut]
        /\ Goto(p, "changes")
        /\ UNCHANGED clock
     \/ /\ local # None
        /\ ~ Behind \/ (~ Ahead /\ Dirty)
        /\ Stop(p)
        /\ UNCHANGED <<local, clock>>
  /\ UNCHANGED <<remote, latest, db, edits, crashes, since>>

Pushed == Ahead /\ remote' = local.history

\* A push that is no fast-forward is refused; any other may fail too (the
\* network, the credentials), or succeed with its answer lost.  The commit
\* stays in the clone.
NotPushed == \/ ~ Ahead /\ remote' = remote
             \/ "push" \in allowed /\ remote' = remote
             \/ "push" \in allowed /\ Pushed

GitPush(p, next, failed) == \/ Pushed /\ Goto(p, next)
                            \/ NotPushed /\ failed

\* The error of a setup inside SyncDBToGit is overwritten; that of
\* EnableGitOps is not.
Setup(p) ==
  /\ job[p].step = "setup"
  /\ IF job[p].op = "enable" THEN GitPush(p, "config", Stop(p))
     ELSE GitPush(p, "changes", Goto(p, "changes"))
  /\ UNCHANGED <<local, latest, db, edits, clock, crashes, since>>

\* AddGitConfig; a project has one.
AddGitConfig(p) ==
  /\ job[p].step = "config"
  /\ latest' = IF latest = None THEN Last(local.history).n ELSE latest
  /\ since' = IF latest = None THEN Last(local.history).n ELSE since
  /\ Stop(p)
  /\ UNCHANGED <<remote, local, db, edits, clock, crashes>>

ChangedAt(i) ==
  {f \in File : i > 1 /\ local.history[i].tree[f] # local.history[i - 1].tree[f]}

\* Mutant: the files of the last commit only.
ChangesOfLast(known) == ChangedAt(Len(local.history))

\* The files of the commits after the known one.
ChangesAfter(known) == UNION {ChangedAt(i) : i \in known + 1 .. Len(local.history)}

\* GetChanges.  All files of the known commit but one are looked at again.
GetChanges(p) ==
  LET known == {i \in DOMAIN local.history : local.history[i].n = latest}
      head  == Last(local.history).n
      next  == IF job[p].op = "sync" THEN "idle" ELSE "write"
  IN /\ job[p].step = "changes"
     /\ \/ /\ known = {}
           /\ Stop(p)
        \/ /\ known # {} /\ head = latest
           /\ IF next = "idle" THEN Stop(p) ELSE Goto(p, next)
        \/ /\ known # {} /\ head # latest
           /\ \E k \in known, again \in SUBSET File :
                /\ again \subseteq ChangedAt(k)
                /\ Cardinality(again) < Cardinality(ChangedAt(k)) \/ again = {}
                /\ job' = [job EXCEPT ![p] =
                     [@ EXCEPT !.step = "apply", !.head = head,
                               !.todo = ChangesAfter(k) \cup again]]
     /\ UNCHANGED <<remote, local, latest, db, edits, clock, crashes, since>>

\* One changed file: its workflow is deleted, created or updated.  An error
\* is logged and the file passed over.
Passed(p, f) == job' = [job EXCEPT ![p].todo = @ \ {f}]

\* The query names the workflow without asking for isRemoved = false.
deleteWorkflow(f) ==
  IF Named(f) = {} THEN db' = db
  ELSE \E w \in Named(f) :
         db' = (db \ {w}) \cup {[w EXCEPT !.isRemoved = TRUE]}

updateWorkflow(f, c) ==
  db' = {IF w.id = c.id /\ ~ w.isRemoved THEN [w EXCEPT !.rev = c.rev] ELSE w
         : w \in db}

\* Names of workflows that are not removed are unique (an index).
Insert(id, f, rev) ==
  /\ Live(f) = {}
  /\ db' = db \cup {[id |-> id, file |-> f, rev |-> rev, isRemoved |-> FALSE]}

Apply(p, f) ==
  /\ job[p].step = "apply"
  /\ f \in job[p].todo
  /\ LET c == local.tree[f] IN
     \/ /\ "fault" \in allowed
        /\ Passed(p, f)
        /\ UNCHANGED <<local, db, clock>>
     \/ /\ c = Gone
        /\ deleteWorkflow(f)
        /\ Passed(p, f)
        /\ UNCHANGED <<local, clock>>
     \/ /\ c # Gone /\ c.id # None
        /\ updateWorkflow(f, c)
        /\ Passed(p, f)
        /\ UNCHANGED <<local, clock>>
     \/ /\ c # Gone /\ c.id = None
        /\ Insert(clock + 1, f, c.rev)
        /\ local' = [local EXCEPT !.tree[f].id = clock + 1]
        /\ clock' = clock + 1
        /\ job' = [job EXCEPT ![p].todo = @ \ {f}, ![p].new = TRUE]
     \/ /\ c # Gone /\ c.id = None /\ Live(f) # {}
        /\ Passed(p, f)
        /\ UNCHANGED <<local, db, clock>>
  /\ UNCHANGED <<remote, latest, edits, crashes, since>>

\* The files that got a workflow_id are committed.
CommitNew(p) ==
  /\ job[p].step = "apply"
  /\ job[p].todo = {}
  /\ IF job[p].new
     THEN /\ local' = Committed(local.tree)
          /\ clock' = clock + 1
          /\ job' = [job EXCEPT ![p] = [@ EXCEPT !.step = "push", !.head = clock + 1]]
     ELSE /\ Goto(p, "record")
          /\ UNCHANGED <<local, clock>>
  /\ UNCHANGED <<remote, latest, db, edits, crashes, since>>

PushNew(p) ==
  /\ job[p].step = "push"
  /\ GitPush(p, "record", Stop(p))
  /\ UNCHANGED <<local, latest, db, edits, clock, crashes, since>>

\* Mutant: latest_commit stays what it was.
RecordNothing(p) ==
  /\ job[p].step = "record"
  /\ IF job[p].op = "sync" THEN Stop(p) ELSE Goto(p, "write")
  /\ UNCHANGED <<remote, local, latest, db, edits, clock, crashes, since>>

\* latest_commit is set; DisableGitOps cannot be at work: it takes the lock.
RecordSync(p) ==
  /\ job[p].step = "record"
  /\ latest' = job[p].head
  /\ IF job[p].op = "sync" THEN Stop(p) ELSE Goto(p, "write")
  /\ UNCHANGED <<remote, local, db, edits, clock, crashes, since>>

SyncDBToGit(p) == \/ Pull(p) \/ Setup(p) \/ GetChanges(p)
                  \/ \E f \in File : Apply(p, f)
                  \/ CommitNew(p) \/ PushNew(p) \/ RecordSync(p)

-----------------------------------------------------------------------------
(***************************************************************************)
(* UpsertWorkflowToGit, DeleteWorkflowFromGit, and the database.           *)
(***************************************************************************)
\* Mutant: the commit of the sync is confirmed, not that of the file.
WriteFileKeepHead ==
  LET j == job["portal"]
      c == IF j.op = "delete" THEN Gone ELSE [id |-> j.id, rev |-> j.rev]
  IN /\ j.step = "write"
     /\ local' = Committed([local.tree EXCEPT ![j.file] = c])
     /\ clock' = clock + 1
     /\ Goto("portal", "publish")
     /\ UNCHANGED <<remote, latest, db, edits, crashes, since>>

\* The clone once a request has written or removed its file.
Written ==
  LET j == job["portal"] IN
  [local EXCEPT !.tree[j.file] =
     IF j.op = "delete" THEN Gone ELSE [id |-> j.id, rev |-> j.rev]]

\* A deletion commits nothing but the removal of its file.
Removed(f) == [Committed([Files(local.history) EXCEPT ![f] = Gone])
                 EXCEPT !.tree = Written.tree]

\* A file that is not there need not be deleted; one that is there but not
\* tracked cannot be.
WriteFile ==
  LET j       == job["portal"]
      removes == j.op = "delete"
      there   == local.tree[j.file] # Gone
      tracked == Files(local.history)[j.file] # Gone
  IN /\ j.step = "write"
     /\ \/ /\ ~ removes \/ (there /\ tracked)
           /\ local' = IF removes THEN Removed(j.file) ELSE Committed(Written.tree)
           /\ clock' = clock + 1
           /\ job' = [job EXCEPT !["portal"] =
                [@ EXCEPT !.step = "publish", !.head = clock + 1]]
        \/ /\ removes /\ ~ there
           /\ Goto("portal", "db")
           /\ UNCHANGED <<local, clock>>
        \/ /\ removes /\ there /\ ~ tracked
           /\ local' = Written
           /\ Stop("portal")
           /\ UNCHANGED clock
     /\ UNCHANGED <<remote, latest, db, edits, crashes, since>>

\* Mutant: a failed push is not an error.
PublishAnyway ==
  /\ job["portal"].step = "publish"
  /\ GitPush("portal", "confirm", Goto("portal", "confirm"))
  /\ UNCHANGED <<local, latest, db, edits, clock, crashes, since>>

Publish ==
  /\ job["portal"].step = "publish"
  /\ GitPush("portal", "confirm", Stop("portal"))
  /\ UNCHANGED <<local, latest, db, edits, clock, crashes, since>>

Confirm ==
  /\ job["portal"].step = "confirm"
  /\ latest' = job["portal"].head
  /\ Goto("portal", "db")
  /\ UNCHANGED <<remote, local, db, edits, clock, crashes, since>>

\* ProcessWorkflowCreation, ProcessWorkflowUpdate and ProcessWorkflowDelete,
\* after the lock is released.  A creation may hit the index on names.
WriteToDB ==
  LET j == job["portal"] IN
  /\ j.step = "db"
  /\ \/ j.op = "create" /\ Insert(j.id, j.file, j.rev)
     \/ j.op = "create" /\ Live(j.file) # {} /\ db' = db
     \/ /\ j.op = "update"
        /\ db' = {IF w.id = j.id THEN [w EXCEPT !.rev = j.rev] ELSE w : w \in db}
     \/ /\ j.op = "delete"
        /\ db' = {IF w.id = j.id THEN [w EXCEPT !.isRemoved = TRUE] ELSE w
                  : w \in db}
     \/ "fault" \in allowed /\ db' = db
  /\ Stop("portal")
  /\ UNCHANGED <<remote, local, latest, edits, clock, crashes, since>>

\* A directory in which cloning was cut short: like a clone that has
\* diverged, nothing can be pulled into it.
HalfMade == [history |-> <<[n |-> clock + 1, tree |-> NoFiles]>>, tree |-> NoFiles]

\* The clone is in an emptyDir: a new pod starts without one, but when only
\* the container is restarted it is found as it was left.
LeftBehind ==
  {None, local} \cup {HalfMade : p \in {q \in Proc : job[q].step = "pull" /\ local = None}}
                \cup {Written  : p \in {q \in Proc : job[q].step = "write"}}

Crash ==
  /\ "crash" \in allowed
  /\ crashes < MaxCrashes
  /\ crashes' = crashes + 1
  /\ local' \in LeftBehind
  /\ clock' = clock + 1
  /\ job' = [p \in Proc |-> Idle]
  /\ UNCHANGED <<remote, latest, db, edits, since>>

-----------------------------------------------------------------------------
Working == \/ \E p \in Proc : SyncDBToGit(p) \/ AddGitConfig(p)
           \/ WriteFile \/ Publish \/ Confirm \/ WriteToDB

Step == \/ \E f \in File : UserPush(f) \/ CreateChaosWorkflow(f)
        \/ \E w \in db : UpdateChaosWorkflow(w) \/ DeleteChaosWorkflow(w)
        \/ GitSyncHelper
        \/ EnableGitOps
        \/ DisableGitOps
        \/ Working
        \/ Crash

Next == Step /\ UNCHANGED allowed

\* The sync is started again and again, and a job that is started goes on.
Fairness == WF_system(Working) /\ WF_system(GitSyncHelper)

Spec     == Init /\ [][Next]_vars
FairSpec == Spec /\ Fairness

-----------------------------------------------------------------------------
(***************************************************************************)
(* Properties.                                                             *)
(***************************************************************************)
JobType == [op : {"sync", "create", "update", "delete", "enable"},
            file : File, id : Nat \cup {None}, rev : Nat,
            step : {"pull", "setup", "config", "changes", "apply", "push",
                    "record", "write", "publish", "confirm", "db"},
            todo : SUBSET File, new : BOOLEAN, head : Nat]

\* Types; and the lock: the two jobs are never both at work on the clone.
TypeOK ==
  /\ allowed \in Circumstances
  /\ remote \in Seq(Commit)
  /\ local = None \/ local \in [history : Seq(Commit), tree : [File -> Content]]
  /\ latest \in Nat \cup {None}
  /\ db \subseteq Workflow
  /\ job \in [Proc -> JobType \cup {Idle}]
  /\ edits \in 0..MaxEdits
  /\ clock \in Nat
  /\ crashes \in 0..MaxCrashes
  /\ since \in Nat
  /\ \E p \in Proc : job[p].step \in {"idle", "db"}

\* Nothing is under way and nothing is to be synced.
Settled == /\ \A p \in Proc : job[p] = Idle
           /\ latest = Last(remote).n

\* Changed in the repository since GitOps was enabled.
Touched(f) ==
  \E i \in 2..Len(remote) : /\ remote[i].n > since
                            /\ remote[i].tree[f] # remote[i - 1].tree[f]

\* When everything is synced, the workflow of a file that was changed in the
\* repository is the one in the database: same workflow_id, same manifest,
\* and none when the file is deleted.  It is so among users who stay out of
\* each other's way; each kind of trouble alone breaks it.
InStep ==
  Settled /\ allowed = {} =>
    \A f \in {g \in File : Touched(g)} :
      {[id |-> w.id, rev |-> w.rev] : w \in Live(f)}
        = {Files(remote)[f]} \ {Gone}

\* A workflow is written to the database by a request only after its file is
\* in the repository, whatever else happens: a push that fails also fails the
\* request.
StoredBeforeAnswered ==
  LET j == job["portal"] IN
  j.step = "db" /\ j.op \in {"create", "update"} /\ latest # None /\ j.head # 0
    => \E i \in DOMAIN remote : remote[i].tree[j.file] = [id |-> j.id, rev |-> j.rev]

\* The commit the next sync starts from is never an older one of the
\* repository than before, unless GitOps is enabled anew.
ForwardOnly ==
  [][\A i, j \in DOMAIN remote' :
       remote'[i].n = latest /\ remote'[j].n = latest' /\ since' = since => i <= j]_vars

CaughtUp == latest = None \/ latest = Last(remote).n

\* The clone has a commit or a change, or the configuration a commit, that
\* the repository never got.
Stuck == \/ local # None /\ (~ Behind \/ Dirty)
         \/ \A i \in DOMAIN remote : remote[i].n # latest

\* Users stop pushing (MaxEdits), so the sync catches up with the repository
\* or GitOps is disabled, whatever pushes fail and wherever the server is
\* restarted: it falls behind for good only when each sync ends in a clone or
\* a latest_commit with something in it that the repository never got.
CatchesUp == []<>CaughtUp \/ <>[]((\A p \in Proc : job[p] = Idle) => Stuck)

\* Changes of the repository are picked up (ci-cd.md), whoever made them
\* when. Does not hold: a clone that has diverged is never reset.
PickedUp == []<>CaughtUp
=============================================================================
