---------------------------- MODULE GitOps_proofs ----------------------------
(***************************************************************************)
(* Proofs for any files, any bounds and all circumstances: the lock of a   *)
(* project's GitOps, what is in the repository before a request writes to  *)
(* the database, that the sync never goes back; and, among users who stay  *)
(* out of each other's way, that database and repository agree.            *)
(***************************************************************************)
EXTENDS GitOps, TLAPS, WellFoundedInduction

Clone == [history : Seq(Commit), tree : [File -> Content]]

\* A history is never empty, and its commits are numbered upwards to n.
Numbered(h, n) ==
  /\ h # <<>>
  /\ \A i \in DOMAIN h : h[i].n <= n
  /\ \A i, j \in DOMAIN h : i < j => h[i].n < h[j].n

Numbers ==
  /\ Numbered(remote, clock)
  /\ local = None \/ Numbered(local.history, clock)
  /\ latest \in Nat => latest <= clock

AtWork(p) == job[p].step \notin {"idle", "db"}

\* Whoever is past the pull works on a clone.
CloneThere ==
  \A p \in Proc : AtWork(p) /\ job[p].step # "pull" =>
    local \in Clone /\ Numbered(local.history, clock)

Jobs ==
  /\ job["sync"] # Idle => /\ job["sync"].op = "sync"
                           /\ job["sync"].step \in {"pull", "setup", "changes", "apply",
                                                    "push", "record"}
  /\ job["portal"] # Idle /\ job["portal"].op \in {"create", "update", "delete"} =>
       job["portal"].id \in Nat

\* The commit a job is about to record is not behind the one recorded.
HeadsAhead ==
  \A p \in Proc : job[p] # Idle =>
    /\ job[p].head <= clock
    /\ job[p].step \in {"apply", "push", "record", "publish", "confirm"} /\ latest \in Nat
         => latest <= job[p].head

Put(j) == [id |-> j.id, rev |-> j.rev]

InRepository(j) == \E i \in DOMAIN remote : remote[i].tree[j.file] = Put(j)

\* The file of a request: committed, pushed, recorded.
FileFirst ==
  LET j == job["portal"] IN
  j # Idle /\ j.op \in {"create", "update"} =>
    /\ j.step = "publish" => Last(local.history).tree[j.file] = Put(j)
    /\ j.step = "confirm" => InRepository(j)
    /\ j.step = "db" /\ j.head # 0 => InRepository(j)

IInv == TypeOK /\ Numbers /\ CloneThere /\ Jobs /\ HeadsAhead /\ FileFirst

-----------------------------------------------------------------------------
(* Operators of the model.                                                 *)

LEMMA PrefixOf ==
  ASSUME NEW S, NEW s \in Seq(S), NEW t \in Seq(S), IsPrefix(s, t)
  PROVE  Len(s) <= Len(t) /\ \A i \in DOMAIN s : i \in DOMAIN t /\ s[i] = t[i]
BY DEF IsPrefix

LEMMA LastOf ==
  ASSUME NEW S, NEW s \in Seq(S), s # <<>>
  PROVE  Len(s) \in DOMAIN s /\ Last(s) = s[Len(s)] /\ Last(s) \in S
BY DEF Last

LEMMA AppendOf ==
  ASSUME NEW S, NEW s \in Seq(S), NEW e \in S
  PROVE  /\ Append(s, e) \in Seq(S) /\ Append(s, e) # <<>>
         /\ DOMAIN Append(s, e) = DOMAIN s \cup {Len(s) + 1}
         /\ Len(Append(s, e)) = Len(s) + 1
         /\ \A i \in DOMAIN s : Append(s, e)[i] = s[i]
         /\ Append(s, e)[Len(s) + 1] = e
         /\ Last(Append(s, e)) = e
BY DEF Last

LEMMA FilesOf ==
  ASSUME NEW h \in Seq(Commit), h # <<>>
  PROVE  Files(h) \in [File -> Content] /\ Last(h).n \in Nat
<1>1. Last(h) \in Commit
  BY LastOf
<1> QED
  BY <1>1 DEF Files, Commit

\* The numbering goes on when a commit is added that has the next number.
LEMMA NumberedAppend ==
  ASSUME NEW h \in Seq(Commit), NEW n \in Nat, Numbered(h, n),
         NEW e \in Commit, e.n = n + 1
  PROVE  Numbered(Append(h, e), n + 1)
<1> DEFINE g == Append(h, e)
<1>1. /\ g # <<>> /\ DOMAIN g = DOMAIN h \cup {Len(h) + 1}
      /\ \A i \in DOMAIN h : g[i] = h[i]
      /\ g[Len(h) + 1] = e /\ DOMAIN h = 1 .. Len(h) /\ Len(h) \in Nat
  BY AppendOf
<1> HIDE DEF g
<1>2. \A i \in DOMAIN h : h[i].n \in Nat /\ h[i].n <= n
  <2>1. \A i \in DOMAIN h : h[i] \in Commit
    OBVIOUS
  <2> QED
    BY <2>1 DEF Numbered, Commit
<1>3. \A i \in DOMAIN g : g[i].n <= n + 1
  BY <1>1, <1>2
<1>4. ASSUME NEW i \in DOMAIN g, NEW k \in DOMAIN g, i < k PROVE g[i].n < g[k].n
  <2>1. i \in DOMAIN h
    BY <1>1, <1>4
  <2>2. CASE k \in DOMAIN h
    BY <1>1, <1>4, <2>1, <2>2 DEF Numbered
  <2>3. CASE k = Len(h) + 1
    BY <1>1, <1>2, <2>1, <2>3
  <2> QED
    BY <1>1, <2>2, <2>3
<1>5. Numbered(g, n + 1)
  BY <1>1, <1>3, <1>4 DEF Numbered
<1> QED
  BY <1>5 DEF g

LEMMA NumberedHigher ==
  ASSUME NEW h \in Seq(Commit), NEW n \in Nat, Numbered(h, n), NEW m \in Nat, n <= m
  PROVE  Numbered(h, m)
<1>1. \A i \in DOMAIN h : h[i] \in Commit
  OBVIOUS
<1>2. \A i \in DOMAIN h : h[i].n \in Nat
  BY <1>1 DEF Commit
<1>3. \A i \in DOMAIN h : h[i].n <= m
  BY <1>2 DEF Numbered
<1> QED
  BY <1>3 DEF Numbered

\* No two commits of a history have one number, and the last has the highest.
LEMMA NumberedOrder ==
  ASSUME NEW h \in Seq(Commit), NEW n \in Nat, Numbered(h, n)
  PROVE  /\ Last(h).n \in Nat /\ Last(h).n <= n
         /\ \A i \in DOMAIN h : h[i].n \in Nat /\ h[i].n <= Last(h).n
         /\ \A i, j \in DOMAIN h : h[i].n <= h[j].n => i <= j
<1>1. \A i \in DOMAIN h : h[i] \in Commit
  OBVIOUS
<1>2. \A i \in DOMAIN h : h[i].n \in Nat
  BY <1>1 DEF Commit
<1>3. DOMAIN h = 1 .. Len(h) /\ Len(h) \in Nat /\ Len(h) \in DOMAIN h /\ Last(h) = h[Len(h)]
  BY LastOf DEF Numbered
<1>4. \A i, j \in DOMAIN h : i < j => h[i].n < h[j].n
  BY DEF Numbered
<1>5. \A i \in DOMAIN h : h[i].n <= Last(h).n
  BY <1>2, <1>3, <1>4
<1>6. \A i, j \in DOMAIN h : h[i].n <= h[j].n => i <= j
  BY <1>2, <1>3, <1>4
<1> QED
  BY <1>2, <1>3, <1>5, <1>6 DEF Numbered

-----------------------------------------------------------------------------
(* Types, and the lock.                                                    *)

Stages == {"pull", "setup", "config", "changes", "apply", "push",
           "record", "write", "publish", "confirm", "db"}

LEMMA Bounds == MaxEdits \in Nat /\ MaxCrashes \in Nat
BY GitOpsAssumption

LEMMA JobsOf ==
  ASSUME TypeOK, NEW p \in Proc, job[p] # Idle
  PROVE  /\ job[p] \in JobType /\ job[p].step \in Stages
         /\ job[p].op \in {"sync", "create", "update", "delete", "enable"}
         /\ job[p].file \in File /\ job[p].id \in Nat \cup {None} /\ job[p].rev \in Nat
         /\ job[p].todo \in SUBSET File /\ job[p].head \in Nat
<1>1. job[p] \in JobType
  BY DEF TypeOK
<1> QED
  BY <1>1 DEF JobType, Stages

LEMMA IdleStep ==
  ASSUME TypeOK, NEW p \in Proc
  PROVE  job[p].step = "idle" <=> job[p] = Idle
<1>1. CASE job[p] # Idle
  BY <1>1, JobsOf DEF Stages
<1> QED
  BY <1>1 DEF Idle

\* The other job is not at work while this one is.
LEMMA OneAtWork ==
  ASSUME TypeOK, NEW p \in Proc, AtWork(p), NEW o \in Proc, o # p
  PROVE  job[o].step \in {"idle", "db"}
BY DEF TypeOK, AtWork, Proc

LEMMA JobBecomes ==
  ASSUME TypeOK, NEW p \in Proc, NEW j \in JobType \cup {Idle}, job' = [job EXCEPT ![p] = j],
         ~ Locked \/ AtWork(p) \/ j.step \in {"idle", "db"}
  PROVE  /\ job' \in [Proc -> JobType \cup {Idle}]
         /\ job'[p] = j /\ \A o \in Proc \ {p} : job'[o] = job[o]
         /\ \E o \in Proc : job'[o].step \in {"idle", "db"}
<1>1. /\ job' \in [Proc -> JobType \cup {Idle}]
      /\ job'[p] = j /\ \A o \in Proc \ {p} : job'[o] = job[o]
  BY DEF TypeOK
<1>2. \E o \in Proc : o # p
  BY DEF Proc
<1>3. PICK o \in Proc : o # p
  BY <1>2
<1>4. job[o].step \in {"idle", "db"} \/ j.step \in {"idle", "db"}
  BY <1>3, OneAtWork DEF Locked
<1> QED
  BY <1>1, <1>3, <1>4

LEMMA JobGoes ==
  ASSUME TypeOK, NEW p \in Proc, AtWork(p), NEW s \in Stages, Goto(p, s)
  PROVE  /\ job' \in [Proc -> JobType \cup {Idle}]
         /\ \A o \in Proc \ {p} : job'[o] = job[o]
         /\ \E o \in Proc : job'[o].step \in {"idle", "db"}
         /\ job'[p] # Idle /\ job'[p].step = s
         /\ job'[p].op = job[p].op /\ job'[p].file = job[p].file /\ job'[p].id = job[p].id
         /\ job'[p].rev = job[p].rev /\ job'[p].todo = job[p].todo
         /\ job'[p].new = job[p].new /\ job'[p].head = job[p].head
<1>1. job[p] \in JobType
  BY IdleStep, JobsOf DEF AtWork
<1> DEFINE j == [job[p] EXCEPT !.step = s]
<1>2. j \in JobType
  BY <1>1 DEF JobType, Stages
<1>3. /\ j.step = s /\ j.op = job[p].op /\ j.file = job[p].file /\ j.id = job[p].id
      /\ j.rev = job[p].rev /\ j.todo = job[p].todo
      /\ j.new = job[p].new /\ j.head = job[p].head
  BY <1>1 DEF JobType
<1>4. job' = [job EXCEPT ![p] = j]
  BY DEF Goto
<1>5. j # Idle
  BY <1>3 DEF Idle, Stages
<1> HIDE DEF j
<1> QED
  BY <1>2, <1>3, <1>4, <1>5, JobBecomes

LEMMA JobStops ==
  ASSUME TypeOK, NEW p \in Proc, Stop(p)
  PROVE  /\ job' \in [Proc -> JobType \cup {Idle}]
         /\ \A o \in Proc \ {p} : job'[o] = job[o]
         /\ \E o \in Proc : job'[o].step \in {"idle", "db"}
         /\ job'[p] = Idle
BY JobBecomes DEF Stop, Idle

LEMMA JobStarts ==
  ASSUME NEW op \in {"sync", "create", "update", "delete", "enable"}, NEW f \in File,
         NEW id \in Nat \cup {None}, NEW rev \in Nat, NEW s \in Stages
  PROVE  /\ Job(op, f, id, rev, s) \in JobType /\ Job(op, f, id, rev, s) # Idle
         /\ Job(op, f, id, rev, s).op = op /\ Job(op, f, id, rev, s).file = f
         /\ Job(op, f, id, rev, s).id = id /\ Job(op, f, id, rev, s).rev = rev
         /\ Job(op, f, id, rev, s).step = s /\ Job(op, f, id, rev, s).todo = {}
         /\ Job(op, f, id, rev, s).head = 0 /\ Job(op, f, id, rev, s).new = FALSE
<1>1. Job(op, f, id, rev, s) \in JobType
  BY DEF Job, JobType, Stages
<1>2. Job(op, f, id, rev, s).step = s
  BY DEF Job
<1> QED
  BY <1>1, <1>2 DEF Job, Idle, Stages

LEMMA InitTypes == Init => TypeOK
<1> SUFFICES ASSUME Init PROVE TypeOK
  OBVIOUS
<1>1. [n |-> 0, tree |-> NoFiles] \in Commit
  BY DEF Commit, NoFiles, Gone, Content
<1>2. remote \in Seq(Commit)
  BY <1>1 DEF Init
<1>3. \E p \in Proc : job[p].step \in {"idle", "db"}
  BY DEF Init, Idle, Proc
<1> QED
  BY <1>2, <1>3, Bounds DEF Init, TypeOK

\* Content of files, and commits.
LEMMA TreeWith ==
  ASSUME NEW t \in [File -> Content], NEW f \in File, NEW c \in Content
  PROVE  [t EXCEPT ![f] = c] \in [File -> Content]
OBVIOUS

LEMMA GoneIsContent == Gone \in Content
BY DEF Gone, Content

LEMMA Contents ==
  ASSUME NEW c \in Content, NEW rev \in Nat, NEW id \in Nat \cup {None}
  PROVE  /\ [c EXCEPT !.rev = rev] \in Content /\ [c EXCEPT !.id = id] \in Content
         /\ [id |-> id, rev |-> rev] \in Content
BY DEF Content

LEMMA CommitOf ==
  ASSUME NEW n \in Nat, NEW t \in [File -> Content]
  PROVE  [n |-> n, tree |-> t] \in Commit
BY DEF Commit

LEMMA UserPushTypes ==
  ASSUME TypeOK, Numbers, NEW f \in File, UserPush(f)
  PROVE  /\ remote' \in Seq(Commit) /\ edits' \in 0 .. MaxEdits
         /\ clock' = clock + 1 /\ UNCHANGED <<local, latest, db, job, crashes, since>>
         /\ \E c \in Content : remote' = Append(remote,
               [n |-> clock + 1, tree |-> [Files(remote) EXCEPT ![f] = c]])
<1>1. Files(remote) \in [File -> Content]
  BY FilesOf DEF TypeOK, Numbers, Numbered
<1>2. edits + 1 \in Nat /\ edits + 1 \in 0 .. MaxEdits /\ clock + 1 \in Nat
  BY Bounds DEF TypeOK, UserPush
<1>3. Files(remote)[f] \in Content
  BY <1>1
<1>4. \E c \in Content : remote' = Append(remote,
               [n |-> clock + 1, tree |-> [Files(remote) EXCEPT ![f] = c]])
  <2>1. /\ [id |-> None, rev |-> edits + 1] \in Content
        /\ [Files(remote)[f] EXCEPT !.rev = edits + 1] \in Content
        /\ Gone \in Content
    BY <1>2, <1>3, Contents, GoneIsContent
  <2> DEFINE Add(c) == remote' = Append(remote,
                         [n |-> clock + 1, tree |-> [Files(remote) EXCEPT ![f] = c]])
  <2>2. \/ Add([id |-> None, rev |-> edits + 1])
        \/ Add([Files(remote)[f] EXCEPT !.rev = edits + 1])
        \/ Add(Gone)
    BY DEF UserPush
  <2> QED
    BY <2>1, <2>2
<1>5. PICK c \in Content : remote' = Append(remote,
               [n |-> clock + 1, tree |-> [Files(remote) EXCEPT ![f] = c]])
  BY <1>4
<1>6. [n |-> clock + 1, tree |-> [Files(remote) EXCEPT ![f] = c]] \in Commit
  BY <1>1, <1>2, CommitOf
<1>7. remote' \in Seq(Commit)
  BY <1>5, <1>6 DEF TypeOK
<1> QED
  BY <1>2, <1>4, <1>7 DEF UserPush

\* What a restart leaves of a clone is none, or has the commits of the clone,
\* or one commit of its own.
LEMMA LeftBehindOf ==
  ASSUME TypeOK, Numbers, CloneThere, Jobs, Crash
  PROVE  local' = None \/ (local' \in Clone /\ Numbered(local'.history, clock'))
<1>1. clock \in Nat /\ clock' = clock + 1 /\ clock' \in Nat /\ local' \in LeftBehind
  BY DEF Crash, TypeOK
<1>2. ASSUME local \in Clone, Numbered(local.history, clock)
      PROVE  Numbered(local.history, clock')
  <2>1. local.history \in Seq(Commit) /\ clock <= clock'
    BY <1>1, <1>2 DEF Clone
  <2> QED
    BY <1>1, <1>2, <2>1, NumberedHigher
<1>3. CASE local' = local /\ local # None
  BY <1>2, <1>3 DEF TypeOK, Numbers, Clone
<1>4. CASE local' = HalfMade
  <2> DEFINE e == [n |-> clock + 1, tree |-> NoFiles]
  <2>1. NoFiles \in [File -> Content]
    BY GoneIsContent DEF NoFiles
  <2>2. e \in Commit /\ e.n = clock'
    BY <1>1, <2>1, CommitOf
  <2> HIDE DEF e
  <2>3. <<e>> \in Seq(Commit) /\ Numbered(<<e>>, clock')
    BY <1>1, <2>2 DEF Numbered
  <2>4. local' = [history |-> <<e>>, tree |-> NoFiles]
    BY <1>4 DEF HalfMade, e
  <2> QED
    BY <2>1, <2>3, <2>4 DEF Clone
<1>5. ASSUME NEW p \in Proc, job[p].step = "write", local' = Written
      PROVE  local' \in Clone /\ Numbered(local'.history, clock')
  <2>1. local \in Clone /\ Numbered(local.history, clock)
    BY <1>5 DEF CloneThere, AtWork
  <2> DEFINE j == job["portal"]
             c == IF j.op = "delete" THEN Gone ELSE [id |-> j.id, rev |-> j.rev]
  <2>2. j \in JobType
    <3>1. p \in Proc /\ job[p] # Idle
      BY <1>5 DEF Idle
    <3>2. p = "portal"
      BY <1>5, <3>1 DEF Jobs, Proc
    <3> QED
      BY <3>1, <3>2 DEF TypeOK
  <2>3. j.file \in File /\ c \in Content
    <3>1. j.file \in File /\ j.id \in Nat \cup {None} /\ j.rev \in Nat
      BY <2>2 DEF JobType
    <3> QED
      BY <3>1, GoneIsContent DEF Content
  <2>4. Written = [local EXCEPT !.tree = [local.tree EXCEPT ![j.file] = c]]
    BY <2>1 DEF Written, Clone
  <2> HIDE DEF j, c
  <2> QED
    BY <1>2, <1>5, <2>1, <2>3, <2>4 DEF Clone
<1> QED
  BY <1>1, <1>3, <1>4, <1>5 DEF LeftBehind

LEMMA UsersTypes ==
  ASSUME TypeOK, Numbers, CloneThere, Jobs, allowed' = allowed,
         \/ \E f \in File : UserPush(f) \/ CreateChaosWorkflow(f)
         \/ \E w \in db : UpdateChaosWorkflow(w) \/ DeleteChaosWorkflow(w)
         \/ GitSyncHelper \/ EnableGitOps \/ DisableGitOps \/ Crash
  PROVE  TypeOK'
<1>1. ASSUME NEW f \in File, UserPush(f) PROVE TypeOK'
  BY <1>1, UserPushTypes DEF TypeOK
<1>2. ASSUME NEW op \in {"create", "update", "delete"}, NEW f \in File, NEW id \in Nat,
             Request(op, f, id), clock' \in Nat
      PROVE  TypeOK'
  <2>1. edits + 1 \in Nat /\ edits' \in 0 .. MaxEdits
    BY <1>2, Bounds DEF TypeOK, Request
  <2>2. PICK s \in {"db", "pull"} :
          job' = [job EXCEPT !["portal"] = Job(op, f, id, edits + 1, s)]
    BY <1>2 DEF Request
  <2>3. Job(op, f, id, edits + 1, s) \in JobType
    <3>1. op \in {"sync", "create", "update", "delete", "enable"} /\ s \in Stages
      BY DEF Stages
    <3> QED
      BY <2>1, <3>1, JobStarts
  <2>4. /\ job' \in [Proc -> JobType \cup {Idle}]
        /\ \E o \in Proc : job'[o].step \in {"idle", "db"}
    BY <1>2, <2>2, <2>3, JobBecomes DEF Request, Proc
  <2> QED
    BY <1>2, <2>1, <2>4 DEF Request, TypeOK
<1>3. ASSUME NEW f \in File, CreateChaosWorkflow(f) PROVE TypeOK'
  <2>1. clock + 1 \in Nat
    BY DEF TypeOK
  <2> QED
    BY <1>2, <1>3, <2>1 DEF CreateChaosWorkflow
<1>4. ASSUME NEW w \in db, UpdateChaosWorkflow(w) \/ DeleteChaosWorkflow(w) PROVE TypeOK'
  <2>1. w.id \in Nat /\ w.file \in File /\ clock \in Nat
    BY DEF TypeOK, Workflow
  <2> QED
    BY <1>2, <1>4, <2>1 DEF UpdateChaosWorkflow, DeleteChaosWorkflow
<1>5. CASE GitSyncHelper
  <2> DEFINE f == CHOOSE f \in File : TRUE
  <2>0. f \in File
    BY FileAssumption
  <2> HIDE DEF f
  <2>1. Job("sync", f, None, 0, "pull") \in JobType
    <3>1. /\ "sync" \in {"sync", "create", "update", "delete", "enable"}
          /\ None \in Nat \cup {None} /\ 0 \in Nat /\ "pull" \in Stages
      BY DEF Stages
    <3> QED
      BY <2>0, <3>1, JobStarts
  <2>2. /\ job' \in [Proc -> JobType \cup {Idle}]
        /\ \E o \in Proc : job'[o].step \in {"idle", "db"}
    BY <1>5, <2>1, JobBecomes DEF f, GitSyncHelper, Proc
  <2> QED
    BY <1>5, <2>2 DEF GitSyncHelper, TypeOK
<1>6. CASE EnableGitOps
  <2> DEFINE f == CHOOSE f \in File : TRUE
  <2>0. f \in File
    BY FileAssumption
  <2> HIDE DEF f
  <2>1. Job("enable", f, None, 0, "pull") \in JobType
    <3>1. /\ "enable" \in {"sync", "create", "update", "delete", "enable"}
          /\ None \in Nat \cup {None} /\ 0 \in Nat /\ "pull" \in Stages
      BY DEF Stages
    <3> QED
      BY <2>0, <3>1, JobStarts
  <2>2. /\ job' \in [Proc -> JobType \cup {Idle}]
        /\ \E o \in Proc : job'[o].step \in {"idle", "db"}
    BY <1>6, <2>1, JobBecomes DEF f, EnableGitOps, Proc
  <2>3. edits' \in 0 .. MaxEdits
    BY <1>6, Bounds DEF TypeOK, EnableGitOps
  <2> QED
    BY <1>6, <2>2, <2>3 DEF EnableGitOps, TypeOK
<1>7. CASE DisableGitOps
  BY <1>7 DEF DisableGitOps, TypeOK
<1>8. CASE Crash
  <2>1. /\ job' \in [Proc -> JobType \cup {Idle}]
        /\ \E o \in Proc : job'[o].step \in {"idle", "db"}
    BY <1>8 DEF Crash, Idle, Proc
  <2>2. crashes' \in 0 .. MaxCrashes /\ clock' \in Nat
    BY <1>8, Bounds DEF TypeOK, Crash
  <2>3. local' = None \/ local' \in Clone
    BY <1>8, LeftBehindOf
  <2> QED
    BY <1>8, <2>1, <2>2, <2>3 DEF Crash, TypeOK, Clone
<1> QED
  BY <1>1, <1>3, <1>4, <1>5, <1>6, <1>7, <1>8

-----------------------------------------------------------------------------
(* What the steps do to the clone, the repository and the database.        *)

LEMMA ClonePresent ==
  ASSUME IInv, NEW p \in Proc, AtWork(p), job[p].step # "pull"
  PROVE  /\ local \in Clone /\ Numbered(local.history, clock)
         /\ local.history \in Seq(Commit) /\ local.history # <<>>
         /\ local.tree \in [File -> Content] /\ clock \in Nat
BY DEF IInv, CloneThere, Clone, Numbered, TypeOK

LEMMA CommittedOf ==
  ASSUME NEW p \in Proc, IInv, AtWork(p), job[p].step # "pull",
         NEW t \in [File -> Content]
  PROVE  /\ Committed(t) \in Clone /\ Numbered(Committed(t).history, clock + 1)
         /\ Committed(t).history = Append(local.history, [n |-> clock + 1, tree |-> t])
         /\ Committed(t).tree = t
         /\ Last(Committed(t).history) = [n |-> clock + 1, tree |-> t]
<1>1. /\ local.history \in Seq(Commit) /\ clock \in Nat /\ clock + 1 \in Nat
      /\ Numbered(local.history, clock)
  BY ClonePresent
<1> DEFINE e == [n |-> clock + 1, tree |-> t]
<1>2. e \in Commit /\ e.n = clock + 1
  BY <1>1, CommitOf
<1> HIDE DEF e
<1>3. Committed(t) = [history |-> Append(local.history, e), tree |-> t]
  BY DEF Committed, e
<1>4. /\ Append(local.history, e) \in Seq(Commit) /\ Last(Append(local.history, e)) = e
      /\ Numbered(Append(local.history, e), clock + 1)
  BY <1>1, <1>2, AppendOf, NumberedAppend
<1> QED
  BY <1>3, <1>4 DEF Clone, e

\* A push adds to the repository, or does nothing.
RemoteGrows == /\ remote' \in Seq(Commit) /\ Numbered(remote', clock')
               /\ \A i \in DOMAIN remote : i \in DOMAIN remote' /\ remote'[i] = remote[i]

LEMMA PushOf ==
  ASSUME IInv, NEW p \in Proc, AtWork(p), job[p].step # "pull",
         Pushed \/ NotPushed, clock' = clock
  PROVE  RemoteGrows
<1>1. local.history \in Seq(Commit) /\ Numbered(local.history, clock)
  BY ClonePresent
<1>2. remote \in Seq(Commit) /\ Numbered(remote, clock)
  BY DEF IInv, TypeOK, Numbers
<1>3. CASE Pushed
  <2>1. remote' = local.history
    BY <1>3 DEF Pushed
  <2>2. \A i \in DOMAIN remote : i \in DOMAIN local.history /\ remote[i] = local.history[i]
    BY <1>1, <1>2, <1>3, PrefixOf DEF Ahead, Pushed
  <2> QED
    BY <1>1, <2>1, <2>2 DEF RemoteGrows
<1>4. CASE remote' = remote
  BY <1>2, <1>4 DEF RemoteGrows
<1> QED
  BY <1>3, <1>4 DEF NotPushed

\* Pull leaves a clone whose work tree is that of its last commit.
LEMMA PullOf ==
  ASSUME IInv, NEW p \in Proc, Pull(p), job[p].step = "pull"
  PROVE  /\ clock' \in Nat /\ clock <= clock'
         /\ \/ Stop(p) /\ UNCHANGED <<local, clock>>
            \/ /\ Goto(p, "setup") \/ Goto(p, "changes")
               /\ local' \in Clone /\ Numbered(local'.history, clock')
<1>1. /\ remote \in Seq(Commit) /\ Numbered(remote, clock) /\ clock \in Nat /\ clock + 1 \in Nat
      /\ remote # <<>> /\ Files(remote) \in [File -> Content]
  BY FilesOf DEF IInv, TypeOK, Numbers, Numbered
<1>2. CASE /\ local = None
           /\ local' = [history |-> Append(remote, [n |-> clock + 1, tree |-> Files(remote)]),
                        tree    |-> Files(remote)]
           /\ clock' = clock + 1
           /\ Goto(p, "setup")
  <2> DEFINE e == [n |-> clock + 1, tree |-> Files(remote)]
  <2>1. e \in Commit /\ e.n = clock + 1
    BY <1>1, CommitOf
  <2> HIDE DEF e
  <2>2. local' = [history |-> Append(remote, e), tree |-> Files(remote)]
    BY <1>2 DEF e
  <2>3. Append(remote, e) \in Seq(Commit) /\ Numbered(Append(remote, e), clock + 1)
    BY <1>1, <2>1, AppendOf, NumberedAppend
  <2> QED
    BY <1>1, <1>2, <2>2, <2>3 DEF Clone
<1>3. CASE /\ local # None
           /\ local' \in {local, [history |-> remote, tree |-> CheckedOut]}
           /\ Goto(p, "changes")
           /\ UNCHANGED clock
  <2>1. local \in Clone /\ Numbered(local.history, clock)
    BY <1>3 DEF IInv, TypeOK, Numbers, Clone
  <2>2. [history |-> remote, tree |-> CheckedOut] \in Clone
    <3>1. local.tree \in [File -> Content]
      BY <2>1 DEF Clone
    <3>2. CheckedOut \in [File -> Content]
      BY <1>1, <3>1 DEF CheckedOut
    <3> QED
      BY <1>1, <3>2 DEF Clone
  <2>3. local' \in Clone /\ Numbered(local'.history, clock)
    BY <1>1, <1>3, <2>1, <2>2
  <2> QED
    BY <1>1, <1>3, <2>3
<1>4. CASE Stop(p) /\ UNCHANGED <<local, clock>>
  BY <1>1, <1>4
<1> QED
  BY <1>2, <1>3, <1>4 DEF Pull

\* The commit the changes lead up to is not behind the one recorded.
LEMMA GetChangesOf ==
  ASSUME IInv, NEW p \in Proc, GetChanges(p)
  PROVE  \/ Stop(p)
         \/ Goto(p, "write") /\ job[p].op # "sync"
         \/ \E todo \in SUBSET File :
              /\ job' = [job EXCEPT ![p] = [job[p] EXCEPT !.step = "apply",
                            !.head = Last(local.history).n, !.todo = todo]]
              /\ latest \in Nat /\ latest <= Last(local.history).n
<1>1. AtWork(p) /\ job[p].step # "pull"
  BY DEF GetChanges, AtWork
<1>2. local.history \in Seq(Commit) /\ Numbered(local.history, clock) /\ clock \in Nat
  BY <1>1, ClonePresent
<1> DEFINE known == {i \in DOMAIN local.history : local.history[i].n = latest}
<1>3. CASE known # {}
  <2>1. latest \in Nat /\ latest <= Last(local.history).n
    BY <1>2, <1>3, NumberedOrder
  <2>2. CASE \E k \in known, again \in SUBSET File :
               job' = [job EXCEPT ![p] = [job[p] EXCEPT !.step = "apply",
                  !.head = Last(local.history).n, !.todo = ChangesAfter(k) \cup again]]
    <3>1. PICK k \in known, again \in SUBSET File :
               job' = [job EXCEPT ![p] = [job[p] EXCEPT !.step = "apply",
                  !.head = Last(local.history).n, !.todo = ChangesAfter(k) \cup again]]
      BY <2>2
    <3>2. ChangesAfter(k) \cup again \in SUBSET File
      BY DEF ChangesAfter, ChangedAt
    <3> QED
      BY <2>1, <3>1, <3>2
  <2> QED
    BY <1>3, <2>2 DEF GetChanges
<1>4. CASE known = {}
  BY <1>4 DEF GetChanges
<1> QED
  BY <1>3, <1>4

\* One file: the job goes on, the history of the clone stays as it is.
LEMMA ApplyOf ==
  ASSUME IInv, NEW p \in Proc, NEW f \in File, Apply(p, f)
  PROVE  /\ \E new \in BOOLEAN :
              job' = [job EXCEPT ![p] = [job[p] EXCEPT !.todo = job[p].todo \ {f}, !.new = new]]
         /\ clock' \in Nat /\ clock <= clock'
         /\ local' \in Clone /\ local'.history = local.history
         /\ db' \subseteq Workflow
<1>1. AtWork(p) /\ job[p].step = "apply"
  BY DEF Apply, AtWork
<1>2. /\ local \in Clone /\ local.tree \in [File -> Content] /\ local.tree[f] \in Content
      /\ clock \in Nat /\ clock + 1 \in Nat /\ db \subseteq Workflow
  BY <1>1, ClonePresent DEF IInv, TypeOK
<1>3. job[p] \in JobType
  BY <1>1, IdleStep, JobsOf DEF IInv, AtWork
<1> DEFINE Goes == \E new \in BOOLEAN :
              job' = [job EXCEPT ![p] = [job[p] EXCEPT !.todo = job[p].todo \ {f}, !.new = new]]
<1>4. ASSUME Passed(p, f) PROVE Goes
  <2>1. job[p].new \in BOOLEAN
    BY <1>3 DEF JobType
  <2>2. [job[p] EXCEPT !.todo = job[p].todo \ {f}]
          = [job[p] EXCEPT !.todo = job[p].todo \ {f}, !.new = job[p].new]
    BY <1>3 DEF JobType
  <2>3. job' = [job EXCEPT ![p] = [job[p] EXCEPT !.todo = job[p].todo \ {f}]]
    BY <1>4 DEF Passed
  <2> QED
    BY <2>1, <2>2, <2>3
<1> HIDE DEF Goes
<1>5. CASE Passed(p, f) /\ UNCHANGED <<local, clock>> /\ db' \subseteq Workflow
  <2>1. Goes
    BY <1>4, <1>5
  <2>2. clock' \in Nat /\ clock <= clock'
    BY <1>2, <1>5
  <2> QED
    BY <1>2, <1>5, <2>1, <2>2 DEF Goes
<1>6. ASSUME deleteWorkflow(f) PROVE db' \subseteq Workflow
  <2>1. CASE db' = db
    BY <1>2, <2>1
  <2>2. ASSUME NEW w \in Named(f), db' = (db \ {w}) \cup {[w EXCEPT !.isRemoved = TRUE]}
        PROVE  db' \subseteq Workflow
    <3>1. w \in Workflow
      BY <1>2 DEF Named
    <3>2. [w EXCEPT !.isRemoved = TRUE] \in Workflow
      BY <3>1 DEF Workflow
    <3> QED
      BY <1>2, <2>2, <3>2
  <2> QED
    BY <1>6, <2>1, <2>2 DEF deleteWorkflow
<1>7. ASSUME updateWorkflow(f, local.tree[f]) PROVE db' \subseteq Workflow
  <2>1. \A w \in Workflow : [w EXCEPT !.rev = local.tree[f].rev] \in Workflow
    BY <1>2 DEF Workflow, Content
  <2> QED
    BY <1>2, <1>7, <2>1 DEF updateWorkflow
<1>8. CASE /\ Insert(clock + 1, f, local.tree[f].rev)
           /\ local' = [local EXCEPT !.tree[f].id = clock + 1]
           /\ clock' = clock + 1
           /\ job' = [job EXCEPT ![p].todo = @ \ {f}, ![p].new = TRUE]
  <2>1. local'.history = local.history /\ local' \in Clone
    <3>1. [local.tree[f] EXCEPT !.id = clock + 1] \in Content
      BY <1>2, Contents DEF Content
    <3>2. [local.tree EXCEPT ![f] = [local.tree[f] EXCEPT !.id = clock + 1]] \in [File -> Content]
      BY <1>2, <3>1
    <3>3. local' = [local EXCEPT !.tree =
                      [local.tree EXCEPT ![f] = [local.tree[f] EXCEPT !.id = clock + 1]]]
      BY <1>8
    <3> QED
      BY <1>2, <3>2, <3>3 DEF Clone
  <2>2. [id |-> clock + 1, file |-> f, rev |-> local.tree[f].rev, isRemoved |-> FALSE] \in Workflow
    BY <1>2 DEF Workflow, Content
  <2>3. db' \subseteq Workflow
    BY <1>2, <1>8, <2>2 DEF Insert
  <2>4. Goes
    <3>1. job' = [job EXCEPT ![p] = [job[p] EXCEPT !.todo = job[p].todo \ {f}, !.new = TRUE]]
      BY <1>8, <1>3
    <3> QED
      BY <3>1 DEF Goes
  <2>5. clock' \in Nat /\ clock <= clock'
    BY <1>2, <1>8
  <2> QED
    BY <2>1, <2>3, <2>4, <2>5 DEF Goes
<1> QED
  BY <1>2, <1>5, <1>6, <1>7, <1>8 DEF Apply

LEMMA WriteToDBOf ==
  ASSUME IInv, WriteToDB
  PROVE  db' \subseteq Workflow
<1> DEFINE j == job["portal"]
<1>1. j \in JobType /\ db \subseteq Workflow
  BY IdleStep, JobsOf DEF WriteToDB, IInv, TypeOK, Proc
<1>2. j.op \in {"create", "update", "delete"} => j.id \in Nat
  BY <1>1, IdleStep DEF WriteToDB, IInv, Jobs, Proc
<1>3. j.file \in File /\ j.rev \in Nat
  BY <1>1 DEF JobType
<1> HIDE DEF j
<1>4. CASE j.op = "create" /\ Insert(j.id, j.file, j.rev)
  <2>1. [id |-> j.id, file |-> j.file, rev |-> j.rev, isRemoved |-> FALSE] \in Workflow
    BY <1>2, <1>3, <1>4 DEF Workflow
  <2> QED
    BY <1>1, <1>4, <2>1 DEF Insert
<1>5. CASE db' = {IF w.id = j.id THEN [w EXCEPT !.rev = j.rev] ELSE w : w \in db}
  <2>1. \A w \in Workflow : [w EXCEPT !.rev = j.rev] \in Workflow
    BY <1>3 DEF Workflow
  <2> QED
    BY <1>1, <1>5, <2>1
<1>6. CASE db' = {IF w.id = j.id THEN [w EXCEPT !.isRemoved = TRUE] ELSE w : w \in db}
  <2>1. \A w \in Workflow : [w EXCEPT !.isRemoved = TRUE] \in Workflow
    BY DEF Workflow
  <2> QED
    BY <1>1, <1>6, <2>1
<1>7. CASE db' = db
  BY <1>1, <1>7
<1> QED
  BY <1>4, <1>5, <1>6, <1>7 DEF j, WriteToDB

-----------------------------------------------------------------------------
(* The invariant.                                                          *)

LEMMA InitInv == Init => IInv
<1> SUFFICES ASSUME Init PROVE IInv
  OBVIOUS
<1>1. TypeOK
  BY InitTypes
<1>2. Numbers
  <2>1. /\ remote = <<[n |-> 0, tree |-> NoFiles]>> /\ clock = 0 /\ local = None /\ latest = None
    BY DEF Init
  <2>2. DOMAIN remote = {1} /\ remote[1].n = 0 /\ remote # <<>>
    BY <2>1
  <2>3. Numbered(remote, clock)
    BY <2>1, <2>2 DEF Numbered
  <2> QED
    BY <2>1, <2>3, NoneIsNoNumber DEF Numbers
<1>3. \A p \in Proc : job[p] = Idle /\ job[p].step = "idle"
  BY DEF Init, Idle
<1>4. CloneThere /\ Jobs /\ HeadsAhead /\ FileFirst
  BY <1>3 DEF CloneThere, AtWork, Jobs, HeadsAhead, FileFirst, Proc
<1> QED
  BY <1>1, <1>2, <1>4 DEF IInv

\* A step of the job that holds the lock: what it is to keep.
Onward(p) ==
  \/ job'[p] = Idle
  \/ /\ job'[p].op = job[p].op /\ job'[p].file = job[p].file
     /\ job'[p].id = job[p].id /\ job'[p].rev = job[p].rev
     /\ job'[p].step \in Stages \ {"pull"}
     /\ job'[p].step # "db" => local' \in Clone /\ Numbered(local'.history, clock')
     /\ p = "sync" => job'[p].step \in {"setup", "changes", "apply", "push", "record"}
     /\ job'[p].head <= clock'
     /\ job'[p].step \in {"apply", "push", "record", "publish", "confirm"} /\ latest' \in Nat
          => latest' <= job'[p].head

LEMMA WorkStep ==
  ASSUME IInv, TypeOK', NEW p \in Proc, AtWork(p),
         RemoteGrows, clock <= clock', Onward(p),
         local' = local \/ (local' \in Clone /\ Numbered(local'.history, clock')),
         latest' \in Nat => latest' <= clock',
         \A o \in Proc \ {p} : job'[o] = job[o],
         p = "portal" => FileFirst'
  PROVE  IInv'
<1>1. \A o \in Proc \ {p} : job[o].step \in {"idle", "db"}
  BY OneAtWork DEF IInv
<1>2. clock \in Nat /\ clock' \in Nat
  BY DEF IInv, TypeOK
<1>3. Numbers'
  <2>1. local' = None \/ Numbered(local'.history, clock')
    <3>1. CASE local' = local /\ local # None
      <4>1. local.history \in Seq(Commit) /\ Numbered(local.history, clock)
        BY <3>1 DEF IInv, TypeOK, Numbers
      <4> QED
        BY <1>2, <3>1, <4>1, NumberedHigher
    <3> QED
      BY <3>1
  <2> QED
    BY <2>1 DEF Numbers, RemoteGrows
<1>4. CloneThere'
  BY <1>1 DEF CloneThere, AtWork, Onward, Idle
<1>5. Jobs'
  <2>1. job[p] # Idle
    BY IdleStep DEF AtWork, IInv
  <2> QED
    BY <2>1 DEF Jobs, Onward, IInv, Proc
<1>6. HeadsAhead'
  <2> SUFFICES ASSUME NEW o \in Proc, job'[o] # Idle
               PROVE  /\ job'[o].head <= clock'
                      /\ job'[o].step \in {"apply", "push", "record", "publish", "confirm"}
                         /\ latest' \in Nat => latest' <= job'[o].head
    BY DEF HeadsAhead
  <2>1. CASE o = p
    BY <2>1 DEF Onward
  <2>2. CASE o # p
    <3>1. job[o].head <= clock /\ job[o].head \in Nat
      BY <2>2, JobsOf DEF IInv, HeadsAhead
    <3> QED
      BY <1>1, <1>2, <2>2, <3>1
  <2> QED
    BY <2>1, <2>2
<1>7. FileFirst'
  <2>1. CASE p # "portal"
    <3>1. job'["portal"] = job["portal"] /\ job["portal"].step \in {"idle", "db"}
      BY <1>1, <2>1 DEF Proc
    <3>2. ASSUME InRepository(job["portal"]) PROVE InRepository(job["portal"])'
      BY <3>1, <3>2 DEF InRepository, Put, RemoteGrows
    <3> QED
      BY <3>1, <3>2 DEF FileFirst, IInv
  <2> QED
    BY <2>1
<1> QED
  BY <1>3, <1>4, <1>5, <1>6, <1>7 DEF IInv

LEMMA SameRemote == ASSUME IInv, remote' = remote, clock' \in Nat, clock <= clock' PROVE RemoteGrows
<1>1. remote \in Seq(Commit) /\ Numbered(remote, clock) /\ clock \in Nat
  BY DEF IInv, TypeOK, Numbers
<1>2. Numbered(remote, clock')
  BY <1>1, NumberedHigher
<1> QED
  BY <1>1, <1>2 DEF RemoteGrows

\* What is known of a job at work that takes a step.
LEMMA Working1 ==
  ASSUME IInv, NEW p \in Proc, AtWork(p)
  PROVE  /\ job[p] # Idle /\ job[p].head \in Nat /\ job[p].head <= clock
         /\ clock \in Nat /\ clock + 1 \in Nat
         /\ p = "sync" => job[p].op = "sync"
         /\ job[p].step \in {"apply", "push", "record", "publish", "confirm"} /\ latest \in Nat
              => latest <= job[p].head
         /\ latest \in Nat => latest <= clock
         /\ latest \in Nat \cup {None}
BY IdleStep, JobsOf DEF IInv, AtWork, Jobs, HeadsAhead, Numbers, TypeOK

LEMMA PullInv ==
  ASSUME IInv, NEW p \in Proc, Pull(p), allowed' = allowed
  PROVE  IInv'
<1>1. AtWork(p) /\ job[p].step = "pull" /\ UNCHANGED <<remote, latest, db, edits, crashes, since>>
  BY DEF Pull, AtWork
<1>2. /\ clock' \in Nat /\ clock <= clock'
      /\ \/ Stop(p) /\ UNCHANGED <<local, clock>>
         \/ /\ Goto(p, "setup") \/ Goto(p, "changes")
            /\ local' \in Clone /\ Numbered(local'.history, clock')
  BY <1>1, PullOf
<1>3. RemoteGrows
  BY <1>1, <1>2, SameRemote
<1>4. latest \in Nat => latest <= clock'
  BY <1>1, <1>2, Working1
<1>5. CASE Stop(p) /\ UNCHANGED <<local, clock>>
  <2>1. TypeOK'
    BY <1>1, <1>2, <1>5, JobStops DEF IInv, TypeOK
  <2>2. p = "portal" => FileFirst'
    BY <1>5, JobStops DEF FileFirst, IInv
  <2> QED
    BY <1>1, <1>2, <1>3, <1>4, <1>5, <2>1, <2>2, JobStops, WorkStep DEF Onward, IInv
<1>6. ASSUME NEW s \in {"setup", "changes"}, Goto(p, s),
             local' \in Clone, Numbered(local'.history, clock')
      PROVE  IInv'
  <2>1. s \in Stages
    BY DEF Stages
  <2>2. TypeOK'
    BY <1>1, <1>2, <1>6, <2>1, JobGoes DEF IInv, TypeOK, Clone
  <2>3. job'[p].step = s /\ job'[p].head <= clock'
    BY <1>1, <1>2, <1>6, <2>1, JobGoes, Working1 DEF IInv
  <2>4. Onward(p)
    BY <1>1, <1>6, <2>1, <2>3, JobGoes DEF Onward, IInv
  <2>5. p = "portal" => FileFirst'
    BY <2>3 DEF FileFirst
  <2> QED
    BY <1>1, <1>2, <1>3, <1>4, <1>6, <2>1, <2>2, <2>4, <2>5, JobGoes, WorkStep DEF IInv
<1> QED
  BY <1>2, <1>5, <1>6

\* A job that only moves on, or stops, over the same clone and commit.
LEMMA MovesOn ==
  ASSUME IInv, NEW p \in Proc, AtWork(p), job[p].step # "pull", allowed' = allowed,
         RemoteGrows, UNCHANGED <<local, latest, clock, edits, crashes>>, since' \in Nat,
         db' \subseteq Workflow,
         \/ Stop(p)
         \/ \E s \in Stages \ {"pull"} :
              /\ Goto(p, s)
              /\ p = "sync" => s \in {"setup", "changes", "apply", "push", "record"}
              /\ s \in {"apply", "push", "record", "publish", "confirm"} =>
                   job[p].step \in {"apply", "push", "record", "publish", "confirm"}
              /\ job[p].op \in {"create", "update"} =>
                   /\ s \notin {"publish", "db"}
                   /\ s = "confirm" =>
                        \E i \in DOMAIN remote' : remote'[i].tree[job[p].file] = Put(job[p])
  PROVE  IInv'
<1>0. clock <= clock'
  BY Working1
<1>1. CASE Stop(p)
  <2>1. TypeOK'
    BY <1>1, JobStops DEF IInv, TypeOK, RemoteGrows
  <2>2. p = "portal" => FileFirst'
    BY <1>1, JobStops DEF FileFirst, IInv
  <2> QED
    BY <1>0, <1>1, <2>1, <2>2, JobStops, Working1, WorkStep DEF Onward, IInv
<1>2. ASSUME NEW s \in Stages \ {"pull"}, Goto(p, s),
             p = "sync" => s \in {"setup", "changes", "apply", "push", "record"},
             s \in {"apply", "push", "record", "publish", "confirm"} =>
                job[p].step \in {"apply", "push", "record", "publish", "confirm"},
             job[p].op \in {"create", "update"} =>
                /\ s \notin {"publish", "db"}
                /\ s = "confirm" =>
                     \E i \in DOMAIN remote' : remote'[i].tree[job[p].file] = Put(job[p])
      PROVE  IInv'
  <2>1. TypeOK'
    BY <1>2, JobGoes DEF IInv, TypeOK, RemoteGrows
  <2>2. /\ job'[p].step = s /\ job'[p].head = job[p].head
        /\ job'[p].op = job[p].op /\ job'[p].file = job[p].file
        /\ job'[p].id = job[p].id /\ job'[p].rev = job[p].rev
    BY <1>2, JobGoes DEF IInv
  <2>3. Onward(p)
    BY <1>2, <2>2, Working1, ClonePresent DEF Onward
  <2>5. p = "portal" => FileFirst'
    <3> SUFFICES ASSUME p = "portal", job'["portal"].op \in {"create", "update"}
                 PROVE  FileFirst'
      BY DEF FileFirst
    <3>1. s \notin {"publish", "db"} /\ job'["portal"].step = s
      BY <1>2, <2>2
    <3>2. s = "confirm" => InRepository(job["portal"])'
      BY <1>2, <2>2 DEF InRepository, Put
    <3> QED
      BY <3>1, <3>2 DEF FileFirst
  <2> QED
    BY <1>0, <1>2, <2>1, <2>3, <2>5, JobGoes, Working1, WorkStep DEF IInv
<1> QED
  BY <1>1, <1>2

LEMMA SetupInv ==
  ASSUME IInv, NEW p \in Proc, Setup(p), allowed' = allowed
  PROVE  IInv'
<1>1. AtWork(p) /\ job[p].step = "setup" /\ (Pushed \/ NotPushed)
  BY DEF Setup, GitPush, AtWork
<1>2. RemoteGrows
  BY <1>1, PushOf DEF Setup
<1>3. /\ UNCHANGED <<local, latest, clock, edits, crashes>> /\ since' \in Nat
      /\ db' \subseteq Workflow
  BY DEF Setup, IInv, TypeOK
<1>4. \/ Stop(p)
      \/ Goto(p, "changes")
      \/ Goto(p, "config") /\ p # "sync"
  BY <1>1, Working1 DEF Setup, GitPush
<1>5. "changes" \in Stages /\ "config" \in Stages
  BY DEF Stages
<1> QED
  BY <1>1, <1>2, <1>3, <1>4, <1>5, MovesOn

LEMMA PushNewInv ==
  ASSUME IInv, NEW p \in Proc, PushNew(p), allowed' = allowed
  PROVE  IInv'
<1>1. AtWork(p) /\ job[p].step = "push" /\ (Pushed \/ NotPushed)
  BY DEF PushNew, GitPush, AtWork
<1>2. RemoteGrows
  BY <1>1, PushOf DEF PushNew
<1>3. /\ UNCHANGED <<local, latest, clock, edits, crashes>> /\ since' \in Nat
      /\ db' \subseteq Workflow
  BY DEF PushNew, IInv, TypeOK
<1>4. Stop(p) \/ Goto(p, "record")
  BY DEF PushNew, GitPush
<1>5. "record" \in Stages
  BY DEF Stages
<1> QED
  BY <1>1, <1>2, <1>3, <1>4, <1>5, MovesOn

LEMMA AddGitConfigInv ==
  ASSUME IInv, NEW p \in Proc, AddGitConfig(p), allowed' = allowed
  PROVE  IInv'
<1>1. AtWork(p) /\ job[p].step = "config" /\ Stop(p) /\ UNCHANGED <<remote, local, db, edits, clock, crashes>>
  BY DEF AddGitConfig, AtWork
<1>2. /\ Last(local.history).n \in Nat /\ Last(local.history).n <= clock
      /\ clock \in Nat
  BY <1>1, ClonePresent, NumberedOrder
<1>3. /\ latest' \in Nat /\ latest' <= clock /\ since' \in Nat
  BY <1>2 DEF AddGitConfig, IInv, TypeOK, Numbers
<1>4. TypeOK'
  BY <1>1, <1>3, JobStops DEF IInv, TypeOK
<1>5. p = "portal" => FileFirst'
  BY <1>1, JobStops DEF FileFirst, IInv
<1>6. RemoteGrows /\ clock <= clock'
  BY <1>1, <1>2, SameRemote
<1> QED
  BY <1>1, <1>3, <1>4, <1>5, <1>6, JobStops, WorkStep DEF Onward, IInv

LEMMA RecordSyncInv ==
  ASSUME IInv, NEW p \in Proc, RecordSync(p), allowed' = allowed
  PROVE  IInv'
<1>1. AtWork(p) /\ job[p].step = "record" /\ UNCHANGED <<remote, local, db, edits, clock, crashes, since>>
  BY DEF RecordSync, AtWork
<1>2. latest' = job[p].head /\ latest' \in Nat /\ latest' <= clock
  BY <1>1, Working1 DEF RecordSync
<1>3. RemoteGrows /\ clock <= clock'
  BY <1>1, Working1, SameRemote
<1>4. CASE Stop(p)
  <2>1. TypeOK'
    BY <1>1, <1>2, <1>4, JobStops DEF IInv, TypeOK
  <2>2. p = "portal" => FileFirst'
    BY <1>4, JobStops DEF FileFirst, IInv
  <2> QED
    BY <1>1, <1>2, <1>3, <1>4, <2>1, <2>2, JobStops, WorkStep DEF Onward, IInv
<1>5. CASE Goto(p, "write") /\ job[p].op # "sync"
  <2>0. "write" \in Stages
    BY DEF Stages
  <2>1. TypeOK'
    BY <1>1, <1>2, <1>5, <2>0, JobGoes DEF IInv, TypeOK
  <2>2. job'[p].step = "write" /\ job'[p].head = job[p].head
    BY <1>1, <1>5, <2>0, JobGoes DEF IInv
  <2>3. p # "sync" /\ local \in Clone /\ Numbered(local.history, clock)
    BY <1>1, <1>5, Working1, ClonePresent
  <2>4. Onward(p)
    BY <1>1, <1>2, <1>5, <2>0, <2>2, <2>3, JobGoes, Working1 DEF Onward, IInv
  <2>5. p = "portal" => FileFirst'
    BY <2>2 DEF FileFirst
  <2> QED
    BY <1>1, <1>2, <1>3, <1>5, <2>0, <2>1, <2>4, <2>5, JobGoes, WorkStep DEF IInv
<1> QED
  BY <1>4, <1>5 DEF RecordSync

LEMMA CommitNewInv ==
  ASSUME IInv, NEW p \in Proc, CommitNew(p), allowed' = allowed
  PROVE  IInv'
<1>1. AtWork(p) /\ job[p].step = "apply" /\ UNCHANGED <<remote, latest, db, edits, crashes, since>>
  BY DEF CommitNew, AtWork
<1>2. job[p] \in JobType
  BY <1>1, IdleStep, JobsOf DEF AtWork, IInv
<1>3. CASE Goto(p, "record") /\ UNCHANGED <<local, clock>>
  <2>1. RemoteGrows /\ "record" \in Stages
    BY <1>1, <1>3, Working1, SameRemote DEF Stages
  <2>2. since' \in Nat /\ db' \subseteq Workflow
    BY <1>1 DEF IInv, TypeOK
  <2> QED
    BY <1>1, <1>3, <2>1, <2>2, MovesOn
<1>4. CASE /\ local' = Committed(local.tree)
           /\ clock' = clock + 1
           /\ job' = [job EXCEPT ![p] = [@ EXCEPT !.step = "push", !.head = clock + 1]]
  <2> DEFINE j == [job[p] EXCEPT !.step = "push", !.head = clock + 1]
  <2>1. clock \in Nat /\ clock' \in Nat /\ clock <= clock' /\ job' = [job EXCEPT ![p] = j]
    BY <1>1, <1>4, Working1
  <2>2. j \in JobType /\ j.step = "push" /\ j.head = clock'
        /\ j.op = job[p].op /\ j.file = job[p].file /\ j.id = job[p].id /\ j.rev = job[p].rev
    BY <1>2, <1>4, <2>1 DEF JobType
  <2> HIDE DEF j
  <2>3. /\ job' \in [Proc -> JobType \cup {Idle}]
        /\ job'[p] = j /\ \A o \in Proc \ {p} : job'[o] = job[o]
        /\ \E o \in Proc : job'[o].step \in {"idle", "db"}
    BY <1>1, <2>1, <2>2, JobBecomes DEF IInv
  <2>4. local' \in Clone /\ Numbered(local'.history, clock')
    BY <1>1, <1>4, ClonePresent, CommittedOf
  <2>5. TypeOK'
    BY <1>1, <2>1, <2>3, <2>4 DEF IInv, TypeOK, Clone
  <2>6. RemoteGrows
    BY <1>1, <2>1, SameRemote
  <2>7. latest \in Nat => latest <= clock'
    BY <1>1, <2>1, Working1
  <2>8. "push" \in Stages \ {"pull"}
    BY DEF Stages
  <2>9. Onward(p)
    BY <1>1, <2>1, <2>2, <2>3, <2>4, <2>7, <2>8 DEF Onward
  <2>10. p = "portal" => FileFirst'
    BY <2>2, <2>3 DEF FileFirst
  <2> QED
    BY <1>1, <2>1, <2>3, <2>4, <2>5, <2>6, <2>7, <2>9, <2>10, WorkStep
<1> QED
  BY <1>3, <1>4 DEF CommitNew

LEMMA GetChangesInv ==
  ASSUME IInv, NEW p \in Proc, GetChanges(p), allowed' = allowed
  PROVE  IInv'
<1>1. /\ AtWork(p) /\ job[p].step = "changes"
      /\ UNCHANGED <<remote, local, latest, db, edits, clock, crashes, since>>
  BY DEF GetChanges, AtWork
<1>2. job[p] \in JobType
  BY <1>1, IdleStep, JobsOf DEF AtWork, IInv
<1>3. RemoteGrows /\ clock <= clock'
  BY <1>1, Working1, SameRemote
<1>4. CASE Stop(p) \/ (Goto(p, "write") /\ job[p].op # "sync")
  <2>1. "write" \in Stages /\ since' \in Nat /\ db' \subseteq Workflow
    BY <1>1 DEF Stages, IInv, TypeOK
  <2>2. p = "sync" => Stop(p)
    BY <1>1, <1>4, Working1
  <2> QED
    BY <1>1, <1>3, <1>4, <2>1, <2>2, MovesOn
<1>5. ASSUME NEW todo \in SUBSET File,
             job' = [job EXCEPT ![p] = [job[p] EXCEPT !.step = "apply",
                       !.head = Last(local.history).n, !.todo = todo]],
             latest \in Nat, latest <= Last(local.history).n
      PROVE  IInv'
  <2> DEFINE n == Last(local.history).n
             j == [job[p] EXCEPT !.step = "apply", !.head = n, !.todo = todo]
  <2>1. n \in Nat /\ n <= clock /\ local \in Clone /\ Numbered(local.history, clock)
    BY <1>1, ClonePresent, NumberedOrder
  <2>2. job' = [job EXCEPT ![p] = j] /\ latest <= n
    BY <1>5
  <2> HIDE DEF n
  <2>3. j \in JobType /\ j.step = "apply" /\ j.head = n
        /\ j.op = job[p].op /\ j.file = job[p].file /\ j.id = job[p].id /\ j.rev = job[p].rev
    BY <1>2, <2>1 DEF JobType
  <2> HIDE DEF j
  <2>4. /\ job' \in [Proc -> JobType \cup {Idle}]
        /\ job'[p] = j /\ \A o \in Proc \ {p} : job'[o] = job[o]
        /\ \E o \in Proc : job'[o].step \in {"idle", "db"}
    BY <1>1, <2>2, <2>3, JobBecomes DEF IInv
  <2>5. TypeOK'
    BY <1>1, <2>4 DEF IInv, TypeOK
  <2>6. latest \in Nat => latest <= clock'
    BY <1>1, Working1
  <2>7. "apply" \in Stages \ {"pull"}
    BY DEF Stages
  <2>8. Onward(p)
    BY <1>1, <2>1, <2>2, <2>3, <2>4, <2>7 DEF Onward
  <2>9. p = "portal" => FileFirst'
    BY <2>3, <2>4 DEF FileFirst
  <2> QED
    BY <1>1, <1>3, <2>4, <2>5, <2>6, <2>8, <2>9, WorkStep
<1> QED
  BY <1>4, <1>5, GetChangesOf

LEMMA ApplyInv ==
  ASSUME IInv, NEW p \in Proc, NEW f \in File, Apply(p, f), allowed' = allowed
  PROVE  IInv'
<1>1. /\ AtWork(p) /\ job[p].step = "apply"
      /\ UNCHANGED <<remote, latest, edits, crashes, since>>
  BY DEF Apply, AtWork
<1>2. job[p] \in JobType
  BY <1>1, IdleStep, JobsOf DEF AtWork, IInv
<1>3. PICK new \in BOOLEAN :
        job' = [job EXCEPT ![p] = [job[p] EXCEPT !.todo = job[p].todo \ {f}, !.new = new]]
  BY ApplyOf
<1>4. /\ clock' \in Nat /\ clock <= clock' /\ db' \subseteq Workflow
      /\ local' \in Clone /\ local'.history = local.history
  BY ApplyOf
<1>5. Numbered(local'.history, clock')
  BY <1>1, <1>4, ClonePresent, NumberedHigher
<1> DEFINE j == [job[p] EXCEPT !.todo = job[p].todo \ {f}, !.new = new]
<1>6. job' = [job EXCEPT ![p] = j]
  BY <1>3
<1>7. j \in JobType /\ j.step = "apply" /\ j.head = job[p].head
      /\ j.op = job[p].op /\ j.file = job[p].file /\ j.id = job[p].id /\ j.rev = job[p].rev
  BY <1>1, <1>2 DEF JobType
<1> HIDE DEF j
<1>8. /\ job' \in [Proc -> JobType \cup {Idle}]
      /\ job'[p] = j /\ \A o \in Proc \ {p} : job'[o] = job[o]
      /\ \E o \in Proc : job'[o].step \in {"idle", "db"}
  BY <1>1, <1>6, <1>7, JobBecomes DEF IInv
<1>9. TypeOK'
  BY <1>1, <1>4, <1>8 DEF IInv, TypeOK, Clone
<1>10. RemoteGrows
  BY <1>1, <1>4, SameRemote
<1>11. latest \in Nat => latest <= clock'
  BY <1>1, <1>4, Working1
<1>12. "apply" \in Stages \ {"pull"}
  BY DEF Stages
<1>13. j.head <= clock' /\ (latest \in Nat => latest <= j.head)
  BY <1>1, <1>4, <1>7, Working1
<1>14. Onward(p)
  BY <1>1, <1>4, <1>5, <1>7, <1>8, <1>12, <1>13 DEF Onward
<1>15. p = "portal" => FileFirst'
  BY <1>7, <1>8 DEF FileFirst
<1> QED
  BY <1>1, <1>4, <1>5, <1>8, <1>9, <1>10, <1>11, <1>14, <1>15, WorkStep

LEMMA PortalProc == "portal" \in Proc /\ "sync" \in Proc /\ Proc = {"sync", "portal"}
BY DEF Proc

LEMMA WriteFileInv ==
  ASSUME IInv, WriteFile, allowed' = allowed
  PROVE  IInv'
<1> DEFINE old == job["portal"]
           c   == IF old.op = "delete" THEN Gone ELSE [id |-> old.id, rev |-> old.rev]
<1>1. /\ AtWork("portal") /\ old.step = "write"
      /\ UNCHANGED <<remote, latest, db, edits, crashes, since>>
  BY DEF WriteFile, AtWork
<1>2. old \in JobType
  BY <1>1, IdleStep, JobsOf, PortalProc DEF AtWork, IInv
<1>3. c \in Content
  <2>1. old.id \in Nat \cup {None} /\ old.rev \in Nat
    BY <1>2 DEF JobType
  <2> QED
    BY <2>1, GoneIsContent DEF Content
<1>4. old.op \in {"create", "update"} => c # Gone /\ c = Put(old)
  <2>1. old # Idle
    BY <1>1, IdleStep, PortalProc DEF AtWork, IInv
  <2>2. old.op \in {"create", "update"} => old.id \in Nat
    BY <2>1 DEF IInv, Jobs
  <2> QED
    BY <2>2, NoneIsNoNumber DEF Gone, Put
<1>9. /\ old.file \in File
      /\ old.op = "delete" => c = Gone
      /\ local.tree \in [File -> Content] /\ local \in Clone
      /\ Written = [local EXCEPT !.tree = [local.tree EXCEPT ![old.file] = c]]
  <2>1. local.tree \in [File -> Content] /\ local \in Clone
    BY <1>1, ClonePresent, PortalProc
  <2>2. old.file \in File
    BY <1>2 DEF JobType
  <2>3. Written = [local EXCEPT !.tree = [@ EXCEPT ![old.file] = c]]
    BY DEF Written, Clone
  <2> QED
    BY <2>1, <2>2, <2>3
<1> HIDE DEF old, c
<1>5. CASE Goto("portal", "db") /\ UNCHANGED <<local, clock>> /\ old.op = "delete"
  <2>1. RemoteGrows /\ "db" \in Stages /\ since' \in Nat /\ db' \subseteq Workflow
    BY <1>1, <1>5, Working1, SameRemote, PortalProc DEF Stages, IInv, TypeOK
  <2>2. old.op \notin {"create", "update"}
    BY <1>5
  <2> QED
    BY <1>1, <1>5, <2>1, <2>2, MovesOn, PortalProc DEF old
<1>6. CASE /\ \/ local' = Committed([local.tree EXCEPT ![old.file] = c])
              \/ local' = Removed(old.file) /\ old.op = "delete"
           /\ clock' = clock + 1
           /\ job' = [job EXCEPT !["portal"] = [old EXCEPT !.step = "publish", !.head = clock + 1]]
  <2> DEFINE j == [old EXCEPT !.step = "publish", !.head = clock + 1]
             t == [local.tree EXCEPT ![old.file] = c]
  <2>1. clock \in Nat /\ clock' \in Nat /\ clock <= clock' /\ job' = [job EXCEPT !["portal"] = j]
        /\ (local' = Committed(t) \/ (local' = Removed(old.file) /\ old.op = "delete"))
    BY <1>1, <1>6, Working1, PortalProc
  <2>2. j \in JobType /\ j.step = "publish" /\ j.head = clock'
        /\ j.op = old.op /\ j.file = old.file /\ j.id = old.id /\ j.rev = old.rev
    BY <1>2, <1>6, <2>1 DEF JobType
  <2>3. /\ t \in [File -> Content]
        /\ t[old.file] = c
        /\ old.op = "delete" => Written.tree = t
    BY <1>3, <1>9 DEF Clone
  <2> HIDE DEF j, t
  <2>4. /\ job' \in [Proc -> JobType \cup {Idle}]
        /\ job'["portal"] = j /\ \A o \in Proc \ {"portal"} : job'[o] = job[o]
        /\ \E o \in Proc : job'[o].step \in {"idle", "db"}
    BY <1>1, <2>1, <2>2, JobBecomes, PortalProc DEF IInv
  <2>5. /\ local' \in Clone /\ Numbered(local'.history, clock')
        /\ old.op # "delete" => Last(local'.history).tree = t
    <3>1. /\ Committed(t) \in Clone /\ Numbered(Committed(t).history, clock + 1)
          /\ Last(Committed(t).history) = [n |-> clock + 1, tree |-> t]
      BY <1>1, <2>3, CommittedOf, PortalProc DEF old
    <3>2. CASE local' = Committed(t)
      BY <1>6, <3>1, <3>2
    <3>3. CASE local' = Removed(old.file) /\ old.op = "delete"
      <4> DEFINE u == [Files(local.history) EXCEPT ![old.file] = Gone]
      <4>1. u \in [File -> Content]
        BY <1>1, ClonePresent, FilesOf, PortalProc, GoneIsContent DEF old
      <4>2. Removed(old.file) = [Committed(u) EXCEPT !.tree = t]
        BY <2>3, <3>3 DEF Removed
      <4> HIDE DEF u
      <4>3. Committed(u) \in Clone /\ Numbered(Committed(u).history, clock + 1)
        BY <1>1, <4>1, CommittedOf, PortalProc DEF old
      <4>4. Removed(old.file) \in Clone /\ Removed(old.file).history = Committed(u).history
        BY <2>3, <4>2, <4>3 DEF Clone
      <4> QED
        BY <1>6, <3>3, <4>3, <4>4
    <3> QED
      BY <2>1, <3>2, <3>3
  <2>6. TypeOK'
    BY <1>1, <2>1, <2>4, <2>5 DEF IInv, TypeOK, Clone
  <2>7. RemoteGrows
    BY <1>1, <2>1, SameRemote
  <2>8. latest \in Nat => latest <= clock'
    BY <1>1, <2>1, Working1, PortalProc
  <2>9. "publish" \in Stages \ {"pull"}
    BY DEF Stages
  <2>10. Onward("portal")
    BY <1>1, <2>1, <2>2, <2>4, <2>5, <2>8, <2>9 DEF Onward, old
  <2>11. FileFirst'
    <3> SUFFICES ASSUME old.op \in {"create", "update"}
                 PROVE  Last(local'.history).tree[j.file] = Put(j)
      BY <2>2, <2>4 DEF FileFirst
    <3> QED
      BY <1>4, <2>2, <2>3, <2>5 DEF Put
  <2> QED
    BY <1>1, <2>1, <2>4, <2>5, <2>6, <2>7, <2>8, <2>10, <2>11, WorkStep, PortalProc
<1>7. CASE local' = Written /\ Stop("portal") /\ UNCHANGED clock
  <2>1. clock \in Nat /\ clock <= clock' /\ clock' \in Nat
    BY <1>1, <1>7, Working1, PortalProc
  <2>2. local' \in Clone /\ Numbered(local'.history, clock')
    <3>1. Numbered(local.history, clock)
      BY <1>1, ClonePresent, PortalProc DEF old
    <3> QED
      BY <1>3, <1>7, <1>9, <3>1 DEF Clone
  <2>3. TypeOK'
    BY <1>1, <1>7, <2>1, <2>2, JobStops, PortalProc DEF IInv, TypeOK, Clone
  <2>4. RemoteGrows
    BY <1>1, <2>1, SameRemote
  <2>5. FileFirst' /\ job'["portal"] = Idle /\ \A o \in Proc \ {"portal"} : job'[o] = job[o]
    BY <1>7, JobStops, PortalProc DEF FileFirst, IInv
  <2>6. latest' \in Nat => latest' <= clock'
    BY <1>1, <1>7, Working1, PortalProc
  <2> QED
    BY <1>1, <2>1, <2>2, <2>3, <2>4, <2>5, <2>6, WorkStep, PortalProc DEF Onward
<1>8. \/ Goto("portal", "db") /\ UNCHANGED <<local, clock>> /\ old.op = "delete"
      \/ /\ local' = Committed([local.tree EXCEPT ![old.file] = c])
            \/ (local' = Removed(old.file) /\ old.op = "delete")
         /\ clock' = clock + 1
         /\ job' = [job EXCEPT !["portal"] = [old EXCEPT !.step = "publish", !.head = clock + 1]]
      \/ local' = Written /\ Stop("portal") /\ UNCHANGED clock
  <2>1. Written.tree = [local.tree EXCEPT ![old.file] = c]
    BY <1>9 DEF Clone
  <2> QED
    BY <2>1 DEF WriteFile, old
<1> QED
  BY <1>5, <1>6, <1>7, <1>8

LEMMA PublishInv ==
  ASSUME IInv, Publish, allowed' = allowed
  PROVE  IInv'
<1>1. AtWork("portal") /\ job["portal"].step = "publish" /\ (Pushed \/ NotPushed)
  BY DEF Publish, GitPush, AtWork
<1>2. RemoteGrows
  BY <1>1, PushOf, PortalProc DEF Publish
<1>3. /\ UNCHANGED <<local, latest, clock, edits, crashes>> /\ since' \in Nat
      /\ db' \subseteq Workflow
  BY DEF Publish, IInv, TypeOK
<1>4. CASE Pushed /\ Goto("portal", "confirm")
  <2>1. "confirm" \in Stages
    BY DEF Stages
  <2>2. job["portal"] # Idle
    BY <1>1, IdleStep, PortalProc DEF AtWork, IInv
  <2>3. job["portal"].op \in {"create", "update"} =>
          \E i \in DOMAIN remote' : remote'[i].tree[job["portal"].file] = Put(job["portal"])
    <3> SUFFICES ASSUME job["portal"].op \in {"create", "update"}
                 PROVE  \E i \in DOMAIN remote' :
                          remote'[i].tree[job["portal"].file] = Put(job["portal"])
      OBVIOUS
    <3>1. Last(local.history).tree[job["portal"].file] = Put(job["portal"])
      BY <1>1, <2>2 DEF IInv, FileFirst
    <3>2. remote' = local.history
      BY <1>4 DEF Pushed
    <3>3. Len(remote') \in DOMAIN remote' /\ Last(remote') = remote'[Len(remote')]
      BY <3>2, <1>1, ClonePresent, LastOf, PortalProc
    <3> QED
      BY <3>1, <3>2, <3>3
  <2> QED
    BY <1>1, <1>2, <1>3, <1>4, <2>1, <2>3, MovesOn, PortalProc
<1>5. CASE Stop("portal")
  BY <1>1, <1>2, <1>3, <1>5, MovesOn, PortalProc
<1> QED
  BY <1>4, <1>5 DEF Publish, GitPush

LEMMA ConfirmInv ==
  ASSUME IInv, Confirm, allowed' = allowed
  PROVE  IInv'
<1>1. /\ AtWork("portal") /\ job["portal"].step = "confirm"
      /\ UNCHANGED <<remote, local, db, edits, clock, crashes, since>>
  BY DEF Confirm, AtWork
<1>2. /\ job["portal"] # Idle
      /\ latest' = job["portal"].head /\ latest' \in Nat /\ latest' <= clock
  BY <1>1, Working1, PortalProc DEF Confirm
<1>3. RemoteGrows /\ clock <= clock'
  BY <1>1, Working1, SameRemote, PortalProc
<1>4. Goto("portal", "db") /\ "db" \in Stages \ {"pull"}
  BY DEF Confirm, Stages
<1>5. /\ job' \in [Proc -> JobType \cup {Idle}]
      /\ \A o \in Proc \ {"portal"} : job'[o] = job[o]
      /\ \E o \in Proc : job'[o].step \in {"idle", "db"}
      /\ job'["portal"].step = "db"
      /\ job'["portal"].op = job["portal"].op /\ job'["portal"].file = job["portal"].file
      /\ job'["portal"].id = job["portal"].id /\ job'["portal"].rev = job["portal"].rev
      /\ job'["portal"].head = job["portal"].head
  BY <1>1, <1>4, JobGoes, PortalProc DEF IInv
<1>6. TypeOK'
  BY <1>1, <1>2, <1>5 DEF IInv, TypeOK
<1>7. Onward("portal")
  BY <1>1, <1>2, <1>4, <1>5 DEF Onward
<1>8. FileFirst'
  <2> SUFFICES ASSUME job["portal"].op \in {"create", "update"}
               PROVE  InRepository(job["portal"])'
    BY <1>5 DEF FileFirst
  <2>1. InRepository(job["portal"])
    BY <1>1, <1>2 DEF IInv, FileFirst
  <2> QED
    BY <1>1, <1>5, <2>1 DEF InRepository, Put
<1> QED
  BY <1>1, <1>2, <1>3, <1>5, <1>6, <1>7, <1>8, WorkStep, PortalProc

\* A step of the users or the clock: a job is left alone, dropped or begun.
Begun(p) ==
  /\ job'[p].step \in {"pull", "db"} /\ job'[p].head = 0
  /\ p = "sync" => job'[p].op = "sync" /\ job'[p].step = "pull"
  /\ p = "portal" /\ job'[p].op \in {"create", "update", "delete"} => job'[p].id \in Nat

LEMMA UsersStep ==
  ASSUME IInv, TypeOK', RemoteGrows, clock <= clock',
         \/ local' = local
         \/ /\ local' = None \/ (local' \in Clone /\ Numbered(local'.history, clock'))
            /\ \A p \in Proc : job'[p].step \in {"idle", "pull", "db"},
         latest' \in {latest, None},
         \A p \in Proc : job'[p] = job[p] \/ job'[p] = Idle \/ Begun(p)
  PROVE  IInv'
<1>1. clock \in Nat /\ clock' \in Nat
  BY DEF IInv, TypeOK
<1>2. Numbers'
  <2>1. local' = None \/ Numbered(local'.history, clock')
    <3>1. CASE local' = local /\ local # None
      <4>1. local.history \in Seq(Commit) /\ Numbered(local.history, clock)
        BY <3>1 DEF IInv, TypeOK, Numbers
      <4> QED
        BY <1>1, <3>1, <4>1, NumberedHigher
    <3> QED
      BY <3>1
  <2>2. latest' \in Nat => latest' <= clock'
    <3>1. latest \in Nat => latest <= clock
      BY DEF IInv, Numbers
    <3> QED
      BY <1>1, <3>1, NoneIsNoNumber
  <2> QED
    BY <2>1, <2>2 DEF Numbers, RemoteGrows
<1>3. CloneThere'
  <2> SUFFICES ASSUME NEW p \in Proc, job'[p].step \notin {"idle", "db", "pull"}
               PROVE  local' \in Clone /\ Numbered(local'.history, clock')
    BY DEF CloneThere, AtWork
  <2>1. job'[p] = job[p] /\ local' = local
    BY DEF Begun, Idle
  <2>2. /\ local \in Clone /\ Numbered(local.history, clock)
        /\ local.history \in Seq(Commit)
    BY <2>1, ClonePresent DEF AtWork
  <2> QED
    BY <1>1, <2>1, <2>2, NumberedHigher
<1>4. Jobs'
  BY DEF IInv, Jobs, Begun, Proc
<1>5. HeadsAhead'
  <2> SUFFICES ASSUME NEW p \in Proc, job'[p] # Idle
               PROVE  /\ job'[p].head <= clock'
                      /\ job'[p].step \in {"apply", "push", "record", "publish", "confirm"}
                         /\ latest' \in Nat => latest' <= job'[p].head
    BY DEF HeadsAhead
  <2>1. CASE Begun(p)
    BY <1>1, <2>1 DEF Begun
  <2>2. CASE job'[p] = job[p]
    <3>1. /\ job[p].head <= clock /\ job[p].head \in Nat
          /\ job[p].step \in {"apply", "push", "record", "publish", "confirm"}
                         /\ latest \in Nat => latest <= job[p].head
      BY <2>2, JobsOf DEF IInv, HeadsAhead
    <3> QED
      BY <1>1, <2>2, <3>1, NoneIsNoNumber
  <2> QED
    BY <2>1, <2>2
<1>6. FileFirst'
  <2>1. CASE Begun("portal")
    BY <2>1 DEF Begun, FileFirst
  <2>2. CASE job'["portal"] = Idle
    BY <2>2 DEF FileFirst
  <2>3. CASE job'["portal"] = job["portal"]
    <3>1. ASSUME InRepository(job["portal"]) PROVE InRepository(job["portal"])'
      BY <2>3, <3>1 DEF InRepository, Put, RemoteGrows
    <3>2. job["portal"].step = "publish" => local' = local
      BY <2>3, PortalProc
    <3> QED
      BY <2>3, <3>1, <3>2 DEF FileFirst, IInv, Put
  <2> QED
    BY <2>1, <2>2, <2>3, PortalProc
<1> QED
  BY <1>2, <1>3, <1>4, <1>5, <1>6 DEF IInv

LEMMA UsersInv ==
  ASSUME IInv, allowed' = allowed,
         \/ \E f \in File : UserPush(f) \/ CreateChaosWorkflow(f)
         \/ \E w \in db : UpdateChaosWorkflow(w) \/ DeleteChaosWorkflow(w)
         \/ GitSyncHelper \/ EnableGitOps \/ DisableGitOps \/ Crash
  PROVE  IInv'
<1>0. TypeOK' /\ clock \in Nat /\ job \in [Proc -> JobType \cup {Idle}]
  BY UsersTypes DEF IInv, TypeOK
<1>1. ASSUME NEW f \in File, UserPush(f) PROVE IInv'
  <2>1. /\ remote' \in Seq(Commit) /\ clock' = clock + 1
        /\ UNCHANGED <<local, latest, db, job, crashes, since>>
    BY <1>1, UserPushTypes DEF IInv
  <2>2. PICK c \in Content : remote' = Append(remote,
               [n |-> clock + 1, tree |-> [Files(remote) EXCEPT ![f] = c]])
    BY <1>1, UserPushTypes DEF IInv
  <2> DEFINE e == [n |-> clock + 1, tree |-> [Files(remote) EXCEPT ![f] = c]]
  <2>3. /\ remote \in Seq(Commit) /\ Numbered(remote, clock)
        /\ Files(remote) \in [File -> Content]
    BY FilesOf DEF IInv, TypeOK, Numbers, Numbered
  <2>4. e \in Commit /\ e.n = clock + 1
    BY <1>0, <2>3, CommitOf
  <2>5. remote' = Append(remote, e)
    BY <2>2
  <2> HIDE DEF e
  <2>6. RemoteGrows
    <3>1. Numbered(remote', clock')
      BY <1>0, <2>1, <2>3, <2>4, <2>5, NumberedAppend
    <3>2. \A i \in DOMAIN remote : i \in DOMAIN remote' /\ remote'[i] = remote[i]
      BY <2>3, <2>4, <2>5, AppendOf
    <3> QED
      BY <2>1, <3>1, <3>2 DEF RemoteGrows
  <2> QED
    BY <1>0, <2>1, <2>6, UsersStep
<1>2. ASSUME NEW op \in {"create", "update", "delete"}, NEW f \in File, NEW id \in Nat,
             Request(op, f, id), clock' \in {clock, clock + 1}
      PROVE  IInv'
  <2>1. edits + 1 \in Nat /\ clock' \in Nat /\ clock <= clock'
    BY <1>0, <1>2, Bounds DEF IInv, TypeOK
  <2>2. PICK s \in {"db", "pull"} :
          job' = [job EXCEPT !["portal"] = Job(op, f, id, edits + 1, s)]
    BY <1>2 DEF Request
  <2>3. /\ job'["portal"] = Job(op, f, id, edits + 1, s)
        /\ \A p \in Proc \ {"portal"} : job'[p] = job[p]
    BY <1>0, <2>2, PortalProc
  <2>4. /\ job'["portal"].step = s /\ job'["portal"].head = 0 /\ job'["portal"].id = id
    BY <2>3 DEF Job
  <2>5. \A p \in Proc : job'[p] = job[p] \/ Begun(p)
    BY <2>3, <2>4, PortalProc DEF Begun
  <2>6. RemoteGrows
    BY <1>2, <2>1, SameRemote DEF Request
  <2> QED
    BY <1>0, <1>2, <2>1, <2>5, <2>6, UsersStep DEF Request
<1>3. ASSUME NEW f \in File, CreateChaosWorkflow(f) PROVE IInv'
  BY <1>0, <1>2, <1>3 DEF CreateChaosWorkflow
<1>4. ASSUME NEW w \in db, UpdateChaosWorkflow(w) \/ DeleteChaosWorkflow(w) PROVE IInv'
  <2>1. w.id \in Nat /\ w.file \in File
    BY DEF IInv, TypeOK, Workflow
  <2> QED
    BY <1>2, <1>4, <2>1 DEF UpdateChaosWorkflow, DeleteChaosWorkflow
<1>5. CASE GitSyncHelper
  <2> DEFINE f == CHOOSE f \in File : TRUE
  <2>1. job' = [job EXCEPT !["sync"] = Job("sync", f, None, 0, "pull")]
        /\ UNCHANGED <<remote, local, latest, clock>>
    BY <1>5 DEF GitSyncHelper
  <2> HIDE DEF f
  <2>2. /\ job'["sync"] = Job("sync", f, None, 0, "pull")
        /\ \A p \in Proc \ {"sync"} : job'[p] = job[p]
    BY <1>0, <2>1, PortalProc
  <2>3. job'["sync"].step = "pull" /\ job'["sync"].head = 0 /\ job'["sync"].op = "sync"
    BY <2>2 DEF Job
  <2>4. \A p \in Proc : job'[p] = job[p] \/ Begun(p)
    BY <2>2, <2>3, PortalProc DEF Begun
  <2>5. RemoteGrows
    BY <1>0, <2>1, SameRemote
  <2> QED
    BY <1>0, <2>1, <2>4, <2>5, UsersStep
<1>6. CASE EnableGitOps
  <2> DEFINE f == CHOOSE f \in File : TRUE
  <2>1. job' = [job EXCEPT !["portal"] = Job("enable", f, None, 0, "pull")]
        /\ UNCHANGED <<remote, latest, clock>> /\ local' = None /\ ~ Locked
    BY <1>6 DEF EnableGitOps
  <2> HIDE DEF f
  <2>2. /\ job'["portal"] = Job("enable", f, None, 0, "pull")
        /\ \A p \in Proc \ {"portal"} : job'[p] = job[p]
    BY <1>0, <2>1, PortalProc
  <2>3. job'["portal"].step = "pull" /\ job'["portal"].head = 0 /\ job'["portal"].op = "enable"
    BY <2>2 DEF Job
  <2>4. \A p \in Proc : job'[p] = job[p] \/ Begun(p)
    BY <2>2, <2>3, PortalProc DEF Begun
  <2>5. RemoteGrows
    BY <1>0, <2>1, SameRemote
  <2>6. \A p \in Proc : job'[p].step \in {"idle", "pull", "db"}
    BY <2>1, <2>2, <2>3, PortalProc DEF Locked
  <2> QED
    BY <1>0, <2>1, <2>4, <2>5, <2>6, UsersStep
<1>7. CASE DisableGitOps
  <2>1. RemoteGrows
    BY <1>0, <1>7, SameRemote DEF DisableGitOps
  <2>2. \A p \in Proc : job[p].step \in {"idle", "pull", "db"}
    BY <1>7 DEF DisableGitOps, Locked
  <2> QED
    BY <1>0, <1>7, <2>1, <2>2, UsersStep DEF DisableGitOps
<1>8. CASE Crash
  <2>1. RemoteGrows /\ clock <= clock'
    BY <1>0, <1>8, SameRemote DEF Crash
  <2>2. \A p \in Proc : job'[p] = Idle /\ job'[p].step \in {"idle", "pull", "db"}
    BY <1>8 DEF Crash, Idle
  <2>3. local' = None \/ (local' \in Clone /\ Numbered(local'.history, clock'))
    BY <1>8, LeftBehindOf DEF IInv
  <2> QED
    BY <1>0, <1>8, <2>1, <2>2, <2>3, UsersStep DEF Crash
<1> QED
  BY <1>1, <1>3, <1>4, <1>5, <1>6, <1>7, <1>8

LEMMA WriteToDBInv ==
  ASSUME IInv, WriteToDB, allowed' = allowed
  PROVE  IInv'
<1>1. /\ Stop("portal") /\ UNCHANGED <<remote, local, latest, edits, clock, crashes, since>>
      /\ db' \subseteq Workflow /\ clock \in Nat
  BY WriteToDBOf DEF WriteToDB, IInv, TypeOK
<1>2. /\ job' \in [Proc -> JobType \cup {Idle}]
      /\ \A o \in Proc \ {"portal"} : job'[o] = job[o]
      /\ \E o \in Proc : job'[o].step \in {"idle", "db"}
      /\ job'["portal"] = Idle
  BY <1>1, JobStops, PortalProc DEF IInv
<1>3. TypeOK'
  BY <1>1, <1>2 DEF IInv, TypeOK
<1>4. RemoteGrows
  BY <1>1, SameRemote
<1> QED
  BY <1>1, <1>2, <1>3, <1>4, UsersStep, PortalProc

LEMMA StepInv == IInv /\ [Next]_vars => IInv'
<1> SUFFICES ASSUME IInv, [Next]_vars PROVE IInv'
  OBVIOUS
<1>1. CASE UNCHANGED vars
  BY <1>1 DEF vars, system, IInv, TypeOK, Numbers, CloneThere, AtWork, Jobs, HeadsAhead,
              FileFirst, InRepository, Put
<1>2. CASE Next
  <2>1. Step /\ allowed' = allowed
    BY <1>2 DEF Next
  <2>2. ASSUME NEW p \in Proc, SyncDBToGit(p) \/ AddGitConfig(p) PROVE IInv'
    BY <2>1, <2>2, PullInv, SetupInv, GetChangesInv, ApplyInv, CommitNewInv, PushNewInv,
       RecordSyncInv, AddGitConfigInv DEF SyncDBToGit
  <2>3. CASE Working
    BY <2>1, <2>2, <2>3, WriteFileInv, PublishInv, ConfirmInv, WriteToDBInv DEF Working
  <2> QED
    BY <2>1, <2>3, UsersInv DEF Step
<1> QED
  BY <1>1, <1>2

LEMMA Invariance == Spec => []IInv
<1>1. Init => IInv
  BY InitInv
<1>2. IInv /\ [Next]_vars => IInv'
  BY StepInv
<1> QED
  BY <1>1, <1>2, PTL DEF Spec

-----------------------------------------------------------------------------
(* What the runs check.                                                    *)

\* Whatever the users, the repository and crashes do, the sync and a request
\* are never both at work on the clone of a project: each holds its lock from
\* the pull to the last commit.
THEOREM TypeCorrect == Spec => []TypeOK
<1>1. IInv => TypeOK
  BY DEF IInv
<1> QED
  BY <1>1, Invariance, PTL

\* A request writes a workflow to the database only when its file is in the
\* repository: UpsertWorkflowToGit returns an error when the push is refused,
\* and what is in the repository stays in its history.
THEOREM StoredFirst == Spec => []StoredBeforeAnswered
<1>1. IInv => StoredBeforeAnswered
  <2> SUFFICES ASSUME IInv, job["portal"].step = "db", job["portal"].op \in {"create", "update"},
                      job["portal"].head # 0
               PROVE  InRepository(job["portal"])
    BY DEF StoredBeforeAnswered, InRepository, Put
  <2>1. job["portal"] # Idle
    BY DEF Idle
  <2> QED
    BY <2>1 DEF IInv, FileFirst
<1> QED
  BY <1>1, Invariance, PTL

\* latest_commit is replaced by the head of a job, or set when it was not.
LEMMA LatestForward ==
  ASSUME IInv, Next, latest \in Nat, latest' \in Nat
  PROVE  latest <= latest'
<1>1. CASE latest' = latest
  BY <1>1
<1>2. ASSUME NEW p \in Proc, RecordSync(p) PROVE latest <= latest'
  <2>1. AtWork(p) /\ job[p].step = "record" /\ latest' = job[p].head
    BY <1>2 DEF RecordSync, AtWork
  <2> QED
    BY <2>1, Working1
<1>3. CASE Confirm
  <2>1. AtWork("portal") /\ job["portal"].step = "confirm" /\ latest' = job["portal"].head
    BY <1>3 DEF Confirm, AtWork
  <2> QED
    BY <2>1, Working1, PortalProc
<1>4. ASSUME NEW p \in Proc, AddGitConfig(p) PROVE latest' = latest
  <2>1. latest # None
    BY NoneIsNoNumber, Zenon
  <2> QED
    BY <1>4, <2>1, Zenon DEF AddGitConfig
<1>5. ASSUME NEW p \in Proc, SyncDBToGit(p), ~ RecordSync(p) PROVE latest' = latest
  BY <1>5 DEF SyncDBToGit, Pull, Setup, GetChanges, Apply, CommitNew, PushNew
<1>6. CASE WriteFile \/ Publish \/ WriteToDB
  <2>1. latest' = latest
    BY <1>6 DEF WriteFile, Publish, WriteToDB
  <2> QED
    BY <2>1
<1>7. CASE \/ \E f \in File : UserPush(f) \/ CreateChaosWorkflow(f)
           \/ \E w \in db : UpdateChaosWorkflow(w) \/ DeleteChaosWorkflow(w)
           \/ GitSyncHelper \/ EnableGitOps \/ Crash
  <2>1. latest' = latest
    BY <1>7 DEF UserPush, CreateChaosWorkflow, UpdateChaosWorkflow, DeleteChaosWorkflow,
                Request, GitSyncHelper, EnableGitOps, Crash
  <2> QED
    BY <2>1
<1>8. CASE DisableGitOps
  BY <1>8, NoneIsNoNumber DEF DisableGitOps
<1> QED
  BY <1>1, <1>2, <1>3, <1>4, <1>5, <1>6, <1>7, <1>8 DEF Next, Step, Working

\* The sync resumes from a commit that is not an older one of the repository
\* than before: SetLatestCommit is given the head of a clone that held the
\* recorded commit, and the lock keeps the head from becoming stale.
THEOREM NeverBack == Spec => ForwardOnly
<1> DEFINE Forward == \A i, j \in DOMAIN remote' :
       remote'[i].n = latest /\ remote'[j].n = latest' /\ since' = since => i <= j
<1>1. IInv /\ IInv' /\ [Next]_vars => [Forward]_vars
  <2> SUFFICES ASSUME IInv, IInv', Next,
                      NEW i \in DOMAIN remote', NEW j \in DOMAIN remote',
                      remote'[i].n = latest, remote'[j].n = latest'
               PROVE  i <= j
    OBVIOUS
  <2>1. remote' \in Seq(Commit) /\ Numbered(remote', clock') /\ clock' \in Nat
    BY DEF IInv, TypeOK, Numbers
  <2>2. latest \in Nat /\ latest' \in Nat
    BY <2>1, NumberedOrder
  <2>3. latest <= latest'
    BY <2>2, LatestForward
  <2> QED
    BY <2>1, <2>3, NumberedOrder
<1> QED
  BY <1>1, Invariance, PTL DEF Spec, ForwardOnly

-----------------------------------------------------------------------------
(* What a database and a tree of files have to do with each other.         *)

Of(d, f)     == {w \in d : w.file = f}
LiveOf(d, f) == {w \in d : w.file = f /\ ~ w.isRemoved}

\* A name and a workflow_id are used once.
Unique(d, n) == /\ \A w, v \in d : w.file = v.file \/ w.id = v.id => w = v
                /\ \A w \in d : w.id <= n

Match(d, f, c) == {[id |-> w.id, rev |-> w.rev] : w \in LiveOf(d, f)} = {c} \ {Gone}

\* A file with a workflow_id is that of a workflow, one without is new.
Known(d, f, c) == /\ c.id # None => \E w \in LiveOf(d, f) : w.id = c.id
                  /\ c # Gone /\ c.id = None => Of(d, f) = {}

TouchedIn(h, k, s, f) == \E i \in 2 .. k : h[i].n > s /\ h[i].tree[f] # h[i - 1].tree[f]

\* The files of F that were touched up to commit k.
Synced(d, h, k, s, t, F) == \A f \in F : TouchedIn(h, k, s, f) => Match(d, f, t[f])

-----------------------------------------------------------------------------
(* The invariant among users who stay out of each other's way.             *)

\* A clone with one more commit than the repository.
OneMore(n) == local.history = Append(remote, [n |-> n, tree |-> local.tree])
SameClone  == local.history = remote /\ local.tree = Files(remote)
Fits       == local = None \/ ( /\ IsPrefix(local.history, remote)
                              /\ local.tree = Files(local.history))

KnownFiles(t, F) == \A f \in F : Known(db, f, t[f])

\* Up to the recorded commit database and repository agree.
UpToLatest == \A k \in DOMAIN remote : remote[k].n = latest =>
                Synced(db, remote, k, since, remote[k].tree, File)

UpToDate(F) == Synced(db, remote, Len(remote), since, Files(remote), F)

Waiting == KnownFiles(Files(remote), File) /\ UpToLatest

Applied(j) ==
  \A f \in File \ j.todo :
    TouchedIn(remote, Len(remote), since, f) \/ local.tree[f] # Files(remote)[f]
      => Match(db, f, local.tree[f])

Want(j) == IF j.op = "delete" THEN Gone ELSE Put(j)

\* All files, but that of the request once it is in the repository.
Others(j) == IF j.op = "create" THEN File \ {j.file} ELSE File

Stored(j) == /\ Files(remote)[j.file] = Want(j)
             /\ KnownFiles(Files(remote), Others(j))
             /\ UpToDate(File \ {j.file})

Quiet == (\A p \in Proc : job[p] = Idle) => Fits /\ Waiting

Stage(j) ==
  /\ j.step = "pull"    => Fits /\ Waiting /\ (j.op = "enable" => local = None)
  /\ j.step = "setup"   => OneMore(clock) /\ local.tree = Files(remote) /\ Waiting
  /\ j.step = "config"  => SameClone /\ Waiting
  /\ j.step = "changes" => SameClone /\ Waiting
  /\ j.step = "apply"   => /\ local.history = remote /\ j.head = Last(remote).n
                           /\ j.new \/ local.tree = Files(remote)
                           /\ KnownFiles(local.tree, File) /\ Applied(j)
  /\ j.step = "push"    => /\ OneMore(j.head) /\ j.todo = {}
                           /\ KnownFiles(local.tree, File) /\ Applied(j)
  /\ j.step = "record"  => /\ SameClone /\ j.head = Last(remote).n
                           /\ KnownFiles(Files(remote), File) /\ UpToDate(File)
  /\ j.step = "write"   => /\ SameClone /\ latest = Last(remote).n
                           /\ KnownFiles(Files(remote), File) /\ UpToDate(File)
  /\ j.step = "publish" => /\ OneMore(j.head)
                           /\ local.tree = [Files(remote) EXCEPT ![j.file] = Want(j)]
                           /\ KnownFiles(Files(remote), File) /\ UpToDate(File)
  /\ j.step = "confirm" => SameClone /\ j.head = Last(remote).n /\ Stored(j)
  /\ j.step = "db"      => /\ Fits
                           /\ \/ latest = None /\ KnownFiles(Files(remote), File)
                              \/ latest = Last(remote).n /\ Stored(j)

\* The tree that a job works on.
TreeOf(j) == IF j.step \in {"apply", "push"} THEN local.tree ELSE Files(remote)

\* What the request is about.
Target(j) ==
  /\ j.op = "create" =>
       /\ Of(db, j.file) = {} /\ j.id <= clock /\ \A w \in db : w.id # j.id
       /\ j.step # "confirm" /\ (j.step = "db" => latest = None) => TreeOf(j)[j.file] = Gone
  /\ j.op \in {"update", "delete"} => \E w \in db : w.id = j.id /\ w.file = j.file
  /\ j.op = "update" /\ latest # None /\ j.step \notin {"confirm", "db"} =>
       TreeOf(j)[j.file].id = j.id
  /\ latest = None => j.op = "enable" \/ j.step = "db"
  /\ j.op = "enable" => j.step \in {"pull", "setup", "config"}
  /\ j.step = "config" => j.op = "enable"
  /\ j.step \in {"write", "publish", "confirm", "db"} => j.op \in {"create", "update", "delete"}

Recorded ==
  /\ latest = None => \A f \in File : Files(remote)[f].id = None
  /\ latest # None => since <= latest /\ \E k \in DOMAIN remote : remote[k].n = latest

OneJob == \E p \in Proc : job[p] = Idle

SyncInv ==
  allowed = {} =>
    /\ OneJob /\ Unique(db, clock) /\ Recorded /\ Quiet
    /\ \A p \in Proc : job[p] # Idle => Stage(job[p]) /\ Target(job[p])

-----------------------------------------------------------------------------
(* Numbers, prefixes, and what a history changes.                          *)

LEMMA LessThanWellFounded == IsWellFoundedOn({ss \in Nat \X Nat : ss[1] < ss[2]}, Nat)
BY NatLessThanWellFounded DEF OpToRel

LEMMA LeastNumber ==
  ASSUME NEW T \in SUBSET Nat, T # {}
  PROVE  \E x \in T : \A y \in T : x <= y
<1> DEFINE R == {ss \in Nat \X Nat : ss[1] < ss[2]}
<1>1. IsWellFoundedOn(R, Nat)
  BY LessThanWellFounded
<1>2. \A x, y \in Nat : y < x => <<y, x>> \in R
  OBVIOUS
<1> HIDE DEF R
<1>3. PICK x \in T : \A y \in T : ~ (<<y, x>> \in R)
  BY <1>1, WFMin
<1>4. \A y \in T : ~ (y < x)
  BY <1>2, <1>3
<1> QED
  BY <1>4

\* A file that no commit after k changes is at the end what it is at k: the
\* first commit at which it were different would change it.
LEMMA Untouched ==
  ASSUME NEW h \in Seq(Commit), NEW k \in DOMAIN h, NEW f \in File,
         \A i \in k + 1 .. Len(h) : h[i].tree[f] = h[i - 1].tree[f]
  PROVE  \A i \in k .. Len(h) : h[i].tree[f] = h[k].tree[f]
<1> DEFINE T == {i \in k .. Len(h) : h[i].tree[f] # h[k].tree[f]}
<1>1. k \in Nat /\ Len(h) \in Nat /\ T \in SUBSET Nat
  OBVIOUS
<1>2. SUFFICES ASSUME T # {} PROVE FALSE
  OBVIOUS
<1>3. PICK i \in T : \A m \in T : i <= m
  <2> HIDE DEF T
  <2> QED
    BY <1>1, <1>2, LeastNumber
<1>4. i \in k + 1 .. Len(h) /\ i - 1 \in k .. Len(h) /\ h[i].tree[f] # h[k].tree[f]
  BY <1>1
<1>5. i - 1 \notin T
  <2>1. i \in Nat /\ ~ (i <= i - 1)
    BY <1>1
  <2> QED
    BY <1>3, <2>1
<1>6. h[i - 1].tree[f] = h[k].tree[f]
  BY <1>4, <1>5
<1> QED
  BY <1>4, <1>6

LEMMA PrefixIs ==
  ASSUME NEW S, NEW s \in Seq(S), NEW t \in Seq(S),
         Len(s) <= Len(t), \A i \in DOMAIN s : s[i] = t[i]
  PROVE  IsPrefix(s, t)
<1>1. SubSeq(s, 1, Len(s)) = SubSeq(t, 1, Len(s))
  OBVIOUS
<1> QED
  BY <1>1 DEF IsPrefix

LEMMA PrefixAppend ==
  ASSUME NEW S, NEW s \in Seq(S), NEW t \in Seq(S), NEW e \in S, IsPrefix(s, t)
  PROVE  IsPrefix(s, Append(t, e)) /\ IsPrefix(t, Append(t, e)) /\ IsPrefix(t, t)
<1>1. /\ Append(t, e) \in Seq(S) /\ Len(Append(t, e)) = Len(t) + 1
      /\ \A i \in DOMAIN t : Append(t, e)[i] = t[i]
  BY AppendOf
<1>2. Len(s) <= Len(t) /\ \A i \in DOMAIN s : i \in DOMAIN t /\ s[i] = t[i]
  BY PrefixOf
<1>3. Len(s) \in Nat /\ Len(t) \in Nat
  OBVIOUS
<1>4. Len(s) <= Len(t) + 1 /\ Len(t) <= Len(t) + 1 /\ Len(t) <= Len(t)
  BY <1>2, <1>3
<1> DEFINE g == Append(t, e)
<1> HIDE DEF g
<1>5. IsPrefix(s, g) /\ IsPrefix(t, g)
  BY <1>1, <1>2, <1>4, PrefixIs DEF g
<1> QED
  BY <1>4, <1>5, PrefixIs DEF g

LEMMA SelfPrefix == ASSUME NEW S, NEW s \in Seq(S) PROVE IsPrefix(s, s)
BY PrefixIs

\* What was touched up to commit k does not depend on later commits.
LEMMA TouchedSame ==
  ASSUME NEW h, NEW g, NEW k \in Nat, NEW s, NEW f, \A i \in 1 .. k : g[i] = h[i]
  PROVE  TouchedIn(g, k, s, f) <=> TouchedIn(h, k, s, f)
<1>1. \A i \in 2 .. k : g[i] = h[i] /\ g[i - 1] = h[i - 1]
  OBVIOUS
<1> QED
  BY <1>1 DEF TouchedIn

LEMMA TouchedAppend ==
  ASSUME NEW h \in Seq(Commit), h # <<>>, NEW e \in Commit, NEW s \in Nat, NEW f \in File,
         TouchedIn(Append(h, e), Len(h) + 1, s, f)
  PROVE  TouchedIn(h, Len(h), s, f) \/ e.tree[f] # Files(h)[f]
<1> DEFINE g == Append(h, e)
<1>1. /\ \A i \in DOMAIN h : g[i] = h[i]
      /\ g[Len(h) + 1] = e /\ Len(h) \in Nat /\ DOMAIN h = 1 .. Len(h)
      /\ Last(h) = h[Len(h)] /\ Len(h) \in DOMAIN h
  BY AppendOf, LastOf
<1>2. PICK i \in 2 .. Len(h) + 1 : g[i].n > s /\ g[i].tree[f] # g[i - 1].tree[f]
  BY DEF TouchedIn
<1> HIDE DEF g
<1>3. CASE i = Len(h) + 1
  <2>1. g[i - 1] = Last(h) /\ g[i] = e
    BY <1>1, <1>3
  <2> QED
    BY <1>2, <2>1 DEF Files
<1>4. CASE i \in 2 .. Len(h)
  <2>1. i \in DOMAIN h /\ i - 1 \in DOMAIN h
    BY <1>1, <1>4
  <2>2. g[i] = h[i] /\ g[i - 1] = h[i - 1]
    BY <1>1, <2>1
  <2> QED
    BY <1>2, <1>4, <2>2 DEF TouchedIn
<1> QED
  BY <1>1, <1>3, <1>4

-----------------------------------------------------------------------------
(* Databases.                                                              *)

LEMMA MatchGone ==
  ASSUME NEW d, NEW f, LiveOf(d, f) = {}
  PROVE  Match(d, f, Gone)
BY DEF Match

LEMMA MatchOne ==
  ASSUME NEW d \in SUBSET Workflow, NEW n, Unique(d, n), NEW f, NEW c \in Content, c.id # None,
         NEW w \in LiveOf(d, f), w.id = c.id, w.rev = c.rev
  PROVE  Match(d, f, c)
<1>1. LiveOf(d, f) = {w}
  BY DEF LiveOf, Unique
<1>2. [id |-> w.id, rev |-> w.rev] = c
  BY DEF Content
<1>3. c # Gone
  BY DEF Gone
<1> QED
  BY <1>1, <1>2, <1>3 DEF Match

\* The workflows of the other files stay as they are.
OnlyOf(d, e, f) == \A g \in File : g # f => Of(e, g) = Of(d, g) /\ LiveOf(e, g) = LiveOf(d, g)
\* No workflow is dropped or comes up under another name.
SameIds(d, e) == /\ \A w \in d : \E v \in e : v.id = w.id /\ v.file = w.file
                 /\ \A x : (\A w \in d : w.id # x) => \A w \in e : w.id # x
                 /\ \A f : Of(d, f) = {} => Of(e, f) = {}

ImageOf(G, d) == {G[w] : w \in d}

\* Workflows of a file are changed, but not their names and identifiers.
LEMMA Changed ==
  ASSUME NEW d \in SUBSET Workflow, NEW n, Unique(d, n), NEW f, NEW G \in [d -> Workflow],
         \A w \in d : G[w].id = w.id /\ G[w].file = w.file,
         \A w \in d : w.file # f => G[w] = w
  PROVE  /\ Unique(ImageOf(G, d), n) /\ SameIds(d, ImageOf(G, d)) /\ OnlyOf(d, ImageOf(G, d), f)
         /\ \A w \in d : G[w] \in ImageOf(G, d)
         /\ \A v \in ImageOf(G, d) : \E w \in d : v = G[w]
<1> DEFINE e == ImageOf(G, d)
<1>1. \A v \in e : \E w \in d : v = G[w]
  BY DEF ImageOf
<1>2. \A w \in d : G[w] \in e
  BY DEF ImageOf
<1> HIDE DEF e
<1>3. Unique(e, n)
  BY <1>1 DEF Unique
<1>4. SameIds(d, e)
  <2>1. \A g : Of(d, g) = {} => Of(e, g) = {}
    BY <1>1 DEF Of
  <2>2. \A x : (\A w \in d : w.id # x) => \A w \in e : w.id # x
    BY <1>1
  <2>3. \A w \in d : \E v \in e : v.id = w.id /\ v.file = w.file
    BY <1>2
  <2> QED
    BY <2>1, <2>2, <2>3 DEF SameIds
<1>5. ASSUME NEW g \in File, g # f
      PROVE  Of(e, g) = Of(d, g) /\ LiveOf(e, g) = LiveOf(d, g)
  <2>1. \A w : w \in e /\ w.file = g <=> w \in d /\ w.file = g
    BY <1>1, <1>2, <1>5
  <2> QED
    BY <2>1 DEF Of, LiveOf
<1>6. OnlyOf(d, e, f)
  BY <1>5 DEF OnlyOf
<1> QED
  BY <1>1, <1>2, <1>3, <1>4, <1>6 DEF e

\* A workflow is added under a name and an identifier not in use.
LEMMA Added ==
  ASSUME NEW d \in SUBSET Workflow, NEW n \in Nat, Unique(d, n), NEW w \in Workflow,
         Of(d, w.file) = {}, \A v \in d : v.id # w.id, NEW m \in Nat, w.id <= m, n <= m
  PROVE  /\ Unique(d \cup {w}, m)
         /\ \A f : f # w.file => Of(d \cup {w}, f) = Of(d, f) /\ LiveOf(d \cup {w}, f) = LiveOf(d, f)
<1>1. \A v \in d : v.file # w.file
  BY DEF Of
<1>2. \A v \in d : v.id \in Nat
  BY DEF Workflow
<1>3. Unique(d \cup {w}, m)
  BY <1>1, <1>2 DEF Unique
<1> QED
  BY <1>3 DEF Of, LiveOf

-----------------------------------------------------------------------------
(* Steps of the job at work.                                               *)

LEMMA CalmState ==
  ASSUME IInv
  PROVE  /\ db \in SUBSET Workflow /\ clock \in Nat /\ since \in Nat
         /\ latest \in Nat \cup {None}
         /\ remote \in Seq(Commit) /\ remote # <<>> /\ Numbered(remote, clock)
         /\ DOMAIN remote = 1 .. Len(remote) /\ Len(remote) \in DOMAIN remote
         /\ Len(remote) \in Nat /\ Last(remote) = remote[Len(remote)] /\ Last(remote) \in Commit
         /\ Files(remote) \in [File -> Content] /\ Last(remote).n \in Nat
<1>1. /\ remote \in Seq(Commit) /\ remote # <<>> /\ Numbered(remote, clock)
  BY DEF IInv, TypeOK, Numbers, Numbered
<1> QED
  BY <1>1, LastOf, FilesOf DEF IInv, TypeOK

LEMMA CalmJob ==
  ASSUME IInv, SyncInv, allowed = {}, NEW p \in Proc, job[p] # Idle
  PROVE  /\ \A o \in Proc \ {p} : job[o] = Idle
         /\ Stage(job[p]) /\ Target(job[p]) /\ Unique(db, clock) /\ Recorded
<1>1. OneJob
  BY DEF SyncInv
<1>2. \A o \in Proc \ {p} : job[o] = Idle
  BY <1>1 DEF OneJob, Proc
<1> QED
  BY <1>2 DEF SyncInv

LEMMA CalmStep ==
  ASSUME NEW p \in Proc, \A o \in Proc \ {p} : job'[o] = Idle,
         Unique(db, clock)', Recorded',
         job'[p] = Idle => Fits' /\ Waiting',
         job'[p] # Idle => Stage(job[p])' /\ Target(job[p])'
  PROVE  SyncInv'
<1>1. OneJob'
  <2>1. \E o \in Proc : o # p
    BY DEF Proc
  <2> QED
    BY <2>1 DEF OneJob
<1>2. Quiet'
  BY DEF Quiet
<1>3. \A o \in Proc : job'[o] # Idle => Stage(job[o])' /\ Target(job[o])'
  <2> SUFFICES ASSUME NEW o \in Proc, job'[o] # Idle PROVE Stage(job[o])' /\ Target(job[o])'
    OBVIOUS
  <2>1. o = p
    OBVIOUS
  <2> QED
    BY <2>1
<1> QED
  BY <1>1, <1>2, <1>3 DEF SyncInv

LEMMA WaitingSame ==
  ASSUME Waiting, UNCHANGED <<remote, db, latest, since>>
  PROVE  Waiting'
BY DEF Waiting, KnownFiles, UpToLatest

LEMMA RecordedSame ==
  ASSUME Recorded, UNCHANGED <<remote, latest, since>>
  PROVE  Recorded'
BY DEF Recorded

LEMMA UniqueSame ==
  ASSUME IInv, Unique(db, clock), db' = db, clock' \in Nat, clock <= clock'
  PROVE  Unique(db, clock)'
<1>1. \A w \in db : w.id \in Nat /\ w.id <= clock
  BY CalmState DEF Unique, Workflow
<1>2. \A w \in db : w.id <= clock'
  BY <1>1, CalmState
<1> QED
  BY <1>2 DEF Unique

\* What a step over the same workflows keeps of the job's file and workflow.
LEMMA TargetOn ==
  ASSUME IInv, NEW p \in Proc, job[p] # Idle, Target(job[p]),
         p = "sync" => job[p].op = "sync",
         job'[p].op = job[p].op, job'[p].file = job[p].file, job'[p].id = job[p].id,
         db' = db, clock' \in Nat, clock <= clock', latest' = None <=> latest = None,
         job[p].op = "enable" => job'[p].step \in {"pull", "setup", "config"},
         job'[p].step = "config" => job[p].op = "enable",
         latest = None => job[p].op = "enable",
         job'[p].step \in {"write", "publish", "confirm", "db"} =>
            job[p].op \in {"create", "update", "delete"},
         job'[p].step \notin {"confirm", "db"} =>
            /\ job[p].step \notin {"confirm", "db"}
            /\ TreeOf(job[p])'[job[p].file] = TreeOf(job[p])[job[p].file]
  PROVE  Target(job[p])'
<1>1. job[p].op = "create" => job[p].id \in Nat
  BY DEF IInv, Jobs, Proc
<1>2. clock \in Nat
  BY CalmState
<1>3. job[p].op = "create" => job'[p].id <= clock'
  BY <1>1, <1>2 DEF Target
<1>4. Of(db, job[p].file)' = Of(db, job[p].file)
  BY DEF Of
<1>5. ASSUME job[p].op = "create" PROVE
       /\ Of(db, job[p].file)' = {} /\ (\A w \in db' : w.id # job'[p].id)
       /\ (job'[p].step # "confirm" /\ (job'[p].step = "db" => latest' = None) =>
             TreeOf(job[p])'[job'[p].file] = Gone)
  <2>1. Of(db, job[p].file)' = {} /\ (\A w \in db' : w.id # job'[p].id)
    BY <1>4, <1>5 DEF Target
  <2>2. ASSUME job'[p].step # "confirm", job'[p].step = "db" => latest' = None
        PROVE  TreeOf(job[p])'[job'[p].file] = Gone
    <3>1. job'[p].step \notin {"confirm", "db"}
      BY <1>5, <2>2
    <3> QED
      BY <1>5, <3>1 DEF Target
  <2> QED
    BY <2>1, <2>2
<1>6. job[p].op \in {"update", "delete"} => \E w \in db' : w.id = job'[p].id /\ w.file = job'[p].file
  BY DEF Target
<1>7. job[p].op = "update" /\ latest' # None /\ job'[p].step \notin {"confirm", "db"} =>
        TreeOf(job[p])'[job'[p].file].id = job'[p].id
  BY DEF Target
<1> QED
  BY <1>3, <1>5, <1>6, <1>7 DEF Target

LEMMA RecordedGrown ==
  ASSUME RemoteGrows, Recorded, latest' = latest, since' = since,
         latest = None => \A f \in File : Files(remote)'[f].id = None
  PROVE  Recorded'
BY DEF Recorded, RemoteGrows

LEMMA LatestGrown ==
  ASSUME IInv, RemoteGrows, clock' \in Nat, Recorded, UpToLatest,
         UNCHANGED <<db, latest, since>>
  PROVE  UpToLatest'
<1> SUFFICES ASSUME NEW k \in DOMAIN remote', remote'[k].n = latest
             PROVE  Synced(db, remote', k, since, remote'[k].tree, File)
  BY DEF UpToLatest
<1>1. /\ remote' \in Seq(Commit) /\ Numbered(remote', clock')
      /\ \A i \in DOMAIN remote : i \in DOMAIN remote' /\ remote'[i] = remote[i]
  BY DEF RemoteGrows
<1>2. latest \in Nat
  BY <1>1, NumberedOrder
<1>3. PICK m \in DOMAIN remote : remote[m].n = latest
  BY <1>2, NoneIsNoNumber DEF Recorded
<1>4. m \in DOMAIN remote' /\ remote'[m].n <= remote'[k].n /\ remote'[k].n <= remote'[m].n
  BY <1>1, <1>2, <1>3
<1>5. m <= k /\ k <= m /\ m \in Nat /\ k \in Nat
  <2>1. m <= k /\ k <= m
    BY <1>1, <1>4, NumberedOrder
  <2> QED
    BY <1>1, <2>1
<1>6. k = m
  BY <1>5
<1>7. \A i \in 1 .. k : remote'[i] = remote[i]
  BY <1>1, <1>3, <1>5, <1>6, CalmState
<1>8. Synced(db, remote, k, since, remote[k].tree, File)
  BY <1>3, <1>6 DEF UpToLatest
<1>9. \A f \in File : TouchedIn(remote', k, since, f) <=> TouchedIn(remote, k, since, f)
  BY <1>5, <1>7, TouchedSame
<1>10. remote'[k] = remote[k]
  BY <1>1, <1>3, <1>6
<1> QED
  BY <1>8, <1>9, <1>10 DEF Synced

\* A commit that leaves all files as they are.
LEMMA WaitingGrown ==
  ASSUME IInv, RemoteGrows, clock' \in Nat, Recorded, Waiting,
         UNCHANGED <<db, latest, since>>, Files(remote)' = Files(remote)
  PROVE  Waiting' /\ Recorded'
<1>1. UpToLatest'
  BY LatestGrown DEF Waiting
<1>2. KnownFiles(Files(remote), File)'
  BY DEF Waiting, KnownFiles
<1>3. Recorded'
  BY RecordedGrown DEF Recorded
<1> QED
  BY <1>1, <1>2, <1>3 DEF Waiting

\* A clone that is one commit ahead of the repository can be pushed.
LEMMA OneMoreAhead ==
  ASSUME IInv, NEW n \in Nat, OneMore(n), local.tree \in [File -> Content]
  PROVE  /\ Ahead /\ local.history = Append(remote, [n |-> n, tree |-> local.tree])
         /\ [n |-> n, tree |-> local.tree] \in Commit
         /\ Files(local.history) = local.tree /\ Last(local.history).n = n
         /\ Len(local.history) = Len(remote) + 1
<1> DEFINE e == [n |-> n, tree |-> local.tree]
<1>1. e \in Commit /\ local.history = Append(remote, e)
  BY CommitOf DEF OneMore
<1>2. e.tree = local.tree /\ e.n = n
  OBVIOUS
<1> HIDE DEF e
<1>3. remote \in Seq(Commit)
  BY CalmState
<1>4. Ahead
  BY <1>1, <1>3, PrefixAppend, SelfPrefix DEF Ahead
<1>5. Last(Append(remote, e)) = e /\ Len(Append(remote, e)) = Len(remote) + 1
  BY <1>1, <1>3, AppendOf
<1> QED
  BY <1>1, <1>2, <1>4, <1>5 DEF Files, e

\* No push fails that is a fast-forward.
LEMMA CalmPushes ==
  ASSUME allowed = {}, Ahead, Pushed \/ NotPushed
  PROVE  Pushed /\ ~ NotPushed /\ remote' = local.history
BY DEF Pushed, NotPushed

LEMMA CalmPull ==
  ASSUME IInv, SyncInv, allowed = {}, allowed' = allowed, NEW p \in Proc, Pull(p)
  PROVE  SyncInv'
<1>1. /\ AtWork(p) /\ job[p].step = "pull"
      /\ UNCHANGED <<remote, latest, db, edits, crashes, since>>
  BY DEF Pull, AtWork
<1>2. job[p] # Idle
  BY <1>1, Working1
<1>3. /\ \A o \in Proc \ {p} : job[o] = Idle
      /\ Stage(job[p]) /\ Target(job[p]) /\ Unique(db, clock) /\ Recorded
  BY <1>2, CalmJob
<1>4. Fits /\ Waiting /\ (job[p].op = "enable" => local = None)
  BY <1>1, <1>3 DEF Stage
<1>5. clock' \in Nat /\ clock <= clock'
  BY <1>1, PullOf
<1>6. Waiting' /\ Recorded' /\ Unique(db, clock)'
  BY <1>1, <1>3, <1>4, <1>5, WaitingSame, RecordedSame, UniqueSame
<1>7. Files(remote)' = Files(remote) /\ remote \in Seq(Commit)
  BY <1>1, CalmState
<1>8. CASE /\ local = None
           /\ local' = [history |-> Append(remote, [n |-> clock + 1, tree |-> Files(remote)]),
                        tree    |-> Files(remote)]
           /\ clock' = clock + 1
           /\ Goto(p, "setup")
  <2>1. "setup" \in Stages
    BY DEF Stages
  <2>2. /\ \A o \in Proc \ {p} : job'[o] = job[o]
        /\ job'[p] # Idle /\ job'[p].step = "setup"
        /\ job'[p].op = job[p].op /\ job'[p].file = job[p].file /\ job'[p].id = job[p].id
    BY <1>1, <1>8, <2>1, JobGoes DEF IInv
  <2>3. OneMore(clock)' /\ local'.tree = Files(remote)'
    BY <1>1, <1>8 DEF OneMore
  <2>4. Stage(job[p])'
    BY <1>6, <2>2, <2>3 DEF Stage
  <2>5. Target(job[p])'
    <3>1. TreeOf(job[p])' = TreeOf(job[p])
      BY <1>1, <1>7, <2>2 DEF TreeOf
    <3>2. latest = None => job[p].op = "enable"
      BY <1>1, <1>3 DEF Target
    <3>3. p = "sync" => job[p].op = "sync"
      BY <1>1, Working1
    <3> QED
      BY <1>1, <1>2, <1>3, <1>5, <2>2, <3>1, <3>2, <3>3, TargetOn
  <2> QED
    BY <1>3, <1>6, <2>2, <2>4, <2>5, CalmStep
<1>9. CASE local # None /\ Goto(p, "changes") /\ SameClone' /\ UNCHANGED clock
  <2>1. "changes" \in Stages
    BY DEF Stages
  <2>2. /\ \A o \in Proc \ {p} : job'[o] = job[o]
        /\ job'[p] # Idle /\ job'[p].step = "changes"
        /\ job'[p].op = job[p].op /\ job'[p].file = job[p].file /\ job'[p].id = job[p].id
    BY <1>1, <1>9, <2>1, JobGoes DEF IInv
  <2>4. Stage(job[p])'
    BY <1>6, <1>9, <2>2 DEF Stage
  <2>5. Target(job[p])'
    <3>1. TreeOf(job[p])' = TreeOf(job[p])
      BY <1>1, <1>7, <2>2 DEF TreeOf
    <3>2. latest = None => job[p].op = "enable"
      BY <1>1, <1>3 DEF Target
    <3>3. p = "sync" => job[p].op = "sync"
      BY <1>1, Working1
    <3> QED
      BY <1>1, <1>2, <1>3, <1>4, <1>5, <1>9, <2>2, <3>1, <3>2, <3>3, TargetOn
  <2> QED
    BY <1>3, <1>6, <2>2, <2>4, <2>5, CalmStep
<1>10. ASSUME local # None
       PROVE  /\ Behind /\ ~ Dirty /\ local.history \in Seq(Commit)
              /\ local.tree = Files(local.history)
              /\ Ahead => SameClone
              /\ CheckedOut = Files(remote)
  <2>1. /\ local.history \in Seq(Commit) /\ local.tree = Files(local.history)
        /\ IsPrefix(local.history, remote) /\ local.tree \in [File -> Content]
    BY <1>4, <1>10 DEF Fits, IInv, TypeOK
  <2>2. Ahead => local.history = remote
    <3> SUFFICES ASSUME Ahead PROVE local.history = remote
      OBVIOUS
    <3>1. /\ Len(local.history) <= Len(remote) /\ Len(remote) <= Len(local.history)
          /\ \A k \in DOMAIN remote : remote[k] = local.history[k]
      BY <1>7, <2>1, PrefixOf DEF Ahead
    <3>2. Len(local.history) = Len(remote)
      BY <1>7, <2>1, <3>1
    <3> QED
      BY <1>7, <2>1, <3>1, <3>2
  <2>3. Files(remote) \in [File -> Content]
    BY CalmState
  <2>4. CheckedOut = Files(remote)
    BY <2>1, <2>3 DEF CheckedOut
  <2> QED
    BY <2>1, <2>2, <2>4 DEF Behind, Dirty, SameClone
<1>11. ASSUME local # None, \/ Ahead /\ local' = local
                           \/ local' = [history |-> remote, tree |-> CheckedOut]
       PROVE  SameClone'
  BY <1>1, <1>7, <1>10, <1>11 DEF SameClone
<1> QED
  BY <1>8, <1>9, <1>10, <1>11 DEF Pull

LEMMA CalmSetup ==
  ASSUME IInv, SyncInv, allowed = {}, allowed' = allowed, NEW p \in Proc, Setup(p)
  PROVE  SyncInv'
<1>1. /\ AtWork(p) /\ job[p].step = "setup" /\ (Pushed \/ NotPushed)
      /\ UNCHANGED <<local, latest, db, edits, clock, crashes, since>>
  BY DEF Setup, GitPush, AtWork
<1>2. job[p] # Idle /\ (p = "sync" => job[p].op = "sync")
  BY <1>1, Working1
<1>3. /\ \A o \in Proc \ {p} : job[o] = Idle
      /\ Stage(job[p]) /\ Target(job[p]) /\ Unique(db, clock) /\ Recorded
  BY <1>2, CalmJob
<1>4. OneMore(clock) /\ local.tree = Files(remote) /\ Waiting
  BY <1>1, <1>3 DEF Stage
<1>5. Ahead /\ Files(local.history) = local.tree /\ clock \in Nat
  BY <1>4, CalmState, OneMoreAhead
<1>6. Pushed /\ ~ NotPushed /\ remote' = local.history
  BY <1>1, <1>5, CalmPushes
<1>7. Files(remote)' = Files(remote)
  BY <1>4, <1>5, <1>6
<1>8. RemoteGrows /\ clock' \in Nat /\ clock <= clock'
  BY <1>1, <1>5, PushOf
<1>9. Waiting' /\ Recorded' /\ Unique(db, clock)' /\ SameClone'
  BY <1>1, <1>3, <1>4, <1>6, <1>7, <1>8, WaitingGrown, UniqueSame DEF SameClone
<1>10. ASSUME NEW s \in {"changes", "config"}, Goto(p, s), s = "config" <=> job[p].op = "enable"
       PROVE  SyncInv'
  <2>1. s \in Stages
    BY DEF Stages
  <2>2. /\ \A o \in Proc \ {p} : job'[o] = job[o]
        /\ job'[p] # Idle /\ job'[p].step = s
        /\ job'[p].op = job[p].op /\ job'[p].file = job[p].file /\ job'[p].id = job[p].id
    BY <1>1, <1>10, <2>1, JobGoes DEF IInv
  <2>4. Stage(job[p])'
    BY <1>9, <2>2 DEF Stage
  <2>5. Target(job[p])'
    <3>1. TreeOf(job[p])' = TreeOf(job[p])
      BY <1>1, <1>7, <2>2 DEF TreeOf
    <3>2. latest = None => job[p].op = "enable"
      BY <1>1, <1>3 DEF Target
    <3> QED
      BY <1>1, <1>2, <1>3, <1>8, <1>10, <2>2, <3>1, <3>2, TargetOn
  <2> QED
    BY <1>3, <1>9, <2>2, <2>4, <2>5, CalmStep
<1> QED
  BY <1>6, <1>10 DEF Setup, GitPush

LEMMA CalmAddGitConfig ==
  ASSUME IInv, SyncInv, allowed = {}, allowed' = allowed, NEW p \in Proc, AddGitConfig(p)
  PROVE  SyncInv'
<1>1. /\ AtWork(p) /\ job[p].step = "config" /\ Stop(p)
      /\ UNCHANGED <<remote, local, db, edits, clock, crashes>>
  BY DEF AddGitConfig, AtWork
<1>2. job[p] # Idle
  BY <1>1, Working1
<1>3. /\ \A o \in Proc \ {p} : job[o] = Idle
      /\ Stage(job[p]) /\ Unique(db, clock) /\ Recorded
  BY <1>2, CalmJob
<1>4. SameClone /\ Waiting
  BY <1>1, <1>3 DEF Stage
<1>5. /\ remote \in Seq(Commit) /\ Numbered(remote, clock) /\ clock \in Nat /\ since \in Nat
      /\ Last(remote).n \in Nat /\ DOMAIN remote = 1 .. Len(remote) /\ Len(remote) \in Nat
      /\ Len(remote) \in DOMAIN remote /\ Last(remote) = remote[Len(remote)]
  BY CalmState
<1>6. \A i \in DOMAIN remote : remote[i].n \in Nat /\ remote[i].n <= Last(remote).n
  BY <1>5, NumberedOrder
<1>7. Fits'
  BY <1>1, <1>4, <1>5, SelfPrefix DEF Fits, SameClone
<1>8. Unique(db, clock)' /\ job'[p] = Idle /\ \A o \in Proc \ {p} : job'[o] = Idle
  <2>1. Unique(db, clock)'
    BY <1>1, <1>3, <1>5, UniqueSame
  <2> QED
    BY <1>1, <1>3, <2>1, JobStops DEF IInv
<1>9. CASE latest = None
  <2>1. latest' = Last(remote).n /\ since' = Last(remote).n
    BY <1>4, <1>9 DEF AddGitConfig, SameClone
  <2>2. Recorded'
    BY <1>1, <1>5, <2>1, NoneIsNoNumber DEF Recorded
  <2>3. ASSUME NEW k \in DOMAIN remote, NEW f \in File PROVE ~ TouchedIn(remote, k, since', f)
    <3>1. \A i \in 2 .. k : i \in DOMAIN remote
      BY <1>5
    <3>2. \A i \in 2 .. k : ~ (remote[i].n > since')
      BY <1>5, <1>6, <2>1, <3>1
    <3> QED
      BY <3>2 DEF TouchedIn
  <2>4. UpToLatest'
    BY <1>1, <2>3 DEF UpToLatest, Synced
  <2>5. Waiting'
    BY <1>1, <1>4, <2>4 DEF Waiting, KnownFiles
  <2> QED
    BY <1>7, <1>8, <2>2, <2>5, CalmStep
<1>10. CASE latest # None
  <2>1. latest' = latest /\ since' = since
    BY <1>10 DEF AddGitConfig
  <2>2. Recorded' /\ Waiting'
    BY <1>1, <1>3, <1>4, <2>1, RecordedSame, WaitingSame
  <2> QED
    BY <1>7, <1>8, <2>2, CalmStep
<1> QED
  BY <1>9, <1>10

\* The recorded commit is the last one: everything is synced.
LEMMA AllSynced ==
  ASSUME IInv, Waiting, latest = Last(remote).n
  PROVE  UpToDate(File)
<1>1. Len(remote) \in DOMAIN remote /\ remote[Len(remote)].n = latest
      /\ Files(remote) = remote[Len(remote)].tree
  BY CalmState DEF Files
<1> QED
  BY <1>1 DEF Waiting, UpToLatest, UpToDate

LEMMA CalmGetChanges ==
  ASSUME IInv, SyncInv, allowed = {}, allowed' = allowed, NEW p \in Proc, GetChanges(p)
  PROVE  SyncInv'
<1>1. /\ AtWork(p) /\ job[p].step = "changes"
      /\ UNCHANGED <<remote, local, latest, db, edits, clock, crashes, since>>
  BY DEF GetChanges, AtWork
<1>2. job[p] # Idle /\ (p = "sync" => job[p].op = "sync") /\ job[p] \in JobType
  BY <1>1, Working1, JobsOf DEF IInv
<1>3. /\ \A o \in Proc \ {p} : job[o] = Idle
      /\ Stage(job[p]) /\ Target(job[p]) /\ Unique(db, clock) /\ Recorded
  BY <1>2, CalmJob
<1>4. SameClone /\ Waiting
  BY <1>1, <1>3 DEF Stage
<1>5. /\ remote \in Seq(Commit) /\ Numbered(remote, clock) /\ clock \in Nat /\ since \in Nat
      /\ Last(remote).n \in Nat /\ DOMAIN remote = 1 .. Len(remote) /\ Len(remote) \in Nat
      /\ Len(remote) \in DOMAIN remote /\ Last(remote) = remote[Len(remote)]
  BY CalmState
<1>6. Recorded' /\ Unique(db, clock)' /\ Waiting' /\ SameClone'
  BY <1>1, <1>3, <1>4, <1>5, WaitingSame, RecordedSame, UniqueSame DEF SameClone
<1>7. job[p].op # "enable" /\ latest # None
  BY <1>1, <1>3 DEF Target
<1>8. TreeOf(job[p]) = Files(remote)
  BY <1>1 DEF TreeOf
<1> DEFINE known == {i \in DOMAIN remote : remote[i].n = latest}
<1>9. PICK k \in DOMAIN remote : remote[k].n = latest
  BY <1>3, <1>7 DEF Recorded
<1>10. known = {k}
  <2>1. \A i \in DOMAIN remote : remote[i].n = latest => i = k
    <3>1. \A i \in DOMAIN remote : remote[i].n = latest => i <= k /\ k <= i
      <4>1. \A i \in DOMAIN remote : remote[i].n = latest =>
              remote[i].n <= remote[k].n /\ remote[k].n <= remote[i].n
        <5>1. remote[k].n \in Nat
          BY <1>5, NumberedOrder
        <5> QED
          BY <1>9, <5>1
      <4> QED
        BY <1>5, <4>1, NumberedOrder
    <3> QED
      BY <1>5, <3>1
  <2> QED
    BY <1>9, <2>1
<1>11. CASE Stop(p)
  <2>1. Fits'
    BY <1>5, <1>6, SelfPrefix, <1>1, <1>4 DEF Fits, SameClone
  <2>2. job'[p] = Idle /\ \A o \in Proc \ {p} : job'[o] = Idle
    BY <1>3, <1>11, JobStops DEF IInv
  <2> QED
    BY <1>6, <2>1, <2>2, CalmStep
<1>12. CASE Goto(p, "write") /\ job[p].op # "sync" /\ Last(remote).n = latest
  <2>1. "write" \in Stages
    BY DEF Stages
  <2>2. /\ \A o \in Proc \ {p} : job'[o] = job[o]
        /\ job'[p] # Idle /\ job'[p].step = "write"
        /\ job'[p].op = job[p].op /\ job'[p].file = job[p].file /\ job'[p].id = job[p].id
    BY <1>1, <1>12, <2>1, JobGoes DEF IInv
  <2>3. UpToDate(File)
    BY <1>4, <1>12, AllSynced
  <2>4. UpToDate(File)' /\ KnownFiles(Files(remote), File)' /\ latest' = Last(remote').n
    BY <1>1, <1>6, <1>12, <2>3 DEF UpToDate, Waiting
  <2>5. Stage(job[p])'
    BY <1>6, <2>2, <2>4 DEF Stage
  <2>6. Target(job[p])'
    <3>1. TreeOf(job[p])' = TreeOf(job[p])
      BY <1>1, <2>2 DEF TreeOf
    <3>2. job[p].op \in {"create", "update", "delete"}
      BY <1>2, <1>7, <1>12, JobsOf DEF IInv
    <3> QED
      BY <1>1, <1>2, <1>3, <1>5, <1>7, <2>2, <3>1, <3>2, TargetOn
  <2> QED
    BY <1>3, <1>6, <2>2, <2>5, <2>6, CalmStep
<1>13. ASSUME NEW again \in SUBSET File,
              job' = [job EXCEPT ![p] = [job[p] EXCEPT !.step = "apply",
                        !.head = Last(remote).n, !.todo = ChangesAfter(k) \cup again]]
       PROVE  SyncInv'
  <2> DEFINE todo == ChangesAfter(k) \cup again
             j == [job[p] EXCEPT !.step = "apply", !.head = Last(remote).n, !.todo = todo]
  <2>1. todo \in SUBSET File
    BY DEF ChangesAfter, ChangedAt
  <2>2. \A f \in File \ todo : \A i \in k + 1 .. Len(remote) :
          remote[i].tree[f] = remote[i - 1].tree[f]
    <3>1. \A i \in k + 1 .. Len(remote) : i > 1
      BY <1>5
    <3> QED
      BY <1>4, <3>1 DEF ChangesAfter, ChangedAt, SameClone
  <2> HIDE DEF todo
  <2>3. /\ j \in JobType /\ j.step = "apply" /\ j.head = Last(remote).n /\ j.todo = todo
        /\ j.op = job[p].op /\ j.file = job[p].file /\ j.id = job[p].id
    BY <1>2, <1>5, <2>1 DEF JobType
  <2>4. job' = [job EXCEPT ![p] = j]
    BY <1>13 DEF todo
  <2> HIDE DEF j
  <2>5. /\ job'[p] = j /\ \A o \in Proc \ {p} : job'[o] = job[o]
    BY <1>1, <2>3, <2>4, JobBecomes DEF IInv
  <2>6. j # Idle
    BY <2>3 DEF Idle
  <2>7. \A f \in File \ todo : Files(remote)[f] = remote[k].tree[f]
    <3> SUFFICES ASSUME NEW f \in File \ todo PROVE Files(remote)[f] = remote[k].tree[f]
      OBVIOUS
    <3>1. \A i \in k .. Len(remote) : remote[i].tree[f] = remote[k].tree[f]
      BY <1>5, <2>2, Untouched
    <3>2. Len(remote) \in k .. Len(remote)
      BY <1>5
    <3> QED
      BY <1>5, <3>1, <3>2 DEF Files
  <2>8. \A f \in File \ todo : TouchedIn(remote, Len(remote), since, f) => TouchedIn(remote, k, since, f)
    <3> SUFFICES ASSUME NEW f \in File \ todo, TouchedIn(remote, Len(remote), since, f)
                 PROVE  TouchedIn(remote, k, since, f)
      OBVIOUS
    <3>1. PICK i \in 2 .. Len(remote) :
            remote[i].n > since /\ remote[i].tree[f] # remote[i - 1].tree[f]
      BY DEF TouchedIn
    <3>2. i \notin k + 1 .. Len(remote)
      BY <2>2, <3>1
    <3>3. i \in 2 .. k
      BY <1>5, <3>2
    <3> QED
      BY <3>1, <3>3 DEF TouchedIn
  <2>9. Applied(j)
    <3>1. Synced(db, remote, k, since, remote[k].tree, File)
      BY <1>4, <1>9 DEF Waiting, UpToLatest
    <3>2. local.tree = Files(remote)
      BY <1>4 DEF SameClone
    <3> QED
      BY <2>3, <2>7, <2>8, <3>1, <3>2 DEF Applied, Synced
  <2>10. Applied(job[p])'
    BY <1>1, <2>3, <2>5, <2>9 DEF Applied
  <2>11. Stage(job[p])'
    <3>1. /\ local'.history = remote' /\ job'[p].head = Last(remote').n
          /\ local'.tree = Files(remote)'
      BY <1>1, <1>4, <2>3, <2>5 DEF SameClone
    <3>2. KnownFiles(local.tree, File)'
      BY <1>6, <3>1 DEF Waiting, SameClone
    <3>3. job'[p].step = "apply"
      BY <2>3, <2>5
    <3> QED
      BY <2>10, <3>1, <3>2, <3>3 DEF Stage
  <2>12. Target(job[p])'
    <3>1. TreeOf(job[p])' = TreeOf(job[p])
      BY <1>1, <1>4, <1>8, <2>3, <2>5 DEF TreeOf, SameClone
    <3> QED
      BY <1>1, <1>2, <1>3, <1>5, <1>7, <2>3, <2>5, <3>1, TargetOn
  <2> QED
    BY <1>3, <1>6, <2>5, <2>6, <2>11, <2>12, CalmStep
<1> QED
  <2>1. {i \in DOMAIN local.history : local.history[i].n = latest} = {k}
        /\ Last(local.history).n = Last(remote).n
    BY <1>4, <1>10 DEF SameClone
  <2> HIDE DEF known
  <2>2. \/ Stop(p)
        \/ Goto(p, "write") /\ job[p].op # "sync" /\ Last(remote).n = latest
        \/ \E again \in SUBSET File :
             job' = [job EXCEPT ![p] = [job[p] EXCEPT !.step = "apply",
                        !.head = Last(remote).n, !.todo = ChangesAfter(k) \cup again]]
    BY <2>1 DEF GetChanges
  <2> QED
    BY <1>11, <1>12, <1>13, <2>2

LEMMA RemovedOne ==
  ASSUME NEW d \in SUBSET Workflow, NEW n, Unique(d, n), NEW w \in d,
         NEW e, e = (d \ {w}) \cup {[w EXCEPT !.isRemoved = TRUE]}
  PROVE  Unique(e, n) /\ OnlyOf(d, e, w.file) /\ SameIds(d, e) /\ LiveOf(e, w.file) = {}
<1> DEFINE r == [w EXCEPT !.isRemoved = TRUE]
           G == [v \in d |-> IF v = w THEN r ELSE v]
<1>1. r \in Workflow /\ r.id = w.id /\ r.file = w.file /\ r.isRemoved
  BY DEF Workflow
<1> HIDE DEF r
<1>2. /\ G \in [d -> Workflow] /\ \A v \in d : G[v].id = v.id /\ G[v].file = v.file
      /\ \A v \in d : v.file # w.file => G[v] = v
  BY <1>1
<1>3. e = ImageOf(G, d)
  BY DEF r, ImageOf
<1>4. \A v \in d : v.file = w.file => G[v] = r
  BY DEF Unique
<1> HIDE DEF G
<1>5. /\ Unique(ImageOf(G, d), n) /\ SameIds(d, ImageOf(G, d)) /\ OnlyOf(d, ImageOf(G, d), w.file)
      /\ \A v \in ImageOf(G, d) : \E u \in d : v = G[u]
  BY <1>2, Changed
<1>6. \A v \in ImageOf(G, d) : v.file = w.file => v.isRemoved
  BY <1>1, <1>2, <1>4, <1>5
<1>7. LiveOf(ImageOf(G, d), w.file) = {}
  BY <1>6 DEF LiveOf
<1> QED
  BY <1>3, <1>5, <1>7

Revised(w, rev) == [w EXCEPT !.rev = rev]
ReviseLive(d, id, rev) ==
  {IF w.id = id /\ ~ w.isRemoved THEN Revised(w, rev) ELSE w : w \in d}
Revise(d, id, rev) == {IF w.id = id THEN Revised(w, rev) ELSE w : w \in d}

LEMMA RevisedOne ==
  ASSUME NEW d \in SUBSET Workflow, NEW n, Unique(d, n), NEW w \in d, NEW rev \in Nat,
         NEW e, (e = ReviseLive(d, w.id, rev) /\ ~ w.isRemoved) \/ e = Revise(d, w.id, rev)
  PROVE  /\ Unique(e, n) /\ OnlyOf(d, e, w.file) /\ SameIds(d, e)
         /\ ~ w.isRemoved => \E v \in LiveOf(e, w.file) : v.id = w.id /\ v.rev = rev
<1> DEFINE r == Revised(w, rev)
           G == [v \in d |-> IF v = w THEN r ELSE v]
<1>1. r \in Workflow /\ r.id = w.id /\ r.file = w.file /\ r.isRemoved = w.isRemoved /\ r.rev = rev
  BY DEF Workflow, Revised
<1> HIDE DEF r
<1>2. /\ G \in [d -> Workflow] /\ \A v \in d : G[v].id = v.id /\ G[v].file = v.file
      /\ \A v \in d : v.file # w.file => G[v] = v
      /\ G[w] = r
  BY <1>1
<1>3. e = ImageOf(G, d)
  <2>1. \A v \in d : v.id = w.id <=> v = w
    BY DEF Unique
  <2>2. \A v \in d : /\ ~ w.isRemoved =>
                            (IF v.id = w.id /\ ~ v.isRemoved THEN Revised(v, rev) ELSE v) = G[v]
                     /\ (IF v.id = w.id THEN Revised(v, rev) ELSE v) = G[v]
    BY <2>1 DEF r
  <2> HIDE DEF G
  <2>3. ASSUME ~ w.isRemoved PROVE ReviseLive(d, w.id, rev) = ImageOf(G, d)
    <3>1. \A x : x \in ReviseLive(d, w.id, rev) <=> \E v \in d : x = G[v]
      BY <2>2, <2>3 DEF ReviseLive
    <3>2. \A x : x \in ImageOf(G, d) <=> \E v \in d : x = G[v]
      BY DEF ImageOf
    <3> QED
      BY <3>1, <3>2
  <2>4. Revise(d, w.id, rev) = ImageOf(G, d)
    <3>1. \A x : x \in Revise(d, w.id, rev) <=> \E v \in d : x = G[v]
      BY <2>2 DEF Revise
    <3>2. \A x : x \in ImageOf(G, d) <=> \E v \in d : x = G[v]
      BY DEF ImageOf
    <3> QED
      BY <3>1, <3>2
  <2> QED
    BY <2>3, <2>4
<1> HIDE DEF G
<1>4. /\ Unique(ImageOf(G, d), n) /\ SameIds(d, ImageOf(G, d)) /\ OnlyOf(d, ImageOf(G, d), w.file)
      /\ r \in ImageOf(G, d)
  BY <1>2, Changed
<1>5. ~ w.isRemoved => r \in LiveOf(ImageOf(G, d), w.file)
  BY <1>1, <1>4 DEF LiveOf
<1> QED
  BY <1>1, <1>3, <1>4, <1>5

\* One file is applied: its workflow matches it, and nothing else changes.
LEMMA AppliedOne ==
  ASSUME IInv, allowed = {}, Unique(db, clock), NEW p \in Proc, NEW f \in File, Apply(p, f),
         KnownFiles(local.tree, File)
  PROVE  /\ clock' \in Nat /\ clock <= clock' /\ Unique(db', clock') /\ OnlyOf(db, db', f)
         /\ local'.tree \in [File -> Content]
         /\ \A g \in File \ {f} : local'.tree[g] = local.tree[g]
         /\ Match(db', f, local'.tree[f]) /\ Known(db', f, local'.tree[f])
         /\ \/ SameIds(db, db') /\ local'.tree = local.tree
            \/ /\ local.tree[f] # Gone /\ local.tree[f].id = None
               /\ db' = db \cup {[id |-> clock + 1, file |-> f, rev |-> local.tree[f].rev,
                                  isRemoved |-> FALSE]}
<1> DEFINE c == local.tree[f]
<1>1. AtWork(p) /\ job[p].step = "apply"
  BY DEF Apply, AtWork
<1>2. /\ local \in Clone /\ local.tree \in [File -> Content] /\ c \in Content
      /\ clock \in Nat /\ clock + 1 \in Nat /\ db \in SUBSET Workflow
  BY <1>1, ClonePresent, CalmState
<1>3. Known(db, f, c)
  BY DEF KnownFiles
<1>4. c.id \in Nat \cup {None} /\ c.rev \in Nat
  BY <1>2 DEF Content
<1> HIDE DEF c
<1>5. CASE c = Gone /\ deleteWorkflow(f) /\ UNCHANGED <<local, clock>>
  <2>1. c.id = None
    BY <1>5 DEF Gone
  <2>2. CASE Named(f) = {} /\ db' = db
    <3>1. LiveOf(db, f) = {} /\ OnlyOf(db, db, f) /\ SameIds(db, db)
      BY <2>2 DEF Named, LiveOf, OnlyOf, SameIds
    <3>2. Match(db', f, c) /\ Known(db', f, c)
      BY <1>5, <2>1, <2>2, <3>1, MatchGone DEF Known
    <3> QED
      BY <1>2, <1>5, <2>2, <3>1, <3>2 DEF c
  <2>3. ASSUME NEW w \in Named(f), db' = (db \ {w}) \cup {[w EXCEPT !.isRemoved = TRUE]}
        PROVE  Unique(db', clock) /\ OnlyOf(db, db', f) /\ SameIds(db, db')
               /\ LiveOf(db', f) = {}
    <3>1. w \in db /\ w.file = f
      BY DEF Named
    <3> QED
      BY <1>2, <2>3, <3>1, RemovedOne
  <2>4. CASE Named(f) # {}
    <3>1. Unique(db', clock) /\ OnlyOf(db, db', f) /\ SameIds(db, db') /\ LiveOf(db', f) = {}
      BY <1>5, <2>3, <2>4 DEF deleteWorkflow
    <3>2. Match(db', f, c) /\ Known(db', f, c)
      BY <1>5, <2>1, <3>1, MatchGone DEF Known
    <3> QED
      BY <1>2, <1>5, <3>1, <3>2 DEF c
  <2> QED
    BY <1>5, <2>2, <2>4 DEF deleteWorkflow
<1>6. CASE c # Gone /\ c.id # None /\ updateWorkflow(f, c) /\ UNCHANGED <<local, clock>>
  <2>1. PICK w \in LiveOf(db, f) : w.id = c.id
    BY <1>3, <1>6 DEF Known
  <2>2. w \in db /\ w.file = f /\ ~ w.isRemoved
    BY DEF LiveOf
  <2>3. db' = ReviseLive(db, w.id, c.rev)
    BY <1>6, <2>1 DEF updateWorkflow, ReviseLive, Revised
  <2>4. /\ Unique(db', clock) /\ OnlyOf(db, db', f) /\ SameIds(db, db')
        /\ \E v \in LiveOf(db', f) : v.id = c.id /\ v.rev = c.rev
    BY <1>2, <1>4, <2>1, <2>2, <2>3, RevisedOne
  <2>5. db' \in SUBSET Workflow
    BY ApplyOf
  <2>6. Match(db', f, c)
    BY <1>2, <1>6, <2>4, <2>5, MatchOne
  <2>7. Known(db', f, c)
    BY <1>6, <2>4 DEF Known
  <2> QED
    BY <1>2, <1>6, <2>4, <2>6, <2>7 DEF c
<1>7. CASE /\ c # Gone /\ c.id = None
           /\ Insert(clock + 1, f, c.rev)
           /\ local' = [local EXCEPT !.tree[f].id = clock + 1]
           /\ clock' = clock + 1
  <2> DEFINE w == [id |-> clock + 1, file |-> f, rev |-> c.rev, isRemoved |-> FALSE]
             n == [c EXCEPT !.id = clock + 1]
  <2>1. w \in Workflow /\ n \in Content /\ n.id = clock + 1 /\ n.rev = c.rev
    BY <1>2, <1>4, Contents DEF Workflow, Content
  <2>2. Of(db, f) = {}
    BY <1>3, <1>7 DEF Known
  <2>3. \A v \in db : v.id # clock + 1
    <3>1. \A v \in db : v.id \in Nat /\ v.id <= clock
      BY <1>2 DEF Unique, Workflow
    <3> QED
      BY <1>2, <3>1
  <2>4. db' = db \cup {w}
    BY <1>7 DEF Insert
  <2>5. Unique(db', clock') /\ OnlyOf(db, db', f)
    <3>1. w.file = f /\ w.id = clock + 1 /\ clock + 1 <= clock + 1 /\ clock <= clock + 1
      BY <1>2
    <3> HIDE DEF w, n
    <3>3. Of(db, w.file) = {} /\ (\A v \in db : v.id # w.id) /\ w.id <= clock + 1
      BY <1>2, <2>2, <2>3, <3>1
    <3>2. /\ Unique(db \cup {w}, clock + 1)
          /\ \A g : g # f => Of(db \cup {w}, g) = Of(db, g) /\ LiveOf(db \cup {w}, g) = LiveOf(db, g)
      BY <1>2, <2>1, <3>1, <3>3, Added
    <3> QED
      BY <1>7, <2>4, <3>2 DEF OnlyOf
  <2>6. local'.tree = [local.tree EXCEPT ![f] = n]
    <3>1. local' = [local EXCEPT !.tree = [local.tree EXCEPT ![f] = [local.tree[f] EXCEPT !.id = clock + 1]]]
      BY <1>7
    <3> QED
      BY <1>2, <3>1 DEF Clone, c
  <2>7. w \in LiveOf(db', f) /\ n.id # None
    BY <1>2, <2>1, <2>4, NoneIsNoNumber DEF LiveOf
  <2>8. w.id = n.id /\ w.rev = n.rev
    BY <2>1
  <2>9. local'.tree \in [File -> Content] /\ local'.tree[f] = n
        /\ \A g \in File \ {f} : local'.tree[g] = local.tree[g]
    <3> HIDE DEF n
    <3> QED
      BY <1>2, <2>1, <2>6
  <2>10. db' \in SUBSET Workflow
    BY ApplyOf
  <2>11. db' = db \cup {[id |-> clock + 1, file |-> f, rev |-> local.tree[f].rev, isRemoved |-> FALSE]}
    BY <2>4 DEF c
  <2> HIDE DEF w, n
  <2>12. Match(db', f, n) /\ Known(db', f, n)
    <3>1. n # Gone
      BY <2>7 DEF Gone
    <3>2. Match(db', f, n)
      BY <2>1, <2>5, <2>7, <2>8, <2>10, MatchOne
    <3> QED
      BY <2>7, <2>8, <3>2 DEF Known
  <2> QED
    BY <1>2, <1>7, <2>5, <2>9, <2>11, <2>12 DEF c
<1>8. CASE c # Gone /\ c.id = None /\ Live(f) # {}
  BY <1>3, <1>8 DEF Known, Live, Of
<1>9. CASE "fault" \in allowed
  BY <1>9
<1> QED
  BY <1>5, <1>6, <1>7, <1>8, <1>9 DEF Apply, c

LEMMA CalmApply ==
  ASSUME IInv, SyncInv, allowed = {}, allowed' = allowed, NEW p \in Proc, NEW f \in File, Apply(p, f)
  PROVE  SyncInv'
<1>1. /\ AtWork(p) /\ job[p].step = "apply"
      /\ UNCHANGED <<remote, latest, edits, crashes, since>>
  BY DEF Apply, AtWork
<1>2. job[p] # Idle /\ (p = "sync" => job[p].op = "sync") /\ job[p] \in JobType
  BY <1>1, Working1, JobsOf DEF IInv
<1>3. /\ \A o \in Proc \ {p} : job[o] = Idle
      /\ Stage(job[p]) /\ Target(job[p]) /\ Unique(db, clock) /\ Recorded
  BY <1>2, CalmJob
<1>4. /\ local.history = remote /\ job[p].head = Last(remote).n
      /\ job[p].new \/ local.tree = Files(remote)
      /\ KnownFiles(local.tree, File) /\ Applied(job[p])
  BY <1>1, <1>3 DEF Stage
<1>5. /\ clock' \in Nat /\ clock <= clock' /\ Unique(db', clock') /\ OnlyOf(db, db', f)
      /\ local'.tree \in [File -> Content]
      /\ \A g \in File \ {f} : local'.tree[g] = local.tree[g]
      /\ Match(db', f, local'.tree[f]) /\ Known(db', f, local'.tree[f])
      /\ \/ SameIds(db, db') /\ local'.tree = local.tree
         \/ /\ local.tree[f] # Gone /\ local.tree[f].id = None
            /\ db' = db \cup {[id |-> clock + 1, file |-> f, rev |-> local.tree[f].rev,
                               isRemoved |-> FALSE]}
  BY <1>3, <1>4, AppliedOne
<1>6. local'.history = remote' /\ Recorded' /\ Unique(db, clock)'
  <2>1. local'.history = local.history
    BY ApplyOf
  <2> QED
    BY <1>1, <1>3, <1>4, <1>5, <2>1, RecordedSame
<1>7. PICK new \in BOOLEAN :
        /\ job' = [job EXCEPT ![p] = [job[p] EXCEPT !.todo = job[p].todo \ {f}, !.new = new]]
        /\ new \/ (new = job[p].new /\ local' = local)
  <2>1. CASE Passed(p, f) /\ local' = local
    <3>1. job[p].new \in BOOLEAN
      BY <1>2 DEF JobType
    <3>2. job' = [job EXCEPT ![p] = [job[p] EXCEPT !.todo = job[p].todo \ {f}]]
      BY <2>1 DEF Passed
    <3>3. [job[p] EXCEPT !.todo = job[p].todo \ {f}]
            = [job[p] EXCEPT !.todo = job[p].todo \ {f}, !.new = job[p].new]
      BY <1>2 DEF JobType
    <3> QED
      BY <2>1, <3>1, <3>2, <3>3
  <2>2. CASE job' = [job EXCEPT ![p].todo = @ \ {f}, ![p].new = TRUE]
    <3>1. job' = [job EXCEPT ![p] = [job[p] EXCEPT !.todo = job[p].todo \ {f}, !.new = TRUE]]
      BY <2>2, <1>2
    <3> QED
      BY <3>1
  <2> QED
    BY <2>1, <2>2 DEF Apply
<1> DEFINE j == [job[p] EXCEPT !.todo = job[p].todo \ {f}, !.new = new]
<1>8. job' = [job EXCEPT ![p] = j]
  BY <1>7
<1>9. /\ j \in JobType /\ j.step = "apply" /\ j.head = job[p].head /\ j.new = new
      /\ j.todo = job[p].todo \ {f}
      /\ j.op = job[p].op /\ j.file = job[p].file /\ j.id = job[p].id
  BY <1>1, <1>2 DEF JobType
<1> HIDE DEF j
<1>10. job'[p] = j /\ (\A o \in Proc \ {p} : job'[o] = job[o]) /\ j # Idle
  <2>1. j # Idle
    BY <1>9 DEF Idle
  <2> QED
    BY <1>1, <1>8, <1>9, <2>1, JobBecomes DEF IInv
<1>11. KnownFiles(local.tree, File)'
  <2>1. \A g \in File \ {f} : Known(db', g, local'.tree[g])
    BY <1>4, <1>5 DEF KnownFiles, Known, OnlyOf
  <2> QED
    BY <1>5, <2>1 DEF KnownFiles
<1>12. Applied(job[p])'
  <2> SUFFICES ASSUME NEW g \in File, g \notin j.todo,
                      TouchedIn(remote, Len(remote), since, g)
                        \/ local'.tree[g] # Files(remote)[g]
               PROVE  Match(db', g, local'.tree[g])
    BY <1>1, <1>9, <1>10 DEF Applied
  <2>1. CASE g = f
    BY <1>5, <2>1
  <2>2. CASE g # f
    <3>1. g \notin job[p].todo /\ local'.tree[g] = local.tree[g]
      BY <1>5, <1>9, <2>2
    <3>2. Match(db, g, local.tree[g])
      BY <1>4, <3>1 DEF Applied
    <3>3. LiveOf(db', g) = LiveOf(db, g)
      BY <1>5, <2>2 DEF OnlyOf
    <3> QED
      BY <3>1, <3>2, <3>3 DEF Match
  <2> QED
    BY <2>1, <2>2
<1>13. Stage(job[p])'
  <2>1. job'[p].new \/ local'.tree = Files(remote)'
    BY <1>1, <1>4, <1>7, <1>9, <1>10
  <2>2. job'[p].step = "apply" /\ job'[p].head = Last(remote').n
    BY <1>1, <1>4, <1>9, <1>10
  <2> QED
    BY <1>6, <1>11, <1>12, <2>1, <2>2 DEF Stage
<1>14. Target(job[p])'
  <2>1. /\ job[p].op = "create" => /\ Of(db, job[p].file) = {} /\ job[p].id <= clock
                                   /\ \A w \in db : w.id # job[p].id
                                   /\ local.tree[job[p].file] = Gone
        /\ job[p].op \in {"update", "delete"} => \E w \in db : w.id = job[p].id /\ w.file = job[p].file
        /\ job[p].op = "update" => local.tree[job[p].file].id = job[p].id
        /\ latest # None /\ job[p].op # "enable"
    BY <1>1, <1>3 DEF Target, TreeOf
  <2>2. job[p].op \in {"create", "update"} => job[p].id \in Nat /\ p = "portal"
    BY <1>2 DEF IInv, Jobs, Proc
  <2>3. clock \in Nat /\ job[p].file \in File
    BY <1>2, CalmState DEF JobType
  <2>4. TreeOf(job[p])' = local'.tree
    BY <1>9, <1>10 DEF TreeOf
  <2>5. job[p].op \in {"create", "update"} => local'.tree[job[p].file] = local.tree[job[p].file]
    <3>1. CASE job[p].file # f
      BY <1>5, <2>3, <3>1
    <3>2. CASE job[p].file = f
      <4>1. job[p].op \in {"create", "update"} =>
               ~ (local.tree[f] # Gone /\ local.tree[f].id = None)
        BY <2>1, <2>2, <3>2, NoneIsNoNumber
      <4> QED
        BY <1>5, <4>1
    <3> QED
      BY <3>1, <3>2
  <2>6. ASSUME job[p].op = "create"
        PROVE  Of(db', job[p].file) = {} /\ \A w \in db' : w.id # job[p].id
    <3>1. CASE SameIds(db, db')
      BY <2>1, <2>6, <3>1 DEF SameIds
    <3>2. CASE /\ local.tree[f] # Gone
               /\ db' = db \cup {[id |-> clock + 1, file |-> f, rev |-> local.tree[f].rev,
                                  isRemoved |-> FALSE]}
      <4>1. job[p].file # f
        BY <2>1, <2>6, <3>2
      <4>2. Of(db', job[p].file) = {}
        BY <1>5, <2>1, <2>3, <2>6, <4>1 DEF OnlyOf
      <4>3. clock + 1 # job[p].id
        BY <2>1, <2>2, <2>3, <2>6
      <4>4. \A w \in db : w.id # job[p].id
        BY <2>1, <2>6
      <4>5. \A w \in db' : w \in db \/ w.id = clock + 1
        BY <3>2
      <4> QED
        BY <4>2, <4>3, <4>4, <4>5
    <3> QED
      BY <1>5, <3>1, <3>2
  <2>7. job[p].op \in {"update", "delete"} => \E w \in db' : w.id = job[p].id /\ w.file = job[p].file
    BY <1>5, <2>1 DEF SameIds
  <2>8. job[p].op = "create" => job[p].id <= clock'
    BY <1>5, <2>1, <2>2, <2>3
  <2> QED
    BY <1>1, <1>9, <1>10, <2>1, <2>4, <2>5, <2>6, <2>7, <2>8 DEF Target
<1> QED
  BY <1>3, <1>6, <1>10, <1>13, <1>14, CalmStep

LEMMA CalmCommitNew ==
  ASSUME IInv, SyncInv, allowed = {}, allowed' = allowed, NEW p \in Proc, CommitNew(p)
  PROVE  SyncInv'
<1>1. /\ AtWork(p) /\ job[p].step = "apply" /\ job[p].todo = {}
      /\ UNCHANGED <<remote, latest, db, edits, crashes, since>>
  BY DEF CommitNew, AtWork
<1>2. job[p] # Idle /\ (p = "sync" => job[p].op = "sync") /\ job[p] \in JobType
  BY <1>1, Working1, JobsOf DEF IInv
<1>3. /\ \A o \in Proc \ {p} : job[o] = Idle
      /\ Stage(job[p]) /\ Target(job[p]) /\ Unique(db, clock) /\ Recorded
  BY <1>2, CalmJob
<1>4. /\ local.history = remote /\ job[p].head = Last(remote).n
      /\ job[p].new \/ local.tree = Files(remote)
      /\ KnownFiles(local.tree, File) /\ Applied(job[p])
  BY <1>1, <1>3 DEF Stage
<1>5. latest # None /\ job[p].op # "enable"
  BY <1>1, <1>3 DEF Target
<1>6. Recorded' /\ clock \in Nat
  BY <1>1, <1>3, CalmState, RecordedSame
<1>7. CASE Goto(p, "record") /\ UNCHANGED <<local, clock>> /\ local.tree = Files(remote)
  <2>1. "record" \in Stages
    BY DEF Stages
  <2>2. /\ \A o \in Proc \ {p} : job'[o] = job[o]
        /\ job'[p] # Idle /\ job'[p].step = "record" /\ job'[p].head = job[p].head
        /\ job'[p].op = job[p].op /\ job'[p].file = job[p].file /\ job'[p].id = job[p].id
    BY <1>1, <1>7, <2>1, JobGoes DEF IInv
  <2>3. UpToDate(File)
    BY <1>1, <1>4, <1>7 DEF Applied, UpToDate, Synced
  <2>4. UpToDate(File)' /\ KnownFiles(Files(remote), File)' /\ SameClone'
    BY <1>1, <1>4, <1>7, <2>3 DEF UpToDate, KnownFiles, SameClone
  <2>5. Stage(job[p])'
    BY <1>1, <1>4, <2>2, <2>4 DEF Stage
  <2>6. Unique(db, clock)'
    BY <1>1, <1>3, <1>6, <1>7, UniqueSame
  <2>7. Target(job[p])'
    <3>1. TreeOf(job[p])' = TreeOf(job[p])
      BY <1>1, <1>7, <2>2 DEF TreeOf
    <3>2. clock' \in Nat /\ clock <= clock'
      BY <1>6, <1>7
    <3> QED
      BY <1>1, <1>2, <1>3, <1>5, <2>2, <3>1, <3>2, TargetOn
  <2> QED
    BY <1>3, <1>6, <2>2, <2>5, <2>6, <2>7, CalmStep
<1>8. CASE /\ local' = Committed(local.tree)
           /\ clock' = clock + 1
           /\ job' = [job EXCEPT ![p] = [@ EXCEPT !.step = "push", !.head = clock + 1]]
  <2> DEFINE j == [job[p] EXCEPT !.step = "push", !.head = clock + 1]
  <2>1. clock' \in Nat /\ clock <= clock' /\ job' = [job EXCEPT ![p] = j]
    BY <1>6, <1>8
  <2>2. /\ j \in JobType /\ j.step = "push" /\ j.head = clock + 1 /\ j.todo = {}
        /\ j.op = job[p].op /\ j.file = job[p].file /\ j.id = job[p].id
    <3>1. clock + 1 \in Nat
      BY <1>6
    <3>2. j.todo = job[p].todo
      BY <1>2 DEF JobType
    <3>3. /\ j \in JobType /\ j.step = "push" /\ j.head = clock + 1
          /\ j.op = job[p].op /\ j.file = job[p].file /\ j.id = job[p].id
      BY <1>2, <3>1 DEF JobType
    <3> QED
      BY <1>1, <3>2, <3>3
  <2> HIDE DEF j
  <2>3. job'[p] = j /\ (\A o \in Proc \ {p} : job'[o] = job[o]) /\ j # Idle
    <3>1. j # Idle
      BY <2>2 DEF Idle
    <3> QED
      BY <1>1, <2>1, <2>2, <3>1, JobBecomes DEF IInv
  <2>4. local'.history = Append(remote, [n |-> clock + 1, tree |-> local.tree])
        /\ local'.tree = local.tree
    BY <1>4, <1>8 DEF Committed
  <2>5. OneMore(job[p].head)'
    BY <1>1, <2>2, <2>3, <2>4 DEF OneMore
  <2>6. KnownFiles(local.tree, File)' /\ Applied(job[p])'
    BY <1>1, <1>4, <2>2, <2>3, <2>4 DEF KnownFiles, Applied
  <2>7. Stage(job[p])'
    BY <2>2, <2>3, <2>5, <2>6 DEF Stage
  <2>8. Unique(db, clock)'
    BY <1>1, <1>3, <2>1, UniqueSame
  <2>9. Target(job[p])'
    <3>1. TreeOf(job[p])' = TreeOf(job[p])
      BY <1>1, <2>2, <2>3, <2>4 DEF TreeOf
    <3> QED
      BY <1>1, <1>2, <1>3, <1>5, <2>1, <2>2, <2>3, <3>1, TargetOn
  <2> QED
    BY <1>3, <1>6, <2>3, <2>7, <2>8, <2>9, CalmStep
<1> QED
  BY <1>4, <1>7, <1>8 DEF CommitNew

LEMMA CalmPushNew ==
  ASSUME IInv, SyncInv, allowed = {}, allowed' = allowed, NEW p \in Proc, PushNew(p)
  PROVE  SyncInv'
<1>1. /\ AtWork(p) /\ job[p].step = "push" /\ (Pushed \/ NotPushed)
      /\ UNCHANGED <<local, latest, db, edits, clock, crashes, since>>
  BY DEF PushNew, GitPush, AtWork
<1>2. job[p] # Idle /\ (p = "sync" => job[p].op = "sync") /\ job[p].head \in Nat
  BY <1>1, Working1
<1>3. /\ \A o \in Proc \ {p} : job[o] = Idle
      /\ Stage(job[p]) /\ Target(job[p]) /\ Unique(db, clock) /\ Recorded
  BY <1>2, CalmJob
<1>4. /\ OneMore(job[p].head) /\ job[p].todo = {}
      /\ KnownFiles(local.tree, File) /\ Applied(job[p])
  BY <1>1, <1>3 DEF Stage
<1>5. latest # None /\ job[p].op # "enable"
  BY <1>1, <1>3 DEF Target
<1> DEFINE e == [n |-> job[p].head, tree |-> local.tree]
<1>6. /\ Ahead /\ local.history = Append(remote, e) /\ e \in Commit /\ e.tree = local.tree
      /\ Files(local.history) = local.tree /\ Last(local.history).n = job[p].head
      /\ Len(local.history) = Len(remote) + 1
  BY <1>1, <1>2, <1>4, ClonePresent, OneMoreAhead
<1> HIDE DEF e
<1>7. Pushed /\ ~ NotPushed /\ remote' = local.history
  BY <1>1, <1>6, CalmPushes
<1>8. RemoteGrows /\ clock \in Nat /\ clock' \in Nat /\ clock <= clock'
  BY <1>1, PushOf, CalmState
<1>9. Recorded' /\ Unique(db, clock)'
  BY <1>1, <1>3, <1>5, <1>8, RecordedGrown, UniqueSame
<1>10. Goto(p, "record") /\ "record" \in Stages
  BY <1>7 DEF PushNew, GitPush, Stages
<1>11. /\ \A o \in Proc \ {p} : job'[o] = job[o]
       /\ job'[p] # Idle /\ job'[p].step = "record" /\ job'[p].head = job[p].head
       /\ job'[p].op = job[p].op /\ job'[p].file = job[p].file /\ job'[p].id = job[p].id
  BY <1>1, <1>10, JobGoes DEF IInv
<1>12. SameClone' /\ Last(remote').n = job[p].head
  BY <1>1, <1>6, <1>7 DEF SameClone
<1>13. UpToDate(File)'
  <2> SUFFICES ASSUME NEW f \in File, TouchedIn(remote', Len(remote'), since, f)
               PROVE  Match(db, f, Files(remote)'[f])
    BY <1>1 DEF UpToDate, Synced
  <2>1. TouchedIn(remote, Len(remote), since, f) \/ local.tree[f] # Files(remote)[f]
    <3>1. TouchedIn(Append(remote, e), Len(remote) + 1, since, f)
      BY <1>6, <1>7
    <3> QED
      BY <1>6, <3>1, CalmState, TouchedAppend
  <2> QED
    BY <1>4, <1>6, <1>7, <2>1 DEF Applied
<1>14. KnownFiles(Files(remote), File)'
  BY <1>1, <1>4, <1>6, <1>7 DEF KnownFiles
<1>15. Stage(job[p])'
  BY <1>11, <1>12, <1>13, <1>14 DEF Stage
<1>16. Target(job[p])'
  <2>1. TreeOf(job[p])' = TreeOf(job[p])
    BY <1>1, <1>6, <1>7, <1>11 DEF TreeOf
  <2> QED
    BY <1>1, <1>2, <1>3, <1>5, <1>8, <1>11, <2>1, TargetOn
<1> QED
  BY <1>3, <1>9, <1>11, <1>15, <1>16, CalmStep

LEMMA CalmRecordSync ==
  ASSUME IInv, SyncInv, allowed = {}, allowed' = allowed, NEW p \in Proc, RecordSync(p)
  PROVE  SyncInv'
<1>1. /\ AtWork(p) /\ job[p].step = "record" /\ latest' = job[p].head
      /\ UNCHANGED <<remote, local, db, edits, clock, crashes, since>>
  BY DEF RecordSync, AtWork
<1>2. /\ job[p] # Idle /\ (p = "sync" => job[p].op = "sync") /\ job[p].head \in Nat
      /\ (latest \in Nat => latest <= job[p].head) /\ latest \in Nat \cup {None}
  BY <1>1, Working1
<1>3. /\ \A o \in Proc \ {p} : job[o] = Idle
      /\ Stage(job[p]) /\ Target(job[p]) /\ Unique(db, clock) /\ Recorded
  BY <1>2, CalmJob
<1>4. /\ SameClone /\ job[p].head = Last(remote).n
      /\ KnownFiles(Files(remote), File) /\ UpToDate(File)
  BY <1>1, <1>3 DEF Stage
<1>5. latest # None /\ job[p].op # "enable"
  BY <1>1, <1>3 DEF Target
<1>6. latest' = Last(remote').n /\ latest' # None
  BY <1>1, <1>2, <1>4, NoneIsNoNumber
<1>7. /\ remote \in Seq(Commit) /\ Numbered(remote, clock) /\ clock \in Nat /\ since \in Nat
      /\ DOMAIN remote = 1 .. Len(remote) /\ Len(remote) \in Nat
      /\ Len(remote) \in DOMAIN remote /\ Last(remote) = remote[Len(remote)]
      /\ Last(remote).n \in Nat
  BY CalmState
<1>8. Recorded'
  <2>1. since <= latest'
    BY <1>1, <1>2, <1>3, <1>5, <1>7 DEF Recorded
  <2>2. \E k \in DOMAIN remote : remote[k].n = latest'
    BY <1>1, <1>4, <1>7
  <2> QED
    BY <1>1, <1>6, <2>1, <2>2 DEF Recorded
<1>9. /\ KnownFiles(Files(remote), File)' /\ UpToDate(File)' /\ SameClone' /\ Unique(db, clock)'
  BY <1>1, <1>3, <1>4, <1>7, UniqueSame DEF KnownFiles, UpToDate, SameClone
<1>10. CASE Stop(p)
  <2>1. Fits'
    BY <1>1, <1>4, <1>7, SelfPrefix DEF Fits, SameClone
  <2>2. UpToLatest'
    <3> SUFFICES ASSUME NEW k \in DOMAIN remote, remote[k].n = latest'
                 PROVE  Synced(db, remote, k, since, remote[k].tree, File)
      BY <1>1 DEF UpToLatest
    <3>1. remote[k].n = remote[Len(remote)].n /\ remote[k].n \in Nat
      BY <1>1, <1>4, <1>7
    <3>2. k <= Len(remote) /\ Len(remote) <= k
      <4>1. remote[k].n <= remote[Len(remote)].n /\ remote[Len(remote)].n <= remote[k].n
        BY <3>1
      <4> QED
        BY <1>7, <4>1, NumberedOrder
    <3>3. k = Len(remote)
      BY <1>7, <3>2
    <3>4. remote[k].tree = Files(remote)
      BY <1>7, <3>3 DEF Files
    <3> QED
      BY <1>4, <3>3, <3>4 DEF UpToDate
  <2>3. job'[p] = Idle /\ \A o \in Proc \ {p} : job'[o] = Idle
    BY <1>3, <1>10, JobStops DEF IInv
  <2> QED
    BY <1>8, <1>9, <2>1, <2>2, <2>3, CalmStep DEF Waiting
<1>11. CASE Goto(p, "write") /\ job[p].op # "sync"
  <2>1. "write" \in Stages
    BY DEF Stages
  <2>2. /\ \A o \in Proc \ {p} : job'[o] = job[o]
        /\ job'[p] # Idle /\ job'[p].step = "write"
        /\ job'[p].op = job[p].op /\ job'[p].file = job[p].file /\ job'[p].id = job[p].id
    BY <1>1, <1>11, <2>1, JobGoes DEF IInv
  <2>3. Stage(job[p])'
    BY <1>6, <1>9, <2>2 DEF Stage
  <2>4. Target(job[p])'
    <3>1. TreeOf(job[p])' = TreeOf(job[p])
      BY <1>1, <2>2 DEF TreeOf
    <3>2. job[p].op \in {"create", "update", "delete"}
      BY <1>2, <1>5, <1>11, JobsOf DEF IInv
    <3> QED
      BY <1>1, <1>2, <1>3, <1>5, <1>6, <1>7, <2>2, <3>1, <3>2, TargetOn
  <2> QED
    BY <1>3, <1>8, <1>9, <2>2, <2>3, <2>4, CalmStep
<1> QED
  BY <1>10, <1>11 DEF RecordSync

LEMMA CalmWriteFile ==
  ASSUME IInv, SyncInv, allowed = {}, allowed' = allowed, WriteFile
  PROVE  SyncInv'
<1> DEFINE p == "portal"
           old == job[p]
<1>1. /\ AtWork(p) /\ p \in Proc /\ old.step = "write"
      /\ UNCHANGED <<remote, latest, db, edits, crashes, since>>
  BY PortalProc DEF WriteFile, AtWork
<1>2. old # Idle /\ old \in JobType
  BY <1>1, Working1, JobsOf DEF IInv
<1>3. /\ \A o \in Proc \ {p} : job[o] = Idle
      /\ Stage(old) /\ Target(old) /\ Unique(db, clock) /\ Recorded
  BY <1>1, <1>2, CalmJob
<1>4. /\ SameClone /\ latest = Last(remote).n
      /\ KnownFiles(Files(remote), File) /\ UpToDate(File)
  BY <1>1, <1>3 DEF Stage
<1>5. latest # None /\ old.op \in {"create", "update", "delete"}
  BY <1>1, <1>3 DEF Target
<1>6. Recorded' /\ clock \in Nat /\ remote \in Seq(Commit)
  BY <1>1, <1>3, CalmState, RecordedSame
<1>7. /\ \/ /\ Want(old) = Gone /\ local.tree[old.file] = Gone
            /\ Goto(p, "db") /\ UNCHANGED <<local, clock>>
         \/ /\ local' = Committed([local.tree EXCEPT ![old.file] = Want(old)])
            /\ clock' = clock + 1
            /\ job' = [job EXCEPT ![p] = [old EXCEPT !.step = "publish", !.head = clock + 1]]
  <2>1. local \in Clone /\ Files(local.history) = local.tree
    BY <1>1, <1>4, ClonePresent DEF SameClone
  <2>2. Written.tree = [local.tree EXCEPT ![old.file] = Want(old)]
    BY <2>1 DEF Written, Want, Put, Clone
  <2>3. old.op = "delete" =>
          Removed(old.file) = Committed([local.tree EXCEPT ![old.file] = Want(old)])
    <3> DEFINE t == [local.tree EXCEPT ![old.file] = Want(old)]
               h == Append(local.history, [n |-> clock + 1, tree |-> t])
    <3> SUFFICES ASSUME old.op = "delete" PROVE Removed(old.file) = Committed(t)
      OBVIOUS
    <3>1. [Files(local.history) EXCEPT ![old.file] = Gone] = t /\ Written.tree = t
      BY <2>1, <2>2 DEF Want
    <3>2. Committed(t) = [history |-> h, tree |-> t]
      BY DEF Committed
    <3>3. Removed(old.file) = [Committed(t) EXCEPT !.tree = t]
      BY <3>1 DEF Removed
    <3> HIDE DEF t, h
    <3> QED
      BY <3>2, <3>3
  <2> QED
    BY <2>1, <2>2, <2>3 DEF WriteFile, Want
<1> HIDE DEF p
<1>8. CASE /\ Want(old) = Gone /\ local.tree[old.file] = Gone
           /\ Goto(p, "db") /\ UNCHANGED <<local, clock>>
  <2>1. "db" \in Stages
    BY DEF Stages
  <2>2. /\ \A o \in Proc \ {p} : job'[o] = job[o]
        /\ job'[p] # Idle /\ job'[p].step = "db"
        /\ job'[p].op = old.op /\ job'[p].file = old.file /\ job'[p].id = old.id
        /\ job'[p].rev = old.rev
    BY <1>1, <1>8, <2>1, JobGoes DEF IInv
  <2>3. Want(old) = Files(remote)[old.file]
    BY <1>4, <1>8 DEF SameClone
  <2>4. Want(job[p])' = Want(old)
    BY <2>2 DEF Want, Put
  <2>5. KnownFiles(Files(remote), Others(job[p]))'
    BY <1>1, <1>4, <2>2 DEF KnownFiles, Others
  <2>6. UpToDate(File \ {job[p].file})'
    BY <1>1, <1>4, <2>2 DEF UpToDate, Synced
  <2>7. Stored(job[p])' /\ latest' = Last(remote').n
    BY <1>1, <1>4, <2>2, <2>3, <2>4, <2>5, <2>6 DEF Stored
  <2>8. Fits'
    BY <1>1, <1>4, <1>6, <1>8, SelfPrefix DEF Fits, SameClone
  <2>9. Stage(job[p])'
    BY <2>2, <2>7, <2>8 DEF Stage
  <2>10. Unique(db, clock)' /\ clock' \in Nat /\ clock <= clock'
    BY <1>1, <1>3, <1>6, <1>8, UniqueSame
  <2>11. Target(job[p])'
    <3>1. p = "sync" => old.op = "sync"
      BY DEF p
    <3> QED
      BY <1>1, <1>2, <1>3, <1>5, <2>2, <2>10, <3>1, TargetOn
  <2> QED
    BY <1>1, <1>3, <1>6, <2>2, <2>9, <2>10, <2>11, CalmStep
<1>9. CASE /\ local' = Committed([local.tree EXCEPT ![old.file] = Want(old)])
           /\ clock' = clock + 1
           /\ job' = [job EXCEPT ![p] = [old EXCEPT !.step = "publish", !.head = clock + 1]]
  <2> DEFINE j == [old EXCEPT !.step = "publish", !.head = clock + 1]
             t == [local.tree EXCEPT ![old.file] = Want(old)]
  <2>1. clock + 1 \in Nat /\ clock' \in Nat /\ clock <= clock' /\ job' = [job EXCEPT ![p] = j]
    BY <1>6, <1>9
  <2>2. /\ j \in JobType /\ j.step = "publish" /\ j.head = clock + 1
        /\ j.op = old.op /\ j.file = old.file /\ j.id = old.id /\ j.rev = old.rev
    BY <1>2, <2>1 DEF JobType
  <2> HIDE DEF j
  <2>3. job'[p] = j /\ (\A o \in Proc \ {p} : job'[o] = job[o]) /\ j # Idle
    <3>1. j # Idle
      BY <2>2 DEF Idle
    <3> QED
      BY <1>1, <2>1, <2>2, <3>1, JobBecomes DEF IInv
  <2>4. local'.history = Append(remote, [n |-> clock + 1, tree |-> t]) /\ local'.tree = t
    BY <1>4, <1>9 DEF Committed, SameClone
  <2>5. OneMore(job[p].head)'
    BY <1>1, <2>2, <2>3, <2>4 DEF OneMore
  <2>6. Want(job[p])' = Want(old)
    BY <2>2, <2>3 DEF Want, Put
  <2>7. local'.tree = [Files(remote)' EXCEPT ![job'[p].file] = Want(job[p])']
    BY <1>1, <1>4, <2>2, <2>3, <2>4, <2>6 DEF SameClone
  <2>8. KnownFiles(Files(remote), File)' /\ UpToDate(File)'
    BY <1>1, <1>4 DEF KnownFiles, UpToDate
  <2>9. Stage(job[p])'
    BY <2>2, <2>3, <2>5, <2>7, <2>8 DEF Stage
  <2>10. Unique(db, clock)'
    BY <1>1, <1>3, <2>1, UniqueSame
  <2>11. Target(job[p])'
    <3>1. p = "sync" => old.op = "sync"
      BY DEF p
    <3>2. TreeOf(job[p])' = TreeOf(old)
      BY <1>1, <2>2, <2>3 DEF TreeOf
    <3> QED
      BY <1>1, <1>2, <1>3, <1>5, <2>1, <2>2, <2>3, <3>1, <3>2, TargetOn
  <2> QED
    BY <1>1, <1>3, <1>6, <2>3, <2>9, <2>10, <2>11, CalmStep
<1> QED
  BY <1>7, <1>8, <1>9

LEMMA CalmPublish ==
  ASSUME IInv, SyncInv, allowed = {}, allowed' = allowed, Publish
  PROVE  SyncInv'
<1> DEFINE p == "portal"
           old == job[p]
<1>1. /\ AtWork(p) /\ p \in Proc /\ old.step = "publish" /\ (Pushed \/ NotPushed)
      /\ UNCHANGED <<local, latest, db, edits, clock, crashes, since>>
  BY PortalProc DEF Publish, GitPush, AtWork
<1>2. old # Idle /\ old \in JobType /\ old.head \in Nat /\ old.file \in File
  BY <1>1, Working1, JobsOf DEF IInv
<1>3. /\ \A o \in Proc \ {p} : job[o] = Idle
      /\ Stage(old) /\ Target(old) /\ Unique(db, clock) /\ Recorded
  BY <1>1, <1>2, CalmJob
<1>4. /\ OneMore(old.head)
      /\ local.tree = [Files(remote) EXCEPT ![old.file] = Want(old)]
      /\ KnownFiles(Files(remote), File) /\ UpToDate(File)
  BY <1>1, <1>3 DEF Stage
<1>5. /\ latest # None /\ old.op \in {"create", "update", "delete"}
      /\ old.op = "update" => Files(remote)[old.file].id = old.id
  BY <1>1, <1>3 DEF Target, TreeOf
<1> DEFINE e == [n |-> old.head, tree |-> local.tree]
<1>6. /\ Ahead /\ local.history = Append(remote, e) /\ e \in Commit /\ e.tree = local.tree
      /\ Files(local.history) = local.tree /\ Last(local.history).n = old.head
      /\ Len(local.history) = Len(remote) + 1
  BY <1>1, <1>2, <1>4, ClonePresent, OneMoreAhead
<1> HIDE DEF e
<1>7. Pushed /\ ~ NotPushed /\ remote' = local.history
  BY <1>1, <1>6, CalmPushes
<1>8. RemoteGrows /\ clock \in Nat /\ clock' \in Nat /\ clock <= clock'
  BY <1>1, PushOf, CalmState
<1>9. Recorded' /\ Unique(db, clock)'
  BY <1>1, <1>3, <1>5, <1>8, RecordedGrown, UniqueSame
<1>10. Goto(p, "confirm") /\ "confirm" \in Stages
  BY <1>7 DEF Publish, GitPush, Stages
<1> HIDE DEF p
<1>11. /\ \A o \in Proc \ {p} : job'[o] = job[o]
       /\ job'[p] # Idle /\ job'[p].step = "confirm" /\ job'[p].head = old.head
       /\ job'[p].op = old.op /\ job'[p].file = old.file /\ job'[p].id = old.id
       /\ job'[p].rev = old.rev
  BY <1>1, <1>10, JobGoes DEF IInv
<1>12. SameClone' /\ Last(remote').n = old.head /\ Files(remote)' = local.tree
  BY <1>1, <1>6, <1>7 DEF SameClone
<1>13. /\ local.tree[old.file] = Want(old)
       /\ \A f \in File \ {old.file} : local.tree[f] = Files(remote)[f]
  BY <1>2, <1>4, CalmState
<1>14. UpToDate(File \ {job[p].file})'
  <2> SUFFICES ASSUME NEW f \in File \ {old.file}, TouchedIn(remote', Len(remote'), since, f)
               PROVE  Match(db, f, Files(remote)'[f])
    BY <1>1, <1>11 DEF UpToDate, Synced
  <2>1. TouchedIn(remote, Len(remote), since, f)
    <3>1. TouchedIn(Append(remote, e), Len(remote) + 1, since, f)
      BY <1>6, <1>7
    <3> QED
      BY <1>6, <1>13, <3>1, CalmState, TouchedAppend
  <2> QED
    BY <1>4, <1>12, <1>13, <2>1 DEF UpToDate, Synced
<1>15. KnownFiles(Files(remote), Others(job[p]))'
  <2>1. \A f \in File \ {old.file} : Known(db, f, local.tree[f])
    BY <1>4, <1>13 DEF KnownFiles
  <2>2. old.op # "create" => Known(db, old.file, Want(old))
    <3>1. CASE old.op = "delete"
      BY <3>1 DEF Known, Want, Gone
    <3>2. CASE old.op = "update"
      <4>1. Known(db, old.file, Files(remote)[old.file]) /\ Want(old) = Put(old)
        BY <1>2, <1>4, <3>2 DEF KnownFiles, Want
      <4>2. Put(old).id = Files(remote)[old.file].id
        BY <1>5, <3>2 DEF Put
      <4>3. Put(old).id # None
        <5>1. old.id \in Nat
          BY <1>2, <1>5 DEF IInv, Jobs, p
        <5> QED
          BY <5>1, NoneIsNoNumber DEF Put
      <4> QED
        BY <4>1, <4>2, <4>3 DEF Known
    <3> QED
      BY <1>5, <3>1, <3>2
  <2>3. \A f \in Others(job[p])' : Known(db, f, local.tree[f])
    BY <1>2, <1>11, <1>13, <2>1, <2>2 DEF Others
  <2> QED
    BY <1>1, <1>12, <2>3 DEF KnownFiles, Known
<1>16. Stored(job[p])'
  <2>1. Want(job[p])' = Want(old)
    BY <1>11 DEF Want, Put
  <2> QED
    BY <1>11, <1>12, <1>13, <1>14, <1>15, <2>1 DEF Stored
<1>17. Stage(job[p])'
  BY <1>11, <1>12, <1>16 DEF Stage
<1>18. Target(job[p])'
  <2>1. p = "sync" => old.op = "sync"
    BY DEF p
  <2> QED
    BY <1>1, <1>2, <1>3, <1>5, <1>8, <1>11, <2>1, TargetOn
<1> QED
  BY <1>1, <1>3, <1>9, <1>11, <1>17, <1>18, CalmStep

LEMMA CalmConfirm ==
  ASSUME IInv, SyncInv, allowed = {}, allowed' = allowed, Confirm
  PROVE  SyncInv'
<1> DEFINE p == "portal"
           old == job[p]
<1>1. /\ AtWork(p) /\ p \in Proc /\ old.step = "confirm" /\ latest' = old.head
      /\ UNCHANGED <<remote, local, db, edits, clock, crashes, since>>
      /\ Goto(p, "db") /\ "db" \in Stages
  BY PortalProc DEF Confirm, AtWork, Stages
<1>2. /\ old # Idle /\ old.head \in Nat
      /\ (latest \in Nat => latest <= old.head) /\ latest \in Nat \cup {None}
  BY <1>1, Working1
<1>3. /\ \A o \in Proc \ {p} : job[o] = Idle
      /\ Stage(old) /\ Target(old) /\ Unique(db, clock) /\ Recorded
  BY <1>1, <1>2, CalmJob
<1>4. SameClone /\ old.head = Last(remote).n /\ Stored(old)
  BY <1>1, <1>3 DEF Stage
<1>5. latest # None /\ old.op \in {"create", "update", "delete"}
  BY <1>1, <1>3 DEF Target
<1>6. latest' = Last(remote').n /\ latest' # None
  BY <1>1, <1>2, <1>4, NoneIsNoNumber
<1>7. /\ remote \in Seq(Commit) /\ clock \in Nat /\ since \in Nat
      /\ Len(remote) \in DOMAIN remote /\ Last(remote) = remote[Len(remote)]
      /\ Last(remote).n \in Nat
  BY CalmState
<1>8. Recorded' /\ Unique(db, clock)' /\ Fits'
  <2>1. since <= latest'
    BY <1>1, <1>2, <1>3, <1>5, <1>7 DEF Recorded
  <2>2. \E k \in DOMAIN remote : remote[k].n = latest'
    BY <1>1, <1>4, <1>7
  <2>3. Fits'
    BY <1>1, <1>4, <1>7, SelfPrefix DEF Fits, SameClone
  <2> QED
    BY <1>1, <1>3, <1>6, <1>7, <2>1, <2>2, <2>3, UniqueSame DEF Recorded
<1> HIDE DEF p
<1>9. /\ \A o \in Proc \ {p} : job'[o] = job[o]
      /\ job'[p] # Idle /\ job'[p].step = "db"
      /\ job'[p].op = old.op /\ job'[p].file = old.file /\ job'[p].id = old.id
      /\ job'[p].rev = old.rev
  BY <1>1, JobGoes DEF IInv
<1>10. Stored(job[p])'
  BY <1>1, <1>4, <1>9 DEF Stored, Want, Put, KnownFiles, Others, UpToDate
<1>11. Stage(job[p])'
  BY <1>6, <1>8, <1>9, <1>10 DEF Stage
<1>12. Target(job[p])'
  <2>1. p = "sync" => old.op = "sync"
    BY DEF p
  <2> QED
    BY <1>1, <1>2, <1>3, <1>5, <1>6, <1>7, <1>9, <2>1, TargetOn
<1> QED
  BY <1>1, <1>3, <1>8, <1>9, <1>11, <1>12, CalmStep

\* A request writes what it wrote to the repository.
LEMMA WrittenOne ==
  ASSUME IInv, SyncInv, allowed = {}, WriteToDB
  PROVE  LET j == job["portal"] IN
         /\ Unique(db', clock) /\ OnlyOf(db, db', j.file)
         /\ j.op # "create" => SameIds(db, db')
         /\ latest # None => Match(db', j.file, Want(j)) /\ Known(db', j.file, Want(j))
<1> DEFINE j == job["portal"]
<1>1. /\ j.step = "db" /\ j # Idle /\ j \in JobType /\ j.file \in File /\ j.rev \in Nat
  BY IdleStep, JobsOf, PortalProc DEF WriteToDB, IInv
<1>2. Stage(j) /\ Target(j) /\ Unique(db, clock)
  BY <1>1, CalmJob, PortalProc
<1>3. /\ j.op \in {"create", "update", "delete"}
      /\ j.op = "create" => Of(db, j.file) = {} /\ j.id <= clock /\ \A w \in db : w.id # j.id
      /\ j.op \in {"update", "delete"} => \E w \in db : w.id = j.id /\ w.file = j.file
  BY <1>1, <1>2 DEF Target
<1>4. j.id \in Nat /\ clock \in Nat /\ db \in SUBSET Workflow /\ db' \in SUBSET Workflow
  BY <1>1, <1>3, CalmState, WriteToDBOf DEF IInv, Jobs
<1>5. latest # None => Files(remote)[j.file] = Want(j) /\ KnownFiles(Files(remote), Others(j))
  BY <1>1, <1>2 DEF Stage, Stored
<1>6. \/ j.op = "create" /\ Insert(j.id, j.file, j.rev)
      \/ j.op = "create" /\ Live(j.file) # {}
      \/ j.op = "update" /\ db' = Revise(db, j.id, j.rev)
      \/ j.op = "delete" /\ db' = {IF w.id = j.id THEN [w EXCEPT !.isRemoved = TRUE] ELSE w : w \in db}
  BY DEF WriteToDB, Revise, Revised
<1> HIDE DEF j
<1>7. CASE j.op = "create" /\ Insert(j.id, j.file, j.rev)
  <2> DEFINE w == [id |-> j.id, file |-> j.file, rev |-> j.rev, isRemoved |-> FALSE]
  <2>1. w \in Workflow /\ w.id = j.id /\ w.file = j.file /\ w.rev = j.rev /\ ~ w.isRemoved
    BY <1>1, <1>4 DEF Workflow
  <2>2. db' = db \cup {w}
    BY <1>7 DEF Insert
  <2> HIDE DEF w
  <2>3. Of(db, w.file) = {} /\ (\A v \in db : v.id # w.id) /\ w.id <= clock /\ clock <= clock
    BY <1>3, <1>4, <1>7, <2>1
  <2>4. /\ Unique(db \cup {w}, clock)
        /\ \A f : f # w.file => Of(db \cup {w}, f) = Of(db, f) /\ LiveOf(db \cup {w}, f) = LiveOf(db, f)
    BY <1>2, <1>4, <2>1, <2>3, Added
  <2>5. w \in LiveOf(db', j.file)
    BY <2>1, <2>2 DEF LiveOf
  <2>6. Want(j) = Put(j) /\ Put(j).id = j.id /\ Put(j).rev = j.rev /\ Put(j).id # None
        /\ Put(j) \in Content
    BY <1>1, <1>4, <1>7, NoneIsNoNumber DEF Want, Put, Content
  <2>7. Match(db', j.file, Want(j))
    BY <1>4, <2>1, <2>2, <2>4, <2>5, <2>6, MatchOne
  <2>8. Known(db', j.file, Want(j))
    BY <2>1, <2>5, <2>6 DEF Known
  <2> QED
    BY <1>7, <2>1, <2>2, <2>4, <2>7, <2>8 DEF OnlyOf, j
<1>8. CASE j.op = "create" /\ Live(j.file) # {}
  BY <1>3, <1>8 DEF Of, Live
<1>9. CASE j.op = "update" /\ db' = Revise(db, j.id, j.rev)
  <2>1. PICK w \in db : w.id = j.id /\ w.file = j.file
    BY <1>3, <1>9
  <2>2. /\ Unique(db', clock) /\ OnlyOf(db, db', j.file) /\ SameIds(db, db')
        /\ ~ w.isRemoved => \E v \in LiveOf(db', j.file) : v.id = j.id /\ v.rev = j.rev
    <3>1. db' = Revise(db, w.id, j.rev)
      BY <1>9, <2>1
    <3> QED
      BY <1>1, <1>2, <1>4, <2>1, <3>1, RevisedOne
  <2>3. Want(j) = Put(j) /\ Put(j).id = j.id /\ Put(j).rev = j.rev /\ Put(j).id # None
        /\ Put(j) \in Content
    BY <1>1, <1>4, <1>9, NoneIsNoNumber DEF Want, Put, Content
  <2>4. latest # None => ~ w.isRemoved
    <3> SUFFICES ASSUME latest # None PROVE ~ w.isRemoved
      OBVIOUS
    <3>1. Known(db, j.file, Want(j))
      BY <1>1, <1>5, <1>9 DEF KnownFiles, Others
    <3>2. PICK v \in LiveOf(db, j.file) : v.id = j.id
      BY <2>3, <3>1 DEF Known
    <3>3. v = w
      BY <1>2, <2>1, <3>2 DEF Unique, LiveOf
    <3> QED
      BY <3>2, <3>3 DEF LiveOf
  <2>5. latest # None => Match(db', j.file, Want(j)) /\ Known(db', j.file, Want(j))
    <3> SUFFICES ASSUME latest # None PROVE Match(db', j.file, Want(j)) /\ Known(db', j.file, Want(j))
      OBVIOUS
    <3>1. PICK v \in LiveOf(db', j.file) : v.id = j.id /\ v.rev = j.rev
      BY <2>2, <2>4
    <3>2. Match(db', j.file, Want(j))
      BY <1>4, <2>2, <2>3, <3>1, MatchOne
    <3>3. Known(db', j.file, Want(j))
      BY <2>3, <3>1 DEF Known
    <3> QED
      BY <3>2, <3>3
  <2> QED
    BY <2>2, <2>5 DEF j
<1>10. CASE j.op = "delete" /\ db' = {IF w.id = j.id THEN [w EXCEPT !.isRemoved = TRUE] ELSE w : w \in db}
  <2>1. PICK w \in db : w.id = j.id /\ w.file = j.file
    BY <1>3, <1>10
  <2>2. \A v \in db : v.id = j.id <=> v = w
    BY <1>2, <2>1 DEF Unique
  <2>3. db' = (db \ {w}) \cup {[w EXCEPT !.isRemoved = TRUE]}
    BY <1>10, <2>1, <2>2
  <2>4. Unique(db', clock) /\ OnlyOf(db, db', j.file) /\ SameIds(db, db') /\ LiveOf(db', j.file) = {}
    BY <1>2, <1>4, <2>1, <2>3, RemovedOne
  <2>5. Want(j) = Gone /\ Gone.id = None
    BY <1>10 DEF Want, Gone
  <2>6. Match(db', j.file, Want(j)) /\ Known(db', j.file, Want(j))
    BY <2>4, <2>5, MatchGone DEF Known
  <2> QED
    BY <2>4, <2>6 DEF j
<1> QED
  BY <1>6, <1>7, <1>8, <1>9, <1>10

\* The commit numbered as the last one is the last one.
LEMMA LastCommit ==
  ASSUME NEW h \in Seq(Commit), NEW n \in Nat, Numbered(h, n),
         NEW k \in DOMAIN h, h[k].n = Last(h).n
  PROVE  k = Len(h) /\ h[k].tree = Files(h)
<1>1. /\ DOMAIN h = 1 .. Len(h) /\ Len(h) \in Nat /\ Len(h) \in DOMAIN h
      /\ Last(h) = h[Len(h)] /\ h[k].n \in Nat
  BY LastOf, NumberedOrder DEF Numbered
<1>2. h[k].n <= h[Len(h)].n /\ h[Len(h)].n <= h[k].n
  BY <1>1
<1>3. k <= Len(h) /\ Len(h) <= k
  BY <1>1, <1>2, NumberedOrder
<1>4. k = Len(h)
  BY <1>1, <1>3
<1> QED
  BY <1>1, <1>4 DEF Files

LEMMA CalmWriteToDB ==
  ASSUME IInv, SyncInv, allowed = {}, allowed' = allowed, WriteToDB
  PROVE  SyncInv'
<1> DEFINE p == "portal"
           j == job[p]
<1>1. /\ p \in Proc /\ j.step = "db" /\ Stop(p)
      /\ UNCHANGED <<remote, local, latest, edits, clock, crashes, since>>
  BY PortalProc DEF WriteToDB
<1>2. j # Idle /\ j.file \in File
  BY <1>1, IdleStep, JobsOf DEF IInv
<1>3. /\ \A o \in Proc \ {p} : job[o] = Idle
      /\ Stage(j) /\ Target(j) /\ Recorded
  BY <1>1, <1>2, CalmJob
<1>4. /\ Fits
      /\ \/ latest = None /\ KnownFiles(Files(remote), File)
         \/ latest = Last(remote).n /\ Stored(j)
  BY <1>1, <1>3 DEF Stage
<1>5. /\ Unique(db', clock) /\ OnlyOf(db, db', j.file)
      /\ j.op # "create" => SameIds(db, db')
      /\ latest # None => Match(db', j.file, Want(j)) /\ Known(db', j.file, Want(j))
  BY WrittenOne
<1>6. /\ remote \in Seq(Commit) /\ clock \in Nat /\ Numbered(remote, clock)
      /\ Last(remote).n \in Nat /\ Files(remote) \in [File -> Content]
  BY CalmState
<1>7. job'[p] = Idle /\ \A o \in Proc \ {p} : job'[o] = Idle
  BY <1>1, <1>3, JobStops DEF IInv
<1>8. Unique(db, clock)' /\ Recorded' /\ Fits'
  BY <1>1, <1>3, <1>4, <1>5, RecordedSame DEF Fits
<1>9. latest = None /\ j.op = "create" => Files(remote)[j.file] = Gone
  BY <1>1, <1>3 DEF Target, TreeOf
<1> HIDE DEF p, j
<1>10. ASSUME NEW f \in File, f # j.file
       PROVE  /\ \A c : Known(db, f, c) => Known(db', f, c)
              /\ \A c : Match(db, f, c) => Match(db', f, c)
  <2>1. Of(db', f) = Of(db, f) /\ LiveOf(db', f) = LiveOf(db, f)
    BY <1>5, <1>10 DEF OnlyOf
  <2> QED
    BY <2>1 DEF Known, Match
<1>11. CASE latest = None /\ KnownFiles(Files(remote), File)
  <2>1. \A f \in File : Files(remote)[f].id = None
    BY <1>3, <1>11 DEF Recorded
  <2>2. ASSUME NEW f \in File PROVE Known(db', f, Files(remote)[f])
    <3>1. Known(db, f, Files(remote)[f])
      BY <1>11 DEF KnownFiles
    <3>2. CASE f # j.file
      BY <1>10, <3>1, <3>2
    <3>3. CASE j.op # "create"
      <4>1. Of(db, f) = {} => Of(db', f) = {}
        BY <1>5, <3>3 DEF SameIds
      <4> QED
        BY <2>1, <3>1, <4>1 DEF Known
    <3>4. CASE f = j.file /\ j.op = "create"
      BY <1>9, <1>11, <3>4 DEF Known, Gone
    <3> QED
      BY <3>2, <3>3, <3>4
  <2>3. KnownFiles(Files(remote), File)'
    BY <1>1, <2>2 DEF KnownFiles
  <2>4. UpToLatest'
    <3>1. \A k \in DOMAIN remote : remote[k].n \in Nat
      BY <1>6, NumberedOrder
    <3>2. \A k \in DOMAIN remote : remote[k].n # latest
      BY <1>11, <3>1, NoneIsNoNumber
    <3> QED
      BY <1>1, <3>2 DEF UpToLatest
  <2> QED
    BY <1>1, <1>7, <1>8, <2>3, <2>4, CalmStep DEF Waiting
<1>12. CASE latest = Last(remote).n /\ Stored(j)
  <2>1. latest # None
    BY <1>6, <1>12, NoneIsNoNumber
  <2>2. /\ Files(remote)[j.file] = Want(j)
        /\ \A f \in File \ {j.file} : Known(db, f, Files(remote)[f])
        /\ \A f \in File \ {j.file} : TouchedIn(remote, Len(remote), since, f) =>
             Match(db, f, Files(remote)[f])
    BY <1>12 DEF Stored, KnownFiles, Others, UpToDate, Synced
  <2>3. ASSUME NEW f \in File
        PROVE  /\ Known(db', f, Files(remote)[f])
               /\ TouchedIn(remote, Len(remote), since, f) => Match(db', f, Files(remote)[f])
    <3>1. CASE f = j.file
      BY <1>5, <2>1, <2>2, <3>1
    <3>2. CASE f # j.file
      BY <1>10, <2>2, <3>2
    <3> QED
      BY <3>1, <3>2
  <2>4. KnownFiles(Files(remote), File)'
    BY <1>1, <2>3 DEF KnownFiles
  <2>5. UpToLatest'
    <3> SUFFICES ASSUME NEW k \in DOMAIN remote, remote[k].n = latest
                 PROVE  Synced(db', remote, k, since, remote[k].tree, File)
      BY <1>1 DEF UpToLatest
    <3>1. k = Len(remote) /\ remote[k].tree = Files(remote)
      BY <1>6, <1>12, LastCommit
    <3> QED
      BY <2>3, <3>1 DEF Synced
  <2> QED
    BY <1>1, <1>7, <1>8, <2>4, <2>5, CalmStep DEF Waiting
<1> QED
  BY <1>4, <1>11, <1>12

-----------------------------------------------------------------------------
(* Steps of users, who wait until nothing is under way.                    *)

LEMMA AtRest ==
  ASSUME IInv, SyncInv, allowed = {}, ~ Locked, Resting
  PROVE  (\A p \in Proc : job[p] = Idle) /\ Fits /\ Waiting /\ Unique(db, clock) /\ Recorded
<1>1. job["sync"] = Idle
  <2>1. job["sync"].step \in {"idle", "db"}
    BY PortalProc DEF Locked
  <2> QED
    BY <2>1, IdleStep, PortalProc DEF IInv, Jobs
<1>2. \A p \in Proc : job[p] = Idle
  BY <1>1, PortalProc DEF Resting
<1> QED
  BY <1>2 DEF SyncInv, Quiet

LEMMA CalmUserPush ==
  ASSUME IInv, SyncInv, allowed = {}, allowed' = allowed, NEW f \in File, UserPush(f)
  PROVE  SyncInv'
<1>1. /\ ~ Locked /\ Resting
      /\ clock' = clock + 1 /\ UNCHANGED <<local, latest, db, job, crashes, since>>
  BY DEF UserPush, Undisturbed
<1>2. (\A p \in Proc : job[p] = Idle) /\ Fits /\ Waiting /\ Unique(db, clock) /\ Recorded
  BY <1>1, AtRest
<1>3. /\ remote \in Seq(Commit) /\ Numbered(remote, clock) /\ clock \in Nat
      /\ Files(remote) \in [File -> Content] /\ remote # <<>>
  BY CalmState
<1>4. clock' \in Nat /\ clock <= clock' /\ edits + 1 \in Nat
  BY <1>1, <1>3, Bounds DEF IInv, TypeOK
<1> DEFINE old == Files(remote)[f]
<1>5. Known(db, f, old) /\ old \in Content /\ (latest = None => old.id = None)
  BY <1>2, <1>3 DEF Waiting, KnownFiles, Recorded
<1>6. \E c \in Content :
        /\ remote' = Append(remote, [n |-> clock + 1, tree |-> [Files(remote) EXCEPT ![f] = c]])
        /\ Known(db, f, c) /\ (latest = None => c.id = None)
  <2> DEFINE Add(c) == remote' = Append(remote,
                         [n |-> clock + 1, tree |-> [Files(remote) EXCEPT ![f] = c]])
  <2>1. CASE Named(f) = {} /\ Add([id |-> None, rev |-> edits + 1])
    <3> DEFINE c == [id |-> None, rev |-> edits + 1]
    <3>1. c \in Content /\ c.id = None
      BY <1>4 DEF Content
    <3>2. Known(db, f, c)
      BY <2>1, <3>1 DEF Known, Of, Named
    <3> QED
      BY <2>1, <3>1, <3>2
  <2>2. CASE old # Gone /\ Add([old EXCEPT !.rev = edits + 1])
    <3> DEFINE c == [old EXCEPT !.rev = edits + 1]
    <3>1. c \in Content /\ c.id = old.id
      BY <1>4, <1>5 DEF Content
    <3>2. Known(db, f, c)
      BY <1>5, <2>2, <3>1 DEF Known
    <3> QED
      BY <1>5, <2>2, <3>1, <3>2
  <2>3. CASE Add(Gone)
    <3>1. Gone \in Content /\ Gone.id = None /\ Known(db, f, Gone)
      BY GoneIsContent DEF Gone, Known
    <3> QED
      BY <2>3, <3>1
  <2> QED
    BY <2>1, <2>2, <2>3 DEF UserPush, Fresh
<1>7. PICK c \in Content :
        /\ remote' = Append(remote, [n |-> clock + 1, tree |-> [Files(remote) EXCEPT ![f] = c]])
        /\ Known(db, f, c) /\ (latest = None => c.id = None)
  BY <1>6
<1> DEFINE t == [Files(remote) EXCEPT ![f] = c]
           e == [n |-> clock + 1, tree |-> t]
<1>8. /\ t \in [File -> Content] /\ t[f] = c /\ \A g \in File \ {f} : t[g] = Files(remote)[g]
  BY <1>3
<1>9. e \in Commit /\ e.n = clock + 1 /\ e.tree = t /\ remote' = Append(remote, e)
  <2>1. clock + 1 \in Nat
    BY <1>3
  <2> QED
    BY <1>7, <1>8, <2>1, CommitOf
<1> HIDE DEF t, e, old
<1>10. RemoteGrows
  <2>1. Numbered(remote', clock')
    BY <1>1, <1>3, <1>9, NumberedAppend
  <2>2. remote' \in Seq(Commit) /\ \A i \in DOMAIN remote : i \in DOMAIN remote' /\ remote'[i] = remote[i]
    BY <1>3, <1>9, AppendOf
  <2> QED
    BY <2>1, <2>2 DEF RemoteGrows
<1>11. Files(remote)' = t
  BY <1>3, <1>9, AppendOf DEF Files
<1>12. ASSUME NEW g \in File PROVE Known(db, g, t[g]) /\ (latest = None => t[g].id = None)
  <2>1. Known(db, g, Files(remote)[g]) /\ (latest = None => Files(remote)[g].id = None)
    BY <1>2 DEF Waiting, KnownFiles, Recorded
  <2>2. CASE g = f
    BY <1>7, <1>8, <2>2
  <2>3. CASE g # f
    BY <1>8, <2>1, <2>3
  <2> QED
    BY <2>2, <2>3
<1>13. KnownFiles(Files(remote), File)'
  BY <1>1, <1>11, <1>12 DEF KnownFiles
<1>14. UpToLatest'
  BY <1>1, <1>2, <1>4, <1>10, LatestGrown DEF Waiting
<1>15. Recorded'
  BY <1>1, <1>2, <1>10, <1>11, <1>12, RecordedGrown
<1>16. Fits'
  <2>1. CASE local = None
    BY <1>1, <2>1 DEF Fits
  <2>2. CASE local # None
    <3>1. local.history \in Seq(Commit)
      BY <2>2 DEF IInv, TypeOK
    <3> QED
      BY <1>1, <1>2, <1>3, <1>9, <2>2, <3>1, PrefixAppend DEF Fits
  <2> QED
    BY <2>1, <2>2
<1>17. Unique(db, clock)'
  BY <1>1, <1>2, <1>4, UniqueSame
<1> QED
  BY <1>1, <1>2, <1>13, <1>14, <1>15, <1>16, <1>17, CalmStep, PortalProc DEF Waiting

\* A request of the portal starts, or a job of another kind.
LEMMA CalmStart ==
  ASSUME IInv, SyncInv, allowed = {}, allowed' = allowed, ~ Locked, Resting,
         NEW p \in Proc, NEW j \in JobType, job' = [job EXCEPT ![p] = j],
         j.step = IF latest = None /\ j.op # "enable" THEN "db" ELSE "pull",
         j.op = "sync" => latest # None,
         clock' \in Nat, clock <= clock',
         UNCHANGED <<remote, latest, db, since>>,
         local' = local \/ local' = None, j.op = "enable" => local' = None,
         j.op = "create" => /\ Of(db, j.file) = {} /\ Files(remote)[j.file] = Gone
                            /\ j.id = clock + 1 /\ clock' = clock + 1,
         j.op \in {"update", "delete"} => \E w \in db : w.id = j.id /\ w.file = j.file,
         j.op = "update" /\ latest # None => Files(remote)[j.file].id = j.id
  PROVE  SyncInv'
<1>1. (\A o \in Proc : job[o] = Idle) /\ Fits /\ Waiting /\ Unique(db, clock) /\ Recorded
  BY AtRest
<1>2. job'[p] = j /\ \A o \in Proc \ {p} : job'[o] = Idle
  BY <1>1 DEF IInv, TypeOK
<1>3. j.step \in {"db", "pull"} /\ (j.step = "db" <=> latest = None /\ j.op # "enable")
  OBVIOUS
<1>4. j.op \in {"sync", "create", "update", "delete", "enable"} /\ clock \in Nat
      /\ db \in SUBSET Workflow
  BY CalmState DEF JobType
<1>5. Fits' /\ Waiting' /\ Recorded' /\ Unique(db, clock)'
  BY <1>1, WaitingSame, RecordedSame, UniqueSame DEF Fits
<1>6. Stage(job[p])'
  <2>1. j.step = "db" => latest' = None /\ KnownFiles(Files(remote), File)'
    BY <1>3, <1>5 DEF Waiting
  <2> QED
    BY <1>2, <1>3, <1>5, <2>1 DEF Stage
<1>7. Target(job[p])'
  <2>1. TreeOf(job[p])' = Files(remote)
    BY <1>2, <1>3 DEF TreeOf
  <2>2. j.op = "create" => \A w \in db : w.id # j.id
    <3>1. \A w \in db : w.id \in Nat /\ w.id <= clock
      BY <1>1, <1>4 DEF Unique, Workflow
    <3> QED
      BY <1>4, <3>1
  <2>3. j.op = "create" => j.id <= clock'
    BY <1>4
  <2> QED
    BY <1>2, <1>3, <1>4, <2>1, <2>2, <2>3 DEF Target, Of
<1> QED
  BY <1>2, <1>5, <1>6, <1>7, CalmStep

LEMMA CalmUsers ==
  ASSUME IInv, SyncInv, allowed = {}, allowed' = allowed,
         \/ \E f \in File : UserPush(f) \/ CreateChaosWorkflow(f)
         \/ \E w \in db : UpdateChaosWorkflow(w) \/ DeleteChaosWorkflow(w)
         \/ GitSyncHelper \/ EnableGitOps \/ DisableGitOps \/ Crash
  PROVE  SyncInv'
<1>0. /\ clock \in Nat /\ clock + 1 \in Nat /\ edits + 1 \in Nat /\ clock <= clock
      /\ clock <= clock + 1 /\ db \in SUBSET Workflow
  BY CalmState, Bounds DEF IInv, TypeOK
<1>1. ASSUME NEW op \in {"create", "update", "delete"}, NEW f \in File, NEW id \in Nat,
             Request(op, f, id), clock' \in {clock, clock + 1},
             op = "create" => /\ Of(db, f) = {} /\ Files(remote)[f] = Gone
                              /\ id = clock + 1 /\ clock' = clock + 1,
             op \in {"update", "delete"} => \E w \in db : w.id = id /\ w.file = f,
             op = "update" /\ latest # None => Files(remote)[f].id = id
      PROVE  SyncInv'
  <2> DEFINE s == IF latest = None THEN "db" ELSE "pull"
             j == Job(op, f, id, edits + 1, s)
  <2>1. s \in Stages /\ op \in {"sync", "create", "update", "delete", "enable"}
        /\ op # "enable" /\ op # "sync"
    BY DEF Stages
  <2>2. j \in JobType /\ j.step = s /\ j.op = op /\ j.file = f /\ j.id = id
    <3> HIDE DEF s
    <3>1. id \in Nat \cup {None} /\ f \in File /\ edits + 1 \in Nat
      BY <1>0
    <3>2. j = Job(op, f, id, edits + 1, s)
      OBVIOUS
    <3>3. j.step = s /\ j.op = op /\ j.file = f /\ j.id = id
      BY <3>2 DEF Job
    <3>4. Job(op, f, id, edits + 1, s) \in JobType
      BY <2>1, <3>1, JobStarts
    <3> QED
      BY <3>3, <3>4
  <2>3. /\ ~ Locked /\ Resting /\ job' = [job EXCEPT !["portal"] = j]
        /\ UNCHANGED <<remote, local, latest, db, since>>
    BY <1>1 DEF Request
  <2>4. clock' \in Nat /\ clock <= clock'
    BY <1>0, <1>1
  <2>5. j.step = IF latest = None /\ j.op # "enable" THEN "db" ELSE "pull"
    BY <2>1, <2>2
  <2> HIDE DEF j, s
  <2> QED
    BY <1>1, <2>1, <2>2, <2>3, <2>4, <2>5, CalmStart, PortalProc
<1>2. ASSUME NEW f \in File, CreateChaosWorkflow(f) PROVE SyncInv'
  <2>1. Of(db, f) = {} /\ Files(remote)[f] = Gone
    BY <1>2 DEF CreateChaosWorkflow, Fresh, Of, Named
  <2>2. Request("create", f, clock + 1) /\ clock' = clock + 1
    BY <1>2 DEF CreateChaosWorkflow
  <2> QED
    BY <1>0, <1>1, <2>1, <2>2
<1>3. ASSUME NEW w \in db, NEW op \in {"update", "delete"}, InGit(w),
             Request(op, w.file, w.id), clock' = clock
      PROVE  SyncInv'
  <2>1. w.id \in Nat /\ w.file \in File /\ op \in {"create", "update", "delete"} /\ op # "create"
    BY <1>0 DEF Workflow
  <2>2. latest # None => Files(remote)[w.file].id = w.id
    BY <1>3 DEF InGit
  <2>3. \E v \in db : v.id = w.id /\ v.file = w.file
    OBVIOUS
  <2> QED
    BY <1>1, <1>3, <2>1, <2>2, <2>3
<1>4. ASSUME NEW w \in db, UpdateChaosWorkflow(w) \/ DeleteChaosWorkflow(w) PROVE SyncInv'
  BY <1>3, <1>4 DEF UpdateChaosWorkflow, DeleteChaosWorkflow
<1>5. ASSUME NEW f \in File PROVE
        /\ Job("sync", f, None, 0, "pull") \in JobType
        /\ Job("enable", f, None, 0, "pull") \in JobType
  BY DEF Job, JobType
<1>6. (CHOOSE f \in File : TRUE) \in File
  BY FileAssumption
<1>7. CASE GitSyncHelper
  <2> DEFINE j == Job("sync", CHOOSE f \in File : TRUE, None, 0, "pull")
  <2>1. /\ job' = [job EXCEPT !["sync"] = j] /\ ~ Locked /\ Resting /\ latest # None
        /\ UNCHANGED <<remote, local, latest, db, clock, since>>
    BY <1>7 DEF GitSyncHelper
  <2>2. j \in JobType /\ j.op = "sync" /\ j.step = "pull"
    BY <1>5, <1>6 DEF Job
  <2> HIDE DEF j
  <2> QED
    BY <1>0, <2>1, <2>2, CalmStart, PortalProc
<1>8. CASE EnableGitOps
  <2> DEFINE j == Job("enable", CHOOSE f \in File : TRUE, None, 0, "pull")
  <2>1. /\ job' = [job EXCEPT !["portal"] = j] /\ ~ Locked /\ Resting /\ local' = None
        /\ UNCHANGED <<remote, latest, db, clock, since>>
    BY <1>8 DEF EnableGitOps
  <2>2. j \in JobType /\ j.op = "enable" /\ j.step = "pull"
    BY <1>5, <1>6 DEF Job
  <2> HIDE DEF j
  <2> QED
    BY <1>0, <2>1, <2>2, CalmStart, PortalProc
<1>9. ~ DisableGitOps /\ ~ Crash
  BY DEF DisableGitOps, Crash
<1> QED
  BY <1>2, <1>4, <1>7, <1>8, <1>9, CalmUserPush

-----------------------------------------------------------------------------
(* The invariant, and the theorem.                                         *)

LEMMA CalmInit == IInv /\ Init => SyncInv
<1> SUFFICES ASSUME IInv, Init PROVE SyncInv
  OBVIOUS
<1>1. /\ job = [p \in Proc |-> Idle] /\ db = {} /\ latest = None /\ local = None
  BY DEF Init
<1>2. \A p \in Proc : job[p] = Idle
  BY <1>1
<1>3. \A f \in File : Files(remote)[f] = Gone
  <2>1. remote = <<[n |-> 0, tree |-> NoFiles]>>
    BY DEF Init
  <2>2. Last(remote) = [n |-> 0, tree |-> NoFiles]
    BY <2>1 DEF Last
  <2> QED
    BY <2>2 DEF Files, NoFiles
<1>4. \A k \in DOMAIN remote : remote[k].n # None
  BY CalmState, NumberedOrder, NoneIsNoNumber
<1>5. OneJob /\ Unique(db, clock)
  BY <1>1, <1>2, PortalProc DEF OneJob, Unique
<1>6. Recorded
  BY <1>1, <1>3 DEF Recorded, Gone
<1>7. Fits /\ Waiting
  <2>1. KnownFiles(Files(remote), File)
    BY <1>3 DEF KnownFiles, Known, Gone
  <2>2. UpToLatest
    BY <1>1, <1>4 DEF UpToLatest
  <2> QED
    BY <1>1, <2>1, <2>2 DEF Fits, Waiting
<1> QED
  BY <1>2, <1>5, <1>6, <1>7 DEF SyncInv, Quiet

LEMMA CalmNext == IInv /\ SyncInv /\ [Next]_vars => SyncInv'
<1> SUFFICES ASSUME IInv, SyncInv, [Next]_vars PROVE SyncInv'
  OBVIOUS
<1>0. CASE allowed' # {}
  BY <1>0 DEF SyncInv
<1>1. CASE UNCHANGED vars /\ allowed' = {}
  <2>1. /\ allowed = {} /\ UNCHANGED <<remote, local, latest, db, job, clock, since>>
    BY <1>1 DEF vars, system
  <2>2. OneJob /\ Unique(db, clock) /\ Recorded /\ Quiet
        /\ \A p \in Proc : job[p] # Idle => Stage(job[p]) /\ Target(job[p])
    BY <2>1 DEF SyncInv
  <2>3. OneJob' /\ Unique(db, clock)' /\ Recorded'
    BY <2>1, <2>2, RecordedSame DEF OneJob, Unique
  <2>4. Fits' = Fits /\ Waiting' = Waiting
    BY <2>1 DEF Fits, Waiting, KnownFiles, UpToLatest
  <2>5. Quiet'
    BY <2>1, <2>2, <2>4 DEF Quiet
  <2>6. ASSUME NEW p \in Proc, job'[p] # Idle PROVE Stage(job[p])' /\ Target(job[p])'
    <3>1. Stage(job[p]) /\ Target(job[p])
      BY <2>1, <2>2, <2>6
    <3>2. Stage(job[p])'
      BY <2>1, <2>4, <3>1 DEF Stage, OneMore, SameClone, KnownFiles, Applied, UpToDate, Stored,
                              Want, Put, Others
    <3>3. Target(job[p])'
      BY <2>1, <3>1 DEF Target, TreeOf
    <3> QED
      BY <3>2, <3>3
  <2> QED
    BY <2>3, <2>5, <2>6 DEF SyncInv
<1>2. CASE Next /\ allowed' = {}
  <2>1. Step /\ allowed' = allowed /\ allowed = {}
    BY <1>2 DEF Next
  <2>2. ASSUME NEW p \in Proc, SyncDBToGit(p) \/ AddGitConfig(p) PROVE SyncInv'
    BY <2>1, <2>2, CalmPull, CalmSetup, CalmGetChanges, CalmApply, CalmCommitNew, CalmPushNew,
       CalmRecordSync, CalmAddGitConfig DEF SyncDBToGit
  <2>3. CASE Working
    BY <2>1, <2>2, <2>3, CalmWriteFile, CalmPublish, CalmConfirm, CalmWriteToDB DEF Working
  <2> QED
    BY <2>1, <2>3, CalmUsers DEF Step
<1> QED
  BY <1>0, <1>1, <1>2

LEMMA CalmInvariance == Spec => []SyncInv
<1>1. Init => IInv
  BY InitInv
<1>2. Spec => []IInv
  BY Invariance
<1>3. IInv /\ Init => SyncInv
  BY CalmInit
<1>4. IInv /\ SyncInv /\ [Next]_vars => SyncInv'
  BY CalmNext
<1> QED
  BY <1>1, <1>2, <1>3, <1>4, PTL DEF Spec

LEMMA SettledInStep == IInv /\ SyncInv => InStep
<1> SUFFICES ASSUME IInv, SyncInv, Settled, allowed = {}, NEW f \in File, Touched(f)
             PROVE  {[id |-> w.id, rev |-> w.rev] : w \in Live(f)} = {Files(remote)[f]} \ {Gone}
  BY DEF InStep
<1>1. Waiting
  BY DEF SyncInv, Quiet, Settled
<1>2. UpToDate(File)
  BY <1>1, AllSynced DEF Settled
<1>3. TouchedIn(remote, Len(remote), since, f)
  BY DEF Touched, TouchedIn
<1>4. Match(db, f, Files(remote)[f])
  BY <1>2, <1>3 DEF UpToDate, Synced
<1>5. LiveOf(db, f) = Live(f)
  BY DEF LiveOf, Live
<1> QED
  BY <1>4, <1>5 DEF Match

\* When everything is synced, the workflow in the database of a file that was
\* changed in the repository since GitOps was enabled is the one of the file,
\* among users who stay out of each other's way: SyncDBToGit, and the pushes
\* of UpsertWorkflowToGit and DeleteWorkflowFromGit before the write.
THEOREM DatabaseAsRepository == Spec => []InStep
<1>1. IInv /\ SyncInv => InStep
  BY SettledInStep
<1> QED
  BY <1>1, Invariance, CalmInvariance, PTL
=============================================================================
