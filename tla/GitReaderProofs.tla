-------------------------- MODULE GitReaderProofs --------------------------
(***************************************************************************)
(* Proofs about GitReader, for any directories, repositories and nesting   *)
(* of them, and any number of changes of the world.                        *)
(*                                                                         *)
(* BranchIsCurrent rests on the order of two calls: HEAD is statted before *)
(* it is read, so a branch is never older than the identity it is stored   *)
(* under (ReadAfterStat).  NeverOlder rests on OneWorker: the worker that  *)
(* stores has statted after every other that stored for its directory.     *)
(***************************************************************************)
EXTENDS GitReader, TLAPS

USE RepoAssumption, ChangesAssumption

LEMMA InitEstablishes == Init => IInv
<1> SUFFICES ASSUME Init PROVE IInv
  OBVIOUS
<1> USE DEF Init, Moment, Nothing
<1>1. TypeOK
  <2>1. Unknown \in Entry
    BY DEF Unknown, Entry
  <2>2. git \in [Repo -> GitStates] /\ headed \in SUBSET Repo
    OBVIOUS
  <2>3. now \in 1 .. MaxChanges + 1 /\ head \in [Repo -> 1 .. MaxChanges + 1]
    OBVIOUS
  <2>4. QED
    BY <2>1, <2>2, <2>3 DEF TypeOK
<1>2. HeadsArePast /\ EntriesAreTrue /\ JobsAreTrue /\ OneWorker /\ WorkersLead
  BY DEF HeadsArePast, EntriesAreTrue, JobsAreTrue, OneWorker, WorkersLead, Unknown
<1>3. QED
  BY <1>1, <1>2 DEF IInv

-----------------------------------------------------------------------------
(* The world.                                                              *)

\* A change of the world leaves the reader alone, and every identity it makes
\* is newer than all before it.
LEMMA WorldStep ==
    ASSUME IInv, Change,
           git' \in [Repo -> GitStates], headed' \in SUBSET Repo,
           cwd' \in SUBSET Dir, wedged' \in SUBSET Dir,
           \/ UNCHANGED <<head, torn>>
           \/ \E r \in Repo : /\ head' = [head EXCEPT ![r] = now']
                              /\ torn' \in {torn \ {r}, torn \cup {r}}
    PROVE  IInv'
<1> USE DEF IInv, Change, Moment
<1>0. now' = now + 1 /\ now' \in 1 .. MaxChanges + 1 /\ now < now'
  BY DEF TypeOK
<1>1. /\ head' \in [Repo -> 1 .. MaxChanges + 1]
      /\ torn' \in SUBSET Repo
      /\ \A r \in Repo : head'[r] \in {head[r], now'}
      /\ \A r \in Repo : head'[r] = head[r] => (r \in torn' => r \in torn)
  <2>1. CASE UNCHANGED <<head, torn>>
    BY <2>1 DEF TypeOK
  <2>2. ASSUME NEW q \in Repo, head' = [head EXCEPT ![q] = now'],
               torn' \in {torn \ {q}, torn \cup {q}}
        PROVE  /\ head' \in [Repo -> 1 .. MaxChanges + 1]
               /\ torn' \in SUBSET Repo
               /\ \A r \in Repo : head'[r] \in {head[r], now'}
               /\ \A r \in Repo : head'[r] = head[r] => (r \in torn' => r \in torn)
    <3>1. head' \in [Repo -> 1 .. MaxChanges + 1] /\ torn' \in SUBSET Repo
      BY <2>2, <1>0 DEF TypeOK
    <3>2. \A r \in Repo : head'[r] = IF r = q THEN now' ELSE head[r]
      BY <2>2 DEF TypeOK
    <3>3. head[q] # now'
      BY <1>0 DEF TypeOK, HeadsArePast
    <3>4. \A r \in Repo : r # q => (r \in torn' => r \in torn)
      BY <2>2
    <3>5. QED
      BY <3>1, <3>2, <3>3, <3>4
  <2>3. QED
    BY <2>1, <2>2
<1>2. TypeOK'
  <2>1. UNCHANGED <<poll, wanted, waiting, wake, entries, inFlight, jobs>>
    BY DEF mailVars
  <2>2. /\ poll' \in {"idle", "ring"}
        /\ wanted' \in SUBSET Dir /\ waiting' \in BOOLEAN /\ wake' \in BOOLEAN
        /\ entries' \in [Dir -> Entry] /\ inFlight' \in SUBSET Dir /\ jobs' \in SUBSET Job
    BY <2>1 DEF TypeOK
  <2>3. QED
    BY <2>2, <1>0, <1>1 DEF TypeOK
<1>3. HeadsArePast'
  BY <1>0, <1>1 DEF TypeOK, HeadsArePast
<1>4. ASSUME NEW r \in Repo, NEW id \in Moment, NEW branch \in Moment, ReadAfterStat(r, id, branch)
      PROVE  ReadAfterStat(r, id, branch)'
  <2>1. head[r] <= head'[r] /\ (head'[r] # head[r] => branch < head'[r])
    BY <1>0, <1>1, <1>4 DEF ReadAfterStat, HeadsArePast, TypeOK
  <2>2. QED
    BY <2>1, <1>1, <1>4 DEF ReadAfterStat, TypeOK, Nothing
<1>5. EntriesAreTrue'
  <2> SUFFICES ASSUME NEW d \in Dir, entries[d].repo # NoRepo
               PROVE  ReadAfterStat(entries[d].repo, entries[d].id, entries[d].branch)'
    BY DEF EntriesAreTrue
  <2>1. entries[d] \in Entry
    BY DEF TypeOK
  <2>2. QED
    BY <2>1, <1>4 DEF EntriesAreTrue, Entry
<1>6. JobsAreTrue'
  <2> SUFFICES ASSUME NEW j \in jobs, j.repo # NoRepo
               PROVE  ReadAfterStat(j.repo, j.id, j.branch)'
    BY DEF JobsAreTrue
  <2>1. j \in Job
    BY DEF TypeOK
  <2>2. QED
    BY <2>1, <1>4 DEF JobsAreTrue, Job
<1>7. OneWorker' /\ WorkersLead'
  BY DEF OneWorker, WorkersLead
<1>8. QED
  BY <1>2, <1>3, <1>5, <1>6, <1>7

-----------------------------------------------------------------------------
(* The poller and the reader's goroutine.                                  *)

LEMMA PassStep ==
    ASSUME IInv, TakeAndPass
    PROVE  IInv'
<1> USE DEF IInv, TakeAndPass, worldVars
<1>1. \A d \in Dir : /\ NewJob(d) \in Job
                     /\ NewJob(d).dir = d /\ NewJob(d).at = "check"
                     /\ NewJob(d).repo = NoRepo /\ NewJob(d).branch = Nothing
                     /\ NewJob(d).id = Nothing
  BY DEF NewJob, Job, Moment, Nothing
<1>2. \A d \in Dir : entries'[d] \in {entries[d], Unknown}
  BY DEF TypeOK
<1>3. wanted \subseteq Dir /\ Unknown \in Entry /\ Unknown.repo = NoRepo
  BY DEF TypeOK, Unknown, Entry, Moment, Nothing
<1>4. TypeOK'
  <2>1. entries' \in [Dir -> Entry]
    BY <1>3 DEF TypeOK
  <2>2. inFlight' \in SUBSET Dir /\ jobs' \in SUBSET Job
    BY <1>1, <1>3 DEF TypeOK
  <2>3. QED
    BY <2>1, <2>2 DEF TypeOK
<1>5. HeadsArePast' /\ EntriesAreTrue'
  BY <1>2, <1>3 DEF HeadsArePast, EntriesAreTrue, ReadAfterStat
<1>6. JobsAreTrue'
  BY <1>1, <1>3 DEF JobsAreTrue, ReadAfterStat
<1>7. OneWorker'
  BY <1>1, <1>3 DEF OneWorker
<1>8. WorkersLead'
  <2> SUFFICES ASSUME NEW j \in jobs', entries'[j.dir].repo # NoRepo
               PROVE  /\ j.at \notin {"climb", "stat"}
                      /\ j.at # "check" => j.repo = entries'[j.dir].repo
                      /\ j.at \in {"read", "store"} =>
                             entries'[j.dir].id <= j.id /\ entries'[j.dir].branch <= j.id
    BY DEF WorkersLead
  <2>1. CASE j \in jobs
    <3>1. j.dir \in Dir
      BY <2>1 DEF TypeOK, Job
    <3>2. entries'[j.dir] = entries[j.dir]
      BY <3>1, <1>2, <1>3
    <3>3. QED
      BY <2>1, <3>2 DEF WorkersLead
  <2>2. CASE j \notin jobs
    BY <2>2, <1>1, <1>3
  <2>3. QED
    BY <2>1, <2>2
<1>9. QED
  BY <1>4, <1>5, <1>6, <1>7, <1>8

-----------------------------------------------------------------------------
(* The workers.                                                            *)

\* A worker that leaves and changes no entry.
LEMMA LeaveStep ==
    ASSUME IInv, NEW j \in jobs, Leave(j), UNCHANGED <<worldVars, mailVars, entries>>
    PROVE  IInv'
<1> USE DEF IInv, Leave, worldVars, mailVars
<1>1. TypeOK'
  BY DEF TypeOK
<1>2. HeadsArePast' /\ EntriesAreTrue' /\ JobsAreTrue'
  BY DEF HeadsArePast, EntriesAreTrue, JobsAreTrue, ReadAfterStat
<1>3. OneWorker'
  BY DEF OneWorker
<1>4. WorkersLead'
  BY DEF WorkersLead
<1>5. QED
  BY <1>1, <1>2, <1>3, <1>4

\* A worker that goes on, with what the invariant asks of it.
LEMMA ReadsStep ==
    ASSUME IInv, NEW j \in jobs, NEW k \in Job, Reads(j, k),
           k.dir = j.dir,
           k.at \in {"restat", "stat", "read", "forget"} => k.repo # NoRepo,
           k.repo # NoRepo => ReadAfterStat(k.repo, k.id, k.branch),
           k.at # "store" => k.branch = Nothing,
           k.at \notin {"read", "store"} => k.id = Nothing,
           entries[j.dir].repo # NoRepo =>
                /\ k.at \notin {"climb", "stat"}
                /\ k.at # "check" => k.repo = entries[j.dir].repo
                /\ k.at \in {"read", "store"} =>
                       entries[j.dir].id <= k.id /\ entries[j.dir].branch <= k.id
    PROVE  IInv'
<1> USE DEF IInv, Reads, Become, worldVars, mailVars
<1>1. TypeOK'
  BY DEF TypeOK
<1>2. HeadsArePast' /\ EntriesAreTrue'
  BY DEF HeadsArePast, EntriesAreTrue, ReadAfterStat
<1>3. JobsAreTrue'
  BY DEF JobsAreTrue, ReadAfterStat
<1>4. OneWorker'
  BY DEF OneWorker
<1>5. WorkersLead'
  BY DEF WorkersLead
<1>6. QED
  BY <1>1, <1>2, <1>3, <1>4, <1>5

\* What a worker's entry and its own fields are.
LEMMA WorkerType ==
    ASSUME IInv, NEW j \in jobs
    PROVE  /\ j \in Job /\ j.dir \in Dir /\ j.repo \in Repo \cup {NoRepo}
           /\ j.id \in Moment /\ j.branch \in Moment /\ j.was \in Moment
           /\ entries[j.dir] \in Entry
           /\ entries[j.dir].repo \in Repo \cup {NoRepo}
           /\ entries[j.dir].id \in Moment /\ entries[j.dir].branch \in Moment
BY DEF IInv, TypeOK, Job, Entry

LEMMA CheckStep ==
    ASSUME IInv, NEW j \in jobs, Check(j)
    PROVE  IInv'
<1> USE DEF Check
<1> DEFINE e == entries[j.dir]
           k == [j EXCEPT !.at = "restat", !.repo = e.repo, !.was = e.id]
           c == [j EXCEPT !.at = "climb"]
<1>1. j.branch = Nothing /\ j.id = Nothing
  BY DEF IInv, JobsAreTrue
<1>2. CASE e.repo # NoRepo
  <2>1. k \in Job /\ k.dir = j.dir /\ k.at = "restat" /\ k.repo = e.repo /\ k.id = Nothing
        /\ k.branch = Nothing
    BY <1>1, WorkerType DEF Job
  <2>2. Reads(j, k)
    BY <1>2
  <2>3. ReadAfterStat(k.repo, k.id, k.branch)
    <3>1. k.repo \in Repo /\ head[k.repo] \in 1 .. MaxChanges + 1
      BY <1>2, <2>1, WorkerType DEF IInv, TypeOK
    <3>2. QED
      BY <2>1, <3>1 DEF ReadAfterStat, Nothing
  <2>4. QED
    BY <1>2, <2>1, <2>2, <2>3, ReadsStep
<1>3. CASE e.repo = NoRepo
  <2>1. c \in Job /\ c.dir = j.dir /\ c.at = "climb" /\ c.repo = j.repo /\ c.id = Nothing
        /\ c.branch = Nothing
    BY <1>1, WorkerType DEF Job
  <2>2. Reads(j, c)
    BY <1>3
  <2>3. c.repo # NoRepo => ReadAfterStat(c.repo, c.id, c.branch)
    BY <2>1, <1>1 DEF IInv, JobsAreTrue
  <2>4. QED
    BY <1>3, <2>1, <2>2, <2>3, ReadsStep
<1>4. QED
  BY <1>2, <1>3

\* A climb can only end at a repository.
LEMMA ElementInSeq ==
    ASSUME NEW S, NEW q \in Seq(S), NEW i \in DOMAIN q
    PROVE  q[i] \in S
OBVIOUS

LEMMA ClimbStep ==
    ASSUME IInv, NEW j \in jobs, Climb(j)
    PROVE  IInv'
<1>1. j.branch = Nothing /\ j.id = Nothing /\ entries[j.dir].repo = NoRepo
  BY DEF IInv, JobsAreTrue, WorkersLead, Climb
<1>2. ASSUME NEW r \in FindGitDir(j.dir), Reads(j, [j EXCEPT !.repo = r, !.at = "stat"])
      PROVE  IInv'
  <2> DEFINE k == [j EXCEPT !.repo = r, !.at = "stat"]
  <2>1. Above[j.dir] \in Seq(Repo)
    BY WorkerType, AboveAssumption
  <2>2. r \in Repo
    <3>1. PICK i \in DOMAIN Above[j.dir] : r = Above[j.dir][i]
      BY DEF FindGitDir
    <3>2. QED
      BY <2>1, <3>1, ElementInSeq
  <2>3. k \in Job /\ k.dir = j.dir /\ k.at = "stat" /\ k.repo = r /\ k.id = Nothing
        /\ k.branch = Nothing
    BY <1>1, <2>2, WorkerType DEF Job
  <2>4. head[r] \in 1 .. MaxChanges + 1
    BY <2>2 DEF IInv, TypeOK
  <2> HIDE DEF k
  <2>5. ReadAfterStat(k.repo, k.id, k.branch)
    <3>1. ReadAfterStat(r, Nothing, Nothing)
      BY <2>4 DEF ReadAfterStat, Nothing
    <3>2. QED
      BY <3>1, <2>3
  <2>6. QED
    BY <1>1, <1>2, <2>2, <2>3, <2>5, ReadsStep DEF k
<1>3. ASSUME Reads(j, [j EXCEPT !.at = "store"])
      PROVE  IInv'
  <2> DEFINE k == [j EXCEPT !.at = "store"]
  <2>1. k \in Job /\ k.dir = j.dir /\ k.at = "store" /\ k.repo = j.repo /\ k.id = j.id
        /\ k.branch = j.branch
    BY WorkerType DEF Job
  <2>2. k.repo # NoRepo => ReadAfterStat(k.repo, k.id, k.branch)
    BY <2>1 DEF IInv, JobsAreTrue
  <2>3. QED
    BY <1>1, <1>3, <2>1, <2>2, ReadsStep
<1>4. QED
  BY <1>2, <1>3 DEF Climb

\* A stat takes an identity that is no older than anything in the entry.
LEMMA StatStep ==
    ASSUME IInv, NEW j \in jobs, Restat(j) \/ Stat(j)
    PROVE  IInv'
<1> DEFINE e == entries[j.dir]
           k == [j EXCEPT !.id = head[j.repo], !.at = "read"]
           f == [j EXCEPT !.at = "forget"]
           s == [j EXCEPT !.at = "store"]
<1>1. /\ j.at \in {"restat", "stat"} /\ j.repo \in Repo
      /\ j.branch = Nothing /\ j.id = Nothing
      /\ Reads(j, k) \/ (j.at = "restat" /\ Reads(j, f)) \/ (j.at = "stat" /\ Reads(j, s))
  BY WorkerType DEF IInv, JobsAreTrue, Restat, Stat
<1>2. head[j.repo] \in 1 .. MaxChanges + 1
  BY <1>1 DEF IInv, TypeOK
<1>3. ReadAfterStat(j.repo, Nothing, Nothing) /\ ReadAfterStat(j.repo, head[j.repo], Nothing)
  BY <1>2 DEF ReadAfterStat, Nothing
<1>4. e.repo # NoRepo =>
        j.at = "restat" /\ e.repo = j.repo /\ e.id <= head[j.repo] /\ e.branch <= head[j.repo]
  BY <1>1, WorkerType DEF IInv, WorkersLead, EntriesAreTrue, ReadAfterStat
<1>5. CASE Reads(j, k)
  <2>1. k \in Job /\ k.dir = j.dir /\ k.at = "read" /\ k.repo = j.repo
        /\ k.id = head[j.repo] /\ k.branch = Nothing
    <3>1. head[j.repo] \in Moment
      BY <1>2 DEF Moment
    <3>2. QED
      BY <1>1, <3>1, WorkerType DEF Job
  <2>2. QED
    BY <1>1, <1>3, <1>4, <1>5, <2>1, ReadsStep
<1>6. CASE j.at = "restat" /\ Reads(j, f)
  <2>1. f \in Job /\ f.dir = j.dir /\ f.at = "forget" /\ f.repo = j.repo
        /\ f.id = Nothing /\ f.branch = Nothing
    BY <1>1, WorkerType DEF Job
  <2>2. QED
    BY <1>1, <1>3, <1>4, <1>6, <2>1, ReadsStep
<1>7. CASE j.at = "stat" /\ Reads(j, s)
  <2>1. s \in Job /\ s.dir = j.dir /\ s.at = "store" /\ s.repo = j.repo
        /\ s.id = Nothing /\ s.branch = Nothing
    BY <1>1, WorkerType DEF Job
  <2>2. QED
    BY <1>1, <1>3, <1>4, <1>7, <2>1, ReadsStep
<1>8. QED
  BY <1>1, <1>5, <1>6, <1>7

\* A read comes after its stat: what it finds is no older than the identity.
LEMMA ReadStep ==
    ASSUME IInv, NEW j \in jobs, Read(j)
    PROVE  IInv'
<1> DEFINE e == entries[j.dir]
<1>1. PICK b \in {Held(j.repo), Nothing} : Reads(j, [j EXCEPT !.branch = b, !.at = "store"])
  BY DEF Read
<1> DEFINE k == [j EXCEPT !.branch = b, !.at = "store"]
<1>2. j.at = "read" /\ j.repo \in Repo /\ head[j.repo] \in 1 .. MaxChanges + 1
  BY WorkerType DEF Read, IInv, JobsAreTrue, TypeOK
<1>3. b \in Moment /\ (b = Nothing \/ (b = head[j.repo] /\ j.repo \notin torn))
  BY <1>2 DEF Held, Moment, Nothing
<1>4. k \in Job /\ k.dir = j.dir /\ k.at = "store" /\ k.repo = j.repo
      /\ k.id = j.id /\ k.branch = b
  BY <1>3, WorkerType DEF Job
<1>5. ReadAfterStat(j.repo, j.id, b)
  <2>1. j.id <= head[j.repo]
    BY <1>2 DEF IInv, JobsAreTrue, ReadAfterStat
  <2>2. QED
    BY <2>1, <1>2, <1>3 DEF ReadAfterStat, Nothing
<1>6. e.repo # NoRepo => j.repo = e.repo /\ e.id <= j.id /\ e.branch <= j.id
  BY <1>2 DEF IInv, WorkersLead
<1>7. QED
  BY <1>1, <1>4, <1>5, <1>6, ReadsStep

\* Storing and forgetting are a worker's last step, on its own entry.
LEMMA LastStep ==
    ASSUME IInv, NEW j \in jobs, Leave(j), UNCHANGED <<worldVars, mailVars>>,
           NEW e \in Entry, entries' = [entries EXCEPT ![j.dir] = e],
           e.repo # NoRepo => ReadAfterStat(e.repo, e.id, e.branch)
    PROVE  IInv'
<1> USE DEF IInv, Leave, worldVars, mailVars
<1>0. \A d \in Dir : entries'[d] = IF d = j.dir THEN e ELSE entries[d]
  BY DEF TypeOK
<1>1. TypeOK'
  <2>1. entries' \in [Dir -> Entry]
    BY DEF TypeOK
  <2>2. inFlight' \in SUBSET Dir /\ jobs' \in SUBSET Job
    BY DEF TypeOK
  <2>3. QED
    BY <2>1, <2>2 DEF TypeOK
<1>2. HeadsArePast' /\ JobsAreTrue'
  BY DEF HeadsArePast, JobsAreTrue, ReadAfterStat
<1>3. EntriesAreTrue'
  BY <1>0 DEF EntriesAreTrue, ReadAfterStat
<1>4. OneWorker'
  BY DEF OneWorker
<1>5. WorkersLead'
  <2>1. \A k \in jobs' : k \in jobs /\ k.dir \in Dir /\ k.dir # j.dir
    BY WorkerType DEF OneWorker
  <2>2. \A k \in jobs' : entries'[k.dir] = entries[k.dir]
    BY <2>1, <1>0
  <2>3. QED
    BY <2>1, <2>2 DEF WorkersLead
<1>6. QED
  BY <1>1, <1>2, <1>3, <1>4, <1>5

-----------------------------------------------------------------------------
(* The invariant, and what it gives.                                       *)

LEMMA NextPreserves ==
    ASSUME IInv, [Next]_vars
    PROVE  IInv'
<1>1. CASE Want \/ Ring \/ TakeNothing \/ UNCHANGED vars
  <2>1. UNCHANGED <<worldVars, entries, inFlight, jobs>>
    BY <1>1 DEF Want, Ring, TakeNothing, vars
  <2>2. poll' \in {"idle", "ring"} /\ wanted' \in SUBSET Dir
        /\ waiting' \in BOOLEAN /\ wake' \in BOOLEAN
    BY <1>1 DEF Want, Ring, TakeNothing, vars, mailVars, IInv, TypeOK
  <2>3. QED
    BY <2>1, <2>2 DEF worldVars, IInv, TypeOK, HeadsArePast, EntriesAreTrue, JobsAreTrue,
       OneWorker, WorkersLead, ReadAfterStat
<1>2. CASE TakeAndPass
  BY <1>2, PassStep
<1>3. ASSUME NEW d \in Dir, Age(d)
      PROVE  IInv'
  <2> USE <1>3 DEF Age
  <2>1. entries[d] \in Entry
    BY DEF IInv, TypeOK
  <2>2. [entries[d] EXCEPT !.age = "old"] \in Entry
    BY <2>1 DEF Entry
  <2>3. \A c \in Dir : /\ entries'[c].repo = entries[c].repo
                       /\ entries'[c].id = entries[c].id
                       /\ entries'[c].branch = entries[c].branch
    BY <2>1 DEF IInv, TypeOK, Entry
  <2>4. entries' \in [Dir -> Entry]
    BY <2>2 DEF IInv, TypeOK
  <2>5. TypeOK'
    BY <2>4 DEF IInv, TypeOK, worldVars, mailVars
  <2>6. HeadsArePast' /\ EntriesAreTrue' /\ JobsAreTrue' /\ OneWorker'
    BY <2>3 DEF IInv, HeadsArePast, EntriesAreTrue, JobsAreTrue, OneWorker, ReadAfterStat, worldVars
  <2>7. WorkersLead'
    BY <2>3, WorkerType DEF IInv, WorkersLead
  <2>8. QED
    BY <2>5, <2>6, <2>7 DEF IInv
<1>4. ASSUME NEW d \in Dir, Wedge(d)
      PROVE  IInv'
  <2>1. wedged' \in SUBSET Dir
    BY <1>4 DEF Wedge, IInv, TypeOK
  <2>2. QED
    BY <1>4, <2>1, WorldStep DEF Wedge, IInv, TypeOK
<1>5. ASSUME NEW D \in SUBSET Dir, MovePanes(D)
      PROVE  IInv'
  BY <1>5, WorldStep DEF MovePanes, IInv, TypeOK
<1>6. ASSUME NEW r \in Repo, NEW whole \in BOOLEAN, WriteHead(r, whole)
      PROVE  IInv'
  BY <1>6, WorldStep DEF WriteHead, IInv, TypeOK
<1>7. ASSUME NEW r \in Repo, NEW whole \in BOOLEAN, NEW state \in GitStates,
             ChangeGit(r, state, whole)
      PROVE  IInv'
  BY <1>7, WorldStep DEF ChangeGit, IInv, TypeOK
<1>8. ASSUME NEW j \in jobs, Work(j)
      PROVE  IInv'
  <2>1. CASE Believe(j) \/ Unmoved(j)
    BY <2>1, LeaveStep DEF Believe, Unmoved
  <2>2. CASE Check(j) \/ Climb(j)
    BY <2>2, CheckStep, ClimbStep
  <2>3. CASE Restat(j) \/ Stat(j) \/ Read(j)
    BY <2>3, StatStep, ReadStep
  <2>4. CASE Store(j)
    <3> DEFINE e == [repo |-> j.repo, id |-> j.id, branch |-> j.branch, age |-> "young"]
    <3>1. e \in Entry /\ e.repo = j.repo /\ e.id = j.id /\ e.branch = j.branch
      BY WorkerType DEF Entry
    <3>2. e.repo # NoRepo => ReadAfterStat(e.repo, e.id, e.branch)
      BY <3>1 DEF IInv, JobsAreTrue
    <3>3. QED
      BY <2>4, <3>1, <3>2, LastStep DEF Store
  <2>5. CASE Forget(j)
    <3>1. Unknown \in Entry /\ Unknown.repo = NoRepo
      BY DEF Unknown, Entry, Moment, Nothing
    <3>2. QED
      BY <2>5, <3>1, LastStep DEF Forget
  <2>6. QED
    BY <1>8, <2>1, <2>2, <2>3, <2>4, <2>5 DEF Work
<1>9. QED
  BY <1>1, <1>2, <1>3, <1>4, <1>5, <1>6, <1>7, <1>8 DEF Next

\* The inductive invariant holds in every reachable state.
THEOREM Invariance == Spec => []IInv
<1>1. Init => IInv
  BY InitEstablishes
<1>2. IInv /\ [Next]_vars => IInv'
  BY NextPreserves
<1>3. QED
  BY <1>1, <1>2, PTL DEF Spec

\* An entry under HEAD's present identity, which no later pass reads again,
\* shows what HEAD holds or nothing.
THEOREM BranchesAreCurrent == Spec => []BranchIsCurrent
<1>1. IInv => BranchIsCurrent
  <2> SUFFICES ASSUME IInv, NEW d \in Dir,
                      entries[d].repo \in headed, entries[d].id = head[entries[d].repo]
               PROVE  entries[d].branch \in {Held(entries[d].repo), Nothing}
    BY DEF BranchIsCurrent
  <2>1. /\ entries[d].repo \in Repo /\ entries[d].id \in Moment /\ entries[d].branch \in Moment
        /\ head[entries[d].repo] \in 1 .. MaxChanges + 1
    BY DEF IInv, TypeOK, Entry
  <2>2. ReadAfterStat(entries[d].repo, entries[d].id, entries[d].branch)
    BY <2>1 DEF IInv, EntriesAreTrue
  <2>3. QED
    BY <2>1, <2>2 DEF ReadAfterStat, Held, Nothing, Moment
<1>2. QED
  BY <1>1, Invariance, PTL

\* No answer is replaced by an older one of the same repository.
THEOREM AnswersAdvance == Spec => NeverOlder
<1>1. ASSUME IInv, [Next]_vars
      PROVE  [NewerOnly]_vars
  <2> SUFFICES ASSUME NEW d \in Dir, entries[d].repo # NoRepo,
                      entries'[d].repo = entries[d].repo
               PROVE  /\ entries'[d].id >= entries[d].id
                      /\ entries'[d].branch \in {Nothing} \cup entries[d].branch .. now
    BY DEF NewerOnly
  <2>1. /\ entries[d].id \in Moment /\ entries[d].branch \in Moment
        /\ entries[d].repo \in Repo /\ now \in Moment /\ head[entries[d].repo] \in Moment
    BY <1>1 DEF IInv, TypeOK, Entry, Moment
  <2>2. entries[d].branch <= now
    BY <1>1, <2>1 DEF IInv, EntriesAreTrue, ReadAfterStat, HeadsArePast, Moment
  <2>3. CASE entries'[d].id = entries[d].id /\ entries'[d].branch = entries[d].branch
    BY <2>1, <2>2, <2>3 DEF Moment
  <2>4. ASSUME NEW j \in jobs, Store(j), j.dir = d
        PROVE  /\ entries'[d].id >= entries[d].id
               /\ entries'[d].branch \in {Nothing} \cup entries[d].branch .. now
    <3>1. entries'[d].id = j.id /\ entries'[d].branch = j.branch /\ entries'[d].repo = j.repo
      BY <1>1, <2>4 DEF Store, IInv, TypeOK
    <3>2. entries[d].id <= j.id /\ entries[d].branch <= j.id
      BY <1>1, <2>4 DEF Store, IInv, WorkersLead
    <3>3. (j.branch = Nothing \/ j.id <= j.branch) /\ j.branch <= head[j.repo]
      BY <1>1, <2>1, <2>4, <3>1 DEF IInv, JobsAreTrue, ReadAfterStat
    <3>4. head[j.repo] <= now
      BY <1>1, <2>1, <3>1 DEF IInv, HeadsArePast
    <3>5. j.id \in Moment /\ j.branch \in Moment /\ head[j.repo] \in Moment
      BY <1>1, <2>1, <2>4, <3>1, WorkerType
    <3>6. QED
      BY <2>1, <3>1, <3>2, <3>3, <3>4, <3>5 DEF Moment
  <2>5. CASE \/ UNCHANGED entries
             \/ TakeAndPass
             \/ \E c \in Dir : Age(c)
             \/ \E j \in jobs : Forget(j) \/ (Store(j) /\ j.dir # d)
    <3>1. Unknown.repo = NoRepo
      BY DEF Unknown
    <3>2. CASE UNCHANGED entries
      BY <3>2, <2>3
    <3>3. CASE TakeAndPass
      BY <1>1, <3>1, <3>3, <2>3 DEF TakeAndPass, IInv, TypeOK
    <3>4. ASSUME NEW c \in Dir, Age(c)
          PROVE  entries'[d].id = entries[d].id /\ entries'[d].branch = entries[d].branch
      BY <1>1, <3>4 DEF Age, IInv, TypeOK, Entry
    <3>5. ASSUME NEW j \in jobs, Forget(j) \/ (Store(j) /\ j.dir # d)
          PROVE  entries'[d].id = entries[d].id /\ entries'[d].branch = entries[d].branch
      BY <1>1, <3>1, <3>5 DEF Forget, Store, IInv, TypeOK
    <3>6. QED
      BY <2>3, <2>5, <3>2, <3>3, <3>4, <3>5
  <2>6. QED
    BY <1>1, <2>4, <2>5 DEF Next, vars, Want, Ring, TakeNothing, Wedge, MovePanes, WriteHead,
       ChangeGit, Change, Work, Believe, Check, Climb, Unmoved, Restat, Stat, Read, Reads
<1>2. QED
  BY <1>1, Invariance, PTL DEF Spec, NeverOlder

=============================================================================
