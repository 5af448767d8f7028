----------------------------- MODULE GitReader -----------------------------
(***************************************************************************)
(* The git branch reader of internal/tmux/git.go.  The poller hands over   *)
(* the directories its panes are in; a goroutine of its own takes the      *)
(* newest set, forgets every other directory, and starts one worker for    *)
(* each directory that has none.  A worker reads the disk, which may hang  *)
(* it for as long as a mount is wedged, and stores what it found.          *)
(*                                                                         *)
(* The disk is outside the program.  HEAD's identity (its mtime and size)  *)
(* is the moment of its last write, so that no two writes share one; what  *)
(* is written is named by the same moment.  A write in place is two        *)
(* changes, and what is read between them parses to no branch.  A .git     *)
(* that leads to a git directory says nothing of the HEAD in it: the       *)
(* pointer of a worktree may dangle, a .git directory may be half made,    *)
(* and the HEAD a pointer led to may outlive the pointer.                  *)
(***************************************************************************)
EXTENDS Integers, Sequences

CONSTANTS
    Dir,        \* directories panes can be in
    Repo,       \* git directories on the disk
    NoRepo,     \* gitDir "": no repository above the directory
    Above,      \* directory -> the repositories on its way up to the root
    MaxChanges  \* bound on the changes of the world

ASSUME RepoAssumption == NoRepo \notin Repo
ASSUME AboveAssumption == Above \in [Dir -> Seq(Repo)]
ASSUME ChangesAssumption == MaxChanges \in Nat

Moment == 0 .. MaxChanges + 1
Nothing == 0    \* the zero identity, and the branch "" of a row

\* What the climb finds where a repository's .git is: nothing, a file that is no
\* pointer, or the way to its git directory.
GitStates == {"absent", "unusable", "leads"}

VARIABLES
    now,        \* the moment of the last change of the world
    git,        \* repository -> the state of its .git
    headed,     \* the repositories whose HEAD can be statted
    head,       \* repository -> the identity of HEAD, and what was written
    torn,       \* the repositories whose HEAD is being written
    cwd,        \* the directories panes are in
    wedged,     \* the directories whose mount does not answer
    poll,       \* the poller: "idle", or "ring" inside want
    wanted,     \* gitReader.wanted: the mailbox
    waiting,    \* gitReader.waiting
    wake,       \* gitReader.wake holds a token
    entries,    \* gitReader.entries, Unknown where there is none
    inFlight,   \* gitReader.inFlight
    jobs        \* the workers

worldVars == <<now, git, headed, head, torn, cwd, wedged>>
mailVars == <<poll, wanted, waiting, wake>>
vars == <<worldVars, mailVars, entries, inFlight, jobs>>

\* gitEntry: a miss has no repository, and gets old when gitMissTTL has passed
\* since checkedAt.
Entry == [repo : Repo \cup {NoRepo}, id : Moment, branch : Moment, age : {"none", "young", "old"}]
Unknown == [repo |-> NoRepo, id |-> Nothing, branch |-> Nothing, age |-> "none"]

\* A worker: "check" is before entryFor, "restat" and "stat" are before the two
\* calls of statHead, "store" and "forget" before the entry is changed.
Job == [dir : Dir, repo : Repo \cup {NoRepo}, was : Moment, id : Moment, branch : Moment,
        at : {"check", "climb", "restat", "stat", "read", "store", "forget"}]

TypeOK ==
    /\ now \in 1 .. MaxChanges + 1
    /\ git \in [Repo -> GitStates] /\ headed \in SUBSET Repo
    /\ head \in [Repo -> 1 .. MaxChanges + 1]
    /\ torn \in SUBSET Repo
    /\ cwd \in SUBSET Dir /\ wedged \in SUBSET Dir
    /\ poll \in {"idle", "ring"}
    /\ wanted \in SUBSET Dir /\ waiting \in BOOLEAN /\ wake \in BOOLEAN
    /\ entries \in [Dir -> Entry]
    /\ inFlight \in SUBSET Dir
    /\ jobs \in SUBSET Job

Init ==
    /\ now = 1
    /\ git \in [Repo -> GitStates] /\ headed \in SUBSET Repo
    /\ head = [r \in Repo |-> 1] /\ torn = {}
    /\ cwd \in SUBSET Dir /\ wedged \in SUBSET Dir
    /\ poll = "idle" /\ wanted = {} /\ waiting = FALSE /\ wake = FALSE
    /\ entries = [d \in Dir |-> Unknown] /\ inFlight = {} /\ jobs = {}

-----------------------------------------------------------------------------
(* The poller's side.                                                      *)

\* want, under mu: a set nobody has taken is overwritten.
Want ==
    /\ poll = "idle"
    /\ wanted' = cwd /\ waiting' = TRUE
    /\ poll' = "ring"
    /\ UNCHANGED <<worldVars, wake, entries, inFlight, jobs>>

\* The doorbell: rung without blocking, and after the set is in the mailbox.
Ring ==
    /\ poll = "ring"
    /\ wake' = TRUE
    /\ poll' = "idle"
    /\ UNCHANGED <<worldVars, wanted, waiting, entries, inFlight, jobs>>

-----------------------------------------------------------------------------
(* The reader's goroutine.  Hearing the doorbell, taking the set and going   *)
(* through it are one action: the steps between touch the reader's own      *)
(* variables, or one directory each, and commute with everybody else's.     *)

\* A worker for d that has yet to look at anything.
NewJob(d) ==
    [dir |-> d, repo |-> NoRepo, was |-> Nothing, id |-> Nothing, branch |-> Nothing, at |-> "check"]

\* The doorbell may have rung for a set that is already taken.
TakeNothing ==
    /\ wake /\ ~ waiting
    /\ wake' = FALSE
    /\ UNCHANGED <<worldVars, poll, wanted, waiting, entries, inFlight, jobs>>

\* Mistake: a directory that has a worker is given another one.
TakeAndPassAll ==
    /\ wake /\ waiting
    /\ wake' = FALSE /\ wanted' = {} /\ waiting' = FALSE
    /\ entries' = [d \in Dir |-> IF d \in wanted THEN entries[d] ELSE Unknown]
    /\ jobs' = jobs \cup {NewJob(d) : d \in wanted}
    /\ inFlight' = inFlight \cup wanted
    /\ UNCHANGED <<worldVars, poll>>

\* Mistake: the pass waits for the directories that have a worker.
TakeAndPassWaiting ==
    /\ wake /\ waiting
    /\ wanted \cap inFlight = {}
    /\ wake' = FALSE /\ wanted' = {} /\ waiting' = FALSE
    /\ entries' = [d \in Dir |-> IF d \in wanted THEN entries[d] ELSE Unknown]
    /\ jobs' = jobs \cup {NewJob(d) : d \in wanted}
    /\ inFlight' = inFlight \cup wanted
    /\ UNCHANGED <<worldVars, poll>>

\* take, and pass over the set: every other directory is dropped (retain), and
\* each of the set gets a worker unless it has one (begin).
TakeAndPass ==
    /\ wake /\ waiting
    /\ wake' = FALSE /\ wanted' = {} /\ waiting' = FALSE
    /\ entries' = [d \in Dir |-> IF d \in wanted THEN entries[d] ELSE Unknown]
    /\ jobs' = jobs \cup {NewJob(d) : d \in wanted \ inFlight}
    /\ inFlight' = inFlight \cup wanted
    /\ UNCHANGED <<worldVars, poll>>

-----------------------------------------------------------------------------
(* A worker.                                                               *)

Become(j, k) == jobs' = (jobs \ {j}) \cup {k}

\* check returns and the worker's claim is dropped (done).
Leave(j) == jobs' = jobs \ {j} /\ inFlight' = inFlight \ {j.dir}

\* The steps that only read: all a worker keeps of them is its own.
Reads(j, k) == Become(j, k) /\ UNCHANGED <<worldVars, mailVars, entries, inFlight>>

\* The climb: the first .git on the way up decides, and an unusable one ends it.
\* Whether there is a HEAD behind it is not looked at.
FindGitDir(d) ==
    {Above[d][i] : i \in {n \in DOMAIN Above[d] :
                             /\ git[Above[d][n]] = "leads"
                             /\ \A k \in 1 .. n - 1 : git[Above[d][k]] = "absent"}}

\* check: a known repository is statted, a recent miss is believed, and
\* anything else is climbed for.
Believe(j) ==
    /\ j.at = "check"
    /\ entries[j.dir].repo = NoRepo /\ entries[j.dir].age = "young"
    /\ Leave(j)
    /\ UNCHANGED <<worldVars, mailVars, entries>>

Check(j) ==
    /\ j.at = "check"
    /\ LET prev == entries[j.dir]
       IN  IF prev.repo # NoRepo
             THEN Reads(j, [j EXCEPT !.at = "restat", !.repo = prev.repo, !.was = prev.id])
             ELSE prev.age # "young" /\ Reads(j, [j EXCEPT !.at = "climb"])

Climb(j) ==
    /\ j.at = "climb" /\ j.dir \notin wedged
    /\ \/ \E r \in FindGitDir(j.dir) : Reads(j, [j EXCEPT !.repo = r, !.at = "stat"])
       \/ FindGitDir(j.dir) = {} /\ Reads(j, [j EXCEPT !.at = "store"])

\* A known repository that has not moved is left alone; one whose HEAD is gone, or
\* was never there, is forgotten, and one that has moved is read.
Unmoved(j) ==
    /\ j.at = "restat" /\ j.dir \notin wedged
    /\ j.repo \in headed /\ head[j.repo] = j.was
    /\ Leave(j)
    /\ UNCHANGED <<worldVars, mailVars, entries>>

Restat(j) ==
    /\ j.at = "restat" /\ j.dir \notin wedged
    /\ IF j.repo \in headed
         THEN head[j.repo] # j.was /\ Reads(j, [j EXCEPT !.id = head[j.repo], !.at = "read"])
         ELSE Reads(j, [j EXCEPT !.at = "forget"])

\* A git directory just found; without a HEAD it is stored under no identity.
Stat(j) ==
    /\ j.at = "stat" /\ j.dir \notin wedged
    /\ Reads(j, IF j.repo \in headed THEN [j EXCEPT !.id = head[j.repo], !.at = "read"]
                               ELSE [j EXCEPT !.at = "store"])

\* What HEAD holds, as parseHead answers it: a torn line is no branch.
Held(r) == IF r \notin headed \/ r \in torn THEN Nothing ELSE head[r]

\* A read can fail although the stat did not, which leaves no branch.
Read(j) ==
    /\ j.at = "read" /\ j.dir \notin wedged
    /\ \E b \in {Held(j.repo), Nothing} : Reads(j, [j EXCEPT !.branch = b, !.at = "store"])

\* Mistake: HEAD is statted once more, after it was read.
StoreRestatted(j) ==
    /\ j.at = "store"
    /\ entries' = [entries EXCEPT ![j.dir] =
                      [repo |-> j.repo, branch |-> j.branch, age |-> "young",
                       id |-> IF j.repo = NoRepo THEN Nothing ELSE head[j.repo]]]
    /\ Leave(j)
    /\ UNCHANGED <<worldVars, mailVars>>

Store(j) ==
    /\ j.at = "store"
    /\ entries' = [entries EXCEPT ![j.dir] =
                      [repo |-> j.repo, id |-> j.id, branch |-> j.branch, age |-> "young"]]
    /\ Leave(j)
    /\ UNCHANGED <<worldVars, mailVars>>

Forget(j) ==
    /\ j.at = "forget"
    /\ entries' = [entries EXCEPT ![j.dir] = Unknown]
    /\ Leave(j)
    /\ UNCHANGED <<worldVars, mailVars>>

Work(j) ==
    \/ Believe(j) \/ Check(j) \/ Climb(j) \/ Unmoved(j) \/ Restat(j)
    \/ Stat(j) \/ Read(j) \/ Store(j) \/ Forget(j)

-----------------------------------------------------------------------------
(* The world.                                                              *)

Change ==
    /\ now <= MaxChanges
    /\ now' = now + 1
    /\ UNCHANGED <<mailVars, entries, inFlight, jobs>>

\* A checkout writes HEAD in place, or by a rename; until a write ends, HEAD is torn.
WriteHead(r, whole) ==
    /\ Change
    /\ r \in headed
    /\ head' = [head EXCEPT ![r] = now']
    /\ torn' = IF whole THEN torn \ {r} ELSE torn \cup {r}
    /\ UNCHANGED <<git, headed, cwd, wedged>>

\* A repository is made, removed, or damaged: its .git, the HEAD it leads to, or both.
ChangeGit(r, state, whole) ==
    /\ Change
    /\ git' = [git EXCEPT ![r] = state]
    /\ headed' = IF whole THEN headed \cup {r} ELSE headed \ {r}
    /\ <<git', headed'>> # <<git, headed>>
    /\ head' = [head EXCEPT ![r] = now']
    /\ torn' = torn \ {r}
    /\ UNCHANGED <<cwd, wedged>>

\* A pane changes directory, is opened or closed.
MovePanes(D) ==
    /\ Change
    /\ D # cwd
    /\ cwd' = D
    /\ UNCHANGED <<git, headed, head, torn, wedged>>

\* A mount stops answering, or answers again.
Wedge(d) ==
    /\ Change
    /\ wedged' = IF d \in wedged THEN wedged \ {d} ELSE wedged \cup {d}
    /\ UNCHANGED <<git, headed, head, torn, cwd>>

\* gitMissTTL has passed since a miss was stored.
Age(d) ==
    /\ entries[d].repo = NoRepo /\ entries[d].age = "young"
    /\ entries' = [entries EXCEPT ![d].age = "old"]
    /\ UNCHANGED <<worldVars, mailVars, inFlight, jobs>>

Next ==
    \/ Want \/ Ring \/ TakeNothing \/ TakeAndPass
    \/ \E d \in Dir : Age(d) \/ Wedge(d)
    \/ \E j \in jobs : Work(j)
    \/ \E r \in Repo, whole \in BOOLEAN :
           WriteHead(r, whole) \/ \E state \in GitStates : ChangeGit(r, state, whole)
    \/ \E D \in SUBSET Dir : MovePanes(D)

\* The poller polls, goroutines that can run do run, and time passes.  A worker
\* whose mount is wedged cannot run, and nothing has to happen to the world.
WorkOn(d) == \E j \in jobs : j.dir = d /\ Work(j)
Fairness ==
    /\ WF_vars(Want) /\ WF_vars(Ring)
    /\ WF_vars(TakeNothing) /\ WF_vars(TakeAndPass)
    /\ \A d \in Dir : WF_vars(Age(d)) /\ WF_vars(WorkOn(d))

Spec == Init /\ [][Next]_vars /\ Fairness

-----------------------------------------------------------------------------
(* Properties.                                                             *)

\* An entry under HEAD's present identity, which the next pass will not read
\* again, shows what HEAD holds or nothing: a branch that is not HEAD's is never
\* believed, however long the worker was held up between its stat and its read.
BranchIsCurrent ==
    \A d \in Dir :
        LET e == entries[d]
        IN  e.repo \in headed /\ e.id = head[e.repo] =>
                e.branch \in {Held(e.repo), Nothing}

\* A directory's answer is never replaced by an older one of the same
\* repository, also by a worker that hung while others would have passed it.
NewerOnly ==
    \A d \in Dir :
        entries[d].repo # NoRepo /\ entries'[d].repo = entries[d].repo =>
            /\ entries'[d].id >= entries[d].id
            /\ entries'[d].branch \in {Nothing} \cup entries[d].branch .. now
NeverOlder == [][NewerOnly]_vars

\* Once the world is quiet every directory comes to rest whatever is wedged
\* beside it: a pane's shows the HEAD of the repository that was found for it,
\* or that there is none, and a directory without a pane is not kept.  A git
\* directory without a HEAD is found, stored and forgotten for ever; what its
\* panes show of it is nothing, throughout.
Settled(d) ==
    LET e == entries[d]
    IN  IF d \notin cwd THEN e.age = "none"
        ELSE \/ d \in wedged
             \/ e.repo \in headed /\ e.id = head[e.repo]
             \/ e.age # "none" /\ e.repo = NoRepo /\ FindGitDir(d) = {}
             \/ e.branch = Nothing /\ FindGitDir(d) # {} /\ FindGitDir(d) \cap headed = {}
BranchesSettle == \A d \in Dir : <>[]Settled(d)

-----------------------------------------------------------------------------
(* The inductive invariant the proofs in GitReaderProofs rest on.          *)

\* A branch that was read under an identity statted before it.
ReadAfterStat(r, id, branch) ==
    /\ id <= head[r] /\ branch <= head[r]
    /\ branch = Nothing \/ id <= branch
    /\ branch = head[r] => r \notin torn

EntriesAreTrue ==
    \A d \in Dir : entries[d].repo # NoRepo =>
        ReadAfterStat(entries[d].repo, entries[d].id, entries[d].branch)

JobsAreTrue ==
    \A j \in jobs :
        /\ j.at \in {"restat", "stat", "read", "forget"} => j.repo # NoRepo
        /\ j.repo # NoRepo => ReadAfterStat(j.repo, j.id, j.branch)
        /\ j.at # "store" => j.branch = Nothing
        /\ j.at \notin {"read", "store"} => j.id = Nothing

\* A directory has one worker, and only that one changes its entry, except that
\* a pass may drop it and a miss gets old.
OneWorker ==
    /\ \A j \in jobs : j.dir \in inFlight
    /\ \A j, k \in jobs : j.dir = k.dir => j = k

WorkersLead ==
    \A j \in jobs :
        LET e == entries[j.dir]
        IN  e.repo # NoRepo =>
                /\ j.at \notin {"climb", "stat"}
                /\ j.at # "check" => j.repo = e.repo
                /\ j.at \in {"read", "store"} => e.id <= j.id /\ e.branch <= j.id

HeadsArePast == \A r \in Repo : head[r] <= now

IInv ==
    TypeOK /\ HeadsArePast /\ EntriesAreTrue /\ JobsAreTrue /\ OneWorker /\ WorkersLead

=============================================================================
