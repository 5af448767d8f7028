------------------------------- MODULE Poller -------------------------------
(***************************************************************************)
(* The snapshot poller of internal/tmux/poller.go: one loop goroutine that *)
(* polls tmux on a ticker, and PollNow, by which a management request asks *)
(* that loop for a poll of its own and waits for it.                       *)
(*                                                                         *)
(* Callers coalesce into batches.  A batch is named here by the caller     *)
(* that opened it.  The tmux tree is abstracted to the number of times it  *)
(* has changed, so a snapshot is how much of that history it has seen; the *)
(* classification of agent panes inside a poll is not modelled here.       *)
(***************************************************************************)
EXTENDS Integers, Sequences

CONSTANTS
    Caller,     \* calls of PollNow, one goroutine each
    NoBatch,    \* the nil batch
    MaxWorld    \* bound on the changes of the tmux tree

ASSUME CallerAssumption == NoBatch \notin Caller
ASSUME WorldAssumption == MaxWorld \in Nat

Batch == Caller \cup {NoBatch}
Failed == -1    \* what a poll that failed has read
Version == 0 .. MaxWorld

\* Where the loop is: "new" before Start, "reading" inside the tmux command,
\* "publishing" before refresh stores its result, "closing" before a batch is
\* closed, "taken" between receiving a batch and clearing pending.
LoopPlaces == {"new", "reading", "publishing", "closing", "idle", "taken", "stopped"}
CallerPlaces == {"new", "acted", "send", "wait", "settled", "expired", "stopped"}

VARIABLES
    world,      \* how often the tmux tree has changed
    loop,       \* where the poll goroutine is
    got,        \* what the poll in progress has read, Failed until it has
    held,       \* the batch the poll in progress serves
    tick,       \* the ticker's channel: "unbuilt", "empty" or "due"
    latest,     \* Poller.latest
    err,        \* Poller.err is not nil
    pending,    \* Poller.pending
    force,      \* Poller.force, a channel of capacity one
    closed,     \* the batches the loop has closed
    loopDone,   \* Poller.loopDone is set: Start has been called
    ctxDone,    \* the loop's context is cancelled
    pc,         \* caller -> where it is
    asked,      \* caller -> the tree it acted on
    batch,      \* caller -> the batch it waits for
    done        \* caller -> whether it captured a loopDone that was set

pollVars == <<loop, got, held, tick, latest, err, closed>>
askVars == <<pc, asked, batch, done>>
vars == <<world, pollVars, pending, force, loopDone, ctxDone, askVars>>

TypeOK ==
    /\ world \in Version
    /\ loop \in LoopPlaces
    /\ got \in Version \cup {Failed}
    /\ held \in Batch
    /\ tick \in {"unbuilt", "empty", "due"}
    /\ latest \in Version
    /\ err \in BOOLEAN
    /\ pending \in Batch
    /\ force \in Seq(Caller)
    /\ closed \in SUBSET Caller
    /\ loopDone \in BOOLEAN
    /\ ctxDone \in BOOLEAN
    /\ pc \in [Caller -> CallerPlaces]
    /\ asked \in [Caller -> Version]
    /\ batch \in [Caller -> Batch]
    /\ done \in [Caller -> BOOLEAN]

Init ==
    /\ world = 0
    /\ loop = "new" /\ got = Failed /\ held = NoBatch /\ tick = "unbuilt"
    /\ latest = 0 /\ err = FALSE
    /\ pending = NoBatch /\ force = <<>> /\ closed = {}
    /\ loopDone = FALSE /\ ctxDone = FALSE
    /\ pc = [c \in Caller |-> "new"]
    /\ asked = [c \in Caller |-> 0]
    /\ batch = [c \in Caller |-> NoBatch]
    /\ done = [c \in Caller |-> FALSE]

Goto(c, place) == pc' = [pc EXCEPT ![c] = place]

-----------------------------------------------------------------------------
(* The loop.                                                               *)

\* Start publishes loopDone and polls once on the caller's own goroutine.
Start ==
    /\ loop = "new"
    /\ loopDone' = TRUE
    /\ loop' = "reading"
    /\ UNCHANGED <<world, got, held, tick, latest, err, closed, pending, force, ctxDone, askVars>>

\* Mistake: a poll without a deadline, which a wedged tmux parks.
ReadWithoutDeadline ==
    /\ loop = "reading"
    /\ got' = world
    /\ loop' \in {"publishing", "parked"}
    /\ UNCHANGED <<world, held, tick, latest, err, closed, pending, force, loopDone, ctxDone, askVars>>

\* refresh, first half: the tmux command, which fails or reads the tree.
ReadTree ==
    /\ loop = "reading"
    /\ got' \in {world, Failed}
    /\ loop' = "publishing"
    /\ UNCHANGED <<world, held, tick, latest, err, closed, pending, force, loopDone, ctxDone, askVars>>

\* Mistake: the rows are replaced on failure too.
PublishBlanking ==
    /\ loop = "publishing"
    /\ err' = (got = Failed)
    /\ latest' = got
    /\ loop' = IF held = NoBatch THEN "idle" ELSE "closing"
    /\ tick' = IF tick = "unbuilt" THEN "empty" ELSE tick
    /\ got' = Failed
    /\ UNCHANGED <<world, held, closed, pending, force, loopDone, ctxDone, askVars>>

\* Mistake: a failed poll leaves err alone.
PublishSilently ==
    /\ loop = "publishing"
    /\ err' = (err /\ got = Failed)
    /\ latest' = IF got = Failed THEN latest ELSE got
    /\ loop' = IF held = NoBatch THEN "idle" ELSE "closing"
    /\ tick' = IF tick = "unbuilt" THEN "empty" ELSE tick
    /\ got' = Failed
    /\ UNCHANGED <<world, held, closed, pending, force, loopDone, ctxDone, askVars>>

\* refresh, second half, under mu: a failed poll sets err and leaves the rows.
\* Start builds the ticker once its first poll has been published.
Publish ==
    /\ loop = "publishing"
    /\ err' = (got = Failed)
    /\ latest' = IF got = Failed THEN latest ELSE got
    /\ loop' = IF held = NoBatch THEN "idle" ELSE "closing"
    /\ tick' = IF tick = "unbuilt" THEN "empty" ELSE tick
    /\ got' = Failed
    /\ UNCHANGED <<world, held, closed, pending, force, loopDone, ctxDone, askVars>>

CloseBatch ==
    /\ loop = "closing"
    /\ closed' = closed \cup {held}
    /\ held' = NoBatch
    /\ loop' = "idle"
    /\ UNCHANGED <<world, got, tick, latest, err, pending, force, loopDone, ctxDone, askVars>>

\* The select: cancelled, a tick, or a batch.
Stop ==
    /\ loop = "idle"
    /\ ctxDone
    /\ loop' = "stopped"
    /\ UNCHANGED <<world, got, held, tick, latest, err, closed, pending, force, loopDone, ctxDone, askVars>>

\* Mistake: pending is cleared before every poll, not only before
\* that of a batch.
TakeTickAndClear ==
    /\ loop = "idle"
    /\ tick = "due"
    /\ tick' = "empty"
    /\ loop' = "reading"
    /\ pending' = NoBatch
    /\ UNCHANGED <<world, got, held, latest, err, closed, force, loopDone, ctxDone, askVars>>

TakeTick ==
    /\ loop = "idle"
    /\ tick = "due"
    /\ tick' = "empty"
    /\ loop' = "reading"
    /\ UNCHANGED <<world, got, held, latest, err, closed, pending, force, loopDone, ctxDone, askVars>>

TakeBatch ==
    /\ loop = "idle"
    /\ force # <<>>
    /\ held' = Head(force)
    /\ force' = Tail(force)
    /\ loop' = "taken"
    /\ UNCHANGED <<world, got, tick, latest, err, closed, pending, loopDone, ctxDone, askVars>>

\* Mistake: pending is cleared after the poll.
ClearPendingLate ==
    \/ /\ loop = "taken"
       /\ loop' = "reading"
       /\ UNCHANGED <<world, got, held, tick, latest, err, closed, pending, force, loopDone, ctxDone, askVars>>
    \/ /\ loop = "closing"
       /\ pending = held
       /\ pending' = NoBatch
       /\ UNCHANGED <<world, loop, got, held, tick, latest, err, closed, force, loopDone, ctxDone, askVars>>

\* pending is cleared before the poll: whoever asks from here on asked after
\* this poll was decided and opens a batch of their own.
ClearPending ==
    /\ loop = "taken"
    /\ pending' = NoBatch
    /\ loop' = "reading"
    /\ UNCHANGED <<world, got, held, tick, latest, err, closed, force, loopDone, ctxDone, askVars>>

\* The ticker drops a tick nobody has taken.
Tick ==
    /\ loop # "stopped"
    /\ tick = "empty"
    /\ tick' = "due"
    /\ UNCHANGED <<world, loop, got, held, latest, err, closed, pending, force, loopDone, ctxDone, askVars>>

-----------------------------------------------------------------------------
(* PollNow, as a management verb's settle calls it.                        *)

\* The verb itself, which changes the tree or fails; settle follows either way.
Act(c) ==
    /\ pc[c] = "new"
    /\ world' \in {world, world + 1} /\ world' <= MaxWorld
    /\ asked' = [asked EXCEPT ![c] = world']
    /\ Goto(c, "acted")
    /\ UNCHANGED <<pollVars, pending, force, loopDone, ctxDone, batch, done>>

\* Under fmu: join the pending batch, or open one.
Join(c) ==
    /\ pc[c] = "acted"
    /\ pending # NoBatch
    /\ batch' = [batch EXCEPT ![c] = pending]
    /\ done' = [done EXCEPT ![c] = loopDone]
    /\ Goto(c, "wait")
    /\ UNCHANGED <<world, pollVars, pending, force, loopDone, ctxDone, asked>>

\* Mistake: a caller opens a batch although one is pending.
OpenAlways(c) ==
    /\ pc[c] = "acted"
    /\ pending' = c
    /\ batch' = [batch EXCEPT ![c] = c]
    /\ done' = [done EXCEPT ![c] = loopDone]
    /\ Goto(c, "send")
    /\ UNCHANGED <<world, pollVars, force, loopDone, ctxDone, asked>>

OpenBatch(c) ==
    /\ pc[c] = "acted"
    /\ pending = NoBatch
    /\ pending' = c
    /\ batch' = [batch EXCEPT ![c] = c]
    /\ done' = [done EXCEPT ![c] = loopDone]
    /\ Goto(c, "send")
    /\ UNCHANGED <<world, pollVars, force, loopDone, ctxDone, asked>>

\* The opener hands its batch over, outside the lock.
Send(c) ==
    /\ pc[c] = "send"
    /\ Len(force) < 1
    /\ force' = Append(force, c)
    /\ Goto(c, "wait")
    /\ UNCHANGED <<world, pollVars, pending, loopDone, ctxDone, asked, batch, done>>

\* The select: the batch was closed, the caller's time is up, the loop stopped.
Settle(c) ==
    /\ pc[c] = "wait"
    /\ batch[c] \in closed
    /\ Goto(c, "settled")
    /\ UNCHANGED <<world, pollVars, pending, force, loopDone, ctxDone, asked, batch, done>>

Expire(c) ==
    /\ pc[c] = "wait"
    /\ Goto(c, "expired")
    /\ UNCHANGED <<world, pollVars, pending, force, loopDone, ctxDone, asked, batch, done>>

\* Mistake: a caller that joined a batch does not watch the loop's context.
OpenersFindStopped(c) ==
    /\ pc[c] = "wait"
    /\ done[c] /\ ctxDone
    /\ batch[c] = c
    /\ Goto(c, "stopped")
    /\ UNCHANGED <<world, pollVars, pending, force, loopDone, ctxDone, asked, batch, done>>

FindStopped(c) ==
    /\ pc[c] = "wait"
    /\ done[c] /\ ctxDone
    /\ Goto(c, "stopped")
    /\ UNCHANGED <<world, pollVars, pending, force, loopDone, ctxDone, asked, batch, done>>

-----------------------------------------------------------------------------
(* Around them: somebody else's change of the tree, and the daemon's end.  *)

Change ==
    /\ world < MaxWorld
    /\ world' = world + 1
    /\ UNCHANGED <<pollVars, pending, force, loopDone, ctxDone, askVars>>

Cancel ==
    /\ ~ ctxDone
    /\ ctxDone' = TRUE
    /\ UNCHANGED <<world, pollVars, pending, force, loopDone, askVars>>

Poll == Start \/ ReadTree \/ Publish \/ CloseBatch \/ Stop \/ TakeTick \/ TakeBatch \/ ClearPending

PollNow(c) ==
    Act(c) \/ Join(c) \/ OpenBatch(c) \/ Send(c) \/ Settle(c) \/ Expire(c) \/ FindStopped(c)

Next ==
    \/ Poll \/ Tick \/ Change \/ Cancel
    \/ \E c \in Caller : PollNow(c)

\* A poll ends, at its deadline if not before, and Go's select picks at random
\* among its ready cases, so none of them is passed over for ever.  Nobody has
\* to start or stop the daemon, and no caller's time has to run out.
Fairness ==
    /\ WF_vars(ReadTree) /\ WF_vars(Publish) /\ WF_vars(CloseBatch) /\ WF_vars(ClearPending)
    /\ SF_vars(Stop) /\ SF_vars(TakeTick) /\ SF_vars(TakeBatch)
    /\ WF_vars(Tick)
    /\ \A c \in Caller : /\ WF_vars(Join(c) \/ OpenBatch(c) \/ Send(c))
                         /\ WF_vars(Settle(c) \/ FindStopped(c))

Spec == Init /\ [][Next]_vars /\ Fairness

-----------------------------------------------------------------------------
(* Properties.                                                             *)

\* The opener's send finds room in the channel, so it never blocks ("enough
\* forever", says the comment on Poller.force).
SendNeverBlocks == \A c \in Caller : pc[c] = "send" => force = <<>>

\* A caller told that its poll has happened finds a snapshot read after its own
\* change of the tree, unless the poller says its last poll failed; a poll that
\* had begun before the caller asked never answers it.
SettledIsFresh ==
    \A c \in Caller : pc[c] = "settled" => latest >= asked[c] \/ err

\* The snapshot never goes back to an older tree, nor to none when a poll fails.
LatestAdvances == latest' >= latest
SnapshotNeverRegresses == [][LatestAdvances]_vars

\* Callers coalesce: whatever the burst, an unserved batch is the one being
\* served or the one that is pending, so there are two at most and a burst costs
\* a poll or two; no batch is forgotten.
Unserved == {c \in Caller : batch[c] = c} \ closed
BurstsCoalesce == Unserved \subseteq {pending, held}

\* Every caller of a poller that was started is answered, also if its own time
\* never runs out: no batch is lost, not to a cancelled loop either.
CallersReturn == \A c \in Caller : pc[c] = "wait" /\ done[c] ~> pc[c] # "wait"

\* A change of the tree reaches the snapshot, or the poller says it is failing.
ChangesAreSeen ==
    \A v \in Version : loop # "new" /\ world >= v ~> latest >= v \/ err \/ ctxDone

\* The poller implements the promise its callers rely on.
Answer(c) ==
    CASE pc[c] = "new" -> "none"
      [] pc[c] \in {"acted", "send", "wait"} -> "waiting"
      [] pc[c] = "settled" -> "settled"
      [] OTHER -> "refused"

Promise == INSTANCE ForcedPoll
             WITH failed <- err, answer <- [c \in Caller |-> Answer(c)]
PromiseKept == Promise!Spec

-----------------------------------------------------------------------------
(* The inductive invariant the proofs in PollerProofs rest on.             *)

\* Whose batch is where: the pending batch is its opener's to send, or in the
\* channel, or in the loop's hand until it clears pending; nowhere else.
Handover ==
    /\ \A c \in Caller : pc[c] = "send" => pending = c /\ force = <<>> /\ loop # "taken"
    /\ Len(force) <= 1
    /\ force # <<>> => pending = Head(force) /\ loop # "taken"
    /\ loop = "taken" => pending = held
    /\ loop \in {"taken", "closing"} => held # NoBatch
    /\ loop \in {"new", "idle", "stopped"} => held = NoBatch
    /\ held # NoBatch /\ loop # "taken" => pending # held
    /\ pending \notin closed

\* A caller that has not reached PollNow's lock is in no batch and names none.
Unbatched ==
    \A c \in Caller : pc[c] \in {"new", "acted"} =>
        /\ batch[c] = NoBatch
        /\ c \notin closed \cup {pending, held}
        /\ \A d \in Caller : batch[d] # c

\* Every batch that was opened is closed, or pending, or being served.
Accounted == \A c \in Caller : batch[c] = c => c \in closed \cup {pending, held}

\* Nothing is newer than the tree, and no poll in progress older than the last.
Ordered ==
    /\ latest <= world
    /\ got <= world
    /\ \A c \in Caller : asked[c] <= world
    /\ loop = "publishing" /\ got # Failed => latest <= got

\* What the poll in progress has read is recent enough for the batch it serves
\* and for every batch served before; what was published, for those closed.
Served(c) == batch[c] # NoBatch /\ batch[c] \in closed \cup {held}
Answered ==
    \A c \in Caller :
        /\ loop = "publishing" /\ Served(c) => got = Failed \/ asked[c] <= got
        /\ loop = "closing" /\ Served(c) => err \/ asked[c] <= latest
        /\ batch[c] \in closed => err \/ asked[c] <= latest
        /\ pc[c] = "settled" => batch[c] \in closed

IInv == TypeOK /\ Handover /\ Unbatched /\ Accounted /\ Ordered /\ Answered

=============================================================================
