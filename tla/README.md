# A verification of tmux-web in TLA+

tmux-web is one Go daemon that serves a tmux server to browsers: a sidebar of
panes that says which coding agent is working, waiting or done, and a terminal
per browser tab. This directory holds TLA+ models of the parts of it where
goroutines, processes, failing writes and unreliable observations meet, the TLC
runs that check them on small instances, and TLAPS proofs of what matters most
for every instance. Source paths below are relative to the repository.

## 1. The system and its components

| Component | Source | State it keeps | Operations | Hard because | What makes it correct |
|---|---|---|---|---|---|
| Device store | `internal/auth/store.go` | the map of enrolled devices, `devices.json` | `AddDevice`, `Touch`, `Revoke`, `OpenStore` | each persist may fail; each replaces the whole file | memory and file agree |
| Registry | `internal/front/registry.go` | live sockets by device, the revoked fence, handles | `Add`, its `remove`, `CloseDevice`, `fire` | closers run outside the lock, after a later registration | holds exactly the open sockets |
| Authentication, revocation | `internal/auth/auth.go`, `internal/front/server.go` | `touched`, requests in flight | `protect`, `touch`, `trackDevice`, `revokeDevice`, `SeverRevokedDevices` | authenticate, then register; store, then sweep | a revoked device keeps no terminal and does not come back |
| Enrolment links | `internal/auth/enroll.go` | pending links, failure times | `Mint`, `Redeem`, housekeeping, limiter | failing persist, floods, restart, window edges | single use, never lost, limiter spares good links |
| Daemon lifecycle | `internal/auth/adminsock.go`, `front.Serve` | socket file, port, store in memory | start, take over a stale socket, stop, die | several processes around three shared resources | one daemon, reachable, no device lost |
| Snapshot poller | `internal/tmux/poller.go`, `internal/front/manage.go` | `latest`, `err`, `pending`, `force` | `Start`, `refresh`, `PollNow` | callers coalesce on one loop; tmux hangs; shutdown | a caller sees its own change, nobody waits for ever |
| Agent state | `poller.go` (`classify`), `reports.go`, `state.go` | per pane: report memory, classifier entry, row | `Reports.*`, `Classifier.*`, `classify` | two authorities, late and lost reports, lost captures, restarts | the right authority decides; no finish is made up |
| Report writer | `cmd/tmux-web/report.go`, `internal/report` | the pane's `@tmux_web_agent` option | edge, re-assertion | read, compare, write across processes | a rest that was seen is not dated again |
| Integrations | `internal/integrations/queue.ts`, `pi.ts` | a one-slot queue, the claim of the one reporter | enqueue, spawn, settle | two copies, late children | newest state stands, one reporter |
| Installer | `cmd/tmux-web/install.go` | owned files, the user's `settings.json` | plan, confirm, write each, remove | several files, other runs, edits by the user, death half way | the user's own stays; done is done |
| Terminal sessions | `internal/front/ws.go`, `internal/ptybridge`, `internal/tmux/session.go` | three loops per socket, output channel, acknowledgements | attach, pump, close, sweep | first loop to end ends the others; overflow | no leak, no wedge, output without gaps, the right pane |
| Browser transport | `web/src/lib/transport.ts` | journal of unconfirmed input, the orphan of a dead socket | send, trim, rescue, settle | reconnects, a capped journal, lost acknowledgements | no key vanishes silently; a replay is whole |
| Browser snapshot, badges | `web/src/lib/useSnapshot.ts`, `tabBadge.ts` | seen marks by server generation, timers, a pending wake | poll, wake, mark | torn reads of rows and generation, another tab, slow requests | no finish is swallowed; a wake polls |
| Git branch reader | `internal/tmux/git.go` | branch cache, mailbox, a worker per directory | `Observe`, pass, work, retain | wedged directories, late answers, `HEAD` replaced between stat and read | an answer is true and never older |
| tmux client, parsing | `internal/tmux/client.go`, `snapshot.go`, `target.go`, `livestate.go` | none | one command, one parse | - | - |
| Management verbs | `internal/front/manage.go`, `internal/tmux/manage.go` | none | a tmux command, then `settle` | the poll must follow the command | see the poller |
| Grammars, capture, pane verbs, CLI, assets, UI | see `PROJECT.json` | none, or files | pure, sequential or rendering | - | - |

Interactions. Every HTTP request passes `protect`, which reads the store and
sometimes writes it. A terminal socket registers in the registry; the registry's
`Live` tells the poller whether anybody watches, which turns captures on. A
management request runs a tmux command and asks the poller for a forced poll.
A poll reads rows, reports and the server's generation in one tmux command, then
captures panes, and publishes rows that the browsers fetch; the directories of the
panes go to the branch reader, whose answers join the rows of a later poll. An
agent's hooks or its integration, which the installer has put in place, start report
processes, and these write the option that polls read. A browser tab's keys go down
its own socket into its own tmux client, and acknowledgements come back. The command
line talks to the daemon over the admin socket, which also keeps a second daemon out.

`PROJECT.json` lists the components with their status and, under `hazards`, what
can go wrong at which line and which property watches it.

## 2. The models

| Module | Models | Extends |
|---|---|---|
| `Devices` | the set of devices | |
| `Filter` | a loop that keeps some elements of a list | |
| `DeviceStore` | the store; every mutation carries whether its persist succeeded | `Devices` |
| `Registry` | the registry with its fence and handles | `Devices` |
| `Revocation` | requests, sockets, revocations and restarts over both | `DeviceStore`, `Registry` |
| `DaemonStart` | several daemons around socket, port and device file | `Devices` |
| `Enrollment` | links and limiter | `Filter` |
| `ForcedPoll` | the promise of `PollNow`, abstractly | |
| `Poller` | the poll loop, the ticker, batches of callers; implements `ForcedPoll` | |
| `Classifier` | `Classifier.Observe` and its finish stamp, for one pane | |
| `Reports` | the ordering filter and evidence rules 1 to 3, for one pane | |
| `AgentState` | `refresh` and `classify` over both, with the agent, its screen and option, browsers, tmux and daemon restarts | `Classifier`, `Reports` |
| `ReportWriter` | events, the table that gives them a meaning, the claim and the queue of an integration, report processes, and the daemon that reads | `Reports` |
| `GitReader` | mailbox, doorbell, passes and one worker per directory, over a disk that changes and hangs | |
| `Terminal` | one socket: three loops, the pump, the bounded channels, the tmux client, teardown | |
| `TypedInput` | what is typed into one tab, across its sockets: journal, acknowledgements, rescue and replay | |
| `SeenMarks` | published rows, the handler's separate reads, a tab's polling loop and its seen marks, another tab | |
| `Installer` | runs of `install-integration` for claude beside each other and the user | `Filter` |

`MC*.tla` give the constants values, `*Proofs.tla` hold the theorems: one module per
model, but `CommandProofs` for `DaemonStart`, `Enrollment` and `Installer`, and
`BrowserProofs` for `TypedInput` and `SeenMarks`. An operator
whose comment begins with "Mistake:" is a plausible bug of the code it stands
beside; no specification uses it. `PROJECT.json` names for each property the
mistake that breaks it.

### How state and actions correspond to the code

- *Granularity.* What runs under one mutex, or on one goroutine without touching
  shared state in between, is one action. Points between locks are program
  counters: `touch` between its throttle and its write, `revokeDevice` between
  store and registry, `PollNow` between the lock and the send, `refresh` between
  tmux's answer and its publication, `listenAdmin` between its system calls.
- *Revocation.* `Protect` is the cookie lookup, `TouchThrottled / TouchMarks /
  TouchWrites` the halves of `Auth.touch`, `TrackRegistered / TrackRefused`
  `Registry.Add` under `trackDevice`, `RevokeStored` then `Sweep` the two halves
  of a revocation (the admin route answers between them, the browser's after).
  `Restart` discards everything but the file.
- *Poller.* A batch is named by the caller that opened it; `force` is the channel
  of capacity one; the tmux tree is a counter of its changes, so a snapshot is how
  much of the history it has seen. `Answer` maps each caller to `ForcedPoll`.
- *DaemonStart.* `Open` reads the file (`newDaemon`), then `InspectAbsent`,
  `DialInUse`, `DialRefused`, `RemoveStale` are `clearStaleSocket`, `Bind` and
  `Listen` the two system calls inside `net.Listen`, `Chmod`, `BindPort`, and
  `Stop / Close / Kill` the two ways to end. A persist writes the whole memory.
- *Enrollment.* `Redeem` has one action per outcome. `log` has the time of every failed
  redemption of this process, beside the capped list the code keeps (`failures`), so
  that the limiter can be compared with what really happened. The prunings of the
  list (`RecentInclusive`, `Recent`) are `Those` of `Filter`, as is the installer's
  choice of the entries that are its own.
- *AgentState.* One `Poll(lost)` is one `refresh`; `lost` names what this poll did
  not get: the generation block, the report block, or the capture. `Restarted`,
  `EntryKept` and `MemoryKept` are the resets before `classify`; `NoAgent`,
  `Trusted`, `Checked`, `Unknown` and `Classified` are its branches, each with the
  two `Retain` calls that end the function folded in. `Repaint` is a change of
  its screen, `Interval` lets the ticker fire over the agent, and a poll may come between
  two ticks, forced or late (`since`). `Stamp` and `Land` are a report that is dated and, later, in any order
  or never, written.
- *ReportWriter.* `Load` runs `Claim` once per copy. `Emit` is an event of the agent:
  a claude hook starts its process, a runtime's copy pushes to its queue. `NewReport`
  stamps at the process's start, `ReadStanding` is `reassertedStamp`, `Write` the
  `set -p`, `Die` a kill or `reportTimeout`; each ends in `Settle`, the queue's
  callback. The daemon's half is `Recall` of `Reports`, the same operator that
  `AgentState` uses.
- *GitReader.* `Observe` is `Want` and then `Ring`; the loop takes the mailbox and
  passes in one step, under the lock. A worker is its program counter (`check`,
  `restat`, `climb`, `stat`, `read`, `store`, `forget`), one step per call that may
  hang; the disk changes between any two. A repository's `.git` (`git`: absent, unusable
  or leading to a `HEAD`'s path) and the `HEAD` there (`headed`) come and go separately:
  `climb` finds the one and `stat` may miss the other.
- *Terminal.* `ReadLoop`, `WriteLoop`, `PingLoop`, `Bridge` (pump and `Close`) and
  `Serve` group the steps of one goroutine each. A queue that is full is a guard;
  the one non-blocking send (`wsAck`) is a disjunct that drops.
- *TypedInput.* `Open`, `Stop`, `Type`, `Click`, `Wake`, `Receive`, `SocketDies`
  and `MarkGone` are the handlers of `Terminal.tsx`; `Send`, `NoteAck` and the journal
  are `transport.ts`; `ReadFrame` is the daemon's read loop. `Safe` is the condition
  under which `#settleOrphan` replays.
- *SeenMarks.* `ReadLatest` and `ReadStart` are the handler's reads on either side of
  a poll; `Schedule`, `Poll`, `Fire`, `Show`, `Succeed`, `Fail` the methods of
  `SnapshotPoller`; `Look` is a render with `useSeenPanes`. `other` is a tab that is
  always up to date.
- *Installer.* `Check` plans the owned files one by one, `PlanSettings` merges,
  `Confirm` asks, `ApplyFile` and `ApplySettings` are one atomic write each, `Abandon`
  a failed write or a kill. `Disturb` bookkeeps whether somebody who wants something
  else has written since a run began; a run that has not begun is not disturbed.

## 3. The runs

| Run | Question | Bounds | States |
|---|---|---|---|
| `revocation` | store, registry and requests race with failing writes and restarts; after a 204 the shell is closed | 2 devices, 3 requests | 149,704 |
| `poller` | coalescing, freshness, refinement of `ForcedPoll`, every caller answered, changes seen | 2 callers, 1 change | 83,354 |
| `daemon_start` | daemons one at a time, also against a serving one | 3 daemons, 2 devices | 396 |
| `enrollment` | links and limiter under floods | 2 links, 4 ticks, 3 failures a tick | 406,051 |
| `agent` | authority, evidence, finish and badge | 2 images, with and without a dialog; 4 intervals, 2 reports, 1 disturbance | 1,831,879 |
| `report_writer` | one reporter, the newest event stands, a rest is dated once | 3 agents, 2 copies, 6 events, 1 report that dies | 1,236,195 |
| `git_reader` | branches are true, never older, and settle | 2 directories, 2 nested repositories, 2 changes | 858,611 |
| `terminal` | output, the pane a tab lands on, teardown | every channel of 1, 2 keys and 2 pieces of output, any three of the four | 818,394 |
| `typed_input` | no key vanishes, replays are whole | 3 keys, 3 sockets, a journal of 2, 2 frames under way | 2,900,879 |
| `seen_marks` | no finish swallowed, a wake polls | 1 pane id, 2 tmux servers, 2 finishes, 2 tabs | 947,302 |
| `installer` | the user's own stays, done is done | 3 runs, 2 versions, 2 files, 2 events, 2 edits | 3,625,410 |
| `terminal_slow` (violation) | a tab that does not keep up reconnects | as `terminal`, no keys | |

Why the bounds are enough to be interesting.

- `revocation`: the race needs one socket and one revocation; the third request is
  a second socket of the device, a second revocation of it, or the write that would
  bring it back. The other device makes mistaken identity visible.
- `poller`: one batch is being served and another opened, or one is shared. One
  change of the tree tells a poll begun before it from one after. Liveness costs the
  third caller, who would try to make a third batch; the safety properties are proved
  for any number of callers.
- `daemon_start`: one daemon serves, one starts against it, one has died and left a
  file. The run is small because `Serial` orders the starts; section 4 says what
  happens without it.
- `enrollment`: a link lives 3 ticks and the limiter's window is 2 with a cap of 2,
  so it can trip, subside and trip again within one link's life.
- `agent`: the code's own `settleAfter` (2), `NIdle` (4) and `NBlocked` (3), with the
  clock counted in poll intervals. Four polls fit the longest
  window, and also a first sight, a change and the two settled captures that stamp a
  finish.
  `WorkingTTL` and `Dwell` are shrunk to 2 and 3 intervals (40 and 10 in the code):
  the expiry of a working report happens in the run, a second finish beyond the
  dwell does not, and nothing is claimed of the dwell. A disturbance is a forced,
  late or failed poll, a lost block or capture, a disconnect, an exit of the agent, an
  unset option or a restart of tmux or the daemon. One of them anywhere in the run already
  yields every broken window, and one forced poll a finish that was not earned
  (section 4, item 5); the proofs hold for any number.
- `report_writer`: six events make two turns with a re-assertion after each, or three
  reports in flight at once; one that dies may be the newest, or the one a queue waits
  for. The two copies have different schemas and load in either order.
- `git_reader`: the second directory's repository lies inside the first's, so that one
  directory has two candidates; two changes replace a `HEAD` under a worker and again
  under its successor, or remove the repository that was found, or its `HEAD` alone. The constraint leaves the
  outer repository whole, for the climb to end at, and takes no `.git` of the inner for
  unusable while there is a `HEAD` beside it.
- `terminal`: with every channel of length one, each is full as soon as it is used. The
  second key finds tmux's pty full, so that the read loop parks in `sess.Write`, also
  under a client that is still attaching. The
  constraint `MCBound` says when the environment may act: panes die before the tab is
  attached, drawing and typing begin after it has asked where it is, and pings fall on
  a browser that has stopped reading. The proofs have no such constraint.
- `typed_input`: the third key overflows the journal of two, and a third socket sees
  what the second rescued from the first and could not settle. The constraint lets a tab
  be pointed elsewhere (`Stop`) while it is ready or holds something of the user's, with a
  socket left to open.
- `seen_marks`: two servers number their panes alike, and the second finish may be of
  either. The second tab is up to date at every moment, which is where it can do most.
- `installer`: two runs can interleave while a third, of another version or the other
  way, came before or comes after; the two edits put a file of the user's in our place
  and change his hooks.

Symmetry is used over daemons and devices, links, images and runs of the installer,
and never in a run with a liveness property; there (`revocation`, `poller`) an action
constraint names the alike requests or callers in the order in which they come up.
Deadlock is checked where the system has no proper end (`revocation`, `daemon_start`,
`enrollment`, `seen_marks`); the others stop when a daemon, a socket or a command has
ended, or the bounds are used up.

The type invariants are theorems, not properties of the runs: TLC's time goes to what
could be wrong. So are the inductive invariants of section 5. Each of the four that the
latest proofs rest on (`EnrollInv`, `InstallInv`, `TypedInv`, `SeenInv`), put into its
run's cfg, holds on that instance, too.

### Fairness

Four modules have it. In `Revocation`, goroutines that can run do run (weak
fairness of each request's own steps and of each closer); nobody has to connect, hang
up, revoke or crash. In `Poller`, a poll in progress ends, because `refresh` runs
under a deadline (`pollTimeout`); the cases of the loop's `select` have strong
fairness, because Go picks at random among the ready ones; the ticker ticks. Nobody
has to start or cancel the daemon, no caller's own deadline has to expire. In
`GitReader`, the poller keeps polling (it wants and rings), the loop takes what it is
handed, misses grow old with the clock, and a worker whose directory is not wedged
gets on; nothing has to change, and a wedged directory may stay so. In `Terminal`, each
goroutine runs and a call that is bounded by a timeout returns or times out. Neither
the browser nor tmux owes anything: one may be stuck or gone, the other may never attach
and never read its pty.

### What the properties say

- `NoSurvivor`, `ShellIsClosed`: once a revocation is answered 204 and over, each
  terminal of the device is being closed, and in the end none is left, also one that
  had authenticated before and registered after the sweep. `RevocationIsStored`,
  `RevokedStaysRevoked`: no restart and no late last-seen write undoes it.
- `SettledIsFresh`, `PromiseKept`: a caller told its poll has happened finds a
  snapshot read after its own change, or an error. `BurstsCoalesce`: a burst costs a
  poll or two. `CallersReturn`, `ChangesAreSeen`: liveness.
- `OneDaemon`, `AdminReachable`, `FileIsTrue`: one daemon is up, the command line
  reaches that one, and the file is what was enrolled and not revoked.
- `SingleUse`, `GoodLinksArePending`, `LimiterCountsTheWindow`,
  `LimiterSparesGoodLinks`.
- `EventsAreCurrent`: a report that decides a row is the newest read and newer than
  every one overturned. `SilentBlockEnds`: a reported blocked does not outlive three
  captures without a form. `DialogIsShown`: a captured dialog shows as blocked whoever
  decides, but under a reported idle being verified or falling on that capture.
  `FinishIsEarned`: a finish is stamped only after a change seen in this very watch, for
  an agent that has paused before each of the last two polls, unless one of the polls
  since it last worked through came early: `paced` counts polls in a row that came an
  interval or more after the one before, `calm` polls in a row that a pause preceded, and
  `paced <= calm`. `BadgeIsEarned`: under a browser, a report lights the badge only after
  such pauses.
- `OneReporter`, `NewestEventStands`: whichever copy loads first, one with the newest
  schema reports; and when its queue is empty, option and daemon say what the newest
  event said, unless that very report died. `RestIsDatedOnce`: once the daemon has a
  rest from the event that ended the turn, no re-assertion of the same rest gives it a
  new date, so a badge that was seen does not come back.
- `BranchIsCurrent`: an entry under `HEAD`'s present identity, which no pass reads
  again, shows what `HEAD` holds or nothing. `NeverOlder`: no worker, however long it
  hung, replaces an answer by an older one. `BranchesSettle`: in a quiet world each
  directory that is not wedged comes to rest on the truth, beside those that are -- or,
  where a `.git` is found and no `HEAD` behind it, on showing nothing while it is searched
  for again for ever (section 4).
- `OutputIntact`: the browser has a gapless beginning of what tmux drew, all of it if it
  is told that the session ended (and the pump has not given up). `WhereFindsThePane`: a
  tab that asks for its pane before tmux has made the session lands there.
  `TeardownCompletes`: once any loop ends, everything does, unless the read loop stays
  parked for ever in a write to a pty that is full and that tmux does not read.
- `NoKeyIsLost`: a key typed into a ready tab has reached a pty, is held, has been given
  back, or was dropped: by the journal's cap, or by `stop()` (section 4, item 7). `ReplayIsWhole`: a socket's keys are in order, and
  a replay does not begin in the middle of what a socket lost.
- `NoFinishIsSwallowed`: a finish that is on screen and not announced is this pane's and
  one this browser has shown: it is not hidden by a later mark, by a mark of a dead
  server's pane or by another tab's, whatever was torn between the reads.
  `WakeIsHonoured`: a tab that came back during a request polls when that has settled.
- `UserKeepsHisOwn`: files and hook entries that are not tmux-web's are as the user left
  them. `DoneIsDone`: a run that ends well has left what it was asked for, entire, and
  settings that can be read, unless somebody who wants something else wrote meanwhile.

`FinishIsEarned` is about the screen: an agent that pauses with the model while its
screen rests is indistinguishable from one that has finished, and the code says so.

## 4. Where code and documentation disagree

The first is a run of the project. The others are reproduced by a change of a cfg, as
noted; they hold of the code as it is, and the properties above are stated around them.

1. *A slow tab is ended, not reconnected* (run `terminal_slow`). `pump` closes a session
   whose channel is full; `wsWriteLoop` finds the channel closed and reports a session
   that ended, the socket is closed with 1000, and the browser does not reconnect after
   1000 (`Terminal.tsx:222-224`). The comment at `session.go:160-161` says that it does.
2. *Two daemons* (`Serial = FALSE` in `MCDaemonStart.cfg`, `OneDaemon`). `net.Listen`
   binds before it listens. A second start that dials in between is refused by a live
   daemon's socket, removes it and binds its own: the two daemons the comment at
   `adminsock.go:142-145` rules out. The first is then out of the command line's reach
   (`AdminReachable`).
3. *A stale store* (likewise, `FileIsTrue`). `newDaemon` reads `devices.json` before
   `ListenAdmin` decides who may run. A start that overtakes the old daemon's end serves
   a stale store.
4. *An interrupted window* (`DropsHaveChurned` in `MCAgentState.cfg`, with `MaxTime = 5`
   and `MaxReports = 1`).
   `reports.go:127-131` says that rule 3 fires only after the screen has churned, so a
   wrongly dropped idle still gets its finish. `windowPolls` survives a failed capture
   or a disconnect and the classifier's entry does not, so a resting agent's idle can be
   dropped over a screen the classifier never saw move, and no finish is ever dated.
5. *Polls that come early* (`FinishAtAnyPace` in `MCAgentState.cfg`).
   `state.go:23-25` sizes `settleAfter` as about 3 seconds. `Observe` counts polls, and
   `settle` forces one after every management request: polls in one interval settle
   one picture of a busy agent and stamp a finish. `FinishIsEarned` and `BadgeIsEarned`
   hold with forced polls and say what is left of the pause.
6. *A replay into another pane* (`ReplayStaysOnItsPane` in `MCTypedInput.cfg`).
   `#rescue` files what a dead socket lost under the pane the tab is on then
   (`Terminal.tsx:1187`), not the one it was typed at; after a click that has not been
   confirmed the replay goes to the pane clicked. The comment at `Terminal.tsx:560-568`
   says that text is refused rather than misdirected when the tab has moved.
7. *Text that is dropped in silence* (`DroppedIsGivenBack` and `GoneIsGivenBack` there).
   When an open tab's session, url or paint changes, the effect's cleanup calls `stop()`
   (`Terminal.tsx:758-770`, `1608-1612`): the journal and an orphan that is held go with
   it, neither rescued nor handed back. `#markGone` likewise stops with what was rescued in
   its hands. The comments of `onLostInput` (`489-491`: "handed back as text so the user
   can have it rather than lose it"), of `#settleOrphan` (`1206`: "the old behaviour was to
   lose it silently") and of `#closed` promise otherwise.
8. *A finish announced twice* (`ShownStaysShown` in `MCSeenMarks.cfg`). `server.go:60-62`
   says that the generation "identifies the generation of the tmux server these rows
   came from". Rows and generation are read under separate locks; rows of one server
   under the next one's generation are announced again, though they were shown.
9. *The user's edit during the prompt* (`EditsMeanwhile = TRUE` in `MCInstaller.cfg`,
   `UserKeepsHisOwn`). The settings are merged when the run is planned and written after
   the user has said yes; what he writes meanwhile is overwritten, though rule 2 of
   `install.go` promises that his hooks come back as they were.

Smaller ones, met while modelling. One cancellation does not end the read loop while it
is parked in `sess.Write`, contra the comment at `ws.go:439-441`: if tmux never attaches or
never reads the pty again, `serve` waits for ever, which is the second disjunct of
`TeardownCompletes` (`ParkedInWrite`; without it TLC finds the wait). A `.git` that is found
and leads to no `HEAD` -- a `.git` directory without one, or a `gitdir:` pointer that
dangles, which `resolveGitDirPointer` does not check (`git.go:97-98`, `114-130`) -- is stored
without an identity (`45-53`), forgotten by the next pass, whose stat fails (`394-401`), and
climbed for again, pass after pass: it is never cached as a miss, as no repository is.
The read loop's error on a dead pty can win over "session ended", so that a tab
reconnects after `exit`. A re-assertion that finds no standing report is dated now, contra the comment on
`reassertedStamp`. A failed read of `HEAD` after a good stat stores no branch under a
live identity until `HEAD` moves. The toast of a hand-back says that the text never
reached tmux, also of bytes that did and whose acknowledgement was lost. By reading
only, for the sweep is not modelled: `Serve` sweeps before it asks for the admin socket
(`server.go:901`, then `ListenAdmin`), so a second start that is about to be refused
kills a session of the serving daemon that has no client yet, although
`session.go:49-54` tolerates the race "only because the sole caller is startup, when no
app session is attaching".

## 5. The proofs

TLAPS checks every theorem for all values of the constants, under their named
assumptions only. Each safety proof is an invariant `IInv`, stated at the end of its
module, with `Init => IInv`, one lemma per conjunct (or per group of actions) for
the step, and the consequences.

- `RevocationProofs`: `StoreMatchesFile`, `RegistryExact`, `NoSurvivor`,
  `RevocationIsStored`, `RevokedStaysRevoked`, for any devices and requests.
  `NoSurvivor` is not inductive: it needs the registry to hold exactly the open
  sockets, so that a sweep finds all of them; the fence that `CloseDevice` leaves for
  those on their way; and that nobody authenticates as the device again.
- `PollerProofs`: `SendNeverBlocks`, `SettledIsFresh`, `BurstsCoalesce`,
  `SnapshotNeverRegresses`, and that `Poller` implements `ForcedPoll`. The invariant
  follows each batch from its opener's hand through the channel to the loop's, and
  says that what is being read is recent enough for whom it serves.
- `CommandProofs`, of `DaemonStart`: `OneDaemon`, `AdminReachable`, `FileIsTrue` under
  the assumption `Serial`; types without it. Section 4 shows that the assumption is
  needed.
- `CommandProofs`, of `Enrollment`: `SingleUse`, `GoodLinksArePending`,
  `LimiterSparesGoodLinks`, and `LimiterCountsTheWindow`: for every window and limit the
  limiter refuses exactly as if it remembered all failures, though it keeps no more than
  its limit of them. The list is the newest part of the log (`ListIsNewest`), and it is
  either full or has dropped nothing that is still in the window; as time only grows
  along the log, pruning either drops a beginning of it, so the list that is pruned and
  capped is again the newest part.
- `CommandProofs`, of `Installer`: `UserKeepsHisOwn` under `~ EditsMeanwhile` (section 4
  shows why) and `DoneIsDone` without it, for any files, events, versions and runs.
  Merging keeps the user's entries in their order and leaves one entry of ours or none
  (`MergeFits`), from whatever list it starts; so a plan spares the user's own as long as
  he does not write under it (`PlansSpareHisOwn`), and is what was asked for whoever
  writes (`PlansAreAsAsked`). `DoneIsDone` needs to know of a run half way: what it has
  written, what it found absent, and the settings it will not write are as asked, unless
  it was disturbed (`HalfDone`).
- `BrowserProofs`, of `TypedInput`: `NoKeyIsLost`, `ReplayIsWhole`, for any keys, caps,
  panes and sockets. The invariant orders what is held, what the pty has taken and what
  is under way by the time of typing (`InOrder`, `RestIsUnderWay`); the journal is the
  newest part of it (`JournalIsNewest`), and its mark of truncation may be missing only
  if all it has dropped has reached the pty (`MarkIsTrue`). A replay then begins behind a
  gap only if the gap is on the same socket (`GapsAreMarked`).
- `BrowserProofs`, of `SeenMarks`: `NoFinishIsSwallowed`, `WakeIsHonoured`, for any panes,
  servers, finishes and tabs. The first is not inductive: a mark must be a finish that
  was on screen (`MarksWereShown`), a tab must have marked nothing later than it shows
  and show nothing later than what is on its way to it (`TabIsInOrder`), and what the
  daemon remembers must be the newest of all of it (`MemoryIsNewest`), so that a finish
  of the next server's pane is later than every mark of its namesake. The second needs
  that a tab has a timer or a request, never both.
- `AgentStateProofs`: `EventsAreCurrent`, `SilentBlockEnds`, `DialogIsShown` for any
  polls, `FinishIsEarned` and `BadgeIsEarned` among forced and late ones too. The
  invariant says that a report stands only with evidence to spare, that the memory holds
  the newest report read, that the classifier's entry is the last capture of an unbroken
  watch, and that what it counts as still the agent has rested through or a poll came
  early (`EntryIsWatched`): for a whole interval of work without a poll in it has left
  a repaint (`WorkIsDrawn`).
- `GitReaderProofs`: `BranchIsCurrent`, `NeverOlder`, for any directories and nesting
  of repositories. The first rests on one order, stat before read, so that a branch is
  never older than the identity it is stored under; the second on there being one
  worker per directory, whose stat is later than all that its predecessors stored.
- `TerminalProofs`: `OutputIntact`, `WhereFindsThePane`, for any capacities. The first
  keeps an account: what the browser has, what the write loop holds and what the
  channel holds follow each other without a gap and make up what the pump has read. The
  second rests on the order of two frames: while `where` is being answered, the
  `select` sent before it has been acted on.
- `ReportWriterProofs`: `OneReporter`, `NewestEventStands`, `RestIsDatedOnce`, for any copies,
  schemas and deaths. The newest event is in the queue, or else under way, or else in the option,
  and a queue's reports stamp one after the other, so the daemon's memory is never
  ahead of the option. That needs one report at a time: it is false of claude's hooks.
  `RestIsDatedOnce` holds of those too and has an invariant of its own (`DInv`): what
  was written or is about to be is dated in the order of its turns, and a re-assertion
  that reads a state finds one of its own turn or an earlier one, so the date it takes
  is not after the edge that ended the turn. It needs that the table re-asserts nothing
  but idle (`RulesAssumption`); `reassertsFor` would re-assert an unclassified blocked,
  too, and `checkRules` does not refuse it.

Only model-checked: `ShellIsClosed`, `CallersReturn`, `ChangesAreSeen`, `BranchesSettle`
and `TeardownCompletes`, because liveness is beyond the prover. Every safety property a
passing run checks is proved.

`Those`, the loop that filters a list, is a recursive function and not `SelectSeq`,
into which the provers cannot look. What it does to a list of any length is proved by
induction all the same. The library's induction theorems take an operator, which no
installed prover can give them; but where the cases for which a statement holds can be
named as a set of numbers (`NatSetInduction`) or of sequences (`SeqSetInduction`), it
follows from the least number outside that set (`Least`, from the well-foundedness of
the naturals). On it rest `ThoseAppend`, `ThoseConcat` and the rest of the lemmas with
which `CommandProofs` begins.

## 6. Abstractions and assumptions

- Revocation: the origin check, cookies and malformed requests change no state and
  are left out. The store write of `touch` and the marker's removal after a failed
  one are one step. The file is what a process crash leaves; power loss is not
  modelled (`persist` does not sync the directory).
- Poller: a poll may still run after a cancellation, which the code also allows in
  part; the model allows more. Which rows a poll reads is a version of the tree.
- DaemonStart: `Lstat` and the dial of `clearStaleSocket` are one step;
  development mode's two loopback addresses are one port; requests in flight during
  the shutdown's grace are served by a closing daemon; failing persists are left to
  `DeviceStore`. `Serial` is one systemd unit, or one user, starting one at a time; a
  start against a serving daemon remains possible.
- Enrollment: tokens are never minted twice. Time moves in ticks.
- AgentState: one pane, because panes share nothing but browsers and servers. Hashes
  do not collide. The dialog grammars are the picture's `form`; activity and question
  texts are left out; a value that does not parse is no report. Two reports never
  carry the same timestamp. A failed poll is an interval that passes with the tick
  unanswered. A busy agent repaints at least once an interval, as the classifier's
  comment says, but not between two polls of one interval. Any subset of the later blocks may be missing, more than tmux allows.
- ReportWriter: two stamps of one pane differ by a millisecond at least. Events of child
  sessions, which are refused, activity texts and foreign values in the claim's
  slot are left out. Both copies load before the first event.
- GitReader: `HEAD`'s identity is the moment of its last write; two writes within one
  mtime granule and of one length share an identity in the code and would not be told
  apart. An entry that hits is not searched for again, as in the code, so a repository
  that appears nested below the found one stays unseen. Finding a repository is one step.
  A `.git` file that is no pointer is "unusable".
- Terminal: resizing, the copy-mode messages and the startup sweep of stray sessions are
  left out.
- TypedInput: a key is a byte. What the terminal itself answers to tmux is left out. A
  probe's and a backoff's timer are a choice of when. What follows the closing of the
  tab is left out; what follows `stop()` in an open one is the same tab on its new session,
  whose panes bear the same names. The journal's cap is part of the
  promise: what it drops may vanish.
- SeenMarks: stamps are ordered by time and shared by all servers; a failed poll only
  changes the error text, and a 503 is a failed request. Two tabs that write their whole
  maps in turn lose marks: a seen finish may then reappear after a reload, which is
  allowed; a pane id of an ended server is still on screen when the next server's rows
  arrive, and marks that server's pane.
- Installer: claude only, since the other agents have owned files and no settings; an
  entry is ours as a whole when its command names our script, also where the user has
  put a hook of his own into the same matcher. Scopes, warnings and pi's validation are
  reasons to refuse. A foreign file that appears after the plan is overwritten
  (`EditsMeanwhile`). Nothing is said of file modes or symbolic links.
- Bounds in the guards: `MaxWorld` (changes of the tree), `MaxTime` (both clocks),
  `MaxFlood` (failures a tick), `MaxReports`, `MaxUpsets`, `MaxEvents`, `MaxFailures`,
  `MaxChanges` (of the disk), `MaxKeys`, `MaxOutput`, `MaxSockets`, `MaxFlight`,
  `MaxStamp`, `MaxServer`, `MaxEdits`. The theorems hold for every value of them.

## 7. What is not modelled, and the plan

Not modelled because nothing in it keeps state across steps, or it is text or
rendering: the tmux client and its parsing, the grammars of dialogs, the capture
endpoint, TLS and assets, the user interface.

The pane verbs of the command line (`control.go`) are not modelled either, though they
are worth it. Each is a snapshot followed by one or two tmux commands, so what can go
wrong lies between those: `display-message` failing after `new-window` says "nothing was
opened and nothing was run" of a window that was opened; the id of a window answers its
active pane, which may not be the one that was made; the mode that was read in the
snapshot may have changed when keys are sent; two typists merge their lines; a deadline
may strike after tmux has taken the command. Most of that is a property of tmux's
commands and not of a state the program keeps. Next, in this order:

1. `PaneVerbs`: those verbs against a tmux that other clients change between commands.
2. The rest of a terminal socket: resizing with its settling, the copy-mode messages and
   the startup sweep beside sockets that are attaching.
3. `TypedInput` over `Terminal`, in place of the daemon it abstracts, with a bound
   on what the pty may take twice.
4. More of `AgentState`: the dwell across a dropped entry, a finish the idle window
   stamps under a dialog, the memory lost with a missing report block; and
   `LiveState`'s two captures against the classifier's three.
5. Proofs that `Poller` and `Terminal` make progress in the sense that is within reach:
   for each step a fair action owes, that nothing but it can disable it.

Runs: `tlc -workers 2 -config X.cfg M`; proofs: `tlapm XProofs.tla`.
