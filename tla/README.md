# TLA+ models of Aileron

Aileron is a local daemon that carries out actions for an AI agent: it keeps
credentials in a vault, asks the user before an irreversible step, runs the
step in a sandbox and writes an audit trail.  This directory models the parts
of it whose correctness rests on the order of events: the approval queue and its
journal, the live list of pending approvals, the singleton daemon and its clients,
the runs of flight plans, intents and execution grants, credential bindings and
their vault, the installation of connectors and actions, and the tool surface an
agent's host sees.

## 1. Inventory

| Part | State it keeps | Operations | Hard behaviour |
|---|---|---|---|
| approval queue (`internal/approval`) | `pending`, `outcomes`, a decision channel per entry, subscribers | Register, Decide, SetRunning, SetCompleted, SetFailed, SetAwaitingVault, Wait, Load, Subscribe | appends outside the mutex; callers of three kinds |
| approval journal (`internal/approval/jsonl`) | `approvals.jsonl`, its own map | Append, Close with compaction, replay | torn and failed writes, restart |
| action handlers (`internal/app`) | executor goroutines, vault gate | RunAction, executeApprovedAction, respawn loop, UnlockLocalVault, comms sends | executors outlive the HTTP shutdown; crash between two records |
| daemon and discovery (`internal/daemon`, `internal/server`) | `daemon.lock`, `daemon.json`, recorded inode | Lock, Read, Write, Remove, Resolve, run, watchLockInode | lock by inode, path by name; deadlines; deferred order on exit |
| flight-plan runs (`internal/app/flightplan_runs.go`, `handlers_flightplans.go`) | registry of suspended runs: memo, approvals, audited seams | Launch, Resume, MergeOutputs, Put, Get, Delete, RecordApproval | overlapping calls, expiry, replays |
| flight-plan runtime (`internal/flightplan/runtime`) | the walk's outputs | execute, injectMemoized, suspendFor, dispatch, resolveInputs | re-walk from the top on each resume |
| intents, policy, grants (`internal/app/handlers.go`, `internal/approval/orchestrator.go`, `internal/policy`) | intents, approvals, single-use grants, executions | CreateIntent, ApproveRequest, DenyRequest, ModifyRequest, RunExecution, ExecutionCallback | read, check and write in separate store calls |
| vault (`internal/vault`) | the encrypted file, locked or not | Init, Unlock, Get, Put, Delete | file rewritten in place; unlock while others wait |
| credentials and OAuth (`internal/credential`, `handlers_bindings_oauth2.go`) | token envelopes, pending OAuth sessions | Resolve with refresh, Init, Finish, callback | concurrent refresh with a rotating token |
| key sessions (`internal/auth`) | cached keys with expiry | Set, Get, Clear, EvictExpired | a key copied outside the lock |
| sessions (`internal/sessions`) | journal of launches | Put, Close, replay with reaping | crash during a write |
| comms (`internal/comms`) | bounded queue of messages, listeners | Push, SetDraft, ApproveDraft, ClearDraft | dropped messages, callbacks outside the lock |
| connector store and keyring (`internal/cstore`, `cmd/aileron/keyring.go`) | tarballs by hash, `connectors.json` and its copy in memory, `keyring.json` | Install, LoadIndex, RebuildIndex, Verify, trust, revoke | three files without a common lock, two processes, crashes |
| action store (`internal/action`, `handlers_install_actions.go`, `handlers_sync.go`) | one manifest file per action, the loaded actions | InstallAction, Load, Sync | scans and writes outside the lock, files written in place |
| binding store (`internal/binding`, `handlers_bindings.go`) | bindings as vault entries with metadata | Setup, Rebind, Revoke, UpdateMetadata, the scope-drift hook | a read and a later write of the same entry |
| watch stream and approvals page (`handlers_action_approvals.go`, `webapp`) | a channel per stream, the page's cards | Subscribe, List, write, apply, decide, reconnect | events against snapshots, full channels, cancels |
| MCP server (`cmd/aileron-mcp`) | two tool caches, the frames on stdin and stdout | startup discovery, refresh, tools/list, tools/call | a poller beside the request loop; failed discoveries |

They interact through calls and shared state: a flight plan's approver registers
in the approval queue and its resume reads the outcome there; executors wait for
the vault's unlock; the daemon's `run` opens the journal, reaps it, starts the
handlers, and closes it on the way out; clients know the daemon only through
`daemon.json` and the lock; the install of a connector calls the drift hook of the
bindings; the MCP server lists what the action store and the flight-plan store hold,
and its calls become approvals, actions and runs; the page follows the queue.

Section 6 says what is not modelled and why.

### What makes each part correct

- Queue, journal and executors: nothing runs without the user's approval; an
  approved action is carried out, and not twice because of a restart; what is
  written as final stays final.
- Daemon: one daemon serves and `daemon.json` names it; a client ends, with a URL
  unless something went wrong; a daemon whose lock file was replaced leaves.
- Flight-plan runs: a gated step is dispatched only with consent, once; the user
  is asked once; a finished run cannot be resumed.
- Intents and grants: an approval is decided once, a grant is used once, and the
  intent's record agrees with both.
- Bindings and vault: the stored refresh token is one the provider accepts; a
  revocation and a stale mark last, through refreshes and restarts.
- Watch stream and page: a pending approval comes to be shown, and a decided one
  goes away.
- Installs: nothing refers to what is not in the store; what was reported installed
  stays known; memory agrees with disk; a revocation of trust holds.
- Tool surface: the host ends up with the tools the daemon has, and a call runs what
  was listed.

`PROJECT.json` lists the hazards behind these statements, line by line.

## 2. Modules

| Module | Models | Used by |
|---|---|---|
| `ActionApprovals` | queue, journal, executors, vault gate, crash, shutdown, restart | `MCActionApprovals`, `ActionApprovalsProofs` |
| `DaemonSingleton` | lock, discovery file, `run`, watcher, `Resolve` | `MCDaemonSingleton`, `DaemonSingletonProofs` |
| `FlightPlanRuns` | registry, handlers, walk, approver, seam audit of one run | `MCFlightPlanRuns`, `FlightPlanRunsProofs` |
| `SingleUsePermit` | abstract: a permit is issued once, each effect spends one, only a named fault issues it again | refined by `ActionApprovals` and `IntentGrants` |
| `IntentGrants` | policy, intents, approvals, grants, executions over the in-memory stores | `MCIntentGrants`, `IntentGrantsProofs` |
| `OAuthBindings` | file vault, binding store and handlers, OAuth sessions, resolver, scope-drift hook; the provider is external | `MCOAuthBindings`, `OAuthBindingsProofs` |
| `ApprovalWatch` | event fan-out, SSE handler, approvals page, browser | `MCApprovalWatch`, `ApprovalWatchProofs` |
| `Installs` | connector store and index, keyring, action files and store, sync, `aileron keyring` | `MCInstalls`, `InstallsProofs` |
| `ToolSurface` | MCP server: discovery, poller, request loop, wire; host and daemon are external | `MCToolSurface`, `ToolSurfaceProofs` |

Operators that a comment calls a *mutant* are the plausible slips that show a
property has teeth; no specification uses them.

### ActionApprovals

Each queue method changes the entry under `q.mu`, releases it, and appends the
record afterwards (`persistLocked`, which is not called with the lock).  So each
method is two actions, the second named after the append, and the model keeps the
in-memory outcome (`status`), the last readable record on disk (`disk`) and the
journal's map that `Close` compacts (`data`) apart.  A fault may lose an append or
tear it; a torn tail swallows the next record, as replay skips a line it cannot
parse.  The three kinds of caller are three sets of ids: `ActionIds` get an
executor goroutine, `CommsIds` one that never marks the entry running, `PlanIds`
none, their plan dispatches.  `Shutdown`, `CloseStore`, `Exit`, `Crash` and
`Restart` follow `run`: executors live on between the closing of the store and the
exit.  `Restart` is replay, reaping of running records, `Load` with the refilled
decision channel, and the respawn loop.

Abstracted: payloads, previews, the audit events, the subscribers.  Executors wait
for a verdict without a limit in the code too (a duration of centuries).

### DaemonSingleton

`flock` locks an inode and `daemon.lock` names one: inodes are numbered, `path` is
the one the name refers to, `holder` who has each one locked, `fd` what each
process has open.  Daemon steps follow `run`: open, lock with a 250 ms limit, stat
the inode, set up, publish, serve, and on the way out remove `daemon.json` and
release the lock.  Client steps follow `Resolve`: fast path, lock with a 2 s limit,
check again, fork, release, poll.  `RemoveStateDir` is an `rm -rf` by the user.

Timing: a lock wait times out only against a process that keeps the lock (`Kept`):
a client holds it for the time of a fork, far less than either limit.  The 30 s
limit of the client's poll may pass at any time.

### FlightPlanRuns

One run.  A handler goroutine launches or resumes it and walks the plan from its
first step with its own copy (`snap`) of the record's memo.  A walk injects
memoized steps, runs reads, suspends at an unfulfilled seam or a pending gated
action and then parks a record with the outputs it has (`memo' = out[h]`: a
replacement, not a union).  The approvals map and the audited-seams map are shared
by all copies of the record, as Go maps are.  The user decides entries at any
time.  Handlers of a run are not serialized, so any two interleave; the history
variable `overlap` records that two were at work at once.  The agent can resume once it
has been told the run id, which only a seam's response does.  A restart loses the
registry and the handlers and keeps the entries, and the respawn loop gives every entry
that is still open an executor of its own, a plan's entries included: it marks the
entry running and executes the action once the user has approved (`executed`), beside
whatever the run dispatches (`dispatched`).  `consented` remembers what the user approved.

Abstracted: values, the resolution of inputs, image verification (all of which
may fail: `Fails`), transforms (as reads).  A registry record that expires is
removed by the next call; the model removes it at any time.  The journal is taken as
whole here; its losses are in `ActionApprovals`.

### SingleUsePermit

The promise two gates have in common.  In `ActionApprovals` the user's approval
issues the permit, entering `Execute` uses it, and a running record that does not
reach the journal reissues it (`lost`).  In `IntentGrants` policy or the user issues
a grant, the connector call uses it, and a run that read the grant active while
another held it unspent reissues it (`extra`).  Both mappings are state functions;
both refinements are proved.

### IntentGrants

A request is a goroutine used once; every call of a store takes that store's lock,
so every store call is a step.  Handlers keep the whole record they read (`snap`) and
write it back.  `CreateIntent` goes through evaluation, grant or approval, and the
decision's write; `ApproveRequest`, `DenyRequest` and `ModifyRequest` read and write
the approval in two calls and then load, grant and write the intent; a run reads,
expires or consumes the grant, creates the execution, calls the connector and
records the outcome in two stores.  The callback stores whatever status the request
names, checked against nothing: `Reports` has the statuses of the API and one value,
"unlisted", for every other string.  Policy conditions are abstracted to "the active
rules match"; trace events are never read and left out.

### OAuthBindings

Every vault call is a step: the vault's mutex covers one call and nothing covers a
handler's read and its later write.  A credential is a number, the provider rotates
or keeps a refresh token, and accepts a rotated one no more.  `mem` is the vault's
map, `file` its last complete write, `torn` that the rewrite in place was cut short;
a write may fail with the map changed.  History variables record what excuses a
property: a handler wrote over what it had not read (`stale`, `clobbered`), a
restart brought back an older file (`unsaved`, `lagged`), an answer was lost
(`burnt`).  Init of the vault, passphrases and the resolvers that only read are left
out.

### ApprovalWatch

`Register` and `Decide` change the queue and broadcast later; a broadcast reads the
subscribers under the lock and sends to one channel at a time, dropping the event
when the channel is full and panicking when it is closed.  A stream subscribes,
lists, writes the snapshot and then events; the page replaces its cards on a
snapshot, adds and removes on events, removes on the answer to its own decision, and
hides its cards after an error.  Not in the model: a daemon restart under an open
page, the browser giving up, and the drafts the page also shows.

### Installs

Handlers of the daemon and `aileron keyring` processes interleave at every file
operation: pull and verify, commit of the tarball's directory, the index in memory,
its copy, the rename of the file; the read of the destination, truncation and write
of an action's file; the scan, file by file, of `Load` and its replacement of the
actions; load, truncation and write of the keyring.  A process may fail or die at any
of them, with what the code makes of it: most failures end the request (`Fail`); a
destination that cannot be read is overwritten (`MissDest`); a directory that cannot be
read leaves the loaded actions as they were, and an install still reports success
(`FailLoad`); a file that cannot be read is left out of the scan (`SkipFile`, and
`LoadAtStart` for the daemon's start).  `os.WriteFile` is truncation and write, and two
of them at once leave a mixture (`Garbled`).  Signatures are abstract: what the keyring
grants keys to, and who signed.  A restart loads or rebuilds the index and loads the
actions.

The actions directory is the user's: `EditFile` creates, copies in, edits or removes a
file at any time but between the truncation and the write of an install of that action.
A file is named after its action; two files that declare one action are left out.

History: `acked` has every install that was reported, by the connector asked for and
its tarball; `forgotten` those a rebuild recorded under the name the tarball declares
instead; `handmade` the manifests the user put in place; `missed` what a Load under way
passed by before it changed or could not read; `behind` the files that memory may
therefore be behind on until a complete Load.

### ToolSurface

A tool is an item with a tool name; two actions may share one (`a-b` and `a_b`), as may
plans, actions and built-ins.  The poller's tick is discovery of the actions, then of the
plans with the comparison, a swap of either cache, and the notification; the request
loop takes one frame, computes the response under the lock and writes it later, or
is held by a tool call for up to 30 s.  The pipes are FIFO.  The host completes the
handshake, lists then and after every notification, and may call what it was listed.
Discovery is modelled with the poller enabled.

## 3. Runs

| Run | Expect | Shows |
|---|---|---|
| `approvals` | pass | one action and one plan entry, two crashes, one shutdown, one journal fault: consent, drivers, journal and final records, and the refinement of `SingleUsePermit` |
| `approvals_live` | pass | every approved action is settled, through a crash and a shutdown; the comms entry beside it is sent at most once |
| `approvals_plan_rerun` | violation | a plan's approved entry, already carried out, is executed again after a restart |
| `daemon` | pass | two daemons, two clients, a removal, a kill, a signal: one advertised owner, clients end, stranded daemons leave |
| `plan_runs` | pass | a plan of four steps, five calls by two handlers, three entries, restarts: consent always; while calls do not overlap, each step is dispatched once by the run and executed once by a respawned executor, asked for once and audited once |
| `plan_twice` | violation | a seam, then a gated step: two overlapping resumes dispatch the step twice |
| `grants` | pass | one intent, four requests in every interleaving: decided once unless contested, the record agrees when requests do not overlap, and the refinement of `SingleUsePermit` |
| `bindings` | pass | two requests on an OAuth and a key binding, an install, a crash, a fault: the stored token is accepted, revocations and stale marks last |
| `watch` | pass | one approval, two streams of a page, a channel of one: nothing missed, no ghost card, a pending approval is shown |
| `watch_panic` | violation | a broadcast sends on the channel a cancel has closed |
| `installs` | pass | two requests, a keyring command or an edit of an action's file by the user, a failure, crash or damaged index: no dangling reference, acknowledged connectors known, actions current, revocations hold |
| `tools` | pass | two changes of the daemon, a failed discovery, a call: every change is announced, calls run what was listed, the host catches up |

Bounds.  Two crashes are the least with which an entry can be replayed, run and
replayed again; one journal fault reaches every lost record, and the proofs cover
any number.  Two daemons and two clients are the least for a race on either side,
one removal for two inodes.  The plan of `plan_runs` is a seam, which tells the
agent the run id, a gated action, a read and another gated action, so that a memo must
carry a seam's outputs and an effect across an approval; five calls are enough for
launch, the seam, both approvals and one call too many.  The plan of `plan_twice` is the
shortest that can be resumed and has an effect.
Four requests are a create, two deciders and a run, or a create, two runs and a
callback.  In `bindings` two handlers race on one name and one credential issued
beyond the first makes a rotation.  A channel of one overflows with the two events
an approval has; the second stream is a reconnect.  In `installs` two tarballs have
one name and version and a third lives in a subdirectory of its repository, asked for
without a hash or, by mistake, with the hash of the first; an action has two manifests,
each pinned to one of the first two, and the user may copy in one of them or remove the
file; the store starts with one
tarball and no index, so that an install, a sync and a rebuild each meet a tarball
the index does not know.  Two requests are two installs, or one beside a list or a sync,
and an edit by the user or a keyring command (`MaxEdits`) comes at any point of them;
a request that confirms keys of two authorities is the one branch this leaves out.
In `tools` two changes are the least with which a tool is replaced by
another, three plans and two actions give every kind of collision.

`grants`, `bindings` and `installs` use symmetry over requests or handlers, which no
definition tells apart; their properties are invariants and one safety refinement.
No run uses a state constraint.

`CHECK_DEADLOCK FALSE` is set except in `tools`, whose poller never stops: elsewhere a
daemon with nothing to do waits for a request, and the bounded environments end.

Exemptions.  Several properties name the races they do not survive, because the code has
them: requests that overlap (`contested`, `raced`, `overlap`), a write based on a stale
read (`clobbered`), a restart from a file that lacks a failed write (`lagged`), an index
or a keyring written from an older copy (`indexRaced`, `ringRaced`), a tarball recorded
under a name it does not declare (`forgotten`), manifests the user put in place
(`handmade`), files memory may be behind on (`behind`), an overtaken event.  Each is a
history variable set by the step that does it, so the property says that nothing else
breaks the promise.

Fairness, all of it weak.  `approvals_live` assumes that goroutines and handlers go on
(the Go scheduler), that a shutdown in progress ends, that a stopped daemon is started
again by the next client (`Resolve` does) and that the user unlocks the vault;
nothing is assumed of the user's decisions, of crashes or of faults.  `daemon`
assumes that processes are scheduled and that the watcher ticks.  `watch` assumes that
the daemon's goroutines run and that the browser opens the next stream; nobody has to
click and no connection has to fail.  `tools` assumes that the ticker ticks, that the
request loop runs, that a call ends by its client's 30 s, and that the host reads its
input.

## 4. Proofs

Every safety property that a passing run checks, invariant, action property or
refinement, is also a theorem, for every value of the constants.  The assumptions are
the named ones of the modules: sets of ids, of processes and of kinds of items are
disjoint; bounds are natural numbers; a plan gives each step a kind and an action;
there is an intent; the absent stream, grant and hash are none of the real ones; the
items a daemon can hold are finite, and the plans are listed in an order.  Bounds that
TLC needs (crashes, faults, calls, tokens) are arbitrary in the proofs.

Each theorem rests on an inductive invariant, which TLC checked first on the run's
instance.  What each needs beyond the property:

- `ActionApprovalsProofs`.  `TypeCorrect`.  `Consent`: nothing runs unless the user
  approved it; inductive because an unapproved entry is in no approved state in any of
  the five places that remember one (queue, disk, journal map, channel, handler), so no
  crash or replay can promote it.  `CommsOnce`: a comms entry is dispatched at most once
  over any number of crashes, because only the goroutine that registered it ever drives
  it (`SentOnce`).  `Driven` rests on `ActionInv`: where an entry stands with its
  handlers and executor (`Lifecycle`), and that whenever it could be executed again
  every earlier execution has a lost record to its account (`Freshness`).  `Refinement`:
  the queue implements `SingleUsePermit` for every action entry, step by step, from the
  same invariant.  `JournalLags` and `FinalStays` come from `JournalInv`: a final
  record, in the file or in the journal's map, means that nobody is left who would
  append to the entry (`Finality`); without a lost record the file and the map agree and
  lag behind the queue only by the append of a method under way (`Lag`).
- `DaemonSingletonProofs`.  `TypeCorrect` and `OwnerAdvertised`: who is past the lock
  holds the flock of the inode it has open (`LockHeld`), inodes are counted by
  removals (`InodesCounted`), and without a removal there is one inode
  (`OneInode`), so there is one daemon past the lock and `daemon.json` is its own.
  `LoneResolve`: whoever holds a lock is between its flock and its release
  (`HeldInUse`), so nobody keeps one while it waits; and while one client is alone and
  undisturbed the only daemon is the one it forked, which nothing makes exit
  (`OnlyChild`).
- `FlightPlanRunsProofs`.  `TypeCorrect`; `Consent` needs that the approvals map links
  an action only to an entry registered for it (`Linked`) and holds whatever calls
  overlap, of the executors a restart respawned too.  `OnceSerial` and `OverIsGone`, for
  calls that do not overlap: every dispatched step and all before it are in what the run
  goes on from, the parked memo between walks (`ParkedCovers`), the walk's outputs and
  its copy during one (`WalkCovers`); a walk that reaches a step outside them has never
  dispatched it. `AskedOnce` and `AuditedOnce`: as long as the run goes on, every entry
  it asked for is the one the approvals map links, and every audited seam is marked
  (`OnceInv`).  The same invariant bounds the respawned executors: an action has one
  entry, whose executor marks it running before it executes, and what was running at a
  restart is failed and gets no executor (`Spent`).
- `IntentGrantsProofs`.  `TypeCorrect`.  `SingleUse`: the handlers implement
  `SingleUsePermit` for every grant; `GrantInv` counts the runs that have read a grant
  and not yet called the connector, and bounds them together with the calls by one
  plus the extra reads.  `DecidedOnce`: a request that creates an intent finds neither
  approval nor grant of it (`CreateInv`), and the verdict of a lone decider is the
  approval's (`DecideInv`), whatever runs and evidence requests overlap with it.
  `SerialAgrees`: between requests the record agrees with all stores (`Resting`); the one
  request in flight is the only one, and the record is what its place says it has
  written so far (`Phase`).
- `OAuthBindingsProofs`.  `TypeCorrect`.  `RevokedStays` and `MarkSurvives`: what a
  handler has read of a binding is what the vault holds unless the handler is marked
  stale (`FreshInv`), the file is the map but for failed writes (`FileInv`), so the
  entry that counts, the map's or after a restart the file's, is the one that was
  written (`OutcomeInv`).  Both speak of bindings that no late write of a stale reader
  and no restart after a failed write has touched (`clobbered`, `lagged`): those two do
  bring a revoked binding back and do lift a mark.  `StoredTokenLive`: a token belongs
  to one binding (`HolderInv`), one fresh from the provider is known to one handler only
  (`OwnInv`), and what is stored or about to be written back is accepted, lost, or
  replaced by a named handler (`GoodInv`).
- `ApprovalWatchProofs`.  `TypeCorrect`, with the channel's limit.  `NothingMissed` and
  `GhostsGo`: what was broadcast follows the entry's status (`QueueInv`); for each stream
  and approval, the list about to be sent, the page, and every place in the channel is
  followed by the event that corrects it (`DeliveryInv`).
- `InstallsProofs`.  `TypeCorrect`, `NothingDangles`, `AckedKnown`, `LoadedCurrent` and
  `RevokeStays` from one invariant: what a request has in its hands at each place refers
  to tarballs in the store, its copy of the index knows every connector acknowledged
  unless it is stale (`JobInv`); its scan is the files as they are, but for those it
  missed (`ScanInv`), which is what makes memory current again when a Load ends; the
  disk and a running daemon's memory (`DiskInv`); edits of the keyring (`RingInv`).  The
  theorems carry the properties' exemptions: manifests put in place by hand, tarballs
  recorded under another name, files memory may be behind on.
- `ToolSurfaceProofs`.  `TypeCorrect`; `ListAnnounced`, inductive once nothing is served
  before both caches were filled (`StartInv`) and the loop holds no response between
  requests (`LoopInv`); `ExposedRuns`, an action property, from the plans the poller
  swaps in having free names, each once (`PlanInv`).

The proofs sharpened two properties, which had excused more than the code needs:
`NoGhostCard` no longer excuses a card by the page's own answer, and `LoadedIsCurrent`
no longer an install that is still writing its file.

Only model-checked: the liveness properties `ApprovedIsSettled`, `ResolveEnds`,
`StrandedDaemonStops`, `ApprovalIsShown` and `HostCatchesUp`, which need fairness and
`ENABLED` and so are out of the prover's reach.  The three runs that expect a violation
show properties that do not hold.

## 5. What the models say about the code

Three disagreements between the code and what it says of itself have a run each
(section 3; `PROJECT.json` quotes both sides).  The others the models show or that were
seen while modelling:

Approvals
- An executor that outlives the closing of the journal runs an action whose running
  record is lost, and the restart runs it again.
- `Register`'s append can land after the decision's: a restart then asks again.
- `internal/approval/outcome.go:31` says `approved_not_started` is shown to agents as
  pending; `handlers_action_approvals.go:134` shows it as running.
- A pending event can be sent after the resolved one, so a page that was open keeps a
  card for a decided approval until its next snapshot (`overtaken`).
- `handlers_action_approvals.go:216` says the watch handler returns when its buffer
  overflows; it never does, and the page stays behind until the stream ends for
  another reason.
- A decision answered with 404 leaves an error that hides every card until the next
  snapshot.
- A comms send has no running record: after a crash nobody can tell whether it went out.

Daemon
- `skipDiscoveryRemove` is set only by the inode watcher.  A stranded daemon told to stop
  within the 5 s before its next tick erases the survivor's `daemon.json`, which
  `internal/server/main.go:441` wants to avoid.
- A client is refused when its own redundant daemon exits before the winner of the lock
  is advertised.
- The lock's inode is read from the path after the lock was taken
  (`internal/server/main.go:175`): a removal in between makes the watcher compare
  with the wrong inode for ever.  `StrandedDaemonStops` therefore speaks of
  daemons that recorded the inode they locked.

Flight plans
- An approval is found by action, so one given for a step covers a later step that calls
  the same action.
- `validateSeamResumeOutputs` accepts outputs for any seam of the plan: those for a
  seam not reached yet are dropped by the next `Put`, and those for a fulfilled one
  replace its outputs.
- A resume resolves inputs again (`internal/flightplan/runtime/inputs.go:54`), the
  clock included, although the registry says they resolve identically
  (`internal/app/flightplan_runs.go:49`).
- A source input bound to a gated action registers an approval and then fails the
  run: input resolution cannot suspend (`inputs.go:197`).
- With overlapping calls a `Put` after a `Delete` brings a finished run back.
- A plan that first suspends at an approval gives the agent no run id: the 202 body of
  that suspend has none (`handlers_flightplans.go:501`), only a seam's has (`:515`), and
  the tests take it from the registry (`onlyRunID`).  Yet `resume_flight_plan`
  asks for "the run id from the seam_pending or pending_approval result"
  (`cmd/aileron-mcp/main.go:560`).
- After a restart the executor respawned for a plan's entry carries the action out,
  whether the run dispatched it before or not (`app.go:720`); the run `approvals_plan_rerun`
  is about it, and `OnceWhenSerial` counts it apart.

Intents and grants
- Two runs that both read a grant active both call the connector; two deciders that both
  read an approval pending both succeed, and the intent keeps the last write.
- A decision `allow_with_modification` leaves the intent at `pending_policy`, and
  `ModifyRequest` appends no trace event.
- `ExecutionCallback` stores any string as the execution's status
  (`handlers.go:930`), and the intent is not touched.

Bindings and vault
- The resolver drops the error of its write (`oauth2_resolver.go:109`: "the worst case is one
  extra refresh round trip").  With a rotating provider the file keeps the spent
  token, and after a restart the user has to authorize again.
- The file is rewritten in place: a crash during the write leaves a vault that cannot be
  unlocked.
- A late write of a refresh, a rebind or the drift hook brings back a revoked binding.
- A refresh that read a binding before the drift hook marked it stale lifts the mark, as
  does a restart after the marking write did not reach the file.
- `Finish` stores a binding as active also when fewer scopes were granted than required,
  and a session opened before an install stores the scopes demanded then.
- A callback of the wrong caller consumes the session the command line is waiting for.

Installs
- `persistIndex` copies under the lock and renames without it, so an older copy can be
  the last on disk and an acknowledged connector is unknown after a restart, although
  `store.go:97` speaks of both being updated together.
- `RebuildIndex` is said to serve a corrupted or missing index (`store.go:213`); a missing one
  is not an error of `LoadIndex` and is not rebuilt.
- The confirmed key of a hub install is stored under the connector's full name, and
  `Verify` looks under the repository: for a connector in a subdirectory the confirmed key
  is never used (`handlers.go:1058` says "under the FQN's authority").
- Two installs of one action without `force` can both find it absent; the second
  overwrites the first (`handlers_install_actions.go:46`: "refusing to clobber").
- With an expected hash that is already stored, the name asked for is recorded without
  a look at the name the stored manifest declares (`install.go:373`), and success is
  reported; a later `RebuildIndex` goes by the manifest and forgets the name asked for.
- A failing `Load` after an install is only logged and the install reports success
  (`handlers_install_actions.go:425`): the new action is not served until a Load that
  succeeds.  `Load` leaves out a file it cannot read (`loader.go:78`).
- A destination that is there and cannot be read is overwritten without `force`
  (`handlers_install_actions.go:403`).
- A manifest the user copies in may pin a connector that is not stored, and is loaded
  all the same; `Sync` is what fetches it.
- `Sync` looks connectors up by name and version and installs without the pinned hash,
  so a pinned tarball may stay missing.
- The keyring is loaded, edited and saved without a lock by the daemon and the command
  line: a revocation can be undone by an edit that began before it.

Tool surface
- Tool names of actions are not checked for collisions: `a-b` and `a_b` are both listed as
  `a_b` and one of them answers, although `main.go:1337` says the map "lets dispatchTool
  route correctly".  An action with a built-in's name hides the built-in.
- When plan discovery fails on the tick an action takes a plan's name, both are cached,
  against the server's "no colliding entry is cached".
- After a failed refresh `aileron_diagnostics` says that only the built-in tools are exposed
  (`main.go:1867`); the cached actions still are.

## 6. Not modelled

- Sandbox, spawn policy, forward proxy, launch: processes, kernel mechanisms and byte
  streams.  Their correctness is in the system calls, which a model would have to
  assume.
- Command line (but for the keyring), web pages (but for the approvals list), SDKs, MCP
  clients, gateway, hub, suites, schemas, sources and accounts: parsing, translation
  and calls of remote services, one at a time.
- Generated API types and the SQL stores: more than a tenth of the lines, with no
  behaviour of their own.
- Flight-plan freeze, publish, pull and store: hashing and registry I/O in sequence.
- Sessions journal, audit log, notification queue: every transition is one append or
  one change under one lock; the journal's faults are those of `ActionApprovals`.
- Key sessions: one data race, the copy of a key after its lock was released
  (`internal/auth/kek_session.go:89`), which a model would only restate; likewise the read of
  `vaultLocked` without its mutex (`internal/app/handlers.go:1376`).
- The enabled overlay of actions (`internal/action/state.go`), previews, the executor's
  cache by hash; refusals that change nothing.
- The 30 s limit of the MCP server's HTTP client passes while the daemon carries the
  call on, and an agent that retries asks for it twice: the daemon has no key by which
  it could tell, so there is no promise to state.

## 7. Plan

1. Proofs: stronger statements where a theorem's exemption is wider than the race that
   needs it (a binding clobbered once is exempt for good, an overlap exempts the whole
   run), and what remains true of a run whose calls do overlap.
2. The input phase of the runtime, and early seam outputs, in `FlightPlanRuns`.
