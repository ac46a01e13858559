--------------------------- MODULE ActionApprovals ---------------------------
(***************************************************************************)
(* The action-approval queue of the daemon: the in-memory queue, the JSONL *)
(* journal behind it, the background executors that wait for the user's    *)
(* verdict, the vault gate, and the daemon's crash, shutdown and restart.  *)
(*                                                                         *)
(* An approval is known by its id.  Three kinds of caller register one:    *)
(*   ActionIds  POST /v1/actions/{name}/run; an executor goroutine runs    *)
(*              the action once it is approved;                            *)
(*   CommsIds   send_message, draft_reply, http_request; their executor    *)
(*              dispatches without marking the entry running;              *)
(*   PlanIds    a flight plan's gated step; no executor is spawned, the    *)
(*              plan's own resume dispatches the approved action.          *)
(*                                                                         *)
(* Every queue method changes the entry under the queue's mutex, releases  *)
(* it, and only then appends the record to the journal: each method is two *)
(* steps here, and others run between them.                                *)
(***************************************************************************)
EXTENDS Naturals

CONSTANTS ActionIds,    \* approvals registered by RunAction
          PlanIds,      \* approvals registered by a flight plan's approver
          CommsIds,     \* approvals registered by the comms handlers
          MaxCrashes,   \* bound on kills of the daemon
          MaxStops,     \* bound on graceful shutdowns
          MaxFaults     \* bound on failed journal writes

ASSUME IdsAssumption ==
  /\ ActionIds \cap PlanIds = {}
  /\ ActionIds \cap CommsIds = {}
  /\ PlanIds \cap CommsIds = {}

ASSUME BoundsAssumption == MaxCrashes \in Nat /\ MaxStops \in Nat /\ MaxFaults \in Nat

Ids == ActionIds \cup PlanIds \cup CommsIds

VARIABLES
  daemon,     \* "up", "draining" (Shutdown called), "closed" (journal closed), "down", "starting"
  vaultOpen,  \* vaultUnlockedCh is closed
  status,     \* the queue's in-memory outcome of each entry
  decision,   \* the entry's decision channel, of capacity one
  reg,        \* the handler that registers the entry
  dec,        \* the handler that decides it: the status it has yet to append
  exec,       \* the entry's executor goroutine
  planRun,    \* the flight-plan run that waits for the entry
  disk,       \* the last readable record per id of approvals.jsonl
  data,       \* the journal's own map, what Close writes back
  torn,       \* the file ends in a fragment without its newline
  runs,       \* history: times the entry's action was entered
  lost,       \* history: "running" records that never reached the file
  dropped,    \* history: entries some record of which never reached the file
  approved,   \* history: entries the user approved
  crashes, stops, faults

queue   == <<status, decision>>
actors  == <<reg, dec, exec, planRun>>
journal == <<disk, data, torn, lost, dropped, faults>>
history == <<runs, approved>>
bounds  == <<crashes, stops>>
vars == <<daemon, vaultOpen, queue, actors, journal, history, bounds>>

Approved    == {"approved_not_started", "awaiting_vault"}
Terminal    == {"completed", "failed", "denied"}
NonTerminal == {"pending_approval"} \cup Approved
Statuses    == NonTerminal \cup {"running"} \cup Terminal \cup {"absent"}

TypeOK ==
  /\ daemon \in {"up", "draining", "closed", "down", "starting"}
  /\ vaultOpen \in BOOLEAN
  /\ status \in [Ids -> Statuses]
  /\ decision \in [Ids -> {"empty", "approved_not_started", "denied"}]
  /\ reg \in [Ids -> {"none", "appending", "done"}]
  /\ dec \in [Ids -> {"idle", "approved_not_started", "denied"}]
  /\ exec \in [Ids -> {"none", "wait", "gate", "parking", "parked", "ready",
                       "marking", "armed", "executing", "finishing", "done"}]
  /\ planRun \in [Ids -> {"none", "suspended", "done"}]
  /\ disk \in [Ids -> Statuses]
  /\ data \in [Ids -> Statuses]
  /\ torn \in BOOLEAN
  /\ runs \in [Ids -> Nat]
  /\ lost \in [Ids -> Nat]
  /\ dropped \in SUBSET Ids
  /\ approved \in SUBSET Ids
  /\ crashes \in 0..MaxCrashes /\ stops \in 0..MaxStops /\ faults \in 0..MaxFaults

Everywhere(s) == [id \in Ids |-> s]

Init ==
  /\ daemon = "up"
  /\ vaultOpen \in BOOLEAN
  /\ status = Everywhere("absent")
  /\ decision = Everywhere("empty")
  /\ reg = Everywhere("none")
  /\ dec = Everywhere("idle")
  /\ exec = Everywhere("none")
  /\ planRun = Everywhere("none")
  /\ disk = Everywhere("absent")
  /\ data = Everywhere("absent")
  /\ torn = FALSE
  /\ runs = Everywhere(0)
  /\ lost = Everywhere(0)
  /\ dropped = {}
  /\ approved = {}
  /\ crashes = 0 /\ stops = 0 /\ faults = 0

-----------------------------------------------------------------------------
(* The journal: Store.Append and Store.Close.                              *)

(* A whole line reaches a file that ends in a newline. *)
AppendWritten(id, s) ==
  /\ daemon # "closed"
  /\ ~torn
  /\ disk' = [disk EXCEPT ![id] = s]
  /\ data' = [data EXCEPT ![id] = s]
  /\ UNCHANGED <<torn, lost, dropped, faults>>

(* The record does not reach the file: the store is closed; or the line is *)
(* glued to the fragment a torn write left and is skipped on replay; or    *)
(* the write fails, having written nothing or a part of the line.          *)
AppendLost(id, s) ==
  /\ \/ /\ daemon = "closed"
        /\ UNCHANGED <<data, torn, faults>>
     \/ /\ daemon # "closed"
        /\ torn
        /\ torn' = FALSE
        /\ data' = [data EXCEPT ![id] = s]
        /\ UNCHANGED faults
     \/ /\ daemon # "closed"
        /\ faults < MaxFaults
        /\ faults' = faults + 1
        /\ torn' \in {torn, TRUE}
        /\ UNCHANGED data
  /\ UNCHANGED disk
  /\ lost' = [lost EXCEPT ![id] = @ + (IF s = "running" THEN 1 ELSE 0)]
  /\ dropped' = dropped \cup {id}

Append(id, s) == AppendWritten(id, s) \/ AppendLost(id, s)

-----------------------------------------------------------------------------
(* Handlers: Register and Decide.                                          *)

(* RegisterKindWithPreviewAndInputs under q.mu.  RunAction and the flight  *)
(* plan endpoints answer 423 while the vault is locked.                    *)
Register(id) ==
  /\ daemon = "up"
  /\ reg[id] = "none"
  /\ id \in CommsIds \/ vaultOpen
  /\ status' = [status EXCEPT ![id] = "pending_approval"]
  /\ reg' = [reg EXCEPT ![id] = "appending"]
  /\ UNCHANGED <<daemon, vaultOpen, decision, dec, exec, planRun, journal, history, bounds>>

(* The append, after the mutex is released; then Register returns and the  *)
(* caller spawns the executor, or suspends the plan.                       *)
RegisterPersist(id) ==
  /\ reg[id] = "appending"
  /\ Append(id, "pending_approval")
  /\ reg' = [reg EXCEPT ![id] = "done"]
  /\ exec' = IF id \in PlanIds THEN exec ELSE [exec EXCEPT ![id] = "wait"]
  /\ planRun' = IF id \in PlanIds THEN [planRun EXCEPT ![id] = "suspended"] ELSE planRun
  /\ UNCHANGED <<daemon, vaultOpen, queue, dec, history, bounds>>

(* Decide under q.mu: only a pending entry can be decided. *)
Decide(id, verdict) ==
  /\ daemon = "up"
  /\ status[id] = "pending_approval"
  /\ status' = [status EXCEPT ![id] = verdict]
  /\ dec' = [dec EXCEPT ![id] = verdict]
  /\ approved' = IF verdict = "denied" THEN approved ELSE approved \cup {id}
  /\ UNCHANGED <<daemon, vaultOpen, decision, reg, exec, planRun, journal, runs, bounds>>

(* The append, then the send on the decision channel. *)
DecidePersist(id) ==
  /\ dec[id] # "idle"
  /\ Append(id, dec[id])
  /\ decision' = [decision EXCEPT ![id] = dec[id]]
  /\ dec' = [dec EXCEPT ![id] = "idle"]
  /\ UNCHANGED <<daemon, vaultOpen, status, reg, exec, planRun, history, bounds>>

-----------------------------------------------------------------------------
(* The executor goroutine: executeApprovedAction, executeApprovedComms*.   *)

Go(id, pc) == exec' = [exec EXCEPT ![id] = pc]

(* ActionApproval.Wait returns the decision; a denied entry ends here.     *)
(* The comms executors go straight to the dispatch.                        *)
Wait(id) ==
  /\ exec[id] = "wait"
  /\ decision[id] # "empty"
  /\ decision' = [decision EXCEPT ![id] = "empty"]
  /\ Go(id, IF decision[id] = "denied" THEN "done"
            ELSE IF id \in CommsIds THEN "armed" ELSE "gate")
  /\ UNCHANGED <<daemon, vaultOpen, status, reg, dec, planRun, journal, history, bounds>>

(* waitForVaultUnlocked: the fast path, or SetAwaitingVault, which changes *)
(* and appends nothing unless the entry is approved_not_started.           *)
WaitForVaultUnlocked(id) ==
  /\ exec[id] = "gate"
  /\ \/ /\ vaultOpen
        /\ Go(id, "ready")
        /\ UNCHANGED status
     \/ /\ ~vaultOpen
        /\ status[id] = "approved_not_started"
        /\ status' = [status EXCEPT ![id] = "awaiting_vault"]
        /\ Go(id, "parking")
     \/ /\ ~vaultOpen
        /\ status[id] # "approved_not_started"
        /\ Go(id, "parked")
        /\ UNCHANGED status
  /\ UNCHANGED <<daemon, vaultOpen, decision, reg, dec, planRun, journal, history, bounds>>

AwaitingVaultPersist(id) ==
  /\ exec[id] = "parking"
  /\ Append(id, "awaiting_vault")
  /\ Go(id, "parked")
  /\ UNCHANGED <<daemon, vaultOpen, queue, reg, dec, planRun, history, bounds>>

(* The parked goroutine wakes when the unlock closes the channel. *)
VaultUnlocked(id) ==
  /\ exec[id] = "parked"
  /\ vaultOpen
  /\ Go(id, "ready")
  /\ UNCHANGED <<daemon, vaultOpen, queue, reg, dec, planRun, journal, history, bounds>>

(* SetRunning under q.mu: a no-op unless the entry is approved. *)
SetRunning(id) ==
  /\ exec[id] = "ready"
  /\ \/ /\ status[id] \in Approved
        /\ status' = [status EXCEPT ![id] = "running"]
        /\ Go(id, "marking")
     \/ /\ status[id] \notin Approved
        /\ Go(id, "armed")
        /\ UNCHANGED status
  /\ UNCHANGED <<daemon, vaultOpen, decision, reg, dec, planRun, journal, history, bounds>>

(* Mutant of RunningPersist: SetRunning does not append. *)
RunningNotPersisted(id) ==
  /\ exec[id] = "marking"
  /\ Go(id, "armed")
  /\ UNCHANGED <<daemon, vaultOpen, queue, reg, dec, planRun, journal, history, bounds>>

RunningPersist(id) ==
  /\ exec[id] = "marking"
  /\ Append(id, "running")
  /\ Go(id, "armed")
  /\ UNCHANGED <<daemon, vaultOpen, queue, reg, dec, planRun, history, bounds>>

(* Execute, Send or the HTTP call is entered: from here on its effect may  *)
(* have happened.                                                          *)
Execute(id) ==
  /\ exec[id] = "armed"
  /\ runs' = [runs EXCEPT ![id] = @ + 1]
  /\ Go(id, "executing")
  /\ UNCHANGED <<daemon, vaultOpen, queue, reg, dec, planRun, journal, approved, bounds>>

(* SetCompleted and SetFailed under q.mu: a no-op on a terminal entry. *)
SetOutcome(id, s) ==
  \/ /\ status[id] \notin Terminal
     /\ status' = [status EXCEPT ![id] = s]
     /\ Go(id, "finishing")
  \/ /\ status[id] \in Terminal
     /\ Go(id, "done")
     /\ UNCHANGED status

(* Execute returns; and a comms executor may find no listener, no original *)
(* message or no valid request, and fail before any dispatch.              *)
Finish(id, s) ==
  /\ \/ exec[id] = "executing"
     \/ exec[id] = "armed" /\ id \in CommsIds /\ s = "failed"
  /\ SetOutcome(id, s)
  /\ UNCHANGED <<daemon, vaultOpen, decision, reg, dec, planRun, journal, history, bounds>>

(* Mutant of FinishPersist: SetCompleted and SetFailed do not append. *)
FinishNotPersisted(id) ==
  /\ exec[id] = "finishing"
  /\ Go(id, "done")
  /\ UNCHANGED <<daemon, vaultOpen, queue, reg, dec, planRun, journal, history, bounds>>

FinishPersist(id) ==
  /\ exec[id] = "finishing"
  /\ Append(id, status[id])
  /\ Go(id, "done")
  /\ UNCHANGED <<daemon, vaultOpen, queue, reg, dec, planRun, history, bounds>>

(* ResumeFlightPlan replays the plan up to the gated step and reads the    *)
(* outcome: approved entries are dispatched by the plan's own dispatcher,  *)
(* which tells the queue nothing; denied and failed ones end the run.      *)
ResumeFlightPlan(id) ==
  /\ daemon = "up"
  /\ vaultOpen
  /\ planRun[id] = "suspended"
  /\ \/ /\ status[id] \in Approved \cup {"running", "completed"}
        /\ runs' = [runs EXCEPT ![id] = @ + 1]
     \/ /\ status[id] \in {"denied", "failed"}
        /\ UNCHANGED runs
  /\ planRun' = [planRun EXCEPT ![id] = "done"]
  /\ UNCHANGED <<daemon, vaultOpen, queue, reg, dec, exec, journal, approved, bounds>>

-----------------------------------------------------------------------------
(* The daemon: unlock, shutdown, crash, restart.                           *)

UnlockLocalVault ==
  /\ daemon = "up"
  /\ ~vaultOpen
  /\ vaultOpen' = TRUE
  /\ UNCHANGED <<daemon, queue, actors, journal, history, bounds>>

(* SIGTERM: srv.Shutdown refuses new requests.  Handlers in flight go on,  *)
(* and so do the executors, which Shutdown does not know.                  *)
Shutdown ==
  /\ daemon = "up"
  /\ stops < MaxStops
  /\ stops' = stops + 1
  /\ daemon' = "draining"
  /\ UNCHANGED <<vaultOpen, queue, actors, journal, history, crashes>>

(* The deferred approvalStore.Close: the file is rewritten from the        *)
(* store's map, or the rewrite fails and the file stays as it is.          *)
CloseStore ==
  /\ daemon = "draining"
  /\ daemon' = "closed"
  /\ \/ /\ disk' = data
        /\ torn' = FALSE
        /\ UNCHANGED faults
     \/ /\ faults < MaxFaults
        /\ faults' = faults + 1
        /\ UNCHANGED <<disk, torn>>
  /\ UNCHANGED <<vaultOpen, queue, actors, data, lost, dropped, history, bounds>>

(* The process ends: everything in memory and every goroutine is gone. *)
Halt ==
  /\ daemon' = "down"
  /\ vaultOpen' = FALSE
  /\ status' = Everywhere("absent")
  /\ decision' = Everywhere("empty")
  /\ reg' = [id \in Ids |-> IF reg[id] = "none" THEN "none" ELSE "done"]
  /\ dec' = Everywhere("idle")
  /\ exec' = Everywhere("none")
  /\ planRun' = Everywhere("none")
  /\ data' = disk
  /\ UNCHANGED <<disk, lost, dropped, faults, history>>

Exit ==
  /\ daemon = "closed"
  /\ Halt
  /\ UNCHANGED <<torn, bounds>>

AppendInFlight ==
  \/ daemon = "starting"
  \/ \E id \in Ids : \/ reg[id] = "appending"
                     \/ dec[id] # "idle"
                     \/ exec[id] \in {"parking", "marking", "finishing"}

(* A kill, possibly in the middle of a write. *)
Crash ==
  /\ daemon # "down"
  /\ crashes < MaxCrashes
  /\ crashes' = crashes + 1
  /\ Halt
  /\ \/ UNCHANGED torn
     \/ daemon # "closed" /\ AppendInFlight /\ torn' = TRUE
  /\ UNCHANGED stops

(* Mutants of PrefilledDecision: the loaded status itself is sent; pending *)
(* entries are pre-filled too; entries parked on the vault are forgotten.  *)
PrefillsStatus(s) == IF s \in Approved THEN s ELSE "empty"
PrefillsPending(s) == IF s \in NonTerminal THEN "approved_not_started" ELSE "empty"
ForgetsAwaitingVault(s) == IF s = "approved_not_started" THEN s ELSE "empty"

(* The verdict LoadRecords puts in the channel of an entry approved before *)
(* the restart.                                                            *)
PrefilledDecision(s) == IF s \in Approved THEN "approved_not_started" ELSE "empty"

(* jsonl.New replays the file; LoadRecords seeds the queue. *)
LoadRecords ==
  /\ daemon = "down"
  /\ daemon' = "starting"
  /\ status' = disk
  /\ data' = disk
  /\ decision' = [id \in Ids |-> PrefilledDecision(disk[id])]
  /\ UNCHANGED <<vaultOpen, actors, disk, torn, lost, dropped, faults, history, bounds>>

(* Mutant of ReapRunning: every entry but the failed ones is reaped. *)
ReapAny(id) ==
  /\ daemon = "starting"
  /\ status[id] \notin {"absent", "failed"}
  /\ status' = [status EXCEPT ![id] = "failed"]
  /\ Append(id, "failed")
  /\ UNCHANGED <<daemon, vaultOpen, decision, actors, history, bounds>>

(* Every replayed running entry is recorded as failed. *)
ReapRunning(id) ==
  /\ daemon = "starting"
  /\ status[id] = "running"
  /\ status' = [status EXCEPT ![id] = "failed"]
  /\ Append(id, "failed")
  /\ UNCHANGED <<daemon, vaultOpen, decision, actors, history, bounds>>

Reaped == \A id \in Ids : status[id] # "running"

(* The respawn loop fails an action entry whose manifest is gone. *)
FailMissingManifest(id) ==
  /\ daemon = "starting"
  /\ Reaped
  /\ id \notin CommsIds
  /\ status[id] \in NonTerminal
  /\ status' = [status EXCEPT ![id] = "failed"]
  /\ Append(id, "failed")
  /\ UNCHANGED <<daemon, vaultOpen, decision, actors, history, bounds>>

(* Mutants of Respawned: only pending entries get an executor; those of    *)
(* every kind do.                                                          *)
RespawnedPending(id) == id \notin CommsIds /\ status[id] = "pending_approval"
RespawnedAnyKind(id) == status[id] \in NonTerminal

(* The respawn loop gives every other action-kind entry an executor.  A    *)
(* plan's entry is of that kind too; comms entries get none.               *)
Respawned(id) == id \notin CommsIds /\ status[id] \in NonTerminal

StartServing ==
  /\ daemon = "starting"
  /\ Reaped
  /\ daemon' = "up"
  /\ vaultOpen' \in BOOLEAN
  /\ exec' = [id \in Ids |-> IF Respawned(id) THEN "wait" ELSE "none"]
  /\ UNCHANGED <<queue, reg, dec, planRun, journal, history, bounds>>

-----------------------------------------------------------------------------
Executor(id) ==
  \/ Wait(id)
  \/ WaitForVaultUnlocked(id)
  \/ AwaitingVaultPersist(id)
  \/ VaultUnlocked(id)
  \/ SetRunning(id)
  \/ RunningPersist(id)
  \/ Execute(id)
  \/ \E s \in {"completed", "failed"} : Finish(id, s)
  \/ FinishPersist(id)

Handler(id) == RegisterPersist(id) \/ DecidePersist(id)

Restart ==
  \/ LoadRecords
  \/ StartServing
  \/ \E id \in Ids : ReapRunning(id)

Next ==
  \/ \E id \in Ids :
       \/ Register(id)
       \/ \E verdict \in {"approved_not_started", "denied"} : Decide(id, verdict)
       \/ Handler(id)
       \/ Executor(id)
       \/ ResumeFlightPlan(id)
       \/ FailMissingManifest(id)
  \/ UnlockLocalVault
  \/ Shutdown
  \/ CloseStore
  \/ Exit
  \/ Crash
  \/ Restart

Spec == Init /\ [][Next]_vars

(* Goroutines and handlers make progress, a stopped daemon is started      *)
(* again by the next client, and a locked vault is unlocked by the user.   *)
Fairness ==
  /\ \A id \in Ids : WF_vars(Handler(id)) /\ WF_vars(Executor(id))
  /\ WF_vars(CloseStore) /\ WF_vars(Exit) /\ WF_vars(Restart)
  /\ WF_vars(UnlockLocalVault)

FairSpec == Spec /\ Fairness
-----------------------------------------------------------------------------
(* Properties.                                                             *)

(* A message, reply or request the user approved is dispatched at most     *)
(* once, across crashes and restarts, although its executor never marks    *)
(* the entry running: a crash between the dispatch and its outcome leaves  *)
(* the record approved, and it is the respawn loop that must pass it by.   *)
CommsSentOnce == \A id \in CommsIds : runs[id] <= 1

(* An approved action is a single-use permit: the queue, its journal and   *)
(* the respawn loop together implement SingleUsePermit, a lost running     *)
(* record being the only way a spent approval is handed out again.         *)
Permit == INSTANCE SingleUsePermit WITH
  Subjects <- ActionIds,
  issued   <- approved \cap ActionIds,
  spare    <- [id \in ActionIds |-> IF id \in approved THEN 1 + lost[id] - runs[id] ELSE 0],
  used     <- [id \in ActionIds |-> runs[id]]

ApprovalIsSingleUse == Permit!Spec

(* Nothing is executed or dispatched, by an executor, a respawned executor *)
(* or a resumed plan, unless the user approved that very entry.            *)
RunsOnlyWhatWasApproved == \A id \in Ids : runs[id] > 0 => id \in approved

(* While the daemon serves, an approved action always has someone who will *)
(* carry it on: a handler about to spawn its executor or an executor that  *)
(* holds the verdict or will receive it.  Losing the verdict (a channel    *)
(* not pre-filled on replay, a respawn skipped) would strand the entry.    *)
VerdictUnderWay(id) == decision[id] = "approved_not_started" \/ dec[id] = "approved_not_started"

ApprovedIsDriven ==
  \A id \in ActionIds : daemon = "up" /\ status[id] \in Approved =>
    \/ (reg[id] = "appending" \/ exec[id] = "wait") /\ VerdictUnderWay(id)
    \/ exec[id] \in {"gate", "parking", "parked", "ready"}

(* When no method is between its mutex and its append, and no record of    *)
(* the entry was lost, the journal holds the entry's current outcome, or   *)
(* the registration that was appended after it.                            *)
Quiet(id) ==
  /\ reg[id] # "appending"
  /\ dec[id] = "idle"
  /\ exec[id] \notin {"parking", "marking", "finishing"}

JournalLagsOnlyByRegistration ==
  \A id \in Ids : daemon = "up" /\ Quiet(id) /\ id \notin dropped =>
    disk[id] \in {status[id], "pending_approval"}

(* A completed or failed record in the journal is final: no reap, respawn, *)
(* late append or compaction replaces it by another status.                *)
FinalRecordStays ==
  [][\A id \in Ids : disk[id] \in {"completed", "failed"} => disk'[id] = disk[id]]_vars

(* An approved action is settled: it completes or fails, unless a crash    *)
(* lost the verdict and the entry is pending, or unknown, again.           *)
Settled(id) ==
  \/ status[id] \in Terminal \cup {"pending_approval"}
  \/ status[id] = "absent" /\ daemon = "up"

ApprovedIsSettled ==
  \A id \in ActionIds : status[id] \in Approved \cup {"running"} ~> Settled(id)

(* The executor's comment: a daemon that crashes after SetRunning replays  *)
(* the entry as failed, "non-idempotent actions never auto-rerun".         *)
NeverAutoRerun == \A id \in Ids : runs[id] <= 1
=============================================================================
