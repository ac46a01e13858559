--------------------------- MODULE FlightPlanRuns ---------------------------
(***************************************************************************)
(* One flight-plan run of the daemon, from its launch through the suspends *)
(* and resumes of the HTTP handshake: the plan walk of the runtime, the    *)
(* approver, the in-memory run registry and the seam audit; and what a     *)
(* restart of the daemon does with the approvals the run has registered.   *)
(*                                                                         *)
(* A run suspends at an unfulfilled seam or at a gated action that waits   *)
(* for the user.  The record parked in the registry holds the memo: the    *)
(* steps that need not run again.  Every resume walks the plan from the    *)
(* top with a copy of the memo.  Handlers of one run are not serialized.   *)
(*                                                                         *)
(* All records of a run share one Approvals map and one AuditedSeams map:  *)
(* a record is copied, its maps are not.                                   *)
(***************************************************************************)
EXTENDS Naturals, FiniteSets

CONSTANTS NumSteps,    \* plan.Order, a topological order
          Kind,        \* of each step: "read" (no approval), "gated" or "seam"
          Ref,         \* the action each step calls
          Handlers,    \* HTTP handler goroutines
          MaxCalls,    \* bound on launch and resume calls
          MaxEntries   \* bound on approvals registered

Steps == 1..NumSteps
Refs  == {Ref[s] : s \in Steps}
Seams == {s \in Steps : Kind[s] = "seam"}
Ids   == 1..MaxEntries

ASSUME PlanAssumption ==
  /\ NumSteps \in Nat
  /\ Kind \in [Steps -> {"read", "gated", "seam"}]
  /\ DOMAIN Ref = Steps

ASSUME BoundsAssumption == MaxCalls \in Nat /\ MaxEntries \in Nat

VARIABLES
  pc,        \* where each handler is
  resuming,  \* whether it serves a resume (it knows the run id)
  supplied,  \* seam outputs its request carries
  snap,      \* ResumeOutputs: its copy of the memo
  at,        \* the step its walk has reached
  out,       \* stepOutput: the steps whose outputs its walk has
  parked,    \* the registry holds the run's record
  memo,      \* the record's Outputs
  linked,    \* Approvals: the entry registered for each action
  audited,   \* AuditedSeams
  outcome,   \* the approval queue's entries
  asker,     \* the step each entry was registered for
  entries,   \* entries registered so far
  respawned, \* entries a restart has started an executor for
  launched, known,  \* the run was launched; the agent has its id
  calls,
  dispatched,  \* history: dispatches of each step's action by the run
  executed,    \* history: its executions by a respawned executor
  consented,   \* history: entries the user approved
  seamAudits,  \* history: audit records of each seam
  overlap,     \* history: two handlers of the run were at work at once
  over         \* history: a call of the run completed or failed

handler  == <<resuming, supplied, snap, at, out>>
registry == <<parked, memo, linked, audited>>
queue    == <<outcome, asker, entries, respawned>>
session  == <<launched, known, calls>>
effects  == <<dispatched, executed, consented>>
history  == <<effects, seamAudits, overlap, over>>
vars == <<pc, handler, registry, queue, session, history>>

Outcomes == {"none", "pending", "approved", "denied", "running", "completed", "failed"}

TypeOK ==
  /\ pc \in [Handlers -> {"idle", "merge", "reread", "walk", "register", "suspend", "audit", "stamp"}]
  /\ resuming \in [Handlers -> BOOLEAN]
  /\ supplied \in [Handlers -> SUBSET Seams]
  /\ snap \in [Handlers -> SUBSET Steps]
  /\ at \in [Handlers -> 1..(NumSteps + 1)]
  /\ out \in [Handlers -> SUBSET Steps]
  /\ parked \in BOOLEAN
  /\ memo \in SUBSET Steps
  /\ linked \in [Refs -> Ids \cup {0}]
  /\ audited \in SUBSET Seams
  /\ outcome \in [Ids -> Outcomes]
  /\ asker \in [Ids -> Steps \cup {0}]
  /\ entries \in Ids \cup {0}
  /\ respawned \in SUBSET Ids
  /\ launched \in BOOLEAN /\ known \in BOOLEAN
  /\ calls \in 0..MaxCalls
  /\ dispatched \in [Steps -> Nat] /\ executed \in [Steps -> Nat]
  /\ consented \in SUBSET Ids
  /\ seamAudits \in [Steps -> Nat]
  /\ overlap \in BOOLEAN /\ over \in BOOLEAN

Init ==
  /\ pc = [h \in Handlers |-> "idle"]
  /\ resuming = [h \in Handlers |-> FALSE]
  /\ supplied = [h \in Handlers |-> {}]
  /\ snap = [h \in Handlers |-> {}]
  /\ at = [h \in Handlers |-> 1]
  /\ out = [h \in Handlers |-> {}]
  /\ parked = FALSE /\ memo = {}
  /\ linked = [r \in Refs |-> 0]
  /\ audited = {}
  /\ outcome = [id \in Ids |-> "none"]
  /\ asker = [id \in Ids |-> 0]
  /\ entries = 0 /\ respawned = {}
  /\ launched = FALSE /\ known = FALSE
  /\ calls = 0
  /\ dispatched = [s \in Steps |-> 0] /\ executed = [s \in Steps |-> 0]
  /\ consented = {}
  /\ seamAudits = [s \in Steps |-> 0]
  /\ overlap = FALSE /\ over = FALSE

Goto(h, from, to) == pc[h] = from /\ pc' = [pc EXCEPT ![h] = to]

-----------------------------------------------------------------------------
(* The registry.                                                           *)

(* Delete, or the reaping of an expired record. *)
Delete ==
  /\ parked' = FALSE
  /\ memo' = {}

(* Put replaces the record: its memo is the suspended walk's. *)
PutRecord(h) ==
  /\ parked' = TRUE
  /\ memo' = out[h]

(* The TTL passed without a call.  Reaped lazily, by the next Get or Put. *)
Expire ==
  /\ parked
  /\ Delete
  /\ UNCHANGED <<pc, handler, linked, audited, queue, session, history>>

-----------------------------------------------------------------------------
(* The calls.                                                              *)

(* A call arrives.  Nothing keeps it from overlapping another. *)
Arrive(h, resume) ==
  /\ calls < MaxCalls
  /\ calls' = calls + 1
  /\ resuming' = [resuming EXCEPT ![h] = resume]
  /\ overlap' = (overlap \/ \E g \in Handlers \ {h} : pc[g] # "idle")

(* LaunchFlightPlan: an empty memo and, as yet, no run id. *)
LaunchFlightPlan(h) ==
  /\ ~launched
  /\ Goto(h, "idle", "walk")
  /\ Arrive(h, FALSE)
  /\ launched' = TRUE
  /\ snap' = [snap EXCEPT ![h] = {}]
  /\ out' = [out EXCEPT ![h] = {}]
  /\ at' = [at EXCEPT ![h] = 1]
  /\ UNCHANGED <<supplied, registry, queue, known, effects, seamAudits, over>>

(* ResumeFlightPlan up to its first Get (without a record: 404) and the    *)
(* validation, which accepts outputs of any seam of the plan.              *)
ResumeFlightPlan(h) ==
  /\ known /\ parked
  /\ \E outputs \in SUBSET Seams :
       /\ Goto(h, "idle", IF outputs = {} THEN "reread" ELSE "merge")
       /\ supplied' = [supplied EXCEPT ![h] = outputs]
  /\ Arrive(h, TRUE)
  /\ UNCHANGED <<snap, at, out, registry, queue, launched, known, effects, seamAudits, over>>

(* MergeOutputs; a no-op when the record has gone. *)
MergeOutputs(h) ==
  /\ Goto(h, "merge", "reread")
  /\ memo' = IF parked THEN memo \cup supplied[h] ELSE memo
  /\ UNCHANGED <<handler, parked, linked, audited, queue, session, history>>

(* Mutant of Reread: the walk starts before the first step. *)
RereadFromZero(h) ==
  /\ Goto(h, "reread", IF parked THEN "walk" ELSE "idle")
  /\ snap' = [snap EXCEPT ![h] = memo]
  /\ out' = [out EXCEPT ![h] = {}]
  /\ at' = [at EXCEPT ![h] = 0]
  /\ UNCHANGED <<resuming, supplied, registry, queue, session, history>>

(* The second Get.  The walk starts with a copy of the memo. *)
Reread(h) ==
  /\ Goto(h, "reread", IF parked THEN "walk" ELSE "idle")
  /\ snap' = [snap EXCEPT ![h] = memo]
  /\ out' = [out EXCEPT ![h] = {}]
  /\ at' = [at EXCEPT ![h] = 1]
  /\ UNCHANGED <<resuming, supplied, registry, queue, session, history>>

-----------------------------------------------------------------------------
(* execute: the walk.                                                      *)

(* The walk is at step s, which is not in the memo. *)
Reached(h, s) == pc[h] = "walk" /\ at[h] = s /\ s \notin snap[h]

StepDone(h) ==
  /\ out' = [out EXCEPT ![h] = @ \cup {at[h]}]
  /\ at' = [at EXCEPT ![h] = @ + 1]
  /\ UNCHANGED <<pc, resuming, supplied, snap>>

InjectMemoized(h) ==
  /\ pc[h] = "walk"
  /\ at[h] \in snap[h]
  /\ StepDone(h)
  /\ UNCHANGED <<registry, queue, session, history>>

(* A read action, or a transform. *)
RunUnattended(h) ==
  /\ \E s \in Steps : Reached(h, s) /\ Kind[s] = "read"
  /\ StepDone(h)
  /\ UNCHANGED <<registry, queue, session, history>>

SuspendAtSeam(h) ==
  /\ \E s \in Seams : Reached(h, s)
  /\ Goto(h, "walk", "suspend")
  /\ UNCHANGED <<handler, registry, queue, session, history>>

(* The entry of the approvals map for step s. *)
Entry(s) == linked[Ref[s]]

(* Approve's first reach; the preview runs before the entry is registered. *)
FirstReach(h) ==
  /\ \E s \in Steps : Reached(h, s) /\ Kind[s] = "gated" /\ Entry(s) = 0
  /\ Goto(h, "walk", "register")
  /\ UNCHANGED <<handler, registry, queue, session, history>>

(* Mutant of Link: the entry is not recorded on the run. *)
LinkNothing(s, id) == UNCHANGED linked

(* RecordApproval, and the same assignment to the handler's own copy. *)
Link(s, id) == linked' = [linked EXCEPT ![Ref[s]] = id]

Register(h) ==
  /\ Goto(h, "register", "suspend")
  /\ entries < MaxEntries
  /\ entries' = entries + 1
  /\ outcome' = [outcome EXCEPT ![entries + 1] = "pending"]
  /\ asker' = [asker EXCEPT ![entries + 1] = at[h]]
  /\ Link(at[h], entries + 1)
  /\ UNCHANGED <<handler, parked, memo, audited, respawned, session, history>>

StillPending(h) ==
  /\ \E s \in Steps : /\ Reached(h, s) /\ Kind[s] = "gated" /\ Entry(s) # 0
                      /\ outcome[Entry(s)] = "pending"
  /\ Goto(h, "walk", "suspend")
  /\ UNCHANGED <<handler, registry, queue, session, history>>

(* Mutant of Approved: whatever is not denied. *)
NotDenied(s) == Entry(s) # 0 /\ outcome[Entry(s)] \notin {"denied", "failed"}

Approved(s) == Entry(s) # 0 /\ outcome[Entry(s)] \in {"approved", "running", "completed"}

(* Approve sees the approval and the dispatcher runs the action. *)
Dispatch(h) ==
  /\ \E s \in Steps : Reached(h, s) /\ Kind[s] = "gated" /\ Approved(s)
  /\ dispatched' = [dispatched EXCEPT ![at[h]] = @ + 1]
  /\ StepDone(h)
  /\ UNCHANGED <<registry, queue, session, executed, consented, seamAudits, overlap, over>>

(* The run is over for this call: a resume deletes the record. *)
Finish(h) ==
  /\ Goto(h, "walk", "idle")
  /\ over' = TRUE
  /\ IF resuming[h] THEN Delete ELSE UNCHANGED <<parked, memo>>
  /\ UNCHANGED <<handler, linked, audited, queue, session, effects, seamAudits, overlap>>

Denied(h) ==
  /\ \E s \in Steps : /\ Reached(h, s) /\ Kind[s] = "gated" /\ Entry(s) # 0
                      /\ outcome[Entry(s)] \in {"denied", "failed"}
  /\ Finish(h)

(* Verification, an input or a step fails. *)
Fails(h) == Finish(h)

(* Mutant of Completes: the record stays. *)
CompletesOnly(h) ==
  /\ at[h] = NumSteps + 1
  /\ Goto(h, "walk", "idle")
  /\ over' = TRUE
  /\ UNCHANGED <<handler, registry, queue, session, effects, seamAudits, overlap>>

Completes(h) == at[h] = NumSteps + 1 /\ Finish(h)

-----------------------------------------------------------------------------
(* writeFlightPlanPending and recordSeamAudit.                             *)

(* The response at a seam carries the run id: the agent can resume.  The   *)
(* response at an approval does not.                                       *)
Respond(h) == known' = TRUE /\ UNCHANGED <<launched, calls>>

(* Mutant of Park: only the seams' outputs are kept. *)
ParkSeams(h) ==
  /\ parked' = TRUE
  /\ memo' = out[h] \cap Seams
  /\ Goto(h, "suspend", IF at[h] \in Seams THEN "audit" ELSE "idle")
  /\ UNCHANGED <<handler, linked, audited, queue, session, history>>

Park(h) ==
  /\ PutRecord(h)
  /\ Goto(h, "suspend", IF at[h] \in Seams THEN "audit" ELSE "idle")
  /\ UNCHANGED <<handler, linked, audited, queue, session, history>>

(* Stamped already, or the best-effort record is not written. *)
SkipSeamAudit(h) ==
  /\ Goto(h, "audit", "idle")
  /\ Respond(h)
  /\ UNCHANGED <<handler, registry, queue, history>>

RecordSeamAudit(h) ==
  /\ at[h] \notin audited
  /\ Goto(h, "audit", "stamp")
  /\ seamAudits' = [seamAudits EXCEPT ![at[h]] = @ + 1]
  /\ UNCHANGED <<handler, registry, queue, session, effects, overlap, over>>

(* Mutant of StampSeam: the stamp is forgotten. *)
NoStamp(h) ==
  /\ Goto(h, "stamp", "idle")
  /\ Respond(h)
  /\ UNCHANGED <<handler, registry, queue, history>>

StampSeam(h) ==
  /\ Goto(h, "stamp", "idle")
  /\ audited' = audited \cup {at[h]}
  /\ Respond(h)
  /\ UNCHANGED <<handler, parked, memo, linked, queue, history>>

-----------------------------------------------------------------------------
(* The user, on the approvals page. *)
Decide ==
  /\ \E id \in Ids, verdict \in {"approved", "denied"} :
       /\ outcome[id] = "pending"
       /\ outcome' = [outcome EXCEPT ![id] = verdict]
       /\ consented' = IF verdict = "approved" THEN consented \cup {id} ELSE consented
  /\ UNCHANGED <<pc, handler, registry, asker, entries, respawned, session, dispatched,
                 executed, seamAudits, overlap, over>>

(* What the replay of the journal makes of an entry: one that was running  *)
(* is failed, as is one whose action has gone.                             *)
Replayed(id, gone) ==
  IF outcome[id] = "running" \/ (outcome[id] \in {"pending", "approved"} /\ id \in gone)
  THEN "failed" ELSE outcome[id]

(* The daemon restarts: registry and handlers are gone, entries are not.   *)
(* Every entry that is still open gets an executor, also one that a run    *)
(* registered and would have dispatched, or has dispatched, itself.  (The  *)
(* journal is taken as whole: ActionApprovals has its losses.)             *)
Restart ==
  /\ launched
  /\ pc' = [h \in Handlers |-> "idle"]
  /\ Delete
  /\ linked' = [r \in Refs |-> 0]
  /\ audited' = {}
  /\ \E gone \in SUBSET Ids :
       /\ outcome' = [id \in Ids |-> Replayed(id, gone)]
       /\ respawned' = {id \in Ids : outcome'[id] \in {"pending", "approved"}}
  /\ UNCHANGED <<handler, asker, entries, session, history>>

(* executeApprovedAction past its wait: the entry is marked running before *)
(* the action is executed.                                                 *)
SetRunning(id) ==
  /\ id \in respawned /\ outcome[id] = "approved"
  /\ outcome' = [outcome EXCEPT ![id] = "running"]
  /\ UNCHANGED <<pc, handler, registry, asker, entries, respawned, session, history>>

(* The action is executed, with success or not. *)
ExecuteRespawned(id) ==
  /\ id \in respawned /\ outcome[id] = "running"
  /\ \E final \in {"completed", "failed"} : outcome' = [outcome EXCEPT ![id] = final]
  /\ executed' = [executed EXCEPT ![asker[id]] = @ + 1]
  /\ UNCHANGED <<pc, handler, registry, asker, entries, respawned, session, dispatched,
                 consented, seamAudits, overlap, over>>

Call(h) ==
  \/ LaunchFlightPlan(h)
  \/ ResumeFlightPlan(h)
  \/ MergeOutputs(h)
  \/ Reread(h)

Walk(h) ==
  \/ InjectMemoized(h)
  \/ RunUnattended(h)
  \/ SuspendAtSeam(h)
  \/ FirstReach(h)
  \/ Register(h)
  \/ StillPending(h)
  \/ Dispatch(h)
  \/ Denied(h)
  \/ Fails(h)
  \/ Completes(h)

Suspend(h) ==
  \/ Park(h)
  \/ SkipSeamAudit(h)
  \/ RecordSeamAudit(h)
  \/ StampSeam(h)

Next ==
  \/ \E h \in Handlers : Call(h) \/ Walk(h) \/ Suspend(h)
  \/ Decide
  \/ Expire
  \/ Restart
  \/ \E id \in Ids : SetRunning(id) \/ ExecuteRespawned(id)

Spec == Init /\ [][Next]_vars

-----------------------------------------------------------------------------
(* Properties.                                                             *)

(* No gated action is dispatched by the run, or executed by an executor   *)
(* that a restart respawned, unless the user approved an entry that this   *)
(* run registered for the same action, overlapping resumes or not          *)
(* (flightplanDispatcher: "a dispatch here is always an approved (or read) *)
(* action").                                                               *)
EffectsAreConsented ==
  \A s \in Steps : dispatched[s] # 0 \/ executed[s] # 0 =>
    \E id \in consented : asker[id] # 0 /\ Ref[asker[id]] = Ref[s]

(* Calls that do not overlap: the run dispatches every effect at most once *)
(* across its suspends and resumes, failures, expiry and restarts.  After  *)
(* a restart the executor respawned for the step's approval may fire the   *)
(* effect too, even one the run had dispatched, but over any number of     *)
(* restarts only once.                                                     *)
OnceWhenSerial ==
  ~overlap => \A s \in Steps : dispatched[s] <= 1 /\ executed[s] <= 1

(* Calls that do not overlap: a resume that is still pending suspends      *)
(* again without asking the user twice for one action.                     *)
AskedOnceWhenSerial ==
  ~overlap => \A i, j \in Ids :
    asker[i] # 0 /\ asker[j] # 0 /\ Ref[asker[i]] = Ref[asker[j]] => i = j

(* Calls that do not overlap: one audit record per seam. *)
AuditedOnceWhenSerial == ~overlap => \A s \in Steps : seamAudits[s] <= 1

(* Calls that do not overlap: a run that completed or failed cannot be     *)
(* resumed.                                                                *)
OverIsGoneWhenSerial == ~overlap /\ over => ~parked

(* ResumeFlightPlan's promise, "exactly-once for effects", of the          *)
(* dispatches of a run whose calls nothing serializes.                     *)
ExactlyOnce == \A s \in Steps : dispatched[s] <= 1
=============================================================================
