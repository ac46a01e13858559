---------------------------- MODULE IntentGrants ----------------------------
(***************************************************************************)
(* Intents, the policy that judges them, the approvals it may ask for, the *)
(* execution grants that follow and the executions that consume them: the  *)
(* handlers of internal/app/handlers.go over the in-memory stores.         *)
(*                                                                         *)
(* A request is a handler goroutine, here an element of Requests used for  *)
(* at most one request.  Every store call takes the store's lock on its    *)
(* own, so every store call is a step and other requests run between two   *)
(* of them.  Stores hold whole records: a handler keeps the copy it read   *)
(* and writes the whole copy back.  Ids are fresh in the code; here a      *)
(* grant and an execution bear the name of the request that creates them,  *)
(* and an intent has at most one approval, which bears the intent's name.  *)
(*                                                                         *)
(* A request the handler refuses (404, 400) changes nothing and is left    *)
(* out.  Trace events are appended and never read: left out too.           *)
(***************************************************************************)
EXTENDS Naturals

CONSTANTS Intents,      \* intents agents submit
          WriteIntents, \* those of a write action (isWriteAction)
          Policies,     \* policy ids, each with one rule that matches
          Priority,     \* the rule's priority, a function on Policies
          Requests,     \* request handlers
          NoGrant       \* an absent ExecutionGrantId

ASSUME IntentAssumption == Intents # {} /\ WriteIntents \subseteq Intents
ASSUME PriorityAssumption == Priority \in [Policies -> Nat]
ASSUME NoGrantAssumption == NoGrant \notin Requests

VARIABLES
  policies,   \* the policy store
  intents,    \* the intent store
  approvals,  \* the approval store: the status of the intent's approval
  grants,     \* the grant store
  execs,      \* the execution store
  pc,         \* where each request is
  on,         \* the intent a request is about
  ref,        \* the grant a run presents, the execution a callback names
  want,       \* the verdict or outcome a request is about to write
  snap,       \* the intent record a request read
  elapsed,    \* grants whose five minutes are over
  performed,  \* history: times the connector was called under each grant
  extra,      \* history: reads of an active grant while another run held it unspent
  contested,  \* history: intents with two deciders in flight at once
  raced,      \* history: intents with two requests in flight at once
  appended    \* history: evidence requests that ended, per intent

stores == <<policies, intents, approvals, grants, execs>>
locals == <<on, ref, want, snap>>
history == <<performed, extra, contested, raced, appended>>
vars == <<stores, pc, locals, elapsed, history>>

Effects       == {"allow", "deny", "require_approval", "allow_with_modification"}
Verdicts      == {"approved", "denied", "modified"}
Outcomes      == {"succeeded", "failed"}
IntentStatus  == {"none", "pending_policy", "pending_approval", "approved", "denied",
                  "executing"} \cup Outcomes
(* What a callback may report: one of the API's statuses, or any other     *)
(* string, which nothing checks.                                           *)
Reports       == {"accepted", "running", "cancelled", "unlisted"} \cup Outcomes
ExecStatus    == {"none", "running"} \cup Outcomes \cup Reports
IntentRecords == [status : IntentStatus, grant : Requests \cup {NoGrant}, evidence : Nat]
GrantRecords  == [status : {"none", "active", "consumed", "expired"}, intent : Intents]
PolicyRecords == Effects \cup {"inactive"}   \* the effect of the active rule

(* Where a request on an intent can be: the steps of CreateIntent, of the  *)
(* deciders, of AppendIntentEvidence and of RunExecution.                  *)
Creating == {"evaluating", "judged", "granted", "asked"}
Deciding == {"deciding", "decided", "loaded", "issued"}
Running  == {"checked", "consuming", "recording", "starting", "connecting", "settling", "closing"}
OnIntent == Creating \cup Deciding \cup Running \cup {"evidence"}
Points   == OnIntent \cup {"idle", "done", "policy", "callback"}

InFlight(i) == {h \in Requests : pc[h] \in OnIntent /\ on[h] = i}
Deciders(i) == {h \in InFlight(i) : pc[h] \in Deciding}
Holders(g)  == {h \in Requests : pc[h] \in {"checked", "consuming"} /\ ref[h] = g}
GrantsOf(i) == {g \in Requests : grants[g].status # "none" /\ grants[g].intent = i}

TypeOK ==
  /\ policies \in [Policies -> PolicyRecords]
  /\ intents \in [Intents -> IntentRecords]
  /\ approvals \in [Intents -> {"none", "pending"} \cup Verdicts]
  /\ grants \in [Requests -> GrantRecords]
  /\ execs \in [Requests -> ExecStatus]
  /\ pc \in [Requests -> Points]
  /\ on \in [Requests -> Intents]
  /\ ref \in [Requests -> Requests]
  /\ want \in [Requests -> {"none"} \cup Effects \cup Verdicts \cup Outcomes]
  /\ snap \in [Requests -> IntentRecords]
  /\ elapsed \in SUBSET Requests
  /\ performed \in [Requests -> Nat]
  /\ extra \in [Requests -> Nat]
  /\ contested \in SUBSET Intents
  /\ raced \in SUBSET Intents
  /\ appended \in [Intents -> Nat]

NewIntent(s) == [status |-> s, grant |-> NoGrant, evidence |-> 0]

AnIntent == CHOOSE i \in Intents : TRUE

Init ==
  /\ policies \in [Policies -> PolicyRecords]
  /\ intents = [i \in Intents |-> NewIntent("none")]
  /\ approvals = [i \in Intents |-> "none"]
  /\ grants = [g \in Requests |-> [status |-> "none", intent |-> AnIntent]]
  /\ execs = [e \in Requests |-> "none"]
  /\ pc = [h \in Requests |-> "idle"]
  /\ on = [h \in Requests |-> AnIntent]
  /\ ref = [h \in Requests |-> h]
  /\ want = [h \in Requests |-> "none"]
  /\ snap = [h \in Requests |-> NewIntent("none")]
  /\ elapsed = {}
  /\ performed = [g \in Requests |-> 0]
  /\ extra = [g \in Requests |-> 0]
  /\ contested = {}
  /\ raced = {}
  /\ appended = [i \in Intents |-> 0]

Go(h, p) == pc' = [pc EXCEPT ![h] = p]

(* The handler returns: its variables are gone. *)
End(h) ==
  /\ Go(h, "done")
  /\ ref' = [ref EXCEPT ![h] = h]
  /\ want' = [want EXCEPT ![h] = "none"]
  /\ snap' = [snap EXCEPT ![h] = NewIntent("none")]
  /\ UNCHANGED on

(* A request on intent i begins. *)
Enter(h, i, p) ==
  /\ pc[h] = "idle"
  /\ Go(h, p)
  /\ on' = [on EXCEPT ![h] = i]
  /\ raced' = IF InFlight(i) = {} THEN raced ELSE raced \cup {i}

(* Store.Update of the whole intent record a request holds. *)
StoreIntent(h, r) == intents' = [intents EXCEPT ![on[h]] = r]

StoreGrant(g, s) == grants' = [grants EXCEPT ![g].status = s]

-----------------------------------------------------------------------------
(* Policy: RuleEngine.Evaluate and the policy handlers.                    *)

Matches == {p \in Policies : policies[p] # "inactive"}

(* The rule of the highest priority wins; among equals any, since the      *)
(* store lists a map and the sort is not stable.  With no rule a write     *)
(* action asks the user and any other is allowed.                          *)
Dispositions(i) ==
  IF Matches = {}
  THEN {IF i \in WriteIntents THEN "require_approval" ELSE "allow"}
  ELSE {policies[p] : p \in {q \in Matches : \A r \in Matches : Priority[q] >= Priority[r]}}

(* CreatePolicy, and UpdatePolicy: Get, then Update of the copy with the   *)
(* fields the request carries.  A request may carry all of them, so any    *)
(* record can be what is written.                                          *)
StorePolicy(h, p, r) ==
  /\ pc[h] = "idle"
  /\ policies' = [policies EXCEPT ![p] = r]
  /\ End(h)
  /\ UNCHANGED <<intents, approvals, grants, execs, elapsed, history>>

-----------------------------------------------------------------------------
(* CreateIntent.                                                           *)

CreateIntent(h, i) ==
  /\ intents[i].status = "none"
  /\ Enter(h, i, "evaluating")
  /\ intents' = [intents EXCEPT ![i] = NewIntent("pending_policy")]
  /\ snap' = [snap EXCEPT ![h] = NewIntent("pending_policy")]
  /\ UNCHANGED <<policies, approvals, grants, execs, ref, want, elapsed,
                 performed, extra, contested, appended>>

Evaluate(h, d) ==
  /\ pc[h] = "evaluating"
  /\ d \in Dispositions(on[h])
  /\ want' = [want EXCEPT ![h] = d]
  /\ Go(h, "judged")
  /\ UNCHANGED <<stores, on, ref, snap, elapsed, history>>

(* newExecutionGrant and grants.Create. *)
NewExecutionGrant(h) ==
  grants' = [grants EXCEPT ![h] = [status |-> "active", intent |-> on[h]]]

(* What each disposition does before the intent is stored: a grant, an     *)
(* approval request (orchestrator.Request), or nothing.                    *)
GrantAllowed(h) ==
  /\ pc[h] = "judged"
  /\ want[h] = "allow"
  /\ NewExecutionGrant(h)
  /\ Go(h, "granted")
  /\ UNCHANGED <<policies, intents, approvals, execs, locals, elapsed, history>>

RequestApproval(h) ==
  /\ pc[h] = "judged"
  /\ want[h] = "require_approval"
  /\ approvals' = [approvals EXCEPT ![on[h]] = "pending"]
  /\ Go(h, "asked")
  /\ UNCHANGED <<policies, intents, grants, execs, locals, elapsed, history>>

(* intents.Update of the envelope built by this request: evidence another  *)
(* request appended in between, or the verdict of a quick approver, is     *)
(* overwritten.                                                            *)
StoreDecision(h) ==
  /\ \/ pc[h] = "granted" /\ StoreIntent(h, [snap[h] EXCEPT !.status = "approved", !.grant = h])
     \/ pc[h] = "asked" /\ StoreIntent(h, [snap[h] EXCEPT !.status = "pending_approval"])
     \/ pc[h] = "judged" /\ want[h] = "deny" /\ StoreIntent(h, [snap[h] EXCEPT !.status = "denied"])
     \/ pc[h] = "judged" /\ want[h] = "allow_with_modification" /\ StoreIntent(h, snap[h])
  /\ End(h)
  /\ UNCHANGED <<policies, approvals, grants, execs, elapsed, history>>

-----------------------------------------------------------------------------
(* ApproveRequest, DenyRequest, ModifyRequest over the orchestrator.       *)

(* Mutant of ReadApproval: the status is not looked at. *)
ReadAnyApproval(h, i, v) ==
  /\ approvals[i] # "none"
  /\ Enter(h, i, "deciding")
  /\ want' = [want EXCEPT ![h] = v]
  /\ contested' = IF Deciders(i) = {} THEN contested ELSE contested \cup {i}
  /\ UNCHANGED <<stores, ref, snap, elapsed, performed, extra, appended>>

(* Orchestrator.Approve, Deny and Modify: approvals.Get; only a pending    *)
(* approval passes.                                                        *)
ReadApproval(h, i, v) ==
  /\ approvals[i] = "pending"
  /\ Enter(h, i, "deciding")
  /\ want' = [want EXCEPT ![h] = v]
  /\ contested' = IF Deciders(i) = {} THEN contested ELSE contested \cup {i}
  /\ UNCHANGED <<stores, ref, snap, elapsed, performed, extra, appended>>

ApproveRequest(h, i) == ReadApproval(h, i, "approved")
DenyRequest(h, i)    == ReadApproval(h, i, "denied")
ModifyRequest(h, i)  == ReadApproval(h, i, "modified")

(* approvals.Update *)
WriteApproval(h) ==
  /\ pc[h] = "deciding"
  /\ approvals' = [approvals EXCEPT ![on[h]] = want[h]]
  /\ Go(h, "decided")
  /\ UNCHANGED <<policies, intents, grants, execs, locals, elapsed, history>>

(* intents.Get *)
LoadIntent(h) ==
  /\ pc[h] = "decided"
  /\ snap' = [snap EXCEPT ![h] = intents[on[h]]]
  /\ Go(h, "loaded")
  /\ UNCHANGED <<stores, on, ref, want, elapsed, history>>

IssueGrant(h) ==
  /\ pc[h] = "loaded"
  /\ want[h] # "denied"
  /\ NewExecutionGrant(h)
  /\ Go(h, "issued")
  /\ UNCHANGED <<policies, intents, approvals, execs, locals, elapsed, history>>

(* Mutants of StoreVerdict: the approval's status is taken for the         *)
(* intent's; the grant's id is not put into the intent.                    *)
StoreVerdictAsIs(h) ==
  /\ \/ pc[h] = "loaded" /\ want[h] = "denied" /\ StoreIntent(h, [snap[h] EXCEPT !.status = "denied"])
     \/ pc[h] = "issued" /\ StoreIntent(h, [snap[h] EXCEPT !.status = want[h], !.grant = h])
  /\ End(h)
  /\ UNCHANGED <<policies, approvals, grants, execs, elapsed, history>>

StoreVerdictOnly(h) ==
  /\ \/ pc[h] = "loaded" /\ want[h] = "denied" /\ StoreIntent(h, [snap[h] EXCEPT !.status = "denied"])
     \/ pc[h] = "issued" /\ StoreIntent(h, [snap[h] EXCEPT !.status = "approved"])
  /\ End(h)
  /\ UNCHANGED <<policies, approvals, grants, execs, elapsed, history>>

StoreVerdict(h) ==
  /\ \/ pc[h] = "loaded" /\ want[h] = "denied" /\ StoreIntent(h, [snap[h] EXCEPT !.status = "denied"])
     \/ pc[h] = "issued" /\ StoreIntent(h, [snap[h] EXCEPT !.status = "approved", !.grant = h])
  /\ End(h)
  /\ UNCHANGED <<policies, approvals, grants, execs, elapsed, history>>

-----------------------------------------------------------------------------
(* AppendIntentEvidence.                                                   *)

ReadForEvidence(h, i) ==
  /\ intents[i].status # "none"
  /\ Enter(h, i, "evidence")
  /\ snap' = [snap EXCEPT ![h] = intents[i]]
  /\ UNCHANGED <<stores, ref, want, elapsed, performed, extra, contested, appended>>

StoreEvidence(h) ==
  /\ pc[h] = "evidence"
  /\ StoreIntent(h, [snap[h] EXCEPT !.evidence = @ + 1])
  /\ appended' = [appended EXCEPT ![on[h]] = @ + 1]
  /\ End(h)
  /\ UNCHANGED <<policies, approvals, grants, execs, elapsed,
                 performed, extra, contested, raced>>

-----------------------------------------------------------------------------
(* RunExecution and ExecutionCallback.                                     *)

(* grants.Get; only an active grant passes. *)
ReadGrant(h, g) ==
  /\ grants[g].status = "active"
  /\ Enter(h, grants[g].intent, "checked")
  /\ ref' = [ref EXCEPT ![h] = g]
  /\ extra' = IF Holders(g) = {} THEN extra ELSE [extra EXCEPT ![g] = @ + 1]
  /\ UNCHANGED <<stores, want, snap, elapsed, performed, contested, appended>>

(* The grant's time is over: it is stored as expired. *)
ExpireGrant(h) ==
  /\ pc[h] = "checked"
  /\ ref[h] \in elapsed
  /\ StoreGrant(ref[h], "expired")
  /\ End(h)
  /\ UNCHANGED <<policies, intents, approvals, execs, elapsed, history>>

(* It is not: intents.Get. *)
LoadForRun(h) ==
  /\ pc[h] = "checked"
  /\ ref[h] \notin elapsed
  /\ snap' = [snap EXCEPT ![h] = intents[on[h]]]
  /\ Go(h, "consuming")
  /\ UNCHANGED <<stores, on, ref, want, elapsed, history>>

(* Mutant of ConsumeGrant: the consumed grant is not stored. *)
ConsumesCopyOnly(h) ==
  /\ pc[h] = "consuming"
  /\ Go(h, "recording")
  /\ UNCHANGED <<stores, locals, elapsed, history>>

(* grants.Update of the copy, marked consumed. *)
ConsumeGrant(h) ==
  /\ pc[h] = "consuming"
  /\ StoreGrant(ref[h], "consumed")
  /\ Go(h, "recording")
  /\ UNCHANGED <<policies, intents, approvals, execs, locals, elapsed, history>>

CreateExecution(h) ==
  /\ pc[h] = "recording"
  /\ execs' = [execs EXCEPT ![h] = "running"]
  /\ Go(h, "starting")
  /\ UNCHANGED <<policies, intents, approvals, grants, locals, elapsed, history>>

StoreExecuting(h) ==
  /\ pc[h] = "starting"
  /\ StoreIntent(h, [snap[h] EXCEPT !.status = "executing"])
  /\ Go(h, "connecting")
  /\ UNCHANGED <<policies, approvals, grants, execs, locals, elapsed, history>>

(* conn.Execute: from here on the effect may have happened, whatever the   *)
(* connector answers.                                                      *)
Execute(h, s) ==
  /\ pc[h] = "connecting"
  /\ performed' = [performed EXCEPT ![ref[h]] = @ + 1]
  /\ want' = [want EXCEPT ![h] = s]
  /\ Go(h, "settling")
  /\ UNCHANGED <<stores, on, ref, snap, elapsed, extra, contested, raced, appended>>

(* No connector, no credential, a locked vault or a credential that does   *)
(* not decrypt: the connector is not called.                               *)
FailBeforeConnector(h) ==
  /\ pc[h] = "connecting"
  /\ want' = [want EXCEPT ![h] = "failed"]
  /\ Go(h, "settling")
  /\ UNCHANGED <<stores, on, ref, snap, elapsed, history>>

(* finishExecution: executions.Update, then intents.Update of the copy     *)
(* that was read before the connector was called.                          *)
FinishExecution(h) ==
  /\ pc[h] = "settling"
  /\ execs' = [execs EXCEPT ![h] = want[h]]
  /\ Go(h, "closing")
  /\ UNCHANGED <<policies, intents, approvals, grants, locals, elapsed, history>>

FinishIntent(h) ==
  /\ pc[h] = "closing"
  /\ StoreIntent(h, [snap[h] EXCEPT !.status = want[h]])
  /\ End(h)
  /\ UNCHANGED <<policies, approvals, grants, execs, elapsed, history>>

(* ExecutionCallback: executions.Get, then Update with the status of the   *)
(* request as it came.                                                     *)
ReadExecution(h, e) ==
  /\ pc[h] = "idle"
  /\ execs[e] # "none"
  /\ ref' = [ref EXCEPT ![h] = e]
  /\ Go(h, "callback")
  /\ UNCHANGED <<stores, on, want, snap, elapsed, history>>

StoreCallback(h, s) ==
  /\ pc[h] = "callback"
  /\ execs' = [execs EXCEPT ![ref[h]] = s]
  /\ End(h)
  /\ UNCHANGED <<policies, intents, approvals, grants, elapsed, history>>

(* The grant's ExpiresAt passes; nobody looks at it once it is spent. *)
Elapse(g) ==
  /\ grants[g].status = "active" \/ Holders(g) # {}
  /\ g \notin elapsed
  /\ elapsed' = elapsed \cup {g}
  /\ UNCHANGED <<stores, pc, locals, history>>

-----------------------------------------------------------------------------
Request(h) ==
  \/ \E p \in Policies, r \in PolicyRecords : StorePolicy(h, p, r)
  \/ \E i \in Intents : \/ CreateIntent(h, i)
                        \/ ApproveRequest(h, i) \/ DenyRequest(h, i) \/ ModifyRequest(h, i)
                        \/ ReadForEvidence(h, i)
  \/ \E g \in Requests : ReadGrant(h, g) \/ ReadExecution(h, g)

Step(h) ==
  \/ \E d \in Effects : Evaluate(h, d)
  \/ GrantAllowed(h) \/ RequestApproval(h) \/ StoreDecision(h)
  \/ WriteApproval(h) \/ LoadIntent(h) \/ IssueGrant(h) \/ StoreVerdict(h)
  \/ StoreEvidence(h)
  \/ ExpireGrant(h) \/ LoadForRun(h) \/ ConsumeGrant(h) \/ CreateExecution(h)
  \/ StoreExecuting(h) \/ FailBeforeConnector(h) \/ FinishExecution(h) \/ FinishIntent(h)
  \/ \E s \in Outcomes : Execute(h, s)
  \/ \E s \in Reports : StoreCallback(h, s)

Next == \E h \in Requests : Request(h) \/ Step(h) \/ Elapse(h)

Spec == Init /\ [][Next]_vars
-----------------------------------------------------------------------------
(* Properties.                                                             *)

(* A grant is a single-use permit: the connector is called under it only   *)
(* after policy or the user issued it, and once more only per run request  *)
(* that read it active while another run still held it unspent.            *)
Permit == INSTANCE SingleUsePermit WITH
  Subjects <- Requests,
  issued   <- {g \in Requests : grants[g].status # "none"},
  spare    <- [g \in Requests |-> IF grants[g].status = "none" THEN 0
                                 ELSE 1 + extra[g] - performed[g]],
  used     <- performed

GrantIsSingleUse == Permit!Spec

(* Approve, Deny and Modify read the status and write it in two calls.     *)
(* Unless two of them were in flight at once, an approval is decided once: *)
(* at most one grant follows from it, and none once it was denied.         *)
DecidedOnceUncontested ==
  \A i \in Intents \ contested :
    /\ \A g, k \in GrantsOf(i) : g = k
    /\ approvals[i] \in {"pending", "denied"} => GrantsOf(i) = {}

(* The intent is written back whole by every handler.  If no two requests  *)
(* on it ever overlapped, then between requests its record agrees with the *)
(* approval, the grant and the executions, and no evidence is missing.     *)
RecordAgrees(i) ==
  LET r == intents[i] IN
  /\ r.evidence = appended[i]
  /\ r.status = "pending_approval" <=> approvals[i] = "pending"
  /\ approvals[i] = "denied" => r.status = "denied"
  /\ r.status \in {"none", "pending_policy", "pending_approval", "denied"} => GrantsOf(i) = {}
  /\ r.status \in {"approved", "succeeded", "failed"} => GrantsOf(i) = {r.grant}
  /\ r.status = "approved" <=> \E g \in GrantsOf(i) : grants[g].status # "consumed"
  /\ r.status = "approved" => performed[r.grant] = 0
  /\ r.status = "succeeded" => performed[r.grant] = 1

SerialRecordAgrees ==
  \A i \in Intents : i \notin raced /\ InFlight(i) = {} => RecordAgrees(i)
=============================================================================
