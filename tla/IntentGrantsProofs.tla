-------------------------- MODULE IntentGrantsProofs --------------------------
(***************************************************************************)
(* Proofs about IntentGrants, for every set of intents, of policies and of *)
(* requests.                                                               *)
(***************************************************************************)
EXTENDS IntentGrants, FiniteSets, FiniteSetTheorems, TLAPS

-----------------------------------------------------------------------------
(* Inductive invariants.                                                   *)

(* What a request is about to write is of the kind its place calls for. *)
WantInv ==
  \A h \in Requests :
    /\ pc[h] \in Deciding => want[h] \in Verdicts
    /\ pc[h] \in {"settling", "closing"} => want[h] \in Outcomes

(* Runs that have read a grant and not yet called the connector; those of  *)
(* them that have spent it.                                                *)
Spending(g) == {h \in Requests : pc[h] \in {"recording", "starting", "connecting"} /\ ref[h] = g}
Active(g) == Holders(g) \cup Spending(g)

(* A grant bears its issuer's name and is issued once.  While it is active *)
(* no run has spent it, and every run but one is an extra read.            *)
GrantInv ==
  \A g \in Requests :
    /\ grants[g].status # "none" => pc[g] \in {"granted", "issued", "done"}
    /\ grants[g].status = "none" => Active(g) = {} /\ extra[g] = 0 /\ performed[g] = 0
    /\ grants[g].status = "active" => Spending(g) = {} /\ performed[g] = 0
    /\ IsFiniteSet(Active(g))
    /\ performed[g] + Cardinality(Active(g)) <= 1 + extra[g]

(* An intent is created by one request, which finds neither an approval    *)
(* nor a grant of it, and no handler writes it back as absent.             *)
CreateInv ==
  /\ \A h \in Requests :
       pc[h] \in OnIntent \ {"deciding", "decided", "checked"} => snap[h].status # "none"
  /\ \A i \in Intents :
       /\ intents[i].status = "none" =>
            InFlight(i) = {} /\ approvals[i] = "none" /\ GrantsOf(i) = {}
       /\ \A h, k \in InFlight(i) : pc[h] \in Creating /\ pc[k] \in Creating => h = k
       /\ \A h \in InFlight(i) :
            pc[h] \in {"evaluating", "judged"} => approvals[i] = "none" /\ GrantsOf(i) = {}
       /\ approvals[i] = "none" => Deciders(i) = {}

(* A lone decider's verdict is the approval's, and it finds no grant. *)
DecideInv ==
  \A i \in Intents \ contested :
    /\ \A h, k \in Deciders(i) : h = k
    /\ \A h \in Deciders(i) :
         /\ approvals[i] = IF pc[h] = "deciding" THEN "pending" ELSE want[h]
         /\ pc[h] = "issued" => want[h] # "denied"
         /\ pc[h] # "issued" => GrantsOf(i) = {}
    /\ \A g, k \in GrantsOf(i) : g = k
    /\ approvals[i] \in {"pending", "denied"} => GrantsOf(i) = {}

(* The grants of an intent: none, or only g. *)
Of(g, i) == grants[g].status # "none" /\ grants[g].intent = i
NoneOf(i) == \A g \in Requests : ~Of(g, i)
OnlyOf(g, i) == g \in Requests /\ Of(g, i) /\ \A k \in Requests : Of(k, i) => k = g
Unspent(g) == grants[g].status # "consumed" /\ performed[g] = 0

(* An intent between two requests. *)
Resting(i) ==
  /\ intents[i].evidence = appended[i]
  /\ intents[i].status = "none" => appended[i] = 0
  /\ intents[i].status \in {"none", "pending_policy"} => approvals[i] = "none"
  /\ intents[i].status = "pending_approval" <=> approvals[i] = "pending"
  /\ approvals[i] = "denied" => intents[i].status = "denied"
  /\ intents[i].status # "executing"
  /\ intents[i].status \in {"none", "pending_policy", "pending_approval", "denied"} => NoneOf(i)
  /\ intents[i].status \in {"approved", "succeeded", "failed"} => OnlyOf(intents[i].grant, i)
  /\ intents[i].status = "approved" => Unspent(intents[i].grant)
  /\ intents[i].status \in Outcomes => grants[intents[i].grant].status = "consumed"
  /\ intents[i].status = "succeeded" => performed[intents[i].grant] = 1

(* What the one request in flight on an intent has done to it so far. *)
CreatePhase(h, i) ==
  /\ snap[h] = intents[i] /\ intents[i].status = "pending_policy"
  /\ approvals[i] = IF pc[h] = "asked" THEN "pending" ELSE "none"
  /\ pc[h] = "granted" => OnlyOf(h, i) /\ Unspent(h)
  /\ pc[h] # "granted" => NoneOf(i)

DecidePhase(h, i) ==
  /\ intents[i].status = "pending_approval"
  /\ pc[h] \in {"loaded", "issued"} => snap[h] = intents[i]
  /\ approvals[i] = IF pc[h] = "deciding" THEN "pending" ELSE want[h]
  /\ pc[h] = "issued" => want[h] # "denied" /\ OnlyOf(h, i) /\ Unspent(h)
  /\ pc[h] # "issued" => NoneOf(i)

RunPhase(h, i) ==
  /\ OnlyOf(ref[h], i) /\ intents[i].grant = ref[h]
  /\ approvals[i] \notin {"pending", "denied"}
  /\ pc[h] # "checked" => snap[h].evidence = intents[i].evidence /\ snap[h].grant = intents[i].grant
  /\ intents[i].status = IF pc[h] \in {"connecting", "settling", "closing"} THEN "executing" ELSE "approved"
  /\ pc[h] \in {"checked", "consuming"} => grants[ref[h]].status # "consumed"
  /\ pc[h] \notin {"checked", "consuming"} => grants[ref[h]].status = "consumed"
  /\ pc[h] \notin {"settling", "closing"} => performed[ref[h]] = 0
  /\ pc[h] \in {"settling", "closing"} /\ want[h] = "succeeded" => performed[ref[h]] = 1

Phase(h, i) ==
  /\ intents[i].evidence = appended[i]
  /\ pc[h] \in Creating => CreatePhase(h, i)
  /\ pc[h] \in Deciding => DecidePhase(h, i)
  /\ pc[h] \in Running => RunPhase(h, i)
  /\ pc[h] = "evidence" => snap[h] = intents[i] /\ Resting(i) /\ intents[i].status # "none"

(* As long as no two requests on the intent have overlapped. *)
Serial(i) ==
  /\ \A h, k \in InFlight(i) : h = k
  /\ InFlight(i) = {} => Resting(i)
  /\ \A h \in InFlight(i) : Phase(h, i)

(* A run is about the intent of the grant it presents. *)
SerialInv ==
  /\ \A h \in Requests : pc[h] \in Running => Of(ref[h], on[h])
  /\ \A i \in Intents : i \notin raced => Serial(i)

-----------------------------------------------------------------------------
(* The records that handlers build have the stores' types. *)
LEMMA RecordTypes ==
  /\ \A s \in IntentStatus : NewIntent(s) \in IntentRecords
  /\ \A r \in IntentRecords, s \in IntentStatus, g \in Requests :
       /\ [r EXCEPT !.status = s] \in IntentRecords
       /\ [r EXCEPT !.status = s, !.grant = g] \in IntentRecords
       /\ [r EXCEPT !.evidence = @ + 1] \in IntentRecords
       /\ [r EXCEPT !.status = s].status = s
       /\ [r EXCEPT !.status = s, !.grant = g].status = s
  /\ \A i \in Intents : [status |-> "active", intent |-> i] \in GrantRecords
  /\ \A r \in GrantRecords :
       /\ [r EXCEPT !.status = "expired"] \in GrantRecords
       /\ [r EXCEPT !.status = "consumed"] \in GrantRecords
       /\ r.intent \in Intents
<1>1. \A s \in IntentStatus : NewIntent(s) \in IntentRecords
  BY DEF NewIntent, IntentRecords
<1>2. ASSUME NEW r \in IntentRecords, NEW s \in IntentStatus, NEW g \in Requests
      PROVE  /\ [r EXCEPT !.status = s] \in IntentRecords
             /\ [r EXCEPT !.status = s, !.grant = g] \in IntentRecords
             /\ [r EXCEPT !.status = s].status = s
             /\ [r EXCEPT !.status = s, !.grant = g].status = s
  BY DEF IntentRecords
<1>3. ASSUME NEW r \in IntentRecords PROVE [r EXCEPT !.evidence = @ + 1] \in IntentRecords
  BY DEF IntentRecords
<1>4. \A i \in Intents : [status |-> "active", intent |-> i] \in GrantRecords
  BY DEF GrantRecords
<1>5. ASSUME NEW r \in GrantRecords
      PROVE  /\ [r EXCEPT !.status = "expired"] \in GrantRecords
             /\ [r EXCEPT !.status = "consumed"] \in GrantRecords
             /\ r.intent \in Intents
  BY DEF GrantRecords
<1> QED
  BY <1>1, <1>2, <1>3, <1>4, <1>5



(* Both hold throughout. *)
LEMMA GrantInvariant == Spec => [](TypeOK /\ WantInv /\ GrantInv)
<1>1. Init => TypeOK /\ WantInv /\ GrantInv
  <2> SUFFICES ASSUME Init PROVE TypeOK /\ WantInv /\ GrantInv
    OBVIOUS
  <2>1. AnIntent \in Intents
    BY IntentAssumption DEF AnIntent
  <2>2. NewIntent("none") \in IntentRecords
    BY RecordTypes DEF IntentStatus
  <2>3. TypeOK
    BY <2>1, <2>2 DEF Init, TypeOK, Points, GrantRecords, ExecStatus, Reports, Outcomes
  <2>4. WantInv
    BY DEF Init, WantInv, Deciding
  <2>5. \A g \in Requests : Active(g) = {} /\ Spending(g) = {}
    BY DEF Init, Active, Holders, Spending
  <2>6. GrantInv
    <3>1. \A g \in Requests : /\ IsFiniteSet(Active(g)) /\ Cardinality(Active(g)) = 0
                              /\ extra[g] = 0 /\ performed[g] = 0 /\ grants[g].status = "none"
      BY <2>5, FS_EmptySet DEF Init
    <3> QED
      BY <2>5, <3>1 DEF GrantInv
  <2> QED
    BY <2>3, <2>4, <2>6
(* Every step keeps the stores and the handlers' variables well-formed. *)
<1>2. TypeOK /\ WantInv /\ [Next]_vars => TypeOK' /\ WantInv'
  <2> SUFFICES ASSUME TypeOK, WantInv, [Next]_vars PROVE TypeOK' /\ WantInv'
    OBVIOUS
  <2>r. /\ {"none", "pending_policy", "pending_approval", "approved", "denied", "executing"} \subseteq IntentStatus
        /\ Outcomes \subseteq IntentStatus /\ Outcomes \subseteq ExecStatus /\ Reports \subseteq ExecStatus /\ "failed" \in Outcomes /\ "running" \in ExecStatus
    BY DEF IntentStatus, ExecStatus, Reports, Outcomes
  <2>n. ASSUME NEW S, NEW f \in [S -> Nat], NEW x \in S PROVE [f EXCEPT ![x] = @ + 1] \in [S -> Nat]
    OBVIOUS
  <2> USE RecordTypes, <2>r
  <2>e. ASSUME NEW h \in Requests, End(h)
        PROVE  /\ pc' \in [Requests -> Points] /\ on' = on
               /\ ref' \in [Requests -> Requests]
               /\ want' \in [Requests -> {"none"} \cup Effects \cup Verdicts \cup Outcomes]
               /\ snap' \in [Requests -> IntentRecords]
    BY <2>e DEF TypeOK, End, Go, Points
  <2>1. ASSUME NEW h \in Requests, NEW p \in Policies, NEW r \in PolicyRecords, StorePolicy(h, p, r) PROVE TypeOK' /\ WantInv'
    <3>1. TypeOK'
      BY <2>1, <2>e DEF TypeOK, StorePolicy, history
    <3>2. WantInv'
      BY <2>1 DEF TypeOK, WantInv, Deciding, StorePolicy, End, Go
    <3> QED
      BY <3>1, <3>2
  <2>2. ASSUME NEW h \in Requests, NEW i \in Intents, CreateIntent(h, i) PROVE TypeOK' /\ WantInv'
    <3>1. TypeOK'
      BY <2>2 DEF TypeOK, WantInv, Points, OnIntent, Creating, Deciding, Running, CreateIntent, Enter, Go
    <3>2. WantInv'
      BY <2>2 DEF TypeOK, WantInv, Deciding, CreateIntent, Enter, Go
    <3> QED
      BY <3>1, <3>2
  <2>3. ASSUME NEW h \in Requests, NEW i \in Intents, NEW v \in Verdicts, ReadApproval(h, i, v) PROVE TypeOK' /\ WantInv'
    <3>1. TypeOK'
      BY <2>3 DEF TypeOK, WantInv, Points, OnIntent, Creating, Deciding, Running, ReadApproval, Enter, Go, stores
    <3>2. WantInv'
      BY <2>3 DEF TypeOK, WantInv, Deciding, ReadApproval, Enter, Go, stores
    <3> QED
      BY <3>1, <3>2
  <2>4. ASSUME NEW h \in Requests, NEW i \in Intents, ReadForEvidence(h, i) PROVE TypeOK' /\ WantInv'
    <3>1. TypeOK'
      BY <2>4 DEF TypeOK, WantInv, Points, OnIntent, Creating, Deciding, Running, ReadForEvidence, Enter, Go, stores
    <3>2. WantInv'
      BY <2>4 DEF TypeOK, WantInv, Deciding, ReadForEvidence, Enter, Go, stores
    <3> QED
      BY <3>1, <3>2
  <2>5. ASSUME NEW h \in Requests, NEW g \in Requests, ReadGrant(h, g) PROVE TypeOK' /\ WantInv'
    <3>1. TypeOK'
      <4>1. extra' \in [Requests -> Nat]
        BY <2>5, <2>n DEF TypeOK, ReadGrant
      <4>2. grants[g].intent \in Intents
        BY DEF TypeOK
      <4>3. pc' \in [Requests -> Points] /\ on' \in [Requests -> Intents] /\ raced' \in SUBSET Intents
        BY <2>5, <4>2 DEF TypeOK, Points, OnIntent, Running, ReadGrant, Enter, Go
      <4> QED
        BY <2>5, <4>1, <4>3 DEF TypeOK, ReadGrant, stores
    <3>2. WantInv'
      BY <2>5 DEF TypeOK, WantInv, Deciding, ReadGrant, Enter, Go, stores
    <3> QED
      BY <3>1, <3>2
  <2>6. ASSUME NEW h \in Requests, NEW e \in Requests, ReadExecution(h, e) PROVE TypeOK' /\ WantInv'
    <3>1. TypeOK'
      BY <2>6 DEF TypeOK, WantInv, Points, OnIntent, Creating, Deciding, Running, ReadExecution, Go, stores, history
    <3>2. WantInv'
      BY <2>6 DEF TypeOK, WantInv, Deciding, ReadExecution, Go, stores, history
    <3> QED
      BY <3>1, <3>2
  <2>7. ASSUME NEW h \in Requests, NEW d \in Effects, Evaluate(h, d) PROVE TypeOK' /\ WantInv'
    <3>1. TypeOK'
      BY <2>7 DEF TypeOK, WantInv, Points, OnIntent, Creating, Deciding, Running, Evaluate, Go, stores, history
    <3>2. WantInv'
      BY <2>7 DEF TypeOK, WantInv, Deciding, Evaluate, Go, stores, history
    <3> QED
      BY <3>1, <3>2
  <2>8. ASSUME NEW h \in Requests, GrantAllowed(h) PROVE TypeOK' /\ WantInv'
    <3>1. TypeOK'
      BY <2>8 DEF TypeOK, WantInv, Points, OnIntent, Creating, Deciding, Running, GrantAllowed, NewExecutionGrant, Go, locals, history
    <3>2. WantInv'
      BY <2>8 DEF TypeOK, WantInv, Deciding, GrantAllowed, NewExecutionGrant, Go, locals, history
    <3> QED
      BY <3>1, <3>2
  <2>9. ASSUME NEW h \in Requests, RequestApproval(h) PROVE TypeOK' /\ WantInv'
    <3>1. TypeOK'
      BY <2>9 DEF TypeOK, WantInv, Points, OnIntent, Creating, Deciding, Running, RequestApproval, Go, locals, history
    <3>2. WantInv'
      BY <2>9 DEF TypeOK, WantInv, Deciding, RequestApproval, Go, locals, history
    <3> QED
      BY <3>1, <3>2
  <2>10. ASSUME NEW h \in Requests, StoreDecision(h) PROVE TypeOK' /\ WantInv'
    <3>1. TypeOK'
      <4>1. intents' \in [Intents -> IntentRecords]
        <5>1. PICK x \in IntentRecords : StoreIntent(h, x)
          BY <2>10 DEF TypeOK, StoreDecision
        <5> QED
          BY <5>1 DEF TypeOK, StoreIntent
      <4> QED
        BY <2>10, <2>e, <4>1 DEF TypeOK, StoreDecision, history
    <3>2. WantInv'
      BY <2>10 DEF TypeOK, WantInv, Deciding, StoreDecision, StoreIntent, End, Go, history
    <3> QED
      BY <3>1, <3>2
  <2>11. ASSUME NEW h \in Requests, WriteApproval(h) PROVE TypeOK' /\ WantInv'
    <3>1. TypeOK'
      BY <2>11 DEF TypeOK, WantInv, Points, OnIntent, Creating, Deciding, Running, WriteApproval, Go, locals, history
    <3>2. WantInv'
      BY <2>11 DEF TypeOK, WantInv, Deciding, WriteApproval, Go, locals, history
    <3> QED
      BY <3>1, <3>2
  <2>12. ASSUME NEW h \in Requests, LoadIntent(h) PROVE TypeOK' /\ WantInv'
    <3>1. TypeOK'
      BY <2>12 DEF TypeOK, WantInv, Points, OnIntent, Creating, Deciding, Running, LoadIntent, Go, stores, history
    <3>2. WantInv'
      BY <2>12 DEF TypeOK, WantInv, Deciding, LoadIntent, Go, stores, history
    <3> QED
      BY <3>1, <3>2
  <2>13. ASSUME NEW h \in Requests, IssueGrant(h) PROVE TypeOK' /\ WantInv'
    <3>1. TypeOK'
      BY <2>13 DEF TypeOK, WantInv, Points, OnIntent, Creating, Deciding, Running, IssueGrant, NewExecutionGrant, Go, locals, history
    <3>2. WantInv'
      BY <2>13 DEF TypeOK, WantInv, Deciding, IssueGrant, NewExecutionGrant, Go, locals, history
    <3> QED
      BY <3>1, <3>2
  <2>14. ASSUME NEW h \in Requests, StoreVerdict(h) PROVE TypeOK' /\ WantInv'
    <3>1. TypeOK'
      <4>1. intents' \in [Intents -> IntentRecords]
        <5>1. PICK x \in IntentRecords : StoreIntent(h, x)
          BY <2>14 DEF TypeOK, StoreVerdict
        <5> QED
          BY <5>1 DEF TypeOK, StoreIntent
      <4> QED
        BY <2>14, <2>e, <4>1 DEF TypeOK, StoreVerdict, history
    <3>2. WantInv'
      BY <2>14 DEF TypeOK, WantInv, Deciding, StoreVerdict, StoreIntent, End, Go, history
    <3> QED
      BY <3>1, <3>2
  <2>15. ASSUME NEW h \in Requests, StoreEvidence(h) PROVE TypeOK' /\ WantInv'
    <3>1. TypeOK'
      <4>1. intents' \in [Intents -> IntentRecords]
        BY <2>15 DEF TypeOK, StoreEvidence, StoreIntent
      <4>2. appended' \in [Intents -> Nat]
        BY <2>15, <2>n DEF TypeOK, StoreEvidence
      <4> QED
        BY <2>15, <2>e, <4>1, <4>2 DEF TypeOK, StoreEvidence
    <3>2. WantInv'
      BY <2>15 DEF TypeOK, WantInv, Deciding, StoreEvidence, StoreIntent, End, Go
    <3> QED
      BY <3>1, <3>2
  <2>16. ASSUME NEW h \in Requests, ExpireGrant(h) PROVE TypeOK' /\ WantInv'
    <3>1. TypeOK'
      BY <2>16 DEF TypeOK, WantInv, Points, OnIntent, Creating, Deciding, Running, ExpireGrant, StoreGrant, End, Go, history
    <3>2. WantInv'
      BY <2>16 DEF TypeOK, WantInv, Deciding, ExpireGrant, StoreGrant, End, Go, history
    <3> QED
      BY <3>1, <3>2
  <2>17. ASSUME NEW h \in Requests, LoadForRun(h) PROVE TypeOK' /\ WantInv'
    <3>1. TypeOK'
      BY <2>17 DEF TypeOK, WantInv, Points, OnIntent, Creating, Deciding, Running, LoadForRun, Go, stores, history
    <3>2. WantInv'
      BY <2>17 DEF TypeOK, WantInv, Deciding, LoadForRun, Go, stores, history
    <3> QED
      BY <3>1, <3>2
  <2>18. ASSUME NEW h \in Requests, ConsumeGrant(h) PROVE TypeOK' /\ WantInv'
    <3>1. TypeOK'
      BY <2>18 DEF TypeOK, WantInv, Points, OnIntent, Creating, Deciding, Running, ConsumeGrant, StoreGrant, Go, locals, history
    <3>2. WantInv'
      BY <2>18 DEF TypeOK, WantInv, Deciding, ConsumeGrant, StoreGrant, Go, locals, history
    <3> QED
      BY <3>1, <3>2
  <2>19. ASSUME NEW h \in Requests, CreateExecution(h) PROVE TypeOK' /\ WantInv'
    <3>1. TypeOK'
      BY <2>19 DEF TypeOK, WantInv, Points, OnIntent, Creating, Deciding, Running, CreateExecution, Go, locals, history
    <3>2. WantInv'
      BY <2>19 DEF TypeOK, WantInv, Deciding, CreateExecution, Go, locals, history
    <3> QED
      BY <3>1, <3>2
  <2>20. ASSUME NEW h \in Requests, StoreExecuting(h) PROVE TypeOK' /\ WantInv'
    <3>1. TypeOK'
      BY <2>20 DEF TypeOK, WantInv, Points, OnIntent, Creating, Deciding, Running, StoreExecuting, StoreIntent, Go, locals, history
    <3>2. WantInv'
      BY <2>20 DEF TypeOK, WantInv, Deciding, StoreExecuting, StoreIntent, Go, locals, history
    <3> QED
      BY <3>1, <3>2
  <2>21. ASSUME NEW h \in Requests, FailBeforeConnector(h) PROVE TypeOK' /\ WantInv'
    <3>1. TypeOK'
      BY <2>21 DEF TypeOK, WantInv, Points, OnIntent, Creating, Deciding, Running, FailBeforeConnector, Go, stores, history
    <3>2. WantInv'
      BY <2>21 DEF TypeOK, WantInv, Deciding, FailBeforeConnector, Go, stores, history
    <3> QED
      BY <3>1, <3>2
  <2>22. ASSUME NEW h \in Requests, FinishExecution(h) PROVE TypeOK' /\ WantInv'
    <3>1. TypeOK'
      BY <2>22 DEF TypeOK, WantInv, Points, OnIntent, Creating, Deciding, Running, FinishExecution, Go, locals, history
    <3>2. WantInv'
      BY <2>22 DEF TypeOK, WantInv, Deciding, FinishExecution, Go, locals, history
    <3> QED
      BY <3>1, <3>2
  <2>23. ASSUME NEW h \in Requests, FinishIntent(h) PROVE TypeOK' /\ WantInv'
    <3>1. TypeOK'
      BY <2>23 DEF TypeOK, WantInv, Points, OnIntent, Creating, Deciding, Running, FinishIntent, StoreIntent, End, Go, history
    <3>2. WantInv'
      BY <2>23 DEF TypeOK, WantInv, Deciding, FinishIntent, StoreIntent, End, Go, history
    <3> QED
      BY <3>1, <3>2
  <2>24. ASSUME NEW h \in Requests, NEW s \in Outcomes, Execute(h, s) PROVE TypeOK' /\ WantInv'
    <3>1. TypeOK'
      <4>1. performed' \in [Requests -> Nat]
        BY <2>24, <2>n DEF TypeOK, Execute
      <4> QED
        BY <2>24, <4>1 DEF TypeOK, Points, OnIntent, Running, Execute, Go, stores
    <3>2. WantInv'
      BY <2>24 DEF TypeOK, WantInv, Deciding, Execute, Go, stores
    <3> QED
      BY <3>1, <3>2
  <2>25. ASSUME NEW h \in Requests, NEW s \in Reports, StoreCallback(h, s) PROVE TypeOK' /\ WantInv'
    <3>1. TypeOK'
      BY <2>25 DEF TypeOK, WantInv, Points, OnIntent, Creating, Deciding, Running, StoreCallback, End, Go, history
    <3>2. WantInv'
      BY <2>25 DEF TypeOK, WantInv, Deciding, StoreCallback, End, Go, history
    <3> QED
      BY <3>1, <3>2
  <2>26. ASSUME NEW h \in Requests, Elapse(h) PROVE TypeOK' /\ WantInv'
    <3>1. TypeOK'
      BY <2>26 DEF TypeOK, WantInv, Points, OnIntent, Creating, Deciding, Running, Elapse, stores, locals, history
    <3>2. WantInv'
      BY <2>26 DEF TypeOK, WantInv, Deciding, Elapse, stores, locals, history
    <3> QED
      BY <3>1, <3>2
  <2>27. CASE UNCHANGED vars
    BY <2>27 DEF TypeOK, WantInv, vars, stores, locals, history
  <2>q. "approved" \in Verdicts /\ "denied" \in Verdicts /\ "modified" \in Verdicts
    BY DEF Verdicts
  <2> QED
    BY <2>1, <2>2, <2>3, <2>4, <2>5, <2>6, <2>7, <2>8, <2>9, <2>10, <2>11, <2>12, <2>13, <2>14, <2>15, <2>16, <2>17, <2>18, <2>19, <2>20, <2>21, <2>22, <2>23, <2>24, <2>25, <2>26, <2>27, <2>q
    DEF Next, Request, Step, ApproveRequest, DenyRequest, ModifyRequest
(* Every step keeps the account of a grant: who read it, spent it, and     *)
(* called the connector under it.                                          *)
<1>3. TypeOK /\ GrantInv /\ [Next]_vars => GrantInv'
  <2> SUFFICES ASSUME TypeOK, GrantInv, [Next]_vars PROVE GrantInv'
    OBVIOUS
  <2>t. /\ pc \in [Requests -> Points] /\ ref \in [Requests -> Requests]
        /\ on \in [Requests -> Intents] /\ grants \in [Requests -> GrantRecords]
        /\ extra \in [Requests -> Nat] /\ performed \in [Requests -> Nat]
    BY DEF TypeOK
  <2>f. \A g \in Requests : /\ IsFiniteSet(Active(g)) /\ Cardinality(Active(g)) \in Nat
                             /\ performed[g] + Cardinality(Active(g)) <= 1 + extra[g]
    BY FS_CardinalityType DEF GrantInv
  <2>q. ASSUME grants' = grants, extra' = extra, performed' = performed,
               \A g \in Requests :
                 /\ Active(g)' = Active(g)
                 /\ Spending(g) = {} => Spending(g)' = {}
                 /\ pc[g] \in {"granted", "issued", "done"} => pc'[g] \in {"granted", "issued", "done"}
        PROVE  GrantInv'
    BY <2>q DEF GrantInv
  <2>1. ASSUME NEW h \in Requests, NEW p \in Policies, NEW r \in PolicyRecords, StorePolicy(h, p, r) PROVE GrantInv'
    BY <2>1, <2>q, <2>t DEF Active, Holders, Spending, StorePolicy, End, Go, history
  <2>2. ASSUME NEW h \in Requests, NEW i \in Intents, CreateIntent(h, i) PROVE GrantInv'
    BY <2>2, <2>q, <2>t DEF Active, Holders, Spending, CreateIntent, Enter, Go
  <2>3. ASSUME NEW h \in Requests, NEW i \in Intents, NEW v \in Verdicts, ReadApproval(h, i, v) PROVE GrantInv'
    BY <2>3, <2>q, <2>t DEF Active, Holders, Spending, ReadApproval, Enter, Go, stores
  <2>4. ASSUME NEW h \in Requests, NEW i \in Intents, ReadForEvidence(h, i) PROVE GrantInv'
    BY <2>4, <2>q, <2>t DEF Active, Holders, Spending, ReadForEvidence, Enter, Go, stores
  <2>d. ASSUME NEW h \in Requests, h \in Active(ref[h]), h \notin Active(ref[h])',
               \A g \in Requests : Active(g)' = Active(g) \ {h} /\ Spending(g)' \subseteq Spending(g)
        PROVE  \A g \in Requests : /\ IsFiniteSet(Active(g)')
                                   /\ Cardinality(Active(g)') \in Nat
                                   /\ Cardinality(Active(g)') <= Cardinality(Active(g))
                                   /\ g = ref[h] => Cardinality(Active(g)') = Cardinality(Active(g)) - 1
    <3> SUFFICES ASSUME NEW g \in Requests
                 PROVE  /\ IsFiniteSet(Active(g)')
                        /\ Cardinality(Active(g)') \in Nat
                        /\ Cardinality(Active(g)') <= Cardinality(Active(g))
                        /\ g = ref[h] => Cardinality(Active(g)') = Cardinality(Active(g)) - 1
      OBVIOUS
    <3> DEFINE S == Active(g)
    <3>1. IsFiniteSet(S) /\ Cardinality(S) \in Nat /\ Active(g)' = S \ {h} /\ (g = ref[h] => h \in S)
      BY <2>d, <2>f
    <3> HIDE DEF S
    <3>2. /\ IsFiniteSet(S \ {h})
          /\ Cardinality(S \ {h}) = IF h \in S THEN Cardinality(S) - 1 ELSE Cardinality(S)
      BY <3>1, FS_RemoveElement
    <3>3. Cardinality(S \ {h}) \in Nat
      BY <3>2, FS_CardinalityType
    <3> QED
      BY <3>1, <3>2, <3>3 DEF S
  <2>5. ASSUME NEW h \in Requests, NEW g \in Requests, ReadGrant(h, g) PROVE GrantInv'
    <3>1. /\ pc[h] = "idle" /\ pc' = [pc EXCEPT ![h] = "checked"] /\ ref' = [ref EXCEPT ![h] = g]
          /\ grants' = grants /\ performed' = performed /\ grants[g].status = "active"
          /\ extra' = IF Holders(g) = {} THEN extra ELSE [extra EXCEPT ![g] = @ + 1]
      BY <2>5 DEF ReadGrant, Enter, Go, stores
    <3>2. \A x \in Requests : /\ Spending(x)' = Spending(x)
                               /\ Active(x)' = IF x = g THEN Active(x) \cup {h} ELSE Active(x)
      BY <2>t, <3>1 DEF Active, Holders, Spending
    <3>3. h \notin Active(g) /\ performed[g] = 0 /\ (Holders(g) = {} => Active(g) = {})
      BY <3>1 DEF GrantInv, Active, Holders, Spending
    <3>4. IsFiniteSet(Active(g)') /\ Cardinality(Active(g)') = Cardinality(Active(g)) + 1
      BY <2>f, <3>2, <3>3, FS_AddElement
    <3>5. Cardinality(Active(g)') <= 1 + extra'[g]
      <4>1. CASE Holders(g) = {}
        <5>1. Cardinality(Active(g)') = 1
          BY <3>3, <3>4, <4>1, FS_EmptySet
        <5>2. extra'[g] \in Nat
          BY <2>t, <3>1, <4>1
        <5> QED
          BY <5>1, <5>2
      <4>2. CASE Holders(g) # {}
        BY <2>f, <2>t, <3>1, <3>3, <3>4, <4>2
      <4> QED
        BY <4>1, <4>2
    <3>6. \A x \in Requests \ {g} : extra'[x] = extra[x]
      BY <2>t, <3>1
    <3>7. \A x \in Requests : pc[x] \in {"granted", "issued", "done"} => pc'[x] = pc[x]
      BY <2>t, <3>1
    <3> SUFFICES ASSUME NEW x \in Requests
                 PROVE  /\ grants[x].status # "none" => pc'[x] \in {"granted", "issued", "done"}
                        /\ grants[x].status = "none" => Active(x)' = {} /\ extra'[x] = 0 /\ performed[x] = 0
                        /\ grants[x].status = "active" => Spending(x)' = {} /\ performed[x] = 0
                        /\ IsFiniteSet(Active(x)')
                        /\ performed[x] + Cardinality(Active(x)') <= 1 + extra'[x]
      BY <3>1 DEF GrantInv
    <3>8. CASE x = g
      <4>1. performed[g] + Cardinality(Active(g)') <= 1 + extra'[g]
        <5>1. Cardinality(Active(g)') \in Nat
          BY <3>4, FS_CardinalityType
        <5> QED
          BY <3>3, <3>5, <5>1
      <4>2. Spending(g)' = {}
        BY <3>1, <3>2 DEF GrantInv
      <4>3. pc'[g] \in {"granted", "issued", "done"}
        BY <3>1, <3>7 DEF GrantInv
      <4> QED
        BY <3>1, <3>3, <3>4, <3>8, <4>1, <4>2, <4>3
    <3>9. CASE x # g
      BY <3>2, <3>6, <3>7, <3>9 DEF GrantInv
    <3> QED
      BY <3>8, <3>9
  <2>6. ASSUME NEW h \in Requests, NEW e \in Requests, ReadExecution(h, e) PROVE GrantInv'
    BY <2>6, <2>q, <2>t DEF Active, Holders, Spending, ReadExecution, Go, stores, history
  <2>7. ASSUME NEW h \in Requests, NEW d \in Effects, Evaluate(h, d) PROVE GrantInv'
    BY <2>7, <2>q, <2>t DEF Active, Holders, Spending, Evaluate, Go, stores, history
  <2>8. ASSUME NEW h \in Requests, GrantAllowed(h) PROVE GrantInv'
    <3>1. /\ pc[h] = "judged" /\ pc' = [pc EXCEPT ![h] = "granted"] /\ ref' = ref
          /\ grants' = [grants EXCEPT ![h] = [status |-> "active", intent |-> on[h]]]
          /\ extra' = extra /\ performed' = performed
      BY <2>8 DEF GrantAllowed, NewExecutionGrant, Go, locals, history
    <3>2. \A x \in Requests : Active(x)' = Active(x) /\ Spending(x)' = Spending(x)
      BY <2>t, <3>1 DEF Active, Holders, Spending
    <3>3. grants[h].status = "none" /\ grants'[h].status = "active" /\ pc'[h] = "granted"
      BY <2>t, <3>1 DEF GrantInv
    <3>4. \A x \in Requests \ {h} : grants'[x] = grants[x] /\ pc'[x] = pc[x]
      BY <2>t, <3>1
    <3>5. Spending(h) = {} /\ performed[h] = 0
      BY <3>3 DEF GrantInv, Active
    <3> QED
      BY <3>1, <3>2, <3>3, <3>4, <3>5 DEF GrantInv
  <2>9. ASSUME NEW h \in Requests, RequestApproval(h) PROVE GrantInv'
    BY <2>9, <2>q, <2>t DEF Active, Holders, Spending, RequestApproval, Go, locals, history
  <2>10. ASSUME NEW h \in Requests, StoreDecision(h) PROVE GrantInv'
    BY <2>10, <2>q, <2>t DEF Active, Holders, Spending, StoreDecision, StoreIntent, End, Go, history
  <2>11. ASSUME NEW h \in Requests, WriteApproval(h) PROVE GrantInv'
    BY <2>11, <2>q, <2>t DEF Active, Holders, Spending, WriteApproval, Go, locals, history
  <2>12. ASSUME NEW h \in Requests, LoadIntent(h) PROVE GrantInv'
    BY <2>12, <2>q, <2>t DEF Active, Holders, Spending, LoadIntent, Go, stores, history
  <2>13. ASSUME NEW h \in Requests, IssueGrant(h) PROVE GrantInv'
    <3>1. /\ pc[h] = "loaded" /\ pc' = [pc EXCEPT ![h] = "issued"] /\ ref' = ref
          /\ grants' = [grants EXCEPT ![h] = [status |-> "active", intent |-> on[h]]]
          /\ extra' = extra /\ performed' = performed
      BY <2>13 DEF IssueGrant, NewExecutionGrant, Go, locals, history
    <3>2. \A x \in Requests : Active(x)' = Active(x) /\ Spending(x)' = Spending(x)
      BY <2>t, <3>1 DEF Active, Holders, Spending
    <3>3. grants[h].status = "none" /\ grants'[h].status = "active" /\ pc'[h] = "issued"
      BY <2>t, <3>1 DEF GrantInv
    <3>4. \A x \in Requests \ {h} : grants'[x] = grants[x] /\ pc'[x] = pc[x]
      BY <2>t, <3>1
    <3>5. Spending(h) = {} /\ performed[h] = 0
      BY <3>3 DEF GrantInv, Active
    <3> QED
      BY <3>1, <3>2, <3>3, <3>4, <3>5 DEF GrantInv
  <2>14. ASSUME NEW h \in Requests, StoreVerdict(h) PROVE GrantInv'
    BY <2>14, <2>q, <2>t DEF Active, Holders, Spending, StoreVerdict, StoreIntent, End, Go, history
  <2>15. ASSUME NEW h \in Requests, StoreEvidence(h) PROVE GrantInv'
    BY <2>15, <2>q, <2>t DEF Active, Holders, Spending, StoreEvidence, StoreIntent, End, Go
  <2>16. ASSUME NEW h \in Requests, ExpireGrant(h) PROVE GrantInv'
    <3>1. /\ pc[h] = "checked" /\ pc' = [pc EXCEPT ![h] = "done"] /\ ref' = [ref EXCEPT ![h] = h]
          /\ grants' = [grants EXCEPT ![ref[h]].status = "expired"]
          /\ extra' = extra /\ performed' = performed
      BY <2>16 DEF ExpireGrant, StoreGrant, End, Go, history
    <3>2. /\ h \in Active(ref[h]) /\ h \notin Active(ref[h])' /\ ref[h] \in Requests
          /\ \A g \in Requests : Active(g)' = Active(g) \ {h} /\ Spending(g)' \subseteq Spending(g)
      BY <2>t, <3>1 DEF Active, Holders, Spending
    <3>3. grants[ref[h]].status # "none" /\ grants'[ref[h]].status = "expired"
      BY <2>t, <3>1, <3>2 DEF GrantInv, GrantRecords
    <3>4. \A x \in Requests \ {ref[h]} : grants'[x] = grants[x]
      BY <2>t, <3>1
    <3>5. \A x \in Requests : pc[x] \in {"granted", "issued", "done"} => pc'[x] = pc[x]
      BY <2>t, <3>1
    <3>6. \A g \in Requests : IsFiniteSet(Active(g)') /\ performed'[g] + Cardinality(Active(g)') <= 1 + extra'[g]
      BY <2>d, <2>f, <2>t, <3>1, <3>2
    <3> QED
      BY <3>1, <3>2, <3>3, <3>4, <3>5, <3>6 DEF GrantInv
  <2>17. ASSUME NEW h \in Requests, LoadForRun(h) PROVE GrantInv'
    BY <2>17, <2>q, <2>t DEF Active, Holders, Spending, LoadForRun, Go, stores, history
  <2>18. ASSUME NEW h \in Requests, ConsumeGrant(h) PROVE GrantInv'
    <3>1. /\ pc[h] = "consuming" /\ pc' = [pc EXCEPT ![h] = "recording"] /\ ref' = ref
          /\ grants' = [grants EXCEPT ![ref[h]].status = "consumed"]
          /\ extra' = extra /\ performed' = performed
      BY <2>18 DEF ConsumeGrant, StoreGrant, Go, locals, history
    <3>2. \A x \in Requests : Active(x)' = Active(x) /\ (x # ref[h] => Spending(x)' = Spending(x))
      BY <2>t, <3>1 DEF Active, Holders, Spending
    <3>3. h \in Active(ref[h]) /\ ref[h] \in Requests
      BY <2>t, <3>1 DEF Active, Holders
    <3>4. grants[ref[h]].status # "none" /\ grants'[ref[h]].status = "consumed"
      BY <2>t, <3>1, <3>3 DEF GrantInv, GrantRecords
    <3>5. \A x \in Requests \ {ref[h]} : grants'[x] = grants[x]
      BY <2>t, <3>1
    <3>6. \A x \in Requests : pc[x] \in {"granted", "issued", "done"} => pc'[x] = pc[x]
      BY <2>t, <3>1
    <3> QED
      BY <3>1, <3>2, <3>3, <3>4, <3>5, <3>6 DEF GrantInv
  <2>19. ASSUME NEW h \in Requests, CreateExecution(h) PROVE GrantInv'
    BY <2>19, <2>q, <2>t DEF Active, Holders, Spending, CreateExecution, Go, locals, history
  <2>20. ASSUME NEW h \in Requests, StoreExecuting(h) PROVE GrantInv'
    BY <2>20, <2>q, <2>t DEF Active, Holders, Spending, StoreExecuting, StoreIntent, Go, locals, history
  <2>21. ASSUME NEW h \in Requests, FailBeforeConnector(h) PROVE GrantInv'
    <3>1. /\ pc[h] = "connecting" /\ pc' = [pc EXCEPT ![h] = "settling"] /\ ref' = ref
          /\ grants' = grants /\ extra' = extra /\ performed' = performed
      BY <2>21 DEF FailBeforeConnector, Go, stores, history
    <3>2. /\ h \in Active(ref[h]) /\ h \notin Active(ref[h])'
          /\ \A g \in Requests : Active(g)' = Active(g) \ {h} /\ Spending(g)' \subseteq Spending(g)
      BY <2>t, <3>1 DEF Active, Holders, Spending
    <3>3. \A x \in Requests : pc[x] \in {"granted", "issued", "done"} => pc'[x] = pc[x]
      BY <2>t, <3>1
    <3>4. \A g \in Requests : IsFiniteSet(Active(g)') /\ performed'[g] + Cardinality(Active(g)') <= 1 + extra'[g]
      BY <2>d, <2>f, <2>t, <3>1, <3>2
    <3> QED
      BY <3>1, <3>2, <3>3, <3>4 DEF GrantInv
  <2>22. ASSUME NEW h \in Requests, FinishExecution(h) PROVE GrantInv'
    BY <2>22, <2>q, <2>t DEF Active, Holders, Spending, FinishExecution, Go, locals, history
  <2>23. ASSUME NEW h \in Requests, FinishIntent(h) PROVE GrantInv'
    BY <2>23, <2>q, <2>t DEF Active, Holders, Spending, FinishIntent, StoreIntent, End, Go, history
  <2>24. ASSUME NEW h \in Requests, NEW s \in Outcomes, Execute(h, s) PROVE GrantInv'
    <3>1. /\ pc[h] = "connecting" /\ pc' = [pc EXCEPT ![h] = "settling"] /\ ref' = ref
          /\ grants' = grants /\ extra' = extra /\ performed' = [performed EXCEPT ![ref[h]] = @ + 1]
      BY <2>24 DEF Execute, Go, stores
    <3>2. /\ h \in Active(ref[h]) /\ h \in Spending(ref[h]) /\ h \notin Active(ref[h])' /\ ref[h] \in Requests
          /\ \A g \in Requests : Active(g)' = Active(g) \ {h} /\ Spending(g)' \subseteq Spending(g)
      BY <2>t, <3>1 DEF Active, Holders, Spending
    <3>3. \A x \in Requests : pc[x] \in {"granted", "issued", "done"} => pc'[x] = pc[x]
      BY <2>t, <3>1
    <3>4. \A g \in Requests : IsFiniteSet(Active(g)') /\ performed'[g] + Cardinality(Active(g)') <= 1 + extra'[g]
      BY <2>d, <2>f, <2>t, <3>1, <3>2
    <3>5. grants[ref[h]].status \notin {"none", "active"}
      BY <3>2 DEF GrantInv
    <3>6. \A g \in Requests \ {ref[h]} : performed'[g] = performed[g]
      BY <2>t, <3>1
    <3> QED
      BY <3>1, <3>2, <3>3, <3>4, <3>5, <3>6 DEF GrantInv
  <2>25. ASSUME NEW h \in Requests, NEW s \in Reports, StoreCallback(h, s) PROVE GrantInv'
    BY <2>25, <2>q, <2>t DEF Active, Holders, Spending, StoreCallback, End, Go, history
  <2>26. ASSUME NEW h \in Requests, Elapse(h) PROVE GrantInv'
    BY <2>26, <2>q, <2>t DEF Active, Holders, Spending, Elapse, stores, locals, history
  <2>27. CASE UNCHANGED vars
    BY <2>27, <2>q DEF Active, Holders, Spending, vars, stores, locals, history
  <2>v. "approved" \in Verdicts /\ "denied" \in Verdicts /\ "modified" \in Verdicts
    BY DEF Verdicts
  <2> QED
    BY <2>1, <2>2, <2>3, <2>4, <2>5, <2>6, <2>7, <2>8, <2>9, <2>10, <2>11, <2>12, <2>13, <2>14, <2>15, <2>16, <2>17, <2>18, <2>19, <2>20, <2>21, <2>22, <2>23, <2>24, <2>25, <2>26, <2>27, <2>v
    DEF Next, Request, Step, ApproveRequest, DenyRequest, ModifyRequest
<1>4. TypeOK /\ WantInv /\ GrantInv /\ [Next]_vars => (TypeOK /\ WantInv /\ GrantInv)'
  BY <1>2, <1>3
<1> QED
  BY <1>1, <1>4, PTL DEF Spec

(* Type correctness: the records that handlers write back whole, and the   *)
(* statuses copied from verdicts, outcomes and callbacks, fit the stores.  *)
THEOREM TypeCorrect == Spec => []TypeOK
BY GrantInvariant, PTL

(* The grant handlers implement the single-use permit: the connector is    *)
(* called under a grant once, and once more only for every run request     *)
(* that read the grant active while another run still held it unspent.     *)
THEOREM SingleUse == Spec => GrantIsSingleUse
<1> DEFINE Spare(g) == IF grants[g].status = "none" THEN 0 ELSE 1 + extra[g] - performed[g]
           Issued == {g \in Requests : grants[g].status # "none"}
<1>1. Init => Permit!Init
  BY DEF Init, Permit!Init
<1>2. TypeOK /\ GrantInv /\ [Next]_vars => [Permit!Next]_(Permit!pvars)
  <2> SUFFICES ASSUME TypeOK, GrantInv, [Next]_vars
               PROVE  Permit!Next \/ UNCHANGED Permit!pvars
    OBVIOUS
  <2>t. /\ extra \in [Requests -> Nat] /\ performed \in [Requests -> Nat]
        /\ grants \in [Requests -> GrantRecords] /\ ref \in [Requests -> Requests]
    BY DEF TypeOK
  <2>s. ASSUME \A g \in Requests : grants'[g].status = "none" <=> grants[g].status = "none",
               extra' = extra, performed' = performed
        PROVE  UNCHANGED Permit!pvars
    BY <2>s DEF Permit!pvars
  <2>i. ASSUME NEW h \in Requests, grants[h].status = "none", extra' = extra, performed' = performed,
               grants' = [grants EXCEPT ![h] = [status |-> "active", intent |-> on[h]]]
        PROVE  Permit!Issue(h)
    <3>1. extra[h] = 0 /\ performed[h] = 0
      BY <2>i DEF GrantInv
    <3>2. \A g \in Requests : Spare(g)' = IF g = h THEN 1 ELSE Spare(g)
      BY <2>i, <2>t, <3>1
    <3>3. Issued' = Issued \cup {h} /\ h \notin Issued
      BY <2>i, <2>t
    <3> HIDE DEF Spare, Issued
    <3>4. [g \in Requests |-> Spare(g)]' = [[g \in Requests |-> Spare(g)] EXCEPT ![h] = 1]
      BY <3>2
    <3> QED
      BY <2>i, <3>3, <3>4 DEF Spare, Issued, Permit!Issue
  <2>1. ASSUME NEW h \in Requests, NEW p \in Policies, NEW r \in PolicyRecords, StorePolicy(h, p, r) PROVE Permit!Next \/ UNCHANGED Permit!pvars
    BY <2>1, <2>s DEF StorePolicy, history
  <2>2. ASSUME NEW h \in Requests, NEW i \in Intents, CreateIntent(h, i) PROVE Permit!Next \/ UNCHANGED Permit!pvars
    BY <2>2, <2>s DEF CreateIntent
  <2>3. ASSUME NEW h \in Requests, NEW i \in Intents, NEW v \in Verdicts, ReadApproval(h, i, v) PROVE Permit!Next \/ UNCHANGED Permit!pvars
    BY <2>3, <2>s DEF ReadApproval, stores
  <2>4. ASSUME NEW h \in Requests, NEW i \in Intents, ReadForEvidence(h, i) PROVE Permit!Next \/ UNCHANGED Permit!pvars
    BY <2>4, <2>s DEF ReadForEvidence, stores
  <2>5. ASSUME NEW h \in Requests, NEW g \in Requests, ReadGrant(h, g) PROVE Permit!Next \/ UNCHANGED Permit!pvars
    <3>1. /\ grants' = grants /\ performed' = performed /\ grants[g].status = "active"
          /\ extra' = IF Holders(g) = {} THEN extra ELSE [extra EXCEPT ![g] = @ + 1]
      BY <2>5 DEF ReadGrant, stores
    <3>2. CASE Holders(g) = {}
      BY <2>s, <3>1, <3>2
    <3>3. CASE Holders(g) # {}
      <4>1. \A x \in Requests : Spare(x)' = IF x = g THEN Spare(x) + 1 ELSE Spare(x)
        BY <2>t, <3>1, <3>3
      <4>2. Issued' = Issued /\ g \in Issued
        BY <3>1
      <4> HIDE DEF Spare, Issued
      <4>3. [x \in Requests |-> Spare(x)]' = [[x \in Requests |-> Spare(x)] EXCEPT ![g] = @ + 1]
        BY <4>1
      <4>4. Permit!Reissue(g)
        BY <3>1, <4>2, <4>3 DEF Spare, Issued, Permit!Reissue
      <4> QED
        BY <4>4 DEF Permit!Next
    <3> QED
      BY <3>2, <3>3
  <2>6. ASSUME NEW h \in Requests, NEW e \in Requests, ReadExecution(h, e) PROVE Permit!Next \/ UNCHANGED Permit!pvars
    BY <2>6, <2>s DEF ReadExecution, stores, history
  <2>7. ASSUME NEW h \in Requests, NEW d \in Effects, Evaluate(h, d) PROVE Permit!Next \/ UNCHANGED Permit!pvars
    BY <2>7, <2>s DEF Evaluate, stores, history
  <2>8. ASSUME NEW h \in Requests, GrantAllowed(h) PROVE Permit!Next \/ UNCHANGED Permit!pvars
    <3>1. grants[h].status = "none"
      BY <2>8 DEF GrantAllowed, GrantInv
    <3> QED
      BY <2>8, <2>i, <3>1 DEF GrantAllowed, NewExecutionGrant, Go, locals, history, Permit!Next
  <2>9. ASSUME NEW h \in Requests, RequestApproval(h) PROVE Permit!Next \/ UNCHANGED Permit!pvars
    BY <2>9, <2>s DEF RequestApproval, history
  <2>10. ASSUME NEW h \in Requests, StoreDecision(h) PROVE Permit!Next \/ UNCHANGED Permit!pvars
    BY <2>10, <2>s DEF StoreDecision, history
  <2>11. ASSUME NEW h \in Requests, WriteApproval(h) PROVE Permit!Next \/ UNCHANGED Permit!pvars
    BY <2>11, <2>s DEF WriteApproval, history
  <2>12. ASSUME NEW h \in Requests, LoadIntent(h) PROVE Permit!Next \/ UNCHANGED Permit!pvars
    BY <2>12, <2>s DEF LoadIntent, stores, history
  <2>13. ASSUME NEW h \in Requests, IssueGrant(h) PROVE Permit!Next \/ UNCHANGED Permit!pvars
    <3>1. grants[h].status = "none"
      BY <2>13 DEF IssueGrant, GrantInv
    <3> QED
      BY <2>13, <2>i, <3>1 DEF IssueGrant, NewExecutionGrant, Go, locals, history, Permit!Next
  <2>14. ASSUME NEW h \in Requests, StoreVerdict(h) PROVE Permit!Next \/ UNCHANGED Permit!pvars
    BY <2>14, <2>s DEF StoreVerdict, history
  <2>15. ASSUME NEW h \in Requests, StoreEvidence(h) PROVE Permit!Next \/ UNCHANGED Permit!pvars
    BY <2>15, <2>s DEF StoreEvidence
  <2>16. ASSUME NEW h \in Requests, ExpireGrant(h) PROVE Permit!Next \/ UNCHANGED Permit!pvars
    <3>1. h \in Active(ref[h]) /\ ref[h] \in Requests
      BY <2>16, <2>t DEF ExpireGrant, Active, Holders
    <3>2. grants[ref[h]].status # "none"
      BY <3>1 DEF GrantInv
    <3>3. \A g \in Requests : grants'[g].status = IF g = ref[h] THEN "expired" ELSE grants[g].status
      BY <2>16, <2>t, <3>1 DEF ExpireGrant, StoreGrant, GrantRecords
    <3> QED
      BY <2>16, <2>s, <3>2, <3>3 DEF ExpireGrant, history
  <2>17. ASSUME NEW h \in Requests, LoadForRun(h) PROVE Permit!Next \/ UNCHANGED Permit!pvars
    BY <2>17, <2>s DEF LoadForRun, stores, history
  <2>18. ASSUME NEW h \in Requests, ConsumeGrant(h) PROVE Permit!Next \/ UNCHANGED Permit!pvars
    <3>1. h \in Active(ref[h]) /\ ref[h] \in Requests
      BY <2>18, <2>t DEF ConsumeGrant, Active, Holders
    <3>2. grants[ref[h]].status # "none"
      BY <3>1 DEF GrantInv
    <3>3. \A g \in Requests : grants'[g].status = IF g = ref[h] THEN "consumed" ELSE grants[g].status
      BY <2>18, <2>t, <3>1 DEF ConsumeGrant, StoreGrant, GrantRecords
    <3> QED
      BY <2>18, <2>s, <3>2, <3>3 DEF ConsumeGrant, history
  <2>19. ASSUME NEW h \in Requests, CreateExecution(h) PROVE Permit!Next \/ UNCHANGED Permit!pvars
    BY <2>19, <2>s DEF CreateExecution, history
  <2>20. ASSUME NEW h \in Requests, StoreExecuting(h) PROVE Permit!Next \/ UNCHANGED Permit!pvars
    BY <2>20, <2>s DEF StoreExecuting, history
  <2>21. ASSUME NEW h \in Requests, FailBeforeConnector(h) PROVE Permit!Next \/ UNCHANGED Permit!pvars
    BY <2>21, <2>s DEF FailBeforeConnector, stores, history
  <2>22. ASSUME NEW h \in Requests, FinishExecution(h) PROVE Permit!Next \/ UNCHANGED Permit!pvars
    BY <2>22, <2>s DEF FinishExecution, history
  <2>23. ASSUME NEW h \in Requests, FinishIntent(h) PROVE Permit!Next \/ UNCHANGED Permit!pvars
    BY <2>23, <2>s DEF FinishIntent, history
  <2>24. ASSUME NEW h \in Requests, NEW s \in Outcomes, Execute(h, s) PROVE Permit!Next \/ UNCHANGED Permit!pvars
    <3>1. PICK g \in Requests : g = ref[h] /\ h \in Active(g)
      BY <2>24, <2>t DEF Execute, Active, Spending
    <3>2. /\ grants' = grants /\ extra' = extra /\ performed' = [performed EXCEPT ![g] = @ + 1]
      BY <2>24, <3>1 DEF Execute, stores
    <3>3. grants[g].status # "none"
      BY <3>1 DEF GrantInv
    <3>4. Cardinality(Active(g)) \in Nat /\ Cardinality(Active(g)) # 0
      BY <3>1, FS_EmptySet, FS_CardinalityType DEF GrantInv
    <3>5. performed[g] + Cardinality(Active(g)) <= 1 + extra[g]
      BY <3>1 DEF GrantInv
    <3>6. Spare(g) > 0
      BY <2>t, <3>1, <3>3, <3>4, <3>5
    <3>7. \A x \in Requests : Spare(x)' = IF x = g THEN Spare(x) - 1 ELSE Spare(x)
      BY <2>t, <3>1, <3>2, <3>3
    <3> HIDE DEF Spare
    <3>8. [x \in Requests |-> Spare(x)]' = [[x \in Requests |-> Spare(x)] EXCEPT ![g] = @ - 1]
      BY <3>7
    <3>9. Permit!Use(g)
      BY <3>1, <3>2, <3>6, <3>8 DEF Spare, Permit!Use
    <3> QED
      BY <3>1, <3>9 DEF Permit!Next
  <2>25. ASSUME NEW h \in Requests, NEW s \in Reports, StoreCallback(h, s) PROVE Permit!Next \/ UNCHANGED Permit!pvars
    BY <2>25, <2>s DEF StoreCallback, history
  <2>26. ASSUME NEW h \in Requests, Elapse(h) PROVE Permit!Next \/ UNCHANGED Permit!pvars
    BY <2>26, <2>s DEF Elapse, stores, history
  <2>27. CASE UNCHANGED vars
    BY <2>27, <2>s DEF vars, stores, history
  <2>v. "approved" \in Verdicts /\ "denied" \in Verdicts /\ "modified" \in Verdicts
    BY DEF Verdicts
  <2> QED
    BY <2>1, <2>2, <2>3, <2>4, <2>5, <2>6, <2>7, <2>8, <2>9, <2>10, <2>11, <2>12, <2>13, <2>14, <2>15, <2>16, <2>17, <2>18, <2>19, <2>20, <2>21, <2>22, <2>23, <2>24, <2>25, <2>26, <2>27, <2>v
    DEF Next, Request, Step, ApproveRequest, DenyRequest, ModifyRequest
<1> QED
  BY <1>1, <1>2, GrantInvariant, PTL DEF Spec, GrantIsSingleUse, Permit!Spec


(* The deciders read an approval's status and write it in two calls; while *)
(* no two of them overlap, at most one grant follows from an approval, and *)
(* none from one that is pending or denied.                                *)
THEOREM DecidedOnce == Spec => []DecidedOnceUncontested
<1>1. Init => CreateInv /\ DecideInv
  BY DEF Init, CreateInv, DecideInv, InFlight, Deciders, GrantsOf, OnIntent, Creating, Deciding, Running
<1>2. DecideInv => DecidedOnceUncontested
  BY DEF DecideInv, DecidedOnceUncontested
(* Every step keeps an intent with one creator and, while its deciders do  *)
(* not overlap, with one verdict and at most one grant.                    *)
<1>3. TypeOK /\ WantInv /\ GrantInv /\ CreateInv /\ DecideInv /\ [Next]_vars
        => CreateInv' /\ DecideInv'
  <2> SUFFICES ASSUME TypeOK, WantInv, GrantInv, CreateInv, DecideInv, [Next]_vars
               PROVE  CreateInv' /\ DecideInv'
    OBVIOUS
  <2>t. /\ pc \in [Requests -> Points] /\ ref \in [Requests -> Requests]
        /\ on \in [Requests -> Intents] /\ grants \in [Requests -> GrantRecords]
        /\ snap \in [Requests -> IntentRecords] /\ intents \in [Intents -> IntentRecords]
        /\ approvals \in [Intents -> {"none", "pending"} \cup Verdicts]
        /\ want \in [Requests -> {"none"} \cup Effects \cup Verdicts \cup Outcomes]
        /\ contested \subseteq Intents
    BY DEF TypeOK
  <2>g. ASSUME grants' = grants PROVE \A i \in Intents : GrantsOf(i)' = GrantsOf(i)
    BY <2>g DEF GrantsOf
  <2>w. ASSUME NEW h \in Requests, NEW r, StoreIntent(h, r), r.status # "none"
        PROVE  intents'[on[h]].status # "none" /\ \A x \in Intents \ {on[h]} : intents'[x] = intents[x]
    BY <2>w, <2>t DEF StoreIntent
  <2> USE DEF InFlight, Deciders
  <2>1. ASSUME NEW h \in Requests, NEW p \in Policies, NEW r \in PolicyRecords, StorePolicy(h, p, r) PROVE CreateInv' /\ DecideInv'
    <3>1. \A x \in Intents : GrantsOf(x)' = GrantsOf(x)
      BY <2>1, <2>g DEF StorePolicy, End, Go
    <3>2. CreateInv'
      BY <2>1, <2>t, <3>1 DEF CreateInv, OnIntent, Creating, Deciding, Running, NewIntent, IntentRecords, StorePolicy, End, Go
    <3>3. DecideInv'
      BY <2>1, <2>t, <3>1 DEF DecideInv, CreateInv, OnIntent, Creating, Deciding, Running, StorePolicy, End, Go, history
    <3> QED
      BY <3>2, <3>3
  <2>2. ASSUME NEW h \in Requests, NEW i \in Intents, CreateIntent(h, i) PROVE CreateInv' /\ DecideInv'
    <3>1. \A x \in Intents : GrantsOf(x)' = GrantsOf(x)
      BY <2>2, <2>g DEF CreateIntent, Enter, Go
    <3>2. CreateInv'
      BY <2>2, <2>t, <3>1 DEF CreateInv, OnIntent, Creating, Deciding, Running, NewIntent, IntentRecords, CreateIntent, Enter, Go
    <3>3. DecideInv'
      BY <2>2, <2>t, <3>1 DEF DecideInv, CreateInv, OnIntent, Creating, Deciding, Running, CreateIntent, Enter, Go
    <3> QED
      BY <3>2, <3>3
  <2>3. ASSUME NEW h \in Requests, NEW i \in Intents, NEW v \in Verdicts, ReadApproval(h, i, v) PROVE CreateInv' /\ DecideInv'
    <3>1. \A x \in Intents : GrantsOf(x)' = GrantsOf(x)
      BY <2>3, <2>g DEF ReadApproval, Enter, Go, stores
    <3>2. CreateInv'
      BY <2>3, <2>t, <3>1 DEF CreateInv, OnIntent, Creating, Deciding, Running, NewIntent, IntentRecords, ReadApproval, Enter, Go, stores
    <3>3. DecideInv'
      BY <2>3, <2>t, <3>1 DEF DecideInv, CreateInv, OnIntent, Creating, Deciding, Running, ReadApproval, Enter, Go, stores
    <3> QED
      BY <3>2, <3>3
  <2>4. ASSUME NEW h \in Requests, NEW i \in Intents, ReadForEvidence(h, i) PROVE CreateInv' /\ DecideInv'
    <3>1. \A x \in Intents : GrantsOf(x)' = GrantsOf(x)
      BY <2>4, <2>g DEF ReadForEvidence, Enter, Go, stores
    <3>2. CreateInv'
      BY <2>4, <2>t, <3>1 DEF CreateInv, OnIntent, Creating, Deciding, Running, NewIntent, IntentRecords, ReadForEvidence, Enter, Go, stores
    <3>3. DecideInv'
      BY <2>4, <2>t, <3>1 DEF DecideInv, CreateInv, OnIntent, Creating, Deciding, Running, ReadForEvidence, Enter, Go, stores
    <3> QED
      BY <3>2, <3>3
  <2>5. ASSUME NEW h \in Requests, NEW g \in Requests, ReadGrant(h, g) PROVE CreateInv' /\ DecideInv'
    <3>1. \A x \in Intents : GrantsOf(x)' = GrantsOf(x)
      BY <2>5, <2>g DEF ReadGrant, Enter, Go, stores
    <3>2. CreateInv'
      <4>1. grants[g].intent \in Intents /\ intents[grants[g].intent].status # "none"
        BY <2>5, <2>t, RecordTypes DEF ReadGrant, CreateInv, GrantsOf
      <4> QED
        BY <2>5, <2>t, <3>1, <4>1 DEF CreateInv, OnIntent, Creating, Deciding, Running, ReadGrant, Enter, Go, stores
    <3>3. DecideInv'
      BY <2>5, <2>t, <3>1 DEF DecideInv, CreateInv, OnIntent, Creating, Deciding, Running, ReadGrant, Enter, Go, stores
    <3> QED
      BY <3>2, <3>3
  <2>6. ASSUME NEW h \in Requests, NEW e \in Requests, ReadExecution(h, e) PROVE CreateInv' /\ DecideInv'
    <3>1. \A x \in Intents : GrantsOf(x)' = GrantsOf(x)
      BY <2>6, <2>g DEF ReadExecution, Go, stores, history
    <3>2. CreateInv'
      BY <2>6, <2>t, <3>1 DEF CreateInv, OnIntent, Creating, Deciding, Running, NewIntent, IntentRecords, ReadExecution, Go, stores, history
    <3>3. DecideInv'
      BY <2>6, <2>t, <3>1 DEF DecideInv, CreateInv, OnIntent, Creating, Deciding, Running, ReadExecution, Go, stores, history
    <3> QED
      BY <3>2, <3>3
  <2>7. ASSUME NEW h \in Requests, NEW d \in Effects, Evaluate(h, d) PROVE CreateInv' /\ DecideInv'
    <3>1. \A x \in Intents : GrantsOf(x)' = GrantsOf(x)
      BY <2>7, <2>g DEF Evaluate, Go, stores, history
    <3>2. CreateInv'
      BY <2>7, <2>t, <3>1 DEF CreateInv, OnIntent, Creating, Deciding, Running, NewIntent, IntentRecords, Evaluate, Go, stores, history
    <3>3. DecideInv'
      BY <2>7, <2>t, <3>1 DEF DecideInv, CreateInv, OnIntent, Creating, Deciding, Running, Evaluate, Go, stores, history
    <3> QED
      BY <3>2, <3>3
  <2>8. ASSUME NEW h \in Requests, GrantAllowed(h) PROVE CreateInv' /\ DecideInv'
    <3>1. \A x \in Intents : GrantsOf(x)' = IF x = on[h] THEN GrantsOf(x) \cup {h} ELSE GrantsOf(x)
      <4>1. grants[h].status = "none"
        BY <2>8 DEF GrantAllowed, GrantInv
      <4> QED
        BY <2>8, <2>t, <4>1 DEF GrantAllowed, NewExecutionGrant, GrantsOf
    <3>2. CreateInv'
      BY <2>8, <2>t, <3>1 DEF CreateInv, OnIntent, Creating, Deciding, Running, GrantAllowed, Go, locals, history
    <3>3. DecideInv'
      BY <2>8, <2>t, <3>1 DEF DecideInv, CreateInv, OnIntent, Creating, Deciding, Running, GrantAllowed, Go, locals, history
    <3> QED
      BY <3>2, <3>3
  <2>9. ASSUME NEW h \in Requests, RequestApproval(h) PROVE CreateInv' /\ DecideInv'
    <3>1. \A x \in Intents : GrantsOf(x)' = GrantsOf(x)
      BY <2>9, <2>g DEF RequestApproval, Go, locals, history
    <3>2. CreateInv'
      BY <2>9, <2>t, <3>1 DEF CreateInv, OnIntent, Creating, Deciding, Running, NewIntent, IntentRecords, RequestApproval, Go, locals, history
    <3>3. DecideInv'
      BY <2>9, <2>t, <3>1 DEF DecideInv, CreateInv, OnIntent, Creating, Deciding, Running, RequestApproval, Go, locals, history
    <3> QED
      BY <3>2, <3>3
  <2>10. ASSUME NEW h \in Requests, StoreDecision(h) PROVE CreateInv' /\ DecideInv'
    <3>1. \A x \in Intents : GrantsOf(x)' = GrantsOf(x)
      BY <2>10, <2>g DEF StoreDecision, StoreIntent, End, Go, history
    <3>2. CreateInv'
      <4>1. pc[h] \in OnIntent \ {"deciding", "decided", "checked"}
        BY <2>10 DEF StoreDecision, OnIntent, Creating, Deciding, Running
      <4>2. intents'[on[h]].status # "none" /\ \A x \in Intents \ {on[h]} : intents'[x] = intents[x]
        <5>1. snap[h] \in IntentRecords /\ snap[h].status # "none"
          BY <2>t, <4>1 DEF CreateInv
        <5>2. CASE StoreIntent(h, [snap[h] EXCEPT !.status = "approved", !.grant = h])
          <6>1. [snap[h] EXCEPT !.status = "approved", !.grant = h].status = "approved"
            BY <5>1 DEF IntentRecords
          <6> QED
            BY <2>w, <5>2, <6>1
        <5>3. CASE StoreIntent(h, [snap[h] EXCEPT !.status = "pending_approval"])
          <6>1. [snap[h] EXCEPT !.status = "pending_approval"].status # "none"
            BY <5>1, RecordTypes DEF IntentStatus
          <6> QED
            BY <2>w, <5>3, <6>1
        <5>4. CASE StoreIntent(h, [snap[h] EXCEPT !.status = "denied"])
          <6>1. [snap[h] EXCEPT !.status = "denied"].status # "none"
            BY <5>1, RecordTypes DEF IntentStatus
          <6> QED
            BY <2>w, <5>4, <6>1
        <5>5. CASE StoreIntent(h, snap[h])
          <6>1. snap[h].status # "none"
            BY <5>1
          <6> QED
            BY <2>w, <5>5, <6>1
        <5> QED
          BY <2>10, <5>2, <5>3, <5>4, <5>5 DEF StoreDecision
      <4>3. \A x \in Intents : intents'[x].status = "none" => intents[x].status = "none"
        BY <4>2
      <4> QED
        BY <2>10, <2>t, <3>1, <4>3 DEF CreateInv, OnIntent, Creating, Deciding, Running, StoreDecision, End, Go, history
    <3>3. DecideInv'
      BY <2>10, <2>t, <3>1 DEF DecideInv, CreateInv, OnIntent, Creating, Deciding, Running, StoreDecision, StoreIntent, End, Go, history
    <3> QED
      BY <3>2, <3>3
  <2>11. ASSUME NEW h \in Requests, WriteApproval(h) PROVE CreateInv' /\ DecideInv'
    <3>1. \A x \in Intents : GrantsOf(x)' = GrantsOf(x)
      BY <2>11, <2>g DEF WriteApproval, Go, locals, history
    <3>2. CreateInv'
      <4>1. pc[h] = "deciding" /\ want[h] # "none" /\ on[h] \in Intents
        BY <2>11, <2>t DEF WantInv, WriteApproval, Verdicts, Deciding
      <4>2. /\ intents' = intents /\ snap' = snap /\ on' = on /\ pc' = [pc EXCEPT ![h] = "decided"]
            /\ approvals'[on[h]] # "none" /\ \A x \in Intents \ {on[h]} : approvals'[x] = approvals[x]
        BY <2>11, <2>t, <4>1 DEF WriteApproval, Go, locals
      <4>3. approvals[on[h]] # "none"
        BY <4>1, <2>t DEF CreateInv, OnIntent, Deciding
      <4> QED
        BY <2>t, <3>1, <4>1, <4>2, <4>3 DEF CreateInv, OnIntent, Creating, Deciding, Running
    <3>3. DecideInv'
      BY <2>11, <2>t, <3>1 DEF DecideInv, CreateInv, OnIntent, Creating, Deciding, Running, WriteApproval, Go, locals, history
    <3> QED
      BY <3>2, <3>3
  <2>12. ASSUME NEW h \in Requests, LoadIntent(h) PROVE CreateInv' /\ DecideInv'
    <3>1. \A x \in Intents : GrantsOf(x)' = GrantsOf(x)
      BY <2>12, <2>g DEF LoadIntent, Go, stores, history
    <3>2. CreateInv'
      BY <2>12, <2>t, <3>1 DEF CreateInv, OnIntent, Creating, Deciding, Running, NewIntent, IntentRecords, LoadIntent, Go, stores, history
    <3>3. DecideInv'
      BY <2>12, <2>t, <3>1 DEF DecideInv, CreateInv, OnIntent, Creating, Deciding, Running, LoadIntent, Go, stores, history
    <3> QED
      BY <3>2, <3>3
  <2>13. ASSUME NEW h \in Requests, IssueGrant(h) PROVE CreateInv' /\ DecideInv'
    <3>1. \A x \in Intents : GrantsOf(x)' = IF x = on[h] THEN GrantsOf(x) \cup {h} ELSE GrantsOf(x)
      <4>1. grants[h].status = "none"
        BY <2>13 DEF IssueGrant, GrantInv
      <4> QED
        BY <2>13, <2>t, <4>1 DEF IssueGrant, NewExecutionGrant, GrantsOf
    <3>2. CreateInv'
      BY <2>13, <2>t, <3>1 DEF CreateInv, OnIntent, Creating, Deciding, Running, IssueGrant, Go, locals, history
    <3>3. DecideInv'
      <4>1. pc[h] = "loaded" /\ want[h] \notin {"none", "pending", "denied"} /\ on[h] \in Intents
        BY <2>13, <2>t DEF WantInv, IssueGrant, Verdicts, Deciding
      <4>2. /\ approvals' = approvals /\ want' = want /\ on' = on /\ pc' = [pc EXCEPT ![h] = "issued"]
            /\ contested' = contested
        BY <2>13 DEF IssueGrant, Go, locals, history
      <4>3. on[h] \notin contested => /\ Deciders(on[h]) = {h} /\ approvals[on[h]] = want[h]
                                      /\ GrantsOf(on[h]) = {}
        BY <2>t, <4>1 DEF DecideInv, OnIntent, Deciding
      <4>4. \A x \in Intents : Deciders(x)' = Deciders(x)
        BY <2>t, <4>1, <4>2 DEF OnIntent, Deciding
      <4> HIDE DEF InFlight, Deciders
      <4> QED
        BY <2>t, <3>1, <4>1, <4>2, <4>3, <4>4 DEF DecideInv
    <3> QED
      BY <3>2, <3>3
  <2>14. ASSUME NEW h \in Requests, StoreVerdict(h) PROVE CreateInv' /\ DecideInv'
    <3>1. \A x \in Intents : GrantsOf(x)' = GrantsOf(x)
      BY <2>14, <2>g DEF StoreVerdict, StoreIntent, End, Go, history
    <3>2. CreateInv'
      <4>1. pc[h] \in OnIntent \ {"deciding", "decided", "checked"}
        BY <2>14 DEF StoreVerdict, OnIntent, Creating, Deciding, Running
      <4>2. intents'[on[h]].status # "none" /\ \A x \in Intents \ {on[h]} : intents'[x] = intents[x]
        <5>1. snap[h] \in IntentRecords /\ snap[h].status # "none"
          BY <2>t, <4>1 DEF CreateInv
        <5>2. CASE StoreIntent(h, [snap[h] EXCEPT !.status = "denied"])
          <6>1. [snap[h] EXCEPT !.status = "denied"].status # "none"
            BY <5>1, RecordTypes DEF IntentStatus
          <6> QED
            BY <2>w, <5>2, <6>1
        <5>3. CASE StoreIntent(h, [snap[h] EXCEPT !.status = "approved", !.grant = h])
          <6>1. [snap[h] EXCEPT !.status = "approved", !.grant = h].status = "approved"
            BY <5>1 DEF IntentRecords
          <6> QED
            BY <2>w, <5>3, <6>1
        <5> QED
          BY <2>14, <5>2, <5>3 DEF StoreVerdict
      <4>3. \A x \in Intents : intents'[x].status = "none" => intents[x].status = "none"
        BY <4>2
      <4> QED
        BY <2>14, <2>t, <3>1, <4>3 DEF CreateInv, OnIntent, Creating, Deciding, Running, StoreVerdict, End, Go, history
    <3>3. DecideInv'
      BY <2>14, <2>t, <3>1 DEF DecideInv, CreateInv, OnIntent, Creating, Deciding, Running, StoreVerdict, StoreIntent, End, Go, history
    <3> QED
      BY <3>2, <3>3
  <2>15. ASSUME NEW h \in Requests, StoreEvidence(h) PROVE CreateInv' /\ DecideInv'
    <3>1. \A x \in Intents : GrantsOf(x)' = GrantsOf(x)
      BY <2>15, <2>g DEF StoreEvidence, StoreIntent, End, Go
    <3>2. CreateInv'
      BY <2>15, <2>t, <3>1 DEF CreateInv, OnIntent, Creating, Deciding, Running, NewIntent, IntentRecords, StoreEvidence, StoreIntent, End, Go
    <3>3. DecideInv'
      BY <2>15, <2>t, <3>1 DEF DecideInv, CreateInv, OnIntent, Creating, Deciding, Running, StoreEvidence, StoreIntent, End, Go
    <3> QED
      BY <3>2, <3>3
  <2>16. ASSUME NEW h \in Requests, ExpireGrant(h) PROVE CreateInv' /\ DecideInv'
    <3>1. \A x \in Intents : GrantsOf(x)' = GrantsOf(x)
      <4>1. h \in Active(ref[h]) /\ ref[h] \in Requests
        BY <2>16, <2>t DEF ExpireGrant, Active, Holders
      <4>2. grants[ref[h]].status # "none"
        BY <4>1 DEF GrantInv
      <4>3. \A g \in Requests : /\ grants'[g].intent = grants[g].intent
                                /\ grants'[g].status = IF g = ref[h] THEN "expired" ELSE grants[g].status
        BY <2>16, <2>t, <4>1 DEF ExpireGrant, StoreGrant, GrantRecords
      <4> QED
        BY <4>2, <4>3 DEF GrantsOf
    <3>2. CreateInv'
      BY <2>16, <2>t, <3>1 DEF CreateInv, OnIntent, Creating, Deciding, Running, ExpireGrant, End, Go, history
    <3>3. DecideInv'
      BY <2>16, <2>t, <3>1 DEF DecideInv, OnIntent, Creating, Deciding, Running, ExpireGrant, End, Go, history
    <3> QED
      BY <3>2, <3>3
  <2>17. ASSUME NEW h \in Requests, LoadForRun(h) PROVE CreateInv' /\ DecideInv'
    <3>1. \A x \in Intents : GrantsOf(x)' = GrantsOf(x)
      BY <2>17, <2>g DEF LoadForRun, Go, stores, history
    <3>2. CreateInv'
      BY <2>17, <2>t, <3>1 DEF CreateInv, OnIntent, Creating, Deciding, Running, NewIntent, IntentRecords, LoadForRun, Go, stores, history
    <3>3. DecideInv'
      BY <2>17, <2>t, <3>1 DEF DecideInv, CreateInv, OnIntent, Creating, Deciding, Running, LoadForRun, Go, stores, history
    <3> QED
      BY <3>2, <3>3
  <2>18. ASSUME NEW h \in Requests, ConsumeGrant(h) PROVE CreateInv' /\ DecideInv'
    <3>1. \A x \in Intents : GrantsOf(x)' = GrantsOf(x)
      <4>1. h \in Active(ref[h]) /\ ref[h] \in Requests
        BY <2>18, <2>t DEF ConsumeGrant, Active, Holders
      <4>2. grants[ref[h]].status # "none"
        BY <4>1 DEF GrantInv
      <4>3. \A g \in Requests : /\ grants'[g].intent = grants[g].intent
                                /\ grants'[g].status = IF g = ref[h] THEN "consumed" ELSE grants[g].status
        BY <2>18, <2>t, <4>1 DEF ConsumeGrant, StoreGrant, GrantRecords
      <4> QED
        BY <4>2, <4>3 DEF GrantsOf
    <3>2. CreateInv'
      BY <2>18, <2>t, <3>1 DEF CreateInv, OnIntent, Creating, Deciding, Running, ConsumeGrant, Go, locals, history
    <3>3. DecideInv'
      BY <2>18, <2>t, <3>1 DEF DecideInv, OnIntent, Creating, Deciding, Running, ConsumeGrant, Go, locals, history
    <3> QED
      BY <3>2, <3>3
  <2>19. ASSUME NEW h \in Requests, CreateExecution(h) PROVE CreateInv' /\ DecideInv'
    <3>1. \A x \in Intents : GrantsOf(x)' = GrantsOf(x)
      BY <2>19, <2>g DEF CreateExecution, Go, locals, history
    <3>2. CreateInv'
      BY <2>19, <2>t, <3>1 DEF CreateInv, OnIntent, Creating, Deciding, Running, NewIntent, IntentRecords, CreateExecution, Go, locals, history
    <3>3. DecideInv'
      BY <2>19, <2>t, <3>1 DEF DecideInv, CreateInv, OnIntent, Creating, Deciding, Running, CreateExecution, Go, locals, history
    <3> QED
      BY <3>2, <3>3
  <2>20. ASSUME NEW h \in Requests, StoreExecuting(h) PROVE CreateInv' /\ DecideInv'
    <3>1. \A x \in Intents : GrantsOf(x)' = GrantsOf(x)
      BY <2>20, <2>g DEF StoreExecuting, StoreIntent, Go, locals, history
    <3>2. CreateInv'
      BY <2>20, <2>t, <3>1 DEF CreateInv, OnIntent, Creating, Deciding, Running, NewIntent, IntentRecords, StoreExecuting, StoreIntent, Go, locals, history
    <3>3. DecideInv'
      BY <2>20, <2>t, <3>1 DEF DecideInv, CreateInv, OnIntent, Creating, Deciding, Running, StoreExecuting, StoreIntent, Go, locals, history
    <3> QED
      BY <3>2, <3>3
  <2>21. ASSUME NEW h \in Requests, FailBeforeConnector(h) PROVE CreateInv' /\ DecideInv'
    <3>1. \A x \in Intents : GrantsOf(x)' = GrantsOf(x)
      BY <2>21, <2>g DEF FailBeforeConnector, Go, stores, history
    <3>2. CreateInv'
      BY <2>21, <2>t, <3>1 DEF CreateInv, OnIntent, Creating, Deciding, Running, NewIntent, IntentRecords, FailBeforeConnector, Go, stores, history
    <3>3. DecideInv'
      BY <2>21, <2>t, <3>1 DEF DecideInv, CreateInv, OnIntent, Creating, Deciding, Running, FailBeforeConnector, Go, stores, history
    <3> QED
      BY <3>2, <3>3
  <2>22. ASSUME NEW h \in Requests, FinishExecution(h) PROVE CreateInv' /\ DecideInv'
    <3>1. \A x \in Intents : GrantsOf(x)' = GrantsOf(x)
      BY <2>22, <2>g DEF FinishExecution, Go, locals, history
    <3>2. CreateInv'
      BY <2>22, <2>t, <3>1 DEF CreateInv, OnIntent, Creating, Deciding, Running, NewIntent, IntentRecords, FinishExecution, Go, locals, history
    <3>3. DecideInv'
      BY <2>22, <2>t, <3>1 DEF DecideInv, CreateInv, OnIntent, Creating, Deciding, Running, FinishExecution, Go, locals, history
    <3> QED
      BY <3>2, <3>3
  <2>23. ASSUME NEW h \in Requests, FinishIntent(h) PROVE CreateInv' /\ DecideInv'
    <3>1. \A x \in Intents : GrantsOf(x)' = GrantsOf(x)
      BY <2>23, <2>g DEF FinishIntent, StoreIntent, End, Go, history
    <3>2. CreateInv'
      <4>1. pc[h] \in OnIntent \ {"deciding", "decided", "checked"}
        BY <2>23 DEF FinishIntent, OnIntent, Creating, Deciding, Running
      <4>2. intents'[on[h]].status # "none" /\ \A x \in Intents \ {on[h]} : intents'[x] = intents[x]
        <5>1. snap[h] \in IntentRecords /\ snap[h].status # "none"
          BY <2>t, <4>1 DEF CreateInv
        <5>2. CASE StoreIntent(h, [snap[h] EXCEPT !.status = want[h]])
          <6>0. want[h] \in IntentStatus /\ want[h] # "none"
            BY <2>23 DEF FinishIntent, WantInv, IntentStatus, Outcomes
          <6>1. [snap[h] EXCEPT !.status = want[h]].status = want[h]
            BY <5>1, <6>0, RecordTypes
          <6> QED
            BY <2>w, <5>2, <6>0, <6>1
        <5> QED
          BY <2>23, <5>2 DEF FinishIntent
      <4>3. \A x \in Intents : intents'[x].status = "none" => intents[x].status = "none"
        BY <4>2
      <4> QED
        BY <2>23, <2>t, <3>1, <4>3 DEF CreateInv, OnIntent, Creating, Deciding, Running, FinishIntent, End, Go, history
    <3>3. DecideInv'
      BY <2>23, <2>t, <3>1 DEF DecideInv, CreateInv, OnIntent, Creating, Deciding, Running, FinishIntent, StoreIntent, End, Go, history
    <3> QED
      BY <3>2, <3>3
  <2>24. ASSUME NEW h \in Requests, NEW s \in Outcomes, Execute(h, s) PROVE CreateInv' /\ DecideInv'
    <3>1. \A x \in Intents : GrantsOf(x)' = GrantsOf(x)
      BY <2>24, <2>g DEF Execute, Go, stores
    <3>2. CreateInv'
      BY <2>24, <2>t, <3>1 DEF CreateInv, OnIntent, Creating, Deciding, Running, NewIntent, IntentRecords, Execute, Go, stores
    <3>3. DecideInv'
      BY <2>24, <2>t, <3>1 DEF DecideInv, CreateInv, OnIntent, Creating, Deciding, Running, Execute, Go, stores
    <3> QED
      BY <3>2, <3>3
  <2>25. ASSUME NEW h \in Requests, NEW s \in Reports, StoreCallback(h, s) PROVE CreateInv' /\ DecideInv'
    <3>1. \A x \in Intents : GrantsOf(x)' = GrantsOf(x)
      BY <2>25, <2>g DEF StoreCallback, End, Go, history
    <3>2. CreateInv'
      BY <2>25, <2>t, <3>1 DEF CreateInv, OnIntent, Creating, Deciding, Running, NewIntent, IntentRecords, StoreCallback, End, Go, history
    <3>3. DecideInv'
      BY <2>25, <2>t, <3>1 DEF DecideInv, CreateInv, OnIntent, Creating, Deciding, Running, StoreCallback, End, Go, history
    <3> QED
      BY <3>2, <3>3
  <2>26. ASSUME NEW h \in Requests, Elapse(h) PROVE CreateInv' /\ DecideInv'
    <3>1. \A x \in Intents : GrantsOf(x)' = GrantsOf(x)
      BY <2>26, <2>g DEF Elapse, stores, locals, history
    <3>2. CreateInv'
      BY <2>26, <2>t, <3>1 DEF CreateInv, OnIntent, Creating, Deciding, Running, NewIntent, IntentRecords, Elapse, stores, locals, history
    <3>3. DecideInv'
      BY <2>26, <2>t, <3>1 DEF DecideInv, CreateInv, OnIntent, Creating, Deciding, Running, Elapse, stores, locals, history
    <3> QED
      BY <3>2, <3>3
  <2>27. CASE UNCHANGED vars
    BY <2>27 DEF CreateInv, DecideInv, GrantsOf, vars, stores, locals, history
  <2>v. "approved" \in Verdicts /\ "denied" \in Verdicts /\ "modified" \in Verdicts
    BY DEF Verdicts
  <2> QED
    BY <2>1, <2>2, <2>3, <2>4, <2>5, <2>6, <2>7, <2>8, <2>9, <2>10, <2>11, <2>12, <2>13, <2>14, <2>15, <2>16, <2>17, <2>18, <2>19, <2>20, <2>21, <2>22, <2>23, <2>24, <2>25, <2>26, <2>27, <2>v
    DEF Next, Request, Step, ApproveRequest, DenyRequest, ModifyRequest
<1> QED
  BY <1>1, <1>2, GrantInvariant, <1>3, PTL DEF Spec

(* If no two requests on an intent ever overlapped, its record agrees with *)
(* its approval, its grant and its executions, and holds all its evidence: *)
(* the whole-record writes lose nothing unless they interleave.            *)
THEOREM SerialAgrees == Spec => []SerialRecordAgrees
<1>1. Init => SerialInv
  <2> SUFFICES ASSUME Init PROVE SerialInv
    OBVIOUS
  <2>1. \A h \in Requests : pc[h] \notin OnIntent
    BY DEF Init, OnIntent, Creating, Deciding, Running
  <2>2. \A i \in Intents : Resting(i)
    BY DEF Init, Resting, NoneOf, Of, NewIntent, Outcomes
  <2> QED
    BY <2>1, <2>2 DEF SerialInv, Serial, InFlight, OnIntent
(* Every step: the request that steps does to its intent what its phase    *)
(* says, and nothing to the others.                                        *)
<1>2. TypeOK /\ WantInv /\ GrantInv /\ SerialInv /\ [Next]_vars => SerialInv'
  <2> SUFFICES ASSUME TypeOK, WantInv, GrantInv, SerialInv, [Next]_vars PROVE SerialInv'
    OBVIOUS
  <2>t. /\ pc \in [Requests -> Points] /\ ref \in [Requests -> Requests] /\ on \in [Requests -> Intents]
        /\ snap \in [Requests -> IntentRecords] /\ intents \in [Intents -> IntentRecords]
        /\ grants \in [Requests -> GrantRecords]
    BY DEF TypeOK
  <2>d. /\ DOMAIN pc = Requests /\ DOMAIN ref = Requests /\ DOMAIN on = Requests /\ DOMAIN snap = Requests
        /\ DOMAIN intents = Intents /\ DOMAIN grants = Requests /\ DOMAIN approvals = Intents
        /\ DOMAIN want = Requests /\ DOMAIN performed = Requests /\ DOMAIN appended = Intents
    BY DEF TypeOK
  <2>e. ASSUME NEW x \in IntentRecords
        PROVE  /\ \A s : /\ [x EXCEPT !.status = s].status = s /\ [x EXCEPT !.status = s].grant = x.grant
                         /\ [x EXCEPT !.status = s].evidence = x.evidence
               /\ \A s, g : /\ [x EXCEPT !.status = s, !.grant = g].status = s
                            /\ [x EXCEPT !.status = s, !.grant = g].grant = g
                            /\ [x EXCEPT !.status = s, !.grant = g].evidence = x.evidence
               /\ [x EXCEPT !.evidence = @ + 1].status = x.status
               /\ [x EXCEPT !.evidence = @ + 1].grant = x.grant
               /\ [x EXCEPT !.evidence = @ + 1].evidence = x.evidence + 1
    BY DEF IntentRecords
  <2> DEFINE Others(h) == \A k \in Requests : k # h =>
               pc'[k] = pc[k] /\ on'[k] = on[k] /\ ref'[k] = ref[k] /\ want'[k] = want[k] /\ snap'[k] = snap[k]
             Kept(i) == /\ intents'[i] = intents[i] /\ approvals'[i] = approvals[i] /\ appended'[i] = appended[i]
                        /\ i \in raced' <=> i \in raced
             GrantsKept(i) == \A g \in Requests :
               /\ Of(g, i)' <=> Of(g, i)
               /\ Of(g, i) => grants'[g].status = grants[g].status /\ performed'[g] = performed[g]
             Runs(h) == pc'[h] \in Running => grants'[ref'[h]].status # "none" /\ grants'[ref'[h]].intent = on'[h]
  (* An intent on which the stepping request is neither before nor after. *)
  <2>f. ASSUME NEW h \in Requests, NEW i \in Intents, i \notin raced', Others(h), Kept(i), GrantsKept(i),
               ~(pc[h] \in OnIntent /\ on[h] = i), ~(pc'[h] \in OnIntent /\ on'[h] = i)
        PROVE  Serial(i)'
    <3>1. Serial(i)
      BY <2>f DEF SerialInv
    <3>2. InFlight(i)' = InFlight(i) /\ h \notin InFlight(i)
      BY <2>f DEF InFlight
    <3>3. intents'[i] = intents[i] /\ approvals'[i] = approvals[i] /\ appended'[i] = appended[i]
      BY <2>f
    <3>4. Resting(i) => Resting(i)'
      BY <2>f, <3>3 DEF Resting, Unspent, Outcomes, NoneOf, OnlyOf
    <3>5. ASSUME NEW k \in InFlight(i), Phase(k, i) PROVE Phase(k, i)'
      <4>1. /\ k \in Requests
            /\ pc'[k] = pc[k] /\ on'[k] = on[k] /\ ref'[k] = ref[k] /\ want'[k] = want[k] /\ snap'[k] = snap[k]
        BY <2>f, <3>2, <3>5 DEF InFlight
      <4>2. CreatePhase(k, i) => CreatePhase(k, i)'
        BY <2>f, <3>3, <4>1 DEF CreatePhase, Unspent, NoneOf, OnlyOf
      <4>3. DecidePhase(k, i) => DecidePhase(k, i)'
        BY <2>f, <3>3, <4>1 DEF DecidePhase, Unspent, NoneOf, OnlyOf
      <4>4. RunPhase(k, i) => RunPhase(k, i)'
        BY <2>f, <3>3, <4>1 DEF RunPhase, NoneOf, OnlyOf
      <4> QED
        BY <3>3, <3>4, <3>5, <4>1, <4>2, <4>3, <4>4 DEF Phase
    <3> QED
      BY <3>1, <3>2, <3>4, <3>5 DEF Serial
  (* The intent of the stepping request: alone on it before, it is so after *)
  (* or leaves it resting.                                                  *)
  <2>o. ASSUME NEW h \in Requests, pc[h] \in OnIntent, on[h] \notin raced
        PROVE  InFlight(on[h]) = {h} /\ Phase(h, on[h])
    BY <2>o, <2>t DEF SerialInv, Serial, InFlight
  <2>s. ASSUME NEW h \in Requests, NEW j \in Intents, InFlight(j) \subseteq {h}, Others(h),
               pc'[h] \in OnIntent, on'[h] = j, Phase(h, j)'
        PROVE  Serial(j)'
    <3>1. InFlight(j)' = {h}
      BY <2>s DEF InFlight
    <3> QED
      BY <2>s, <3>1 DEF Serial
  <2>x. ASSUME NEW h \in Requests, NEW j \in Intents, InFlight(j) = {h}, Others(h), pc'[h] \notin OnIntent, Resting(j)'
        PROVE  Serial(j)'
    <3>1. InFlight(j)' = {}
      BY <2>x DEF InFlight
    <3> QED
      BY <2>x, <3>1 DEF Serial
  <2>b. ASSUME NEW j \in Intents, InFlight(j) = {}, j \notin raced PROVE Resting(j)
    BY <2>b DEF SerialInv, Serial
  (* Runs stay with the intents of their grants. *)
  <2>r. ASSUME NEW h \in Requests, Others(h), Runs(h),
               \A g \in Requests : grants[g].status # "none" => grants'[g].status # "none" /\ grants'[g].intent = grants[g].intent
        PROVE  \A k \in Requests : pc'[k] \in Running => Of(ref[k], on[k])'
    <3> SUFFICES ASSUME NEW k \in Requests, pc'[k] \in Running
                 PROVE  grants'[ref'[k]].status # "none" /\ grants'[ref'[k]].intent = on'[k]
      BY DEF Of
    <3>1. CASE k = h
      BY <2>r, <3>1
    <3>2. CASE k # h
      <4>1. pc[k] \in Running /\ ref'[k] = ref[k] /\ on'[k] = on[k] /\ ref[k] \in Requests
        BY <2>r, <2>t, <3>2
      <4>2. Of(ref[k], on[k])
        BY <4>1 DEF SerialInv
      <4> QED
        BY <2>r, <4>1, <4>2 DEF Of
    <3> QED
      BY <3>1, <3>2
  <2>1. ASSUME NEW h \in Requests, NEW p \in Policies, NEW r \in PolicyRecords, StorePolicy(h, p, r) PROVE SerialInv'
    <3>1. Others(h) /\ pc[h] = "idle" /\ pc'[h] = "done"
      BY <2>1, <2>d DEF StorePolicy, End, Go, history
    <3>2. \A i \in Intents : Kept(i) /\ GrantsKept(i)
      BY <2>1 DEF StorePolicy, End, Go, history, Of
    <3>3. pc[h] \notin OnIntent /\ pc'[h] \notin OnIntent
      BY <3>1 DEF OnIntent, Creating, Deciding, Running
    <3>4. \A i \in Intents : i \notin raced' => Serial(i)'
      <4> HIDE DEF Others, Kept, GrantsKept
      <4> QED
        BY <2>f, <3>1, <3>2, <3>3
    <3>5. \A k \in Requests : pc'[k] \in Running => Of(ref[k], on[k])'
      <4>1. grants' = grants /\ Runs(h)
        BY <2>1, <3>3 DEF StorePolicy, End, Go, history, OnIntent
      <4> HIDE DEF Others, Runs
      <4> QED
        BY <2>r, <3>1, <4>1
    <3> QED
      BY <3>4, <3>5 DEF SerialInv
  <2>2. ASSUME NEW h \in Requests, NEW e \in Requests, ReadExecution(h, e) PROVE SerialInv'
    <3>1. Others(h) /\ pc[h] = "idle" /\ pc'[h] = "callback"
      BY <2>2, <2>d DEF ReadExecution, Go, stores, history
    <3>2. \A i \in Intents : Kept(i) /\ GrantsKept(i)
      BY <2>2 DEF ReadExecution, Go, stores, history, Of
    <3>3. pc[h] \notin OnIntent /\ pc'[h] \notin OnIntent
      BY <3>1 DEF OnIntent, Creating, Deciding, Running
    <3>4. \A i \in Intents : i \notin raced' => Serial(i)'
      <4> HIDE DEF Others, Kept, GrantsKept
      <4> QED
        BY <2>f, <3>1, <3>2, <3>3
    <3>5. \A k \in Requests : pc'[k] \in Running => Of(ref[k], on[k])'
      <4>1. grants' = grants /\ Runs(h)
        BY <2>2, <3>3 DEF ReadExecution, Go, stores, history, OnIntent
      <4> HIDE DEF Others, Runs
      <4> QED
        BY <2>r, <3>1, <4>1
    <3> QED
      BY <3>4, <3>5 DEF SerialInv
  <2>3. ASSUME NEW h \in Requests, NEW s \in Reports, StoreCallback(h, s) PROVE SerialInv'
    <3>1. Others(h) /\ pc[h] = "callback" /\ pc'[h] = "done"
      BY <2>3, <2>d DEF StoreCallback, End, Go, history
    <3>2. \A i \in Intents : Kept(i) /\ GrantsKept(i)
      BY <2>3 DEF StoreCallback, End, Go, history, Of
    <3>3. pc[h] \notin OnIntent /\ pc'[h] \notin OnIntent
      BY <3>1 DEF OnIntent, Creating, Deciding, Running
    <3>4. \A i \in Intents : i \notin raced' => Serial(i)'
      <4> HIDE DEF Others, Kept, GrantsKept
      <4> QED
        BY <2>f, <3>1, <3>2, <3>3
    <3>5. \A k \in Requests : pc'[k] \in Running => Of(ref[k], on[k])'
      <4>1. grants' = grants /\ Runs(h)
        BY <2>3, <3>3 DEF StoreCallback, End, Go, history, OnIntent
      <4> HIDE DEF Others, Runs
      <4> QED
        BY <2>r, <3>1, <4>1
    <3> QED
      BY <3>4, <3>5 DEF SerialInv
  <2>4. ASSUME NEW h \in Requests, NEW i0 \in Intents, CreateIntent(h, i0) PROVE SerialInv'
    <3>0. PICK j \in Intents : j = i0
      BY <2>4, <2>t
    <3>1. /\ Others(h) /\ pc[h] = "idle" /\ pc'[h] = "evaluating" /\ on'[h] = j
          /\ \A i \in Intents : i # j => Kept(i)
      BY <2>4, <2>d, <3>0 DEF CreateIntent, Enter, Go
    <3>2. /\ \A g \in Requests : grants'[g] = grants[g] /\ performed'[g] = performed[g]
      BY <2>4 DEF CreateIntent, Enter, Go
    <3>3. /\ \A g \in Requests : grants[g].status # "none" => grants'[g].status # "none" /\ grants'[g].intent = grants[g].intent
          /\ \A i \in Intents : i # j => GrantsKept(i)
      BY <3>2 DEF Of
    <3>4. ASSUME NEW i \in Intents, i # j, i \notin raced' PROVE Serial(i)'
      <4>1. Kept(i) /\ GrantsKept(i)
        BY <3>1, <3>3, <3>4
      <4>2. ~(pc[h] \in OnIntent /\ on[h] = i) /\ ~(pc'[h] \in OnIntent /\ on'[h] = i)
        BY <3>1, <3>4 DEF OnIntent, Creating, Deciding, Running
      <4> HIDE DEF Others, Kept, GrantsKept
      <4> QED
        BY <2>f, <3>1, <3>4, <4>1, <4>2
    <3>5. ASSUME j \notin raced' PROVE Serial(j)'
      <4>1. InFlight(j) = {} /\ Resting(j)
        <5>1. InFlight(j) = {} /\ j \notin raced
          BY <2>4, <3>0, <3>5 DEF CreateIntent, Enter, Go
        <5> QED
          BY <2>b, <5>1
      <4>2. /\ intents[j].status = "none"
            /\ intents'[j] = NewIntent("pending_policy") /\ snap'[h] = NewIntent("pending_policy")
            /\ approvals'[j] = approvals[j] /\ appended'[j] = appended[j]
        BY <2>4, <2>d, <3>0 DEF CreateIntent, Enter, Go
      <4>p. Phase(h, j)'
        BY <3>1, <3>2, <4>1, <4>2 DEF Phase, CreatePhase, Resting, NewIntent, Unspent, NoneOf, OnlyOf, Of, OnIntent, Creating, Deciding, Running
      <4>q. pc'[h] \in OnIntent
        BY <3>1 DEF OnIntent, Creating, Deciding, Running
      <4> HIDE DEF Others
      <4> QED
        BY <2>s, <3>1, <4>1, <4>p, <4>q
    <3>6. \A k \in Requests : pc'[k] \in Running => Of(ref[k], on[k])'
      <4>1. Runs(h)
        BY <3>1 DEF Running
      <4> HIDE DEF Others, Runs
      <4> QED
        BY <2>r, <3>1, <3>3, <4>1
    <3> QED
      BY <3>4, <3>5, <3>6 DEF SerialInv
  <2>5. ASSUME NEW h \in Requests, NEW i0 \in Intents, NEW v \in Verdicts, ReadApproval(h, i0, v) PROVE SerialInv'
    <3>0. PICK j \in Intents : j = i0
      BY <2>5, <2>t
    <3>1. /\ Others(h) /\ pc[h] = "idle" /\ pc'[h] = "deciding" /\ on'[h] = j
          /\ \A i \in Intents : i # j => Kept(i)
      BY <2>5, <2>d, <3>0 DEF ReadApproval, Enter, Go, stores
    <3>2. /\ \A g \in Requests : grants'[g] = grants[g] /\ performed'[g] = performed[g]
      BY <2>5 DEF ReadApproval, Enter, Go, stores
    <3>3. /\ \A g \in Requests : grants[g].status # "none" => grants'[g].status # "none" /\ grants'[g].intent = grants[g].intent
          /\ \A i \in Intents : i # j => GrantsKept(i)
      BY <3>2 DEF Of
    <3>4. ASSUME NEW i \in Intents, i # j, i \notin raced' PROVE Serial(i)'
      <4>1. Kept(i) /\ GrantsKept(i)
        BY <3>1, <3>3, <3>4
      <4>2. ~(pc[h] \in OnIntent /\ on[h] = i) /\ ~(pc'[h] \in OnIntent /\ on'[h] = i)
        BY <3>1, <3>4 DEF OnIntent, Creating, Deciding, Running
      <4> HIDE DEF Others, Kept, GrantsKept
      <4> QED
        BY <2>f, <3>1, <3>4, <4>1, <4>2
    <3>5. ASSUME j \notin raced' PROVE Serial(j)'
      <4>1. InFlight(j) = {} /\ Resting(j)
        <5>1. InFlight(j) = {} /\ j \notin raced
          BY <2>5, <3>0, <3>5 DEF ReadApproval, Enter, Go, stores
        <5> QED
          BY <2>b, <5>1
      <4>2. /\ intents'[j] = intents[j] /\ appended'[j] = appended[j]
            /\ approvals'[j] = approvals[j]
            /\ approvals[j] = "pending"
        BY <2>5, <2>d, <3>0 DEF ReadApproval, Enter, Go, stores
      <4>p. Phase(h, j)'
        BY <3>1, <3>2, <4>1, <4>2 DEF Phase, DecidePhase, Resting, Unspent, NoneOf, OnlyOf, Of, OnIntent, Creating, Deciding, Running
      <4>q. pc'[h] \in OnIntent
        BY <3>1 DEF OnIntent, Creating, Deciding, Running
      <4> HIDE DEF Others
      <4> QED
        BY <2>s, <3>1, <4>1, <4>p, <4>q
    <3>6. \A k \in Requests : pc'[k] \in Running => Of(ref[k], on[k])'
      <4>1. Runs(h)
        BY <3>1 DEF Running
      <4> HIDE DEF Others, Runs
      <4> QED
        BY <2>r, <3>1, <3>3, <4>1
    <3> QED
      BY <3>4, <3>5, <3>6 DEF SerialInv
  <2>6. ASSUME NEW h \in Requests, NEW i0 \in Intents, ReadForEvidence(h, i0) PROVE SerialInv'
    <3>0. PICK j \in Intents : j = i0
      BY <2>6, <2>t
    <3>1. /\ Others(h) /\ pc[h] = "idle" /\ pc'[h] = "evidence" /\ on'[h] = j
          /\ \A i \in Intents : i # j => Kept(i)
      BY <2>6, <2>d, <3>0 DEF ReadForEvidence, Enter, Go, stores
    <3>2. /\ \A g \in Requests : grants'[g] = grants[g] /\ performed'[g] = performed[g]
      BY <2>6 DEF ReadForEvidence, Enter, Go, stores
    <3>3. /\ \A g \in Requests : grants[g].status # "none" => grants'[g].status # "none" /\ grants'[g].intent = grants[g].intent
          /\ \A i \in Intents : i # j => GrantsKept(i)
      BY <3>2 DEF Of
    <3>4. ASSUME NEW i \in Intents, i # j, i \notin raced' PROVE Serial(i)'
      <4>1. Kept(i) /\ GrantsKept(i)
        BY <3>1, <3>3, <3>4
      <4>2. ~(pc[h] \in OnIntent /\ on[h] = i) /\ ~(pc'[h] \in OnIntent /\ on'[h] = i)
        BY <3>1, <3>4 DEF OnIntent, Creating, Deciding, Running
      <4> HIDE DEF Others, Kept, GrantsKept
      <4> QED
        BY <2>f, <3>1, <3>4, <4>1, <4>2
    <3>5. ASSUME j \notin raced' PROVE Serial(j)'
      <4>1. InFlight(j) = {} /\ Resting(j)
        <5>1. InFlight(j) = {} /\ j \notin raced
          BY <2>6, <3>0, <3>5 DEF ReadForEvidence, Enter, Go, stores
        <5> QED
          BY <2>b, <5>1
      <4>2. /\ intents'[j] = intents[j] /\ appended'[j] = appended[j]
            /\ approvals'[j] = approvals[j]
            /\ snap'[h] = intents[j] /\ intents[j].status # "none"
        BY <2>6, <2>d, <3>0 DEF ReadForEvidence, Enter, Go, stores
      <4>p. Phase(h, j)'
        BY <3>1, <3>2, <4>1, <4>2 DEF Phase, Resting, Outcomes, Unspent, NoneOf, OnlyOf, Of, OnIntent, Creating, Deciding, Running
      <4>q. pc'[h] \in OnIntent
        BY <3>1 DEF OnIntent, Creating, Deciding, Running
      <4> HIDE DEF Others
      <4> QED
        BY <2>s, <3>1, <4>1, <4>p, <4>q
    <3>6. \A k \in Requests : pc'[k] \in Running => Of(ref[k], on[k])'
      <4>1. Runs(h)
        BY <3>1 DEF Running
      <4> HIDE DEF Others, Runs
      <4> QED
        BY <2>r, <3>1, <3>3, <4>1
    <3> QED
      BY <3>4, <3>5, <3>6 DEF SerialInv
  <2>7. ASSUME NEW h \in Requests, NEW g0 \in Requests, ReadGrant(h, g0) PROVE SerialInv'
    <3>0. PICK j \in Intents : j = grants[g0].intent
      BY <2>7, <2>t, RecordTypes
    <3>1. /\ Others(h) /\ pc[h] = "idle" /\ pc'[h] = "checked" /\ on'[h] = j
          /\ \A i \in Intents : i # j => Kept(i)
      BY <2>7, <2>d, <3>0 DEF ReadGrant, Enter, Go, stores
    <3>2. /\ \A g \in Requests : grants'[g] = grants[g] /\ performed'[g] = performed[g]
      BY <2>7 DEF ReadGrant, Enter, Go, stores
    <3>3. /\ \A g \in Requests : grants[g].status # "none" => grants'[g].status # "none" /\ grants'[g].intent = grants[g].intent
          /\ \A i \in Intents : i # j => GrantsKept(i)
      BY <3>2 DEF Of
    <3>4. ASSUME NEW i \in Intents, i # j, i \notin raced' PROVE Serial(i)'
      <4>1. Kept(i) /\ GrantsKept(i)
        BY <3>1, <3>3, <3>4
      <4>2. ~(pc[h] \in OnIntent /\ on[h] = i) /\ ~(pc'[h] \in OnIntent /\ on'[h] = i)
        BY <3>1, <3>4 DEF OnIntent, Creating, Deciding, Running
      <4> HIDE DEF Others, Kept, GrantsKept
      <4> QED
        BY <2>f, <3>1, <3>4, <4>1, <4>2
    <3>5. ASSUME j \notin raced' PROVE Serial(j)'
      <4>1. InFlight(j) = {} /\ Resting(j)
        <5>1. InFlight(j) = {} /\ j \notin raced
          BY <2>7, <3>0, <3>5 DEF ReadGrant, Enter, Go, stores
        <5> QED
          BY <2>b, <5>1
      <4>2. /\ intents'[j] = intents[j] /\ appended'[j] = appended[j]
            /\ approvals'[j] = approvals[j]
            /\ ref'[h] = g0 /\ grants[g0].status = "active" /\ grants[g0].intent = j
        BY <2>7, <2>d, <3>0 DEF ReadGrant, Enter, Go, stores
      <4>3. intents[j].status = "approved" /\ intents[j].grant = g0 /\ approvals[j] \notin {"pending", "denied"}
        <5>1. intents[j] \in IntentRecords
          BY <2>t
        <5>2. Of(g0, j)
          BY <4>2 DEF Of
        <5>3. intents[j].status \notin {"none", "pending_policy", "pending_approval", "denied", "executing"}
          BY <4>1, <5>2 DEF Resting, NoneOf
        <5>4. intents[j].status \in {"approved", "succeeded", "failed"}
          BY <5>1, <5>3 DEF IntentRecords, IntentStatus, Outcomes
        <5>5. intents[j].grant = g0
          BY <4>1, <5>2, <5>4 DEF Resting, OnlyOf
        <5> QED
          BY <4>1, <4>2, <5>4, <5>5 DEF Resting, Outcomes
      <4>p. Phase(h, j)'
        BY <3>1, <3>2, <4>1, <4>2, <4>3 DEF Phase, RunPhase, Resting, Unspent, NoneOf, OnlyOf, Of, OnIntent, Creating, Deciding, Running
      <4>q. pc'[h] \in OnIntent
        BY <3>1 DEF OnIntent, Creating, Deciding, Running
      <4> HIDE DEF Others
      <4> QED
        BY <2>s, <3>1, <4>1, <4>p, <4>q
    <3>6. \A k \in Requests : pc'[k] \in Running => Of(ref[k], on[k])'
      <4>1. Runs(h)
        BY <2>7, <2>d, <3>0, <3>1, <3>2 DEF ReadGrant, Enter, Go, stores
      <4> HIDE DEF Others, Runs
      <4> QED
        BY <2>r, <3>1, <3>3, <4>1
    <3> QED
      BY <3>4, <3>5, <3>6 DEF SerialInv
  <2>8. ASSUME NEW h \in Requests, NEW d0 \in Effects, Evaluate(h, d0) PROVE SerialInv'
    <3>0. PICK j \in Intents : j = on[h]
      BY <2>8, <2>t
    <3>1. /\ Others(h) /\ pc[h] = "evaluating" /\ pc'[h] = "judged" /\ on'[h] = j /\ on[h] = j
          /\ \A i \in Intents : i # j => Kept(i)
      BY <2>8, <2>d, <3>0 DEF Evaluate, Go, stores, history
    <3>2. /\ \A g \in Requests : grants'[g] = grants[g] /\ performed'[g] = performed[g]
      BY <2>8 DEF Evaluate, Go, stores, history
    <3>3. /\ \A g \in Requests : grants[g].status # "none" => grants'[g].status # "none" /\ grants'[g].intent = grants[g].intent
          /\ \A i \in Intents : i # j => GrantsKept(i)
      BY <3>2 DEF Of
    <3>4. ASSUME NEW i \in Intents, i # j, i \notin raced' PROVE Serial(i)'
      <4>1. Kept(i) /\ GrantsKept(i)
        BY <3>1, <3>3, <3>4
      <4>2. ~(pc[h] \in OnIntent /\ on[h] = i) /\ ~(pc'[h] \in OnIntent /\ on'[h] = i)
        BY <3>1, <3>4 DEF OnIntent, Creating, Deciding, Running
      <4> HIDE DEF Others, Kept, GrantsKept
      <4> QED
        BY <2>f, <3>1, <3>4, <4>1, <4>2
    <3>5. ASSUME j \notin raced' PROVE Serial(j)'
      <4>1. InFlight(j) = {h} /\ Phase(h, j)
        <5>1. pc[h] \in OnIntent /\ on[h] \notin raced
          BY <2>8, <3>1, <3>5 DEF Evaluate, Go, stores, history, OnIntent, Creating, Deciding, Running
        <5> QED
          BY <2>o, <3>1, <5>1
      <4>2. /\ intents'[j] = intents[j] /\ appended'[j] = appended[j]
            /\ approvals'[j] = approvals[j]
            /\ snap'[h] = snap[h]
        BY <2>8, <2>d, <3>0 DEF Evaluate, Go, stores, history
      <4>p. Phase(h, j)'
        BY <3>1, <3>2, <4>1, <4>2 DEF Phase, CreatePhase, Unspent, NoneOf, OnlyOf, Of, OnIntent, Creating, Deciding, Running
      <4>q. pc'[h] \in OnIntent
        BY <3>1 DEF OnIntent, Creating, Deciding, Running
      <4> HIDE DEF Others
      <4> QED
        BY <2>s, <3>1, <4>1, <4>p, <4>q
    <3>6. \A k \in Requests : pc'[k] \in Running => Of(ref[k], on[k])'
      <4>1. Runs(h)
        BY <3>1 DEF Running
      <4> HIDE DEF Others, Runs
      <4> QED
        BY <2>r, <3>1, <3>3, <4>1
    <3> QED
      BY <3>4, <3>5, <3>6 DEF SerialInv
  <2>9. ASSUME NEW h \in Requests, GrantAllowed(h) PROVE SerialInv'
    <3>0. PICK j \in Intents : j = on[h]
      BY <2>9, <2>t
    <3>1. /\ Others(h) /\ pc[h] = "judged" /\ pc'[h] = "granted" /\ on'[h] = j /\ on[h] = j
          /\ \A i \in Intents : i # j => Kept(i)
      BY <2>9, <2>d, <3>0 DEF GrantAllowed, Go, locals, history
    <3>2. /\ \A g \in Requests : (g # h => grants'[g] = grants[g]) /\ performed'[g] = performed[g]
          /\ grants[h].status = "none" /\ performed[h] = 0 /\ grants'[h].status = "active" /\ grants'[h].intent = j
      <4>1. grants[h].status = "none" /\ performed[h] = 0
        BY <3>1 DEF GrantInv
      <4> QED
        BY <2>9, <2>d, <3>0, <4>1 DEF GrantAllowed, Go, locals, history, NewExecutionGrant
    <3>3. /\ \A g \in Requests : grants[g].status # "none" => grants'[g].status # "none" /\ grants'[g].intent = grants[g].intent
          /\ \A i \in Intents : i # j => GrantsKept(i)
      BY <3>2 DEF Of
    <3>4. ASSUME NEW i \in Intents, i # j, i \notin raced' PROVE Serial(i)'
      <4>1. Kept(i) /\ GrantsKept(i)
        BY <3>1, <3>3, <3>4
      <4>2. ~(pc[h] \in OnIntent /\ on[h] = i) /\ ~(pc'[h] \in OnIntent /\ on'[h] = i)
        BY <3>1, <3>4 DEF OnIntent, Creating, Deciding, Running
      <4> HIDE DEF Others, Kept, GrantsKept
      <4> QED
        BY <2>f, <3>1, <3>4, <4>1, <4>2
    <3>5. ASSUME j \notin raced' PROVE Serial(j)'
      <4>1. InFlight(j) = {h} /\ Phase(h, j)
        <5>1. pc[h] \in OnIntent /\ on[h] \notin raced
          BY <2>9, <3>1, <3>5 DEF GrantAllowed, Go, locals, history, OnIntent, Creating, Deciding, Running
        <5> QED
          BY <2>o, <3>1, <5>1
      <4>2. /\ intents'[j] = intents[j] /\ appended'[j] = appended[j]
            /\ approvals'[j] = approvals[j]
            /\ snap'[h] = snap[h]
        BY <2>9, <2>d, <3>0 DEF GrantAllowed, Go, locals, history
      <4>p. Phase(h, j)'
        BY <3>1, <3>2, <4>1, <4>2 DEF Phase, CreatePhase, Unspent, NoneOf, OnlyOf, Of, OnIntent, Creating, Deciding, Running
      <4>q. pc'[h] \in OnIntent
        BY <3>1 DEF OnIntent, Creating, Deciding, Running
      <4> HIDE DEF Others
      <4> QED
        BY <2>s, <3>1, <4>1, <4>p, <4>q
    <3>6. \A k \in Requests : pc'[k] \in Running => Of(ref[k], on[k])'
      <4>1. Runs(h)
        BY <3>1 DEF Running
      <4> HIDE DEF Others, Runs
      <4> QED
        BY <2>r, <3>1, <3>3, <4>1
    <3> QED
      BY <3>4, <3>5, <3>6 DEF SerialInv
  <2>10. ASSUME NEW h \in Requests, RequestApproval(h) PROVE SerialInv'
    <3>0. PICK j \in Intents : j = on[h]
      BY <2>10, <2>t
    <3>1. /\ Others(h) /\ pc[h] = "judged" /\ pc'[h] = "asked" /\ on'[h] = j /\ on[h] = j
          /\ \A i \in Intents : i # j => Kept(i)
      BY <2>10, <2>d, <3>0 DEF RequestApproval, Go, locals, history
    <3>2. /\ \A g \in Requests : grants'[g] = grants[g] /\ performed'[g] = performed[g]
      BY <2>10 DEF RequestApproval, Go, locals, history
    <3>3. /\ \A g \in Requests : grants[g].status # "none" => grants'[g].status # "none" /\ grants'[g].intent = grants[g].intent
          /\ \A i \in Intents : i # j => GrantsKept(i)
      BY <3>2 DEF Of
    <3>4. ASSUME NEW i \in Intents, i # j, i \notin raced' PROVE Serial(i)'
      <4>1. Kept(i) /\ GrantsKept(i)
        BY <3>1, <3>3, <3>4
      <4>2. ~(pc[h] \in OnIntent /\ on[h] = i) /\ ~(pc'[h] \in OnIntent /\ on'[h] = i)
        BY <3>1, <3>4 DEF OnIntent, Creating, Deciding, Running
      <4> HIDE DEF Others, Kept, GrantsKept
      <4> QED
        BY <2>f, <3>1, <3>4, <4>1, <4>2
    <3>5. ASSUME j \notin raced' PROVE Serial(j)'
      <4>1. InFlight(j) = {h} /\ Phase(h, j)
        <5>1. pc[h] \in OnIntent /\ on[h] \notin raced
          BY <2>10, <3>1, <3>5 DEF RequestApproval, Go, locals, history, OnIntent, Creating, Deciding, Running
        <5> QED
          BY <2>o, <3>1, <5>1
      <4>2. /\ intents'[j] = intents[j] /\ appended'[j] = appended[j]
            /\ approvals'[j] = "pending"
            /\ snap'[h] = snap[h]
        BY <2>10, <2>d, <3>0 DEF RequestApproval, Go, locals, history
      <4>p. Phase(h, j)'
        BY <3>1, <3>2, <4>1, <4>2 DEF Phase, CreatePhase, Unspent, NoneOf, OnlyOf, Of, OnIntent, Creating, Deciding, Running
      <4>q. pc'[h] \in OnIntent
        BY <3>1 DEF OnIntent, Creating, Deciding, Running
      <4> HIDE DEF Others
      <4> QED
        BY <2>s, <3>1, <4>1, <4>p, <4>q
    <3>6. \A k \in Requests : pc'[k] \in Running => Of(ref[k], on[k])'
      <4>1. Runs(h)
        BY <3>1 DEF Running
      <4> HIDE DEF Others, Runs
      <4> QED
        BY <2>r, <3>1, <3>3, <4>1
    <3> QED
      BY <3>4, <3>5, <3>6 DEF SerialInv
  <2>11. ASSUME NEW h \in Requests, WriteApproval(h) PROVE SerialInv'
    <3>0. PICK j \in Intents : j = on[h]
      BY <2>11, <2>t
    <3>1. /\ Others(h) /\ pc[h] = "deciding" /\ pc'[h] = "decided" /\ on'[h] = j /\ on[h] = j
          /\ \A i \in Intents : i # j => Kept(i)
      BY <2>11, <2>d, <3>0 DEF WriteApproval, Go, locals, history
    <3>2. /\ \A g \in Requests : grants'[g] = grants[g] /\ performed'[g] = performed[g]
      BY <2>11 DEF WriteApproval, Go, locals, history
    <3>3. /\ \A g \in Requests : grants[g].status # "none" => grants'[g].status # "none" /\ grants'[g].intent = grants[g].intent
          /\ \A i \in Intents : i # j => GrantsKept(i)
      BY <3>2 DEF Of
    <3>4. ASSUME NEW i \in Intents, i # j, i \notin raced' PROVE Serial(i)'
      <4>1. Kept(i) /\ GrantsKept(i)
        BY <3>1, <3>3, <3>4
      <4>2. ~(pc[h] \in OnIntent /\ on[h] = i) /\ ~(pc'[h] \in OnIntent /\ on'[h] = i)
        BY <3>1, <3>4 DEF OnIntent, Creating, Deciding, Running
      <4> HIDE DEF Others, Kept, GrantsKept
      <4> QED
        BY <2>f, <3>1, <3>4, <4>1, <4>2
    <3>5. ASSUME j \notin raced' PROVE Serial(j)'
      <4>1. InFlight(j) = {h} /\ Phase(h, j)
        <5>1. pc[h] \in OnIntent /\ on[h] \notin raced
          BY <2>11, <3>1, <3>5 DEF WriteApproval, Go, locals, history, OnIntent, Creating, Deciding, Running
        <5> QED
          BY <2>o, <3>1, <5>1
      <4>2. /\ intents'[j] = intents[j] /\ appended'[j] = appended[j]
            /\ approvals'[j] = want[h]
            /\ want'[h] = want[h]
        BY <2>11, <2>d, <3>0 DEF WriteApproval, Go, locals, history
      <4>p. Phase(h, j)'
        BY <3>1, <3>2, <4>1, <4>2 DEF Phase, DecidePhase, Unspent, NoneOf, OnlyOf, Of, OnIntent, Creating, Deciding, Running
      <4>q. pc'[h] \in OnIntent
        BY <3>1 DEF OnIntent, Creating, Deciding, Running
      <4> HIDE DEF Others
      <4> QED
        BY <2>s, <3>1, <4>1, <4>p, <4>q
    <3>6. \A k \in Requests : pc'[k] \in Running => Of(ref[k], on[k])'
      <4>1. Runs(h)
        BY <3>1 DEF Running
      <4> HIDE DEF Others, Runs
      <4> QED
        BY <2>r, <3>1, <3>3, <4>1
    <3> QED
      BY <3>4, <3>5, <3>6 DEF SerialInv
  <2>12. ASSUME NEW h \in Requests, LoadIntent(h) PROVE SerialInv'
    <3>0. PICK j \in Intents : j = on[h]
      BY <2>12, <2>t
    <3>1. /\ Others(h) /\ pc[h] = "decided" /\ pc'[h] = "loaded" /\ on'[h] = j /\ on[h] = j
          /\ \A i \in Intents : i # j => Kept(i)
      BY <2>12, <2>d, <3>0 DEF LoadIntent, Go, stores, history
    <3>2. /\ \A g \in Requests : grants'[g] = grants[g] /\ performed'[g] = performed[g]
      BY <2>12 DEF LoadIntent, Go, stores, history
    <3>3. /\ \A g \in Requests : grants[g].status # "none" => grants'[g].status # "none" /\ grants'[g].intent = grants[g].intent
          /\ \A i \in Intents : i # j => GrantsKept(i)
      BY <3>2 DEF Of
    <3>4. ASSUME NEW i \in Intents, i # j, i \notin raced' PROVE Serial(i)'
      <4>1. Kept(i) /\ GrantsKept(i)
        BY <3>1, <3>3, <3>4
      <4>2. ~(pc[h] \in OnIntent /\ on[h] = i) /\ ~(pc'[h] \in OnIntent /\ on'[h] = i)
        BY <3>1, <3>4 DEF OnIntent, Creating, Deciding, Running
      <4> HIDE DEF Others, Kept, GrantsKept
      <4> QED
        BY <2>f, <3>1, <3>4, <4>1, <4>2
    <3>5. ASSUME j \notin raced' PROVE Serial(j)'
      <4>1. InFlight(j) = {h} /\ Phase(h, j)
        <5>1. pc[h] \in OnIntent /\ on[h] \notin raced
          BY <2>12, <3>1, <3>5 DEF LoadIntent, Go, stores, history, OnIntent, Creating, Deciding, Running
        <5> QED
          BY <2>o, <3>1, <5>1
      <4>2. /\ intents'[j] = intents[j] /\ appended'[j] = appended[j]
            /\ approvals'[j] = approvals[j]
            /\ want'[h] = want[h] /\ snap'[h] = intents[j]
        BY <2>12, <2>d, <3>0 DEF LoadIntent, Go, stores, history
      <4>p. Phase(h, j)'
        BY <3>1, <3>2, <4>1, <4>2 DEF Phase, DecidePhase, Unspent, NoneOf, OnlyOf, Of, OnIntent, Creating, Deciding, Running
      <4>q. pc'[h] \in OnIntent
        BY <3>1 DEF OnIntent, Creating, Deciding, Running
      <4> HIDE DEF Others
      <4> QED
        BY <2>s, <3>1, <4>1, <4>p, <4>q
    <3>6. \A k \in Requests : pc'[k] \in Running => Of(ref[k], on[k])'
      <4>1. Runs(h)
        BY <3>1 DEF Running
      <4> HIDE DEF Others, Runs
      <4> QED
        BY <2>r, <3>1, <3>3, <4>1
    <3> QED
      BY <3>4, <3>5, <3>6 DEF SerialInv
  <2>13. ASSUME NEW h \in Requests, IssueGrant(h) PROVE SerialInv'
    <3>0. PICK j \in Intents : j = on[h]
      BY <2>13, <2>t
    <3>1. /\ Others(h) /\ pc[h] = "loaded" /\ pc'[h] = "issued" /\ on'[h] = j /\ on[h] = j
          /\ \A i \in Intents : i # j => Kept(i)
      BY <2>13, <2>d, <3>0 DEF IssueGrant, Go, locals, history
    <3>2. /\ \A g \in Requests : (g # h => grants'[g] = grants[g]) /\ performed'[g] = performed[g]
          /\ grants[h].status = "none" /\ performed[h] = 0 /\ grants'[h].status = "active" /\ grants'[h].intent = j
      <4>1. grants[h].status = "none" /\ performed[h] = 0
        BY <3>1 DEF GrantInv
      <4> QED
        BY <2>13, <2>d, <3>0, <4>1 DEF IssueGrant, Go, locals, history, NewExecutionGrant
    <3>3. /\ \A g \in Requests : grants[g].status # "none" => grants'[g].status # "none" /\ grants'[g].intent = grants[g].intent
          /\ \A i \in Intents : i # j => GrantsKept(i)
      BY <3>2 DEF Of
    <3>4. ASSUME NEW i \in Intents, i # j, i \notin raced' PROVE Serial(i)'
      <4>1. Kept(i) /\ GrantsKept(i)
        BY <3>1, <3>3, <3>4
      <4>2. ~(pc[h] \in OnIntent /\ on[h] = i) /\ ~(pc'[h] \in OnIntent /\ on'[h] = i)
        BY <3>1, <3>4 DEF OnIntent, Creating, Deciding, Running
      <4> HIDE DEF Others, Kept, GrantsKept
      <4> QED
        BY <2>f, <3>1, <3>4, <4>1, <4>2
    <3>5. ASSUME j \notin raced' PROVE Serial(j)'
      <4>1. InFlight(j) = {h} /\ Phase(h, j)
        <5>1. pc[h] \in OnIntent /\ on[h] \notin raced
          BY <2>13, <3>1, <3>5 DEF IssueGrant, Go, locals, history, OnIntent, Creating, Deciding, Running
        <5> QED
          BY <2>o, <3>1, <5>1
      <4>2. /\ intents'[j] = intents[j] /\ appended'[j] = appended[j]
            /\ approvals'[j] = approvals[j]
            /\ want'[h] = want[h] /\ want[h] # "denied" /\ snap'[h] = snap[h]
        BY <2>13, <2>d, <3>0 DEF IssueGrant, Go, locals, history
      <4>p. Phase(h, j)'
        BY <3>1, <3>2, <4>1, <4>2 DEF Phase, DecidePhase, Unspent, NoneOf, OnlyOf, Of, OnIntent, Creating, Deciding, Running
      <4>q. pc'[h] \in OnIntent
        BY <3>1 DEF OnIntent, Creating, Deciding, Running
      <4> HIDE DEF Others
      <4> QED
        BY <2>s, <3>1, <4>1, <4>p, <4>q
    <3>6. \A k \in Requests : pc'[k] \in Running => Of(ref[k], on[k])'
      <4>1. Runs(h)
        BY <3>1 DEF Running
      <4> HIDE DEF Others, Runs
      <4> QED
        BY <2>r, <3>1, <3>3, <4>1
    <3> QED
      BY <3>4, <3>5, <3>6 DEF SerialInv
  <2>14. ASSUME NEW h \in Requests, LoadForRun(h) PROVE SerialInv'
    <3>0. PICK j \in Intents : j = on[h]
      BY <2>14, <2>t
    <3>1. /\ Others(h) /\ pc[h] = "checked" /\ pc'[h] = "consuming" /\ on'[h] = j /\ on[h] = j
          /\ \A i \in Intents : i # j => Kept(i)
      BY <2>14, <2>d, <3>0 DEF LoadForRun, Go, stores, history
    <3>2. /\ \A g \in Requests : grants'[g] = grants[g] /\ performed'[g] = performed[g]
      BY <2>14 DEF LoadForRun, Go, stores, history
    <3>3. /\ \A g \in Requests : grants[g].status # "none" => grants'[g].status # "none" /\ grants'[g].intent = grants[g].intent
          /\ \A i \in Intents : i # j => GrantsKept(i)
      BY <3>2 DEF Of
    <3>4. ASSUME NEW i \in Intents, i # j, i \notin raced' PROVE Serial(i)'
      <4>1. Kept(i) /\ GrantsKept(i)
        BY <3>1, <3>3, <3>4
      <4>2. ~(pc[h] \in OnIntent /\ on[h] = i) /\ ~(pc'[h] \in OnIntent /\ on'[h] = i)
        BY <3>1, <3>4 DEF OnIntent, Creating, Deciding, Running
      <4> HIDE DEF Others, Kept, GrantsKept
      <4> QED
        BY <2>f, <3>1, <3>4, <4>1, <4>2
    <3>5. ASSUME j \notin raced' PROVE Serial(j)'
      <4>1. InFlight(j) = {h} /\ Phase(h, j)
        <5>1. pc[h] \in OnIntent /\ on[h] \notin raced
          BY <2>14, <3>1, <3>5 DEF LoadForRun, Go, stores, history, OnIntent, Creating, Deciding, Running
        <5> QED
          BY <2>o, <3>1, <5>1
      <4>2. /\ intents'[j] = intents[j] /\ appended'[j] = appended[j]
            /\ approvals'[j] = approvals[j]
            /\ ref'[h] = ref[h] /\ want'[h] = want[h]
            /\ snap'[h] = intents[j]
        BY <2>14, <2>d, <3>0 DEF LoadForRun, Go, stores, history
      <4>p. Phase(h, j)'
        BY <3>1, <3>2, <4>1, <4>2 DEF Phase, RunPhase, Unspent, NoneOf, OnlyOf, Of, OnIntent, Creating, Deciding, Running
      <4>q. pc'[h] \in OnIntent
        BY <3>1 DEF OnIntent, Creating, Deciding, Running
      <4> HIDE DEF Others
      <4> QED
        BY <2>s, <3>1, <4>1, <4>p, <4>q
    <3>6. \A k \in Requests : pc'[k] \in Running => Of(ref[k], on[k])'
      <4>1. Runs(h)
        <5>1. ref'[h] = ref[h] /\ Of(ref[h], j) /\ ref[h] \in Requests
          BY <2>14, <2>t, <3>0, <3>1 DEF LoadForRun, Go, stores, history, SerialInv, Running
        <5> QED
          BY <3>1, <3>3, <5>1 DEF Of
      <4> HIDE DEF Others, Runs
      <4> QED
        BY <2>r, <3>1, <3>3, <4>1
    <3> QED
      BY <3>4, <3>5, <3>6 DEF SerialInv
  <2>15. ASSUME NEW h \in Requests, ConsumeGrant(h) PROVE SerialInv'
    <3>0. PICK j \in Intents : j = on[h]
      BY <2>15, <2>t
    <3>1. /\ Others(h) /\ pc[h] = "consuming" /\ pc'[h] = "recording" /\ on'[h] = j /\ on[h] = j
          /\ \A i \in Intents : i # j => Kept(i)
      BY <2>15, <2>d, <3>0 DEF ConsumeGrant, Go, locals, history
    <3>2. /\ ref[h] \in Requests /\ Of(ref[h], j)
          /\ \A g \in Requests : (g # ref[h] => grants'[g] = grants[g]) /\ performed'[g] = performed[g]
          /\ grants'[ref[h]].status = "consumed" /\ grants'[ref[h]].intent = grants[ref[h]].intent
      <4>1. ref[h] \in Requests /\ Of(ref[h], j)
        BY <2>t, <3>0, <3>1 DEF SerialInv, Running
      <4> QED
        BY <2>15, <2>t, <4>1 DEF ConsumeGrant, Go, locals, history, StoreGrant, GrantRecords
    <3>3. /\ \A g \in Requests : grants[g].status # "none" => grants'[g].status # "none" /\ grants'[g].intent = grants[g].intent
          /\ \A i \in Intents : i # j => GrantsKept(i)
      BY <3>2 DEF Of
    <3>4. ASSUME NEW i \in Intents, i # j, i \notin raced' PROVE Serial(i)'
      <4>1. Kept(i) /\ GrantsKept(i)
        BY <3>1, <3>3, <3>4
      <4>2. ~(pc[h] \in OnIntent /\ on[h] = i) /\ ~(pc'[h] \in OnIntent /\ on'[h] = i)
        BY <3>1, <3>4 DEF OnIntent, Creating, Deciding, Running
      <4> HIDE DEF Others, Kept, GrantsKept
      <4> QED
        BY <2>f, <3>1, <3>4, <4>1, <4>2
    <3>5. ASSUME j \notin raced' PROVE Serial(j)'
      <4>1. InFlight(j) = {h} /\ Phase(h, j)
        <5>1. pc[h] \in OnIntent /\ on[h] \notin raced
          BY <2>15, <3>1, <3>5 DEF ConsumeGrant, Go, locals, history, OnIntent, Creating, Deciding, Running
        <5> QED
          BY <2>o, <3>1, <5>1
      <4>2. /\ intents'[j] = intents[j] /\ appended'[j] = appended[j]
            /\ approvals'[j] = approvals[j]
            /\ ref'[h] = ref[h] /\ want'[h] = want[h]
            /\ snap'[h] = snap[h]
        BY <2>15, <2>d, <3>0 DEF ConsumeGrant, Go, locals, history
      <4>p. Phase(h, j)'
        BY <3>1, <3>2, <4>1, <4>2 DEF Phase, RunPhase, Unspent, NoneOf, OnlyOf, Of, OnIntent, Creating, Deciding, Running
      <4>q. pc'[h] \in OnIntent
        BY <3>1 DEF OnIntent, Creating, Deciding, Running
      <4> HIDE DEF Others
      <4> QED
        BY <2>s, <3>1, <4>1, <4>p, <4>q
    <3>6. \A k \in Requests : pc'[k] \in Running => Of(ref[k], on[k])'
      <4>1. Runs(h)
        <5>1. ref'[h] = ref[h] /\ Of(ref[h], j) /\ ref[h] \in Requests
          BY <2>15, <2>t, <3>0, <3>1 DEF ConsumeGrant, Go, locals, history, SerialInv, Running
        <5> QED
          BY <3>1, <3>3, <5>1 DEF Of
      <4> HIDE DEF Others, Runs
      <4> QED
        BY <2>r, <3>1, <3>3, <4>1
    <3> QED
      BY <3>4, <3>5, <3>6 DEF SerialInv
  <2>16. ASSUME NEW h \in Requests, CreateExecution(h) PROVE SerialInv'
    <3>0. PICK j \in Intents : j = on[h]
      BY <2>16, <2>t
    <3>1. /\ Others(h) /\ pc[h] = "recording" /\ pc'[h] = "starting" /\ on'[h] = j /\ on[h] = j
          /\ \A i \in Intents : i # j => Kept(i)
      BY <2>16, <2>d, <3>0 DEF CreateExecution, Go, locals, history
    <3>2. /\ \A g \in Requests : grants'[g] = grants[g] /\ performed'[g] = performed[g]
      BY <2>16 DEF CreateExecution, Go, locals, history
    <3>3. /\ \A g \in Requests : grants[g].status # "none" => grants'[g].status # "none" /\ grants'[g].intent = grants[g].intent
          /\ \A i \in Intents : i # j => GrantsKept(i)
      BY <3>2 DEF Of
    <3>4. ASSUME NEW i \in Intents, i # j, i \notin raced' PROVE Serial(i)'
      <4>1. Kept(i) /\ GrantsKept(i)
        BY <3>1, <3>3, <3>4
      <4>2. ~(pc[h] \in OnIntent /\ on[h] = i) /\ ~(pc'[h] \in OnIntent /\ on'[h] = i)
        BY <3>1, <3>4 DEF OnIntent, Creating, Deciding, Running
      <4> HIDE DEF Others, Kept, GrantsKept
      <4> QED
        BY <2>f, <3>1, <3>4, <4>1, <4>2
    <3>5. ASSUME j \notin raced' PROVE Serial(j)'
      <4>1. InFlight(j) = {h} /\ Phase(h, j)
        <5>1. pc[h] \in OnIntent /\ on[h] \notin raced
          BY <2>16, <3>1, <3>5 DEF CreateExecution, Go, locals, history, OnIntent, Creating, Deciding, Running
        <5> QED
          BY <2>o, <3>1, <5>1
      <4>2. /\ intents'[j] = intents[j] /\ appended'[j] = appended[j]
            /\ approvals'[j] = approvals[j]
            /\ ref'[h] = ref[h] /\ want'[h] = want[h]
            /\ snap'[h] = snap[h]
        BY <2>16, <2>d, <3>0 DEF CreateExecution, Go, locals, history
      <4>p. Phase(h, j)'
        BY <3>1, <3>2, <4>1, <4>2 DEF Phase, RunPhase, Unspent, NoneOf, OnlyOf, Of, OnIntent, Creating, Deciding, Running
      <4>q. pc'[h] \in OnIntent
        BY <3>1 DEF OnIntent, Creating, Deciding, Running
      <4> HIDE DEF Others
      <4> QED
        BY <2>s, <3>1, <4>1, <4>p, <4>q
    <3>6. \A k \in Requests : pc'[k] \in Running => Of(ref[k], on[k])'
      <4>1. Runs(h)
        <5>1. ref'[h] = ref[h] /\ Of(ref[h], j) /\ ref[h] \in Requests
          BY <2>16, <2>t, <3>0, <3>1 DEF CreateExecution, Go, locals, history, SerialInv, Running
        <5> QED
          BY <3>1, <3>3, <5>1 DEF Of
      <4> HIDE DEF Others, Runs
      <4> QED
        BY <2>r, <3>1, <3>3, <4>1
    <3> QED
      BY <3>4, <3>5, <3>6 DEF SerialInv
  <2>17. ASSUME NEW h \in Requests, StoreExecuting(h) PROVE SerialInv'
    <3>0. PICK j \in Intents : j = on[h]
      BY <2>17, <2>t
    <3>1. /\ Others(h) /\ pc[h] = "starting" /\ pc'[h] = "connecting" /\ on'[h] = j /\ on[h] = j
          /\ \A i \in Intents : i # j => Kept(i)
      BY <2>17, <2>d, <3>0 DEF StoreExecuting, Go, locals, history, StoreIntent
    <3>2. /\ \A g \in Requests : grants'[g] = grants[g] /\ performed'[g] = performed[g]
      BY <2>17 DEF StoreExecuting, Go, locals, history, StoreIntent
    <3>3. /\ \A g \in Requests : grants[g].status # "none" => grants'[g].status # "none" /\ grants'[g].intent = grants[g].intent
          /\ \A i \in Intents : i # j => GrantsKept(i)
      BY <3>2 DEF Of
    <3>4. ASSUME NEW i \in Intents, i # j, i \notin raced' PROVE Serial(i)'
      <4>1. Kept(i) /\ GrantsKept(i)
        BY <3>1, <3>3, <3>4
      <4>2. ~(pc[h] \in OnIntent /\ on[h] = i) /\ ~(pc'[h] \in OnIntent /\ on'[h] = i)
        BY <3>1, <3>4 DEF OnIntent, Creating, Deciding, Running
      <4> HIDE DEF Others, Kept, GrantsKept
      <4> QED
        BY <2>f, <3>1, <3>4, <4>1, <4>2
    <3>5. ASSUME j \notin raced' PROVE Serial(j)'
      <4>1. InFlight(j) = {h} /\ Phase(h, j)
        <5>1. pc[h] \in OnIntent /\ on[h] \notin raced
          BY <2>17, <3>1, <3>5 DEF StoreExecuting, Go, locals, history, StoreIntent, OnIntent, Creating, Deciding, Running
        <5> QED
          BY <2>o, <3>1, <5>1
      <4>s. snap[h] \in IntentRecords
        BY <2>t
      <4>r. intents'[j] = [snap[h] EXCEPT !.status = "executing"]
        BY <2>17, <2>d, <3>0 DEF StoreExecuting, Go, locals, history, StoreIntent
      <4>2. /\ intents'[j].status = "executing" /\ intents'[j].grant = snap[h].grant /\ intents'[j].evidence = snap[h].evidence
            /\ appended'[j] = appended[j]
            /\ approvals'[j] = approvals[j]
            /\ ref'[h] = ref[h] /\ want'[h] = want[h]
            /\ snap'[h] = snap[h]
        BY <2>17, <2>d, <2>e, <3>0, <4>s, <4>r DEF StoreExecuting, Go, locals, history
      <4>p. Phase(h, j)'
        BY <3>1, <3>2, <4>1, <4>2 DEF Phase, RunPhase, Unspent, NoneOf, OnlyOf, Of, OnIntent, Creating, Deciding, Running
      <4>q. pc'[h] \in OnIntent
        BY <3>1 DEF OnIntent, Creating, Deciding, Running
      <4> HIDE DEF Others
      <4> QED
        BY <2>s, <3>1, <4>1, <4>p, <4>q
    <3>6. \A k \in Requests : pc'[k] \in Running => Of(ref[k], on[k])'
      <4>1. Runs(h)
        <5>1. ref'[h] = ref[h] /\ Of(ref[h], j) /\ ref[h] \in Requests
          BY <2>17, <2>t, <3>0, <3>1 DEF StoreExecuting, Go, locals, history, SerialInv, Running
        <5> QED
          BY <3>1, <3>3, <5>1 DEF Of
      <4> HIDE DEF Others, Runs
      <4> QED
        BY <2>r, <3>1, <3>3, <4>1
    <3> QED
      BY <3>4, <3>5, <3>6 DEF SerialInv
  <2>18. ASSUME NEW h \in Requests, NEW s \in Outcomes, Execute(h, s) PROVE SerialInv'
    <3>0. PICK j \in Intents : j = on[h]
      BY <2>18, <2>t
    <3>1. /\ Others(h) /\ pc[h] = "connecting" /\ pc'[h] = "settling" /\ on'[h] = j /\ on[h] = j
          /\ \A i \in Intents : i # j => Kept(i)
      BY <2>18, <2>d, <3>0 DEF Execute, Go, stores
    <3>2. /\ ref[h] \in Requests /\ Of(ref[h], j) /\ grants' = grants
          /\ \A g \in Requests : g # ref[h] => performed'[g] = performed[g]
          /\ performed'[ref[h]] = performed[ref[h]] + 1
      <4>1. ref[h] \in Requests /\ Of(ref[h], j)
        BY <2>t, <3>0, <3>1 DEF SerialInv, Running
      <4> QED
        BY <2>18, <2>d, <4>1 DEF Execute, Go, stores
    <3>3. /\ \A g \in Requests : grants[g].status # "none" => grants'[g].status # "none" /\ grants'[g].intent = grants[g].intent
          /\ \A i \in Intents : i # j => GrantsKept(i)
      BY <3>2 DEF Of
    <3>4. ASSUME NEW i \in Intents, i # j, i \notin raced' PROVE Serial(i)'
      <4>1. Kept(i) /\ GrantsKept(i)
        BY <3>1, <3>3, <3>4
      <4>2. ~(pc[h] \in OnIntent /\ on[h] = i) /\ ~(pc'[h] \in OnIntent /\ on'[h] = i)
        BY <3>1, <3>4 DEF OnIntent, Creating, Deciding, Running
      <4> HIDE DEF Others, Kept, GrantsKept
      <4> QED
        BY <2>f, <3>1, <3>4, <4>1, <4>2
    <3>5. ASSUME j \notin raced' PROVE Serial(j)'
      <4>1. InFlight(j) = {h} /\ Phase(h, j)
        <5>1. pc[h] \in OnIntent /\ on[h] \notin raced
          BY <2>18, <3>1, <3>5 DEF Execute, Go, stores, OnIntent, Creating, Deciding, Running
        <5> QED
          BY <2>o, <3>1, <5>1
      <4>2. /\ intents'[j] = intents[j] /\ appended'[j] = appended[j]
            /\ approvals'[j] = approvals[j]
            /\ ref'[h] = ref[h]
            /\ snap'[h] = snap[h]
        BY <2>18, <2>d, <3>0 DEF Execute, Go, stores
      <4>p. Phase(h, j)'
        BY <3>1, <3>2, <4>1, <4>2 DEF Phase, RunPhase, Unspent, NoneOf, OnlyOf, Of, OnIntent, Creating, Deciding, Running
      <4>q. pc'[h] \in OnIntent
        BY <3>1 DEF OnIntent, Creating, Deciding, Running
      <4> HIDE DEF Others
      <4> QED
        BY <2>s, <3>1, <4>1, <4>p, <4>q
    <3>6. \A k \in Requests : pc'[k] \in Running => Of(ref[k], on[k])'
      <4>1. Runs(h)
        <5>1. ref'[h] = ref[h] /\ Of(ref[h], j) /\ ref[h] \in Requests
          BY <2>18, <2>t, <3>0, <3>1 DEF Execute, Go, stores, SerialInv, Running
        <5> QED
          BY <3>1, <3>3, <5>1 DEF Of
      <4> HIDE DEF Others, Runs
      <4> QED
        BY <2>r, <3>1, <3>3, <4>1
    <3> QED
      BY <3>4, <3>5, <3>6 DEF SerialInv
  <2>19. ASSUME NEW h \in Requests, FailBeforeConnector(h) PROVE SerialInv'
    <3>0. PICK j \in Intents : j = on[h]
      BY <2>19, <2>t
    <3>1. /\ Others(h) /\ pc[h] = "connecting" /\ pc'[h] = "settling" /\ on'[h] = j /\ on[h] = j
          /\ \A i \in Intents : i # j => Kept(i)
      BY <2>19, <2>d, <3>0 DEF FailBeforeConnector, Go, stores, history
    <3>2. /\ \A g \in Requests : grants'[g] = grants[g] /\ performed'[g] = performed[g]
      BY <2>19 DEF FailBeforeConnector, Go, stores, history
    <3>3. /\ \A g \in Requests : grants[g].status # "none" => grants'[g].status # "none" /\ grants'[g].intent = grants[g].intent
          /\ \A i \in Intents : i # j => GrantsKept(i)
      BY <3>2 DEF Of
    <3>4. ASSUME NEW i \in Intents, i # j, i \notin raced' PROVE Serial(i)'
      <4>1. Kept(i) /\ GrantsKept(i)
        BY <3>1, <3>3, <3>4
      <4>2. ~(pc[h] \in OnIntent /\ on[h] = i) /\ ~(pc'[h] \in OnIntent /\ on'[h] = i)
        BY <3>1, <3>4 DEF OnIntent, Creating, Deciding, Running
      <4> HIDE DEF Others, Kept, GrantsKept
      <4> QED
        BY <2>f, <3>1, <3>4, <4>1, <4>2
    <3>5. ASSUME j \notin raced' PROVE Serial(j)'
      <4>1. InFlight(j) = {h} /\ Phase(h, j)
        <5>1. pc[h] \in OnIntent /\ on[h] \notin raced
          BY <2>19, <3>1, <3>5 DEF FailBeforeConnector, Go, stores, history, OnIntent, Creating, Deciding, Running
        <5> QED
          BY <2>o, <3>1, <5>1
      <4>2. /\ intents'[j] = intents[j] /\ appended'[j] = appended[j]
            /\ approvals'[j] = approvals[j]
            /\ ref'[h] = ref[h] /\ want'[h] = "failed"
            /\ snap'[h] = snap[h]
        BY <2>19, <2>d, <3>0 DEF FailBeforeConnector, Go, stores, history
      <4>p. Phase(h, j)'
        BY <3>1, <3>2, <4>1, <4>2 DEF Phase, RunPhase, Unspent, NoneOf, OnlyOf, Of, OnIntent, Creating, Deciding, Running
      <4>q. pc'[h] \in OnIntent
        BY <3>1 DEF OnIntent, Creating, Deciding, Running
      <4> HIDE DEF Others
      <4> QED
        BY <2>s, <3>1, <4>1, <4>p, <4>q
    <3>6. \A k \in Requests : pc'[k] \in Running => Of(ref[k], on[k])'
      <4>1. Runs(h)
        <5>1. ref'[h] = ref[h] /\ Of(ref[h], j) /\ ref[h] \in Requests
          BY <2>19, <2>t, <3>0, <3>1 DEF FailBeforeConnector, Go, stores, history, SerialInv, Running
        <5> QED
          BY <3>1, <3>3, <5>1 DEF Of
      <4> HIDE DEF Others, Runs
      <4> QED
        BY <2>r, <3>1, <3>3, <4>1
    <3> QED
      BY <3>4, <3>5, <3>6 DEF SerialInv
  <2>20. ASSUME NEW h \in Requests, FinishExecution(h) PROVE SerialInv'
    <3>0. PICK j \in Intents : j = on[h]
      BY <2>20, <2>t
    <3>1. /\ Others(h) /\ pc[h] = "settling" /\ pc'[h] = "closing" /\ on'[h] = j /\ on[h] = j
          /\ \A i \in Intents : i # j => Kept(i)
      BY <2>20, <2>d, <3>0 DEF FinishExecution, Go, locals, history
    <3>2. /\ \A g \in Requests : grants'[g] = grants[g] /\ performed'[g] = performed[g]
      BY <2>20 DEF FinishExecution, Go, locals, history
    <3>3. /\ \A g \in Requests : grants[g].status # "none" => grants'[g].status # "none" /\ grants'[g].intent = grants[g].intent
          /\ \A i \in Intents : i # j => GrantsKept(i)
      BY <3>2 DEF Of
    <3>4. ASSUME NEW i \in Intents, i # j, i \notin raced' PROVE Serial(i)'
      <4>1. Kept(i) /\ GrantsKept(i)
        BY <3>1, <3>3, <3>4
      <4>2. ~(pc[h] \in OnIntent /\ on[h] = i) /\ ~(pc'[h] \in OnIntent /\ on'[h] = i)
        BY <3>1, <3>4 DEF OnIntent, Creating, Deciding, Running
      <4> HIDE DEF Others, Kept, GrantsKept
      <4> QED
        BY <2>f, <3>1, <3>4, <4>1, <4>2
    <3>5. ASSUME j \notin raced' PROVE Serial(j)'
      <4>1. InFlight(j) = {h} /\ Phase(h, j)
        <5>1. pc[h] \in OnIntent /\ on[h] \notin raced
          BY <2>20, <3>1, <3>5 DEF FinishExecution, Go, locals, history, OnIntent, Creating, Deciding, Running
        <5> QED
          BY <2>o, <3>1, <5>1
      <4>2. /\ intents'[j] = intents[j] /\ appended'[j] = appended[j]
            /\ approvals'[j] = approvals[j]
            /\ ref'[h] = ref[h] /\ want'[h] = want[h]
            /\ snap'[h] = snap[h]
        BY <2>20, <2>d, <3>0 DEF FinishExecution, Go, locals, history
      <4>p. Phase(h, j)'
        BY <3>1, <3>2, <4>1, <4>2 DEF Phase, RunPhase, Unspent, NoneOf, OnlyOf, Of, OnIntent, Creating, Deciding, Running
      <4>q. pc'[h] \in OnIntent
        BY <3>1 DEF OnIntent, Creating, Deciding, Running
      <4> HIDE DEF Others
      <4> QED
        BY <2>s, <3>1, <4>1, <4>p, <4>q
    <3>6. \A k \in Requests : pc'[k] \in Running => Of(ref[k], on[k])'
      <4>1. Runs(h)
        <5>1. ref'[h] = ref[h] /\ Of(ref[h], j) /\ ref[h] \in Requests
          BY <2>20, <2>t, <3>0, <3>1 DEF FinishExecution, Go, locals, history, SerialInv, Running
        <5> QED
          BY <3>1, <3>3, <5>1 DEF Of
      <4> HIDE DEF Others, Runs
      <4> QED
        BY <2>r, <3>1, <3>3, <4>1
    <3> QED
      BY <3>4, <3>5, <3>6 DEF SerialInv
  <2>21. ASSUME NEW h \in Requests, StoreDecision(h) PROVE SerialInv'
    <3>0. PICK j \in Intents : j = on[h]
      BY <2>21, <2>t
    <3>1. /\ Others(h) /\ pc[h] \in {"granted", "asked", "judged"} /\ pc'[h] = "done" /\ on'[h] = j /\ on[h] = j
          /\ \A i \in Intents : i # j => Kept(i)
      BY <2>21, <2>d, <3>0 DEF StoreDecision, End, Go, history, StoreIntent
    <3>2. /\ \A g \in Requests : grants'[g] = grants[g] /\ performed'[g] = performed[g]
      BY <2>21 DEF StoreDecision, End, Go, history, StoreIntent
    <3>3. /\ \A g \in Requests : grants[g].status # "none" => grants'[g].status # "none" /\ grants'[g].intent = grants[g].intent
          /\ \A i \in Intents : i # j => GrantsKept(i)
      BY <3>2 DEF Of
    <3>4. ASSUME NEW i \in Intents, i # j, i \notin raced' PROVE Serial(i)'
      <4>1. Kept(i) /\ GrantsKept(i)
        BY <3>1, <3>3, <3>4
      <4>2. ~(pc[h] \in OnIntent /\ on[h] = i) /\ ~(pc'[h] \in OnIntent /\ on'[h] = i)
        BY <3>1, <3>4 DEF OnIntent, Creating, Deciding, Running
      <4> HIDE DEF Others, Kept, GrantsKept
      <4> QED
        BY <2>f, <3>1, <3>4, <4>1, <4>2
    <3>5. ASSUME j \notin raced' PROVE Serial(j)'
      <4>1. InFlight(j) = {h} /\ Phase(h, j)
        <5>1. pc[h] \in OnIntent /\ on[h] \notin raced
          BY <2>21, <3>1, <3>5 DEF StoreDecision, End, Go, history, StoreIntent, OnIntent, Creating, Deciding, Running
        <5> QED
          BY <2>o, <3>1, <5>1
      <4>s. snap[h] \in IntentRecords
        BY <2>t
      <4>2. /\ appended'[j] = appended[j] /\ approvals'[j] = approvals[j] /\ intents'[j].evidence = snap[h].evidence
            /\ \/ pc[h] = "granted" /\ intents'[j].status = "approved" /\ intents'[j].grant = h
               \/ pc[h] = "asked" /\ intents'[j].status = "pending_approval"
               \/ pc[h] = "judged" /\ intents'[j].status = "denied"
               \/ pc[h] = "judged" /\ intents'[j] = snap[h]
        <5>1. /\ appended'[j] = appended[j] /\ approvals'[j] = approvals[j]
              /\ \/ pc[h] = "granted" /\ intents'[j] = [snap[h] EXCEPT !.status = "approved", !.grant = h]
                 \/ pc[h] = "asked" /\ intents'[j] = [snap[h] EXCEPT !.status = "pending_approval"]
                 \/ pc[h] = "judged" /\ intents'[j] = [snap[h] EXCEPT !.status = "denied"]
                 \/ pc[h] = "judged" /\ intents'[j] = snap[h]
          BY <2>21, <2>d, <3>0 DEF StoreDecision, StoreIntent, history
        <5> QED
          BY <4>s, <5>1 DEF IntentRecords
      <4>p. Resting(j)'
        BY <3>1, <3>2, <4>1, <4>2 DEF Phase, CreatePhase, Resting, Unspent, NoneOf, OnlyOf, Of, Outcomes, OnIntent, Creating, Deciding, Running
      <4>q. pc'[h] \notin OnIntent
        BY <3>1 DEF OnIntent, Creating, Deciding, Running
      <4> HIDE DEF Others
      <4> QED
        BY <2>x, <3>1, <4>1, <4>p, <4>q
    <3>6. \A k \in Requests : pc'[k] \in Running => Of(ref[k], on[k])'
      <4>1. Runs(h)
        BY <3>1 DEF Running
      <4> HIDE DEF Others, Runs
      <4> QED
        BY <2>r, <3>1, <3>3, <4>1
    <3> QED
      BY <3>4, <3>5, <3>6 DEF SerialInv
  <2>22. ASSUME NEW h \in Requests, StoreVerdict(h) PROVE SerialInv'
    <3>0. PICK j \in Intents : j = on[h]
      BY <2>22, <2>t
    <3>1. /\ Others(h) /\ pc[h] \in {"loaded", "issued"} /\ pc'[h] = "done" /\ on'[h] = j /\ on[h] = j
          /\ \A i \in Intents : i # j => Kept(i)
      BY <2>22, <2>d, <3>0 DEF StoreVerdict, End, Go, history, StoreIntent
    <3>2. /\ \A g \in Requests : grants'[g] = grants[g] /\ performed'[g] = performed[g]
      BY <2>22 DEF StoreVerdict, End, Go, history, StoreIntent
    <3>3. /\ \A g \in Requests : grants[g].status # "none" => grants'[g].status # "none" /\ grants'[g].intent = grants[g].intent
          /\ \A i \in Intents : i # j => GrantsKept(i)
      BY <3>2 DEF Of
    <3>4. ASSUME NEW i \in Intents, i # j, i \notin raced' PROVE Serial(i)'
      <4>1. Kept(i) /\ GrantsKept(i)
        BY <3>1, <3>3, <3>4
      <4>2. ~(pc[h] \in OnIntent /\ on[h] = i) /\ ~(pc'[h] \in OnIntent /\ on'[h] = i)
        BY <3>1, <3>4 DEF OnIntent, Creating, Deciding, Running
      <4> HIDE DEF Others, Kept, GrantsKept
      <4> QED
        BY <2>f, <3>1, <3>4, <4>1, <4>2
    <3>5. ASSUME j \notin raced' PROVE Serial(j)'
      <4>1. InFlight(j) = {h} /\ Phase(h, j)
        <5>1. pc[h] \in OnIntent /\ on[h] \notin raced
          BY <2>22, <3>1, <3>5 DEF StoreVerdict, End, Go, history, StoreIntent, OnIntent, Creating, Deciding, Running
        <5> QED
          BY <2>o, <3>1, <5>1
      <4>s. snap[h] \in IntentRecords /\ want[h] \in Verdicts
        BY <2>t, <3>1 DEF WantInv, Deciding
      <4>2. /\ appended'[j] = appended[j] /\ approvals'[j] = approvals[j] /\ intents'[j].evidence = snap[h].evidence
            /\ \/ pc[h] = "loaded" /\ want[h] = "denied" /\ intents'[j].status = "denied"
               \/ pc[h] = "issued" /\ intents'[j].status = "approved" /\ intents'[j].grant = h
        <5>1. /\ appended'[j] = appended[j] /\ approvals'[j] = approvals[j]
              /\ \/ pc[h] = "loaded" /\ want[h] = "denied" /\ intents'[j] = [snap[h] EXCEPT !.status = "denied"]
                 \/ pc[h] = "issued" /\ intents'[j] = [snap[h] EXCEPT !.status = "approved", !.grant = h]
          BY <2>22, <2>d, <3>0 DEF StoreVerdict, StoreIntent, history
        <5> QED
          BY <4>s, <5>1 DEF IntentRecords
      <4>p. Resting(j)'
        BY <3>1, <3>2, <4>1, <4>2, <4>s DEF Phase, DecidePhase, Verdicts, Resting, Unspent, NoneOf, OnlyOf, Of, Outcomes, OnIntent, Creating, Deciding, Running
      <4>q. pc'[h] \notin OnIntent
        BY <3>1 DEF OnIntent, Creating, Deciding, Running
      <4> HIDE DEF Others
      <4> QED
        BY <2>x, <3>1, <4>1, <4>p, <4>q
    <3>6. \A k \in Requests : pc'[k] \in Running => Of(ref[k], on[k])'
      <4>1. Runs(h)
        BY <3>1 DEF Running
      <4> HIDE DEF Others, Runs
      <4> QED
        BY <2>r, <3>1, <3>3, <4>1
    <3> QED
      BY <3>4, <3>5, <3>6 DEF SerialInv
  <2>23. ASSUME NEW h \in Requests, StoreEvidence(h) PROVE SerialInv'
    <3>0. PICK j \in Intents : j = on[h]
      BY <2>23, <2>t
    <3>1. /\ Others(h) /\ pc[h] = "evidence" /\ pc'[h] = "done" /\ on'[h] = j /\ on[h] = j
          /\ \A i \in Intents : i # j => Kept(i)
      BY <2>23, <2>d, <3>0 DEF StoreEvidence, End, Go, StoreIntent
    <3>2. /\ \A g \in Requests : grants'[g] = grants[g] /\ performed'[g] = performed[g]
      BY <2>23 DEF StoreEvidence, End, Go, StoreIntent
    <3>3. /\ \A g \in Requests : grants[g].status # "none" => grants'[g].status # "none" /\ grants'[g].intent = grants[g].intent
          /\ \A i \in Intents : i # j => GrantsKept(i)
      BY <3>2 DEF Of
    <3>4. ASSUME NEW i \in Intents, i # j, i \notin raced' PROVE Serial(i)'
      <4>1. Kept(i) /\ GrantsKept(i)
        BY <3>1, <3>3, <3>4
      <4>2. ~(pc[h] \in OnIntent /\ on[h] = i) /\ ~(pc'[h] \in OnIntent /\ on'[h] = i)
        BY <3>1, <3>4 DEF OnIntent, Creating, Deciding, Running
      <4> HIDE DEF Others, Kept, GrantsKept
      <4> QED
        BY <2>f, <3>1, <3>4, <4>1, <4>2
    <3>5. ASSUME j \notin raced' PROVE Serial(j)'
      <4>1. InFlight(j) = {h} /\ Phase(h, j)
        <5>1. pc[h] \in OnIntent /\ on[h] \notin raced
          BY <2>23, <3>1, <3>5 DEF StoreEvidence, End, Go, StoreIntent, OnIntent, Creating, Deciding, Running
        <5> QED
          BY <2>o, <3>1, <5>1
      <4>s. snap[h] \in IntentRecords /\ snap[h] = intents[j] /\ Resting(j) /\ intents[j].status # "none"
        BY <2>t, <3>1, <4>1 DEF Phase
      <4>r. intents'[j] = [snap[h] EXCEPT !.evidence = @ + 1] /\ appended'[j] = appended[j] + 1 /\ approvals'[j] = approvals[j]
        BY <2>23, <2>d, <3>0 DEF StoreEvidence, StoreIntent
      <4>2. /\ intents'[j].status = intents[j].status /\ intents'[j].grant = intents[j].grant
            /\ intents'[j].evidence = intents[j].evidence + 1 /\ appended'[j] = appended[j] + 1 /\ approvals'[j] = approvals[j]
            /\ intents[j].status # "none"
        BY <2>e, <4>s, <4>r
      <4>p. Resting(j)'
        BY <3>1, <3>2, <4>1, <4>2, <4>s DEF Phase, CreatePhase, Resting, Unspent, NoneOf, OnlyOf, Of, Outcomes, OnIntent, Creating, Deciding, Running
      <4>q. pc'[h] \notin OnIntent
        BY <3>1 DEF OnIntent, Creating, Deciding, Running
      <4> HIDE DEF Others
      <4> QED
        BY <2>x, <3>1, <4>1, <4>p, <4>q
    <3>6. \A k \in Requests : pc'[k] \in Running => Of(ref[k], on[k])'
      <4>1. Runs(h)
        BY <3>1 DEF Running
      <4> HIDE DEF Others, Runs
      <4> QED
        BY <2>r, <3>1, <3>3, <4>1
    <3> QED
      BY <3>4, <3>5, <3>6 DEF SerialInv
  <2>24. ASSUME NEW h \in Requests, ExpireGrant(h) PROVE SerialInv'
    <3>0. PICK j \in Intents : j = on[h]
      BY <2>24, <2>t
    <3>1. /\ Others(h) /\ pc[h] = "checked" /\ pc'[h] = "done" /\ on'[h] = j /\ on[h] = j
          /\ \A i \in Intents : i # j => Kept(i)
      BY <2>24, <2>d, <3>0 DEF ExpireGrant, End, Go, history
    <3>2. /\ ref[h] \in Requests /\ Of(ref[h], j)
          /\ \A g \in Requests : (g # ref[h] => grants'[g] = grants[g]) /\ performed'[g] = performed[g]
          /\ grants'[ref[h]].status = "expired" /\ grants'[ref[h]].intent = grants[ref[h]].intent
      <4>1. ref[h] \in Requests /\ Of(ref[h], j)
        BY <2>t, <3>0, <3>1 DEF SerialInv, Running
      <4> QED
        BY <2>24, <2>t, <4>1 DEF ExpireGrant, End, Go, history, StoreGrant, GrantRecords
    <3>3. /\ \A g \in Requests : grants[g].status # "none" => grants'[g].status # "none" /\ grants'[g].intent = grants[g].intent
          /\ \A i \in Intents : i # j => GrantsKept(i)
      BY <3>2 DEF Of
    <3>4. ASSUME NEW i \in Intents, i # j, i \notin raced' PROVE Serial(i)'
      <4>1. Kept(i) /\ GrantsKept(i)
        BY <3>1, <3>3, <3>4
      <4>2. ~(pc[h] \in OnIntent /\ on[h] = i) /\ ~(pc'[h] \in OnIntent /\ on'[h] = i)
        BY <3>1, <3>4 DEF OnIntent, Creating, Deciding, Running
      <4> HIDE DEF Others, Kept, GrantsKept
      <4> QED
        BY <2>f, <3>1, <3>4, <4>1, <4>2
    <3>5. ASSUME j \notin raced' PROVE Serial(j)'
      <4>1. InFlight(j) = {h} /\ Phase(h, j)
        <5>1. pc[h] \in OnIntent /\ on[h] \notin raced
          BY <2>24, <3>1, <3>5 DEF ExpireGrant, End, Go, history, OnIntent, Creating, Deciding, Running
        <5> QED
          BY <2>o, <3>1, <5>1
      <4>2. /\ intents'[j] = intents[j] /\ appended'[j] = appended[j]
            /\ approvals'[j] = approvals[j]
        BY <2>24, <2>d, <3>0 DEF ExpireGrant, End, Go, history
      <4>p. Resting(j)'
        BY <3>1, <3>2, <4>1, <4>2 DEF Phase, RunPhase, Resting, Unspent, NoneOf, OnlyOf, Of, Outcomes, OnIntent, Creating, Deciding, Running
      <4>q. pc'[h] \notin OnIntent
        BY <3>1 DEF OnIntent, Creating, Deciding, Running
      <4> HIDE DEF Others
      <4> QED
        BY <2>x, <3>1, <4>1, <4>p, <4>q
    <3>6. \A k \in Requests : pc'[k] \in Running => Of(ref[k], on[k])'
      <4>1. Runs(h)
        BY <3>1 DEF Running
      <4> HIDE DEF Others, Runs
      <4> QED
        BY <2>r, <3>1, <3>3, <4>1
    <3> QED
      BY <3>4, <3>5, <3>6 DEF SerialInv
  <2>25. ASSUME NEW h \in Requests, FinishIntent(h) PROVE SerialInv'
    <3>0. PICK j \in Intents : j = on[h]
      BY <2>25, <2>t
    <3>1. /\ Others(h) /\ pc[h] = "closing" /\ pc'[h] = "done" /\ on'[h] = j /\ on[h] = j
          /\ \A i \in Intents : i # j => Kept(i)
      BY <2>25, <2>d, <3>0 DEF FinishIntent, End, Go, history, StoreIntent
    <3>2. /\ \A g \in Requests : grants'[g] = grants[g] /\ performed'[g] = performed[g]
      BY <2>25 DEF FinishIntent, End, Go, history, StoreIntent
    <3>3. /\ \A g \in Requests : grants[g].status # "none" => grants'[g].status # "none" /\ grants'[g].intent = grants[g].intent
          /\ \A i \in Intents : i # j => GrantsKept(i)
      BY <3>2 DEF Of
    <3>4. ASSUME NEW i \in Intents, i # j, i \notin raced' PROVE Serial(i)'
      <4>1. Kept(i) /\ GrantsKept(i)
        BY <3>1, <3>3, <3>4
      <4>2. ~(pc[h] \in OnIntent /\ on[h] = i) /\ ~(pc'[h] \in OnIntent /\ on'[h] = i)
        BY <3>1, <3>4 DEF OnIntent, Creating, Deciding, Running
      <4> HIDE DEF Others, Kept, GrantsKept
      <4> QED
        BY <2>f, <3>1, <3>4, <4>1, <4>2
    <3>5. ASSUME j \notin raced' PROVE Serial(j)'
      <4>1. InFlight(j) = {h} /\ Phase(h, j)
        <5>1. pc[h] \in OnIntent /\ on[h] \notin raced
          BY <2>25, <3>1, <3>5 DEF FinishIntent, End, Go, history, StoreIntent, OnIntent, Creating, Deciding, Running
        <5> QED
          BY <2>o, <3>1, <5>1
      <4>s. snap[h] \in IntentRecords /\ want[h] \in Outcomes
        BY <2>t, <3>1 DEF WantInv
      <4>r. intents'[j] = [snap[h] EXCEPT !.status = want[h]] /\ appended'[j] = appended[j] /\ approvals'[j] = approvals[j]
        BY <2>25, <2>d, <3>0 DEF FinishIntent, StoreIntent, history
      <4>2. /\ intents'[j].status = want[h] /\ intents'[j].grant = snap[h].grant /\ intents'[j].evidence = snap[h].evidence
            /\ appended'[j] = appended[j] /\ approvals'[j] = approvals[j]
        BY <2>e, <4>s, <4>r
      <4>p. Resting(j)'
        BY <3>1, <3>2, <4>1, <4>2, <4>s DEF Phase, RunPhase, Resting, Unspent, NoneOf, OnlyOf, Of, Outcomes, OnIntent, Creating, Deciding, Running
      <4>q. pc'[h] \notin OnIntent
        BY <3>1 DEF OnIntent, Creating, Deciding, Running
      <4> HIDE DEF Others
      <4> QED
        BY <2>x, <3>1, <4>1, <4>p, <4>q
    <3>6. \A k \in Requests : pc'[k] \in Running => Of(ref[k], on[k])'
      <4>1. Runs(h)
        BY <3>1 DEF Running
      <4> HIDE DEF Others, Runs
      <4> QED
        BY <2>r, <3>1, <3>3, <4>1
    <3> QED
      BY <3>4, <3>5, <3>6 DEF SerialInv
  <2>26. ASSUME UNCHANGED <<intents, approvals, grants, pc, locals, performed, raced, appended>> PROVE SerialInv'
    BY <2>26 DEF SerialInv, Serial, InFlight, Phase, CreatePhase, DecidePhase, RunPhase, Resting, Unspent, OnlyOf, NoneOf, Of, locals
  <2>27. ASSUME NEW h \in Requests, Elapse(h) PROVE SerialInv'
    BY <2>26, <2>27 DEF Elapse, stores, history
  <2>28. CASE UNCHANGED vars
    BY <2>26, <2>28 DEF vars, stores, history
  <2>v. "approved" \in Verdicts /\ "denied" \in Verdicts /\ "modified" \in Verdicts
    BY DEF Verdicts
  <2> QED
    BY <2>1, <2>2, <2>3, <2>4, <2>5, <2>6, <2>7, <2>8, <2>9, <2>10, <2>11, <2>12, <2>13, <2>14, <2>15, <2>16, <2>17, <2>18, <2>19, <2>20, <2>21, <2>22, <2>23, <2>24, <2>25, <2>27, <2>28, <2>v
    DEF Next, Request, Step, ApproveRequest, DenyRequest, ModifyRequest
<1>3. TypeOK /\ SerialInv => SerialRecordAgrees
  <2> SUFFICES ASSUME TypeOK, SerialInv, NEW i \in Intents, i \notin raced, InFlight(i) = {} PROVE RecordAgrees(i)
    BY DEF SerialRecordAgrees
  <2>1. Resting(i)
    BY DEF SerialInv, Serial
  <2>2. intents[i].status \in IntentStatus
    BY DEF TypeOK, IntentRecords
  <2>3. (NoneOf(i) => GrantsOf(i) = {}) /\ \A g : OnlyOf(g, i) => GrantsOf(i) = {g}
    BY DEF NoneOf, OnlyOf, Of, GrantsOf
  <2>4. intents[i].status = "approved" <=> \E g \in GrantsOf(i) : grants[g].status # "consumed"
    BY <2>1, <2>2, <2>3 DEF Resting, Unspent, IntentStatus, Outcomes
  <2> QED
    BY <2>1, <2>3, <2>4 DEF Resting, Unspent, RecordAgrees
<1> QED
  BY <1>1, <1>2, <1>3, GrantInvariant, PTL DEF Spec
=============================================================================
