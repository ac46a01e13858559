------------------------ MODULE FlightPlanRunsProofs ------------------------
(***************************************************************************)
(* Proofs about FlightPlanRuns, for every plan, every number of handlers,  *)
(* calls and approvals.                                                    *)
(***************************************************************************)
EXTENDS FlightPlanRuns, TLAPS

-----------------------------------------------------------------------------
(* Where a handler that left the walk stands. *)
Placed ==
  \A h \in Handlers :
    /\ pc[h] \in {"register", "suspend"} => at[h] \in Steps /\ at[h] \notin snap[h]
    /\ pc[h] \in {"audit", "stamp"} => at[h] \in Seams
    /\ pc[h] \in {"merge", "reread"} => resuming[h]

(* What an entry becomes once the user has approved it. *)
Granted == {"approved", "running", "completed"}

(* The queue's entries: those to come are blank, the others were           *)
(* registered for a step, the user approved those that are so marked, and  *)
(* the approvals map links an action to an entry for a step that calls it. *)
Linked ==
  /\ \A id \in Ids : id > entries => outcome[id] = "none" /\ asker[id] = 0
  /\ \A id \in Ids : outcome[id] # "none" => asker[id] # 0
  /\ \A id \in Ids : outcome[id] \in Granted => id \in consented
  /\ \A r \in Refs : linked[r] # 0 => asker[linked[r]] # 0 /\ Ref[asker[linked[r]]] = r

ConsentInv == TypeOK /\ Placed /\ Linked /\ EffectsAreConsented

-----------------------------------------------------------------------------
(* A completed step: the walk stays within the plan. *)
LEMMA StepDoneType ==
  ASSUME TypeOK, NEW h \in Handlers, at[h] \in Steps, StepDone(h)
  PROVE  /\ out' \in [Handlers -> SUBSET Steps]
         /\ at' \in [Handlers -> 1..(NumSteps + 1)]
<1>1. at[h] + 1 \in 1..(NumSteps + 1)
  BY PlanAssumption DEF Steps
<1> QED BY <1>1 DEF StepDone, TypeOK


-----------------------------------------------------------------------------
(* Calls that do not overlap.  A dispatched step and all before it are in  *)
(* what the run goes on from: the parked memo between calls, the walk's    *)
(* own steps and its copy of the memo during one.  A walk can then not     *)
(* reach a dispatched step outside the memo.                               *)

(* A handler that is at work on the plan. *)
Walking == {"walk", "register", "suspend"}

(* Every dispatched step, and every step before it, is known. *)
Covers(held) ==
  \A s, t \in Steps : dispatched[s] # 0 /\ t <= s => t \in held

(* One handler at most. *)
Alone == \A g, h \in Handlers : pc[g] # "idle" /\ pc[h] # "idle" => g = h

(* Nothing happens to a run before its launch. *)
BeforeLaunch ==
  ~launched => ~parked /\ (\A h \in Handlers : pc[h] = "idle") /\ \A s \in Steps : dispatched[s] = 0

(* Between the walks, the record knows what was dispatched. *)
ParkedCovers == parked /\ (\A h \in Handlers : pc[h] \notin Walking) => Covers(memo)

(* During a walk the handler does: its outputs are the steps before the   *)
(* one it has reached, and a launch has no record yet.                     *)
WalkCovers ==
  \A h \in Handlers : pc[h] \in Walking =>
    /\ \A t \in Steps : t \in out[h] <=> t < at[h]
    /\ Covers(snap[h] \cup out[h])
    /\ ~resuming[h] => ~parked

(* A run that is over has no record and no handler. *)
Ended == over => ~parked /\ launched /\ \A h \in Handlers : pc[h] = "idle"

Serial ==
  /\ Alone
  /\ \A s \in Steps : dispatched[s] <= 1
  /\ BeforeLaunch
  /\ ParkedCovers
  /\ WalkCovers
  /\ Ended

SerialInv == ~overlap => Serial

(* The run has not ended: a restart, or a record reaped between two calls, *)
(* leaves nothing that could go on with it.                                *)
Going == ~launched \/ parked \/ \E h \in Handlers : pc[h] # "idle"

(* While it goes on, every entry is the one the approvals map links, a     *)
(* handler about to register finds none, and an audited seam is stamped or *)
(* about to be.                                                            *)
Once ==
  /\ \A i, j \in Ids : asker[i] # 0 /\ asker[j] # 0 /\ Ref[asker[i]] = Ref[asker[j]] => i = j
  /\ \A s \in Steps : seamAudits[s] <= 1
  /\ Going =>
       /\ \A id \in Ids : asker[id] # 0 => linked[Ref[asker[id]]] = id
       /\ \A h \in Handlers : pc[h] = "register" => Entry(at[h]) = 0
       /\ \A s \in Steps : seamAudits[s] # 0 =>
            s \in audited \/ \E h \in Handlers : pc[h] = "stamp" /\ at[h] = s

(* What a respawned executor has executed has an entry that is done with. *)
Spent ==
  \A s \in Steps :
    /\ executed[s] <= 1
    /\ executed[s] # 0 => \E id \in Ids : asker[id] = s /\ outcome[id] \in {"completed", "failed"}

OnceInv == ~overlap => Once /\ Spent

(* A walk that suspends has passed every dispatched step. *)
LEMMA SuspendedCovers ==
  ASSUME ConsentInv, Serial, NEW h \in Handlers, pc[h] \in {"register", "suspend"}
  PROVE  Covers(out[h])
<1> SUFFICES ASSUME NEW s \in Steps, NEW t \in Steps, dispatched[s] # 0, t <= s
             PROVE  t \in out[h]
  BY DEF Covers
<1>0. /\ at[h] \in Steps /\ at[h] \notin snap[h]
      /\ \A u \in Steps : u \in out[h] <=> u < at[h]
      /\ Covers(snap[h] \cup out[h])
  BY DEF ConsentInv, Placed, Serial, WalkCovers, Walking
<1>1. at[h] \notin out[h]
  BY <1>0, PlanAssumption DEF Steps
<1>2. ~(at[h] <= s)
  BY <1>0, <1>1 DEF Covers
<1>3. t < at[h]
  BY <1>0, <1>2, PlanAssumption DEF Steps
<1> QED BY <1>0, <1>3

(* Completing an undispatched, memoized or dispatched step keeps the       *)
(* walk's steps a prefix of the plan.                                      *)
LEMMA StepDonePrefix ==
  ASSUME ConsentInv, Serial, NEW h \in Handlers, pc[h] = "walk", at[h] \in Steps, StepDone(h)
  PROVE  /\ \A t \in Steps : t \in out'[h] <=> t < at'[h]
         /\ \A g \in Handlers \ {h} : out'[g] = out[g] /\ at'[g] = at[g]
         /\ out[h] \subseteq out'[h]
         /\ at[h] \notin out[h]
<1>1. out' = [out EXCEPT ![h] = @ \cup {at[h]}] /\ at' = [at EXCEPT ![h] = @ + 1]
  BY DEF StepDone
<1>2. out \in [Handlers -> SUBSET Steps] /\ DOMAIN at = Handlers
  BY DEF ConsentInv, TypeOK
<1>3. \A t \in Steps : t \in out[h] <=> t < at[h]
  BY DEF Serial, WalkCovers, Walking
<1>4. at[h] \in Nat /\ Steps \subseteq Nat
  BY PlanAssumption DEF Steps
<1>5. out'[h] = out[h] \cup {at[h]} /\ at'[h] = at[h] + 1
  BY <1>1, <1>2
<1> QED BY <1>1, <1>2, <1>3, <1>4, <1>5


-----------------------------------------------------------------------------
(* The consent invariant holds throughout. *)
LEMMA ConsentInvariant == Spec => []ConsentInv
<1>1. Init => ConsentInv
  <2> SUFFICES ASSUME Init PROVE ConsentInv
    OBVIOUS
  <2>1. TypeOK
    <3>1. 1 \in 1..(NumSteps + 1) /\ 0 \in 0..MaxCalls
      BY PlanAssumption, BoundsAssumption
    <3> QED BY <3>1 DEF Init, TypeOK, Outcomes
  <2>2. Placed /\ Linked /\ EffectsAreConsented
    BY DEF Init, Placed, Linked, Granted, EffectsAreConsented
  <2> QED BY <2>1, <2>2 DEF ConsentInv
(* Consent is kept by every step of every handler, overlapping or not. *)
<1>2. ConsentInv /\ [Next]_vars => ConsentInv'
  <2> SUFFICES ASSUME ConsentInv, [Next]_vars PROVE ConsentInv'
    OBVIOUS
  <2> USE PlanAssumption, BoundsAssumption
  <2>u. CASE UNCHANGED vars
    BY <2>u DEF vars, handler, registry, queue, session, history, effects, ConsentInv, TypeOK, Placed, Linked, EffectsAreConsented
  <2>1. ASSUME NEW h \in Handlers, LaunchFlightPlan(h)
       PROVE  ConsentInv'
    <3>1. TypeOK'
      <4>1. 1 \in 1..(NumSteps + 1)
        OBVIOUS
      <4>2. at' \in [Handlers -> 1..(NumSteps + 1)] /\ calls' \in 0..MaxCalls
        BY <2>1, <4>1 DEF LaunchFlightPlan, Arrive, ConsentInv, TypeOK
      <4> QED BY <2>1, <4>2 DEF LaunchFlightPlan, Arrive, Goto, ConsentInv, TypeOK, registry, queue, effects
    <3>2. Placed'
      BY <2>1 DEF LaunchFlightPlan, Arrive, Goto, ConsentInv, TypeOK, Placed, Seams, handler, registry, queue, session, history, effects
    <3>3. Linked'
      BY <2>1 DEF LaunchFlightPlan, Arrive, Goto, ConsentInv, TypeOK, Placed, Linked, handler, registry, queue, session, history, effects
    <3>4. EffectsAreConsented'
      BY <2>1 DEF LaunchFlightPlan, Arrive, Goto, ConsentInv, TypeOK, Linked, EffectsAreConsented, handler, registry, queue, session, history, effects
    <3> QED BY <3>1, <3>2, <3>3, <3>4 DEF ConsentInv
  <2>2. ASSUME NEW h \in Handlers, ResumeFlightPlan(h)
       PROVE  ConsentInv'
    <3>0. calls' \in 0..MaxCalls /\ overlap' \in BOOLEAN /\ resuming' \in [Handlers -> BOOLEAN]
      BY <2>2 DEF ResumeFlightPlan, Arrive, ConsentInv, TypeOK
    <3>1. TypeOK'
      <4>1. PICK outputs \in SUBSET Seams :
              /\ Goto(h, "idle", IF outputs = {} THEN "reread" ELSE "merge")
              /\ supplied' = [supplied EXCEPT ![h] = outputs]
        BY <2>2 DEF ResumeFlightPlan
      <4>2. supplied' \in [Handlers -> SUBSET Seams]
        BY <4>1 DEF ConsentInv, TypeOK
      <4>3. pc' = [pc EXCEPT ![h] = "reread"] \/ pc' = [pc EXCEPT ![h] = "merge"]
        BY <4>1 DEF Goto
      <4> QED BY <2>2, <3>0, <4>2, <4>3 DEF ResumeFlightPlan, ConsentInv, TypeOK, registry, queue, effects
    <3>2. Placed'
      BY <2>2, <3>0 DEF ResumeFlightPlan, Arrive, Goto, ConsentInv, TypeOK, Placed, Seams, handler, registry, queue, session, history, effects
    <3>3. Linked'
      BY <2>2, <3>0 DEF ResumeFlightPlan, Arrive, Goto, ConsentInv, TypeOK, Placed, Linked, handler, registry, queue, session, history, effects
    <3>4. EffectsAreConsented'
      BY <2>2, <3>0 DEF ResumeFlightPlan, Arrive, Goto, ConsentInv, TypeOK, Linked, EffectsAreConsented, handler, registry, queue, session, history, effects
    <3> QED BY <3>1, <3>2, <3>3, <3>4 DEF ConsentInv
  <2>3. ASSUME NEW h \in Handlers, MergeOutputs(h)
       PROVE  ConsentInv'
    <3>1. TypeOK'
      BY <2>3 DEF MergeOutputs, Goto, ConsentInv, TypeOK, Placed, Steps, Seams, handler, registry, queue, session, history, effects
    <3>2. Placed'
      BY <2>3 DEF MergeOutputs, Goto, ConsentInv, TypeOK, Placed, Seams, handler, registry, queue, session, history, effects
    <3>3. Linked'
      BY <2>3 DEF MergeOutputs, Goto, ConsentInv, TypeOK, Placed, Linked, handler, registry, queue, session, history, effects
    <3>4. EffectsAreConsented'
      BY <2>3 DEF MergeOutputs, Goto, ConsentInv, TypeOK, Linked, EffectsAreConsented, handler, registry, queue, session, history, effects
    <3> QED BY <3>1, <3>2, <3>3, <3>4 DEF ConsentInv
  <2>4. ASSUME NEW h \in Handlers, Reread(h)
       PROVE  ConsentInv'
    <3>1. TypeOK'
      <4>1. 1 \in 1..(NumSteps + 1)
        OBVIOUS
      <4>2. at' \in [Handlers -> 1..(NumSteps + 1)]
        BY <2>4, <4>1 DEF Reread, ConsentInv, TypeOK
      <4> QED BY <2>4, <4>2 DEF Reread, Goto, ConsentInv, TypeOK, registry, queue, session, history, effects
    <3>2. Placed'
      BY <2>4 DEF Reread, Goto, ConsentInv, TypeOK, Placed, Seams, handler, registry, queue, session, history, effects
    <3>3. Linked'
      BY <2>4 DEF Reread, Goto, ConsentInv, TypeOK, Placed, Linked, handler, registry, queue, session, history, effects
    <3>4. EffectsAreConsented'
      BY <2>4 DEF Reread, Goto, ConsentInv, TypeOK, Linked, EffectsAreConsented, handler, registry, queue, session, history, effects
    <3> QED BY <3>1, <3>2, <3>3, <3>4 DEF ConsentInv
  <2>5. ASSUME NEW h \in Handlers, InjectMemoized(h)
       PROVE  ConsentInv'
    <3>0. /\ out' \in [Handlers -> SUBSET Steps] /\ at' \in [Handlers -> 1..(NumSteps + 1)]
          /\ at[h] \in Steps
      BY <2>5, StepDoneType DEF InjectMemoized, ConsentInv, TypeOK, Reached
    <3>1. TypeOK'
      BY <2>5, <3>0 DEF InjectMemoized, StepDone, ConsentInv, TypeOK, Placed, Steps, Seams, handler, registry, queue, session, history, effects
    <3>2. Placed'
      BY <2>5, <3>0 DEF InjectMemoized, StepDone, ConsentInv, TypeOK, Placed, Seams, handler, registry, queue, session, history, effects
    <3>3. Linked'
      BY <2>5, <3>0 DEF InjectMemoized, StepDone, ConsentInv, TypeOK, Placed, Linked, handler, registry, queue, session, history, effects
    <3>4. EffectsAreConsented'
      BY <2>5, <3>0 DEF InjectMemoized, StepDone, ConsentInv, TypeOK, Linked, EffectsAreConsented, handler, registry, queue, session, history, effects
    <3> QED BY <3>1, <3>2, <3>3, <3>4 DEF ConsentInv
  <2>6. ASSUME NEW h \in Handlers, RunUnattended(h)
       PROVE  ConsentInv'
    <3>0. /\ out' \in [Handlers -> SUBSET Steps] /\ at' \in [Handlers -> 1..(NumSteps + 1)]
          /\ at[h] \in Steps
      BY <2>6, StepDoneType DEF RunUnattended, ConsentInv, TypeOK, Reached
    <3>1. TypeOK'
      BY <2>6, <3>0 DEF RunUnattended, StepDone, Reached, ConsentInv, TypeOK, Placed, Steps, Seams, handler, registry, queue, session, history, effects
    <3>2. Placed'
      BY <2>6, <3>0 DEF RunUnattended, StepDone, Reached, ConsentInv, TypeOK, Placed, Seams, handler, registry, queue, session, history, effects
    <3>3. Linked'
      BY <2>6, <3>0 DEF RunUnattended, StepDone, Reached, ConsentInv, TypeOK, Placed, Linked, handler, registry, queue, session, history, effects
    <3>4. EffectsAreConsented'
      BY <2>6, <3>0 DEF RunUnattended, StepDone, Reached, ConsentInv, TypeOK, Linked, EffectsAreConsented, handler, registry, queue, session, history, effects
    <3> QED BY <3>1, <3>2, <3>3, <3>4 DEF ConsentInv
  <2>7. ASSUME NEW h \in Handlers, SuspendAtSeam(h)
       PROVE  ConsentInv'
    <3>1. TypeOK'
      BY <2>7 DEF SuspendAtSeam, Goto, Reached, ConsentInv, TypeOK, Placed, Steps, Seams, handler, registry, queue, session, history, effects
    <3>2. Placed'
      BY <2>7 DEF SuspendAtSeam, Goto, Reached, ConsentInv, TypeOK, Placed, Seams, handler, registry, queue, session, history, effects
    <3>3. Linked'
      BY <2>7 DEF SuspendAtSeam, Goto, Reached, ConsentInv, TypeOK, Placed, Linked, handler, registry, queue, session, history, effects
    <3>4. EffectsAreConsented'
      BY <2>7 DEF SuspendAtSeam, Goto, Reached, ConsentInv, TypeOK, Linked, EffectsAreConsented, handler, registry, queue, session, history, effects
    <3> QED BY <3>1, <3>2, <3>3, <3>4 DEF ConsentInv
  <2>8. ASSUME NEW h \in Handlers, FirstReach(h)
       PROVE  ConsentInv'
    BY <2>8 DEF FirstReach, Goto, Reached, ConsentInv, TypeOK, Placed, Linked, EffectsAreConsented, handler, registry, queue, session, history, effects
  <2>9. ASSUME NEW h \in Handlers, Register(h)
       PROVE  ConsentInv'
    <3>0. /\ entries + 1 \in Ids /\ entries + 1 # 0
          /\ at[h] \in Steps /\ at[h] # 0 /\ Ref[at[h]] \in Refs
          /\ outcome[entries + 1] = "none" /\ asker[entries + 1] = 0
      BY <2>9 DEF Register, Goto, Refs, Steps, Ids, ConsentInv, TypeOK, Placed, Linked
    <3>1. TypeOK'
      BY <2>9, <3>0 DEF Register, Goto, Link, ConsentInv, TypeOK, Outcomes, handler, registry, queue, session, history, effects
    <3>2. Placed'
      BY <2>9, <3>0 DEF Register, Goto, Link, ConsentInv, TypeOK, Placed, Seams, handler, registry, queue, session, history, effects
    <3>3. Linked'
      <4>1. \A id \in Ids : id > entries' => outcome'[id] = "none" /\ asker'[id] = 0
        BY <2>9, <3>0 DEF Register, ConsentInv, TypeOK, Linked, Ids
      <4>2. \A r \in Refs : linked'[r] # 0 => asker'[linked'[r]] # 0 /\ Ref[asker'[linked'[r]]] = r
        BY <2>9, <3>0 DEF Register, Link, ConsentInv, TypeOK, Linked
      <4>3. \A id \in Ids : outcome'[id] # "none" => asker'[id] # 0
        BY <2>9, <3>0 DEF Register, ConsentInv, TypeOK, Linked
      <4>4. \A id \in Ids : outcome'[id] \in Granted => id \in consented'
        BY <2>9, <3>0 DEF Register, ConsentInv, TypeOK, Linked, Granted, history, effects
      <4> QED BY <4>1, <4>2, <4>3, <4>4 DEF Linked
    <3>4. EffectsAreConsented'
      BY <2>9, <3>0 DEF Register, ConsentInv, TypeOK, EffectsAreConsented, history, effects
    <3> QED BY <3>1, <3>2, <3>3, <3>4 DEF ConsentInv
  <2>10. ASSUME NEW h \in Handlers, StillPending(h)
       PROVE  ConsentInv'
    BY <2>10 DEF StillPending, Goto, Reached, ConsentInv, TypeOK, Placed, Linked, EffectsAreConsented, handler, registry, queue, session, history, effects
  <2>11. ASSUME NEW h \in Handlers, Dispatch(h)
       PROVE  ConsentInv'
    <3>0. /\ out' \in [Handlers -> SUBSET Steps] /\ at' \in [Handlers -> 1..(NumSteps + 1)]
          /\ at[h] \in Steps
      BY <2>11, StepDoneType DEF Dispatch, ConsentInv, TypeOK, Reached
    <3>00. dispatched' \in [Steps -> Nat]
      BY <2>11, <3>0 DEF Dispatch, ConsentInv, TypeOK
    <3>1. TypeOK'
      BY <2>11, <3>0, <3>00 DEF Dispatch, StepDone, ConsentInv, TypeOK, handler, registry, queue, session, history, effects
    <3>2. Placed'
      BY <2>11, <3>0 DEF Dispatch, StepDone, Reached, Approved, Entry, Refs, ConsentInv, TypeOK, Placed, Seams, handler, registry, queue, session, history, effects
    <3>3. Linked'
      BY <2>11, <3>0 DEF Dispatch, StepDone, Reached, Approved, Entry, Refs, ConsentInv, TypeOK, Placed, Linked, handler, registry, queue, session, history, effects
    <3>4. EffectsAreConsented'
      BY <2>11, <3>0 DEF Dispatch, StepDone, Reached, Approved, Entry, Refs, ConsentInv, TypeOK, Linked, Granted, EffectsAreConsented, handler, registry, queue, session, history, effects
    <3> QED BY <3>1, <3>2, <3>3, <3>4 DEF ConsentInv
  <2>12. ASSUME NEW h \in Handlers, Finish(h)
       PROVE  ConsentInv'
    <3>1. TypeOK'
      BY <2>12 DEF Finish, Goto, Delete, ConsentInv, TypeOK, Placed, Steps, Seams, handler, registry, queue, session, history, effects
    <3>2. Placed'
      BY <2>12 DEF Finish, Goto, Delete, ConsentInv, TypeOK, Placed, Seams, handler, registry, queue, session, history, effects
    <3>3. Linked'
      BY <2>12 DEF Finish, Goto, Delete, ConsentInv, TypeOK, Placed, Linked, handler, registry, queue, session, history, effects
    <3>4. EffectsAreConsented'
      BY <2>12 DEF Finish, Goto, Delete, ConsentInv, TypeOK, Linked, EffectsAreConsented, handler, registry, queue, session, history, effects
    <3> QED BY <3>1, <3>2, <3>3, <3>4 DEF ConsentInv
  <2>13. ASSUME NEW h \in Handlers, Park(h)
       PROVE  ConsentInv'
    <3>1. TypeOK'
      BY <2>13 DEF Park, PutRecord, Goto, Respond, ConsentInv, TypeOK, Placed, Steps, Seams, handler, registry, queue, session, history, effects
    <3>2. Placed'
      BY <2>13 DEF Park, PutRecord, Goto, Respond, ConsentInv, TypeOK, Placed, Seams, handler, registry, queue, session, history, effects
    <3>3. Linked'
      BY <2>13 DEF Park, PutRecord, Goto, Respond, ConsentInv, TypeOK, Placed, Linked, handler, registry, queue, session, history, effects
    <3>4. EffectsAreConsented'
      BY <2>13 DEF Park, PutRecord, Goto, Respond, ConsentInv, TypeOK, Linked, EffectsAreConsented, handler, registry, queue, session, history, effects
    <3> QED BY <3>1, <3>2, <3>3, <3>4 DEF ConsentInv
  <2>14. ASSUME NEW h \in Handlers, SkipSeamAudit(h)
       PROVE  ConsentInv'
    BY <2>14 DEF SkipSeamAudit, Goto, Respond, ConsentInv, TypeOK, Placed, Linked, EffectsAreConsented, handler, registry, queue, session, history, effects
  <2>15. ASSUME NEW h \in Handlers, RecordSeamAudit(h)
       PROVE  ConsentInv'
    <3>0. seamAudits' \in [Steps -> Nat]
      BY <2>15 DEF RecordSeamAudit, Goto, Seams, ConsentInv, TypeOK, Placed
    <3>1. TypeOK'
      BY <2>15, <3>0 DEF RecordSeamAudit, Goto, ConsentInv, TypeOK, handler, registry, queue, session, history, effects
    <3>2. Placed'
      BY <2>15, <3>0 DEF RecordSeamAudit, Goto, ConsentInv, TypeOK, Placed, Seams, handler, registry, queue, session, history, effects
    <3>3. Linked'
      BY <2>15, <3>0 DEF RecordSeamAudit, Goto, ConsentInv, TypeOK, Placed, Linked, handler, registry, queue, session, history, effects
    <3>4. EffectsAreConsented'
      BY <2>15, <3>0 DEF RecordSeamAudit, Goto, ConsentInv, TypeOK, Linked, EffectsAreConsented, handler, registry, queue, session, history, effects
    <3> QED BY <3>1, <3>2, <3>3, <3>4 DEF ConsentInv
  <2>16. ASSUME NEW h \in Handlers, StampSeam(h)
       PROVE  ConsentInv'
    BY <2>16 DEF StampSeam, Goto, Respond, ConsentInv, TypeOK, Placed, Linked, EffectsAreConsented, handler, registry, queue, session, history, effects
  <2>17. ASSUME Decide
       PROVE  ConsentInv'
    BY <2>17 DEF Decide, ConsentInv, TypeOK, Outcomes, Placed, Linked, Granted, EffectsAreConsented, handler, registry, queue, session, history, effects
  <2>18. ASSUME Expire
       PROVE  ConsentInv'
    BY <2>18 DEF Expire, Delete, ConsentInv, TypeOK, Placed, Linked, EffectsAreConsented, handler, registry, queue, session, history, effects
  <2>19. ASSUME Restart
       PROVE  ConsentInv'
    <3>1. PICK gone \in SUBSET Ids : outcome' = [id \in Ids |-> Replayed(id, gone)]
      BY <2>19 DEF Restart
    <3>2. \A id \in Ids : outcome'[id] = outcome[id] \/ (outcome'[id] = "failed" /\ outcome[id] # "none")
      BY <3>1 DEF Replayed
    <3>3. outcome' \in [Ids -> Outcomes]
      BY <3>1, <3>2 DEF ConsentInv, TypeOK, Outcomes
    <3>4. TypeOK'
      BY <2>19, <3>3 DEF Restart, Delete, ConsentInv, TypeOK, handler, session, history, effects
    <3>5. Placed' /\ Linked' /\ EffectsAreConsented'
      BY <2>19, <3>2 DEF Restart, ConsentInv, Placed, Linked, Granted, EffectsAreConsented, history, effects
    <3> QED BY <3>4, <3>5 DEF ConsentInv
  <2>20. ASSUME NEW id \in Ids, SetRunning(id)
       PROVE  ConsentInv'
    BY <2>20 DEF SetRunning, ConsentInv, TypeOK, Outcomes, Placed, Linked, Granted, EffectsAreConsented, handler, registry, queue, session, history, effects
  <2>21. ASSUME NEW id \in Ids, ExecuteRespawned(id)
       PROVE  ConsentInv'
    <3>0. asker[id] \in Steps /\ id \in consented
      BY <2>21 DEF ExecuteRespawned, ConsentInv, TypeOK, Linked, Granted
    <3>1. executed' \in [Steps -> Nat] /\ outcome' \in [Ids -> Outcomes]
      BY <2>21, <3>0 DEF ExecuteRespawned, ConsentInv, TypeOK, Outcomes
    <3>2. TypeOK'
      BY <2>21, <3>1 DEF ExecuteRespawned, ConsentInv, TypeOK, handler, registry, session
    <3>3. Placed' /\ Linked'
      BY <2>21 DEF ExecuteRespawned, ConsentInv, TypeOK, Placed, Linked, Granted, handler, registry
    <3>4. EffectsAreConsented'
      <4>1. /\ UNCHANGED <<dispatched, consented, asker>>
            /\ \A s \in Steps : s # asker[id] => executed'[s] = executed[s]
        BY <2>21, <3>0 DEF ExecuteRespawned, ConsentInv, TypeOK
      <4>2. asker[id] # 0
        BY <3>0, PlanAssumption DEF Steps
      <4> QED BY <3>0, <4>1, <4>2 DEF ConsentInv, EffectsAreConsented
    <3> QED BY <3>2, <3>3, <3>4 DEF ConsentInv
  <2> QED
    BY <2>20, <2>21, <2>1, <2>2, <2>3, <2>4, <2>5, <2>6, <2>7, <2>8, <2>9, <2>10, <2>11, <2>12, <2>13, <2>14, <2>15, <2>16, <2>17, <2>18, <2>19, <2>u DEF Next, Call, Walk, Suspend, Denied, Fails, Completes
<1> QED BY <1>1, <1>2, PTL DEF Spec

(* So does the invariant of calls that do not overlap. *)
LEMMA SerialInvariant == Spec => []SerialInv
<1>1. Init => SerialInv
  BY PlanAssumption DEF Init, SerialInv, Serial, Alone, BeforeLaunch, ParkedCovers, WalkCovers, Ended, Covers, Walking
(* Calls that have not overlapped keep the memo covering what was          *)
(* dispatched, action by action.                                           *)
<1>2. ConsentInv /\ SerialInv /\ [Next]_vars => SerialInv'
  <2> SUFFICES ASSUME ConsentInv, SerialInv, [Next]_vars, ~overlap' PROVE Serial'
    BY DEF SerialInv
  <2>0. ~overlap
    BY DEF Next, vars, Call, Walk, Suspend, history, effects, LaunchFlightPlan, ResumeFlightPlan, Arrive, MergeOutputs, Reread,
           InjectMemoized, RunUnattended, SuspendAtSeam, FirstReach, Register, StillPending, Dispatch,
           Denied, Fails, Completes, Finish, Park, SkipSeamAudit, RecordSeamAudit, StampSeam,
           Decide, Expire, Restart, SetRunning, ExecuteRespawned
  <2>s. Serial
    BY <2>0 DEF SerialInv
  <2>u. CASE UNCHANGED vars
    BY <2>s, <2>u DEF vars, handler, registry, queue, session, history, effects, Serial, Alone, BeforeLaunch, ParkedCovers, WalkCovers, Ended, Covers
  <2>1. ASSUME NEW h \in Handlers, LaunchFlightPlan(h)
       PROVE  Serial'
    <3>1. Alone'
      BY <2>s, <2>1 DEF LaunchFlightPlan, Arrive, Goto, ConsentInv, TypeOK, Serial, Alone, BeforeLaunch, handler, registry, queue, session, history, effects
    <3>2. \A s \in Steps : dispatched'[s] <= 1
      BY <2>s, <2>1 DEF LaunchFlightPlan, Arrive, Goto, ConsentInv, TypeOK, Serial, Alone, BeforeLaunch, Ended, handler, registry, queue, session, history, effects
    <3>3. BeforeLaunch'
      BY <2>s, <2>1 DEF LaunchFlightPlan, Arrive, Goto, ConsentInv, TypeOK, Serial, Alone, BeforeLaunch, handler, registry, queue, session, history, effects
    <3>4. ParkedCovers'
      BY <2>s, <2>1 DEF LaunchFlightPlan, Arrive, Goto, ConsentInv, TypeOK, Serial, Alone, BeforeLaunch, ParkedCovers, Covers, Walking, handler, registry, queue, session, history, effects
    <3>5. WalkCovers'
      <4>1. /\ \A g \in Handlers : pc'[g] # "idle" => g = h
            /\ out'[h] = {} /\ at'[h] = 1
        BY <2>s, <2>1 DEF LaunchFlightPlan, Goto, ConsentInv, TypeOK, Serial, BeforeLaunch
      <4>2. ~parked' /\ \A s \in Steps : dispatched'[s] = 0
        BY <2>s, <2>1 DEF LaunchFlightPlan, Serial, BeforeLaunch, registry, effects
      <4>3. \A t \in Steps : ~(t < 1)
        BY PlanAssumption DEF Steps
      <4> QED BY <4>1, <4>2, <4>3 DEF WalkCovers, Covers, Walking
    <3>6. Ended'
      BY <2>s, <2>1 DEF LaunchFlightPlan, Arrive, Goto, ConsentInv, TypeOK, Serial, Alone, BeforeLaunch, Ended, handler, registry, queue, session, history, effects
    <3> QED BY <3>1, <3>2, <3>3, <3>4, <3>5, <3>6 DEF Serial
  <2>2. ASSUME NEW h \in Handlers, ResumeFlightPlan(h)
       PROVE  Serial'
    BY <2>s, <2>2 DEF ResumeFlightPlan, Arrive, Goto, ConsentInv, TypeOK, Serial, Alone, BeforeLaunch, ParkedCovers, WalkCovers, Ended, Covers, Walking,
           handler, registry, queue, session, history, effects
  <2>3. ASSUME NEW h \in Handlers, MergeOutputs(h)
       PROVE  Serial'
    BY <2>s, <2>3 DEF MergeOutputs, Goto, ConsentInv, TypeOK, Serial, Alone, BeforeLaunch, ParkedCovers, WalkCovers, Ended, Covers, Walking,
           handler, registry, queue, session, history, effects
  <2>4. ASSUME NEW h \in Handlers, Reread(h)
       PROVE  Serial'
    <3>1. Alone'
      BY <2>s, <2>4 DEF Reread, Goto, ConsentInv, TypeOK, Serial, Alone, BeforeLaunch, handler, registry, queue, session, history, effects
    <3>2. \A s \in Steps : dispatched'[s] <= 1
      BY <2>s, <2>4 DEF Reread, Goto, ConsentInv, TypeOK, Serial, Alone, BeforeLaunch, Ended, handler, registry, queue, session, history, effects
    <3>3. BeforeLaunch'
      BY <2>s, <2>4 DEF Reread, Goto, ConsentInv, TypeOK, Serial, Alone, BeforeLaunch, handler, registry, queue, session, history, effects
    <3>4. ParkedCovers'
      BY <2>s, <2>4 DEF Reread, Goto, ConsentInv, TypeOK, Serial, Alone, BeforeLaunch, ParkedCovers, Covers, Walking, handler, registry, queue, session, history, effects
    <3>5. WalkCovers'
      <4>1. /\ \A g \in Handlers : pc'[g] # "idle" => g = h
            /\ out'[h] = {} /\ at'[h] = 1 /\ snap'[h] = memo
            /\ pc'[h] \in Walking => parked
        BY <2>s, <2>4 DEF Reread, Goto, ConsentInv, TypeOK, Serial, Alone, Walking
      <4>2. resuming'[h]
        BY <2>4 DEF Reread, Goto, ConsentInv, Placed
      <4>3. parked => Covers(memo)
        BY <2>s, <2>4 DEF Reread, Goto, Serial, Alone, ParkedCovers, Walking
      <4>4. dispatched' = dispatched
        BY <2>4 DEF Reread, history, effects
      <4>5. \A t \in Steps : ~(t < 1)
        BY PlanAssumption DEF Steps
      <4> QED BY <4>1, <4>2, <4>3, <4>4, <4>5 DEF WalkCovers, Covers, Walking
    <3>6. Ended'
      BY <2>s, <2>4 DEF Reread, Goto, ConsentInv, TypeOK, Serial, Alone, BeforeLaunch, Ended, handler, registry, queue, session, history, effects
    <3> QED BY <3>1, <3>2, <3>3, <3>4, <3>5, <3>6 DEF Serial
  <2>5. ASSUME NEW h \in Handlers, InjectMemoized(h)
       PROVE  Serial'
    <3>0. /\ at[h] \in Steps /\ pc[h] = "walk"
          /\ \A t \in Steps : t \in out'[h] <=> t < at'[h]
          /\ \A g \in Handlers \ {h} : out'[g] = out[g] /\ at'[g] = at[g]
          /\ out[h] \subseteq out'[h]
          /\ at[h] \notin out[h]
      BY <2>s, <2>5, StepDonePrefix DEF InjectMemoized, ConsentInv, TypeOK, Reached
    <3>1. Alone'
      BY <2>s, <2>5, <3>0 DEF InjectMemoized, StepDone, ConsentInv, TypeOK, Serial, Alone, BeforeLaunch, handler, registry, queue, session, history, effects
    <3>2. \A s \in Steps : dispatched'[s] <= 1
      BY <2>s, <2>5, <3>0 DEF InjectMemoized, StepDone, ConsentInv, TypeOK, Serial, Alone, BeforeLaunch, Ended, handler, registry, queue, session, history, effects
    <3>3. BeforeLaunch'
      BY <2>s, <2>5, <3>0 DEF InjectMemoized, StepDone, ConsentInv, TypeOK, Serial, Alone, BeforeLaunch, handler, registry, queue, session, history, effects
    <3>4. ParkedCovers'
      BY <2>s, <2>5, <3>0 DEF InjectMemoized, StepDone, ConsentInv, TypeOK, Serial, Alone, BeforeLaunch, ParkedCovers, Covers, Walking, handler, registry, queue, session, history, effects
    <3>5. WalkCovers'
      BY <2>s, <2>5, <3>0 DEF InjectMemoized, StepDone, ConsentInv, TypeOK, Serial, Alone, BeforeLaunch, WalkCovers, Covers, Walking, handler, registry, queue, session, history, effects
    <3>6. Ended'
      BY <2>s, <2>5, <3>0 DEF InjectMemoized, StepDone, ConsentInv, TypeOK, Serial, Alone, BeforeLaunch, Ended, handler, registry, queue, session, history, effects
    <3> QED BY <3>1, <3>2, <3>3, <3>4, <3>5, <3>6 DEF Serial
  <2>6. ASSUME NEW h \in Handlers, RunUnattended(h)
       PROVE  Serial'
    <3>0. /\ at[h] \in Steps /\ pc[h] = "walk"
          /\ \A t \in Steps : t \in out'[h] <=> t < at'[h]
          /\ \A g \in Handlers \ {h} : out'[g] = out[g] /\ at'[g] = at[g]
          /\ out[h] \subseteq out'[h]
          /\ at[h] \notin out[h]
      BY <2>s, <2>6, StepDonePrefix DEF RunUnattended, ConsentInv, TypeOK, Reached
    <3>1. Alone'
      BY <2>s, <2>6, <3>0 DEF RunUnattended, StepDone, Reached, ConsentInv, TypeOK, Serial, Alone, BeforeLaunch, handler, registry, queue, session, history, effects
    <3>2. \A s \in Steps : dispatched'[s] <= 1
      BY <2>s, <2>6, <3>0 DEF RunUnattended, StepDone, Reached, ConsentInv, TypeOK, Serial, Alone, BeforeLaunch, Ended, handler, registry, queue, session, history, effects
    <3>3. BeforeLaunch'
      BY <2>s, <2>6, <3>0 DEF RunUnattended, StepDone, Reached, ConsentInv, TypeOK, Serial, Alone, BeforeLaunch, handler, registry, queue, session, history, effects
    <3>4. ParkedCovers'
      BY <2>s, <2>6, <3>0 DEF RunUnattended, StepDone, Reached, ConsentInv, TypeOK, Serial, Alone, BeforeLaunch, ParkedCovers, Covers, Walking, handler, registry, queue, session, history, effects
    <3>5. WalkCovers'
      BY <2>s, <2>6, <3>0 DEF RunUnattended, StepDone, Reached, ConsentInv, TypeOK, Serial, Alone, BeforeLaunch, WalkCovers, Covers, Walking, handler, registry, queue, session, history, effects
    <3>6. Ended'
      BY <2>s, <2>6, <3>0 DEF RunUnattended, StepDone, Reached, ConsentInv, TypeOK, Serial, Alone, BeforeLaunch, Ended, handler, registry, queue, session, history, effects
    <3> QED BY <3>1, <3>2, <3>3, <3>4, <3>5, <3>6 DEF Serial
  <2>7. ASSUME NEW h \in Handlers, SuspendAtSeam(h)
       PROVE  Serial'
    BY <2>s, <2>7 DEF SuspendAtSeam, Goto, Reached, ConsentInv, TypeOK, Serial, Alone, BeforeLaunch, ParkedCovers, WalkCovers, Ended, Covers, Walking,
           handler, registry, queue, session, history, effects
  <2>8. ASSUME NEW h \in Handlers, FirstReach(h)
       PROVE  Serial'
    BY <2>s, <2>8 DEF FirstReach, Goto, Reached, ConsentInv, TypeOK, Serial, Alone, BeforeLaunch, ParkedCovers, WalkCovers, Ended, Covers, Walking,
           handler, registry, queue, session, history, effects
  <2>9. ASSUME NEW h \in Handlers, Register(h)
       PROVE  Serial'
    BY <2>s, <2>9 DEF Register, Goto, Link, Refs, ConsentInv, TypeOK, Serial, Alone, BeforeLaunch, ParkedCovers, WalkCovers, Ended, Covers, Walking,
           handler, registry, queue, session, history, effects
  <2>10. ASSUME NEW h \in Handlers, StillPending(h)
       PROVE  Serial'
    BY <2>s, <2>10 DEF StillPending, Goto, Reached, ConsentInv, TypeOK, Serial, Alone, BeforeLaunch, ParkedCovers, WalkCovers, Ended, Covers, Walking,
           handler, registry, queue, session, history, effects
  <2>11. ASSUME NEW h \in Handlers, Dispatch(h)
       PROVE  Serial'
    <3>0. /\ at[h] \in Steps /\ pc[h] = "walk"
          /\ \A t \in Steps : t \in out'[h] <=> t < at'[h]
          /\ \A g \in Handlers \ {h} : out'[g] = out[g] /\ at'[g] = at[g]
          /\ out[h] \subseteq out'[h]
          /\ at[h] \notin out[h]
      BY <2>s, <2>11, StepDonePrefix DEF Dispatch, ConsentInv, TypeOK, Reached
    <3>1. Alone'
      BY <2>s, <2>11, <3>0 DEF Dispatch, StepDone, Reached, Approved, Entry, Refs, ConsentInv, TypeOK, Serial, Alone, BeforeLaunch, handler, registry, queue, session, history, effects
    <3>2. \A s \in Steps : dispatched'[s] <= 1
      <4>1. at[h] \notin snap[h] /\ Covers(snap[h] \cup out[h])
        BY <2>s, <2>11, <3>0 DEF Dispatch, Reached, Serial, WalkCovers, Walking
      <4>2. at[h] <= at[h]
        BY <3>0, PlanAssumption DEF Steps
      <4>3. dispatched[at[h]] = 0
        BY <3>0, <4>1, <4>2 DEF Covers
      <4>4. dispatched' = [dispatched EXCEPT ![at[h]] = @ + 1] /\ DOMAIN dispatched = Steps
        BY <2>11 DEF Dispatch, ConsentInv, TypeOK
      <4>5. \A s \in Steps : dispatched[s] <= 1
        BY <2>s DEF Serial
      <4> QED BY <4>3, <4>4, <4>5
    <3>3. BeforeLaunch'
      BY <2>s, <2>11, <3>0 DEF Dispatch, StepDone, Reached, Approved, Entry, Refs, ConsentInv, TypeOK, Serial, Alone, BeforeLaunch, handler, registry, queue, session, history, effects
    <3>4. ParkedCovers'
      BY <2>s, <2>11, <3>0 DEF Dispatch, StepDone, Reached, Approved, Entry, Refs, ConsentInv, TypeOK, Serial, Alone, BeforeLaunch, ParkedCovers, Covers, Walking, handler, registry, queue, session, history, effects
    <3>5. WalkCovers'
      <4>1. /\ pc' = pc /\ snap' = snap /\ resuming' = resuming /\ parked' = parked
            /\ dispatched' = [dispatched EXCEPT ![at[h]] = @ + 1] /\ DOMAIN dispatched = Steps
            /\ out'[h] = out[h] \cup {at[h]}
        BY <2>11 DEF Dispatch, StepDone, registry, ConsentInv, TypeOK
      <4>2. \A g \in Handlers : pc[g] # "idle" => g = h
        BY <2>s, <3>0 DEF Serial, Alone
      <4>3. /\ Covers(snap[h] \cup out[h])
            /\ \A t \in Steps : t \in out[h] <=> t < at[h]
            /\ ~resuming[h] => ~parked
        BY <2>s, <3>0 DEF Serial, WalkCovers, Walking
      <4>4. ASSUME NEW s \in Steps, NEW t \in Steps, dispatched'[s] # 0, t <= s
            PROVE  t \in snap'[h] \cup out'[h]
        <5>1. CASE s = at[h]
          <6>1. t = at[h] \/ t < at[h]
            BY <3>0, <4>4, <5>1, PlanAssumption DEF Steps
          <6> QED BY <4>1, <4>3, <6>1
        <5>2. CASE s # at[h]
          <6>1. dispatched[s] # 0
            BY <4>1, <4>4, <5>2
          <6> QED BY <4>1, <4>3, <4>4, <6>1 DEF Covers
        <5> QED BY <5>1, <5>2
      <4>5. \A g \in Handlers : pc'[g] \in Walking => g = h
        BY <4>1, <4>2 DEF Walking
      <4> QED BY <3>0, <4>1, <4>3, <4>4, <4>5 DEF WalkCovers, Covers
    <3>6. Ended'
      BY <2>s, <2>11, <3>0 DEF Dispatch, StepDone, Reached, Approved, Entry, Refs, ConsentInv, TypeOK, Serial, Alone, BeforeLaunch, Ended, handler, registry, queue, session, history, effects
    <3> QED BY <3>1, <3>2, <3>3, <3>4, <3>5, <3>6 DEF Serial
  <2>12. ASSUME NEW h \in Handlers, Finish(h)
       PROVE  Serial'
    <3>0. ~parked' /\ launched' /\ \A g \in Handlers : pc'[g] = "idle"
      <4>1. pc[h] = "walk" /\ pc' = [pc EXCEPT ![h] = "idle"] /\ launched' = launched
        BY <2>12 DEF Finish, Goto, session
      <4>2. launched /\ \A g \in Handlers : pc[g] # "idle" => g = h
        BY <2>s, <4>1 DEF Serial, BeforeLaunch, Alone
      <4>3. resuming[h] => ~parked'
        BY <2>12 DEF Finish, Delete
      <4>4. ~resuming[h] => ~parked'
        BY <2>s, <2>12, <4>1 DEF Finish, Serial, WalkCovers, Walking
      <4>5. \A g \in Handlers : pc'[g] = "idle"
        BY <4>1, <4>2 DEF ConsentInv, TypeOK
      <4> QED BY <4>1, <4>2, <4>3, <4>4, <4>5
    <3>1. Alone'
      BY <2>s, <2>12 DEF Finish, Goto, Delete, ConsentInv, TypeOK, Serial, Alone, BeforeLaunch, handler, registry, queue, session, history, effects
    <3>2. \A s \in Steps : dispatched'[s] <= 1
      BY <2>s, <2>12 DEF Finish, Goto, Delete, ConsentInv, TypeOK, Serial, Alone, BeforeLaunch, Ended, handler, registry, queue, session, history, effects
    <3>3. BeforeLaunch'
      BY <2>s, <2>12 DEF Finish, Goto, Delete, ConsentInv, TypeOK, Serial, Alone, BeforeLaunch, handler, registry, queue, session, history, effects
    <3>4. ParkedCovers'
      BY <3>0 DEF ParkedCovers
    <3>5. WalkCovers'
      BY <2>s, <2>12 DEF Finish, Goto, Delete, ConsentInv, TypeOK, Serial, Alone, BeforeLaunch, WalkCovers, Covers, Walking, handler, registry, queue, session, history, effects
    <3>6. Ended'
      BY <3>0 DEF Ended
    <3> QED BY <3>1, <3>2, <3>3, <3>4, <3>5, <3>6 DEF Serial
  <2>13. ASSUME NEW h \in Handlers, Park(h)
       PROVE  Serial'
    <3>1. Alone'
      BY <2>s, <2>13 DEF Park, PutRecord, Goto, Respond, ConsentInv, TypeOK, Serial, Alone, BeforeLaunch, handler, registry, queue, session, history, effects
    <3>2. \A s \in Steps : dispatched'[s] <= 1
      BY <2>s, <2>13 DEF Park, PutRecord, Goto, Respond, ConsentInv, TypeOK, Serial, Alone, BeforeLaunch, Ended, handler, registry, queue, session, history, effects
    <3>3. BeforeLaunch'
      BY <2>s, <2>13 DEF Park, PutRecord, Goto, Respond, ConsentInv, TypeOK, Serial, Alone, BeforeLaunch, handler, registry, queue, session, history, effects
    <3>4. ParkedCovers'
      <4>1. pc[h] = "suspend" /\ memo' = out[h] /\ dispatched' = dispatched
        BY <2>13 DEF Park, PutRecord, Goto, history, effects
      <4>2. Covers(out[h])
        BY <2>s, <4>1, SuspendedCovers
      <4> QED BY <4>1, <4>2 DEF ParkedCovers, Covers
    <3>5. WalkCovers'
      BY <2>s, <2>13 DEF Park, PutRecord, Goto, Respond, ConsentInv, TypeOK, Serial, Alone, BeforeLaunch, WalkCovers, Covers, Walking, handler, registry, queue, session, history, effects
    <3>6. Ended'
      BY <2>s, <2>13 DEF Park, PutRecord, Goto, Respond, ConsentInv, TypeOK, Serial, Alone, BeforeLaunch, Ended, handler, registry, queue, session, history, effects
    <3> QED BY <3>1, <3>2, <3>3, <3>4, <3>5, <3>6 DEF Serial
  <2>14. ASSUME NEW h \in Handlers, SkipSeamAudit(h)
       PROVE  Serial'
    BY <2>s, <2>14 DEF SkipSeamAudit, Goto, Respond, ConsentInv, TypeOK, Serial, Alone, BeforeLaunch, ParkedCovers, WalkCovers, Ended, Covers, Walking,
           handler, registry, queue, session, history, effects
  <2>15. ASSUME NEW h \in Handlers, RecordSeamAudit(h)
       PROVE  Serial'
    BY <2>s, <2>15 DEF RecordSeamAudit, Goto, ConsentInv, TypeOK, Serial, Alone, BeforeLaunch, ParkedCovers, WalkCovers, Ended, Covers, Walking,
           handler, registry, queue, session, history, effects
  <2>16. ASSUME NEW h \in Handlers, StampSeam(h)
       PROVE  Serial'
    BY <2>s, <2>16 DEF StampSeam, Goto, Respond, ConsentInv, TypeOK, Serial, Alone, BeforeLaunch, ParkedCovers, WalkCovers, Ended, Covers, Walking,
           handler, registry, queue, session, history, effects
  <2>17. ASSUME Decide
       PROVE  Serial'
    BY <2>s, <2>17 DEF Decide, ConsentInv, TypeOK, Serial, Alone, BeforeLaunch, ParkedCovers, WalkCovers, Ended, Covers, Walking,
           handler, registry, queue, session, history, effects
  <2>18. ASSUME Expire
       PROVE  Serial'
    BY <2>s, <2>18 DEF Expire, Delete, ConsentInv, TypeOK, Serial, Alone, BeforeLaunch, ParkedCovers, WalkCovers, Ended, Covers, Walking,
           handler, registry, queue, session, history, effects
  <2>19. ASSUME Restart
       PROVE  Serial'
    BY <2>s, <2>19 DEF Restart, Delete, ConsentInv, TypeOK, Serial, Alone, BeforeLaunch, ParkedCovers, WalkCovers, Ended, Covers, Walking,
           handler, registry, queue, session, history, effects
  <2>20. ASSUME NEW id \in Ids, SetRunning(id) \/ ExecuteRespawned(id)
       PROVE  Serial'
    BY <2>s, <2>20 DEF SetRunning, ExecuteRespawned, Serial, Alone, BeforeLaunch, ParkedCovers, WalkCovers, Ended, Covers, Walking,
           handler, registry, session, history, effects
  <2> QED
    BY <2>20, <2>1, <2>2, <2>3, <2>4, <2>5, <2>6, <2>7, <2>8, <2>9, <2>10, <2>11, <2>12, <2>13, <2>14, <2>15, <2>16, <2>17, <2>18, <2>19, <2>u DEF Next, Call, Walk, Suspend, Denied, Fails, Completes
<1> QED BY <1>1, ConsentInvariant, <1>2, PTL DEF Spec

(* Calls that have not overlapped register one entry per action and audit  *)
(* a seam once.                                                            *)
LEMMA OnceInvariant == Spec => []OnceInv
<1>1. Init => OnceInv
  BY DEF Init, OnceInv, Once, Spent
<1>2. ConsentInv /\ SerialInv /\ OnceInv /\ [Next]_vars => OnceInv'
  <2> SUFFICES ASSUME ConsentInv, SerialInv, OnceInv, [Next]_vars, ~overlap' PROVE Once' /\ Spent'
    BY DEF OnceInv
  <2>0. ~overlap
    BY DEF Next, vars, Call, Walk, Suspend, history, effects, LaunchFlightPlan, ResumeFlightPlan, Arrive, MergeOutputs, Reread,
           InjectMemoized, RunUnattended, SuspendAtSeam, FirstReach, Register, StillPending, Dispatch,
           Denied, Fails, Completes, Finish, Park, SkipSeamAudit, RecordSeamAudit, StampSeam,
           Decide, Expire, Restart, SetRunning, ExecuteRespawned
  <2>o. Once /\ Spent /\ Alone
    BY <2>0 DEF OnceInv, SerialInv, Serial
  <2>t. /\ DOMAIN pc = Handlers /\ DOMAIN at = Handlers
        /\ asker \in [Ids -> Steps \cup {0}] /\ linked \in [Refs -> Ids \cup {0}]
        /\ seamAudits \in [Steps -> Nat]
    BY DEF ConsentInv, TypeOK
  <2> DEFINE Kept == /\ asker' = asker /\ linked' = linked /\ audited' = audited /\ seamAudits' = seamAudits
                     /\ Going' => Going
             Moved(h) == /\ pc[h] = "stamp" => pc'[h] = "stamp" /\ at'[h] = at[h]
                         /\ pc'[h] = "register" => pc[h] = "register" /\ at'[h] = at[h]
  <2>q. ASSUME Kept, \A h \in Handlers : Moved(h) PROVE Once'
    <3>1. Going' => Going
      BY <2>q
    <3> QED
      BY <2>o, <2>q, <3>1 DEF Once, Entry
  <2>1. ASSUME NEW h \in Handlers, LaunchFlightPlan(h) PROVE Once'
    <3>1. Kept
      BY <2>1, <2>t DEF LaunchFlightPlan, Arrive, Goto, registry, queue, Going
    <3>2. \A g \in Handlers : Moved(g)
      BY <2>1, <2>t DEF LaunchFlightPlan, Arrive, Goto, registry, queue
    <3> HIDE DEF Kept, Moved
    <3> QED
      BY <2>q, <3>1, <3>2
  <2>2. ASSUME NEW h \in Handlers, ResumeFlightPlan(h) PROVE Once'
    <3>1. Kept
      BY <2>2, <2>t DEF ResumeFlightPlan, Arrive, Goto, registry, queue, Going
    <3>2. \A g \in Handlers : Moved(g)
      BY <2>2, <2>t DEF ResumeFlightPlan, Arrive, Goto, registry, queue
    <3> HIDE DEF Kept, Moved
    <3> QED
      BY <2>q, <3>1, <3>2
  <2>3. ASSUME NEW h \in Handlers, MergeOutputs(h) PROVE Once'
    <3>1. Kept
      BY <2>3, <2>t DEF MergeOutputs, Goto, handler, queue, session, history, effects, Going
    <3>2. \A g \in Handlers : Moved(g)
      BY <2>3, <2>t DEF MergeOutputs, Goto, handler, queue, session, history, effects
    <3> HIDE DEF Kept, Moved
    <3> QED
      BY <2>q, <3>1, <3>2
  <2>4. ASSUME NEW h \in Handlers, Reread(h) PROVE Once'
    <3>1. Kept
      BY <2>4, <2>t DEF Reread, Goto, registry, queue, session, history, effects, Going
    <3>2. \A g \in Handlers : Moved(g)
      BY <2>4, <2>t DEF Reread, Goto, registry, queue, session, history, effects
    <3> HIDE DEF Kept, Moved
    <3> QED
      BY <2>q, <3>1, <3>2
  <2>5. ASSUME NEW h \in Handlers, InjectMemoized(h) PROVE Once'
    <3>1. Kept
      BY <2>5, <2>t DEF InjectMemoized, StepDone, registry, queue, session, history, effects, Going
    <3>2. \A g \in Handlers : Moved(g)
      BY <2>5, <2>t DEF InjectMemoized, StepDone, registry, queue, session, history, effects
    <3> HIDE DEF Kept, Moved
    <3> QED
      BY <2>q, <3>1, <3>2
  <2>6. ASSUME NEW h \in Handlers, RunUnattended(h) PROVE Once'
    <3>1. Kept
      BY <2>6, <2>t DEF RunUnattended, StepDone, Reached, registry, queue, session, history, effects, Going
    <3>2. \A g \in Handlers : Moved(g)
      BY <2>6, <2>t DEF RunUnattended, StepDone, Reached, registry, queue, session, history, effects
    <3> HIDE DEF Kept, Moved
    <3> QED
      BY <2>q, <3>1, <3>2
  <2>7. ASSUME NEW h \in Handlers, SuspendAtSeam(h) PROVE Once'
    <3>1. Kept
      BY <2>7, <2>t DEF SuspendAtSeam, Goto, handler, registry, queue, session, history, effects, Going
    <3>2. \A g \in Handlers : Moved(g)
      BY <2>7, <2>t DEF SuspendAtSeam, Goto, handler, registry, queue, session, history, effects
    <3> HIDE DEF Kept, Moved
    <3> QED
      BY <2>q, <3>1, <3>2
  <2>8. ASSUME NEW h \in Handlers, StillPending(h) PROVE Once'
    <3>1. Kept
      BY <2>8, <2>t DEF StillPending, Goto, handler, registry, queue, session, history, effects, Going
    <3>2. \A g \in Handlers : Moved(g)
      BY <2>8, <2>t DEF StillPending, Goto, handler, registry, queue, session, history, effects
    <3> HIDE DEF Kept, Moved
    <3> QED
      BY <2>q, <3>1, <3>2
  <2>9. ASSUME NEW h \in Handlers, Dispatch(h) PROVE Once'
    <3>1. Kept
      BY <2>9, <2>t DEF Dispatch, StepDone, Reached, registry, queue, session, effects, Going
    <3>2. \A g \in Handlers : Moved(g)
      BY <2>9, <2>t DEF Dispatch, StepDone, Reached, registry, queue, session, effects
    <3> HIDE DEF Kept, Moved
    <3> QED
      BY <2>q, <3>1, <3>2
  <2>10. ASSUME NEW h \in Handlers, Finish(h) PROVE Once'
    <3>1. Kept
      BY <2>10, <2>t DEF Finish, Delete, Goto, handler, queue, session, Going
    <3>2. \A g \in Handlers : Moved(g)
      BY <2>10, <2>t DEF Finish, Delete, Goto, handler, queue, session, effects
    <3> HIDE DEF Kept, Moved
    <3> QED
      BY <2>q, <3>1, <3>2
  <2>11. ASSUME NEW h \in Handlers, Park(h) PROVE Once'
    <3>1. Kept
      BY <2>11, <2>t DEF Park, PutRecord, Respond, Goto, handler, queue, session, history, effects, Going
    <3>2. \A g \in Handlers : Moved(g)
      BY <2>11, <2>t DEF Park, PutRecord, Respond, Goto, handler, queue, session, history, effects
    <3> HIDE DEF Kept, Moved
    <3> QED
      BY <2>q, <3>1, <3>2
  <2>12. ASSUME NEW h \in Handlers, SkipSeamAudit(h) PROVE Once'
    <3>1. Kept
      BY <2>12, <2>t DEF SkipSeamAudit, Respond, Goto, handler, registry, queue, history, effects, Going
    <3>2. \A g \in Handlers : Moved(g)
      BY <2>12, <2>t DEF SkipSeamAudit, Respond, Goto, handler, registry, queue, history, effects
    <3> HIDE DEF Kept, Moved
    <3> QED
      BY <2>q, <3>1, <3>2
  <2>13. ASSUME NEW h \in Handlers, FirstReach(h) PROVE Once'
    <3>1. /\ UNCHANGED <<asker, linked, audited, seamAudits, at>> /\ pc[h] = "walk" /\ pc'[h] = "register"
          /\ \A g \in Handlers : g # h => pc'[g] = pc[g]
      BY <2>13, <2>t DEF FirstReach, Goto, handler, registry, queue, history, effects
    <3>2. Going /\ Entry(at[h]) = 0
      BY <2>13, <3>1 DEF Going, FirstReach, Reached
    <3> QED
      BY <2>o, <3>1, <3>2 DEF Once, Entry
  <2>14. ASSUME NEW h \in Handlers, Register(h) PROVE Once'
    <3>0. PICK e, s : e = entries + 1 /\ s = at[h]
      OBVIOUS
    <3>1. /\ pc[h] = "register" /\ s \in Steps /\ e \in Ids /\ Ref[s] \in Refs /\ e # 0 /\ s # 0
          /\ asker[e] = 0
      <4>1. pc[h] = "register" /\ entries < MaxEntries
        BY <2>14 DEF Register, Goto
      <4>2. s \in Steps /\ Ref[s] \in Refs /\ s # 0
        BY <3>0, <4>1, PlanAssumption DEF ConsentInv, Placed, Refs, Steps
      <4>3. e \in Ids /\ e # 0 /\ e > entries
        BY <3>0, <4>1, BoundsAssumption DEF ConsentInv, TypeOK, Ids
      <4> QED
        BY <4>1, <4>2, <4>3 DEF ConsentInv, Linked
    <3>2. /\ asker'[e] = s /\ \A i \in Ids : i # e => asker'[i] = asker[i]
          /\ linked'[Ref[s]] = e /\ \A r \in Refs : r # Ref[s] => linked'[r] = linked[r]
          /\ UNCHANGED <<audited, seamAudits, at>> /\ pc'[h] = "suspend"
          /\ \A g \in Handlers : g # h => pc'[g] = pc[g]
      BY <2>14, <2>t, <3>0, <3>1 DEF Register, Link, Goto, handler, history, effects
    <3>3. Going /\ linked[Ref[s]] = 0 /\ \A g \in Handlers : g # h => pc[g] = "idle"
      BY <2>o, <3>0, <3>1 DEF Going, Once, Entry, Alone
    <3>4. \A i \in Ids : asker[i] # 0 => linked[Ref[asker[i]]] = i /\ Ref[asker[i]] # Ref[s] /\ Ref[asker[i]] \in Refs
      <4> SUFFICES ASSUME NEW i \in Ids, asker[i] # 0
                   PROVE  linked[Ref[asker[i]]] = i /\ Ref[asker[i]] # Ref[s] /\ Ref[asker[i]] \in Refs
        OBVIOUS
      <4>1. i # 0 /\ linked[Ref[asker[i]]] = i
        BY <2>o, <3>3 DEF Once, Ids
      <4>2. asker[i] \in Steps
        BY <2>t
      <4> QED
        BY <3>3, <4>1, <4>2 DEF Refs
    <3>5. \A i, j \in Ids : asker'[i] # 0 /\ asker'[j] # 0 /\ Ref[asker'[i]] = Ref[asker'[j]] => i = j
      BY <2>o, <3>2, <3>4 DEF Once
    <3>6. \A i \in Ids : asker'[i] # 0 => linked'[Ref[asker'[i]]] = i
      BY <3>2, <3>4
    <3>7. /\ \A t \in Steps : seamAudits'[t] <= 1
          /\ \A t \in Steps : seamAudits'[t] # 0 => t \in audited'
          /\ \A g \in Handlers : pc'[g] # "register"
      BY <2>o, <3>1, <3>2, <3>3 DEF Once
    <3> QED
      BY <3>5, <3>6, <3>7 DEF Once
  <2>15. ASSUME NEW h \in Handlers, RecordSeamAudit(h) PROVE Once'
    <3>0. PICK s : s = at[h]
      OBVIOUS
    <3>1. /\ pc[h] = "audit" /\ s \in Steps /\ s \notin audited
      BY <2>15, <3>0 DEF RecordSeamAudit, Goto, ConsentInv, Placed, Seams
    <3>2. /\ UNCHANGED <<asker, linked, audited, at>> /\ pc'[h] = "stamp"
          /\ \A g \in Handlers : g # h => pc'[g] = pc[g]
          /\ seamAudits'[s] = seamAudits[s] + 1 /\ \A t \in Steps : t # s => seamAudits'[t] = seamAudits[t]
      BY <2>15, <2>t, <3>0, <3>1 DEF RecordSeamAudit, Goto, handler, registry, queue
    <3>3. Going /\ \A g \in Handlers : g # h => pc[g] = "idle"
      BY <2>o, <3>1 DEF Going, Alone
    <3>4. seamAudits[s] = 0 /\ \A t \in Steps : seamAudits[t] # 0 => t \in audited
      BY <2>o, <3>1, <3>3 DEF Once
    <3>5. \A t \in Steps : seamAudits'[t] <= 1 /\ (seamAudits'[t] # 0 => t \in audited' \/ t = at'[h])
      BY <2>o, <3>0, <3>2, <3>4 DEF Once
    <3> QED
      BY <2>o, <3>2, <3>3, <3>5 DEF Once
  <2>16. ASSUME NEW h \in Handlers, StampSeam(h) PROVE Once'
    <3>1. /\ pc[h] = "stamp" /\ UNCHANGED <<asker, linked, at, seamAudits>> /\ audited' = audited \cup {at[h]}
          /\ pc'[h] = "idle" /\ \A g \in Handlers : g # h => pc'[g] = pc[g]
      BY <2>16, <2>t DEF StampSeam, Goto, handler, queue, history, effects
    <3>2. Going /\ \A g \in Handlers : g # h => pc[g] = "idle"
      BY <2>o, <3>1 DEF Going, Alone
    <3>3. \A t \in Steps : seamAudits[t] # 0 => t \in audited'
      BY <2>o, <3>1, <3>2 DEF Once
    <3> QED
      BY <2>o, <3>1, <3>2, <3>3 DEF Once
  <2>17. ASSUME Decide PROVE Once'
    BY <2>17, <2>q DEF Decide, Going, handler, registry, session, history, effects
  <2>18. ASSUME Expire PROVE Once'
    BY <2>18, <2>q DEF Expire, Delete, Going, handler, queue, session, history, effects
  <2>21. ASSUME NEW id \in Ids, SetRunning(id) \/ ExecuteRespawned(id) PROVE Once'
    BY <2>21, <2>q DEF SetRunning, ExecuteRespawned, Going, handler, registry, session, history, effects
  <2>19. ASSUME Restart PROVE Once'
    BY <2>19, <2>o DEF Restart, Delete, Once, Going, queue, session, history, effects
  <2>20. ASSUME UNCHANGED vars PROVE Once'
    <3>1. UNCHANGED <<pc, at, asker, linked, audited, seamAudits, launched, parked>>
      BY <2>20 DEF vars, handler, registry, queue, session, history
    <3>2. Kept /\ \A g \in Handlers : Moved(g)
      BY <3>1 DEF Going
    <3> HIDE DEF Kept, Moved
    <3> QED
      BY <2>q, <3>2
  <2>22. Once'
    BY <2>1, <2>2, <2>3, <2>4, <2>5, <2>6, <2>7, <2>8, <2>9, <2>10, <2>11, <2>12, <2>13, <2>14, <2>15, <2>16, <2>17, <2>18, <2>19, <2>20, <2>21
    DEF Next, Call, Walk, Suspend, Denied, Fails, Completes
  <2>23. CASE \E i \in Ids : ExecuteRespawned(i)
    <3>1. PICK i \in Ids : ExecuteRespawned(i)
      BY <2>23
    <3>2. /\ asker[i] \in Steps /\ outcome[i] = "running" /\ asker' = asker
          /\ executed' = [executed EXCEPT ![asker[i]] = @ + 1] /\ executed \in [Steps -> Nat]
          /\ outcome \in [Ids -> Outcomes]
      BY <3>1 DEF ExecuteRespawned, ConsentInv, TypeOK, Linked
    <3>3. /\ outcome'[i] \in {"completed", "failed"}
          /\ \A id \in Ids : outcome[id] \in {"completed", "failed"} => outcome'[id] = outcome[id]
      BY <3>1, <3>2 DEF ExecuteRespawned
    <3>4. executed[asker[i]] = 0
      <4> SUFFICES ASSUME executed[asker[i]] # 0 PROVE FALSE
        OBVIOUS
      <4>1. PICK id \in Ids : asker[id] = asker[i] /\ outcome[id] \in {"completed", "failed"}
        BY <2>o, <3>2 DEF Spent
      <4>2. asker[i] # 0
        BY <3>2, PlanAssumption DEF Steps
      <4> QED BY <2>o, <3>2, <4>1, <4>2 DEF Once
    <3>5. Spent'
      <4> SUFFICES ASSUME NEW s \in Steps
                   PROVE  /\ executed'[s] <= 1
                          /\ executed'[s] # 0 => \E id \in Ids : asker'[id] = s /\ outcome'[id] \in {"completed", "failed"}
        BY DEF Spent
      <4>1. CASE s = asker[i]
        BY <3>2, <3>3, <3>4, <4>1
      <4>2. CASE s # asker[i]
        BY <2>o, <3>2, <3>3, <4>2 DEF Spent
      <4> QED BY <4>1, <4>2
    <3> QED BY <2>22, <3>5
  <2>24. CASE ~\E i \in Ids : ExecuteRespawned(i)
    <3>1. executed' = executed
      BY <2>24 DEF Next, vars, Call, Walk, Suspend, history, effects, LaunchFlightPlan, ResumeFlightPlan, MergeOutputs, Reread,
           InjectMemoized, RunUnattended, SuspendAtSeam, FirstReach, Register, StillPending, Dispatch,
           Denied, Fails, Completes, Finish, Park, SkipSeamAudit, RecordSeamAudit, StampSeam,
           Decide, Expire, Restart, SetRunning
    <3>2. ASSUME NEW id \in Ids, asker[id] # 0, outcome[id] \in {"completed", "failed"}
          PROVE  asker'[id] = asker[id] /\ outcome'[id] = outcome[id]
      <4>1. CASE \E h \in Handlers : Register(h)
        <5>1. PICK h \in Handlers : Register(h)
          BY <4>1
        <5>2. entries + 1 \in Ids /\ entries + 1 > entries
          BY <5>1, BoundsAssumption DEF Register, ConsentInv, TypeOK, Ids
        <5>3. id # entries + 1
          BY <3>2, <5>2 DEF ConsentInv, Linked
        <5> QED BY <5>1, <5>3 DEF Register, ConsentInv, TypeOK
      <4>2. CASE ~\E h \in Handlers : Register(h)
        BY <2>24, <3>2, <4>2 DEF Next, vars, Call, Walk, Suspend, queue, LaunchFlightPlan, ResumeFlightPlan, MergeOutputs, Reread,
           InjectMemoized, RunUnattended, SuspendAtSeam, FirstReach, StillPending, Dispatch,
           Denied, Fails, Completes, Finish, Park, SkipSeamAudit, RecordSeamAudit, StampSeam,
           Decide, Expire, Restart, Replayed, SetRunning, ConsentInv, TypeOK
      <4> QED BY <4>1, <4>2
    <3>3. \A s \in Steps : s # 0
      BY PlanAssumption DEF Steps
    <3>4. Spent'
      BY <2>o, <3>1, <3>2, <3>3 DEF Spent
    <3> QED BY <2>22, <3>4
  <2> QED
    BY <2>23, <2>24
<1> QED
  BY <1>1, <1>2, ConsentInvariant, SerialInvariant, PTL DEF Spec

(* Type correctness: a walk stays within the plan, the approvals map       *)
(* points to registered entries, for every plan.                           *)
THEOREM TypeCorrect == Spec => []TypeOK
<1>1. ConsentInv => TypeOK
  BY DEF ConsentInv
<1> QED BY <1>1, ConsentInvariant, PTL

(* The dispatcher and a respawned executor fire a gated action only when   *)
(* the user approved an entry of this run for that action, whatever calls  *)
(* overlap and however often the daemon restarts.                          *)
THEOREM Consent == Spec => []EffectsAreConsented
<1>1. ConsentInv => EffectsAreConsented
  BY DEF ConsentInv
<1> QED BY <1>1, ConsentInvariant, PTL

(* A run whose calls do not overlap dispatches every step at most once:    *)
(* the memo of the parked record covers every dispatched step.  Executors  *)
(* respawned by restarts fire a step's action at most once more: it has    *)
(* one entry, which is marked running before the action is executed.       *)
THEOREM OnceSerial == Spec => []OnceWhenSerial
<1>1. SerialInv /\ OnceInv => OnceWhenSerial
  BY DEF SerialInv, Serial, OnceInv, Spent, OnceWhenSerial
<1> QED BY <1>1, SerialInvariant, OnceInvariant, PTL

(* A run whose calls do not overlap is not in the registry after a call    *)
(* that completed or failed: no resume reaches it again.                   *)
THEOREM OverIsGone == Spec => []OverIsGoneWhenSerial
<1>1. SerialInv => OverIsGoneWhenSerial
  BY DEF SerialInv, Serial, Ended, OverIsGoneWhenSerial
<1> QED BY <1>1, SerialInvariant, PTL

(* A run whose calls do not overlap asks the user once per action: a       *)
(* resume finds the entry in the approvals map that its records share, and *)
(* after a restart, which loses the map, nothing resumes the run.          *)
THEOREM AskedOnce == Spec => []AskedOnceWhenSerial
<1>1. OnceInv => AskedOnceWhenSerial
  BY DEF OnceInv, Once, AskedOnceWhenSerial
<1> QED BY <1>1, OnceInvariant, PTL

(* A run whose calls do not overlap writes one audit record per seam,      *)
(* however often it suspends there.                                        *)
THEOREM AuditedOnce == Spec => []AuditedOnceWhenSerial
<1>1. OnceInv => AuditedOnceWhenSerial
  BY DEF OnceInv, Once, AuditedOnceWhenSerial
<1> QED BY <1>1, OnceInvariant, PTL
=============================================================================
