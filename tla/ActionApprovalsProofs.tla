------------------------ MODULE ActionApprovalsProofs ------------------------
(***************************************************************************)
(* Proofs about ActionApprovals, for every set of entries and every bound. *)
(***************************************************************************)
EXTENDS ActionApprovals, TLAPS

-----------------------------------------------------------------------------
(* Inductive invariants.                                                   *)

(* An entry is in a state that only an approval can have led to. *)
Consented == Approved \cup {"running", "completed"}

ConsentInv ==
  \A id \in Ids :
    \/ id \in approved
    \/ /\ status[id] \notin Consented
       /\ disk[id] \notin Consented
       /\ data[id] \notin Consented
       /\ decision[id] # "approved_not_started"
       /\ dec[id] # "approved_not_started"
       /\ exec[id] \in {"none", "wait", "finishing", "done"}
       /\ runs[id] = 0 /\ lost[id] = 0

(* The outcomes an executor, the reap or the respawn loop records. *)
Final == {"completed", "failed"}

(* A record that keeps replay from respawning the entry's executor. *)
Settling == {"running"} \cup Terminal

(* Every earlier entry into Execute is accounted for by a lost record, so  *)
(* one more is within the bound.                                           *)
Fresh(id) == runs[id] <= lost[id]

(* Where an action entry stands with its handlers and its executor. *)
Lifecycle(id) ==
  /\ planRun[id] = "none"
  /\ reg[id] = "none" =>
       status[id] = "absent" /\ disk[id] = "absent" /\ data[id] = "absent"
  /\ reg[id] # "done" => exec[id] = "none" /\ runs[id] = 0
  /\ reg[id] = "none" => decision[id] = "empty" /\ dec[id] = "idle"
  /\ daemon \in {"down", "starting"} =>
       dec[id] = "idle" /\ exec[id] = "none" /\ reg[id] # "appending"
  /\ daemon = "starting" =>
       /\ decision[id] = "approved_not_started" => status[id] \in Approved \cup {"failed"}
       /\ status[id] \in Approved => decision[id] = "approved_not_started"
       /\ status[id] = "pending_approval" => decision[id] = "empty"
  /\ status[id] = "pending_approval" =>
       /\ decision[id] = "empty" /\ dec[id] = "idle" /\ exec[id] \in {"none", "wait"}
       /\ daemon # "starting" => reg[id] = "appending" \/ exec[id] = "wait"
  /\ dec[id] # "idle" => decision[id] = "empty" /\ exec[id] \in {"none", "wait"}
  /\ VerdictUnderWay(id) /\ (reg[id] = "appending" \/ exec[id] = "wait") => status[id] \in Approved
  /\ exec[id] \in {"gate", "parking", "parked", "ready"} => status[id] \in Approved
  /\ exec[id] \in {"marking", "armed", "executing"} => status[id] = "running"
  /\ exec[id] = "finishing" => status[id] \in Terminal
  /\ daemon = "down" => status[id] = "absent"
  /\ daemon \notin {"down", "starting"} /\ status[id] \in Approved =>
       \/ (reg[id] = "appending" \/ exec[id] = "wait") /\ VerdictUnderWay(id)
       \/ exec[id] \in {"gate", "parking", "parked", "ready"}

(* When a further entry into Execute is still possible, the entry is fresh. *)
Freshness(id) ==
  /\ runs[id] <= 1 + lost[id]
  /\ disk[id] \notin Settling => Fresh(id)
  /\ data[id] \notin Settling => Fresh(id)
  /\ status[id] \in NonTerminal => Fresh(id)
  /\ dec[id] # "idle" => Fresh(id)
  /\ exec[id] \in {"wait", "gate", "parking", "parked", "ready", "marking", "armed"} => Fresh(id)
  /\ exec[id] = "armed" =>
       \/ disk[id] \in Settling /\ data[id] \in Settling
       \/ runs[id] < lost[id]

ActionInv == \A id \in ActionIds : Lifecycle(id) /\ Freshness(id)

(* Where an entry of any kind stands with its handlers and its executor,   *)
(* as far as its records go: who is between its mutex and its append, and  *)
(* what that append will write.                                            *)
Stand(id) ==
  /\ reg[id] = "none" =>
       /\ status[id] = "absent" /\ disk[id] = "absent" /\ data[id] = "absent"
       /\ decision[id] = "empty" /\ dec[id] = "idle"
  /\ reg[id] # "done" => exec[id] = "none"
  /\ daemon \in {"down", "starting"} => dec[id] = "idle" /\ exec[id] = "none" /\ reg[id] # "appending"
  /\ status[id] = "pending_approval" =>
       decision[id] = "empty" /\ dec[id] = "idle" /\ exec[id] \in {"none", "wait"}
  /\ dec[id] # "idle" => status[id] = dec[id] /\ decision[id] = "empty" /\ exec[id] \in {"none", "wait"}
  /\ exec[id] = "parking" => status[id] = "awaiting_vault"
  /\ exec[id] = "marking" => status[id] = "running"
  /\ exec[id] = "finishing" => status[id] \in Final

(* A final record, in the file or in the store's map, is the entry's       *)
(* outcome, and nobody is left to append another one.                      *)
Finality(id, record) == record[id] \in Final =>
  /\ reg[id] # "appending" /\ dec[id] = "idle" /\ exec[id] \in {"none", "done"}
  /\ daemon = "down" \/ status[id] = record[id]

(* Without a lost record the file and the map agree, and lag behind the    *)
(* queue only while an append is under way.                                *)
Lag(id) == id \notin dropped =>
  /\ data[id] = disk[id]
  /\ \/ daemon = "down"
     \/ disk[id] \in {status[id], "pending_approval"}
     \/ reg[id] = "appending" /\ status[id] = "pending_approval"
     \/ dec[id] # "idle"
     \/ exec[id] \in {"parking", "marking", "finishing"}

JournalOf(id) ==
  /\ Stand(id)
  /\ Finality(id, disk) /\ Finality(id, data) /\ (disk[id] \in Final => data[id] = disk[id])
  /\ Lag(id)

JournalInv == \A id \in Ids : JournalOf(id)

-----------------------------------------------------------------------------
(* What an append does, whatever becomes of the line. *)
LEMMA AppendType ==
  ASSUME TypeOK, NEW id \in Ids, NEW s \in Statuses, Append(id, s)
  PROVE  /\ disk' \in [Ids -> Statuses]
         /\ data' \in [Ids -> Statuses]
         /\ torn' \in BOOLEAN
         /\ lost' \in [Ids -> Nat]
         /\ dropped' \in SUBSET Ids
         /\ faults' \in 0..MaxFaults
<1>1. CASE AppendWritten(id, s)
  BY <1>1 DEF AppendWritten, TypeOK
<1>2. CASE AppendLost(id, s)
  <2>1. lost' \in [Ids -> Nat]
    BY <1>2 DEF AppendLost, TypeOK
  <2>2. faults' \in 0..MaxFaults
    <3>1. faults' = faults \/ (faults < MaxFaults /\ faults' = faults + 1)
      BY <1>2 DEF AppendLost
    <3>2. faults \in 0..MaxFaults
      BY DEF TypeOK
    <3> QED BY <3>1, <3>2, BoundsAssumption
  <2>3. torn' \in BOOLEAN
    BY <1>2 DEF AppendLost, TypeOK
  <2>4. data' \in [Ids -> Statuses] /\ disk' \in [Ids -> Statuses]
    BY <1>2 DEF AppendLost, TypeOK
  <2>5. dropped' \in SUBSET Ids
    BY <1>2 DEF AppendLost, TypeOK
  <2> QED BY <2>1, <2>2, <2>3, <2>4, <2>5
<1> QED BY <1>1, <1>2 DEF Append

(* An append of s for id leaves the records of the other entries alone,    *)
(* and either writes s or counts the record as lost.                       *)
LEMMA AppendEffect ==
  ASSUME TypeOK, NEW id \in Ids, NEW s \in Statuses, Append(id, s), NEW j \in Ids
  PROVE  /\ disk'[j] = disk[j] \/ (j = id /\ disk'[j] = s)
         /\ data'[j] = data[j] \/ (j = id /\ data'[j] = s)
         /\ lost'[j] = lost[j] \/ (j = id /\ s = "running" /\ lost'[j] = lost[j] + 1)
         /\ (j = id /\ s = "running" /\ lost'[j] = lost[j]) =>
              disk'[j] = "running" /\ data'[j] = "running"
<1>1. CASE AppendWritten(id, s)
  BY <1>1 DEF AppendWritten, TypeOK
<1>2. CASE AppendLost(id, s)
  <2>1. lost[id] \in Nat
    BY DEF TypeOK
  <2>2. lost'[j] = IF j = id /\ s = "running" THEN lost[j] + 1 ELSE lost[j]
    BY <1>2, <2>1 DEF AppendLost, TypeOK
  <2>3. disk'[j] = disk[j] /\ (data'[j] = data[j] \/ (j = id /\ data'[j] = s))
    BY <1>2 DEF AppendLost, TypeOK
  <2> QED BY <2>1, <2>2, <2>3
<1> QED BY <1>1, <1>2 DEF Append

-----------------------------------------------------------------------------
(* The variables of the queue, the journal, the executors and the daemon   *)
(* keep their types under every handler, goroutine, crash and restart.     *)
THEOREM TypeCorrect == Spec => []TypeOK
<1>1. Init => TypeOK
  <2> SUFFICES ASSUME Init PROVE TypeOK
    OBVIOUS
  <2>1. crashes \in 0..MaxCrashes /\ stops \in 0..MaxStops /\ faults \in 0..MaxFaults
    <3>1. crashes = 0 /\ stops = 0 /\ faults = 0
      BY DEF Init
    <3> QED BY <3>1, BoundsAssumption
  <2> QED BY <2>1 DEF Init, TypeOK, Everywhere, Statuses
<1>2. TypeOK /\ [Next]_vars => TypeOK'
  <2> SUFFICES ASSUME TypeOK, [Next]_vars PROVE TypeOK'
    OBVIOUS
  <2> USE DEF TypeOK, queue, actors, journal, history, bounds
  <2>1. ASSUME NEW id \in Ids, Register(id) PROVE TypeOK'
    BY <2>1 DEF Register, Statuses, NonTerminal
  <2>2. ASSUME NEW id \in Ids, RegisterPersist(id) PROVE TypeOK'
    BY <2>2, AppendType DEF RegisterPersist, Statuses, NonTerminal
  <2>3. ASSUME NEW id \in Ids, DecidePersist(id) PROVE TypeOK'
    BY <2>3, AppendType DEF DecidePersist, Statuses, NonTerminal, Approved, Terminal
  <2>4. ASSUME NEW id \in Ids, Wait(id) PROVE TypeOK'
    BY <2>4 DEF Wait, Go
  <2>5. ASSUME NEW id \in Ids, WaitForVaultUnlocked(id) PROVE TypeOK'
    BY <2>5 DEF WaitForVaultUnlocked, Go, Statuses, NonTerminal, Approved
  <2>6. ASSUME NEW id \in Ids, AwaitingVaultPersist(id) PROVE TypeOK'
    BY <2>6, AppendType DEF AwaitingVaultPersist, Go, Statuses, NonTerminal, Approved
  <2>7. ASSUME NEW id \in Ids, VaultUnlocked(id) PROVE TypeOK'
    BY <2>7 DEF VaultUnlocked, Go
  <2>8. ASSUME NEW id \in Ids, SetRunning(id) PROVE TypeOK'
    BY <2>8 DEF SetRunning, Go, Statuses
  <2>9. ASSUME NEW id \in Ids, RunningPersist(id) PROVE TypeOK'
    BY <2>9, AppendType DEF RunningPersist, Go, Statuses
  <2>10. ASSUME NEW id \in Ids, Execute(id) PROVE TypeOK'
    BY <2>10 DEF Execute, Go
  <2>11. ASSUME NEW id \in Ids, FinishPersist(id) PROVE TypeOK'
    BY <2>11, AppendType DEF FinishPersist, Go
  <2>12. ASSUME NEW id \in Ids, ResumeFlightPlan(id) PROVE TypeOK'
    BY <2>12 DEF ResumeFlightPlan
  <2>13. ASSUME NEW id \in Ids, FailMissingManifest(id) PROVE TypeOK'
    BY <2>13, AppendType DEF FailMissingManifest, Statuses, Terminal
  <2>14. ASSUME NEW id \in Ids, ReapRunning(id) PROVE TypeOK'
    BY <2>14, AppendType DEF ReapRunning, Statuses, Terminal
  <2>15. ASSUME NEW id \in Ids, NEW v \in {"approved_not_started", "denied"}, Decide(id, v) PROVE TypeOK'
    BY <2>15 DEF Decide, Statuses, NonTerminal, Approved, Terminal
  <2>16. ASSUME NEW id \in Ids, NEW s \in {"completed", "failed"}, Finish(id, s) PROVE TypeOK'
    BY <2>16 DEF Finish, SetOutcome, Go, Statuses, Terminal
  <2>17. ASSUME UnlockLocalVault PROVE TypeOK'
    BY <2>17 DEF UnlockLocalVault
  <2>18. ASSUME Shutdown PROVE TypeOK'
    BY <2>18, BoundsAssumption DEF Shutdown
  <2>19. ASSUME CloseStore PROVE TypeOK'
    <3>1. faults' = faults \/ (faults < MaxFaults /\ faults' = faults + 1)
      BY <2>19 DEF CloseStore
    <3>2. faults' \in 0..MaxFaults
      <4>1. faults \in 0..MaxFaults
        OBVIOUS
      <4> HIDE DEF TypeOK
      <4> QED BY <3>1, <4>1, BoundsAssumption
    <3>3. torn' \in BOOLEAN
      BY <2>19 DEF CloseStore
    <3>4. disk' \in [Ids -> Statuses]
      BY <2>19 DEF CloseStore
    <3> QED BY <2>19, <3>2, <3>3, <3>4 DEF CloseStore
  <2>20. ASSUME Exit PROVE TypeOK'
    BY <2>20 DEF Exit, Halt, Everywhere, Statuses
  <2>21. ASSUME Crash PROVE TypeOK'
    <3>1. crashes < MaxCrashes /\ crashes' = crashes + 1
      BY <2>21 DEF Crash
    <3>2. crashes' \in 0..MaxCrashes
      <4>1. crashes \in 0..MaxCrashes
        OBVIOUS
      <4> HIDE DEF TypeOK
      <4> QED BY <3>1, <4>1, BoundsAssumption
    <3>3. torn' \in BOOLEAN
      BY <2>21 DEF Crash
    <3> QED BY <2>21, <3>2, <3>3 DEF Crash, Halt, Everywhere, Statuses
  <2>22. ASSUME LoadRecords PROVE TypeOK'
    BY <2>22 DEF LoadRecords, PrefilledDecision
  <2>23. ASSUME StartServing PROVE TypeOK'
    BY <2>23 DEF StartServing
  <2>24. ASSUME UNCHANGED vars PROVE TypeOK'
    BY <2>24 DEF vars
  <2> QED
    BY <2>1, <2>2, <2>3, <2>4, <2>5, <2>6, <2>7, <2>8, <2>9, <2>10, <2>11, <2>12, <2>13, <2>14, <2>15, <2>16, <2>17, <2>18, <2>19, <2>20, <2>21, <2>22, <2>23, <2>24
       DEF Next, Handler, Executor, Restart
<1> QED BY <1>1, <1>2, PTL DEF Spec
-----------------------------------------------------------------------------
(* ConsentInv is invariant: every place from which a run can start (the    *)
(* outcome in memory, in the file and in the store's map, the decision     *)
(* channel, the executor) is reached through an approval.                  *)
LEMMA ConsentInvariant == Spec => []ConsentInv
<1>1. Init => ConsentInv
  BY DEF Init, ConsentInv, Everywhere, Consented, Approved
<1>2. TypeOK /\ ConsentInv /\ [Next]_vars => ConsentInv'
  <2> SUFFICES ASSUME TypeOK, ConsentInv, [Next]_vars, NEW j \in Ids,
                      j \notin approved'
               PROVE  /\ status'[j] \notin Consented
                      /\ disk'[j] \notin Consented
                      /\ data'[j] \notin Consented
                      /\ decision'[j] # "approved_not_started"
                      /\ dec'[j] # "approved_not_started"
                      /\ exec'[j] \in {"none", "wait", "finishing", "done"}
                      /\ runs'[j] = 0 /\ lost'[j] = 0
    BY DEF ConsentInv
  <2> DEFINE Goal == /\ status'[j] \notin Consented
                     /\ disk'[j] \notin Consented
                     /\ data'[j] \notin Consented
                     /\ decision'[j] # "approved_not_started"
                     /\ dec'[j] # "approved_not_started"
                     /\ exec'[j] \in {"none", "wait", "finishing", "done"}
                     /\ runs'[j] = 0 /\ lost'[j] = 0
             Before == /\ status[j] \notin Consented
                       /\ disk[j] \notin Consented
                       /\ data[j] \notin Consented
                       /\ decision[j] # "approved_not_started"
                       /\ dec[j] # "approved_not_started"
                       /\ exec[j] \in {"none", "wait", "finishing", "done"}
                       /\ runs[j] = 0 /\ lost[j] = 0
  <2>0. j \notin approved => Before
    BY DEF ConsentInv
  <2> USE DEF TypeOK, queue, actors, journal, history, bounds, Consented, Approved
  <2>1. ASSUME NEW id \in Ids, Register(id) PROVE Goal
    BY <2>0, <2>1 DEF Register
  <2>2. ASSUME NEW id \in Ids, RegisterPersist(id) PROVE Goal
    <3>1. Append(id, "pending_approval") /\ "pending_approval" \in Statuses
      BY <2>2 DEF RegisterPersist, Statuses, NonTerminal, Terminal
    <3>2. /\ disk'[j] = disk[j] \/ (j = id /\ disk'[j] = "pending_approval")
          /\ data'[j] = data[j] \/ (j = id /\ data'[j] = "pending_approval")
          /\ lost'[j] = lost[j]
      BY <3>1, AppendEffect
    <3> QED BY <2>0, <2>2, <3>2 DEF RegisterPersist
  <2>3. ASSUME NEW id \in Ids, NEW v \in {"approved_not_started", "denied"}, Decide(id, v) PROVE Goal
    BY <2>0, <2>3 DEF Decide
  <2>4. ASSUME NEW id \in Ids, DecidePersist(id) PROVE Goal
    <3>1. Append(id, dec[id]) /\ dec[id] \in Statuses
      BY <2>4 DEF DecidePersist, Statuses, NonTerminal, Terminal
    <3>2. /\ disk'[j] = disk[j] \/ (j = id /\ disk'[j] = dec[id])
          /\ data'[j] = data[j] \/ (j = id /\ data'[j] = dec[id])
          /\ lost'[j] = lost[j] \/ (j = id /\ dec[id] = "running")
      BY <3>1, AppendEffect
    <3> QED BY <2>0, <2>4, <3>2 DEF DecidePersist
  <2>5. ASSUME NEW id \in Ids, Wait(id) PROVE Goal
    BY <2>0, <2>5 DEF Wait, Go
  <2>6. ASSUME NEW id \in Ids, WaitForVaultUnlocked(id) PROVE Goal
    BY <2>0, <2>6 DEF WaitForVaultUnlocked, Go
  <2>7. ASSUME NEW id \in Ids, AwaitingVaultPersist(id) PROVE Goal
    <3>1. Append(id, "awaiting_vault") /\ "awaiting_vault" \in Statuses
      BY <2>7 DEF AwaitingVaultPersist, Statuses, NonTerminal, Terminal
    <3>2. /\ disk'[j] = disk[j] \/ (j = id /\ disk'[j] = "awaiting_vault")
          /\ data'[j] = data[j] \/ (j = id /\ data'[j] = "awaiting_vault")
          /\ lost'[j] = lost[j]
      BY <3>1, AppendEffect
    <3> QED BY <2>0, <2>7, <3>2 DEF AwaitingVaultPersist, Go
  <2>8. ASSUME NEW id \in Ids, VaultUnlocked(id) PROVE Goal
    BY <2>0, <2>8 DEF VaultUnlocked, Go
  <2>9. ASSUME NEW id \in Ids, SetRunning(id) PROVE Goal
    BY <2>0, <2>9 DEF SetRunning, Go
  <2>10. ASSUME NEW id \in Ids, RunningPersist(id) PROVE Goal
    <3>1. Append(id, "running") /\ "running" \in Statuses
      BY <2>10 DEF RunningPersist, Statuses, NonTerminal, Terminal
    <3>2. /\ disk'[j] = disk[j] \/ (j = id /\ disk'[j] = "running")
          /\ data'[j] = data[j] \/ (j = id /\ data'[j] = "running")
          /\ lost'[j] = lost[j] \/ j = id
      BY <3>1, AppendEffect
    <3> QED BY <2>0, <2>10, <3>2 DEF RunningPersist, Go
  <2>11. ASSUME NEW id \in Ids, Execute(id) PROVE Goal
    BY <2>0, <2>11 DEF Execute, Go
  <2>12. ASSUME NEW id \in Ids, NEW s \in {"completed", "failed"}, Finish(id, s) PROVE Goal
    BY <2>0, <2>12 DEF Finish, SetOutcome, Go
  <2>13. ASSUME NEW id \in Ids, FinishPersist(id) PROVE Goal
    <3>1. Append(id, status[id]) /\ status[id] \in Statuses
      BY <2>13 DEF FinishPersist, Statuses, NonTerminal, Terminal
    <3>2. /\ disk'[j] = disk[j] \/ (j = id /\ disk'[j] = status[id])
          /\ data'[j] = data[j] \/ (j = id /\ data'[j] = status[id])
          /\ lost'[j] = lost[j] \/ (j = id /\ status[id] = "running")
      BY <3>1, AppendEffect
    <3> QED BY <2>0, <2>13, <3>2 DEF FinishPersist, Go
  <2>14. ASSUME NEW id \in Ids, ResumeFlightPlan(id) PROVE Goal
    BY <2>0, <2>14 DEF ResumeFlightPlan
  <2>15. ASSUME NEW id \in Ids, FailMissingManifest(id) PROVE Goal
    <3>1. Append(id, "failed") /\ "failed" \in Statuses
      BY <2>15 DEF FailMissingManifest, Statuses, NonTerminal, Terminal
    <3>2. /\ disk'[j] = disk[j] \/ (j = id /\ disk'[j] = "failed")
          /\ data'[j] = data[j] \/ (j = id /\ data'[j] = "failed")
          /\ lost'[j] = lost[j]
      BY <3>1, AppendEffect
    <3> QED BY <2>0, <2>15, <3>2 DEF FailMissingManifest
  <2>16. ASSUME NEW id \in Ids, ReapRunning(id) PROVE Goal
    <3>1. Append(id, "failed") /\ "failed" \in Statuses
      BY <2>16 DEF ReapRunning, Statuses, NonTerminal, Terminal
    <3>2. /\ disk'[j] = disk[j] \/ (j = id /\ disk'[j] = "failed")
          /\ data'[j] = data[j] \/ (j = id /\ data'[j] = "failed")
          /\ lost'[j] = lost[j]
      BY <3>1, AppendEffect
    <3> QED BY <2>0, <2>16, <3>2 DEF ReapRunning
  <2>17. ASSUME UnlockLocalVault PROVE Goal
    BY <2>0, <2>17 DEF UnlockLocalVault
  <2>18. ASSUME Shutdown PROVE Goal
    BY <2>0, <2>18 DEF Shutdown
  <2>19. ASSUME CloseStore PROVE Goal
    BY <2>0, <2>19 DEF CloseStore
  <2>20. ASSUME Exit PROVE Goal
    BY <2>0, <2>20 DEF Exit, Halt, Everywhere
  <2>21. ASSUME Crash PROVE Goal
    BY <2>0, <2>21 DEF Crash, Halt, Everywhere
  <2>22. ASSUME LoadRecords PROVE Goal
    BY <2>0, <2>22 DEF LoadRecords, PrefilledDecision
  <2>23. ASSUME StartServing PROVE Goal
    BY <2>0, <2>23 DEF StartServing
  <2>24. ASSUME UNCHANGED vars PROVE Goal
    BY <2>0, <2>24 DEF vars
  <2> QED
    BY <2>1, <2>2, <2>3, <2>4, <2>5, <2>6, <2>7, <2>8, <2>9, <2>10, <2>11, <2>12, <2>13, <2>14, <2>15, <2>16, <2>17, <2>18, <2>19, <2>20, <2>21, <2>22, <2>23, <2>24
       DEF Next, Handler, Executor, Restart
<1> QED BY <1>1, <1>2, TypeCorrect, PTL DEF Spec

(* No executor, respawned executor or resumed plan ever runs what the user *)
(* has not approved.                                                       *)
THEOREM Consent == Spec => []RunsOnlyWhatWasApproved
<1>1. TypeOK /\ ConsentInv => RunsOnlyWhatWasApproved
  BY DEF TypeOK, ConsentInv, RunsOnlyWhatWasApproved
<1> QED BY <1>1, ConsentInvariant, TypeCorrect, PTL
-----------------------------------------------------------------------------
(* ActionInv holds throughout: an action entry that could still be         *)
(* executed is fresh, wherever a crash or a shutdown leaves it.            *)
LEMMA ActionInvariant == Spec => []ActionInv
<1>1. Init => ActionInv
  BY DEF Init, ActionInv, Lifecycle, Freshness, Fresh, Everywhere, VerdictUnderWay,
         Approved, Settling, Terminal, NonTerminal, Ids

<1>2. TypeOK /\ ActionInv /\ [Next]_vars => ActionInv'
  <2> SUFFICES ASSUME TypeOK, ActionInv, [Next]_vars, NEW j \in ActionIds
               PROVE  Lifecycle(j)' /\ Freshness(j)'
    BY DEF ActionInv
  <2>0. Lifecycle(j) /\ Freshness(j)
    BY DEF ActionInv
  <2>t. /\ j \in Ids /\ j \notin PlanIds /\ j \notin CommsIds
        /\ runs[j] \in Nat /\ lost[j] \in Nat
    BY IdsAssumption DEF Ids, TypeOK
  <2> USE DEF TypeOK, queue, actors, journal, history, bounds, Lifecycle, Freshness, Fresh,
              VerdictUnderWay, Approved, Settling, Terminal, NonTerminal
  <2>1. ASSUME NEW id \in Ids, Register(id) PROVE Lifecycle(j)' /\ Freshness(j)'
    <3>1. Lifecycle(j)'
      BY <2>0, <2>t, <2>1 DEF Register
    <3>2. Freshness(j)'
      BY <2>0, <2>t, <2>1 DEF Register
    <3> QED BY <3>1, <3>2
  <2>2. ASSUME NEW id \in Ids, RegisterPersist(id) PROVE Lifecycle(j)' /\ Freshness(j)'
    <3>1. Append(id, "pending_approval") /\ "pending_approval" \in Statuses
      BY <2>2 DEF RegisterPersist, Statuses
    <3>2. /\ disk'[j] = disk[j] \/ (j = id /\ disk'[j] = "pending_approval")
          /\ data'[j] = data[j] \/ (j = id /\ data'[j] = "pending_approval")
          /\ lost'[j] = lost[j] \/ (j = id /\ "pending_approval" = "running" /\ lost'[j] = lost[j] + 1)
          /\ (j = id /\ "pending_approval" = "running" /\ lost'[j] = lost[j]) =>
               disk'[j] = "running" /\ data'[j] = "running"
      BY <2>t, <3>1, AppendEffect
    <3>3. Lifecycle(j)'
      BY <2>0, <2>t, <2>2, <3>2 DEF RegisterPersist
    <3>4. Freshness(j)'
      BY <2>0, <2>t, <2>2, <3>2 DEF RegisterPersist
    <3> QED BY <3>3, <3>4
  <2>3. ASSUME NEW id \in Ids, NEW v \in {"approved_not_started", "denied"}, Decide(id, v) PROVE Lifecycle(j)' /\ Freshness(j)'
    <3>1. Lifecycle(j)'
      BY <2>0, <2>t, <2>3 DEF Decide
    <3>2. Freshness(j)'
      BY <2>0, <2>t, <2>3 DEF Decide
    <3> QED BY <3>1, <3>2
  <2>4. ASSUME NEW id \in Ids, DecidePersist(id) PROVE Lifecycle(j)' /\ Freshness(j)'
    <3>1. Append(id, dec[id]) /\ dec[id] \in Statuses
      BY <2>4 DEF DecidePersist, Statuses
    <3>2. /\ disk'[j] = disk[j] \/ (j = id /\ disk'[j] = dec[id])
          /\ data'[j] = data[j] \/ (j = id /\ data'[j] = dec[id])
          /\ lost'[j] = lost[j] \/ (j = id /\ dec[id] = "running" /\ lost'[j] = lost[j] + 1)
          /\ (j = id /\ dec[id] = "running" /\ lost'[j] = lost[j]) =>
               disk'[j] = "running" /\ data'[j] = "running"
      BY <2>t, <3>1, AppendEffect
    <3>3. Lifecycle(j)'
      BY <2>0, <2>t, <2>4, <3>2 DEF DecidePersist
    <3>4. Freshness(j)'
      BY <2>0, <2>t, <2>4, <3>2 DEF DecidePersist
    <3> QED BY <3>3, <3>4
  <2>5. ASSUME NEW id \in Ids, Wait(id) PROVE Lifecycle(j)' /\ Freshness(j)'
    <3>1. Lifecycle(j)'
      BY <2>0, <2>t, <2>5 DEF Wait, Go
    <3>2. Freshness(j)'
      BY <2>0, <2>t, <2>5 DEF Wait, Go
    <3> QED BY <3>1, <3>2
  <2>6. ASSUME NEW id \in Ids, WaitForVaultUnlocked(id) PROVE Lifecycle(j)' /\ Freshness(j)'
    <3>1. Lifecycle(j)'
      BY <2>0, <2>t, <2>6 DEF WaitForVaultUnlocked, Go
    <3>2. Freshness(j)'
      BY <2>0, <2>t, <2>6 DEF WaitForVaultUnlocked, Go
    <3> QED BY <3>1, <3>2
  <2>7. ASSUME NEW id \in Ids, AwaitingVaultPersist(id) PROVE Lifecycle(j)' /\ Freshness(j)'
    <3>1. Append(id, "awaiting_vault") /\ "awaiting_vault" \in Statuses
      BY <2>7 DEF AwaitingVaultPersist, Go, Statuses
    <3>2. /\ disk'[j] = disk[j] \/ (j = id /\ disk'[j] = "awaiting_vault")
          /\ data'[j] = data[j] \/ (j = id /\ data'[j] = "awaiting_vault")
          /\ lost'[j] = lost[j] \/ (j = id /\ "awaiting_vault" = "running" /\ lost'[j] = lost[j] + 1)
          /\ (j = id /\ "awaiting_vault" = "running" /\ lost'[j] = lost[j]) =>
               disk'[j] = "running" /\ data'[j] = "running"
      BY <2>t, <3>1, AppendEffect
    <3>3. Lifecycle(j)'
      BY <2>0, <2>t, <2>7, <3>2 DEF AwaitingVaultPersist, Go
    <3>4. Freshness(j)'
      BY <2>0, <2>t, <2>7, <3>2 DEF AwaitingVaultPersist, Go
    <3> QED BY <3>3, <3>4
  <2>8. ASSUME NEW id \in Ids, VaultUnlocked(id) PROVE Lifecycle(j)' /\ Freshness(j)'
    <3>1. Lifecycle(j)'
      BY <2>0, <2>t, <2>8 DEF VaultUnlocked, Go
    <3>2. Freshness(j)'
      BY <2>0, <2>t, <2>8 DEF VaultUnlocked, Go
    <3> QED BY <3>1, <3>2
  <2>9. ASSUME NEW id \in Ids, SetRunning(id) PROVE Lifecycle(j)' /\ Freshness(j)'
    <3>1. Lifecycle(j)'
      BY <2>0, <2>t, <2>9 DEF SetRunning, Go
    <3>2. Freshness(j)'
      BY <2>0, <2>t, <2>9 DEF SetRunning, Go
    <3> QED BY <3>1, <3>2
  <2>10. ASSUME NEW id \in Ids, RunningPersist(id) PROVE Lifecycle(j)' /\ Freshness(j)'
    <3>1. Append(id, "running") /\ "running" \in Statuses
      BY <2>10 DEF RunningPersist, Go, Statuses
    <3>2. /\ disk'[j] = disk[j] \/ (j = id /\ disk'[j] = "running")
          /\ data'[j] = data[j] \/ (j = id /\ data'[j] = "running")
          /\ lost'[j] = lost[j] \/ (j = id /\ "running" = "running" /\ lost'[j] = lost[j] + 1)
          /\ (j = id /\ "running" = "running" /\ lost'[j] = lost[j]) =>
               disk'[j] = "running" /\ data'[j] = "running"
      BY <2>t, <3>1, AppendEffect
    <3>3. Lifecycle(j)'
      BY <2>0, <2>t, <2>10, <3>2 DEF RunningPersist, Go
    <3>4. Freshness(j)'
      BY <2>0, <2>t, <2>10, <3>2 DEF RunningPersist, Go
    <3> QED BY <3>3, <3>4
  <2>11. ASSUME NEW id \in Ids, Execute(id) PROVE Lifecycle(j)' /\ Freshness(j)'
    <3>1. Lifecycle(j)'
      BY <2>0, <2>t, <2>11 DEF Execute, Go
    <3>2. Freshness(j)'
      BY <2>0, <2>t, <2>11 DEF Execute, Go
    <3> QED BY <3>1, <3>2
  <2>12. ASSUME NEW id \in Ids, NEW s \in {"completed", "failed"}, Finish(id, s) PROVE Lifecycle(j)' /\ Freshness(j)'
    <3>1. Lifecycle(j)'
      BY <2>0, <2>t, <2>12 DEF Finish, SetOutcome, Go
    <3>2. Freshness(j)'
      BY <2>0, <2>t, <2>12 DEF Finish, SetOutcome, Go
    <3> QED BY <3>1, <3>2
  <2>13. ASSUME NEW id \in Ids, FinishPersist(id) PROVE Lifecycle(j)' /\ Freshness(j)'
    <3>1. Append(id, status[id]) /\ status[id] \in Statuses
      BY <2>13 DEF FinishPersist, Go, Statuses
    <3>2. /\ disk'[j] = disk[j] \/ (j = id /\ disk'[j] = status[id])
          /\ data'[j] = data[j] \/ (j = id /\ data'[j] = status[id])
          /\ lost'[j] = lost[j] \/ (j = id /\ status[id] = "running" /\ lost'[j] = lost[j] + 1)
          /\ (j = id /\ status[id] = "running" /\ lost'[j] = lost[j]) =>
               disk'[j] = "running" /\ data'[j] = "running"
      BY <2>t, <3>1, AppendEffect
    <3>3. Lifecycle(j)'
      BY <2>0, <2>t, <2>13, <3>2 DEF FinishPersist, Go
    <3>4. Freshness(j)'
      BY <2>0, <2>t, <2>13, <3>2 DEF FinishPersist, Go
    <3> QED BY <3>3, <3>4
  <2>14. ASSUME NEW id \in Ids, ResumeFlightPlan(id) PROVE Lifecycle(j)' /\ Freshness(j)'
    <3>1. Lifecycle(j)'
      BY <2>0, <2>t, <2>14 DEF ResumeFlightPlan
    <3>2. Freshness(j)'
      BY <2>0, <2>t, <2>14 DEF ResumeFlightPlan
    <3> QED BY <3>1, <3>2
  <2>15. ASSUME NEW id \in Ids, FailMissingManifest(id) PROVE Lifecycle(j)' /\ Freshness(j)'
    <3>1. Append(id, "failed") /\ "failed" \in Statuses
      BY <2>15 DEF FailMissingManifest, Statuses
    <3>2. /\ disk'[j] = disk[j] \/ (j = id /\ disk'[j] = "failed")
          /\ data'[j] = data[j] \/ (j = id /\ data'[j] = "failed")
          /\ lost'[j] = lost[j] \/ (j = id /\ "failed" = "running" /\ lost'[j] = lost[j] + 1)
          /\ (j = id /\ "failed" = "running" /\ lost'[j] = lost[j]) =>
               disk'[j] = "running" /\ data'[j] = "running"
      BY <2>t, <3>1, AppendEffect
    <3>3. Lifecycle(j)'
      BY <2>0, <2>t, <2>15, <3>2 DEF FailMissingManifest
    <3>4. Freshness(j)'
      BY <2>0, <2>t, <2>15, <3>2 DEF FailMissingManifest
    <3> QED BY <3>3, <3>4
  <2>16. ASSUME NEW id \in Ids, ReapRunning(id) PROVE Lifecycle(j)' /\ Freshness(j)'
    <3>1. Append(id, "failed") /\ "failed" \in Statuses
      BY <2>16 DEF ReapRunning, Statuses
    <3>2. /\ disk'[j] = disk[j] \/ (j = id /\ disk'[j] = "failed")
          /\ data'[j] = data[j] \/ (j = id /\ data'[j] = "failed")
          /\ lost'[j] = lost[j] \/ (j = id /\ "failed" = "running" /\ lost'[j] = lost[j] + 1)
          /\ (j = id /\ "failed" = "running" /\ lost'[j] = lost[j]) =>
               disk'[j] = "running" /\ data'[j] = "running"
      BY <2>t, <3>1, AppendEffect
    <3>3. Lifecycle(j)'
      BY <2>0, <2>t, <2>16, <3>2 DEF ReapRunning
    <3>4. Freshness(j)'
      BY <2>0, <2>t, <2>16, <3>2 DEF ReapRunning
    <3> QED BY <3>3, <3>4
  <2>17. ASSUME UnlockLocalVault PROVE Lifecycle(j)' /\ Freshness(j)'
    <3>1. Lifecycle(j)'
      BY <2>0, <2>t, <2>17 DEF UnlockLocalVault
    <3>2. Freshness(j)'
      BY <2>0, <2>t, <2>17 DEF UnlockLocalVault
    <3> QED BY <3>1, <3>2
  <2>18. ASSUME Shutdown PROVE Lifecycle(j)' /\ Freshness(j)'
    <3>1. Lifecycle(j)'
      BY <2>0, <2>t, <2>18 DEF Shutdown
    <3>2. Freshness(j)'
      BY <2>0, <2>t, <2>18 DEF Shutdown
    <3> QED BY <3>1, <3>2
  <2>19. ASSUME CloseStore PROVE Lifecycle(j)' /\ Freshness(j)'
    <3>1. Lifecycle(j)'
      BY <2>0, <2>t, <2>19 DEF CloseStore
    <3>2. Freshness(j)'
      BY <2>0, <2>t, <2>19 DEF CloseStore
    <3> QED BY <3>1, <3>2
  <2>20. ASSUME Exit PROVE Lifecycle(j)' /\ Freshness(j)'
    <3>1. Lifecycle(j)'
      BY <2>0, <2>t, <2>20 DEF Exit, Halt, Everywhere
    <3>2. Freshness(j)'
      BY <2>0, <2>t, <2>20 DEF Exit, Halt, Everywhere
    <3> QED BY <3>1, <3>2
  <2>21. ASSUME Crash PROVE Lifecycle(j)' /\ Freshness(j)'
    <3>1. Lifecycle(j)'
      BY <2>0, <2>t, <2>21 DEF Crash, Halt, Everywhere
    <3>2. Freshness(j)'
      BY <2>0, <2>t, <2>21 DEF Crash, Halt, Everywhere
    <3> QED BY <3>1, <3>2
  <2>22. ASSUME LoadRecords PROVE Lifecycle(j)' /\ Freshness(j)'
    <3>1. Lifecycle(j)'
      BY <2>0, <2>t, <2>22 DEF LoadRecords, PrefilledDecision
    <3>2. Freshness(j)'
      BY <2>0, <2>t, <2>22 DEF LoadRecords, PrefilledDecision
    <3> QED BY <3>1, <3>2
  <2>23. ASSUME StartServing PROVE Lifecycle(j)' /\ Freshness(j)'
    <3>1. Lifecycle(j)'
      BY <2>0, <2>t, <2>23 DEF StartServing, Respawned
    <3>2. Freshness(j)'
      BY <2>0, <2>t, <2>23 DEF StartServing, Respawned
    <3> QED BY <3>1, <3>2
  <2>24. ASSUME UNCHANGED vars PROVE Lifecycle(j)' /\ Freshness(j)'
    <3>1. Lifecycle(j)'
      BY <2>0, <2>t, <2>24 DEF vars
    <3>2. Freshness(j)'
      BY <2>0, <2>t, <2>24 DEF vars
    <3> QED BY <3>1, <3>2
  <2> HIDE DEF Lifecycle, Freshness
  <2> QED
    BY <2>1, <2>2, <2>3, <2>4, <2>5, <2>6, <2>7, <2>8, <2>9, <2>10, <2>11, <2>12, <2>13, <2>14, <2>15, <2>16, <2>17, <2>18, <2>19, <2>20, <2>21, <2>22, <2>23, <2>24
       DEF Next, Handler, Executor, Restart
<1> QED BY <1>1, <1>2, TypeCorrect, PTL DEF Spec

(* Where a comms entry stands: it has one executor, the one its            *)
(* registration spawned, which dispatches once.                            *)
SentOnce(id) ==
  /\ runs[id] <= 1
  /\ reg[id] # "done" => exec[id] = "none" /\ runs[id] = 0
  /\ exec[id] \in {"wait", "armed"} => runs[id] = 0
  /\ exec[id] \in {"none", "wait", "armed", "executing", "finishing", "done"}
  /\ planRun[id] = "none"

(* An approved message, reply or request is dispatched at most once, for   *)
(* any number of entries, crashes, shutdowns and failed writes: the loop   *)
(* respawns no comms entry.                                                *)
THEOREM CommsOnce == Spec => []CommsSentOnce
<1> DEFINE Inv == \A id \in CommsIds : SentOnce(id)
<1>1. Init => Inv
  BY DEF Init, Everywhere, SentOnce, Ids
<1>2. TypeOK /\ Inv /\ [Next]_vars => Inv'
  <2> SUFFICES ASSUME TypeOK, Inv, [Next]_vars, NEW c \in CommsIds PROVE SentOnce(c)'
    OBVIOUS
  <2>t. /\ c \in Ids /\ c \notin PlanIds /\ SentOnce(c)
        /\ reg \in [Ids -> {"none", "appending", "done"}] /\ DOMAIN exec = Ids
        /\ runs \in [Ids -> Nat]
    BY IdsAssumption DEF Ids, TypeOK
  <2>1. CASE UNCHANGED vars
    BY <2>1, <2>t DEF vars, actors, history, SentOnce
  <2>2. ASSUME NEW id \in Ids, Register(id) \/ RegisterPersist(id) PROVE SentOnce(c)'
    <3>1. CASE Register(id)
      BY <2>t, <3>1 DEF Register, history, SentOnce
    <3>2. CASE RegisterPersist(id)
      <4>1. planRun'[c] = planRun[c] /\ runs' = runs
        BY <2>t, <3>2 DEF RegisterPersist, history, TypeOK
      <4>2. CASE id = c
        BY <2>t, <3>2, <4>1, <4>2 DEF RegisterPersist, SentOnce
      <4>3. CASE id # c
        BY <2>t, <3>2, <4>1, <4>3 DEF RegisterPersist, SentOnce
      <4> QED BY <4>2, <4>3
    <3> QED BY <2>2, <3>1, <3>2
  <2>3. ASSUME NEW id \in Ids, NEW v, Decide(id, v) \/ DecidePersist(id) PROVE SentOnce(c)'
    BY <2>3, <2>t DEF Decide, DecidePersist, history, SentOnce
  <2>4. ASSUME NEW id \in Ids, Executor(id) PROVE SentOnce(c)'
    <3>1. CASE id # c
      <4>1. exec'[c] = exec[c] /\ runs'[c] = runs[c] /\ reg' = reg /\ planRun' = planRun
        BY <2>4, <2>t, <3>1 DEF Executor, Wait, WaitForVaultUnlocked, AwaitingVaultPersist, VaultUnlocked, SetRunning,
             RunningPersist, Execute, Finish, SetOutcome, FinishPersist, Go, history
      <4> QED BY <2>t, <4>1 DEF SentOnce
    <3>2. CASE id = c
      <4>1. CASE Wait(c)
        BY <2>t, <4>1 DEF Wait, Go, history, SentOnce
      <4>2. CASE Execute(c)
        BY <2>t, <4>2 DEF Execute, Go, SentOnce
      <4>3. CASE \E s \in {"completed", "failed"} : Finish(c, s)
        BY <2>t, <4>3 DEF Finish, SetOutcome, Go, history, SentOnce
      <4>4. CASE FinishPersist(c)
        BY <2>t, <4>4 DEF FinishPersist, Go, history, SentOnce
      <4>5. ~(\/ WaitForVaultUnlocked(c) \/ AwaitingVaultPersist(c) \/ VaultUnlocked(c)
              \/ SetRunning(c) \/ RunningPersist(c))
        BY <2>t DEF WaitForVaultUnlocked, AwaitingVaultPersist, VaultUnlocked, SetRunning, RunningPersist, SentOnce
      <4> QED BY <2>4, <3>2, <4>1, <4>2, <4>3, <4>4, <4>5 DEF Executor
    <3> QED BY <3>1, <3>2
  <2>5. ASSUME NEW id \in Ids, ResumeFlightPlan(id) PROVE SentOnce(c)'
    <3>1. id # c
      BY <2>5, <2>t DEF ResumeFlightPlan, SentOnce
    <3> QED BY <2>5, <2>t, <3>1 DEF ResumeFlightPlan, TypeOK, SentOnce
  <2>6. ASSUME NEW id \in Ids, ReapRunning(id) \/ FailMissingManifest(id) PROVE SentOnce(c)'
    BY <2>6, <2>t DEF ReapRunning, FailMissingManifest, actors, history, SentOnce
  <2>7. CASE UnlockLocalVault \/ Shutdown \/ CloseStore \/ LoadRecords
    BY <2>7, <2>t DEF UnlockLocalVault, Shutdown, CloseStore, LoadRecords, actors, history, SentOnce
  <2>8. CASE Exit \/ Crash
    BY <2>8, <2>t DEF Exit, Crash, Halt, Everywhere, history, SentOnce
  <2>9. CASE StartServing
    BY <2>9, <2>t DEF StartServing, Respawned, history, SentOnce
  <2> QED
    BY <2>1, <2>2, <2>3, <2>4, <2>5, <2>6, <2>7, <2>8, <2>9 DEF Next, Handler, Restart
<1>3. Inv => CommsSentOnce
  BY DEF SentOnce, CommsSentOnce
<1> HIDE DEF Inv
<1> QED BY <1>1, <1>2, <1>3, TypeCorrect, PTL DEF Spec

(* An approved action entry is never stranded in a serving daemon. *)
THEOREM Driven == Spec => []ApprovedIsDriven
<1>1. ActionInv => ApprovedIsDriven
  BY DEF ActionInv, Lifecycle, ApprovedIsDriven, VerdictUnderWay
<1> QED BY <1>1, ActionInvariant, PTL

-----------------------------------------------------------------------------
(* JournalInv holds throughout: every record in the file or in the store's *)
(* map is accounted for by where the entry stands.                         *)
LEMMA JournalInvariant == Spec => []JournalInv
<1>1. Init => JournalInv
  BY DEF Init, JournalInv, JournalOf, Stand, Finality, Lag, Everywhere, Final, Ids
<1>2. TypeOK /\ JournalInv /\ [Next]_vars => JournalInv'
  <2> SUFFICES ASSUME TypeOK, JournalInv, [Next]_vars, NEW j \in Ids PROVE JournalOf(j)'
    BY DEF JournalInv
  <2>0. Stand(j) /\ Finality(j, disk) /\ Finality(j, data) /\ (disk[j] \in Final => data[j] = disk[j]) /\ Lag(j)
    BY DEF JournalInv, JournalOf
  <2>t. /\ DOMAIN status = Ids /\ DOMAIN decision = Ids /\ DOMAIN reg = Ids /\ DOMAIN dec = Ids /\ DOMAIN exec = Ids
        /\ DOMAIN disk = Ids /\ DOMAIN data = Ids
    BY DEF TypeOK
  <2>a. ASSUME NEW id \in Ids, NEW s \in Statuses, Append(id, s)
        PROVE  /\ \/ disk'[id] = s /\ data'[id] = s /\ (id \in dropped' <=> id \in dropped)
                  \/ disk'[id] = disk[id] /\ data'[id] \in {data[id], s} /\ id \in dropped'
               /\ j # id => disk'[j] = disk[j] /\ data'[j] = data[j] /\ (j \in dropped' <=> j \in dropped)
    <3>1. CASE AppendWritten(id, s)
      BY <2>t, <3>1 DEF AppendWritten
    <3>2. CASE AppendLost(id, s)
      <4>1. disk' = disk /\ dropped' = dropped \cup {id} /\ (data' = data \/ data' = [data EXCEPT ![id] = s])
        BY <3>2 DEF AppendLost
      <4> QED
        BY <2>t, <4>1
    <3> QED
      BY <2>a, <3>1, <3>2 DEF Append
  <2>1. ASSUME NEW id \in Ids, Register(id) PROVE JournalOf(j)'
    BY <2>0, <2>t, <2>1 DEF Register, Final, JournalOf, Stand, Finality, Lag, queue, actors, journal, history, bounds
  <2>2. ASSUME NEW id \in Ids, NEW v \in {"approved_not_started", "denied"}, Decide(id, v) PROVE JournalOf(j)'
    BY <2>0, <2>t, <2>2 DEF Decide, Final, JournalOf, Stand, Finality, Lag, queue, actors, journal, history, bounds
  <2>3. ASSUME NEW id \in Ids, Wait(id) PROVE JournalOf(j)'
    BY <2>0, <2>t, <2>3 DEF Wait, Go, JournalOf, Stand, Finality, Lag, queue, actors, journal, history, bounds
  <2>4. ASSUME NEW id \in Ids, WaitForVaultUnlocked(id) PROVE JournalOf(j)'
    BY <2>0, <2>t, <2>4 DEF WaitForVaultUnlocked, Go, Final, JournalOf, Stand, Finality, Lag, queue, actors, journal, history, bounds
  <2>5. ASSUME NEW id \in Ids, VaultUnlocked(id) PROVE JournalOf(j)'
    BY <2>0, <2>t, <2>5 DEF VaultUnlocked, Go, JournalOf, Stand, Finality, Lag, queue, actors, journal, history, bounds
  <2>6. ASSUME NEW id \in Ids, SetRunning(id) PROVE JournalOf(j)'
    BY <2>0, <2>t, <2>6 DEF SetRunning, Go, Final, Approved, JournalOf, Stand, Finality, Lag, queue, actors, journal, history, bounds
  <2>7. ASSUME NEW id \in Ids, Execute(id) PROVE JournalOf(j)'
    BY <2>0, <2>t, <2>7 DEF Execute, Go, JournalOf, Stand, Finality, Lag, queue, actors, journal, history, bounds
  <2>8. ASSUME NEW id \in Ids, NEW s \in {"completed", "failed"}, Finish(id, s) PROVE JournalOf(j)'
    BY <2>0, <2>t, <2>8 DEF Finish, SetOutcome, Go, Final, Terminal, JournalOf, Stand, Finality, Lag, queue, actors, journal, history, bounds
  <2>9. ASSUME NEW id \in Ids, ResumeFlightPlan(id) PROVE JournalOf(j)'
    BY <2>0, <2>t, <2>9 DEF ResumeFlightPlan, JournalOf, Stand, Finality, Lag, queue, actors, journal, history, bounds
  <2>10. ASSUME UnlockLocalVault PROVE JournalOf(j)'
    BY <2>0, <2>t, <2>10 DEF UnlockLocalVault, JournalOf, Stand, Finality, Lag, queue, actors, journal, history, bounds
  <2>11. ASSUME Shutdown PROVE JournalOf(j)'
    BY <2>0, <2>t, <2>11 DEF Shutdown, JournalOf, Stand, Finality, Lag, queue, actors, journal, history, bounds
  <2>12. ASSUME CloseStore PROVE JournalOf(j)'
    BY <2>0, <2>t, <2>12 DEF CloseStore, JournalOf, Stand, Finality, Lag, queue, actors, journal, history, bounds
  <2>13. ASSUME Exit PROVE JournalOf(j)'
    BY <2>0, <2>t, <2>13 DEF Exit, Halt, Everywhere, Final, JournalOf, Stand, Finality, Lag, queue, actors, journal, history, bounds
  <2>14. ASSUME Crash PROVE JournalOf(j)'
    BY <2>0, <2>t, <2>14 DEF Crash, Halt, Everywhere, Final, JournalOf, Stand, Finality, Lag, queue, actors, journal, history, bounds
  <2>15. ASSUME LoadRecords PROVE JournalOf(j)'
    BY <2>0, <2>t, <2>15 DEF LoadRecords, PrefilledDecision, Approved, Final, JournalOf, Stand, Finality, Lag, queue, actors, journal, history, bounds
  <2>16. ASSUME StartServing PROVE JournalOf(j)'
    <3>1. exec[j] = "none" /\ dec[j] = "idle" /\ daemon = "starting" /\ daemon' = "up"
      BY <2>0, <2>16 DEF StartServing, Stand
    <3>2. /\ exec'[j] = (IF Respawned(j) THEN "wait" ELSE "none")
          /\ UNCHANGED <<queue, reg, dec, journal>>
      BY <2>16 DEF StartServing
    <3>3. Respawned(j) => reg[j] = "done" /\ status[j] \notin Final
      BY <2>0, <2>16 DEF Stand, Respawned, NonTerminal, Approved, Final, TypeOK, StartServing
    <3>4. Stand(j)'
      BY <2>0, <3>1, <3>2, <3>3 DEF Stand, queue, journal
    <3>5. Finality(j, disk)' /\ Finality(j, data)' /\ (disk'[j] \in Final => data'[j] = disk'[j]) /\ Lag(j)'
      BY <2>0, <3>1, <3>2, <3>3 DEF Finality, Lag, queue, journal
    <3> QED
      BY <3>4, <3>5 DEF JournalOf
  <2>17. ASSUME UNCHANGED vars PROVE JournalOf(j)'
    BY <2>0, <2>t, <2>17 DEF vars, JournalOf, Stand, Finality, Lag, queue, actors, journal, history, bounds
  <2>18. ASSUME NEW id \in Ids, RegisterPersist(id) PROVE JournalOf(j)'
    <3>1. Append(id, "pending_approval") /\ "pending_approval" \in Statuses
      BY <2>18 DEF RegisterPersist, Statuses, NonTerminal, Approved, Terminal
    <3>2. /\ \/ disk'[id] = "pending_approval" /\ data'[id] = "pending_approval" /\ (id \in dropped' <=> id \in dropped)
             \/ disk'[id] = disk[id] /\ data'[id] \in {data[id], "pending_approval"} /\ id \in dropped'
          /\ j # id => disk'[j] = disk[j] /\ data'[j] = data[j] /\ (j \in dropped' <=> j \in dropped)
      BY <2>a, <3>1
    <3> QED
      BY <2>0, <2>t, <2>18, <3>2 DEF RegisterPersist, JournalOf, Stand, Finality, Lag, Final, Approved, NonTerminal, queue, actors, history, bounds
  <2>19. ASSUME NEW id \in Ids, DecidePersist(id) PROVE JournalOf(j)'
    <3>1. Append(id, dec[id]) /\ dec[id] \in Statuses
      BY <2>19 DEF DecidePersist, TypeOK, Statuses, NonTerminal, Approved, Terminal
    <3>2. /\ \/ disk'[id] = dec[id] /\ data'[id] = dec[id] /\ (id \in dropped' <=> id \in dropped)
             \/ disk'[id] = disk[id] /\ data'[id] \in {data[id], dec[id]} /\ id \in dropped'
          /\ j # id => disk'[j] = disk[j] /\ data'[j] = data[j] /\ (j \in dropped' <=> j \in dropped)
      BY <2>a, <3>1
    <3>3. dec[id] \in {"approved_not_started", "denied"} /\ status[id] = dec[id]
      BY <2>19 DEF DecidePersist, TypeOK, JournalInv, JournalOf, Stand
    <3> QED
      BY <2>0, <2>t, <2>19, <3>2, <3>3 DEF DecidePersist, JournalOf, Stand, Finality, Lag, Final, Approved, NonTerminal, queue, actors, history, bounds
  <2>20. ASSUME NEW id \in Ids, AwaitingVaultPersist(id) PROVE JournalOf(j)'
    <3>1. Append(id, "awaiting_vault") /\ "awaiting_vault" \in Statuses
      BY <2>20 DEF AwaitingVaultPersist, Statuses, NonTerminal, Approved, Terminal
    <3>2. /\ \/ disk'[id] = "awaiting_vault" /\ data'[id] = "awaiting_vault" /\ (id \in dropped' <=> id \in dropped)
             \/ disk'[id] = disk[id] /\ data'[id] \in {data[id], "awaiting_vault"} /\ id \in dropped'
          /\ j # id => disk'[j] = disk[j] /\ data'[j] = data[j] /\ (j \in dropped' <=> j \in dropped)
      BY <2>a, <3>1
    <3> QED
      BY <2>0, <2>t, <2>20, <3>2 DEF AwaitingVaultPersist, Go, JournalOf, Stand, Finality, Lag, Final, Approved, NonTerminal, queue, actors, history, bounds
  <2>21. ASSUME NEW id \in Ids, RunningPersist(id) PROVE JournalOf(j)'
    <3>1. Append(id, "running") /\ "running" \in Statuses
      BY <2>21 DEF RunningPersist, Statuses, NonTerminal, Approved, Terminal
    <3>2. /\ \/ disk'[id] = "running" /\ data'[id] = "running" /\ (id \in dropped' <=> id \in dropped)
             \/ disk'[id] = disk[id] /\ data'[id] \in {data[id], "running"} /\ id \in dropped'
          /\ j # id => disk'[j] = disk[j] /\ data'[j] = data[j] /\ (j \in dropped' <=> j \in dropped)
      BY <2>a, <3>1
    <3> QED
      BY <2>0, <2>t, <2>21, <3>2 DEF RunningPersist, Go, JournalOf, Stand, Finality, Lag, Final, Approved, NonTerminal, queue, actors, history, bounds
  <2>22. ASSUME NEW id \in Ids, FinishPersist(id) PROVE JournalOf(j)'
    <3>1. Append(id, status[id]) /\ status[id] \in Statuses
      BY <2>22 DEF FinishPersist, TypeOK, Statuses, NonTerminal, Approved, Terminal
    <3>2. /\ \/ disk'[id] = status[id] /\ data'[id] = status[id] /\ (id \in dropped' <=> id \in dropped)
             \/ disk'[id] = disk[id] /\ data'[id] \in {data[id], status[id]} /\ id \in dropped'
          /\ j # id => disk'[j] = disk[j] /\ data'[j] = data[j] /\ (j \in dropped' <=> j \in dropped)
      BY <2>a, <3>1
    <3> QED
      BY <2>0, <2>t, <2>22, <3>2 DEF FinishPersist, Go, JournalOf, Stand, Finality, Lag, Final, Approved, NonTerminal, queue, actors, history, bounds
  <2>23. ASSUME NEW id \in Ids, FailMissingManifest(id) PROVE JournalOf(j)'
    <3>1. Append(id, "failed") /\ "failed" \in Statuses
      BY <2>23 DEF FailMissingManifest, Statuses, NonTerminal, Approved, Terminal
    <3>2. /\ \/ disk'[id] = "failed" /\ data'[id] = "failed" /\ (id \in dropped' <=> id \in dropped)
             \/ disk'[id] = disk[id] /\ data'[id] \in {data[id], "failed"} /\ id \in dropped'
          /\ j # id => disk'[j] = disk[j] /\ data'[j] = data[j] /\ (j \in dropped' <=> j \in dropped)
      BY <2>a, <3>1
    <3> QED
      BY <2>0, <2>t, <2>23, <3>2 DEF FailMissingManifest, JournalOf, Stand, Finality, Lag, Final, Approved, NonTerminal, queue, actors, history, bounds
  <2>24. ASSUME NEW id \in Ids, ReapRunning(id) PROVE JournalOf(j)'
    <3>1. Append(id, "failed") /\ "failed" \in Statuses
      BY <2>24 DEF ReapRunning, Statuses, NonTerminal, Approved, Terminal
    <3>2. /\ \/ disk'[id] = "failed" /\ data'[id] = "failed" /\ (id \in dropped' <=> id \in dropped)
             \/ disk'[id] = disk[id] /\ data'[id] \in {data[id], "failed"} /\ id \in dropped'
          /\ j # id => disk'[j] = disk[j] /\ data'[j] = data[j] /\ (j \in dropped' <=> j \in dropped)
      BY <2>a, <3>1
    <3> QED
      BY <2>0, <2>t, <2>24, <3>2 DEF ReapRunning, JournalOf, Stand, Finality, Lag, Final, Approved, NonTerminal, queue, actors, history, bounds
  <2> QED
    BY <2>1, <2>2, <2>3, <2>4, <2>5, <2>6, <2>7, <2>8, <2>9, <2>10, <2>11, <2>12, <2>13, <2>14, <2>15, <2>16, <2>17, <2>18, <2>19, <2>20, <2>21, <2>22, <2>23, <2>24
       DEF Next, Handler, Executor, Restart
<1> QED BY <1>1, <1>2, TypeCorrect, PTL DEF Spec

(* Once every append is through and none was lost, the journal holds the   *)
(* entry's outcome, or its registration: what a restart would reload.      *)
THEOREM JournalLags == Spec => []JournalLagsOnlyByRegistration
<1>1. JournalInv => JournalLagsOnlyByRegistration
  BY DEF JournalInv, JournalOf, Lag, Quiet, JournalLagsOnlyByRegistration
<1> QED BY <1>1, JournalInvariant, PTL

(* The journal never takes back a completed or failed record, so no later  *)
(* start of the daemon asks for the action, or runs it, again.             *)
THEOREM FinalStays == Spec => FinalRecordStays
<1>1. JournalInv /\ TypeOK /\ [Next]_vars =>
        [\A id \in Ids : disk[id] \in {"completed", "failed"} => disk'[id] = disk[id]]_vars
  <2> SUFFICES ASSUME JournalInv, TypeOK, Next, NEW j \in Ids, disk[j] \in Final PROVE disk'[j] = disk[j]
    BY DEF Final
  <2>0. /\ reg[j] # "appending" /\ dec[j] = "idle" /\ exec[j] \in {"none", "done"} /\ data[j] = disk[j]
        /\ daemon = "down" \/ status[j] \in Final
    BY DEF JournalInv, JournalOf, Finality
  <2>a. ASSUME NEW id \in Ids, NEW s \in Statuses, Append(id, s), j # id PROVE disk'[j] = disk[j]
    BY <2>a, AppendEffect
  <2> USE DEF queue, actors, journal, history, bounds
  <2>1. ASSUME NEW id \in Ids, Register(id) PROVE disk'[j] = disk[j]
    BY <2>0, <2>1 DEF Register
  <2>2. ASSUME NEW id \in Ids, NEW v \in {"approved_not_started", "denied"}, Decide(id, v) PROVE disk'[j] = disk[j]
    BY <2>0, <2>2 DEF Decide
  <2>3. ASSUME NEW id \in Ids, Wait(id) PROVE disk'[j] = disk[j]
    BY <2>0, <2>3 DEF Wait
  <2>4. ASSUME NEW id \in Ids, WaitForVaultUnlocked(id) PROVE disk'[j] = disk[j]
    BY <2>0, <2>4 DEF WaitForVaultUnlocked
  <2>5. ASSUME NEW id \in Ids, VaultUnlocked(id) PROVE disk'[j] = disk[j]
    BY <2>0, <2>5 DEF VaultUnlocked
  <2>6. ASSUME NEW id \in Ids, SetRunning(id) PROVE disk'[j] = disk[j]
    BY <2>0, <2>6 DEF SetRunning
  <2>7. ASSUME NEW id \in Ids, Execute(id) PROVE disk'[j] = disk[j]
    BY <2>0, <2>7 DEF Execute
  <2>8. ASSUME NEW id \in Ids, NEW s \in {"completed", "failed"}, Finish(id, s) PROVE disk'[j] = disk[j]
    BY <2>0, <2>8 DEF Finish, SetOutcome
  <2>9. ASSUME NEW id \in Ids, ResumeFlightPlan(id) PROVE disk'[j] = disk[j]
    BY <2>0, <2>9 DEF ResumeFlightPlan
  <2>10. ASSUME UnlockLocalVault PROVE disk'[j] = disk[j]
    BY <2>0, <2>10 DEF UnlockLocalVault
  <2>11. ASSUME Shutdown PROVE disk'[j] = disk[j]
    BY <2>0, <2>11 DEF Shutdown
  <2>12. ASSUME CloseStore PROVE disk'[j] = disk[j]
    BY <2>0, <2>12 DEF CloseStore
  <2>13. ASSUME Exit PROVE disk'[j] = disk[j]
    BY <2>0, <2>13 DEF Exit, Halt
  <2>14. ASSUME Crash PROVE disk'[j] = disk[j]
    BY <2>0, <2>14 DEF Crash, Halt
  <2>15. ASSUME LoadRecords PROVE disk'[j] = disk[j]
    BY <2>0, <2>15 DEF LoadRecords
  <2>16. ASSUME StartServing PROVE disk'[j] = disk[j]
    BY <2>0, <2>16 DEF StartServing
  <2>17. ASSUME NEW id \in Ids, RegisterPersist(id) PROVE disk'[j] = disk[j]
    <3>1. Append(id, "pending_approval") /\ "pending_approval" \in Statuses
      BY <2>17 DEF RegisterPersist, Statuses, NonTerminal, Approved, Terminal
    <3>2. j # id
      BY <2>0, <2>17 DEF RegisterPersist, Final, NonTerminal, Approved
    <3> QED
      BY <2>a, <3>1, <3>2
  <2>18. ASSUME NEW id \in Ids, DecidePersist(id) PROVE disk'[j] = disk[j]
    <3>1. Append(id, dec[id]) /\ dec[id] \in Statuses
      BY <2>18 DEF DecidePersist, TypeOK, Statuses, NonTerminal, Approved, Terminal
    <3>2. j # id
      BY <2>0, <2>18 DEF DecidePersist, Final, NonTerminal, Approved
    <3> QED
      BY <2>a, <3>1, <3>2
  <2>19. ASSUME NEW id \in Ids, AwaitingVaultPersist(id) PROVE disk'[j] = disk[j]
    <3>1. Append(id, "awaiting_vault") /\ "awaiting_vault" \in Statuses
      BY <2>19 DEF AwaitingVaultPersist, Statuses, NonTerminal, Approved, Terminal
    <3>2. j # id
      BY <2>0, <2>19 DEF AwaitingVaultPersist, Final, NonTerminal, Approved
    <3> QED
      BY <2>a, <3>1, <3>2
  <2>20. ASSUME NEW id \in Ids, RunningPersist(id) PROVE disk'[j] = disk[j]
    <3>1. Append(id, "running") /\ "running" \in Statuses
      BY <2>20 DEF RunningPersist, Statuses, NonTerminal, Approved, Terminal
    <3>2. j # id
      BY <2>0, <2>20 DEF RunningPersist, Final, NonTerminal, Approved
    <3> QED
      BY <2>a, <3>1, <3>2
  <2>21. ASSUME NEW id \in Ids, FinishPersist(id) PROVE disk'[j] = disk[j]
    <3>1. Append(id, status[id]) /\ status[id] \in Statuses
      BY <2>21 DEF FinishPersist, TypeOK, Statuses, NonTerminal, Approved, Terminal
    <3>2. j # id
      BY <2>0, <2>21 DEF FinishPersist, Final, NonTerminal, Approved
    <3> QED
      BY <2>a, <3>1, <3>2
  <2>22. ASSUME NEW id \in Ids, FailMissingManifest(id) PROVE disk'[j] = disk[j]
    <3>1. Append(id, "failed") /\ "failed" \in Statuses
      BY <2>22 DEF FailMissingManifest, Statuses, NonTerminal, Approved, Terminal
    <3>2. j # id
      BY <2>0, <2>22 DEF FailMissingManifest, Final, NonTerminal, Approved
    <3> QED
      BY <2>a, <3>1, <3>2
  <2>23. ASSUME NEW id \in Ids, ReapRunning(id) PROVE disk'[j] = disk[j]
    <3>1. Append(id, "failed") /\ "failed" \in Statuses
      BY <2>23 DEF ReapRunning, Statuses, NonTerminal, Approved, Terminal
    <3>2. j # id
      BY <2>0, <2>23 DEF ReapRunning, Final, NonTerminal, Approved
    <3> QED
      BY <2>a, <3>1, <3>2
  <2> QED
    BY <2>1, <2>2, <2>3, <2>4, <2>5, <2>6, <2>7, <2>8, <2>9, <2>10, <2>11, <2>12, <2>13, <2>14, <2>15, <2>16, <2>17, <2>18, <2>19, <2>20, <2>21, <2>22, <2>23
       DEF Next, Handler, Executor, Restart
<1> QED BY <1>1, JournalInvariant, TypeCorrect, PTL DEF Spec, FinalRecordStays

-----------------------------------------------------------------------------
(* The refinement of SingleUsePermit.  What a step can do to the three     *)
(* variables the mapping reads, for action entries.                        *)
SameRuns == \A j \in ActionIds : runs'[j] = runs[j]
SameLost == \A j \in ActionIds : lost'[j] = lost[j]

Mine == approved \cap ActionIds

Unseen == Mine' = Mine /\ SameRuns /\ SameLost

Approves(id) ==
  /\ id \notin approved
  /\ Mine' = Mine \cup {id}
  /\ SameRuns /\ SameLost

LosesRecord(id) ==
  /\ id \in approved
  /\ Mine' = Mine
  /\ SameRuns
  /\ lost'[id] = lost[id] + 1
  /\ \A j \in ActionIds \ {id} : lost'[j] = lost[j]

Enters(id) ==
  /\ id \in approved
  /\ runs[id] <= lost[id]
  /\ Mine' = Mine
  /\ runs'[id] = runs[id] + 1
  /\ \A j \in ActionIds \ {id} : runs'[j] = runs[j]
  /\ SameLost


(* The approval queue, its journal and its executors implement the single- *)
(* use permit for every action entry, through any crashes, shutdowns and   *)
(* failed writes, and hand a spent approval out again only when a running  *)
(* record was lost.                                                        *)
THEOREM Refinement == Spec => ApprovalIsSingleUse
<1>1. Init => Permit!Init
  BY DEF Init, Permit!Init, Everywhere, Ids
(* Only a decision approves, only the append of a running record can lose  *)
(* one, only Execute enters an action entry, and it finds the entry        *)
(* approved and fresh; every other step leaves all three variables.        *)
<1>2. TypeOK /\ ConsentInv /\ ActionInv /\ [Next]_vars =>
        Unseen \/ \E id \in ActionIds : Approves(id) \/ LosesRecord(id) \/ Enters(id)
  <2> DEFINE Goal == Unseen \/ \E id \in ActionIds : Approves(id) \/ LosesRecord(id) \/ Enters(id)
  <2> SUFFICES ASSUME TypeOK, ConsentInv, ActionInv, [Next]_vars PROVE Goal
    OBVIOUS
  <2>a. ASSUME NEW id \in Ids, NEW s \in Statuses, Append(id, s), s # "running" PROVE SameLost
    BY <2>a, AppendEffect DEF SameLost, Ids
  <2>b. ActionIds \subseteq Ids
    BY DEF Ids
  <2> USE DEF queue, actors, journal, history, bounds
  <2>1. ASSUME NEW id \in Ids, Register(id) PROVE Goal
    BY <2>1 DEF Register, Unseen, Mine, SameRuns, SameLost
  <2>2. ASSUME NEW id \in Ids, RegisterPersist(id) PROVE Goal
    <3>1. SameLost
      BY <2>2, <2>a DEF RegisterPersist, Statuses, NonTerminal, Terminal
    <3> QED BY <2>2, <3>1 DEF RegisterPersist, Unseen, Mine, SameRuns
  <2>3. ASSUME NEW id \in Ids, NEW v \in {"approved_not_started", "denied"}, Decide(id, v) PROVE Goal
    <3>1. SameRuns /\ SameLost
      BY <2>3 DEF Decide, SameRuns, SameLost
    <3>2. approved' = approved \/ approved' = approved \cup {id}
      BY <2>3 DEF Decide
    <3>3. CASE id \in ActionIds
      BY <3>1, <3>2, <3>3 DEF Unseen, Approves, Mine
    <3>4. CASE id \notin ActionIds
      BY <3>1, <3>2, <3>4 DEF Unseen, Approves, Mine
    <3> QED BY <3>3, <3>4
  <2>4. ASSUME NEW id \in Ids, DecidePersist(id) PROVE Goal
    <3>1. Append(id, dec[id]) /\ dec[id] \in Statuses /\ dec[id] # "running"
      BY <2>4 DEF DecidePersist, TypeOK, Statuses, NonTerminal, Terminal, Approved
    <3>2. SameLost
      BY <3>1, <2>a
    <3> QED BY <2>4, <3>2 DEF DecidePersist, Unseen, Mine, SameRuns
  <2>5. ASSUME NEW id \in Ids, Wait(id) PROVE Goal
    BY <2>5 DEF Wait, Unseen, Mine, SameRuns, SameLost
  <2>6. ASSUME NEW id \in Ids, WaitForVaultUnlocked(id) PROVE Goal
    BY <2>6 DEF WaitForVaultUnlocked, Unseen, Mine, SameRuns, SameLost
  <2>7. ASSUME NEW id \in Ids, AwaitingVaultPersist(id) PROVE Goal
    <3>1. Append(id, "awaiting_vault") /\ "awaiting_vault" \in Statuses /\ "awaiting_vault" # "running"
      BY <2>7 DEF AwaitingVaultPersist, TypeOK, Statuses, NonTerminal, Terminal, Approved
    <3>2. SameLost
      BY <3>1, <2>a
    <3> QED BY <2>7, <3>2 DEF AwaitingVaultPersist, Unseen, Mine, SameRuns
  <2>8. ASSUME NEW id \in Ids, VaultUnlocked(id) PROVE Goal
    BY <2>8 DEF VaultUnlocked, Unseen, Mine, SameRuns, SameLost
  <2>9. ASSUME NEW id \in Ids, SetRunning(id) PROVE Goal
    BY <2>9 DEF SetRunning, Unseen, Mine, SameRuns, SameLost
  <2>10. ASSUME NEW id \in Ids, RunningPersist(id) PROVE Goal
    <3>1. Append(id, "running") /\ "running" \in Statuses
      BY <2>10 DEF RunningPersist, Statuses, NonTerminal, Terminal
    <3>2. \A j \in ActionIds : \/ lost'[j] = lost[j]
                               \/ j = id /\ lost'[j] = lost[j] + 1
      BY <3>1, <2>b, AppendEffect
    <3>3. Mine' = Mine /\ SameRuns
      BY <2>10 DEF RunningPersist, Mine, SameRuns
    <3>4. id \in approved
      BY <2>10 DEF RunningPersist, ConsentInv
    <3> QED BY <3>2, <3>3, <3>4 DEF Unseen, SameLost, LosesRecord
  <2>11. ASSUME NEW id \in Ids, Execute(id) PROVE Goal
    <3>1. Mine' = Mine /\ SameLost /\ runs' = [runs EXCEPT ![id] = @ + 1] /\ runs \in [Ids -> Nat]
      BY <2>11 DEF Execute, Mine, SameLost, TypeOK
    <3>2. CASE id \in ActionIds
      <4>1. id \in approved
        BY <2>11 DEF Execute, ConsentInv
      <4>2. runs[id] <= lost[id]
        BY <2>11, <3>2 DEF Execute, ActionInv, Freshness, Fresh
      <4> QED BY <3>1, <3>2, <4>1, <4>2, <2>b DEF Enters
    <3>3. CASE id \notin ActionIds
      BY <3>1, <3>3, <2>b DEF Unseen, SameRuns
    <3> QED BY <3>2, <3>3
  <2>12. ASSUME NEW id \in Ids, NEW s \in {"completed", "failed"}, Finish(id, s) PROVE Goal
    BY <2>12 DEF Finish, Unseen, Mine, SameRuns, SameLost
  <2>13. ASSUME NEW id \in Ids, FinishPersist(id) PROVE Goal
    <3>1. Append(id, status[id]) /\ status[id] \in Statuses
      BY <2>13 DEF FinishPersist, TypeOK
    <3>2. id \in ActionIds => status[id] # "running"
      BY <2>13 DEF FinishPersist, ActionInv, Lifecycle, Terminal
    <3>3. SameLost
      BY <3>1, <3>2, <2>b, AppendEffect DEF SameLost
    <3> QED BY <2>13, <3>3 DEF FinishPersist, Unseen, Mine, SameRuns
  <2>14. ASSUME NEW id \in Ids, ResumeFlightPlan(id) PROVE Goal
    <3>1. id \notin ActionIds
      BY <2>14 DEF ResumeFlightPlan, ActionInv, Lifecycle
    <3> QED BY <2>14, <3>1, <2>b DEF ResumeFlightPlan, Unseen, Mine, SameRuns, SameLost, TypeOK
  <2>15. ASSUME NEW id \in Ids, FailMissingManifest(id) PROVE Goal
    <3>1. Append(id, "failed") /\ "failed" \in Statuses /\ "failed" # "running"
      BY <2>15 DEF FailMissingManifest, TypeOK, Statuses, NonTerminal, Terminal, Approved
    <3>2. SameLost
      BY <3>1, <2>a
    <3> QED BY <2>15, <3>2 DEF FailMissingManifest, Unseen, Mine, SameRuns
  <2>16. ASSUME NEW id \in Ids, ReapRunning(id) PROVE Goal
    <3>1. Append(id, "failed") /\ "failed" \in Statuses /\ "failed" # "running"
      BY <2>16 DEF ReapRunning, TypeOK, Statuses, NonTerminal, Terminal, Approved
    <3>2. SameLost
      BY <3>1, <2>a
    <3> QED BY <2>16, <3>2 DEF ReapRunning, Unseen, Mine, SameRuns
  <2>17. ASSUME UnlockLocalVault PROVE Goal
    BY <2>17 DEF UnlockLocalVault, Unseen, Mine, SameRuns, SameLost
  <2>18. ASSUME Shutdown PROVE Goal
    BY <2>18 DEF Shutdown, Unseen, Mine, SameRuns, SameLost
  <2>19. ASSUME CloseStore PROVE Goal
    BY <2>19 DEF CloseStore, Unseen, Mine, SameRuns, SameLost
  <2>20. ASSUME Exit PROVE Goal
    BY <2>20 DEF Exit, Halt, Unseen, Mine, SameRuns, SameLost
  <2>21. ASSUME Crash PROVE Goal
    BY <2>21 DEF Crash, Halt, Unseen, Mine, SameRuns, SameLost
  <2>22. ASSUME LoadRecords PROVE Goal
    BY <2>22 DEF LoadRecords, Unseen, Mine, SameRuns, SameLost
  <2>23. ASSUME StartServing PROVE Goal
    BY <2>23 DEF StartServing, Unseen, Mine, SameRuns, SameLost
  <2>24. ASSUME UNCHANGED vars PROVE Goal
    BY <2>24 DEF vars, Unseen, Mine, SameRuns, SameLost
  <2> QED
    BY <2>1, <2>2, <2>3, <2>4, <2>5, <2>6, <2>7, <2>8, <2>9, <2>10, <2>11, <2>12,
       <2>13, <2>14, <2>15, <2>16, <2>17, <2>18, <2>19, <2>20, <2>21, <2>22, <2>23, <2>24
       DEF Next, Handler, Executor, Restart
<1>3. TypeOK /\ ConsentInv /\ ActionInv /\ [Next]_vars => [Permit!Next]_(Permit!pvars)
  <2> SUFFICES ASSUME TypeOK, ConsentInv, ActionInv, [Next]_vars
               PROVE  Permit!Next \/ UNCHANGED Permit!pvars
    OBVIOUS
  <2>t. /\ runs \in [Ids -> Nat] /\ lost \in [Ids -> Nat]
        /\ ActionIds \subseteq Ids
    BY DEF TypeOK, Ids
  <2>1. CASE Unseen
    BY <2>1 DEF Unseen, Mine, SameRuns, SameLost, Permit!pvars
  <2> DEFINE Spare(j) == IF j \in approved THEN 1 + lost[j] - runs[j] ELSE 0
  <2>2. ASSUME NEW id \in ActionIds, Approves(id) PROVE Permit!Issue(id)
    <3>1. runs[id] = 0 /\ lost[id] = 0
      BY <2>2, <2>t DEF Approves, ConsentInv
    <3>2. \A j \in ActionIds : Spare(j)' = IF j = id THEN 1 ELSE Spare(j)
      BY <2>2, <2>t, <3>1 DEF Approves, Mine, SameRuns, SameLost
    <3>3. [j \in ActionIds |-> runs[j]]' = [j \in ActionIds |-> runs[j]]
      BY <2>2 DEF Approves, SameRuns
    <3> HIDE DEF Spare
    <3>4. [j \in ActionIds |-> Spare(j)]' = [[j \in ActionIds |-> Spare(j)] EXCEPT ![id] = 1]
      BY <3>2
    <3> QED BY <2>2, <3>3, <3>4 DEF Spare, Approves, Mine, Permit!Issue
  <2>3. ASSUME NEW id \in ActionIds, LosesRecord(id) PROVE Permit!Reissue(id)
    <3>2. \A j \in ActionIds : Spare(j)' = IF j = id THEN Spare(j) + 1 ELSE Spare(j)
      BY <2>3, <2>t DEF LosesRecord, Mine, SameRuns
    <3>3. [j \in ActionIds |-> runs[j]]' = [j \in ActionIds |-> runs[j]]
      BY <2>3 DEF LosesRecord, SameRuns
    <3> HIDE DEF Spare
    <3>4. [j \in ActionIds |-> Spare(j)]' = [[j \in ActionIds |-> Spare(j)] EXCEPT ![id] = @ + 1]
      BY <3>2
    <3> QED BY <2>3, <3>3, <3>4 DEF Spare, LosesRecord, Mine, Permit!Reissue
  <2>4. ASSUME NEW id \in ActionIds, Enters(id) PROVE Permit!Use(id)
    <3>2. \A j \in ActionIds : Spare(j)' = IF j = id THEN Spare(j) - 1 ELSE Spare(j)
      BY <2>4, <2>t DEF Enters, Mine, SameLost
    <3>3. [j \in ActionIds |-> runs[j]]' = [[j \in ActionIds |-> runs[j]] EXCEPT ![id] = @ + 1]
      BY <2>4 DEF Enters
    <3>5. Spare(id) > 0
      BY <2>4, <2>t DEF Enters
    <3> HIDE DEF Spare
    <3>4. [j \in ActionIds |-> Spare(j)]' = [[j \in ActionIds |-> Spare(j)] EXCEPT ![id] = @ - 1]
      BY <3>2
    <3> QED BY <2>4, <3>3, <3>4, <3>5 DEF Spare, Enters, Mine, Permit!Use
  <2> QED BY <2>1, <2>2, <2>3, <2>4, <1>2 DEF Permit!Next
<1> QED
  BY <1>1, <1>3, TypeCorrect, ConsentInvariant, ActionInvariant, PTL
     DEF Spec, ApprovalIsSingleUse, Permit!Spec
=============================================================================
