------------------------ MODULE DaemonSingletonProofs ------------------------
(***************************************************************************)
(* Proofs about DaemonSingleton, for every set of daemons and clients and  *)
(* every number of removals, kills and signals.                            *)
(***************************************************************************)
EXTENDS DaemonSingleton, TLAPS

-----------------------------------------------------------------------------
(* The inductive invariant.  Mutual exclusion is about inodes: a process   *)
(* past its flock is the holder of the inode it has open.  Until the state *)
(* directory is removed every process has the same inode open, and that    *)
(* makes the lock exclusive.                                               *)

DaemonHolds == {"stat", "setup", "serving", "removing", "releasing"}
ClientHolds == {"recheck", "spawn", "release"}

LockHeld ==
  /\ \A d \in Daemons : dpc[d] \in {"lock"} \cup DaemonHolds => fd[d] # 0
  /\ \A d \in Daemons : dpc[d] \in DaemonHolds => holder[fd[d]] = d
  /\ \A c \in Clients : cpc[c] \in {"lock"} \cup ClientHolds => fd[c] # 0
  /\ \A c \in Clients : cpc[c] \in ClientHolds => holder[fd[c]] = c

(* Every removal makes room for one more inode. *)
InodesCounted == created = removals + (IF path = 0 THEN 0 ELSE 1)

OneInode == removals = 0 => \A p \in Procs : fd[p] \in {0, path}

DaemonInv ==
  TypeOK /\ LockHeld /\ InodesCounted /\ OneInode /\ OwnerIsAdvertisedUndisturbed

(* What a client alone relies on.  Whoever holds a lock is between its     *)
(* flock and its release, so nobody keeps a lock while it waits; a daemon  *)
(* recorded the inode that the path still names; and the only daemon is    *)
(* the client's child, which nothing makes exit.                           *)
HeldInUse ==
  \A i \in Inodes :
    \/ holder[i] = Nobody
    \/ holder[i] \in Daemons /\ dpc[holder[i]] \in DaemonHolds /\ fd[holder[i]] = i
    \/ holder[i] \in Clients /\ cpc[holder[i]] \in ClientHolds /\ fd[holder[i]] = i

InodeRecorded ==
  removals = 0 => \A d \in Daemons : dpc[d] \in {"setup", "serving"} => orig[d] = path

Undisturbed == removals = 0 /\ kills = 0 /\ signals = 0

Alone(c) == \A b \in Clients : b # c => cpc[b] = "start"

OnlyChild(c) ==
  /\ cpc[c] \notin {"error_lock", "error_exit"}
  /\ \A d \in Daemons : dpc[d] \in {"unborn", "start", "lock", "stat", "setup", "serving"}
  /\ \A d \in Daemons : dpc[d] # "unborn" => child[c] = d
  /\ cpc[c] \in {"start", "open", "lock", "recheck", "spawn"} => \A d \in Daemons : dpc[d] = "unborn"
  /\ cpc[c] \in {"release", "wait"} => child[c] \in Daemons

LoneInv ==
  /\ HeldInUse
  /\ InodeRecorded
  /\ Undisturbed => \A c \in Clients : Alone(c) => OnlyChild(c)

-----------------------------------------------------------------------------
(* Opening the lock file: what it does to the inodes. *)
LEMMA OpenEffect ==
  ASSUME DaemonInv, NEW p \in Procs, OpenLock(p), UNCHANGED removals
  PROVE  /\ path' \in Inodes /\ created' \in Inodes
         /\ fd' = [fd EXCEPT ![p] = path']
         /\ fd'[p] # 0
         /\ fd' \in [Procs -> Inodes \cup {0}]
         /\ holder' = holder
         /\ InodesCounted'
         /\ OneInode'
<1>1. created + 1 \in Inodes \/ path # 0
  BY BoundsAssumption DEF DaemonInv, TypeOK, InodesCounted, Inodes
<1>2. path' \in Inodes /\ created' \in Inodes /\ InodesCounted'
  <2>1. CASE path = 0
    BY <1>1, <2>1, BoundsAssumption DEF OpenLock, DaemonInv, TypeOK, InodesCounted, Inodes
  <2>2. CASE path # 0
    <3>1. created # 0
      BY <2>2, BoundsAssumption DEF DaemonInv, TypeOK, InodesCounted
    <3> QED BY <2>2, <3>1, BoundsAssumption DEF OpenLock, DaemonInv, TypeOK, InodesCounted, Inodes
  <2> QED BY <2>1, <2>2
<1>3. fd' = [fd EXCEPT ![p] = path'] /\ holder' = holder
  BY DEF OpenLock
<1>4. path' # 0
  BY <1>2 DEF Inodes
<1>5. fd' \in [Procs -> Inodes \cup {0}] /\ fd'[p] # 0
  BY <1>2, <1>3, <1>4 DEF DaemonInv, TypeOK
<1>6. OneInode'
  <2> SUFFICES ASSUME removals = 0, NEW q \in Procs PROVE fd'[q] \in {0, path'}
    BY DEF OneInode
  <2>1. fd[q] \in {0, path}
    BY DEF DaemonInv, OneInode
  <2>2. path = 0 \/ path' = path
    BY DEF OpenLock
  <2> QED BY <1>3, <2>1, <2>2 DEF DaemonInv, TypeOK
<1> QED BY <1>2, <1>3, <1>5, <1>6


-----------------------------------------------------------------------------
(* The invariant holds of every reachable state. *)
LEMMA DaemonInvAlways == Spec => []DaemonInv
<1>1. Init => DaemonInv
  <2> SUFFICES ASSUME Init PROVE DaemonInv
    OBVIOUS
  <2>1. 0 \in 0..MaxRemovals /\ 0 \in 0..MaxKills /\ 0 \in 0..MaxSignals
    BY BoundsAssumption
  <2>2. TypeOK
    BY <2>1 DEF Init, TypeOK, Ended
  <2>3. LockHeld /\ OneInode /\ OwnerIsAdvertisedUndisturbed
    BY DEF Init, LockHeld, OneInode, OwnerIsAdvertisedUndisturbed, DaemonHolds, ClientHolds, Procs
  <2>4. InodesCounted
    BY DEF Init, InodesCounted
  <2> QED BY <2>2, <2>3, <2>4 DEF DaemonInv
(* Every step of a daemon, a client or the environment keeps it. *)
<1>2. DaemonInv /\ [Next]_vars => DaemonInv'
  <2> SUFFICES ASSUME DaemonInv, [Next]_vars PROVE DaemonInv'
    OBVIOUS
  <2> USE ProcsAssumption
  <2>i. ASSUME UNCHANGED <<fd, path, created, removals>> PROVE InodesCounted' /\ OneInode'
    BY <2>i DEF DaemonInv, InodesCounted, OneInode
  <2>u. CASE UNCHANGED vars
    BY <2>u DEF vars, locks, faults, DaemonInv, TypeOK, LockHeld, InodesCounted, OneInode, OwnerIsAdvertisedUndisturbed
  <2>n. CASE Next
  <3>0. removals' \in 0..MaxRemovals /\ kills' \in 0..MaxKills /\ signals' \in 0..MaxSignals
    <4>1. /\ removals' = removals \/ (removals < MaxRemovals /\ removals' = removals + 1)
          /\ kills' = kills \/ (kills < MaxKills /\ kills' = kills + 1)
          /\ signals' = signals \/ (signals < MaxSignals /\ signals' = signals + 1)
      BY <2>n DEF Next, DaemonStep, ClientStep, DaemonOpen, DaemonLock, DaemonLockTimeout, DaemonStat,
             DaemonSetupFails, DaemonPublish, DaemonSignal, DaemonServeFails, DaemonWatch,
             DaemonRemove, DaemonRelease, DaemonKilled, RemoveStateDir, FastPath, ClientOpen,
             ClientLock, ClientLockTimeout, Recheck, Spawn, SpawnFails, ReleaseBeforeWait,
             WaitForDaemon, faults
    <4>2. removals \in 0..MaxRemovals /\ kills \in 0..MaxKills /\ signals \in 0..MaxSignals
      BY DEF DaemonInv, TypeOK
    <4> QED BY <4>1, <4>2, BoundsAssumption
  <3>1. ASSUME NEW d \in Daemons, DaemonOpen(d)
       PROVE  DaemonInv'
    <4>1. d \in Procs /\ OpenLock(d) /\ UNCHANGED removals
      BY <3>1 DEF DaemonOpen, faults, Procs
    <4>2. /\ path' \in Inodes /\ created' \in Inodes
          /\ fd' = [fd EXCEPT ![d] = path'] /\ fd'[d] # 0
          /\ fd' \in [Procs -> Inodes \cup {0}] /\ holder' = holder
          /\ InodesCounted' /\ OneInode'
      BY <4>1, OpenEffect
    <4>3. TypeOK'
      BY <3>1, <4>1, <4>2, <3>0 DEF DaemonOpen, DaemonInv, TypeOK, locks, faults, Release, Flock, Procs, Ended, Daemon, Client
    <4>4. LockHeld'
      BY <3>1, <4>1, <4>2 DEF DaemonOpen, DaemonInv, TypeOK, LockHeld, DaemonHolds, ClientHolds, locks, Release, Flock, Procs, Daemon, Client
    <4>5. OwnerIsAdvertisedUndisturbed'
      BY <3>1, <4>1, <4>2 DEF DaemonOpen, DaemonInv, TypeOK, LockHeld, DaemonHolds, OneInode, OwnerIsAdvertisedUndisturbed, locks, faults, Procs, Daemon, Client
    <4> QED BY <4>2, <4>3, <4>4, <4>5 DEF DaemonInv
  <3>2. ASSUME NEW d \in Daemons, DaemonLock(d)
       PROVE  DaemonInv'
    <4>1. UNCHANGED <<fd, path, created, removals>>
      BY <3>2 DEF DaemonLock, locks, faults, Release, Flock
    <4>2. InodesCounted' /\ OneInode'
      BY <4>1, <2>i
    <4>3. TypeOK'
      BY <3>2, <4>1, <3>0 DEF DaemonLock, DaemonInv, TypeOK, locks, faults, Release, Flock, Procs, Ended, Daemon, Client
    <4>4. LockHeld'
      BY <3>2, <4>1 DEF DaemonLock, DaemonInv, TypeOK, LockHeld, DaemonHolds, ClientHolds, locks, Release, Flock, Procs, Daemon, Client
    <4>5. OwnerIsAdvertisedUndisturbed'
      BY <3>2, <4>1 DEF DaemonLock, DaemonInv, TypeOK, LockHeld, DaemonHolds, OneInode, OwnerIsAdvertisedUndisturbed, locks, faults, Procs, Daemon, Client
    <4> QED BY <4>2, <4>3, <4>4, <4>5 DEF DaemonInv
  <3>3. ASSUME NEW d \in Daemons, DaemonLockTimeout(d)
       PROVE  DaemonInv'
    <4>1. UNCHANGED <<fd, path, created, removals>>
      BY <3>3 DEF DaemonLockTimeout, locks, faults, Release, Flock
    <4>2. InodesCounted' /\ OneInode'
      BY <4>1, <2>i
    <4>3. TypeOK'
      BY <3>3, <4>1, <3>0 DEF DaemonLockTimeout, DaemonInv, TypeOK, locks, faults, Release, Flock, Procs, Ended, Daemon, Client
    <4>4. LockHeld'
      BY <3>3, <4>1 DEF DaemonLockTimeout, DaemonInv, TypeOK, LockHeld, DaemonHolds, ClientHolds, locks, Release, Flock, Procs, Daemon, Client
    <4>5. OwnerIsAdvertisedUndisturbed'
      BY <3>3, <4>1 DEF DaemonLockTimeout, DaemonInv, TypeOK, LockHeld, DaemonHolds, OneInode, OwnerIsAdvertisedUndisturbed, locks, faults, Procs, Daemon, Client
    <4> QED BY <4>2, <4>3, <4>4, <4>5 DEF DaemonInv
  <3>4. ASSUME NEW d \in Daemons, DaemonStat(d)
       PROVE  DaemonInv'
    <4>1. UNCHANGED <<fd, path, created, removals>>
      BY <3>4 DEF DaemonStat, locks, faults, Release, Flock
    <4>2. InodesCounted' /\ OneInode'
      BY <4>1, <2>i
    <4>3. TypeOK'
      BY <3>4, <4>1, <3>0 DEF DaemonStat, DaemonInv, TypeOK, locks, faults, Release, Flock, Procs, Ended, Daemon, Client
    <4>4. LockHeld'
      BY <3>4, <4>1 DEF DaemonStat, DaemonInv, TypeOK, LockHeld, DaemonHolds, ClientHolds, locks, Release, Flock, Procs, Daemon, Client
    <4>5. OwnerIsAdvertisedUndisturbed'
      BY <3>4, <4>1 DEF DaemonStat, DaemonInv, TypeOK, LockHeld, DaemonHolds, OneInode, OwnerIsAdvertisedUndisturbed, locks, faults, Procs, Daemon, Client
    <4> QED BY <4>2, <4>3, <4>4, <4>5 DEF DaemonInv
  <3>5. ASSUME NEW d \in Daemons, DaemonSetupFails(d)
       PROVE  DaemonInv'
    <4>1. UNCHANGED <<fd, path, created, removals>>
      BY <3>5 DEF DaemonSetupFails, locks, faults, Release, Flock
    <4>2. InodesCounted' /\ OneInode'
      BY <4>1, <2>i
    <4>3. TypeOK'
      BY <3>5, <4>1, <3>0 DEF DaemonSetupFails, DaemonInv, TypeOK, locks, faults, Release, Flock, Procs, Ended, Daemon, Client
    <4>4. LockHeld'
      BY <3>5, <4>1 DEF DaemonSetupFails, DaemonInv, TypeOK, LockHeld, DaemonHolds, ClientHolds, locks, Release, Flock, Procs, Daemon, Client
    <4>5. OwnerIsAdvertisedUndisturbed'
      BY <3>5, <4>1 DEF DaemonSetupFails, DaemonInv, TypeOK, LockHeld, DaemonHolds, OneInode, OwnerIsAdvertisedUndisturbed, locks, faults, Procs, Daemon, Client
    <4> QED BY <4>2, <4>3, <4>4, <4>5 DEF DaemonInv
  <3>6. ASSUME NEW d \in Daemons, DaemonPublish(d)
       PROVE  DaemonInv'
    <4>1. UNCHANGED <<fd, path, created, removals>>
      BY <3>6 DEF DaemonPublish, locks, faults, Release, Flock
    <4>2. InodesCounted' /\ OneInode'
      BY <4>1, <2>i
    <4>3. TypeOK'
      BY <3>6, <4>1, <3>0 DEF DaemonPublish, DaemonInv, TypeOK, locks, faults, Release, Flock, Procs, Ended, Daemon, Client
    <4>4. LockHeld'
      BY <3>6, <4>1 DEF DaemonPublish, DaemonInv, TypeOK, LockHeld, DaemonHolds, ClientHolds, locks, Release, Flock, Procs, Daemon, Client
    <4>5. OwnerIsAdvertisedUndisturbed'
      BY <3>6, <4>1 DEF DaemonPublish, DaemonInv, TypeOK, LockHeld, DaemonHolds, OneInode, OwnerIsAdvertisedUndisturbed, locks, faults, Procs, Daemon, Client
    <4> QED BY <4>2, <4>3, <4>4, <4>5 DEF DaemonInv
  <3>7. ASSUME NEW d \in Daemons, DaemonSignal(d)
       PROVE  DaemonInv'
    <4>1. UNCHANGED <<fd, path, created, removals>>
      BY <3>7 DEF DaemonSignal, locks, faults, Release, Flock
    <4>2. InodesCounted' /\ OneInode'
      BY <4>1, <2>i
    <4>3. TypeOK'
      BY <3>7, <4>1, <3>0 DEF DaemonSignal, DaemonInv, TypeOK, locks, faults, Release, Flock, Procs, Ended, Daemon, Client
    <4>4. LockHeld'
      BY <3>7, <4>1 DEF DaemonSignal, DaemonInv, TypeOK, LockHeld, DaemonHolds, ClientHolds, locks, Release, Flock, Procs, Daemon, Client
    <4>5. OwnerIsAdvertisedUndisturbed'
      BY <3>7, <4>1 DEF DaemonSignal, DaemonInv, TypeOK, LockHeld, DaemonHolds, OneInode, OwnerIsAdvertisedUndisturbed, locks, faults, Procs, Daemon, Client
    <4> QED BY <4>2, <4>3, <4>4, <4>5 DEF DaemonInv
  <3>8. ASSUME NEW d \in Daemons, DaemonServeFails(d)
       PROVE  DaemonInv'
    <4>1. UNCHANGED <<fd, path, created, removals>>
      BY <3>8 DEF DaemonServeFails, locks, faults, Release, Flock
    <4>2. InodesCounted' /\ OneInode'
      BY <4>1, <2>i
    <4>3. TypeOK'
      BY <3>8, <4>1, <3>0 DEF DaemonServeFails, DaemonInv, TypeOK, locks, faults, Release, Flock, Procs, Ended, Daemon, Client
    <4>4. LockHeld'
      BY <3>8, <4>1 DEF DaemonServeFails, DaemonInv, TypeOK, LockHeld, DaemonHolds, ClientHolds, locks, Release, Flock, Procs, Daemon, Client
    <4>5. OwnerIsAdvertisedUndisturbed'
      BY <3>8, <4>1 DEF DaemonServeFails, DaemonInv, TypeOK, LockHeld, DaemonHolds, OneInode, OwnerIsAdvertisedUndisturbed, locks, faults, Procs, Daemon, Client
    <4> QED BY <4>2, <4>3, <4>4, <4>5 DEF DaemonInv
  <3>9. ASSUME NEW d \in Daemons, DaemonWatch(d)
       PROVE  DaemonInv'
    <4>1. UNCHANGED <<fd, path, created, removals>>
      BY <3>9 DEF DaemonWatch, locks, faults, Release, Flock
    <4>2. InodesCounted' /\ OneInode'
      BY <4>1, <2>i
    <4>3. TypeOK'
      BY <3>9, <4>1, <3>0 DEF DaemonWatch, DaemonInv, TypeOK, locks, faults, Release, Flock, Procs, Ended, Daemon, Client
    <4>4. LockHeld'
      BY <3>9, <4>1 DEF DaemonWatch, DaemonInv, TypeOK, LockHeld, DaemonHolds, ClientHolds, locks, Release, Flock, Procs, Daemon, Client
    <4>5. OwnerIsAdvertisedUndisturbed'
      BY <3>9, <4>1 DEF DaemonWatch, DaemonInv, TypeOK, LockHeld, DaemonHolds, OneInode, OwnerIsAdvertisedUndisturbed, locks, faults, Procs, Daemon, Client
    <4> QED BY <4>2, <4>3, <4>4, <4>5 DEF DaemonInv
  <3>10. ASSUME NEW d \in Daemons, DaemonRemove(d)
       PROVE  DaemonInv'
    <4>1. UNCHANGED <<fd, path, created, removals>>
      BY <3>10 DEF DaemonRemove, locks, faults, Release, Flock
    <4>2. InodesCounted' /\ OneInode'
      BY <4>1, <2>i
    <4>3. TypeOK'
      BY <3>10, <4>1, <3>0 DEF DaemonRemove, DaemonInv, TypeOK, locks, faults, Release, Flock, Procs, Ended, Daemon, Client
    <4>4. LockHeld'
      BY <3>10, <4>1 DEF DaemonRemove, DaemonInv, TypeOK, LockHeld, DaemonHolds, ClientHolds, locks, Release, Flock, Procs, Daemon, Client
    <4>5. OwnerIsAdvertisedUndisturbed'
      BY <3>10, <4>1 DEF DaemonRemove, DaemonInv, TypeOK, LockHeld, DaemonHolds, OneInode, OwnerIsAdvertisedUndisturbed, locks, faults, Procs, Daemon, Client
    <4> QED BY <4>2, <4>3, <4>4, <4>5 DEF DaemonInv
  <3>11. ASSUME NEW d \in Daemons, DaemonRelease(d)
       PROVE  DaemonInv'
    <4>1. UNCHANGED <<fd, path, created, removals>>
      BY <3>11 DEF DaemonRelease, locks, faults, Release, Flock
    <4>2. InodesCounted' /\ OneInode'
      BY <4>1, <2>i
    <4>3. TypeOK'
      BY <3>11, <4>1, <3>0 DEF DaemonRelease, DaemonInv, TypeOK, locks, faults, Release, Flock, Procs, Ended, Daemon, Client
    <4>4. LockHeld'
      BY <3>11, <4>1 DEF DaemonRelease, DaemonInv, TypeOK, LockHeld, DaemonHolds, ClientHolds, locks, Release, Flock, Procs, Daemon, Client
    <4>5. OwnerIsAdvertisedUndisturbed'
      BY <3>11, <4>1 DEF DaemonRelease, DaemonInv, TypeOK, LockHeld, DaemonHolds, OneInode, OwnerIsAdvertisedUndisturbed, locks, faults, Procs, Daemon, Client
    <4> QED BY <4>2, <4>3, <4>4, <4>5 DEF DaemonInv
  <3>12. ASSUME NEW d \in Daemons, DaemonKilled(d)
       PROVE  DaemonInv'
    <4>1. UNCHANGED <<fd, path, created, removals>>
      BY <3>12 DEF DaemonKilled, locks, faults, Release, Flock
    <4>2. InodesCounted' /\ OneInode'
      BY <4>1, <2>i
    <4>3. TypeOK'
      BY <3>12, <4>1, <3>0 DEF DaemonKilled, DaemonInv, TypeOK, locks, faults, Release, Flock, Procs, Ended, Daemon, Client
    <4>4. LockHeld'
      BY <3>12, <4>1 DEF DaemonKilled, DaemonInv, TypeOK, LockHeld, DaemonHolds, ClientHolds, locks, Release, Flock, Procs, Daemon, Client
    <4>5. OwnerIsAdvertisedUndisturbed'
      BY <3>12, <4>1 DEF DaemonKilled, DaemonInv, TypeOK, LockHeld, DaemonHolds, OneInode, OwnerIsAdvertisedUndisturbed, locks, faults, Procs, Daemon, Client
    <4> QED BY <4>2, <4>3, <4>4, <4>5 DEF DaemonInv
  <3>13. ASSUME NEW c \in Clients, FastPath(c)
       PROVE  DaemonInv'
    <4>1. UNCHANGED <<fd, path, created, removals>>
      BY <3>13 DEF FastPath, locks, faults, Release, Flock
    <4>2. InodesCounted' /\ OneInode'
      BY <4>1, <2>i
    <4>3. TypeOK'
      BY <3>13, <4>1, <3>0 DEF FastPath, DaemonInv, TypeOK, locks, faults, Release, Flock, Procs, Ended, Daemon, Client
    <4>4. LockHeld'
      BY <3>13, <4>1 DEF FastPath, DaemonInv, TypeOK, LockHeld, DaemonHolds, ClientHolds, locks, Release, Flock, Procs, Daemon, Client
    <4>5. OwnerIsAdvertisedUndisturbed'
      BY <3>13, <4>1 DEF FastPath, DaemonInv, TypeOK, LockHeld, DaemonHolds, OneInode, OwnerIsAdvertisedUndisturbed, locks, faults, Procs, Daemon, Client
    <4> QED BY <4>2, <4>3, <4>4, <4>5 DEF DaemonInv
  <3>14. ASSUME NEW c \in Clients, ClientOpen(c)
       PROVE  DaemonInv'
    <4>1. c \in Procs /\ OpenLock(c) /\ UNCHANGED removals
      BY <3>14 DEF ClientOpen, faults, Procs
    <4>2. /\ path' \in Inodes /\ created' \in Inodes
          /\ fd' = [fd EXCEPT ![c] = path'] /\ fd'[c] # 0
          /\ fd' \in [Procs -> Inodes \cup {0}] /\ holder' = holder
          /\ InodesCounted' /\ OneInode'
      BY <4>1, OpenEffect
    <4>3. TypeOK'
      BY <3>14, <4>1, <4>2, <3>0 DEF ClientOpen, DaemonInv, TypeOK, locks, faults, Release, Flock, Procs, Ended, Daemon, Client
    <4>4. LockHeld'
      BY <3>14, <4>1, <4>2 DEF ClientOpen, DaemonInv, TypeOK, LockHeld, DaemonHolds, ClientHolds, locks, Release, Flock, Procs, Daemon, Client
    <4>5. OwnerIsAdvertisedUndisturbed'
      BY <3>14, <4>1, <4>2 DEF ClientOpen, DaemonInv, TypeOK, LockHeld, DaemonHolds, OneInode, OwnerIsAdvertisedUndisturbed, locks, faults, Procs, Daemon, Client
    <4> QED BY <4>2, <4>3, <4>4, <4>5 DEF DaemonInv
  <3>15. ASSUME NEW c \in Clients, ClientLock(c)
       PROVE  DaemonInv'
    <4>1. UNCHANGED <<fd, path, created, removals>>
      BY <3>15 DEF ClientLock, locks, faults, Release, Flock
    <4>2. InodesCounted' /\ OneInode'
      BY <4>1, <2>i
    <4>3. TypeOK'
      BY <3>15, <4>1, <3>0 DEF ClientLock, DaemonInv, TypeOK, locks, faults, Release, Flock, Procs, Ended, Daemon, Client
    <4>4. LockHeld'
      BY <3>15, <4>1 DEF ClientLock, DaemonInv, TypeOK, LockHeld, DaemonHolds, ClientHolds, locks, Release, Flock, Procs, Daemon, Client
    <4>5. OwnerIsAdvertisedUndisturbed'
      BY <3>15, <4>1 DEF ClientLock, DaemonInv, TypeOK, LockHeld, DaemonHolds, OneInode, OwnerIsAdvertisedUndisturbed, locks, faults, Procs, Daemon, Client
    <4> QED BY <4>2, <4>3, <4>4, <4>5 DEF DaemonInv
  <3>16. ASSUME NEW c \in Clients, ClientLockTimeout(c)
       PROVE  DaemonInv'
    <4>1. UNCHANGED <<fd, path, created, removals>>
      BY <3>16 DEF ClientLockTimeout, locks, faults, Release, Flock
    <4>2. InodesCounted' /\ OneInode'
      BY <4>1, <2>i
    <4>3. TypeOK'
      BY <3>16, <4>1, <3>0 DEF ClientLockTimeout, DaemonInv, TypeOK, locks, faults, Release, Flock, Procs, Ended, Daemon, Client
    <4>4. LockHeld'
      BY <3>16, <4>1 DEF ClientLockTimeout, DaemonInv, TypeOK, LockHeld, DaemonHolds, ClientHolds, locks, Release, Flock, Procs, Daemon, Client
    <4>5. OwnerIsAdvertisedUndisturbed'
      BY <3>16, <4>1 DEF ClientLockTimeout, DaemonInv, TypeOK, LockHeld, DaemonHolds, OneInode, OwnerIsAdvertisedUndisturbed, locks, faults, Procs, Daemon, Client
    <4> QED BY <4>2, <4>3, <4>4, <4>5 DEF DaemonInv
  <3>17. ASSUME NEW c \in Clients, Recheck(c)
       PROVE  DaemonInv'
    <4>1. UNCHANGED <<fd, path, created, removals>>
      BY <3>17 DEF Recheck, locks, faults, Release, Flock
    <4>2. InodesCounted' /\ OneInode'
      BY <4>1, <2>i
    <4>3. TypeOK'
      BY <3>17, <4>1, <3>0 DEF Recheck, DaemonInv, TypeOK, locks, faults, Release, Flock, Procs, Ended, Daemon, Client
    <4>4. LockHeld'
      BY <3>17, <4>1 DEF Recheck, DaemonInv, TypeOK, LockHeld, DaemonHolds, ClientHolds, locks, Release, Flock, Procs, Daemon, Client
    <4>5. OwnerIsAdvertisedUndisturbed'
      BY <3>17, <4>1 DEF Recheck, DaemonInv, TypeOK, LockHeld, DaemonHolds, OneInode, OwnerIsAdvertisedUndisturbed, locks, faults, Procs, Daemon, Client
    <4> QED BY <4>2, <4>3, <4>4, <4>5 DEF DaemonInv
  <3>18. ASSUME NEW c \in Clients, Spawn(c)
       PROVE  DaemonInv'
    <4>1. UNCHANGED <<fd, path, created, removals>>
      BY <3>18 DEF Spawn, locks, faults, Release, Flock
    <4>2. InodesCounted' /\ OneInode'
      BY <4>1, <2>i
    <4>3. TypeOK'
      BY <3>18, <4>1, <3>0 DEF Spawn, DaemonInv, TypeOK, locks, faults, Release, Flock, Procs, Ended, Daemon, Client
    <4>4. LockHeld'
      BY <3>18, <4>1 DEF Spawn, DaemonInv, TypeOK, LockHeld, DaemonHolds, ClientHolds, locks, Release, Flock, Procs, Daemon, Client
    <4>5. OwnerIsAdvertisedUndisturbed'
      BY <3>18, <4>1 DEF Spawn, DaemonInv, TypeOK, LockHeld, DaemonHolds, OneInode, OwnerIsAdvertisedUndisturbed, locks, faults, Procs, Daemon, Client
    <4> QED BY <4>2, <4>3, <4>4, <4>5 DEF DaemonInv
  <3>19. ASSUME NEW c \in Clients, SpawnFails(c)
       PROVE  DaemonInv'
    <4>1. UNCHANGED <<fd, path, created, removals>>
      BY <3>19 DEF SpawnFails, locks, faults, Release, Flock
    <4>2. InodesCounted' /\ OneInode'
      BY <4>1, <2>i
    <4>3. TypeOK'
      BY <3>19, <4>1, <3>0 DEF SpawnFails, DaemonInv, TypeOK, locks, faults, Release, Flock, Procs, Ended, Daemon, Client
    <4>4. LockHeld'
      BY <3>19, <4>1 DEF SpawnFails, DaemonInv, TypeOK, LockHeld, DaemonHolds, ClientHolds, locks, Release, Flock, Procs, Daemon, Client
    <4>5. OwnerIsAdvertisedUndisturbed'
      BY <3>19, <4>1 DEF SpawnFails, DaemonInv, TypeOK, LockHeld, DaemonHolds, OneInode, OwnerIsAdvertisedUndisturbed, locks, faults, Procs, Daemon, Client
    <4> QED BY <4>2, <4>3, <4>4, <4>5 DEF DaemonInv
  <3>20. ASSUME NEW c \in Clients, ReleaseBeforeWait(c)
       PROVE  DaemonInv'
    <4>1. UNCHANGED <<fd, path, created, removals>>
      BY <3>20 DEF ReleaseBeforeWait, locks, faults, Release, Flock
    <4>2. InodesCounted' /\ OneInode'
      BY <4>1, <2>i
    <4>3. TypeOK'
      BY <3>20, <4>1, <3>0 DEF ReleaseBeforeWait, DaemonInv, TypeOK, locks, faults, Release, Flock, Procs, Ended, Daemon, Client
    <4>4. LockHeld'
      BY <3>20, <4>1 DEF ReleaseBeforeWait, DaemonInv, TypeOK, LockHeld, DaemonHolds, ClientHolds, locks, Release, Flock, Procs, Daemon, Client
    <4>5. OwnerIsAdvertisedUndisturbed'
      BY <3>20, <4>1 DEF ReleaseBeforeWait, DaemonInv, TypeOK, LockHeld, DaemonHolds, OneInode, OwnerIsAdvertisedUndisturbed, locks, faults, Procs, Daemon, Client
    <4> QED BY <4>2, <4>3, <4>4, <4>5 DEF DaemonInv
  <3>21. ASSUME NEW c \in Clients, WaitForDaemon(c)
       PROVE  DaemonInv'
    <4>1. UNCHANGED <<fd, path, created, removals>>
      BY <3>21 DEF WaitForDaemon, locks, faults, Release, Flock
    <4>2. InodesCounted' /\ OneInode'
      BY <4>1, <2>i
    <4>3. TypeOK'
      BY <3>21, <4>1, <3>0 DEF WaitForDaemon, DaemonInv, TypeOK, locks, faults, Release, Flock, Procs, Ended, Daemon, Client
    <4>4. LockHeld'
      BY <3>21, <4>1 DEF WaitForDaemon, DaemonInv, TypeOK, LockHeld, DaemonHolds, ClientHolds, locks, Release, Flock, Procs, Daemon, Client
    <4>5. OwnerIsAdvertisedUndisturbed'
      BY <3>21, <4>1 DEF WaitForDaemon, DaemonInv, TypeOK, LockHeld, DaemonHolds, OneInode, OwnerIsAdvertisedUndisturbed, locks, faults, Procs, Daemon, Client
    <4> QED BY <4>2, <4>3, <4>4, <4>5 DEF DaemonInv
  <3>22. CASE RemoveStateDir
    <4>1. TypeOK'
      BY <3>22, <3>0 DEF RemoveStateDir, DaemonInv, TypeOK
    <4>2. LockHeld'
      BY <3>22 DEF RemoveStateDir, DaemonInv, LockHeld
    <4>3. removals' # 0 /\ InodesCounted'
      BY <3>22 DEF RemoveStateDir, DaemonInv, TypeOK, InodesCounted, Inodes
    <4> QED BY <4>1, <4>2, <4>3 DEF DaemonInv, OneInode, OwnerIsAdvertisedUndisturbed
  <3> QED BY <2>n, <3>1, <3>2, <3>3, <3>4, <3>5, <3>6, <3>7, <3>8, <3>9, <3>10, <3>11, <3>12, <3>13, <3>14, <3>15, <3>16, <3>17, <3>18, <3>19, <3>20, <3>21, <3>22 DEF Next, DaemonStep, ClientStep
  <2> QED BY <2>u, <2>n
<1> QED BY <1>1, <1>2, PTL DEF Spec

(* Type correctness of the processes of DaemonSingleton (run(), Resolve,   *)
(* discovery.Lock): in particular the inodes created never exceed one more *)
(* than the removals.                                                      *)
THEOREM TypeCorrect == Spec => []TypeOK
<1>1. DaemonInv => TypeOK
  BY DEF DaemonInv
<1> QED BY <1>1, DaemonInvAlways, PTL

(* run()'s order of deferred calls and its lock give every daemon that     *)
(* serves in an undisturbed state directory the advertisement for itself.  *)
THEOREM OwnerAdvertised == Spec => []OwnerIsAdvertisedUndisturbed
<1>1. DaemonInv => OwnerIsAdvertisedUndisturbed
  BY DEF DaemonInv
<1> QED BY <1>1, DaemonInvAlways, PTL

(* A client alone is served: with nothing killed, signalled or removed, it *)
(* neither finds the lock kept by another process nor sees its child exit. *)
THEOREM LoneResolve == Spec => []LoneResolveSucceeds
<1>1. Init => LoneInv
  BY DEF Init, LoneInv, HeldInUse, InodeRecorded, OnlyChild
<1>2. DaemonInv /\ LoneInv /\ [Next]_vars => LoneInv'
  <2> SUFFICES ASSUME DaemonInv, LoneInv, [Next]_vars PROVE LoneInv'
    OBVIOUS
  <2>t. /\ DOMAIN dpc = Daemons /\ DOMAIN cpc = Clients /\ DOMAIN child = Clients /\ DOMAIN orig = Daemons
        /\ DOMAIN holder = Inodes /\ DOMAIN fd = Procs /\ Daemons \subseteq Procs /\ Clients \subseteq Procs
    BY DEF DaemonInv, TypeOK, Procs
  <2>n. removals \in Nat /\ kills \in Nat /\ signals \in Nat
    BY BoundsAssumption DEF DaemonInv, TypeOK
  <2>p. Nobody \notin Daemons /\ Nobody \notin Clients /\ \A d \in Daemons, c \in Clients : d # c
    BY ProcsAssumption
  <2> DEFINE LoneServed == Undisturbed => \A c \in Clients : Alone(c) => OnlyChild(c)
             Goal == HeldInUse' /\ InodeRecorded' /\ LoneServed'
             GoesOnHolding(d) == dpc[d] \in DaemonHolds => dpc'[d] \in DaemonHolds /\ fd'[d] = fd[d]
             ClientGoesOn(c) == cpc[c] \in ClientHolds => cpc'[c] \in ClientHolds /\ fd'[c] = fd[c]
  (* Locks: every holder goes on holding; one process takes a lock; one     *)
  (* leaves it.                                                             *)
  <2>h. ASSUME holder' = holder, \A d \in Daemons : GoesOnHolding(d), \A c \in Clients : ClientGoesOn(c)
        PROVE  HeldInUse'
    BY <2>h DEF LoneInv, HeldInUse
  <2>f. ASSUME NEW p \in Procs, Flock(p),
               \/ p \in Daemons /\ dpc'[p] \in DaemonHolds
               \/ p \in Clients /\ cpc'[p] \in ClientHolds,
               \A d \in Daemons : GoesOnHolding(d), \A c \in Clients : ClientGoesOn(c)
        PROVE  HeldInUse'
    BY <2>f, <2>t DEF LoneInv, HeldInUse, Flock
  <2>r. ASSUME NEW p \in Procs, Release(p), holder[fd[p]] = p,
               \A d \in Daemons : d # p => GoesOnHolding(d), \A c \in Clients : c # p => ClientGoesOn(c)
        PROVE  HeldInUse'
    BY <2>r, <2>t DEF LoneInv, HeldInUse, Release
  (* Recorded inodes: the path changes only from nothing, and then no       *)
  (* daemon has a record yet.                                               *)
  <2>i. removals = 0 => \A d \in Daemons : dpc[d] \in DaemonHolds => path = fd[d] /\ path # 0
    BY <2>t DEF DaemonInv, OneInode, LockHeld
  <2>o. ASSUME removals' = removals, path' = path \/ path = 0,
               \A d \in Daemons : dpc'[d] \in {"setup", "serving"} => dpc[d] \in {"setup", "serving"} /\ orig'[d] = orig[d]
        PROVE  InodeRecorded'
    BY <2>o, <2>i DEF LoneInv, InodeRecorded, DaemonHolds
  (* A client that steps is no longer at its start, so that the lone client *)
  (* is the one that steps.                                                 *)
  <2>c. ASSUME NEW e \in Clients, cpc'[e] # "start", \A b \in Clients : b # e => cpc'[b] = cpc[b],
               UNCHANGED faults, Undisturbed /\ Alone(e) /\ OnlyChild(e) => OnlyChild(e)'
        PROVE  LoneServed'
    <3> SUFFICES ASSUME Undisturbed', NEW c \in Clients, Alone(c)' PROVE OnlyChild(c)'
      OBVIOUS
    <3>1. c = e /\ Alone(e) /\ Undisturbed
      BY <2>c DEF Alone, Undisturbed, faults
    <3> QED
      BY <2>c, <3>1 DEF LoneInv
  <2>d. ASSUME cpc' = cpc, child' = child, Undisturbed' => Undisturbed,
               \A c \in Clients : Undisturbed /\ OnlyChild(c) => \A d \in Daemons :
                 /\ dpc'[d] \in {"unborn", "start", "lock", "stat", "setup", "serving"}
                 /\ dpc[d] = "unborn" => dpc'[d] = "unborn"
        PROVE  LoneServed'
    <3> SUFFICES ASSUME Undisturbed', NEW c \in Clients, Alone(c)' PROVE OnlyChild(c)'
      OBVIOUS
    <3>1. OnlyChild(c) /\ Undisturbed
      BY <2>d DEF Alone, LoneInv
    <3> QED
      BY <2>d, <3>1 DEF OnlyChild
  <2>1. ASSUME NEW d \in Daemons, DaemonOpen(d) PROVE Goal
    <3>1. HeldInUse'
      <4>1. /\ holder' = holder /\ \A x \in Daemons : GoesOnHolding(x)
            /\ \A y \in Clients : ClientGoesOn(y)
        BY <2>1, <2>t, <2>p DEF DaemonOpen, OpenLock, Daemon, DaemonHolds, ClientHolds, locks
      <4> QED
        BY <2>h, <4>1
    <3>2. InodeRecorded'
      <4>1. /\ removals' = removals /\ (path' = path \/ path = 0)
            /\ \A e \in Daemons : dpc'[e] \in {"setup", "serving"} => dpc[e] \in {"setup", "serving"} /\ orig'[e] = orig[e]
        BY <2>1, <2>t DEF DaemonOpen, OpenLock, Daemon, locks, faults
      <4> QED
        BY <2>o, <4>1
    <3>3. LoneServed'
      <4>1. cpc' = cpc /\ child' = child /\ (Undisturbed' => Undisturbed)
        BY <2>1 DEF DaemonOpen, Daemon, faults, Undisturbed
      <4>2. ASSUME NEW c \in Clients, Undisturbed, OnlyChild(c), NEW e \in Daemons
            PROVE  /\ dpc'[e] \in {"unborn", "start", "lock", "stat", "setup", "serving"}
                   /\ dpc[e] = "unborn" => dpc'[e] = "unborn"
        BY <2>1, <2>t, <4>2 DEF DaemonOpen, Daemon, OnlyChild
      <4> QED
        BY <2>d, <4>1, <4>2
    <3> QED
      BY <3>1, <3>2, <3>3
  <2>2. ASSUME NEW d \in Daemons, DaemonLock(d) PROVE Goal
    <3>1. HeldInUse'
      <4>1. /\ Flock(d) /\ d \in Procs
            /\ \A x \in Daemons : GoesOnHolding(x)
            /\ \A y \in Clients : ClientGoesOn(y)
            /\ dpc'[d] \in DaemonHolds
        BY <2>2, <2>t, <2>p DEF DaemonLock, Daemon, Flock, DaemonHolds, ClientHolds
      <4> HIDE DEF GoesOnHolding, ClientGoesOn
      <4> QED
        BY <2>f, <4>1
    <3>2. InodeRecorded'
      <4>1. /\ removals' = removals /\ (path' = path \/ path = 0)
            /\ \A e \in Daemons : dpc'[e] \in {"setup", "serving"} => dpc[e] \in {"setup", "serving"} /\ orig'[e] = orig[e]
        BY <2>2, <2>t DEF DaemonLock, Daemon, Flock, locks, faults
      <4> QED
        BY <2>o, <4>1
    <3>3. LoneServed'
      <4>1. cpc' = cpc /\ child' = child /\ (Undisturbed' => Undisturbed)
        BY <2>2 DEF DaemonLock, Daemon, faults, Undisturbed
      <4>2. ASSUME NEW c \in Clients, Undisturbed, OnlyChild(c), NEW e \in Daemons
            PROVE  /\ dpc'[e] \in {"unborn", "start", "lock", "stat", "setup", "serving"}
                   /\ dpc[e] = "unborn" => dpc'[e] = "unborn"
        BY <2>2, <2>t, <4>2 DEF DaemonLock, Daemon, OnlyChild
      <4> QED
        BY <2>d, <4>1, <4>2
    <3> QED
      BY <3>1, <3>2, <3>3
  <2>3. ASSUME NEW d \in Daemons, DaemonLockTimeout(d) PROVE Goal
    <3>1. HeldInUse'
      <4>1. /\ holder' = holder /\ \A x \in Daemons : GoesOnHolding(x)
            /\ \A y \in Clients : ClientGoesOn(y)
        BY <2>3, <2>t, <2>p DEF DaemonLockTimeout, Daemon, DaemonHolds, ClientHolds, locks
      <4> QED
        BY <2>h, <4>1
    <3>2. InodeRecorded'
      <4>1. /\ removals' = removals /\ (path' = path \/ path = 0)
            /\ \A e \in Daemons : dpc'[e] \in {"setup", "serving"} => dpc[e] \in {"setup", "serving"} /\ orig'[e] = orig[e]
        BY <2>3, <2>t DEF DaemonLockTimeout, Daemon, locks, faults
      <4> QED
        BY <2>o, <4>1
    <3>3. LoneServed'
      <4>1. cpc' = cpc /\ child' = child /\ Undisturbed' = Undisturbed
        BY <2>3 DEF DaemonLockTimeout, faults, Undisturbed
      <4>2. ASSUME NEW c \in Clients, Undisturbed, OnlyChild(c) PROVE FALSE
        <5>1. dpc[d] = "lock" /\ holder[fd[d]] \in Daemons \cup {b \in Clients : cpc[b] = "wait"} /\ fd[d] \in Inodes
          BY <2>3 DEF DaemonLockTimeout, Daemon, Kept, DaemonInv, TypeOK, LockHeld, Procs
        <5>2. \E e \in Daemons : dpc[e] \in DaemonHolds
          BY <2>p, <5>1 DEF LoneInv, HeldInUse, ClientHolds
        <5> QED
          BY <4>2, <5>1, <5>2 DEF OnlyChild, DaemonHolds
      <4> QED
        BY <2>d, <4>1, <4>2
    <3> QED
      BY <3>1, <3>2, <3>3
  <2>4. ASSUME NEW d \in Daemons, DaemonStat(d) PROVE Goal
    <3>1. HeldInUse'
      <4>1. CASE path # 0
        <5>1. /\ holder' = holder /\ \A x \in Daemons : GoesOnHolding(x)
              /\ \A y \in Clients : ClientGoesOn(y)
          BY <2>4, <4>1, <2>t, <2>p DEF DaemonStat, Daemon, DaemonHolds, ClientHolds, locks
        <5> QED
          BY <2>h, <5>1
      <4>2. CASE path = 0
        <5>1. /\ Release(d) /\ d \in Procs /\ holder[fd[d]] = d
              /\ \A x \in Daemons : x # d => GoesOnHolding(x)
              /\ \A y \in Clients : y # d => ClientGoesOn(y)
          BY <2>4, <4>2, <2>t, <2>p DEF DaemonStat, Daemon, Release, DaemonInv, LockHeld, DaemonHolds, ClientHolds
        <5> HIDE DEF GoesOnHolding, ClientGoesOn
        <5> QED
          BY <2>r, <5>1
      <4> QED
        BY <4>1, <4>2
    <3>2. InodeRecorded'
      BY <2>4, <2>t DEF DaemonStat, Daemon, LoneInv, InodeRecorded, locks, faults, Release
    <3>3. LoneServed'
      <4>1. cpc' = cpc /\ child' = child /\ Undisturbed' = Undisturbed
        BY <2>4 DEF DaemonStat, faults, Undisturbed
      <4>2. ASSUME NEW c \in Clients, Undisturbed, OnlyChild(c), NEW e \in Daemons
            PROVE  /\ dpc'[e] \in {"unborn", "start", "lock", "stat", "setup", "serving"}
                   /\ dpc[e] = "unborn" => dpc'[e] = "unborn"
        <5>1. path # 0
          BY <2>4, <2>i, <4>2 DEF DaemonStat, Daemon, DaemonHolds, Undisturbed
        <5> QED
          BY <2>4, <2>t, <4>2, <5>1 DEF DaemonStat, Daemon, OnlyChild
      <4> QED
        BY <2>d, <4>1, <4>2
    <3> QED
      BY <3>1, <3>2, <3>3
  <2>5. ASSUME NEW d \in Daemons, DaemonSetupFails(d) PROVE Goal
    <3>1. HeldInUse'
      <4>1. /\ Release(d) /\ d \in Procs /\ holder[fd[d]] = d
            /\ \A x \in Daemons : x # d => GoesOnHolding(x)
            /\ \A y \in Clients : y # d => ClientGoesOn(y)
        BY <2>5, <2>t, <2>p DEF DaemonSetupFails, Daemon, Release, DaemonInv, LockHeld, DaemonHolds, ClientHolds
      <4> HIDE DEF GoesOnHolding, ClientGoesOn
      <4> QED
        BY <2>r, <4>1
    <3>2. InodeRecorded'
      <4>1. /\ removals' = removals /\ (path' = path \/ path = 0)
            /\ \A e \in Daemons : dpc'[e] \in {"setup", "serving"} => dpc[e] \in {"setup", "serving"} /\ orig'[e] = orig[e]
        BY <2>5, <2>t DEF DaemonSetupFails, Daemon, Release, locks, faults
      <4> QED
        BY <2>o, <4>1
    <3>3. LoneServed'
      <4>1. ~Undisturbed'
        BY <2>5, <2>n DEF DaemonSetupFails, Daemon, Undisturbed
      <4> QED
        BY <4>1
    <3> QED
      BY <3>1, <3>2, <3>3
  <2>6. ASSUME NEW d \in Daemons, DaemonPublish(d) PROVE Goal
    <3>1. HeldInUse'
      <4>1. /\ holder' = holder /\ \A x \in Daemons : GoesOnHolding(x)
            /\ \A y \in Clients : ClientGoesOn(y)
        BY <2>6, <2>t, <2>p DEF DaemonPublish, Daemon, DaemonHolds, ClientHolds, locks
      <4> QED
        BY <2>h, <4>1
    <3>2. InodeRecorded'
      <4>1. /\ removals' = removals /\ (path' = path \/ path = 0)
            /\ \A e \in Daemons : dpc'[e] \in {"setup", "serving"} => dpc[e] \in {"setup", "serving"} /\ orig'[e] = orig[e]
        BY <2>6, <2>t DEF DaemonPublish, Daemon, locks, faults
      <4> QED
        BY <2>o, <4>1
    <3>3. LoneServed'
      <4>1. cpc' = cpc /\ child' = child /\ (Undisturbed' => Undisturbed)
        BY <2>6 DEF DaemonPublish, Daemon, faults, Undisturbed
      <4>2. ASSUME NEW c \in Clients, Undisturbed, OnlyChild(c), NEW e \in Daemons
            PROVE  /\ dpc'[e] \in {"unborn", "start", "lock", "stat", "setup", "serving"}
                   /\ dpc[e] = "unborn" => dpc'[e] = "unborn"
        BY <2>6, <2>t, <4>2 DEF DaemonPublish, Daemon, OnlyChild
      <4> QED
        BY <2>d, <4>1, <4>2
    <3> QED
      BY <3>1, <3>2, <3>3
  <2>7. ASSUME NEW d \in Daemons, DaemonSignal(d) PROVE Goal
    <3>1. HeldInUse'
      <4>1. /\ holder' = holder /\ \A x \in Daemons : GoesOnHolding(x)
            /\ \A y \in Clients : ClientGoesOn(y)
        BY <2>7, <2>t, <2>p DEF DaemonSignal, Daemon, DaemonHolds, ClientHolds, locks
      <4> QED
        BY <2>h, <4>1
    <3>2. InodeRecorded'
      <4>1. /\ removals' = removals /\ (path' = path \/ path = 0)
            /\ \A e \in Daemons : dpc'[e] \in {"setup", "serving"} => dpc[e] \in {"setup", "serving"} /\ orig'[e] = orig[e]
        BY <2>7, <2>t DEF DaemonSignal, Daemon, locks, faults
      <4> QED
        BY <2>o, <4>1
    <3>3. LoneServed'
      <4>1. ~Undisturbed'
        BY <2>7, <2>n DEF DaemonSignal, Daemon, Undisturbed
      <4> QED
        BY <4>1
    <3> QED
      BY <3>1, <3>2, <3>3
  <2>8. ASSUME NEW d \in Daemons, DaemonServeFails(d) PROVE Goal
    <3>1. HeldInUse'
      <4>1. /\ holder' = holder /\ \A x \in Daemons : GoesOnHolding(x)
            /\ \A y \in Clients : ClientGoesOn(y)
        BY <2>8, <2>t, <2>p DEF DaemonServeFails, Daemon, DaemonHolds, ClientHolds, locks
      <4> QED
        BY <2>h, <4>1
    <3>2. InodeRecorded'
      <4>1. /\ removals' = removals /\ (path' = path \/ path = 0)
            /\ \A e \in Daemons : dpc'[e] \in {"setup", "serving"} => dpc[e] \in {"setup", "serving"} /\ orig'[e] = orig[e]
        BY <2>8, <2>t DEF DaemonServeFails, Daemon, locks, faults
      <4> QED
        BY <2>o, <4>1
    <3>3. LoneServed'
      <4>1. ~Undisturbed'
        BY <2>8, <2>n DEF DaemonServeFails, Daemon, Undisturbed
      <4> QED
        BY <4>1
    <3> QED
      BY <3>1, <3>2, <3>3
  <2>9. ASSUME NEW d \in Daemons, DaemonWatch(d) PROVE Goal
    <3>1. HeldInUse'
      <4>1. /\ holder' = holder /\ \A x \in Daemons : GoesOnHolding(x)
            /\ \A y \in Clients : ClientGoesOn(y)
        BY <2>9, <2>t, <2>p DEF DaemonWatch, Daemon, DaemonHolds, ClientHolds, locks
      <4> QED
        BY <2>h, <4>1
    <3>2. InodeRecorded'
      <4>1. /\ removals' = removals /\ (path' = path \/ path = 0)
            /\ \A e \in Daemons : dpc'[e] \in {"setup", "serving"} => dpc[e] \in {"setup", "serving"} /\ orig'[e] = orig[e]
        BY <2>9, <2>t DEF DaemonWatch, Daemon, locks, faults
      <4> QED
        BY <2>o, <4>1
    <3>3. LoneServed'
      <4>1. cpc' = cpc /\ child' = child /\ (Undisturbed' => Undisturbed)
        BY <2>9 DEF DaemonWatch, Daemon, InodeChanged, LoneInv, InodeRecorded, Undisturbed, faults, Undisturbed
      <4>2. ASSUME NEW c \in Clients, Undisturbed, OnlyChild(c), NEW e \in Daemons
            PROVE  /\ dpc'[e] \in {"unborn", "start", "lock", "stat", "setup", "serving"}
                   /\ dpc[e] = "unborn" => dpc'[e] = "unborn"
        BY <2>9, <2>t, <4>2 DEF DaemonWatch, Daemon, InodeChanged, LoneInv, InodeRecorded, Undisturbed, OnlyChild
      <4> QED
        BY <2>d, <4>1, <4>2
    <3> QED
      BY <3>1, <3>2, <3>3
  <2>10. ASSUME NEW d \in Daemons, DaemonRemove(d) PROVE Goal
    <3>1. HeldInUse'
      <4>1. /\ holder' = holder /\ \A x \in Daemons : GoesOnHolding(x)
            /\ \A y \in Clients : ClientGoesOn(y)
        BY <2>10, <2>t, <2>p DEF DaemonRemove, Daemon, DaemonHolds, ClientHolds, locks
      <4> QED
        BY <2>h, <4>1
    <3>2. InodeRecorded'
      <4>1. /\ removals' = removals /\ (path' = path \/ path = 0)
            /\ \A e \in Daemons : dpc'[e] \in {"setup", "serving"} => dpc[e] \in {"setup", "serving"} /\ orig'[e] = orig[e]
        BY <2>10, <2>t DEF DaemonRemove, Daemon, locks, faults
      <4> QED
        BY <2>o, <4>1
    <3>3. LoneServed'
      <4>1. cpc' = cpc /\ child' = child /\ (Undisturbed' => Undisturbed)
        BY <2>10 DEF DaemonRemove, Daemon, faults, Undisturbed
      <4>2. ASSUME NEW c \in Clients, Undisturbed, OnlyChild(c), NEW e \in Daemons
            PROVE  /\ dpc'[e] \in {"unborn", "start", "lock", "stat", "setup", "serving"}
                   /\ dpc[e] = "unborn" => dpc'[e] = "unborn"
        BY <2>10, <2>t, <4>2 DEF DaemonRemove, Daemon, OnlyChild
      <4> QED
        BY <2>d, <4>1, <4>2
    <3> QED
      BY <3>1, <3>2, <3>3
  <2>11. ASSUME NEW d \in Daemons, DaemonRelease(d) PROVE Goal
    <3>1. HeldInUse'
      <4>1. /\ Release(d) /\ d \in Procs /\ holder[fd[d]] = d
            /\ \A x \in Daemons : x # d => GoesOnHolding(x)
            /\ \A y \in Clients : y # d => ClientGoesOn(y)
        BY <2>11, <2>t, <2>p DEF DaemonRelease, Daemon, Release, DaemonInv, LockHeld, DaemonHolds, ClientHolds
      <4> HIDE DEF GoesOnHolding, ClientGoesOn
      <4> QED
        BY <2>r, <4>1
    <3>2. InodeRecorded'
      <4>1. /\ removals' = removals /\ (path' = path \/ path = 0)
            /\ \A e \in Daemons : dpc'[e] \in {"setup", "serving"} => dpc[e] \in {"setup", "serving"} /\ orig'[e] = orig[e]
        BY <2>11, <2>t DEF DaemonRelease, Daemon, Release, locks, faults
      <4> QED
        BY <2>o, <4>1
    <3>3. LoneServed'
      <4>1. cpc' = cpc /\ child' = child /\ (Undisturbed' => Undisturbed)
        BY <2>11 DEF DaemonRelease, Daemon, faults, Undisturbed
      <4>2. ASSUME NEW c \in Clients, Undisturbed, OnlyChild(c), NEW e \in Daemons
            PROVE  /\ dpc'[e] \in {"unborn", "start", "lock", "stat", "setup", "serving"}
                   /\ dpc[e] = "unborn" => dpc'[e] = "unborn"
        BY <2>11, <2>t, <4>2 DEF DaemonRelease, Daemon, OnlyChild
      <4> QED
        BY <2>d, <4>1, <4>2
    <3> QED
      BY <3>1, <3>2, <3>3
  <2>12. ASSUME NEW d \in Daemons, DaemonKilled(d) PROVE Goal
    <3>1. HeldInUse'
      BY <2>12, <2>t, <2>p DEF DaemonKilled, LoneInv, HeldInUse
    <3>2. InodeRecorded'
      <4>1. /\ removals' = removals /\ (path' = path \/ path = 0)
            /\ \A e \in Daemons : dpc'[e] \in {"setup", "serving"} => dpc[e] \in {"setup", "serving"} /\ orig'[e] = orig[e]
        BY <2>12, <2>t DEF DaemonKilled, locks, faults
      <4> QED
        BY <2>o, <4>1
    <3>3. LoneServed'
      <4>1. ~Undisturbed'
        BY <2>12, <2>n DEF DaemonKilled, Undisturbed
      <4> QED
        BY <4>1
    <3> QED
      BY <3>1, <3>2, <3>3
  <2>13. ASSUME RemoveStateDir PROVE Goal
    <3>1. HeldInUse'
      <4>1. /\ holder' = holder /\ \A x \in Daemons : GoesOnHolding(x)
            /\ \A y \in Clients : ClientGoesOn(y)
        BY <2>13, <2>t, <2>p DEF RemoveStateDir, DaemonHolds, ClientHolds, locks
      <4> QED
        BY <2>h, <4>1
    <3>2. InodeRecorded'
      BY <2>13, <2>n DEF RemoveStateDir, InodeRecorded
    <3>3. LoneServed'
      <4>1. ~Undisturbed'
        BY <2>13, <2>n DEF RemoveStateDir, Undisturbed
      <4> QED
        BY <4>1
    <3> QED
      BY <3>1, <3>2, <3>3
  <2>14. ASSUME NEW c \in Clients, FastPath(c) PROVE Goal
    <3>1. HeldInUse'
      <4>1. /\ holder' = holder /\ \A x \in Daemons : GoesOnHolding(x)
            /\ \A y \in Clients : ClientGoesOn(y)
        BY <2>14, <2>t, <2>p DEF FastPath, Client, DaemonHolds, ClientHolds, locks
      <4> QED
        BY <2>h, <4>1
    <3>2. InodeRecorded'
      <4>1. /\ removals' = removals /\ (path' = path \/ path = 0)
            /\ \A e \in Daemons : dpc'[e] \in {"setup", "serving"} => dpc[e] \in {"setup", "serving"} /\ orig'[e] = orig[e]
        BY <2>14, <2>t DEF FastPath, Client, locks, faults
      <4> QED
        BY <2>o, <4>1
    <3>3. LoneServed'
      <4>1. cpc'[c] # "start" /\ (\A b \in Clients : b # c => cpc'[b] = cpc[b]) /\ UNCHANGED faults
        BY <2>14, <2>t DEF FastPath, Client, ReadAlive, faults
      <4>2. Undisturbed /\ Alone(c) /\ OnlyChild(c) => OnlyChild(c)'
        BY <2>14, <2>t, <2>p DEF FastPath, Client, ReadAlive, OnlyChild
      <4> QED
        BY <2>c, <4>1, <4>2
    <3> QED
      BY <3>1, <3>2, <3>3
  <2>15. ASSUME NEW c \in Clients, ClientOpen(c) PROVE Goal
    <3>1. HeldInUse'
      <4>1. /\ holder' = holder /\ \A x \in Daemons : GoesOnHolding(x)
            /\ \A y \in Clients : ClientGoesOn(y)
        BY <2>15, <2>t, <2>p DEF ClientOpen, Client, OpenLock, DaemonHolds, ClientHolds, locks
      <4> QED
        BY <2>h, <4>1
    <3>2. InodeRecorded'
      <4>1. /\ removals' = removals /\ (path' = path \/ path = 0)
            /\ \A e \in Daemons : dpc'[e] \in {"setup", "serving"} => dpc[e] \in {"setup", "serving"} /\ orig'[e] = orig[e]
        BY <2>15, <2>t DEF ClientOpen, Client, OpenLock, locks, faults
      <4> QED
        BY <2>o, <4>1
    <3>3. LoneServed'
      <4>1. cpc'[c] # "start" /\ (\A b \in Clients : b # c => cpc'[b] = cpc[b]) /\ UNCHANGED faults
        BY <2>15, <2>t DEF ClientOpen, Client, faults
      <4>2. Undisturbed /\ Alone(c) /\ OnlyChild(c) => OnlyChild(c)'
        BY <2>15, <2>t, <2>p DEF ClientOpen, Client, OnlyChild
      <4> QED
        BY <2>c, <4>1, <4>2
    <3> QED
      BY <3>1, <3>2, <3>3
  <2>16. ASSUME NEW c \in Clients, ClientLock(c) PROVE Goal
    <3>1. HeldInUse'
      <4>1. /\ Flock(c) /\ c \in Procs
            /\ \A x \in Daemons : GoesOnHolding(x)
            /\ \A y \in Clients : ClientGoesOn(y)
            /\ cpc'[c] \in ClientHolds
        BY <2>16, <2>t, <2>p DEF ClientLock, Client, Flock, DaemonHolds, ClientHolds
      <4> HIDE DEF GoesOnHolding, ClientGoesOn
      <4> QED
        BY <2>f, <4>1
    <3>2. InodeRecorded'
      <4>1. /\ removals' = removals /\ (path' = path \/ path = 0)
            /\ \A e \in Daemons : dpc'[e] \in {"setup", "serving"} => dpc[e] \in {"setup", "serving"} /\ orig'[e] = orig[e]
        BY <2>16, <2>t DEF ClientLock, Client, Flock, locks, faults
      <4> QED
        BY <2>o, <4>1
    <3>3. LoneServed'
      <4>1. cpc'[c] # "start" /\ (\A b \in Clients : b # c => cpc'[b] = cpc[b]) /\ UNCHANGED faults
        BY <2>16, <2>t DEF ClientLock, Client, faults
      <4>2. Undisturbed /\ Alone(c) /\ OnlyChild(c) => OnlyChild(c)'
        BY <2>16, <2>t, <2>p DEF ClientLock, Client, OnlyChild
      <4> QED
        BY <2>c, <4>1, <4>2
    <3> QED
      BY <3>1, <3>2, <3>3
  <2>17. ASSUME NEW c \in Clients, ClientLockTimeout(c) PROVE Goal
    <3>1. HeldInUse'
      <4>1. /\ holder' = holder /\ \A x \in Daemons : GoesOnHolding(x)
            /\ \A y \in Clients : ClientGoesOn(y)
        BY <2>17, <2>t, <2>p DEF ClientLockTimeout, Client, DaemonHolds, ClientHolds, locks
      <4> QED
        BY <2>h, <4>1
    <3>2. InodeRecorded'
      <4>1. /\ removals' = removals /\ (path' = path \/ path = 0)
            /\ \A e \in Daemons : dpc'[e] \in {"setup", "serving"} => dpc[e] \in {"setup", "serving"} /\ orig'[e] = orig[e]
        BY <2>17, <2>t DEF ClientLockTimeout, Client, locks, faults
      <4> QED
        BY <2>o, <4>1
    <3>3. LoneServed'
      <4>1. cpc'[c] # "start" /\ (\A b \in Clients : b # c => cpc'[b] = cpc[b]) /\ UNCHANGED faults
        BY <2>17, <2>t DEF ClientLockTimeout, Client, faults
      <4>2. ASSUME OnlyChild(c) PROVE FALSE
        <5>1. cpc[c] = "lock" /\ holder[fd[c]] \in Daemons \cup {b \in Clients : cpc[b] = "wait"} /\ fd[c] \in Inodes
          BY <2>17 DEF ClientLockTimeout, Client, Kept, DaemonInv, TypeOK, LockHeld, Procs
        <5>2. \E e \in Daemons : dpc[e] \in DaemonHolds
          BY <2>p, <5>1 DEF LoneInv, HeldInUse, ClientHolds
        <5> QED
          BY <4>2, <5>1, <5>2 DEF OnlyChild, DaemonHolds
      <4> QED
        BY <2>c, <4>1, <4>2
    <3> QED
      BY <3>1, <3>2, <3>3
  <2>18. ASSUME NEW c \in Clients, Recheck(c) PROVE Goal
    <3>1. HeldInUse'
      <4>1. CASE ~ReadAlive
        <5>1. /\ holder' = holder /\ \A x \in Daemons : GoesOnHolding(x)
              /\ \A y \in Clients : ClientGoesOn(y)
          BY <2>18, <4>1, <2>t, <2>p DEF Recheck, Client, DaemonHolds, ClientHolds, locks
        <5> QED
          BY <2>h, <5>1
      <4>2. CASE ReadAlive
        <5>1. /\ Release(c) /\ c \in Procs /\ holder[fd[c]] = c
              /\ \A x \in Daemons : x # c => GoesOnHolding(x)
              /\ \A y \in Clients : y # c => ClientGoesOn(y)
          BY <2>18, <4>2, <2>t, <2>p DEF Recheck, Client, Release, DaemonInv, LockHeld, DaemonHolds, ClientHolds
        <5> HIDE DEF GoesOnHolding, ClientGoesOn
        <5> QED
          BY <2>r, <5>1
      <4> QED
        BY <4>1, <4>2
    <3>2. InodeRecorded'
      <4>1. /\ removals' = removals /\ (path' = path \/ path = 0)
            /\ \A e \in Daemons : dpc'[e] \in {"setup", "serving"} => dpc[e] \in {"setup", "serving"} /\ orig'[e] = orig[e]
        BY <2>18, <2>t DEF Recheck, Client, Release, locks, faults
      <4> QED
        BY <2>o, <4>1
    <3>3. LoneServed'
      <4>1. cpc'[c] # "start" /\ (\A b \in Clients : b # c => cpc'[b] = cpc[b]) /\ UNCHANGED faults
        BY <2>18, <2>t DEF Recheck, Client, faults
      <4>2. Undisturbed /\ Alone(c) /\ OnlyChild(c) => OnlyChild(c)'
        BY <2>18, <2>t, <2>p DEF Recheck, Client, OnlyChild
      <4> QED
        BY <2>c, <4>1, <4>2
    <3> QED
      BY <3>1, <3>2, <3>3
  <2>19. ASSUME NEW c \in Clients, Spawn(c) PROVE Goal
    <3>1. HeldInUse'
      <4>1. /\ holder' = holder /\ \A x \in Daemons : GoesOnHolding(x)
            /\ \A y \in Clients : ClientGoesOn(y)
        BY <2>19, <2>t, <2>p DEF Spawn, Client, Daemon, DaemonHolds, ClientHolds, locks
      <4> QED
        BY <2>h, <4>1
    <3>2. InodeRecorded'
      <4>1. /\ removals' = removals /\ (path' = path \/ path = 0)
            /\ \A e \in Daemons : dpc'[e] \in {"setup", "serving"} => dpc[e] \in {"setup", "serving"} /\ orig'[e] = orig[e]
        BY <2>19, <2>t DEF Spawn, Client, Daemon, locks, faults
      <4> QED
        BY <2>o, <4>1
    <3>3. LoneServed'
      <4>1. cpc'[c] # "start" /\ (\A b \in Clients : b # c => cpc'[b] = cpc[b]) /\ UNCHANGED faults
        BY <2>19, <2>t DEF Spawn, Client, Daemon, faults
      <4>2. Undisturbed /\ Alone(c) /\ OnlyChild(c) => OnlyChild(c)'
        BY <2>19, <2>t, <2>p DEF Spawn, Client, Daemon, OnlyChild
      <4> QED
        BY <2>c, <4>1, <4>2
    <3> QED
      BY <3>1, <3>2, <3>3
  <2>20. ASSUME NEW c \in Clients, SpawnFails(c) PROVE Goal
    <3>1. HeldInUse'
      <4>1. /\ Release(c) /\ c \in Procs /\ holder[fd[c]] = c
            /\ \A x \in Daemons : x # c => GoesOnHolding(x)
            /\ \A y \in Clients : y # c => ClientGoesOn(y)
        BY <2>20, <2>t, <2>p DEF SpawnFails, Client, Release, DaemonInv, LockHeld, DaemonHolds, ClientHolds
      <4> HIDE DEF GoesOnHolding, ClientGoesOn
      <4> QED
        BY <2>r, <4>1
    <3>2. InodeRecorded'
      <4>1. /\ removals' = removals /\ (path' = path \/ path = 0)
            /\ \A e \in Daemons : dpc'[e] \in {"setup", "serving"} => dpc[e] \in {"setup", "serving"} /\ orig'[e] = orig[e]
        BY <2>20, <2>t DEF SpawnFails, Client, Release, locks, faults
      <4> QED
        BY <2>o, <4>1
    <3>3. LoneServed'
      <4>1. cpc'[c] # "start" /\ (\A b \in Clients : b # c => cpc'[b] = cpc[b]) /\ UNCHANGED faults
        BY <2>20, <2>t DEF SpawnFails, Client, faults
      <4>2. Undisturbed /\ Alone(c) /\ OnlyChild(c) => OnlyChild(c)'
        BY <2>20, <2>t, <2>p DEF SpawnFails, Client, OnlyChild
      <4> QED
        BY <2>c, <4>1, <4>2
    <3> QED
      BY <3>1, <3>2, <3>3
  <2>21. ASSUME NEW c \in Clients, ReleaseBeforeWait(c) PROVE Goal
    <3>1. HeldInUse'
      <4>1. /\ Release(c) /\ c \in Procs /\ holder[fd[c]] = c
            /\ \A x \in Daemons : x # c => GoesOnHolding(x)
            /\ \A y \in Clients : y # c => ClientGoesOn(y)
        BY <2>21, <2>t, <2>p DEF ReleaseBeforeWait, Client, Release, DaemonInv, LockHeld, DaemonHolds, ClientHolds
      <4> HIDE DEF GoesOnHolding, ClientGoesOn
      <4> QED
        BY <2>r, <4>1
    <3>2. InodeRecorded'
      <4>1. /\ removals' = removals /\ (path' = path \/ path = 0)
            /\ \A e \in Daemons : dpc'[e] \in {"setup", "serving"} => dpc[e] \in {"setup", "serving"} /\ orig'[e] = orig[e]
        BY <2>21, <2>t DEF ReleaseBeforeWait, Client, Release, locks, faults
      <4> QED
        BY <2>o, <4>1
    <3>3. LoneServed'
      <4>1. cpc'[c] # "start" /\ (\A b \in Clients : b # c => cpc'[b] = cpc[b]) /\ UNCHANGED faults
        BY <2>21, <2>t DEF ReleaseBeforeWait, Client, faults
      <4>2. Undisturbed /\ Alone(c) /\ OnlyChild(c) => OnlyChild(c)'
        BY <2>21, <2>t, <2>p DEF ReleaseBeforeWait, Client, OnlyChild
      <4> QED
        BY <2>c, <4>1, <4>2
    <3> QED
      BY <3>1, <3>2, <3>3
  <2>22. ASSUME NEW c \in Clients, WaitForDaemon(c) PROVE Goal
    <3>1. HeldInUse'
      <4>1. /\ holder' = holder /\ \A x \in Daemons : GoesOnHolding(x)
            /\ \A y \in Clients : ClientGoesOn(y)
        BY <2>22, <2>t, <2>p DEF WaitForDaemon, Client, DaemonHolds, ClientHolds, locks
      <4> QED
        BY <2>h, <4>1
    <3>2. InodeRecorded'
      <4>1. /\ removals' = removals /\ (path' = path \/ path = 0)
            /\ \A e \in Daemons : dpc'[e] \in {"setup", "serving"} => dpc[e] \in {"setup", "serving"} /\ orig'[e] = orig[e]
        BY <2>22, <2>t DEF WaitForDaemon, Client, locks, faults
      <4> QED
        BY <2>o, <4>1
    <3>3. LoneServed'
      <4>1. cpc'[c] # "start" /\ (\A b \in Clients : b # c => cpc'[b] = cpc[b]) /\ UNCHANGED faults
        BY <2>22, <2>t DEF WaitForDaemon, Client, faults
      <4>2. Undisturbed /\ Alone(c) /\ OnlyChild(c) => OnlyChild(c)'
        BY <2>22, <2>t, <2>p DEF WaitForDaemon, Client, OnlyChild
      <4> QED
        BY <2>c, <4>1, <4>2
    <3> QED
      BY <3>1, <3>2, <3>3
  <2>23. ASSUME UNCHANGED vars PROVE Goal
    <3>1. HeldInUse'
      <4>1. /\ holder' = holder /\ \A x \in Daemons : GoesOnHolding(x)
            /\ \A y \in Clients : ClientGoesOn(y)
        BY <2>23, <2>t, <2>p DEF vars, DaemonHolds, ClientHolds, locks
      <4> QED
        BY <2>h, <4>1
    <3>2. InodeRecorded'
      <4>1. /\ removals' = removals /\ (path' = path \/ path = 0)
            /\ \A e \in Daemons : dpc'[e] \in {"setup", "serving"} => dpc[e] \in {"setup", "serving"} /\ orig'[e] = orig[e]
        BY <2>23, <2>t DEF vars, locks, faults
      <4> QED
        BY <2>o, <4>1
    <3>3. LoneServed'
      <4>1. UNCHANGED <<dpc, cpc, child, removals, kills, signals>>
        BY <2>23 DEF vars, faults
      <4> QED
        BY <4>1 DEF LoneInv, Undisturbed, Alone, OnlyChild
    <3> QED
      BY <3>1, <3>2, <3>3
  <2> QED
    <3>1. Goal
      BY <2>1, <2>2, <2>3, <2>4, <2>5, <2>6, <2>7, <2>8, <2>9, <2>10, <2>11, <2>12, <2>13, <2>14, <2>15, <2>16, <2>17, <2>18, <2>19, <2>20, <2>21, <2>22, <2>23
      DEF Next, DaemonStep, ClientStep
    <3> QED
      BY <3>1 DEF LoneInv
<1>3. LoneInv /\ DaemonInv => LoneResolveSucceeds
  <2> SUFFICES ASSUME LoneInv, DaemonInv, removals + kills + signals = 0, NEW c \in Clients,
                      \A b \in Clients \ {c} : cpc[b] = "start"
               PROVE  cpc[c] \notin {"error_lock", "error_exit"}
    BY DEF LoneResolveSucceeds
  <2>1. removals \in Nat /\ kills \in Nat /\ signals \in Nat
    BY BoundsAssumption DEF DaemonInv, TypeOK
  <2>2. Undisturbed /\ Alone(c)
    BY <2>1 DEF Undisturbed, Alone
  <2> QED
    BY <2>2 DEF LoneInv, OnlyChild
<1> QED BY <1>1, <1>2, <1>3, DaemonInvAlways, PTL DEF Spec
=============================================================================
