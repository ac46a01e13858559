--------------------------- MODULE DaemonSingleton ---------------------------
(***************************************************************************)
(* One daemon per state directory: the flock on daemon.lock, the published *)
(* daemon.json, the lock-inode watcher, and the clients that find a daemon *)
(* or spawn one.                                                           *)
(*                                                                         *)
(* flock locks an inode, not a path: an rm -rf of the state directory      *)
(* leaves a daemon holding the lock of a file nobody can open any more,    *)
(* and the next open creates a new inode.  Inodes are numbered in the      *)
(* order of their creation; 0 stands for "no file".                        *)
(*                                                                         *)
(* Time: a process waits for the lock for 250 ms (daemon) or 2 s (client). *)
(* Clients hold it for the few milliseconds of a fork, so that these       *)
(* deadlines are reached only against a process that keeps the lock.       *)
(***************************************************************************)
EXTENDS Naturals, FiniteSets

CONSTANTS Daemons,      \* daemon processes that may be spawned
          Clients,      \* callers of spawn.Resolve
          Nobody,       \* no process
          MaxRemovals,  \* bound on removals of the state directory
          MaxKills,     \* bound on daemons killed or failing in their setup
          MaxSignals    \* bound on daemons told to stop

ASSUME ProcsAssumption ==
  /\ Daemons \cap Clients = {}
  /\ Nobody \notin Daemons \cup Clients

ASSUME BoundsAssumption == MaxRemovals \in Nat /\ MaxKills \in Nat /\ MaxSignals \in Nat

Procs  == Daemons \cup Clients
Inodes == 1..(MaxRemovals + 1)

VARIABLES
  dpc,       \* where each daemon is in run()
  cpc,       \* where each client is in Resolve
  fd,        \* the inode of the lock file each process has open
  holder,    \* who holds the flock of each inode
  path,      \* the inode daemon.lock names
  created,   \* inodes created so far
  orig,      \* originalLockInode of each daemon
  info,      \* the daemon that daemon.json advertises
  child,     \* the daemon each client spawned
  removals, kills, signals

locks  == <<fd, holder, path, created>>
faults == <<removals, kills, signals>>
vars == <<dpc, cpc, locks, orig, info, child, faults>>

Ended == {"ok", "error_lock", "error_spawn", "error_exit", "error_timeout"}

TypeOK ==
  /\ dpc \in [Daemons -> {"unborn", "start", "lock", "stat", "setup", "serving",
                          "removing", "releasing", "exited"}]
  /\ cpc \in [Clients -> {"start", "open", "lock", "recheck", "spawn", "release", "wait"} \cup Ended]
  /\ fd \in [Procs -> Inodes \cup {0}]
  /\ holder \in [Inodes -> Procs \cup {Nobody}]
  /\ path \in Inodes \cup {0}
  /\ created \in Inodes \cup {0}
  /\ orig \in [Daemons -> Inodes \cup {0}]
  /\ info \in Daemons \cup {Nobody}
  /\ child \in [Clients -> Daemons \cup {Nobody}]
  /\ removals \in 0..MaxRemovals /\ kills \in 0..MaxKills /\ signals \in 0..MaxSignals

Init ==
  /\ dpc = [d \in Daemons |-> "unborn"]
  /\ cpc = [c \in Clients |-> "start"]
  /\ fd = [p \in Procs |-> 0]
  /\ holder = [i \in Inodes |-> Nobody]
  /\ path = 0 /\ created = 0
  /\ orig = [d \in Daemons |-> 0]
  /\ info = Nobody
  /\ child = [c \in Clients |-> Nobody]
  /\ removals = 0 /\ kills = 0 /\ signals = 0

-----------------------------------------------------------------------------
(* discovery.Lock: open or create the file, then poll for its flock.       *)

(* Mutant of OpenLock: each process puts a lock file of its own there. *)
OpenFresh(p) ==
  /\ path' = created + 1
  /\ created' = created + 1
  /\ fd' = [fd EXCEPT ![p] = created + 1]
  /\ UNCHANGED holder

OpenLock(p) ==
  LET i == IF path = 0 THEN created + 1 ELSE path
  IN  /\ path' = i
      /\ created' = IF path = 0 THEN i ELSE created
      /\ fd' = [fd EXCEPT ![p] = i]
      /\ UNCHANGED holder

Flock(p) ==
  /\ holder[fd[p]] = Nobody
  /\ holder' = [holder EXCEPT ![fd[p]] = p]
  /\ UNCHANGED <<fd, path, created>>

Release(p) ==
  /\ holder' = [holder EXCEPT ![fd[p]] = Nobody]
  /\ UNCHANGED <<fd, path, created>>

(* The lock p waits for is kept: by a daemon, for its lifetime, or by a    *)
(* client that would not release it before it waits for its daemon.        *)
Kept(p) == holder[fd[p]] \in Daemons \cup {c \in Clients : cpc[c] = "wait"}

(* readAlive: daemon.json can be read and its daemon accepts connections. *)
ReadAlive == info # Nobody /\ dpc[info] = "serving"

-----------------------------------------------------------------------------
(* The daemon: run(), watchLockInode and the deferred cleanup.             *)

Daemon(d, from, to) == dpc[d] = from /\ dpc' = [dpc EXCEPT ![d] = to]

DaemonOpen(d) ==
  /\ Daemon(d, "start", "lock")
  /\ OpenLock(d)
  /\ UNCHANGED <<cpc, orig, info, child, faults>>

DaemonLock(d) ==
  /\ Daemon(d, "lock", "stat")
  /\ Flock(d)
  /\ UNCHANGED <<cpc, orig, info, child, faults>>

DaemonLockTimeout(d) ==
  /\ Daemon(d, "lock", "exited")
  /\ Kept(d)
  /\ UNCHANGED <<cpc, locks, orig, info, child, faults>>

(* LockFileInode looks the path up again; without the file run() returns. *)
DaemonStat(d) ==
  /\ \/ /\ path # 0
        /\ Daemon(d, "stat", "setup")
        /\ orig' = [orig EXCEPT ![d] = path]
        /\ UNCHANGED locks
     \/ /\ path = 0
        /\ Daemon(d, "stat", "exited")
        /\ Release(d)
        /\ UNCHANGED orig
  /\ UNCHANGED <<cpc, info, child, faults>>

(* The vault, a store or the listener cannot be opened. *)
DaemonSetupFails(d) ==
  /\ Daemon(d, "setup", "exited")
  /\ kills < MaxKills
  /\ kills' = kills + 1
  /\ Release(d)
  /\ UNCHANGED <<cpc, orig, info, child, removals, signals>>

(* The listener is bound and discovery.Write publishes it. *)
DaemonPublish(d) ==
  /\ Daemon(d, "setup", "serving")
  /\ info' = d
  /\ UNCHANGED <<cpc, locks, orig, child, faults>>

(* ctx.Done: Shutdown closes the listener. *)
DaemonSignal(d) ==
  /\ Daemon(d, "serving", "removing")
  /\ signals < MaxSignals
  /\ signals' = signals + 1
  /\ UNCHANGED <<cpc, locks, orig, info, child, removals, kills>>

(* The handler cannot be built, or Serve returns: run() returns with the   *)
(* deferred cleanup.                                                       *)
DaemonServeFails(d) ==
  /\ Daemon(d, "serving", "removing")
  /\ kills < MaxKills
  /\ kills' = kills + 1
  /\ UNCHANGED <<cpc, locks, orig, info, child, removals, signals>>

(* Mutant of InodeChanged: only a missing file is noticed. *)
LockFileGone(d) == path = 0

(* The watcher's test: the path names another inode, or nothing. *)
InodeChanged(d) == path # orig[d]

(* A mismatch shuts the daemon down with skipDiscoveryRemove. *)
DaemonWatch(d) ==
  /\ InodeChanged(d)
  /\ Daemon(d, "serving", "releasing")
  /\ UNCHANGED <<cpc, locks, orig, info, child, faults>>

(* Mutant of DaemonRemove: the deferred calls in the opposite order. *)
DaemonReleaseFirst(d) ==
  /\ \/ /\ Daemon(d, "removing", "removing")
        /\ holder[fd[d]] = d
        /\ Release(d)
        /\ UNCHANGED info
     \/ /\ Daemon(d, "removing", "exited")
        /\ holder[fd[d]] # d
        /\ info' = Nobody
        /\ UNCHANGED locks
  /\ UNCHANGED <<cpc, orig, child, faults>>

(* Deferred discovery.Remove, before the deferred release of the lock. *)
DaemonRemove(d) ==
  /\ Daemon(d, "removing", "releasing")
  /\ info' = Nobody
  /\ UNCHANGED <<cpc, locks, orig, child, faults>>

DaemonRelease(d) ==
  /\ Daemon(d, "releasing", "exited")
  /\ Release(d)
  /\ UNCHANGED <<cpc, orig, info, child, faults>>

(* A kill: the kernel drops the flock, the files stay. *)
DaemonKilled(d) ==
  /\ dpc[d] \notin {"unborn", "exited"}
  /\ kills < MaxKills
  /\ kills' = kills + 1
  /\ dpc' = [dpc EXCEPT ![d] = "exited"]
  /\ holder' = [i \in Inodes |-> IF holder[i] = d THEN Nobody ELSE holder[i]]
  /\ UNCHANGED <<cpc, fd, path, created, orig, info, child, removals, signals>>

(* rm -rf of the state directory. *)
RemoveStateDir ==
  /\ removals < MaxRemovals
  /\ path # 0
  /\ removals' = removals + 1
  /\ path' = 0
  /\ info' = Nobody
  /\ UNCHANGED <<dpc, cpc, fd, holder, created, orig, child, kills, signals>>

-----------------------------------------------------------------------------
(* The client: Resolve and waitForDaemon.                                  *)

Client(c, from, to) == cpc[c] = from /\ cpc' = [cpc EXCEPT ![c] = to]

FastPath(c) ==
  /\ Client(c, "start", IF ReadAlive THEN "ok" ELSE "open")
  /\ UNCHANGED <<dpc, locks, orig, info, child, faults>>

ClientOpen(c) ==
  /\ Client(c, "open", "lock")
  /\ OpenLock(c)
  /\ UNCHANGED <<dpc, orig, info, child, faults>>

ClientLock(c) ==
  /\ Client(c, "lock", "recheck")
  /\ Flock(c)
  /\ UNCHANGED <<dpc, orig, info, child, faults>>

ClientLockTimeout(c) ==
  /\ Client(c, "lock", IF ReadAlive THEN "ok" ELSE "error_lock")
  /\ Kept(c)
  /\ UNCHANGED <<dpc, locks, orig, info, child, faults>>

Recheck(c) ==
  /\ \/ /\ ReadAlive
        /\ Client(c, "recheck", "ok")
        /\ Release(c)
     \/ /\ ~ReadAlive
        /\ Client(c, "recheck", "spawn")
        /\ UNCHANGED locks
  /\ UNCHANGED <<dpc, orig, info, child, faults>>

Spawn(c) ==
  /\ Client(c, "spawn", "release")
  /\ \E d \in Daemons : /\ Daemon(d, "unborn", "start")
                        /\ child' = [child EXCEPT ![c] = d]
  /\ UNCHANGED <<locks, orig, info, faults>>

(* SpawnFn fails: the binary cannot be started. *)
SpawnFails(c) ==
  /\ Client(c, "spawn", "error_spawn")
  /\ Release(c)
  /\ UNCHANGED <<dpc, orig, info, child, faults>>

(* Mutant of ReleaseBeforeWait: the lock is held while waiting. *)
WaitWithLock(c) ==
  /\ Client(c, "release", "wait")
  /\ UNCHANGED <<dpc, locks, orig, info, child, faults>>

ReleaseBeforeWait(c) ==
  /\ Client(c, "release", "wait")
  /\ Release(c)
  /\ UNCHANGED <<dpc, orig, info, child, faults>>

(* Mutant of WaitForDaemon: the poll has no deadline of its own. *)
WaitUntilReady(c) ==
  /\ \/ ReadAlive /\ Client(c, "wait", "ok")
     \/ ~ReadAlive /\ Client(c, "wait", "error_exit") /\ dpc[child[c]] = "exited"
  /\ UNCHANGED <<dpc, locks, orig, info, child, faults>>

(* The poll finds a daemon; or the child has exited and one more read      *)
(* finds none; or the deadline passes.                                     *)
WaitForDaemon(c) ==
  /\ \/ ReadAlive /\ Client(c, "wait", "ok")
     \/ ~ReadAlive /\ Client(c, "wait", "error_exit") /\ dpc[child[c]] = "exited"
     \/ ~ReadAlive /\ Client(c, "wait", "error_timeout")
  /\ UNCHANGED <<dpc, locks, orig, info, child, faults>>

-----------------------------------------------------------------------------
DaemonStep(d) ==
  \/ DaemonOpen(d)
  \/ DaemonLock(d)
  \/ DaemonLockTimeout(d)
  \/ DaemonStat(d)
  \/ DaemonPublish(d)
  \/ DaemonWatch(d)
  \/ DaemonRemove(d)
  \/ DaemonRelease(d)

ClientStep(c) ==
  \/ FastPath(c)
  \/ ClientOpen(c)
  \/ ClientLock(c)
  \/ ClientLockTimeout(c)
  \/ Recheck(c)
  \/ Spawn(c)
  \/ SpawnFails(c)
  \/ ReleaseBeforeWait(c)
  \/ WaitForDaemon(c)

Next ==
  \/ \E d \in Daemons : \/ DaemonStep(d) \/ DaemonSetupFails(d) \/ DaemonServeFails(d)
                        \/ DaemonSignal(d) \/ DaemonKilled(d)
  \/ \E c \in Clients : ClientStep(c)
  \/ RemoveStateDir

Spec == Init /\ [][Next]_vars

(* Processes are scheduled, and the watcher's ticker goes on ticking. *)
Fairness ==
  /\ \A d \in Daemons : WF_vars(DaemonStep(d))
  /\ \A c \in Clients : WF_vars(ClientStep(c))

FairSpec == Spec /\ Fairness

-----------------------------------------------------------------------------
(* Properties.                                                             *)

(* As long as nobody removes the state directory, the daemon that serves   *)
(* is the one daemon.json names, so there is only one and clients reach    *)
(* it: no stopping or failing daemon takes another's advertisement away.   *)
OwnerIsAdvertisedUndisturbed ==
  removals = 0 => \A d \in Daemons : dpc[d] = "serving" => info = d

(* A client alone, with no kill, signal, failed setup or removal, is never *)
(* refused: it does not wait for the daemon with the lock the daemon needs *)
(* (its 30 s deadline apart).                                              *)
LoneResolveSucceeds ==
  removals + kills + signals = 0 =>
    \A c \in Clients :
      cpc[c] \in {"error_lock", "error_exit"} => \E b \in Clients \ {c} : cpc[b] # "start"

(* Every Resolve that leaves the fast path ends, with a URL or an error. *)
ResolveEnds == \A c \in Clients : cpc[c] = "open" ~> cpc[c] \in Ended

(* A daemon whose lock file was removed or replaced after it had recorded  *)
(* the inode it locked stops: the watcher notices.                         *)
StrandedDaemonStops ==
  \A d \in Daemons :
    (dpc[d] = "serving" /\ fd[d] # path /\ orig[d] = fd[d]) ~> dpc[d] # "serving"
=============================================================================
