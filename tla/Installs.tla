------------------------------ MODULE Installs ------------------------------
(***************************************************************************)
(* Installing connectors and actions: the content-addressed connector      *)
(* store and its index, the actions directory and the store loaded from    *)
(* it, and the publisher keyring.  Handlers of one daemon run side by side *)
(* and write the three files without a common lock; `aileron keyring`      *)
(* edits the keyring from another process; the user writes, copies and     *)
(* removes action files at will; files may be unreadable for a moment; the *)
(* daemon may die at any point and comes back with what is on disk.        *)
(***************************************************************************)
EXTENDS Naturals, FiniteSets

CONSTANTS Jobs,      \* handlers the daemon can be serving
          Clis,      \* `aileron keyring` processes
          Hashes,    \* connector tarballs, by canonical hash
          Refs,      \* connector name and version
          RefOf,     \* the name and version a tarball's manifest declares
          Scopes,    \* what the keyring grants keys to: owners, repositories, names
          FqnOf,     \* the name of a connector
          AuthOf,    \* its Authority(): the repository
          OwnerOf,   \* the owner of a repository
          Contents,  \* action manifests
          Names,     \* action names
          NameOf,    \* the name a manifest declares
          Deps,      \* a manifest's [[requires.connectors]]
          Signer,    \* the authority of a signed manifest
          Asks,      \* connectors, with or without a hash, that clients ask for
          Drafts,    \* what the user may make of an action's file
          Trusted,   \* the keyring at first
          Stored,    \* tarballs in the store at first, its index file gone
          NoHash,
          Unsigned,
          Missing,   \* no such file
          Empty,     \* truncated, not yet written
          Garbled,   \* two writers' bytes mixed
          MaxRequests, MaxFaults,
          MaxEdits   \* action files edited and keyring commands run by the user

Dependencies == [ref : Refs, hash : Hashes \cup {NoHash}]

ASSUME CatalogueAssumption ==
  /\ RefOf \in [Hashes -> Refs]
  /\ FqnOf \in [Refs -> Scopes] /\ AuthOf \in [Refs -> Scopes]
  /\ OwnerOf \in [Scopes -> Scopes]
  /\ NameOf \in [Contents -> Names]
  /\ Deps \in [Contents -> SUBSET Dependencies]
  /\ Signer \in [Contents -> Scopes \cup {Unsigned}]
  /\ Asks \subseteq Dependencies /\ Trusted \subseteq Scopes /\ Stored \subseteq Hashes
  /\ NoHash \notin Hashes /\ Unsigned \notin Scopes
  /\ {Missing, Empty, Garbled} \cap Contents = {} /\ Missing \notin {Empty, Garbled}
  /\ Drafts \subseteq Contents \cup {Missing, Garbled}
  /\ Jobs \cap Clis = {}

ASSUME BoundAssumption == MaxRequests \in Nat /\ MaxFaults \in Nat /\ MaxEdits \in Nat

Procs == Jobs \cup Clis
Unreadable == {Empty, Garbled}
Whole == "whole"

VARIABLES
  entries,    \* sha256/: connector tarballs on disk
  indexFile,  \* connectors.json
  damaged,    \* connectors.json cannot be decoded
  index,      \* cstore Store.index
  file,       \* the actions directory
  loaded,     \* action Store.actions
  keyring,    \* keyring.json: its keys, when it can be read
  ringFile,   \* keyring.json as a file: "whole", Empty or Garbled
  up,         \* the daemon runs
  pc,         \* where a handler or a keyring command stands
  local,      \* its request and its local variables
  stale,      \* a file it has read was rewritten since
  requests, faults, edits,
  acked,      \* Installs that returned success: the connector asked for, its tarball
  forgotten,  \* those whose tarball declares another connector, at the last rebuild
  revoked,    \* authorities revoked and not trusted again since
  indexRaced, \* an older index was written over a newer one
  ringRaced,  \* an older keyring was written over a newer one
  missed,     \* files a running Load could not read, or that changed since it did
  behind,     \* files changed by the user, or missed by a Load, since a Load had them
  handmade    \* manifests the user has put in place

ringDisk == <<keyring, ringFile>>
indexDisk == <<indexFile, damaged>>
disk == <<entries, indexDisk, file, ringDisk>>
memory == <<index, loaded, up>>
control == <<pc, local, stale>>
budget == <<requests, faults, edits>>
history == <<acked, forgotten, revoked, indexRaced, ringRaced, missed, behind, handmade>>
vars == <<disk, memory, control, budget, history>>

Indexes == [Refs -> Hashes \cup {NoHash}]
NoIndex == [r \in Refs |-> NoHash]
NoActions == [n \in Names |-> Missing]
NoDep == [ref |-> NoHash, hash |-> NoHash]

(* op; authorities to trust or revoke and the one at hand; the keyring it  *)
(* edits; the manifest, force and auto_install_connectors of an action     *)
(* install; connectors to install, the one at hand and its tarball; the    *)
(* index about to be written; files Load has yet to read and has read.     *)
Idle == [op |-> "none", trust |-> {}, auth |-> Unsigned, ring |-> {},
         content |-> Missing, force |-> FALSE, auto |-> FALSE,
         todo |-> {}, cur |-> NoDep, got |-> NoHash, snap |-> NoIndex,
         left |-> {}, scan |-> NoActions]

Locals ==
  [op : {"none", "connector", "action", "list", "sync", "trust", "trustPlan", "revoke"},
   trust : SUBSET Scopes, auth : Scopes \cup {Unsigned}, ring : SUBSET Scopes,
   content : Contents \cup {Missing}, force : BOOLEAN, auto : BOOLEAN,
   todo : SUBSET Dependencies, cur : Dependencies \cup {NoDep},
   got : Hashes \cup {NoHash}, snap : Indexes,
   left : SUBSET Names, scan : [Names -> Contents \cup {Missing}]]

Places == {"idle", "exited", "confirm", "truncateRing", "writeRing", "fetch", "check",
           "next", "pull", "commit", "record", "snapshot", "rename",
           "dest", "truncate", "write", "scan", "read"}

TypeOK ==
  /\ entries \in SUBSET Hashes
  /\ indexFile \in Indexes /\ damaged \in BOOLEAN
  /\ index \in Indexes
  /\ file \in [Names -> Contents \cup Unreadable \cup {Missing}]
  /\ loaded \in [Names -> Contents \cup {Missing}]
  /\ keyring \in SUBSET Scopes /\ ringFile \in {Whole} \cup Unreadable
  /\ up \in BOOLEAN
  /\ pc \in [Procs -> Places]
  /\ local \in [Procs -> Locals]
  /\ stale \in [Procs -> BOOLEAN]
  /\ requests \in 0..MaxRequests /\ faults \in 0..MaxFaults /\ edits \in 0..MaxEdits
  /\ acked \in SUBSET Dependencies /\ forgotten \in SUBSET Dependencies
  /\ revoked \in SUBSET Scopes
  /\ indexRaced \in BOOLEAN /\ ringRaced \in BOOLEAN
  /\ missed \in [Jobs -> SUBSET Names]
  /\ behind \in SUBSET Names /\ handmade \in SUBSET Contents

Init ==
  /\ entries = Stored /\ indexFile = NoIndex /\ damaged = FALSE /\ index = NoIndex
  /\ file = NoActions /\ loaded = NoActions
  /\ keyring = Trusted /\ ringFile = Whole
  /\ up = TRUE
  /\ pc = [p \in Procs |-> "idle"]
  /\ local = [p \in Procs |-> Idle]
  /\ stale = [p \in Procs |-> FALSE]
  /\ requests = 0 /\ faults = 0 /\ edits = 0
  /\ acked = {} /\ forgotten = {} /\ revoked = {}
  /\ indexRaced = FALSE /\ ringRaced = FALSE
  /\ missed = [j \in Jobs |-> {}] /\ behind = {} /\ handmade = {}

At(p, place) == pc[p] = place
Go(p, place) == pc' = [pc EXCEPT ![p] = place]
Fresh(p) == stale' = [stale EXCEPT ![p] = FALSE]

(* Others at one of the places hold a copy older than the one p writes. *)
Outdates(p, places) ==
  stale' = [q \in Procs |-> q # p /\ (stale[q] \/ pc[q] \in places)]

Return(p) ==
  /\ Go(p, IF p \in Jobs THEN "idle" ELSE "exited")
  /\ local' = [local EXCEPT ![p] = Idle]

-----------------------------------------------------------------------------
(* Requests.                                                               *)

Begin(p, request, place) ==
  /\ At(p, "idle")
  /\ local' = [local EXCEPT ![p] = request]
  /\ Go(p, place)
  /\ Fresh(p)
  /\ UNCHANGED <<disk, memory, faults, history>>

Accept(j, request, place) ==
  /\ up
  /\ requests < MaxRequests
  /\ requests' = requests + 1
  /\ UNCHANGED edits
  /\ Begin(j, request, place)

(* The optional expected hash is d.hash; a confirmed fingerprint goes      *)
(* through confirmHubTrust before the pipeline.                            *)
InstallConnector(j, d, confirmed) ==
  Accept(j, [Idle EXCEPT !.op = "connector", !.todo = {d},
                         !.trust = IF confirmed THEN {FqnOf[d.ref]} ELSE {}],
         IF confirmed THEN "confirm" ELSE "next")

InstallAction(j, c, force, auto, confirmed) ==
  LET trust == IF confirmed THEN {FqnOf[d.ref] : d \in Deps[c]} ELSE {} IN
  Accept(j, [Idle EXCEPT !.op = "action", !.content = c, !.force = force, !.auto = auto,
                         !.trust = trust],
         IF trust # {} THEN "confirm" ELSE "fetch")

ListActions(j) == Accept(j, [Idle EXCEPT !.op = "list"], "scan")

(* What the loaded actions require, by name and version only. *)
collectRequiredConnectors ==
  {[ref |-> d.ref, hash |-> NoHash] :
      d \in UNION {Deps[loaded[n]] : n \in {m \in Names : loaded[m] # Missing}}}

Sync(j) ==
  Accept(j, [Idle EXCEPT !.op = "sync", !.todo = collectRequiredConnectors], "next")

Command(k, request) ==
  /\ edits < MaxEdits
  /\ edits' = edits + 1
  /\ UNCHANGED requests
  /\ Begin(k, request, "confirm")

runKeyringTrust(k, r) ==
  Command(k, [Idle EXCEPT !.op = "trust", !.trust = {OwnerOf[AuthOf[r]]}])
runKeyringTrustPlan(k, r) ==
  Command(k, [Idle EXCEPT !.op = "trustPlan", !.trust = {AuthOf[r]}])
runKeyringRevoke(k, a) ==
  Command(k, [Idle EXCEPT !.op = "revoke", !.trust = {a}])

-----------------------------------------------------------------------------
(* The keyring: load, edit, rewrite in place.                              *)

(* ReloadingKeyring.Verify: a key of the repository or of its owner. *)
Verify(a) == ringFile = Whole /\ {a, OwnerOf[a]} \cap keyring # {}

Revoking(p) == local[p].op = "revoke"

(* The edit would leave the keyring as it is. *)
Settled(p, a) ==
  CASE Revoking(p) -> a \notin keyring
    [] local[p].op = "trustPlan" -> Verify(a)
    [] OTHER -> a \in keyring

(* One scope is settled: the next one, or on with the request. *)
Onward(p, rest) ==
  LET settled == [local EXCEPT ![p].trust = rest, ![p].auth = Unsigned, ![p].ring = {}] IN
  CASE rest # {} -> Go(p, "confirm") /\ local' = settled
    [] rest = {} /\ local[p].op = "connector" -> Go(p, "next") /\ local' = settled
    [] rest = {} /\ local[p].op = "action" -> Go(p, "fetch") /\ local' = settled
    [] OTHER -> Return(p)

(* One scope: resolve its key (which may fail: Fail), load the keyring. *)
LoadKeyring(p, a) ==
  /\ At(p, "confirm") /\ a \in local[p].trust
  /\ ringFile = Whole
  /\ Fresh(p)
  /\ IF Settled(p, a)
     THEN Onward(p, local[p].trust \ {a})
     ELSE /\ Go(p, "truncateRing")
          /\ local' = [local EXCEPT ![p].trust = @ \ {a}, ![p].auth = a, ![p].ring = keyring]
  /\ UNCHANGED <<disk, memory, budget, history>>

TruncateKeyring(p) ==
  /\ At(p, "truncateRing")
  /\ ringFile' = Empty
  /\ Go(p, "writeRing")
  /\ UNCHANGED <<entries, indexDisk, file, keyring, memory, local, stale, budget, history>>

(* A write into a file another writer has filled since may leave its tail. *)
Overwritten(old, new) == IF old = Empty THEN {new} ELSE {new, Garbled}

Edited(p) ==
  IF Revoking(p) THEN local[p].ring \ {local[p].auth} ELSE local[p].ring \cup {local[p].auth}

(* Mutant of SaveKeyring: the edit is applied to the wrong copy. *)
SaveLoaded(p) ==
  /\ At(p, "writeRing")
  /\ keyring' = local[p].ring
  /\ ringFile' \in Overwritten(ringFile, Whole)
  /\ ringRaced' = (ringRaced \/ stale[p])
  /\ revoked' = IF Revoking(p) THEN revoked \cup {local[p].auth} ELSE revoked \ {local[p].auth}
  /\ Outdates(p, {"truncateRing", "writeRing"})
  /\ Onward(p, local[p].trust)
  /\ UNCHANGED <<entries, indexDisk, file, memory, budget, acked, forgotten, indexRaced,
                 missed, behind, handmade>>

SaveKeyring(p) ==
  /\ At(p, "writeRing")
  /\ keyring' = Edited(p)
  /\ ringFile' \in Overwritten(ringFile, Whole)
  /\ ringRaced' = (ringRaced \/ stale[p])
  /\ revoked' = IF Revoking(p) THEN revoked \cup {local[p].auth} ELSE revoked \ {local[p].auth}
  /\ Outdates(p, {"truncateRing", "writeRing"})
  /\ Onward(p, local[p].trust)
  /\ UNCHANGED <<entries, indexDisk, file, memory, budget, acked, forgotten, indexRaced,
                 missed, behind, handmade>>

-----------------------------------------------------------------------------
(* Installer.Install, for one connector after the other.                   *)

(* Sync passes over what the index knows, whatever hash an action pins. *)
KnownToSync(j, d) == local[j].op = "sync" /\ index[d.ref] # NoHash

(* The next connector; a pinned hash that is on disk needs no fetch, and   *)
(* is recorded under the name that was asked for.                          *)
NextConnector(j, d) ==
  /\ At(j, "next") /\ d \in local[j].todo
  /\ local' = [local EXCEPT ![j].todo = @ \ {d}, ![j].cur = d, ![j].got = d.hash]
  /\ CASE KnownToSync(j, d) -> UNCHANGED pc
       [] ~KnownToSync(j, d) /\ d.hash \in entries -> Go(j, "record")
       [] OTHER -> Go(j, "pull")
  /\ UNCHANGED <<stale, disk, memory, budget, history>>

(* Mutant of Pull: the declared hash is not compared. *)
PullAnyHash(j, h) ==
  /\ At(j, "pull")
  /\ RefOf[h] = local[j].cur.ref
  /\ Verify(AuthOf[RefOf[h]])
  /\ local' = [local EXCEPT ![j].got = h]
  /\ Go(j, "commit")
  /\ UNCHANGED <<stale, disk, memory, budget, history>>

(* Fetch, extract, validate, verify, hash: a tarball that declares another *)
(* name or version, or another hash than the caller's, is refused.         *)
Pull(j, h) ==
  /\ At(j, "pull")
  /\ RefOf[h] = local[j].cur.ref
  /\ Verify(AuthOf[RefOf[h]])
  /\ local[j].cur.hash \in {NoHash, h}
  /\ local' = [local EXCEPT ![j].got = h]
  /\ Go(j, "commit")
  /\ UNCHANGED <<stale, disk, memory, budget, history>>

(* The temp directory is renamed into place; whoever loses the race finds  *)
(* the same bytes there.                                                   *)
CommitDir(j) ==
  /\ At(j, "commit")
  /\ entries' = entries \cup {local[j].got}
  /\ Go(j, "record")
  /\ UNCHANGED <<indexDisk, file, ringDisk, memory, local, stale, budget, history>>

recordIndex(j) ==
  /\ At(j, "record")
  /\ index' = [index EXCEPT ![local[j].cur.ref] = local[j].got]
  /\ Go(j, "snapshot")
  /\ UNCHANGED <<disk, loaded, up, local, stale, budget, history>>

(* persistIndex: the index is copied under the lock and written without it.*)
SnapshotIndex(j) ==
  /\ At(j, "snapshot")
  /\ local' = [local EXCEPT ![j].snap = index]
  /\ Fresh(j)
  /\ Go(j, "rename")
  /\ UNCHANGED <<disk, memory, budget, history>>

RenameIndex(j) ==
  /\ At(j, "rename")
  /\ indexFile' = local[j].snap /\ damaged' = FALSE
  /\ indexRaced' = (indexRaced \/ stale[j])
  /\ LET report == [ref |-> local[j].cur.ref, hash |-> local[j].got] IN
       acked' = acked \cup {report} /\ forgotten' = forgotten \ {report}
  /\ Outdates(j, {"rename"})
  /\ local' = [local EXCEPT ![j].cur = NoDep, ![j].got = NoHash, ![j].snap = NoIndex]
  /\ Go(j, "next")
  /\ UNCHANGED <<entries, file, ringDisk, memory, budget, revoked, ringRaced,
                 missed, behind, handmade>>

(* All connectors done: the answer, or the action itself. *)
Installed(j) ==
  /\ At(j, "next") /\ local[j].todo = {}
  /\ IF local[j].op = "action" THEN Go(j, "dest") /\ UNCHANGED local ELSE Return(j)
  /\ UNCHANGED <<stale, disk, memory, budget, history>>

-----------------------------------------------------------------------------
(* runInstallAction.                                                       *)

FetchAction(j) ==
  /\ At(j, "fetch")
  /\ Signer[local[j].content] # Unsigned => Verify(Signer[local[j].content])
  /\ Go(j, "check")
  /\ UNCHANGED <<local, stale, disk, memory, budget, history>>

Present(d) ==
  IF d.hash # NoHash THEN d.hash \in entries
                     ELSE \E r \in Refs : index[r] # NoHash /\ FqnOf[r] = FqnOf[d.ref]

CheckConnectors(j) ==
  LET missing == {d \in Deps[local[j].content] : ~Present(d)} IN
  /\ At(j, "check")
  /\ IF missing # {} /\ ~local[j].auto
     THEN Return(j)  \* connectors_missing
     ELSE Go(j, "next") /\ local' = [local EXCEPT ![j].todo = missing]
  /\ UNCHANGED <<stale, disk, memory, budget, history>>

Name(j) == NameOf[local[j].content]

(* The same bytes: installed already, nothing is loaded.  Others: refused  *)
(* unless forced.                                                          *)
ReadDest(j) ==
  /\ At(j, "dest")
  /\ IF file[Name(j)] = Missing \/ (file[Name(j)] # local[j].content /\ local[j].force)
     THEN Go(j, "truncate") /\ UNCHANGED local
     ELSE Return(j)
  /\ UNCHANGED <<stale, disk, memory, budget, history>>

(* A file that is there and cannot be read is overwritten, forced or not. *)
MissDest(j) ==
  /\ At(j, "dest")
  /\ file[Name(j)] # Missing
  /\ faults < MaxFaults
  /\ faults' = faults + 1
  /\ Go(j, "truncate")
  /\ UNCHANGED <<local, stale, disk, memory, requests, edits, history>>

TruncateAction(j) ==
  /\ At(j, "truncate")
  /\ file' = [file EXCEPT ![Name(j)] = Empty]
  /\ Go(j, "write")
  /\ UNCHANGED <<entries, indexDisk, ringDisk, memory, local, stale, budget, history>>

(* Mutant of WriteAction: the store is not reloaded. *)
WriteWithoutLoad(j) ==
  /\ At(j, "write")
  /\ \E new \in Overwritten(file[Name(j)], local[j].content) :
        file' = [file EXCEPT ![Name(j)] = new]
  /\ UNCHANGED stale
  /\ Return(j)
  /\ UNCHANGED <<entries, indexDisk, ringDisk, memory, budget, history>>

(* A Load that has passed this file by keeps the old one. *)
Overtake(n) ==
  missed' = [j \in Jobs |-> IF At(j, "read") /\ n \notin local[j].left
                            THEN missed[j] \cup {n} ELSE missed[j]]

WriteAction(j) ==
  /\ At(j, "write")
  /\ \E new \in Overwritten(file[Name(j)], local[j].content) :
        file' = [file EXCEPT ![Name(j)] = new]
  /\ Overtake(Name(j))
  /\ Go(j, "scan")
  /\ UNCHANGED <<entries, indexDisk, ringDisk, memory, local, stale, budget,
                 acked, forgotten, revoked, indexRaced, ringRaced, behind, handmade>>

(* The user creates, copies in, edits or removes an action's file, not     *)
(* between the truncation and the write of an install of that action.      *)
EditFile(n, content) ==
  /\ edits < MaxEdits
  /\ edits' = edits + 1
  /\ content \in Contents => NameOf[content] = n
  /\ content # file[n]
  /\ \A j \in Jobs : At(j, "write") => Name(j) # n
  /\ file' = [file EXCEPT ![n] = content]
  /\ Overtake(n)
  /\ behind' = behind \cup {n}
  /\ handmade' = handmade \cup ({content} \cap Contents)
  /\ UNCHANGED <<entries, indexDisk, ringDisk, memory, control, requests, faults,
                 acked, forgotten, revoked, indexRaced, ringRaced>>

-----------------------------------------------------------------------------
(* Store.Load: the directory, then one file after the other, then the swap.*)

ReadDir(j) ==
  /\ At(j, "scan")
  /\ local' = [local EXCEPT ![j].left = {n \in Names : file[n] # Missing},
                            ![j].scan = NoActions]
  /\ Go(j, "read")
  /\ UNCHANGED <<stale, disk, memory, budget, history>>

(* The directory cannot be read: what was loaded stays.  An install has    *)
(* logged it and reports success; a listing answers with the error.        *)
FailLoad(j) ==
  /\ At(j, "scan")
  /\ faults < MaxFaults
  /\ faults' = faults + 1
  /\ behind' = IF local[j].op = "action" THEN behind \cup {Name(j)} ELSE behind
  /\ Return(j)
  /\ UNCHANGED <<stale, disk, memory, requests, edits, acked, forgotten, revoked,
                 indexRaced, ringRaced, missed, handmade>>

(* Mutant of Parsed: a file that does not parse is kept. *)
ParsedAnything(content) == content

(* A file that does not parse is reported and left out. *)
Parsed(content) == IF content \in Contents THEN content ELSE Missing

ReadFile(j, n) ==
  /\ At(j, "read") /\ n \in local[j].left
  /\ local' = [local EXCEPT ![j].left = @ \ {n}, ![j].scan[n] = Parsed(file[n])]
  /\ UNCHANGED <<pc, stale, disk, memory, budget, history>>

(* So is one that cannot be read. *)
SkipFile(j, n) ==
  /\ At(j, "read") /\ n \in local[j].left
  /\ faults < MaxFaults
  /\ faults' = faults + 1
  /\ local' = [local EXCEPT ![j].left = @ \ {n}]
  /\ missed' = [missed EXCEPT ![j] = @ \cup {n}]
  /\ UNCHANGED <<pc, stale, disk, memory, requests, edits, acked, forgotten, revoked,
                 indexRaced, ringRaced, behind, handmade>>

Replace(j) ==
  /\ At(j, "read") /\ local[j].left = {}
  /\ loaded' = local[j].scan
  /\ behind' = missed[j]
  /\ missed' = [missed EXCEPT ![j] = {}]
  /\ Return(j)
  /\ UNCHANGED <<disk, index, up, stale, budget, acked, forgotten, revoked,
                 indexRaced, ringRaced, handmade>>

-----------------------------------------------------------------------------
(* Failures.                                                               *)

Fallible == {"confirm", "truncateRing", "writeRing", "fetch", "pull", "commit",
             "snapshot", "rename", "dest", "truncate", "write"}

(* A fetch, a check or a write fails, or at "dest" the directory cannot be *)
(* made: the request ends where it stands, except that Sync goes on with   *)
(* the next connector.                                                     *)
Fail(p) ==
  /\ pc[p] \in Fallible
  /\ faults < MaxFaults
  /\ faults' = faults + 1
  /\ IF local[p].op = "sync" THEN Go(p, "next") /\ UNCHANGED local ELSE Return(p)
  /\ UNCHANGED <<stale, disk, memory, requests, edits, history>>

(* What the code refuses at once: an untrusted signature, an unreadable    *)
(* keyring, a tarball other than the pinned one.                           *)
Refuse(p) ==
  /\ \/ At(p, "confirm") /\ local[p].trust # {} /\ ringFile # Whole
     \/ At(p, "fetch") /\ Signer[local[p].content] # Unsigned /\ ~Verify(Signer[local[p].content])
     \/ At(p, "pull") /\ \/ ~Verify(AuthOf[local[p].cur.ref])
                         \/ ~\E h \in Hashes : RefOf[h] = local[p].cur.ref
                         \/ local[p].cur.hash # NoHash /\ \E h \in Hashes : h # local[p].cur.hash
  /\ IF local[p].op = "sync" THEN Go(p, "next") /\ UNCHANGED local ELSE Return(p)
  /\ UNCHANGED <<stale, disk, memory, budget, history>>

(* The daemon dies, at any point of any handler. *)
Crash ==
  /\ up /\ faults < MaxFaults
  /\ up' = FALSE
  /\ faults' = faults + 1
  /\ pc' = [p \in Procs |-> IF p \in Jobs THEN "idle" ELSE pc[p]]
  /\ local' = [p \in Procs |-> IF p \in Jobs THEN Idle ELSE local[p]]
  /\ missed' = [j \in Jobs |-> {}]
  /\ UNCHANGED <<stale, disk, index, loaded, requests, edits, acked, forgotten, revoked,
                 indexRaced, ringRaced, behind, handmade>>

(* Something outside damages the index file. *)
DamageIndex ==
  /\ ~up
  /\ damaged' = TRUE
  /\ UNCHANGED <<entries, indexFile, file, ringDisk, memory, control, budget, history>>

(* RebuildIndex: what the manifests on disk declare. *)
Rebuilt ==
  {i \in Indexes : \A r \in Refs :
      LET hs == {h \in entries : RefOf[h] = r} IN
      IF hs = {} THEN i[r] = NoHash ELSE i[r] \in hs}

(* The Load at startup: it leaves out what it cannot read, or everything. *)
LoadAtStart(omitted) ==
  /\ omitted # {} => faults < MaxFaults
  /\ faults' = IF omitted = {} THEN faults ELSE faults + 1
  /\ loaded' = [n \in Names |-> IF n \in omitted THEN Missing ELSE Parsed(file[n])]
  /\ behind' = omitted

(* Mutant of Restart: an unreadable index is taken for an empty one. *)
RestartEmpty(omitted) ==
  /\ ~up
  /\ up' = TRUE
  /\ index' = IF damaged THEN NoIndex ELSE indexFile
  /\ indexFile' = index' /\ damaged' = FALSE
  /\ UNCHANGED forgotten
  /\ LoadAtStart(omitted)
  /\ UNCHANGED <<entries, file, ringDisk, control, requests, edits, acked, revoked,
                 indexRaced, ringRaced, missed, handmade>>

Restart(omitted) ==
  /\ ~up
  /\ up' = TRUE
  /\ index' \in IF damaged THEN Rebuilt ELSE {indexFile}
  /\ indexFile' = index' /\ damaged' = FALSE
  /\ forgotten' = IF damaged THEN {a \in acked : RefOf[a.hash] # a.ref} ELSE forgotten
  /\ LoadAtStart(omitted)
  /\ UNCHANGED <<entries, file, ringDisk, control, requests, edits, acked, revoked,
                 indexRaced, ringRaced, missed, handmade>>

-----------------------------------------------------------------------------
Request(j) ==
  \/ \E d \in Asks, confirmed \in BOOLEAN : InstallConnector(j, d, confirmed)
  \/ \E c \in Contents, force, auto, confirmed \in BOOLEAN :
        InstallAction(j, c, force, auto, confirmed)
  \/ ListActions(j)
  \/ Sync(j)

Pipeline(j) ==
  \/ \E d \in Dependencies : NextConnector(j, d)
  \/ \E h \in Hashes : Pull(j, h)
  \/ CommitDir(j) \/ recordIndex(j) \/ SnapshotIndex(j) \/ RenameIndex(j) \/ Installed(j)
  \/ FetchAction(j) \/ CheckConnectors(j)
  \/ ReadDest(j) \/ MissDest(j) \/ TruncateAction(j) \/ WriteAction(j)
  \/ ReadDir(j) \/ FailLoad(j) \/ Replace(j)
  \/ \E n \in Names : ReadFile(j, n) \/ SkipFile(j, n)

Keyring(p) ==
  \/ \E a \in Scopes : LoadKeyring(p, a)
  \/ TruncateKeyring(p) \/ SaveKeyring(p)

Next ==
  \/ \E j \in Jobs : Request(j) \/ Pipeline(j)
  \/ \E k \in Clis, r \in Refs : runKeyringTrust(k, r) \/ runKeyringTrustPlan(k, r)
  \/ \E k \in Clis, a \in Scopes : runKeyringRevoke(k, a)
  \/ \E p \in Procs : Keyring(p) \/ Fail(p) \/ Refuse(p)
  \/ \E n \in Names, content \in Drafts : EditFile(n, content)
  \/ Crash \/ DamageIndex
  \/ \E omitted \in SUBSET Names : Restart(omitted)

Spec == Init /\ [][Next]_vars

-----------------------------------------------------------------------------
(* The tarballs an index names. *)
Named(i) == {i[r] : r \in Refs} \ {NoHash}

(* Whatever the index in memory, the index on disk, a copy about to be     *)
(* written there or an installed action's pin names is in the store, at    *)
(* every point of every install and after a crash: install publishes the   *)
(* tarball before anything refers to it, and nothing is ever removed.  An  *)
(* action whose manifest the user put in place may pin what is not stored: *)
(* fetching that is what Sync is for.                                      *)
NoDanglingReference ==
  /\ Named(index) \subseteq entries
  /\ ~damaged => Named(indexFile) \subseteq entries
  /\ \A j \in Jobs : Named(local[j].snap) \subseteq entries
  /\ \A n \in Names : loaded[n] \notin handmade \cup {Missing} =>
        {d.hash : d \in Deps[loaded[n]]} \ {NoHash} \subseteq entries

(* A connector whose install was reported is in the index file, and in the *)
(* index of a running daemon, across crashes, restarts and rebuilds, with  *)
(* two exceptions.  persistIndex may have put an older copy over a newer   *)
(* one.  And a stored tarball that declares another connector than the one *)
(* asked for is recorded under the name asked for, which the next rebuild, *)
(* going by what tarballs declare, forgets.                                *)
AckedConnectorIsKnown ==
  ~indexRaced =>
    \A a \in acked \ forgotten :
      /\ ~damaged => indexFile[a.ref] # NoHash
      /\ up => index[a.ref] # NoHash

(* A running daemon has an action in memory as its file is on disk, even   *)
(* while others list and install, whenever the file can be parsed and no   *)
(* install of that action is between its write and its Load, except that   *)
(* until the next complete Load it may be behind on a file that the user   *)
(* has changed, that a Load could not read or had read before it was       *)
(* written, or that was installed and then not loaded because the          *)
(* directory could not be read: the install only logs that.                *)
LoadedIsCurrent ==
  up => \A n \in Names \ behind :
    \/ file[n] \in Unreadable
    \/ loaded[n] = file[n]
    \/ \E j \in Jobs : local[j].op = "action" /\ Name(j) = n /\ pc[j] \in {"scan", "read"}

(* An authority revoked with `aileron keyring revoke` and not trusted      *)
(* again since is not in the keyring, unless two edits of the keyring      *)
(* overlapped, one of them from a copy read before the other.              *)
RevokeHolds ==
  ~ringRaced /\ ringFile = Whole => revoked \cap keyring = {}
=============================================================================
