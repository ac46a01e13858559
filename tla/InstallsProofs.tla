--------------------------- MODULE InstallsProofs ---------------------------
(***************************************************************************)
(* Proofs about Installs, for every catalogue of connectors and actions,   *)
(* every set of handlers and keyring commands and every bound.             *)
(***************************************************************************)
EXTENDS Installs, TLAPS

-----------------------------------------------------------------------------
(* The inductive invariant.                                                *)

(* The tarballs an action manifest pins. *)
Pins(c) == {d.hash : d \in Deps[c]} \ {NoHash}

(* At place x with locals l, a handler has what its next step reads. *)
PlaceOK(x, l) ==
  /\ l.op = "action" => l.content \in Contents
  /\ x \in {"fetch", "check", "dest", "truncate", "write"} => l.op = "action"
  /\ x \in {"pull", "commit", "record", "snapshot", "rename"} => l.cur \in Dependencies
  /\ x = "commit" => l.got \in Hashes /\ l.cur.hash \in {NoHash, l.got}
  /\ x \in {"record", "snapshot", "rename"} => l.got \in entries

(* An action install that goes through its connectors has those it has     *)
(* passed in the store, and one that writes the manifest has all of them.  *)
Provided(x, l) ==
  l.op = "action" =>
    /\ x \in {"next", "pull", "commit", "record", "snapshot", "rename"} =>
         \A d \in Deps[l.content] :
           \/ d.hash \in entries \cup {NoHash}
           \/ d \in l.todo
           \/ x \in {"pull", "commit"} /\ l.cur = d
    /\ x \in {"dest", "truncate", "write"} => Pins(l.content) \subseteq entries

(* What a handler carries to the index or to the loaded actions refers to  *)
(* tarballs in the store, but for the manifests the user has put in place. *)
Carries(l) ==
  /\ Named(l.snap) \subseteq entries
  /\ \A n \in Names : l.scan[n] \notin handmade \cup {Missing} => Pins(l.scan[n]) \subseteq entries

(* The connector at hand is in the index, and the copy about to be written *)
(* knows it and, unless stale, every connector reported so far that the    *)
(* last rebuild did not forget.                                            *)
Recorded(x, l, old) ==
  /\ x \in {"snapshot", "rename"} => index[l.cur.ref] # NoHash
  /\ x = "rename" => l.snap[l.cur.ref] # NoHash
  /\ x = "rename" /\ ~old /\ ~indexRaced => \A a \in acked \ forgotten : l.snap[a.ref] # NoHash

JobOK(x, l, old) ==
  PlaceOK(x, l) /\ Provided(x, l) /\ Carries(l) /\ Recorded(x, l, old)

JobInv == \A j \in Jobs : JobOK(pc[j], local[j], stale[j])

(* A Load has read its files as they are, but for those it missed. *)
ScanInv ==
  \A j \in Jobs : pc[j] = "read" =>
    \A n \in Names \ (local[j].left \cup missed[j]) :
      file[n] \in Unreadable \/ local[j].scan[n] = file[n]

(* The disk and what a running daemon has in memory.                       *)
DiskInv ==
  /\ ~up => \A j \in Jobs : pc[j] = "idle"
  /\ NoDanglingReference
  /\ \A n \in Names : file[n] \in Contents \ handmade => Pins(file[n]) \subseteq entries
  /\ \A a \in acked : a.hash \in entries
  /\ AckedConnectorIsKnown
  /\ LoadedIsCurrent

(* An edit of the keyring starts from its keys, unless it is stale. *)
RingInv ==
  /\ \A p \in Procs : pc[p] \in {"truncateRing", "writeRing"} =>
       local[p].auth \in Scopes /\ (~stale[p] => local[p].ring = keyring)
  /\ ~ringRaced => revoked \cap keyring = {}

InstallInv == TypeOK /\ JobInv /\ ScanInv /\ DiskInv /\ RingInv

-----------------------------------------------------------------------------
(* Steps.                                                                  *)

(* A step of p: the others stand where they stood, and are no less stale. *)
Others(p) ==
  \A q \in Procs \ {p} : pc'[q] = pc[q] /\ local'[q] = local[q] /\ (stale[q] => stale'[q])

(* The invariant holds of every reachable state. *)
LEMMA InstallInvariant == Spec => []InstallInv
<1>1. Init => InstallInv
  <2> SUFFICES ASSUME Init PROVE InstallInv
    OBVIOUS
  <2>1. TypeOK
    <3>1. NoIndex \in Indexes /\ NoActions \in [Names -> Contents \cup {Missing}] /\ Idle \in Locals
      BY DEF NoIndex, Indexes, NoActions, Idle, Locals
    <3>2. 0 \in 0..MaxRequests /\ 0 \in 0..MaxFaults /\ 0 \in 0..MaxEdits
      BY BoundAssumption
    <3>3. file \in [Names -> Contents \cup Unreadable \cup {Missing}]
      BY DEF Init, NoActions
    <3>4. pc \in [Procs -> Places] /\ local \in [Procs -> Locals] /\ stale \in [Procs -> BOOLEAN]
      BY <3>1 DEF Init, Places
    <3> QED
      BY <3>1, <3>2, <3>3, <3>4, CatalogueAssumption DEF Init, TypeOK
  <2>2. JobInv
    <3>1. \A j \in Jobs : pc[j] = "idle" /\ local[j] = Idle
      BY DEF Init, Procs
    <3>2. Carries(Idle)
      BY DEF Carries, Idle, Named, NoIndex, NoActions
    <3>3. \A old : JobOK("idle", Idle, old)
      BY <3>2 DEF JobOK, PlaceOK, Provided, Recorded, Idle
    <3> QED
      BY <3>1, <3>3 DEF JobInv
  <2>3. DiskInv
    <3>1. Named(NoIndex) = {} /\ \A j \in Jobs : local[j].snap = NoIndex
      BY DEF Named, NoIndex, Init, Idle, Procs
    <3>2. \A n \in Names : file[n] = Missing /\ loaded[n] = Missing
      BY DEF Init, NoActions
    <3> QED
      BY <3>1, <3>2, CatalogueAssumption
      DEF Init, DiskInv, NoDanglingReference, AckedConnectorIsKnown, LoadedIsCurrent
  <2>4. RingInv /\ ScanInv
    BY DEF Init, RingInv, ScanInv, Procs
  <2> QED
    BY <2>1, <2>2, <2>3, <2>4 DEF InstallInv
(* Every step keeps the files, the daemon and the requests well-formed. *)
<1>2. InstallInv /\ [Next]_vars => TypeOK'
  <2> SUFFICES ASSUME InstallInv, [Next]_vars PROVE TypeOK'
    OBVIOUS
  <2>t. TypeOK
    BY DEF InstallInv
  <2>l. pc \in [Procs -> Places] /\ local \in [Procs -> Locals] /\ stale \in [Procs -> BOOLEAN]
    BY <2>t DEF TypeOK
  <2>s. Jobs \subseteq Procs /\ Clis \subseteq Procs /\ Idle \in Locals
    BY DEF Procs, Idle, Locals, NoIndex, NoActions, Indexes
  <2>j. \A j \in Jobs : PlaceOK(pc[j], local[j])
    BY DEF InstallInv, JobInv, JobOK
  <2>g. ASSUME NEW p \in Procs, NEW x \in Places, Go(p, x) PROVE pc' \in [Procs -> Places]
    BY <2>g, <2>l DEF Go
  <2>r. ASSUME NEW p \in Procs, Return(p) PROVE pc' \in [Procs -> Places] /\ local' \in [Procs -> Locals]
    BY <2>r, <2>l, <2>s DEF Return, Go, Places
  <2>f. ASSUME NEW p \in Procs, Fresh(p) PROVE stale' \in [Procs -> BOOLEAN]
    BY <2>f, <2>l DEF Fresh
  <2>c. ASSUME pc' \in [Procs -> Places], local' \in [Procs -> Locals], stale' \in [Procs -> BOOLEAN],
               requests' \in 0..MaxRequests, faults' \in 0..MaxFaults, edits' \in 0..MaxEdits,
               UNCHANGED <<disk, memory, history>>
        PROVE  TypeOK'
    BY <2>c, <2>t DEF TypeOK, disk, indexDisk, ringDisk, memory, history
  <2>u. requests \in 0..MaxRequests /\ faults \in 0..MaxFaults /\ edits \in 0..MaxEdits
    BY <2>t DEF TypeOK
  <2>v. faults < MaxFaults /\ faults' = faults + 1 => faults' \in 0..MaxFaults
    BY <2>u, BoundAssumption
  <2>b. ASSUME NEW p \in Procs, NEW l \in Locals, NEW x \in Places, Begin(p, l, x),
               \/ requests < MaxRequests /\ requests' = requests + 1 /\ UNCHANGED edits
               \/ edits < MaxEdits /\ edits' = edits + 1 /\ UNCHANGED requests
        PROVE  TypeOK'
    <3>1. requests' \in 0..MaxRequests /\ edits' \in 0..MaxEdits
      BY <2>b, <2>u, BoundAssumption
    <3>2. local' \in [Procs -> Locals]
      BY <2>b, <2>l DEF Begin
    <3>3. pc' \in [Procs -> Places] /\ stale' \in [Procs -> BOOLEAN]
      BY <2>b, <2>g, <2>f DEF Begin
    <3> QED
      BY <2>b, <2>c, <2>u, <3>1, <3>2, <3>3 DEF Begin
  <2>o. ASSUME NEW p \in Procs, NEW rest \in SUBSET Scopes, Onward(p, rest)
        PROVE  pc' \in [Procs -> Places] /\ local' \in [Procs -> Locals]
    <3> DEFINE settled == [local EXCEPT ![p].trust = rest, ![p].auth = Unsigned, ![p].ring = {}]
    <3>1. [local[p] EXCEPT !.trust = rest, !.auth = Unsigned, !.ring = {}] \in Locals
      <4>1. local[p] \in Locals /\ Unsigned \in Scopes \cup {Unsigned} /\ {} \in SUBSET Scopes
        BY <2>l
      <4> QED
        BY <4>1 DEF Locals
    <3>2. settled[p] = [local[p] EXCEPT !.trust = rest, !.auth = Unsigned, !.ring = {}]
      BY <2>l
    <3>3. settled \in [Procs -> Locals]
      BY <2>l, <3>1, <3>2
    <3>4. \/ Return(p)
          \/ local' = settled /\ (Go(p, "confirm") \/ Go(p, "next") \/ Go(p, "fetch"))
      BY <2>o DEF Onward
    <3> HIDE DEF settled
    <3> QED
      BY <2>g, <2>r, <3>3, <3>4 DEF Places
  <2>1. ASSUME NEW p \in Jobs, NEW d \in Asks, NEW confirmed \in BOOLEAN, InstallConnector(p, d, confirmed) PROVE TypeOK'
    <3> DEFINE l == [Idle EXCEPT !.op = "connector", !.todo = {d},
                                 !.trust = IF confirmed THEN {FqnOf[d.ref]} ELSE {}]
               x == IF confirmed THEN "confirm" ELSE "next"
    <3>1. {d} \in SUBSET Dependencies /\ (IF confirmed THEN {FqnOf[d.ref]} ELSE {}) \in SUBSET Scopes
      BY CatalogueAssumption DEF Dependencies
    <3>2. l \in Locals /\ x \in Places
      BY <2>s, <3>1 DEF Locals, Places
    <3> HIDE DEF l, x
    <3> QED
      BY <2>1, <2>b, <2>s, <3>2 DEF InstallConnector, Accept, l, x
  <2>2. ASSUME NEW p \in Jobs, NEW c \in Contents, NEW force \in BOOLEAN, NEW auto \in BOOLEAN, NEW confirmed \in BOOLEAN, InstallAction(p, c, force, auto, confirmed) PROVE TypeOK'
    <3> DEFINE trust == IF confirmed THEN {FqnOf[d.ref] : d \in Deps[c]} ELSE {}
               l == [Idle EXCEPT !.op = "action", !.content = c, !.force = force, !.auto = auto, !.trust = trust]
               x == IF trust # {} THEN "confirm" ELSE "fetch"
    <3>1. trust \in SUBSET Scopes
      BY CatalogueAssumption DEF Dependencies
    <3>2. l \in Locals /\ x \in Places
      BY <2>s, <3>1 DEF Locals, Places
    <3> HIDE DEF l, x
    <3> QED
      BY <2>2, <2>b, <2>s, <3>2 DEF InstallAction, Accept, l, x
  <2>3. ASSUME NEW p \in Jobs, ListActions(p) PROVE TypeOK'
    <3>1. [Idle EXCEPT !.op = "list"] \in Locals /\ "scan" \in Places
      BY <2>s DEF Locals, Places
    <3> QED
      BY <2>3, <2>b, <2>s, <3>1 DEF ListActions, Accept
  <2>4. ASSUME NEW p \in Jobs, Sync(p) PROVE TypeOK'
    <3>1. collectRequiredConnectors \in SUBSET Dependencies
      <4>1. \A n \in Names : loaded[n] # Missing => loaded[n] \in Contents
        BY <2>t DEF TypeOK
      <4> QED
        BY <4>1, CatalogueAssumption DEF collectRequiredConnectors, Dependencies
    <3>2. [Idle EXCEPT !.op = "sync", !.todo = collectRequiredConnectors] \in Locals /\ "next" \in Places
      BY <2>s, <3>1 DEF Locals, Places
    <3> QED
      BY <2>4, <2>b, <2>s, <3>2 DEF Sync, Accept
  <2>5. ASSUME NEW p \in Clis, NEW r \in Refs, runKeyringTrust(p, r) PROVE TypeOK'
    <3>1. {OwnerOf[AuthOf[r]]} \in SUBSET Scopes
      BY CatalogueAssumption
    <3>2. [Idle EXCEPT !.op = "trust", !.trust = {OwnerOf[AuthOf[r]]}] \in Locals /\ "confirm" \in Places
      BY <2>s, <3>1 DEF Locals, Places
    <3> QED
      BY <2>5, <2>b, <2>s, <3>2 DEF runKeyringTrust, Command
  <2>6. ASSUME NEW p \in Clis, NEW r \in Refs, runKeyringTrustPlan(p, r) PROVE TypeOK'
    <3>1. {AuthOf[r]} \in SUBSET Scopes
      BY CatalogueAssumption
    <3>2. [Idle EXCEPT !.op = "trustPlan", !.trust = {AuthOf[r]}] \in Locals /\ "confirm" \in Places
      BY <2>s, <3>1 DEF Locals, Places
    <3> QED
      BY <2>6, <2>b, <2>s, <3>2 DEF runKeyringTrustPlan, Command
  <2>7. ASSUME NEW p \in Clis, NEW a \in Scopes, runKeyringRevoke(p, a) PROVE TypeOK'
    <3>1. {a} \in SUBSET Scopes
      BY CatalogueAssumption
    <3>2. [Idle EXCEPT !.op = "revoke", !.trust = {a}] \in Locals /\ "confirm" \in Places
      BY <2>s, <3>1 DEF Locals, Places
    <3> QED
      BY <2>7, <2>b, <2>s, <3>2 DEF runKeyringRevoke, Command
  <2>8. ASSUME NEW p \in Procs, NEW a \in Scopes, LoadKeyring(p, a) PROVE TypeOK'
    <3>1. keyring \in SUBSET Scopes /\ local[p] \in Locals /\ local[p].trust \ {a} \in SUBSET Scopes
      BY <2>t, <2>l DEF TypeOK, Locals
    <3>2. CASE Settled(p, a)
      <4>1. pc' \in [Procs -> Places] /\ local' \in [Procs -> Locals]
        BY <2>8, <2>o, <3>1, <3>2 DEF LoadKeyring
      <4> QED
        BY <2>8, <2>c, <2>f, <2>u, <4>1 DEF LoadKeyring, budget
    <3>3. CASE ~Settled(p, a)
      <4>1. local' \in [Procs -> Locals]
        <5>1. [local[p] EXCEPT !.trust = @ \ {a}, !.auth = a, !.ring = keyring] \in Locals
          BY <3>1 DEF Locals
        <5>2. local' = [local EXCEPT ![p].trust = @ \ {a}, ![p].auth = a, ![p].ring = keyring]
          BY <2>8, <3>3 DEF LoadKeyring
        <5>3. local'[p] = [local[p] EXCEPT !.trust = @ \ {a}, !.auth = a, !.ring = keyring]
          BY <2>l, <5>2
        <5> QED
          BY <2>l, <5>1, <5>2, <5>3
      <4>2. pc' \in [Procs -> Places]
        BY <2>8, <2>g, <3>3 DEF LoadKeyring, Places
      <4> QED
        BY <2>8, <2>c, <2>f, <2>u, <4>1, <4>2 DEF LoadKeyring, budget
    <3> QED
      BY <3>2, <3>3
  <2>9. ASSUME NEW p \in Procs, TruncateKeyring(p) PROVE TypeOK'
    <3>1. pc' \in [Procs -> Places]
      BY <2>9, <2>g DEF TruncateKeyring, Places
    <3> QED
      BY <2>9, <2>t, <3>1 DEF TruncateKeyring, TypeOK, Unreadable, indexDisk, memory, budget, history
  <2>10. ASSUME NEW p \in Procs, SaveKeyring(p) PROVE TypeOK'
    <3>1. local[p].trust \in SUBSET Scopes /\ local[p].ring \in SUBSET Scopes /\ local[p].auth \in Scopes
      BY <2>10, <2>l DEF Locals, SaveKeyring, At, InstallInv, RingInv
    <3>2. pc' \in [Procs -> Places] /\ local' \in [Procs -> Locals]
      BY <2>10, <2>o, <3>1 DEF SaveKeyring
    <3>3. stale' \in [Procs -> BOOLEAN]
      BY <2>10 DEF SaveKeyring, Outdates
    <3>4. keyring' \in SUBSET Scopes /\ revoked' \in SUBSET Scopes
      BY <2>10, <2>t, <3>1 DEF SaveKeyring, Edited, TypeOK
    <3>5. ringFile' \in {Whole} \cup Unreadable
      BY <2>10 DEF SaveKeyring, Overwritten, Unreadable
    <3>6. ringRaced' \in BOOLEAN
      BY <2>10, <2>t DEF SaveKeyring, TypeOK
    <3> QED
      BY <2>10, <2>t, <3>2, <3>3, <3>4, <3>5, <3>6 DEF SaveKeyring, TypeOK, indexDisk, memory, budget
  <2>11. ASSUME NEW p \in Jobs, NEW d \in Dependencies, NextConnector(p, d) PROVE TypeOK'
    <3>1. p \in Procs /\ local[p] \in Locals
      BY <2>s, <2>l
    <3>2. [local[p] EXCEPT !.todo = @ \ {d}, !.cur = d, !.got = d.hash] \in Locals
      BY <3>1 DEF Locals, Dependencies
    <3>3. local' = [local EXCEPT ![p].todo = @ \ {d}, ![p].cur = d, ![p].got = d.hash]
      BY <2>11 DEF NextConnector
    <3>4. local'[p] = [local[p] EXCEPT !.todo = @ \ {d}, !.cur = d, !.got = d.hash]
      BY <2>l, <3>1, <3>3
    <3>5. local' \in [Procs -> Locals]
      BY <2>l, <3>2, <3>3, <3>4
    <3>6. pc' \in [Procs -> Places]
      BY <2>11, <2>g, <2>l, <3>1 DEF NextConnector, Places
    <3> QED
      BY <2>11, <2>c, <2>l, <2>u, <3>5, <3>6 DEF NextConnector, budget
  <2>12. ASSUME NEW p \in Jobs, NEW h \in Hashes, Pull(p, h) PROVE TypeOK'
    <3>1. p \in Procs /\ local[p] \in Locals
      BY <2>s, <2>l
    <3>2. [local[p] EXCEPT !.got = h] \in Locals
      BY <3>1 DEF Locals
    <3>3. local' \in [Procs -> Locals]
      BY <2>12, <2>l, <3>2 DEF Pull
    <3>4. pc' \in [Procs -> Places]
      BY <2>12, <2>g, <3>1 DEF Pull, Places
    <3> QED
      BY <2>12, <2>c, <2>l, <2>u, <3>3, <3>4 DEF Pull, budget
  <2>13. ASSUME NEW p \in Jobs, CommitDir(p) PROVE TypeOK'
    <3>1. pc' \in [Procs -> Places]
      BY <2>13, <2>g, <2>s DEF CommitDir, Places
    <3>2. local[p].got \in Hashes
      BY <2>13, <2>j DEF CommitDir, At, PlaceOK
    <3> QED
      BY <2>13, <2>t, <3>1, <3>2 DEF CommitDir, TypeOK, indexDisk, ringDisk, memory, budget, history
  <2>14. ASSUME NEW p \in Jobs, recordIndex(p) PROVE TypeOK'
    <3>1. pc' \in [Procs -> Places]
      BY <2>14, <2>g, <2>s DEF recordIndex, Places
    <3>2. local[p].cur.ref \in Refs /\ local[p].got \in Hashes
      BY <2>14, <2>t, <2>j DEF recordIndex, At, PlaceOK, Dependencies, TypeOK
    <3>3. index' \in Indexes
      BY <2>14, <2>t, <3>2 DEF recordIndex, TypeOK, Indexes
    <3> QED
      BY <2>14, <2>t, <3>1, <3>3 DEF recordIndex, TypeOK, disk, indexDisk, ringDisk, budget, history
  <2>15. ASSUME NEW p \in Jobs, SnapshotIndex(p) PROVE TypeOK'
    <3>1. p \in Procs /\ local[p] \in Locals /\ index \in Indexes
      BY <2>t, <2>s, <2>l DEF TypeOK
    <3>2. [local[p] EXCEPT !.snap = index] \in Locals
      BY <3>1 DEF Locals
    <3>3. local' \in [Procs -> Locals]
      BY <2>15, <2>l, <3>2 DEF SnapshotIndex
    <3>4. pc' \in [Procs -> Places] /\ stale' \in [Procs -> BOOLEAN]
      BY <2>15, <2>g, <2>f, <3>1 DEF SnapshotIndex, Places
    <3> QED
      BY <2>15, <2>c, <2>u, <3>3, <3>4 DEF SnapshotIndex, budget
  <2>16. ASSUME NEW p \in Jobs, RenameIndex(p) PROVE TypeOK'
    <3>1. p \in Procs /\ local[p] \in Locals /\ NoIndex \in Indexes /\ local[p].snap \in Indexes
      BY <2>s, <2>l DEF NoIndex, Indexes, Locals
    <3>2. [local[p] EXCEPT !.cur = NoDep, !.got = NoHash, !.snap = NoIndex] \in Locals
      BY <3>1 DEF Locals
    <3>3. local' = [local EXCEPT ![p].cur = NoDep, ![p].got = NoHash, ![p].snap = NoIndex]
      BY <2>16 DEF RenameIndex
    <3>4. local'[p] = [local[p] EXCEPT !.cur = NoDep, !.got = NoHash, !.snap = NoIndex]
      BY <2>l, <3>1, <3>3
    <3>5. local' \in [Procs -> Locals]
      BY <2>l, <3>2, <3>3, <3>4
    <3>6. pc' \in [Procs -> Places]
      BY <2>16, <2>g, <3>1 DEF RenameIndex, Places
    <3>7. stale' \in [Procs -> BOOLEAN]
      BY <2>16 DEF RenameIndex, Outdates
    <3>8. local[p].cur.ref \in Refs
      BY <2>16, <2>j DEF RenameIndex, At, PlaceOK, Dependencies
    <3>9. acked' \in SUBSET Dependencies /\ forgotten' \in SUBSET Dependencies
      <4>1. [ref |-> local[p].cur.ref, hash |-> local[p].got] \in Dependencies
        BY <3>1, <3>8 DEF Dependencies, Locals
      <4> QED
        BY <2>16, <2>t, <4>1 DEF RenameIndex, TypeOK
    <3>10. indexRaced' \in BOOLEAN
      BY <2>16, <2>t DEF RenameIndex, TypeOK
    <3> QED
      BY <2>16, <2>t, <3>1, <3>5, <3>6, <3>7, <3>9, <3>10 DEF RenameIndex, TypeOK, ringDisk, memory, budget
  <2>17. ASSUME NEW p \in Jobs, Installed(p) PROVE TypeOK'
    <3>1. pc' \in [Procs -> Places] /\ local' \in [Procs -> Locals]
      BY <2>17, <2>g, <2>l, <2>r, <2>s DEF Installed, Places
    <3> QED
      BY <2>17, <2>c, <2>l, <2>u, <3>1 DEF Installed, budget
  <2>18. ASSUME NEW p \in Jobs, FetchAction(p) PROVE TypeOK'
    <3>1. pc' \in [Procs -> Places]
      BY <2>18, <2>g, <2>s DEF FetchAction, Places
    <3> QED
      BY <2>18, <2>c, <2>l, <2>u, <3>1 DEF FetchAction, budget
  <2>19. ASSUME NEW p \in Jobs, CheckConnectors(p) PROVE TypeOK'
    <3> DEFINE missing == {d \in Deps[local[p].content] : ~Present(d)}
    <3>1. p \in Procs /\ local[p] \in Locals /\ local[p].content \in Contents
      BY <2>19, <2>s, <2>l, <2>j DEF CheckConnectors, At, PlaceOK
    <3>2. missing \in SUBSET Dependencies
      BY <3>1, CatalogueAssumption
    <3> HIDE DEF missing
    <3>3. [local[p] EXCEPT !.todo = missing] \in Locals
      BY <3>1, <3>2 DEF Locals
    <3>4. \/ Return(p)
          \/ Go(p, "next") /\ local' = [local EXCEPT ![p].todo = missing]
      BY <2>19 DEF CheckConnectors, missing
    <3>5. pc' \in [Procs -> Places] /\ local' \in [Procs -> Locals]
      BY <2>g, <2>l, <2>r, <3>1, <3>3, <3>4 DEF Places
    <3> QED
      BY <2>19, <2>c, <2>l, <2>u, <3>5 DEF CheckConnectors, budget
  <2>20. ASSUME NEW p \in Jobs, ReadDest(p) PROVE TypeOK'
    <3>1. pc' \in [Procs -> Places] /\ local' \in [Procs -> Locals]
      BY <2>20, <2>g, <2>l, <2>r, <2>s DEF ReadDest, Places
    <3> QED
      BY <2>20, <2>c, <2>l, <2>u, <3>1 DEF ReadDest, budget
  <2>21. ASSUME NEW p \in Jobs, TruncateAction(p) PROVE TypeOK'
    <3>1. pc' \in [Procs -> Places]
      BY <2>21, <2>g, <2>s DEF TruncateAction, Places
    <3>2. file' \in [Names -> Contents \cup Unreadable \cup {Missing}]
      BY <2>21, <2>t DEF TruncateAction, TypeOK, Unreadable
    <3> QED
      BY <2>21, <2>t, <3>1, <3>2 DEF TruncateAction, TypeOK, indexDisk, ringDisk, memory, budget, history
  <2>22. ASSUME NEW p \in Jobs, WriteAction(p) PROVE TypeOK'
    <3>1. pc' \in [Procs -> Places]
      BY <2>22, <2>g, <2>s DEF WriteAction, Places
    <3>2. local[p].content \in Contents
      BY <2>22, <2>j DEF WriteAction, At, PlaceOK
    <3>3. Overwritten(file[Name(p)], local[p].content) \subseteq Contents \cup Unreadable \cup {Missing}
      BY <3>2 DEF Overwritten, Unreadable
    <3>4. file' \in [Names -> Contents \cup Unreadable \cup {Missing}]
      BY <2>22, <2>t, <3>3 DEF WriteAction, TypeOK
    <3>5. missed' \in [Jobs -> SUBSET Names]
      BY <2>22, <2>t, <3>2, CatalogueAssumption DEF WriteAction, Overtake, Name, TypeOK
    <3> QED
      BY <2>22, <2>t, <3>1, <3>4, <3>5 DEF WriteAction, TypeOK, indexDisk, ringDisk, memory, budget
  <2>23. ASSUME NEW p \in Jobs, ReadDir(p) PROVE TypeOK'
    <3> DEFINE left == {n \in Names : file[n] # Missing}
    <3>1. p \in Procs /\ local[p] \in Locals /\ left \in SUBSET Names /\ NoActions \in [Names -> Contents \cup {Missing}]
      BY <2>s, <2>l DEF NoActions
    <3>2. local' = [local EXCEPT ![p].left = left, ![p].scan = NoActions]
      BY <2>23 DEF ReadDir
    <3> HIDE DEF left
    <3>3. [local[p] EXCEPT !.left = left, !.scan = NoActions] \in Locals
      BY <3>1 DEF Locals
    <3>4. local'[p] = [local[p] EXCEPT !.left = left, !.scan = NoActions]
      BY <2>l, <3>1, <3>2
    <3>5. local' \in [Procs -> Locals]
      BY <2>l, <3>2, <3>3, <3>4
    <3>6. pc' \in [Procs -> Places] /\ stale' \in [Procs -> BOOLEAN]
      BY <2>23, <2>g, <2>l, <3>1 DEF ReadDir, Places
    <3> QED
      BY <2>23, <2>c, <2>u, <3>5, <3>6 DEF ReadDir, budget
  <2>24. ASSUME NEW p \in Jobs, NEW n \in Names, ReadFile(p, n) PROVE TypeOK'
    <3>1. p \in Procs /\ local[p] \in Locals /\ Parsed(file[n]) \in Contents \cup {Missing}
      BY <2>s, <2>l DEF Parsed
    <3>2. local' = [local EXCEPT ![p].left = @ \ {n}, ![p].scan[n] = Parsed(file[n])]
      BY <2>24 DEF ReadFile
    <3>3. [local[p] EXCEPT !.left = @ \ {n}, !.scan[n] = Parsed(file[n])] \in Locals
      BY <3>1 DEF Locals
    <3>4. local'[p] = [local[p] EXCEPT !.left = @ \ {n}, !.scan[n] = Parsed(file[n])]
      BY <2>l, <3>1, <3>2
    <3>5. local' \in [Procs -> Locals]
      BY <2>l, <3>2, <3>3, <3>4
    <3> QED
      BY <2>24, <2>c, <2>l, <2>u, <3>5 DEF ReadFile, budget
  <2>25. ASSUME NEW p \in Jobs, Replace(p) PROVE TypeOK'
    <3>1. pc' \in [Procs -> Places] /\ local' \in [Procs -> Locals]
      BY <2>25, <2>r, <2>s DEF Replace
    <3>2. loaded' \in [Names -> Contents \cup {Missing}]
      BY <2>25, <2>l, <2>s DEF Replace, Locals
    <3>3. behind' \in SUBSET Names /\ missed' \in [Jobs -> SUBSET Names]
      BY <2>25, <2>t DEF Replace, TypeOK
    <3> QED
      BY <2>25, <2>t, <3>1, <3>2, <3>3 DEF Replace, TypeOK, disk, indexDisk, ringDisk, budget
  <2>26. ASSUME NEW p \in Procs, Fail(p) PROVE TypeOK'
    <3>1. pc' \in [Procs -> Places] /\ local' \in [Procs -> Locals]
      BY <2>26, <2>g, <2>l, <2>r DEF Fail, Places
    <3>2. faults' \in 0..MaxFaults
      BY <2>26, <2>v DEF Fail
    <3> QED
      BY <2>26, <2>c, <2>l, <2>u, <3>1, <3>2 DEF Fail
  <2>27. ASSUME NEW p \in Procs, Refuse(p) PROVE TypeOK'
    <3>1. pc' \in [Procs -> Places] /\ local' \in [Procs -> Locals]
      BY <2>27, <2>g, <2>l, <2>r DEF Refuse, Places
    <3> QED
      BY <2>27, <2>c, <2>l, <2>u, <3>1 DEF Refuse, budget
  <2>28. ASSUME Crash PROVE TypeOK'
    <3>1. pc' \in [Procs -> Places]
      BY <2>28, <2>l DEF Crash, Places
    <3>2. local' \in [Procs -> Locals]
      BY <2>28, <2>l, <2>s DEF Crash
    <3>3. faults' \in 0..MaxFaults /\ missed' \in [Jobs -> SUBSET Names]
      BY <2>28, <2>v DEF Crash
    <3> QED
      BY <2>28, <2>t, <3>1, <3>2, <3>3 DEF Crash, TypeOK, disk, indexDisk, ringDisk
  <2>29. ASSUME DamageIndex PROVE TypeOK'
    BY <2>29, <2>t DEF DamageIndex, TypeOK, ringDisk, memory, control, budget, history
  <2>30. ASSUME NEW omitted \in SUBSET Names, Restart(omitted) PROVE TypeOK'
    <3>1. index' \in Indexes
      BY <2>30, <2>t DEF Restart, Rebuilt, TypeOK
    <3>2. loaded' \in [Names -> Contents \cup {Missing}]
      BY <2>30 DEF Restart, LoadAtStart, Parsed
    <3>3. faults' \in 0..MaxFaults
      BY <2>30, <2>u, <2>v DEF Restart, LoadAtStart
    <3>4. forgotten' \in SUBSET Dependencies /\ behind' \in SUBSET Names
      BY <2>30, <2>t DEF Restart, LoadAtStart, TypeOK
    <3> QED
      BY <2>30, <2>t, <3>1, <3>2, <3>3, <3>4 DEF Restart, TypeOK, ringDisk, control
  <2>32. ASSUME NEW p \in Jobs, MissDest(p) PROVE TypeOK'
    <3>1. pc' \in [Procs -> Places] /\ faults' \in 0..MaxFaults
      BY <2>32, <2>g, <2>s, <2>v DEF MissDest, Places
    <3> QED
      BY <2>32, <2>c, <2>l, <2>u, <3>1 DEF MissDest
  <2>33. ASSUME NEW n \in Names, NEW content \in Drafts, EditFile(n, content) PROVE TypeOK'
    <3>1. edits' \in 0..MaxEdits
      BY <2>33, <2>u, BoundAssumption DEF EditFile
    <3>2. content \in Contents \cup Unreadable \cup {Missing}
      BY CatalogueAssumption DEF Unreadable
    <3>3. file' \in [Names -> Contents \cup Unreadable \cup {Missing}]
      BY <2>33, <2>t, <3>2 DEF EditFile, TypeOK
    <3>4. /\ missed' \in [Jobs -> SUBSET Names]
          /\ behind' \in SUBSET Names /\ handmade' \in SUBSET Contents
      BY <2>33, <2>t DEF EditFile, Overtake, TypeOK
    <3> QED
      BY <2>33, <2>t, <3>1, <3>3, <3>4 DEF EditFile, TypeOK, indexDisk, ringDisk, memory, control
  <2>34. ASSUME NEW p \in Jobs, FailLoad(p) PROVE TypeOK'
    <3>1. pc' \in [Procs -> Places] /\ local' \in [Procs -> Locals] /\ faults' \in 0..MaxFaults
      BY <2>34, <2>r, <2>s, <2>v DEF FailLoad
    <3>2. local[p].op = "action" => Name(p) \in Names
      BY <2>j, CatalogueAssumption DEF PlaceOK, Name
    <3>3. behind' \in SUBSET Names
      BY <2>34, <2>t, <3>2 DEF FailLoad, TypeOK
    <3> QED
      BY <2>34, <2>t, <3>1, <3>3 DEF FailLoad, TypeOK, disk, indexDisk, ringDisk, memory
  <2>35. ASSUME NEW p \in Jobs, NEW n \in Names, SkipFile(p, n) PROVE TypeOK'
    <3>1. p \in Procs /\ local[p] \in Locals
      BY <2>s, <2>l
    <3>2. [local[p] EXCEPT !.left = @ \ {n}] \in Locals
      BY <3>1 DEF Locals
    <3>3. local' \in [Procs -> Locals]
      BY <2>35, <2>l, <3>2 DEF SkipFile
    <3>4. faults' \in 0..MaxFaults /\ missed' \in [Jobs -> SUBSET Names]
      BY <2>35, <2>t, <2>v DEF SkipFile, TypeOK
    <3> QED
      BY <2>35, <2>t, <3>3, <3>4 DEF SkipFile, TypeOK, disk, indexDisk, ringDisk, memory
  <2>31. CASE UNCHANGED vars
    BY <2>31, <2>t DEF vars, TypeOK, disk, indexDisk, ringDisk, memory, control, budget, history
  <2> QED
    BY <2>1, <2>2, <2>3, <2>4, <2>5, <2>6, <2>7, <2>8, <2>9, <2>10, <2>11, <2>12, <2>13, <2>14, <2>15, <2>16, <2>17, <2>18, <2>19, <2>20, <2>21, <2>22, <2>23, <2>24, <2>25, <2>26, <2>27, <2>28, <2>29, <2>30, <2>31, <2>32, <2>33, <2>34, <2>35
    DEF Next, Request, Pipeline, Keyring
(* Every step keeps the jobs' locals in agreement with the disk, the disk  *)
(* with itself and the keyring's edits with the keyring.                   *)
<1>3. InstallInv /\ TypeOK' /\ [Next]_vars => JobInv' /\ DiskInv' /\ RingInv'
  <2> SUFFICES ASSUME InstallInv, TypeOK', [Next]_vars PROVE JobInv' /\ DiskInv' /\ RingInv'
    OBVIOUS
  <2> DEFINE Goal == JobInv' /\ DiskInv' /\ RingInv'
  <2>t. TypeOK /\ Jobs \subseteq Procs /\ Clis \subseteq Procs /\ Jobs \cap Clis = {}
    BY CatalogueAssumption DEF InstallInv, Procs
  <2>l. /\ pc \in [Procs -> Places] /\ local \in [Procs -> Locals] /\ stale \in [Procs -> BOOLEAN]
        /\ pc' \in [Procs -> Places] /\ local' \in [Procs -> Locals] /\ stale' \in [Procs -> BOOLEAN]
    BY <2>t DEF TypeOK
  <2>j. ASSUME NEW j \in Jobs PROVE JobOK(pc[j], local[j], stale[j]) /\ (pc[j] # "idle" => up)
    BY DEF InstallInv, JobInv, DiskInv
  <2>i. ASSUME NEW x \in {"idle", "exited"}, NEW old PROVE JobOK(x, Idle, old)
    <3>1. Carries(Idle)
      BY DEF Carries, Idle, Named, NoIndex, NoActions
    <3> QED
      BY <3>1 DEF JobOK, PlaceOK, Provided, Recorded, Idle
  <2>e. ASSUME NEW x \in {"confirm", "truncateRing", "writeRing", "fetch", "check", "scan", "next"}, NEW l, NEW old,
               l.op = "action" => l.content \in Contents /\ x # "next",
               x \in {"fetch", "check"} => l.op = "action",
               Carries(l)
        PROVE  JobOK(x, l, old)
    BY <2>e DEF JobOK, PlaceOK, Provided, Recorded
  <2>x. ASSUME NEW q \in Jobs, pc'[q] = pc[q], local'[q] = local[q], stale[q] => stale'[q],
               entries \subseteq entries', \A r \in Refs : index[r] # NoHash => index'[r] # NoHash,
               indexRaced => indexRaced', handmade \subseteq handmade',
               pc[q] = "rename" => stale'[q] \/ acked' \ forgotten' \subseteq acked \ forgotten
        PROVE  JobOK(pc[q], local[q], stale[q])'
    <3>1. JobOK(pc[q], local[q], stale[q])
      BY <2>j
    <3>2. PlaceOK(pc[q], local[q])'
      BY <2>x, <3>1 DEF JobOK, PlaceOK
    <3>3. Provided(pc[q], local[q])'
      BY <2>x, <3>1 DEF JobOK, Provided
    <3>4. Carries(local[q])'
      BY <2>x, <3>1 DEF JobOK, Carries
    <3>5. Recorded(pc[q], local[q], stale[q])'
      <4>1. pc[q] \in {"snapshot", "rename"} => local[q].cur.ref \in Refs
        BY <3>1 DEF JobOK, PlaceOK, Dependencies
      <4> QED
        BY <2>x, <3>1, <4>1 DEF JobOK, Recorded
    <3> QED
      BY <3>2, <3>3, <3>4, <3>5 DEF JobOK
  <2>m. ASSUME NEW p \in Procs, Others(p),
               UNCHANGED <<entries, indexDisk, file, index, loaded, up, acked, forgotten, indexRaced, behind, handmade>>,
               p \in Jobs =>
                 /\ up /\ JobOK(pc'[p], local'[p], stale'[p])
                 /\ pc[p] \in {"scan", "read"} =>
                      /\ pc'[p] \in {"scan", "read"}
                      /\ local'[p].op = local[p].op /\ local'[p].content = local[p].content
        PROVE  JobInv' /\ DiskInv'
    <3>1. ASSUME NEW q \in Jobs PROVE JobOK(pc[q], local[q], stale[q])'
      <4>1. CASE q = p
        <5>1. JobOK(pc'[p], local'[p], stale'[p])
          BY <2>m, <4>1
        <5>2. UNCHANGED <<entries, index, acked, forgotten, indexRaced, handmade>>
          BY <2>m
        <5> QED
          BY <4>1, <5>1, <5>2 DEF JobOK, PlaceOK, Provided, Carries, Recorded
      <4>2. CASE q # p
        BY <2>m, <2>t, <2>x, <4>2 DEF Others
      <4> QED
        BY <4>1, <4>2
    <3>o. \A q \in Procs : q # p => pc'[q] = pc[q] /\ local'[q] = local[q]
      BY <2>m DEF Others
    <3>2. ASSUME NEW j \in Jobs PROVE pc'[j] # "idle" => up
      <4>1. CASE j = p
        BY <2>m, <4>1
      <4>2. CASE j # p
        BY <2>j, <2>t, <3>o, <4>2
      <4> QED
        BY <4>1, <4>2
    <3>3. \A j \in Jobs : Named(local'[j].snap) \subseteq entries
      BY <2>m, <3>1 DEF JobOK, Carries
    <3>4. NoDanglingReference'
      BY <2>m, <3>3 DEF InstallInv, DiskInv, NoDanglingReference, indexDisk
    <3>5. AckedConnectorIsKnown'
      BY <2>m DEF InstallInv, DiskInv, AckedConnectorIsKnown, indexDisk
    <3>6. LoadedIsCurrent'
      <4> SUFFICES ASSUME up, NEW n \in Names \ behind
                   PROVE  \/ file[n] \in Unreadable
                          \/ loaded[n] = file[n]
                          \/ \E j \in Jobs : local'[j].op = "action" /\ NameOf[local'[j].content] = n /\ pc'[j] \in {"scan", "read"}
        BY <2>m DEF LoadedIsCurrent, Name
      <4>1. \/ file[n] \in Unreadable
            \/ loaded[n] = file[n]
            \/ \E j \in Jobs : local[j].op = "action" /\ NameOf[local[j].content] = n /\ pc[j] \in {"scan", "read"}
        BY DEF InstallInv, DiskInv, LoadedIsCurrent, Name
      <4>2. ASSUME NEW j \in Jobs, local[j].op = "action", NameOf[local[j].content] = n, pc[j] \in {"scan", "read"}
            PROVE  local'[j].op = "action" /\ NameOf[local'[j].content] = n /\ pc'[j] \in {"scan", "read"}
        <5>1. CASE j = p
          BY <2>m, <4>2, <5>1
        <5>2. CASE j # p
          BY <2>t, <3>o, <4>2, <5>2
        <5> QED
          BY <5>1, <5>2
      <4> QED
        BY <4>1, <4>2
    <3> QED
      BY <2>m, <3>1, <3>2, <3>4, <3>5, <3>6 DEF InstallInv, JobInv, DiskInv
  <2>k. ASSUME NEW p \in Procs, Others(p), UNCHANGED <<keyring, revoked, ringRaced>>,
               pc'[p] \in {"truncateRing", "writeRing"} =>
                 local'[p].auth \in Scopes /\ (~stale'[p] => local'[p].ring = keyring)
        PROVE  RingInv'
    BY <2>k DEF InstallInv, RingInv, Others
  <2>a. ASSUME NEW p \in Procs, Others(p), UNCHANGED <<disk, memory, history>>,
               pc[p] \notin {"scan", "read"}, pc'[p] \notin {"truncateRing", "writeRing"},
               p \in Jobs => up /\ JobOK(pc'[p], local'[p], stale'[p])
        PROVE  Goal
    <3>1. JobInv' /\ DiskInv'
      BY <2>a, <2>m DEF disk, memory, history
    <3>2. RingInv'
      BY <2>a, <2>k DEF disk, ringDisk, history
    <3> QED
      BY <3>1, <3>2
  <2>r. ASSUME NEW p \in Procs, Return(p)
        PROVE  /\ pc'[p] \in {"idle", "exited"} /\ local'[p] = Idle /\ JobOK(pc'[p], local'[p], stale'[p])
               /\ \A q \in Procs \ {p} : pc'[q] = pc[q] /\ local'[q] = local[q]
    BY <2>r, <2>i, <2>l DEF Return, Go
  <2>s. ASSUME NEW p \in Procs, Return(p), UNCHANGED <<stale, disk, memory, history>>,
               pc[p] \notin {"scan", "read", "idle"}
        PROVE  Goal
    BY <2>s, <2>a, <2>j, <2>r DEF Others
  <2>b. ASSUME NEW p \in Procs, NEW l, NEW x \in {"confirm", "fetch", "scan", "next"}, Begin(p, l, x),
               p \in Jobs => up /\ JobOK(x, l, FALSE)
        PROVE  Goal
    <3>1. Others(p) /\ pc'[p] = x /\ local'[p] = l /\ stale'[p] = FALSE /\ pc[p] = "idle"
      BY <2>b, <2>l DEF Begin, Go, Fresh, At, Others
    <3> QED
      BY <2>a, <2>b, <3>1 DEF Begin
  <2>o. ASSUME NEW p \in Procs, NEW rest, Onward(p, rest), pc[p] \in {"confirm", "writeRing"}
        PROVE  /\ \A q \in Procs \ {p} : pc'[q] = pc[q] /\ local'[q] = local[q]
               /\ pc'[p] \notin {"truncateRing", "writeRing"}
               /\ p \in Jobs => up /\ JobOK(pc'[p], local'[p], stale'[p])
    <3>1. CASE Return(p)
      BY <2>o, <2>r, <2>j, <3>1
    <3>2. CASE ~Return(p)
      <4> DEFINE l == [local[p] EXCEPT !.trust = rest, !.auth = Unsigned, !.ring = {}]
      <4>1. local' = [local EXCEPT ![p].trust = rest, ![p].auth = Unsigned, ![p].ring = {}]
        BY <2>o, <3>2 DEF Onward
      <4>2. local'[p] = l /\ \A q \in Procs \ {p} : local'[q] = local[q]
        BY <2>l, <4>1
      <4>3. /\ Go(p, "confirm") \/ (Go(p, "next") /\ local[p].op = "connector") \/ (Go(p, "fetch") /\ local[p].op = "action")
        BY <2>o, <3>2 DEF Onward
      <4>4. /\ pc'[p] = "confirm" \/ (pc'[p] = "next" /\ local[p].op = "connector") \/ (pc'[p] = "fetch" /\ local[p].op = "action")
            /\ \A q \in Procs \ {p} : pc'[q] = pc[q]
        BY <2>l, <4>3 DEF Go
      <4>5. local[p] \in Locals
        BY <2>l
      <4>6. l.op = local[p].op /\ l.content = local[p].content /\ l.snap = local[p].snap /\ l.scan = local[p].scan
        BY <4>5 DEF Locals
      <4> HIDE DEF l
      <4>7. ASSUME p \in Jobs PROVE up /\ JobOK(pc'[p], local'[p], stale'[p])
        <5>1. Carries(l) /\ (local[p].op = "action" => local[p].content \in Contents) /\ up
          BY <2>j, <2>o, <4>6, <4>7 DEF JobOK, PlaceOK, Carries
        <5> QED
          BY <2>e, <4>2, <4>4, <4>6, <5>1
      <4> QED
        BY <4>2, <4>4, <4>7
    <3> QED
      BY <3>1, <3>2
  <2>z. ASSUME NEW p \in Procs, UNCHANGED <<stale, disk, memory, history>>, pc[p] \notin {"scan", "read", "idle"},
               IF local[p].op = "sync" THEN Go(p, "next") /\ UNCHANGED local ELSE Return(p)
        PROVE  Goal
    <3>1. CASE Return(p)
      BY <2>s, <2>z, <3>1
    <3>2. CASE ~Return(p)
      <4>1. pc'[p] = "next" /\ local' = local /\ local[p].op = "sync" /\ Others(p)
        BY <2>l, <2>z, <3>2 DEF Go, Others
      <4>2. ASSUME p \in Jobs PROVE up /\ JobOK(pc'[p], local'[p], stale'[p])
        <5>1. up /\ Carries(local[p])
          BY <2>j, <2>z, <4>2 DEF JobOK
        <5> QED
          BY <2>e, <4>1, <5>1
      <4> QED
        BY <2>a, <2>z, <4>1, <4>2
    <3> QED
      BY <3>1, <3>2
  <2>1. ASSUME NEW p \in Jobs, NEW d \in Asks, NEW confirmed \in BOOLEAN, InstallConnector(p, d, confirmed) PROVE Goal
    <3> DEFINE l == [Idle EXCEPT !.op = "connector", !.todo = {d},
                                 !.trust = IF confirmed THEN {FqnOf[d.ref]} ELSE {}]
               x == IF confirmed THEN "confirm" ELSE "next"
    <3>1. l.op = "connector" /\ l.snap = Idle.snap /\ l.scan = Idle.scan
      BY DEF Idle
    <3>2. Begin(p, l, x) /\ up
      BY <2>1 DEF InstallConnector, Accept
    <3> HIDE DEF l
    <3>3. Carries(l)
      BY <2>i, <3>1 DEF JobOK, Carries
    <3>4. JobOK(x, l, FALSE)
      BY <2>e, <3>1, <3>3
    <3> QED
      BY <2>b, <2>t, <3>2, <3>4
  <2>2. ASSUME NEW p \in Jobs, NEW c \in Contents, NEW force \in BOOLEAN, NEW auto \in BOOLEAN, NEW confirmed \in BOOLEAN, InstallAction(p, c, force, auto, confirmed) PROVE Goal
    <3> DEFINE trust == IF confirmed THEN {FqnOf[d.ref] : d \in Deps[c]} ELSE {}
               l == [Idle EXCEPT !.op = "action", !.content = c, !.force = force, !.auto = auto, !.trust = trust]
               x == IF trust # {} THEN "confirm" ELSE "fetch"
    <3>1. l.op = "action" /\ l.content = c /\ l.snap = Idle.snap /\ l.scan = Idle.scan
      BY DEF Idle
    <3>2. Begin(p, l, x) /\ up
      BY <2>2 DEF InstallAction, Accept
    <3> HIDE DEF l, trust
    <3>3. Carries(l)
      BY <2>i, <3>1 DEF JobOK, Carries
    <3>4. JobOK(x, l, FALSE)
      BY <2>e, <3>1, <3>3
    <3> QED
      BY <2>b, <2>t, <3>2, <3>4
  <2>3. ASSUME NEW p \in Jobs, ListActions(p) PROVE Goal
    <3> DEFINE l == [Idle EXCEPT !.op = "list"]
    <3>1. l.op = "list" /\ l.snap = Idle.snap /\ l.scan = Idle.scan
      BY DEF Idle
    <3>2. Begin(p, l, "scan") /\ up
      BY <2>3 DEF ListActions, Accept
    <3> HIDE DEF l
    <3>3. Carries(l)
      BY <2>i, <3>1 DEF JobOK, Carries
    <3>4. JobOK("scan", l, FALSE)
      BY <2>e, <3>1, <3>3
    <3> QED
      BY <2>b, <2>t, <3>2, <3>4
  <2>4. ASSUME NEW p \in Jobs, Sync(p) PROVE Goal
    <3> DEFINE l == [Idle EXCEPT !.op = "sync", !.todo = collectRequiredConnectors]
    <3>1. l.op = "sync" /\ l.snap = Idle.snap /\ l.scan = Idle.scan
      BY DEF Idle
    <3>2. Begin(p, l, "next") /\ up
      BY <2>4 DEF Sync, Accept
    <3> HIDE DEF l
    <3>3. Carries(l)
      BY <2>i, <3>1 DEF JobOK, Carries
    <3>4. JobOK("next", l, FALSE)
      BY <2>e, <3>1, <3>3
    <3> QED
      BY <2>b, <2>t, <3>2, <3>4
  <2>5. ASSUME NEW p \in Clis, NEW r \in Refs, runKeyringTrust(p, r) PROVE Goal
    BY <2>5, <2>b, <2>t DEF runKeyringTrust, Command
  <2>6. ASSUME NEW p \in Clis, NEW r \in Refs, runKeyringTrustPlan(p, r) PROVE Goal
    BY <2>6, <2>b, <2>t DEF runKeyringTrustPlan, Command
  <2>7. ASSUME NEW p \in Clis, NEW a \in Scopes, runKeyringRevoke(p, a) PROVE Goal
    BY <2>7, <2>b, <2>t DEF runKeyringRevoke, Command
  <2>8. ASSUME NEW p \in Procs, NEW a \in Scopes, LoadKeyring(p, a) PROVE Goal
    <3>1. CASE Settled(p, a)
      <4>1. Onward(p, local[p].trust \ {a}) /\ pc[p] = "confirm"
        BY <2>8, <3>1 DEF LoadKeyring, At
      <4>2. \A q \in Procs \ {p} : stale[q] => stale'[q]
        BY <2>8, <2>l DEF LoadKeyring, Fresh
      <4> QED
        BY <2>8, <2>a, <2>o, <4>1, <4>2 DEF LoadKeyring, Others
    <3>2. CASE ~Settled(p, a)
      <4> DEFINE l == [local[p] EXCEPT !.trust = @ \ {a}, !.auth = a, !.ring = keyring]
      <4>1. local' = [local EXCEPT ![p].trust = @ \ {a}, ![p].auth = a, ![p].ring = keyring] /\ Go(p, "truncateRing") /\ pc[p] = "confirm"
        BY <2>8, <3>2 DEF LoadKeyring, At
      <4>2. local'[p] = l /\ pc'[p] = "truncateRing" /\ Others(p)
        BY <2>8, <2>l, <4>1 DEF Go, Fresh, Others, LoadKeyring
      <4>3. local[p] \in Locals
        BY <2>l
      <4>4. /\ l.op = local[p].op /\ l.content = local[p].content /\ l.snap = local[p].snap /\ l.scan = local[p].scan
            /\ l.auth = a /\ l.ring = keyring
        BY <4>3 DEF Locals
      <4> HIDE DEF l
      <4>5. ASSUME p \in Jobs PROVE up /\ JobOK(pc'[p], local'[p], stale'[p])
        <5>1. Carries(l) /\ (local[p].op = "action" => local[p].content \in Contents) /\ up
          BY <2>j, <4>1, <4>4, <4>5 DEF JobOK, PlaceOK, Carries
        <5> QED
          BY <2>e, <4>2, <4>4, <5>1
      <4>6. JobInv' /\ DiskInv'
        BY <2>8, <2>m, <4>1, <4>2, <4>5 DEF LoadKeyring, disk, memory, history
      <4>7. RingInv'
        BY <2>8, <2>k, <4>2, <4>4 DEF LoadKeyring, disk, ringDisk, history
      <4> QED
        BY <4>6, <4>7
    <3> QED
      BY <3>1, <3>2
  <2>9. ASSUME NEW p \in Procs, TruncateKeyring(p) PROVE Goal
    <3>1. pc[p] = "truncateRing" /\ pc'[p] = "writeRing" /\ local' = local /\ stale' = stale /\ Others(p)
      BY <2>9, <2>l DEF TruncateKeyring, At, Go, Others
    <3>2. ASSUME p \in Jobs PROVE up /\ JobOK(pc'[p], local'[p], stale'[p])
      BY <2>e, <2>j, <3>1, <3>2 DEF JobOK, PlaceOK
    <3>3. JobInv' /\ DiskInv'
      BY <2>9, <2>m, <3>1, <3>2 DEF TruncateKeyring, memory, history
    <3>4. RingInv'
      BY <2>9, <2>k, <3>1 DEF TruncateKeyring, history, InstallInv, RingInv
    <3> QED
      BY <3>3, <3>4
  <2>10. ASSUME NEW p \in Procs, SaveKeyring(p) PROVE Goal
    <3>1. pc[p] = "writeRing" /\ Onward(p, local[p].trust)
      BY <2>10 DEF SaveKeyring, At
    <3>2. \A q \in Procs \ {p} : stale'[q] <=> stale[q] \/ pc[q] \in {"truncateRing", "writeRing"}
      BY <2>10 DEF SaveKeyring, Outdates
    <3>3. Others(p)
      BY <2>o, <3>1, <3>2 DEF Others
    <3>4. JobInv' /\ DiskInv'
      BY <2>10, <2>m, <2>o, <3>1, <3>3 DEF SaveKeyring, memory
    <3>5. ~ringRaced' => revoked' \cap keyring' = {}
      <4>1. ~ringRaced' => ~ringRaced /\ local[p].ring = keyring
        BY <2>10, <3>1 DEF SaveKeyring, InstallInv, RingInv
      <4> QED
        BY <2>10, <4>1 DEF SaveKeyring, Edited, InstallInv, RingInv
    <3>6. RingInv'
      BY <2>o, <3>1, <3>2, <3>5 DEF InstallInv, RingInv
    <3> QED
      BY <3>4, <3>6
  <2>11. ASSUME NEW p \in Jobs, NEW d \in Dependencies, NextConnector(p, d) PROVE Goal
    <3> DEFINE l == [local[p] EXCEPT !.todo = @ \ {d}, !.cur = d, !.got = d.hash]
    <3>1. local' = [local EXCEPT ![p].todo = @ \ {d}, ![p].cur = d, ![p].got = d.hash] /\ pc[p] = "next" /\ stale' = stale
      BY <2>11 DEF NextConnector, At
    <3>2. \/ pc'[p] = "next" /\ local[p].op = "sync"
          \/ pc'[p] = "record" /\ d.hash \in entries
          \/ pc'[p] = "pull"
      BY <2>11, <2>l, <2>t, <3>1 DEF NextConnector, KnownToSync, Go
    <3>3. local'[p] = l /\ Others(p)
      BY <2>11, <2>l, <2>t, <3>1 DEF NextConnector, Go, Others
    <3>4. local[p] \in Locals /\ JobOK("next", local[p], stale[p]) /\ up
      BY <2>l, <2>t, <2>j, <3>1
    <3>5. /\ l.op = local[p].op /\ l.content = local[p].content /\ l.snap = local[p].snap /\ l.scan = local[p].scan
          /\ l.todo = local[p].todo \ {d} /\ l.cur = d /\ l.got = d.hash
      BY <3>4 DEF Locals
    <3> HIDE DEF l
    <3>6. PlaceOK(pc'[p], l)
      BY <3>2, <3>4, <3>5 DEF JobOK, PlaceOK
    <3>7. Provided(pc'[p], l)
      BY <3>2, <3>4, <3>5 DEF JobOK, Provided
    <3>8. Carries(l)
      BY <3>4, <3>5 DEF JobOK, Carries
    <3>9. JobOK(pc'[p], local'[p], stale'[p])
      BY <3>2, <3>3, <3>6, <3>7, <3>8 DEF JobOK, Recorded
    <3> QED
      BY <2>11, <2>a, <2>t, <3>1, <3>2, <3>3, <3>4, <3>9 DEF NextConnector
  <2>12. ASSUME NEW p \in Jobs, NEW h \in Hashes, Pull(p, h) PROVE Goal
    <3> DEFINE l == [local[p] EXCEPT !.got = h]
    <3>1. local'[p] = l /\ Others(p) /\ pc[p] = "pull" /\ pc'[p] = "commit" /\ local[p].cur.hash \in {NoHash, h}
      BY <2>12, <2>l, <2>t DEF Pull, At, Go, Others
    <3>2. local[p] \in Locals /\ JobOK("pull", local[p], stale[p]) /\ up
      BY <2>l, <2>t, <2>j, <3>1
    <3>3. /\ l.op = local[p].op /\ l.content = local[p].content /\ l.snap = local[p].snap /\ l.scan = local[p].scan
          /\ l.todo = local[p].todo /\ l.cur = local[p].cur /\ l.got = h
      BY <3>2 DEF Locals
    <3> HIDE DEF l
    <3>4. PlaceOK("commit", l) /\ Provided("commit", l) /\ Carries(l)
      BY <3>1, <3>2, <3>3 DEF JobOK, PlaceOK, Provided, Carries
    <3>5. JobOK(pc'[p], local'[p], stale'[p])
      BY <3>1, <3>4 DEF JobOK, Recorded
    <3> QED
      BY <2>12, <2>a, <2>t, <3>1, <3>2, <3>5 DEF Pull
  <2>13. ASSUME NEW p \in Jobs, CommitDir(p) PROVE Goal
    <3> DEFINE l == local[p]
    <3>1. /\ pc[p] = "commit" /\ pc'[p] = "record" /\ local' = local /\ stale' = stale /\ Others(p)
          /\ entries' = entries \cup {l.got}
          /\ UNCHANGED <<indexDisk, file, ringDisk, memory, history>>
      BY <2>13, <2>l, <2>t DEF CommitDir, At, Go, Others
    <3>2. JobOK("commit", l, stale[p]) /\ up
      BY <2>j, <3>1
    <3>3. JobOK(pc[p], local[p], stale[p])'
      <4>1. l.got \in entries' /\ l.cur.hash \in {NoHash, l.got} /\ entries \subseteq entries'
        BY <3>1, <3>2 DEF JobOK, PlaceOK
      <4>2. PlaceOK(pc[p], local[p])'
        BY <3>1, <3>2, <4>1 DEF JobOK, PlaceOK
      <4>3. Provided(pc[p], local[p])'
        BY <3>1, <3>2, <4>1 DEF JobOK, Provided
      <4>4. Carries(local[p])'
        BY <3>1, <3>2, <4>1 DEF JobOK, Carries, history
      <4> QED
        BY <3>1, <4>2, <4>3, <4>4 DEF JobOK, Recorded
    <3>4. JobInv'
      <4>1. ASSUME NEW q \in Jobs, q # p PROVE JobOK(pc[q], local[q], stale[q])'
        BY <2>x, <3>1, <4>1, <2>t DEF Others, memory, history
      <4> QED
        BY <3>3, <4>1 DEF JobInv
    <3>5. DiskInv'
      <4>1. NoDanglingReference'
        BY <3>1 DEF InstallInv, DiskInv, NoDanglingReference, history, indexDisk, memory
      <4>2. AckedConnectorIsKnown'
        BY <3>1 DEF InstallInv, DiskInv, AckedConnectorIsKnown, indexDisk, memory, history
      <4>3. LoadedIsCurrent'
        BY <3>1, <2>t DEF InstallInv, DiskInv, LoadedIsCurrent, Others, Name, memory, history
      <4> QED
        BY <3>1, <3>2, <4>1, <4>2, <4>3 DEF InstallInv, DiskInv, memory, history
    <3>6. RingInv'
      BY <2>k, <2>t, <3>1 DEF ringDisk, history
    <3> QED
      BY <3>4, <3>5, <3>6
  <2>14. ASSUME NEW p \in Jobs, recordIndex(p) PROVE Goal
    <3> DEFINE l == local[p]
    <3>1. /\ pc[p] = "record" /\ pc'[p] = "snapshot" /\ local' = local /\ stale' = stale /\ Others(p)
          /\ index' = [index EXCEPT ![l.cur.ref] = l.got]
          /\ UNCHANGED <<disk, loaded, up, history>>
      BY <2>14, <2>l, <2>t DEF recordIndex, At, Go, Others
    <3>2. JobOK("record", l, stale[p]) /\ up
      BY <2>j, <3>1
    <3>3. l.cur.ref \in Refs /\ l.got \in entries /\ l.got # NoHash /\ index \in [Refs -> Hashes \cup {NoHash}]
      BY <2>t, <3>2, CatalogueAssumption DEF JobOK, PlaceOK, Dependencies, TypeOK, Indexes
    <3>4. index'[l.cur.ref] = l.got /\ \A r \in Refs : r # l.cur.ref => index'[r] = index[r]
      BY <3>1, <3>3
    <3>5. JobOK(pc[p], local[p], stale[p])'
      <4>1. PlaceOK(pc[p], local[p])' /\ Provided(pc[p], local[p])' /\ Carries(local[p])'
        BY <3>1, <3>2 DEF JobOK, PlaceOK, Provided, Carries, history, disk
      <4>2. Recorded(pc[p], local[p], stale[p])'
        BY <3>1, <3>3, <3>4 DEF Recorded
      <4> QED
        BY <3>1, <4>1, <4>2 DEF JobOK
    <3>6. JobInv'
      <4>1. ASSUME NEW q \in Jobs, q # p PROVE JobOK(pc[q], local[q], stale[q])'
        <5>1. \A r \in Refs : index[r] # NoHash => index'[r] # NoHash
          BY <3>3, <3>4
        <5> QED
          BY <2>x, <2>t, <3>1, <4>1, <5>1 DEF Others, disk, history
      <4> QED
        BY <3>5, <4>1 DEF JobInv
    <3>7. DiskInv'
      <4>1. NoDanglingReference'
        <5>1. Named(index') \subseteq entries
          BY <3>3, <3>4 DEF InstallInv, DiskInv, NoDanglingReference, Named
        <5> QED
          BY <3>1, <5>1 DEF InstallInv, DiskInv, NoDanglingReference, history, disk, indexDisk
      <4>2. AckedConnectorIsKnown'
        BY <2>t, <3>1, <3>3, <3>4 DEF InstallInv, DiskInv, AckedConnectorIsKnown, disk, indexDisk, history, TypeOK
      <4>3. LoadedIsCurrent'
        BY <3>1, <2>t DEF InstallInv, DiskInv, LoadedIsCurrent, Others, Name, disk, history
      <4> QED
        BY <3>1, <3>2, <4>1, <4>2, <4>3 DEF InstallInv, DiskInv, disk, history
    <3>8. RingInv'
      BY <2>k, <2>t, <3>1 DEF disk, ringDisk, history
    <3> QED
      BY <3>6, <3>7, <3>8
  <2>15. ASSUME NEW p \in Jobs, SnapshotIndex(p) PROVE Goal
    <3> DEFINE l == [local[p] EXCEPT !.snap = index]
    <3>1. local'[p] = l /\ Others(p) /\ pc[p] = "snapshot" /\ pc'[p] = "rename"
      BY <2>15, <2>l, <2>t DEF SnapshotIndex, At, Go, Fresh, Others
    <3>2. local[p] \in Locals /\ JobOK("snapshot", local[p], stale[p]) /\ up
      BY <2>l, <2>t, <2>j, <3>1
    <3>3. /\ l.op = local[p].op /\ l.content = local[p].content /\ l.snap = index /\ l.scan = local[p].scan
          /\ l.todo = local[p].todo /\ l.cur = local[p].cur /\ l.got = local[p].got
      BY <3>2 DEF Locals
    <3> HIDE DEF l
    <3>4. PlaceOK("rename", l) /\ Provided("rename", l)
      BY <3>2, <3>3 DEF JobOK, PlaceOK, Provided
    <3>5. Carries(l)
      BY <3>2, <3>3 DEF JobOK, Carries, InstallInv, DiskInv, NoDanglingReference
    <3>6. Recorded("rename", l, stale'[p])
      BY <3>2, <3>3 DEF JobOK, Recorded, InstallInv, DiskInv, AckedConnectorIsKnown
    <3>7. JobOK(pc'[p], local'[p], stale'[p])
      BY <3>1, <3>4, <3>5, <3>6 DEF JobOK
    <3> QED
      BY <2>15, <2>a, <2>t, <3>1, <3>2, <3>7 DEF SnapshotIndex
  <2>16. ASSUME NEW p \in Jobs, RenameIndex(p) PROVE Goal
    <3> DEFINE l == [local[p] EXCEPT !.cur = NoDep, !.got = NoHash, !.snap = NoIndex]
               new == [ref |-> local[p].cur.ref, hash |-> local[p].got]
    <3>1. /\ local' = [local EXCEPT ![p].cur = NoDep, ![p].got = NoHash, ![p].snap = NoIndex]
          /\ pc[p] = "rename" /\ indexFile' = local[p].snap /\ damaged' = FALSE /\ Go(p, "next")
          /\ acked' = acked \cup {new} /\ forgotten' = forgotten \ {new}
          /\ UNCHANGED <<entries, file, ringDisk, memory, revoked, ringRaced, missed, behind, handmade>>
      BY <2>16 DEF RenameIndex, At
    <3>2. indexRaced' <=> indexRaced \/ stale[p]
      BY <2>16 DEF RenameIndex
    <3>3. \A q \in Procs \ {p} : stale'[q] <=> stale[q] \/ pc[q] = "rename"
      BY <2>16 DEF RenameIndex, Outdates
    <3>4. local'[p] = l /\ pc'[p] = "next" /\ Others(p)
      BY <2>l, <2>t, <3>1, <3>3 DEF Go, Others
    <3>5. local[p] \in Locals /\ JobOK("rename", local[p], stale[p]) /\ up
      BY <2>l, <2>t, <2>j, <3>1
    <3>6. /\ l.op = local[p].op /\ l.content = local[p].content /\ l.snap = NoIndex /\ l.scan = local[p].scan
          /\ l.todo = local[p].todo
      BY <3>5 DEF Locals
    <3> HIDE DEF l
    <3>7. JobOK(pc[p], local[p], stale[p])'
      <4>1. PlaceOK(pc[p], local[p])'
        BY <3>4, <3>5, <3>6 DEF JobOK, PlaceOK
      <4>2. Provided(pc[p], local[p])'
        BY <3>1, <3>4, <3>5, <3>6 DEF JobOK, Provided
      <4>3. Carries(local[p])'
        <5>1. Named(l.snap) = {}
          BY <3>6 DEF Named, NoIndex
        <5> QED
          BY <3>1, <3>4, <3>5, <3>6, <5>1 DEF JobOK, Carries
      <4> QED
        BY <3>4, <4>1, <4>2, <4>3 DEF JobOK, Recorded
    <3>8. JobInv'
      <4>1. ASSUME NEW q \in Jobs, q # p PROVE JobOK(pc[q], local[q], stale[q])'
        BY <2>x, <2>t, <3>1, <3>2, <3>3, <3>4, <4>1 DEF Others, memory
      <4> QED
        BY <3>7, <4>1 DEF JobInv
    <3>9. /\ local[p].got \in entries /\ index[local[p].cur.ref] # NoHash /\ local[p].snap[local[p].cur.ref] # NoHash
          /\ ~stale[p] /\ ~indexRaced => \A a \in acked \ forgotten : local[p].snap[a.ref] # NoHash
          /\ Named(local[p].snap) \subseteq entries
      BY <3>5 DEF JobOK, PlaceOK, Recorded, Carries
    <3>10. DiskInv'
      <4>1. NoDanglingReference'
        <5>1. \A j \in Jobs : Named(local'[j].snap) \subseteq entries'
          BY <3>8 DEF JobInv, JobOK, Carries
        <5> QED
          BY <3>1, <3>9, <5>1 DEF InstallInv, DiskInv, NoDanglingReference, memory
      <4>2. AckedConnectorIsKnown'
        BY <3>1, <3>2, <3>9 DEF InstallInv, DiskInv, AckedConnectorIsKnown, memory
      <4>3. LoadedIsCurrent'
        <5>1. \A j \in Jobs : pc[j] \in {"scan", "read"} => pc'[j] = pc[j] /\ local'[j] = local[j]
          BY <2>t, <3>1, <3>4 DEF Others
        <5>2. UNCHANGED <<up, behind, file, loaded>>
          BY <3>1 DEF memory
        <5> QED
          BY <5>1, <5>2 DEF InstallInv, DiskInv, LoadedIsCurrent, Name
      <4>4. \A a \in acked' : a.hash \in entries'
        BY <3>1, <3>9 DEF InstallInv, DiskInv
      <4> QED
        BY <3>1, <3>5, <4>1, <4>2, <4>3, <4>4 DEF InstallInv, DiskInv, memory
    <3>11. RingInv'
      BY <2>k, <2>t, <3>1, <3>4 DEF ringDisk
    <3> QED
      BY <3>8, <3>10, <3>11
  <2>17. ASSUME NEW p \in Jobs, Installed(p) PROVE Goal
    <3>1. CASE Return(p)
      BY <2>17, <2>s, <2>t, <3>1 DEF Installed, At
    <3>2. CASE ~Return(p)
      <4>1. /\ pc[p] = "next" /\ pc'[p] = "dest" /\ local' = local /\ stale' = stale /\ Others(p)
            /\ local[p].op = "action" /\ local[p].todo = {}
        BY <2>17, <2>l, <2>t, <3>2 DEF Installed, At, Go, Others
      <4>2. JobOK("next", local[p], stale[p]) /\ up
        BY <2>j, <4>1
      <4>3. Pins(local[p].content) \subseteq entries
        BY <4>1, <4>2 DEF JobOK, Provided, Pins
      <4>4. JobOK(pc'[p], local'[p], stale'[p])
        BY <4>1, <4>2, <4>3 DEF JobOK, PlaceOK, Provided, Carries, Recorded
      <4> QED
        BY <2>17, <2>a, <2>t, <4>1, <4>2, <4>4 DEF Installed
    <3> QED
      BY <3>1, <3>2
  <2>18. ASSUME NEW p \in Jobs, FetchAction(p) PROVE Goal
    <3>1. pc[p] = "fetch" /\ pc'[p] = "check" /\ local' = local /\ stale' = stale /\ Others(p)
      BY <2>18, <2>l, <2>t DEF FetchAction, At, Go, Others
    <3>2. JobOK("fetch", local[p], stale[p]) /\ up
      BY <2>j, <3>1
    <3>3. JobOK(pc'[p], local'[p], stale'[p])
      BY <2>e, <3>1, <3>2 DEF JobOK, PlaceOK
    <3> QED
      BY <2>18, <2>a, <2>t, <3>1, <3>2, <3>3 DEF FetchAction
  <2>19. ASSUME NEW p \in Jobs, CheckConnectors(p) PROVE Goal
    <3>1. CASE Return(p)
      BY <2>19, <2>s, <2>t, <3>1 DEF CheckConnectors, At
    <3>2. CASE ~Return(p)
      <4> DEFINE missing == {d \in Deps[local[p].content] : ~Present(d)}
                 l == [local[p] EXCEPT !.todo = missing]
      <4>1. local' = [local EXCEPT ![p].todo = missing] /\ Go(p, "next") /\ pc[p] = "check" /\ stale' = stale
        BY <2>19, <3>2 DEF CheckConnectors, At
      <4>2. \A d \in Deps[local[p].content] : d.hash \in entries \cup {NoHash} \/ d \in missing
        BY DEF Present
      <4> HIDE DEF missing
      <4>3. local'[p] = l /\ pc'[p] = "next" /\ Others(p)
        BY <2>l, <2>t, <4>1 DEF Go, Others
      <4>4. local[p] \in Locals /\ JobOK("check", local[p], stale[p]) /\ up
        BY <2>l, <2>t, <2>j, <4>1
      <4>5. /\ l.op = local[p].op /\ l.content = local[p].content /\ l.snap = local[p].snap /\ l.scan = local[p].scan
            /\ l.todo = missing
        BY <4>4 DEF Locals
      <4> HIDE DEF l
      <4>6. JobOK(pc'[p], local'[p], stale'[p])
        BY <4>2, <4>3, <4>4, <4>5 DEF JobOK, PlaceOK, Provided, Carries, Recorded
      <4> QED
        BY <2>19, <2>a, <2>t, <4>1, <4>3, <4>4, <4>6 DEF CheckConnectors
    <3> QED
      BY <3>1, <3>2
  <2>20. ASSUME NEW p \in Jobs, ReadDest(p) PROVE Goal
    <3>1. CASE Return(p)
      BY <2>20, <2>s, <2>t, <3>1 DEF ReadDest, At
    <3>2. CASE ~Return(p)
      <4>1. pc[p] = "dest" /\ pc'[p] = "truncate" /\ local' = local /\ stale' = stale /\ Others(p)
        BY <2>20, <2>l, <2>t, <3>2 DEF ReadDest, At, Go, Others
      <4>2. JobOK("dest", local[p], stale[p]) /\ up
        BY <2>j, <4>1
      <4>3. JobOK(pc'[p], local'[p], stale'[p])
        BY <4>1, <4>2 DEF JobOK, PlaceOK, Provided, Carries, Recorded
      <4> QED
        BY <2>20, <2>a, <2>t, <4>1, <4>2, <4>3 DEF ReadDest
    <3> QED
      BY <3>1, <3>2
  <2>21. ASSUME NEW p \in Jobs, TruncateAction(p) PROVE Goal
    <3>1. /\ pc[p] = "truncate" /\ pc'[p] = "write" /\ local' = local /\ stale' = stale /\ Others(p)
          /\ UNCHANGED <<entries, indexDisk, ringDisk, memory, history>>
      BY <2>21, <2>l, <2>t DEF TruncateAction, At, Go, Others
    <3>2. JobOK("truncate", local[p], stale[p]) /\ up
      BY <2>j, <3>1
    <3>3. \A n \in Names : file'[n] = file[n] \/ (file'[n] \in Unreadable /\ file'[n] \notin Contents)
      BY <2>21, <2>t, CatalogueAssumption DEF TruncateAction, TypeOK, Unreadable
    <3>4. JobInv'
      <4>1. JobOK(pc[p], local[p], stale[p])'
        BY <3>1, <3>2 DEF JobOK, PlaceOK, Provided, Carries, history, Recorded
      <4>2. ASSUME NEW q \in Jobs, q # p PROVE JobOK(pc[q], local[q], stale[q])'
        BY <2>x, <2>t, <3>1, <3>3, <4>2 DEF Others, memory, history
      <4> QED
        BY <4>1, <4>2 DEF JobInv
    <3>5. DiskInv'
      <4>1. NoDanglingReference'
        BY <3>1 DEF InstallInv, DiskInv, NoDanglingReference, history, indexDisk, memory
      <4>2. AckedConnectorIsKnown'
        BY <3>1 DEF InstallInv, DiskInv, AckedConnectorIsKnown, indexDisk, memory, history
      <4>3. LoadedIsCurrent'
        BY <3>1, <3>3, <2>t DEF InstallInv, DiskInv, LoadedIsCurrent, Others, Name, memory, history
      <4> QED
        BY <3>1, <3>2, <3>3, <4>1, <4>2, <4>3 DEF InstallInv, DiskInv, memory, history
    <3>6. RingInv'
      BY <2>k, <2>t, <3>1 DEF ringDisk, history
    <3> QED
      BY <3>4, <3>5, <3>6
  <2>22. ASSUME NEW p \in Jobs, WriteAction(p) PROVE Goal
    <3> DEFINE c == local[p].content
    <3>1. /\ pc[p] = "write" /\ pc'[p] = "scan" /\ local' = local /\ stale' = stale
          /\ \A q \in Procs \ {p} : pc'[q] = pc[q]
          /\ UNCHANGED <<entries, indexDisk, ringDisk, memory, acked, forgotten, revoked, indexRaced, ringRaced, behind, handmade>>
      BY <2>22, <2>l, <2>t DEF WriteAction, At, Go
    <3>3. Others(p)
      BY <3>1 DEF Others
    <3>4. JobOK("write", local[p], stale[p]) /\ up
      BY <2>j, <3>1
    <3>5. c \in Contents /\ local[p].op = "action" /\ Pins(c) \subseteq entries /\ NameOf[c] \in Names
      BY <3>4, CatalogueAssumption DEF JobOK, PlaceOK, Provided
    <3>6. /\ file'[NameOf[c]] = c \/ file'[NameOf[c]] \notin Contents
          /\ \A n \in Names : n # NameOf[c] => file'[n] = file[n]
      BY <2>22, <2>t, <3>5, CatalogueAssumption DEF WriteAction, Overwritten, Name, TypeOK
    <3>7. JobInv'
      <4>1. JobOK(pc[p], local[p], stale[p])'
        <5>1. Carries(local[p])'
          BY <3>1, <3>4 DEF JobOK, Carries
        <5> QED
          BY <3>1, <3>5, <5>1 DEF JobOK, PlaceOK, Provided, Recorded
      <4>2. ASSUME NEW q \in Jobs, q # p PROVE JobOK(pc[q], local[q], stale[q])'
        BY <2>x, <2>t, <3>1, <3>3, <4>2 DEF Others, memory
      <4> QED
        BY <4>1, <4>2 DEF JobInv
    <3>8. DiskInv'
      <4>1. NoDanglingReference'
        BY <3>1 DEF InstallInv, DiskInv, NoDanglingReference, indexDisk, memory
      <4>2. AckedConnectorIsKnown'
        BY <3>1 DEF InstallInv, DiskInv, AckedConnectorIsKnown, indexDisk, memory
      <4>3. LoadedIsCurrent'
        <5> SUFFICES ASSUME up, NEW n \in Names \ behind
                     PROVE  \/ file'[n] \in Unreadable
                            \/ loaded[n] = file'[n]
                            \/ \E j \in Jobs : local[j].op = "action" /\ NameOf[local[j].content] = n /\ pc'[j] \in {"scan", "read"}
          BY <3>1 DEF LoadedIsCurrent, Name, memory
        <5>1. CASE n = NameOf[c]
          BY <3>1, <3>5, <5>1
        <5>2. CASE n # NameOf[c]
          <6>1. \/ file[n] \in Unreadable
                \/ loaded[n] = file[n]
                \/ \E j \in Jobs : local[j].op = "action" /\ NameOf[local[j].content] = n /\ pc[j] \in {"scan", "read"}
            BY DEF InstallInv, DiskInv, LoadedIsCurrent, Name
          <6> QED
            BY <2>t, <3>1, <3>6, <5>2, <6>1
        <5> QED
          BY <5>1, <5>2
      <4>4. \A n \in Names : file'[n] \in Contents \ handmade => Pins(file'[n]) \subseteq entries
        BY <3>5, <3>6 DEF InstallInv, DiskInv
      <4> QED
        BY <3>1, <3>4, <4>1, <4>2, <4>3, <4>4 DEF InstallInv, DiskInv, memory
    <3>9. RingInv'
      BY <2>k, <2>t, <3>1, <3>3 DEF ringDisk
    <3> QED
      BY <3>7, <3>8, <3>9
  <2>23. ASSUME NEW p \in Jobs, ReadDir(p) PROVE Goal
    <3> DEFINE left == {n \in Names : file[n] # Missing}
               l == [local[p] EXCEPT !.left = left, !.scan = NoActions]
    <3>1. local' = [local EXCEPT ![p].left = left, ![p].scan = NoActions]
      BY <2>23 DEF ReadDir
    <3> HIDE DEF left
    <3>3. local'[p] = l /\ Others(p) /\ pc[p] = "scan" /\ pc'[p] = "read"
      BY <2>23, <2>l, <2>t, <3>1 DEF ReadDir, At, Go, Others
    <3>4. local[p] \in Locals /\ JobOK("scan", local[p], stale[p]) /\ up
      BY <2>l, <2>t, <2>j, <3>3
    <3>5. l.op = local[p].op /\ l.content = local[p].content /\ l.snap = local[p].snap /\ l.scan = NoActions /\ l.left = left
      BY <3>4 DEF Locals
    <3> HIDE DEF l
    <3>6. Carries(l)
      BY <3>4, <3>5 DEF JobOK, Carries, NoActions
    <3>8. JobOK(pc'[p], local'[p], stale'[p])
      BY <3>3, <3>4, <3>5, <3>6 DEF JobOK, PlaceOK, Provided, Recorded
    <3>9. JobInv' /\ DiskInv'
      BY <2>23, <2>m, <2>t, <3>3, <3>4, <3>5, <3>8 DEF ReadDir, disk, memory, history
    <3>10. RingInv'
      BY <2>23, <2>k, <2>t, <3>3 DEF ReadDir, disk, ringDisk, history
    <3> QED
      BY <3>9, <3>10
  <2>24. ASSUME NEW p \in Jobs, NEW n \in Names, ReadFile(p, n) PROVE Goal
    <3> DEFINE l == [local[p] EXCEPT !.left = @ \ {n}, !.scan[n] = Parsed(file[n])]
    <3>1. /\ local' = [local EXCEPT ![p].left = @ \ {n}, ![p].scan[n] = Parsed(file[n])]
          /\ pc[p] = "read" /\ pc' = pc /\ stale' = stale
      BY <2>24 DEF ReadFile, At
    <3>2. local'[p] = l /\ Others(p)
      BY <2>l, <2>t, <3>1 DEF Others
    <3>3. local[p] \in Locals /\ JobOK("read", local[p], stale[p]) /\ up
      BY <2>l, <2>t, <2>j, <3>1
    <3>4. /\ l.op = local[p].op /\ l.content = local[p].content /\ l.snap = local[p].snap
          /\ l.left = local[p].left \ {n}
          /\ l.scan[n] = Parsed(file[n]) /\ \A m \in Names : m # n => l.scan[m] = local[p].scan[m]
      BY <3>3 DEF Locals
    <3> HIDE DEF l
    <3>5. Parsed(file[n]) \notin handmade \cup {Missing} => Pins(Parsed(file[n])) \subseteq entries
      BY <2>t DEF Parsed, TypeOK, InstallInv, DiskInv
    <3>6. Carries(l)
      BY <3>3, <3>4, <3>5 DEF JobOK, Carries
    <3>8. JobOK(pc'[p], local'[p], stale'[p])
      BY <3>1, <3>2, <3>3, <3>4, <3>6 DEF JobOK, PlaceOK, Provided, Recorded
    <3>9. JobInv' /\ DiskInv'
      BY <2>24, <2>m, <2>t, <3>1, <3>2, <3>3, <3>4, <3>8 DEF ReadFile, disk, memory, history
    <3>10. RingInv'
      BY <2>24, <2>k, <2>t, <3>1, <3>2 DEF ReadFile, disk, ringDisk, history
    <3> QED
      BY <3>9, <3>10
  <2>25. ASSUME NEW p \in Jobs, Replace(p) PROVE Goal
    <3>1. /\ pc[p] = "read" /\ local[p].left = {} /\ Return(p) /\ stale' = stale
          /\ loaded' = local[p].scan /\ behind' = missed[p]
          /\ UNCHANGED <<disk, index, up, acked, forgotten, revoked, indexRaced, ringRaced, handmade>>
      BY <2>25 DEF Replace, At
    <3>2. /\ Others(p) /\ pc'[p] \in {"idle", "exited"} /\ local'[p] = Idle
          /\ JobOK(pc'[p], local'[p], stale'[p])
      BY <2>r, <2>t, <3>1 DEF Others
    <3>3. JobOK("read", local[p], stale[p]) /\ up
      BY <2>j, <3>1
    <3>4. JobInv'
      <4>1. JobOK(pc[p], local[p], stale[p])'
        BY <3>1, <3>2 DEF JobOK, PlaceOK, Provided, Carries, Recorded, disk
      <4>2. ASSUME NEW q \in Jobs, q # p PROVE JobOK(pc[q], local[q], stale[q])'
        BY <2>x, <2>t, <3>1, <3>2, <4>2 DEF Others, disk
      <4> QED
        BY <4>1, <4>2 DEF JobInv
    <3>5. DiskInv'
      <4>1. NoDanglingReference'
        <5>1. \A j \in Jobs : Named(local'[j].snap) \subseteq entries'
          BY <3>4 DEF JobInv, JobOK, Carries
        <5>2. \A n \in Names : loaded'[n] \notin handmade \cup {Missing} => {d.hash : d \in Deps[loaded'[n]]} \ {NoHash} \subseteq entries'
          BY <3>1, <3>3 DEF JobOK, Carries, Pins, disk
        <5> QED
          BY <3>1, <5>1, <5>2 DEF InstallInv, DiskInv, NoDanglingReference, disk, indexDisk
      <4>2. AckedConnectorIsKnown'
        BY <3>1 DEF InstallInv, DiskInv, AckedConnectorIsKnown, disk, indexDisk
      <4>3. LoadedIsCurrent'
        BY <3>1 DEF InstallInv, ScanInv, LoadedIsCurrent, disk
      <4> QED
        BY <3>1, <3>3, <4>1, <4>2, <4>3 DEF InstallInv, DiskInv, disk
    <3>6. RingInv'
      BY <2>k, <2>t, <3>1, <3>2 DEF disk, ringDisk
    <3> QED
      BY <3>4, <3>5, <3>6
  <2>26. ASSUME NEW p \in Procs, Fail(p) PROVE Goal
    <3>1. pc[p] \notin {"scan", "read", "idle"}
      BY <2>26 DEF Fail, Fallible
    <3> QED
      BY <2>26, <2>z, <3>1 DEF Fail
  <2>27. ASSUME NEW p \in Procs, Refuse(p) PROVE Goal
    <3>1. pc[p] \notin {"scan", "read", "idle"}
      BY <2>27 DEF Refuse, At
    <3> QED
      BY <2>27, <2>z, <3>1 DEF Refuse
  <2>28. ASSUME Crash PROVE Goal
    <3>1. /\ \A j \in Jobs : pc'[j] = "idle" /\ local'[j] = Idle
          /\ \A k \in Procs \ Jobs : pc'[k] = pc[k] /\ local'[k] = local[k]
          /\ ~up' /\ UNCHANGED <<stale, disk, index, loaded, acked, forgotten, revoked, indexRaced, ringRaced, behind, handmade>>
      BY <2>28, <2>t DEF Crash
    <3>2. JobInv'
      <4>1. ASSUME NEW j \in Jobs PROVE JobOK(pc[j], local[j], stale[j])'
        <5>1. JobOK("idle", Idle, stale[j])
          BY <2>i
        <5> QED
          BY <3>1, <5>1 DEF JobOK, PlaceOK, Provided, Carries, Recorded, disk
      <4> QED
        BY <4>1 DEF JobInv
    <3>3. DiskInv'
      <4>1. \A j \in Jobs : Named(local'[j].snap) \subseteq entries'
        BY <3>2 DEF JobInv, JobOK, Carries
      <4>2. NoDanglingReference'
        BY <3>1, <4>1 DEF InstallInv, DiskInv, NoDanglingReference, disk, indexDisk
      <4>3. AckedConnectorIsKnown'
        BY <3>1 DEF InstallInv, DiskInv, AckedConnectorIsKnown, disk, indexDisk
      <4>4. LoadedIsCurrent'
        BY <3>1 DEF LoadedIsCurrent
      <4> QED
        BY <3>1, <4>2, <4>3, <4>4 DEF InstallInv, DiskInv, disk
    <3>4. RingInv'
      BY <2>t, <3>1 DEF InstallInv, RingInv, disk, ringDisk
    <3> QED
      BY <3>2, <3>3, <3>4
  <2>29. ASSUME DamageIndex PROVE Goal
    <3>1. /\ ~up /\ damaged' = TRUE
          /\ UNCHANGED <<entries, indexFile, file, ringDisk, memory, control, history>>
      BY <2>29 DEF DamageIndex
    <3>2. JobInv'
      BY <3>1 DEF InstallInv, JobInv, JobOK, PlaceOK, Provided, Carries, Recorded, memory, control, history
    <3>3. NoDanglingReference' /\ AckedConnectorIsKnown'
      BY <3>1 DEF InstallInv, DiskInv, NoDanglingReference, AckedConnectorIsKnown, memory, control, history
    <3>4. LoadedIsCurrent'
      BY <3>1 DEF LoadedIsCurrent, memory
    <3>5. DiskInv'
      BY <3>1, <3>3, <3>4 DEF InstallInv, DiskInv, memory, control, history
    <3>6. RingInv'
      BY <3>1 DEF InstallInv, RingInv, ringDisk, control, history
    <3> QED
      BY <3>2, <3>5, <3>6
  <2>30. ASSUME NEW omitted \in SUBSET Names, Restart(omitted) PROVE Goal
    <3>1. /\ ~up /\ index' \in (IF damaged THEN Rebuilt ELSE {indexFile}) /\ indexFile' = index' /\ damaged' = FALSE
          /\ forgotten' = IF damaged THEN {a \in acked : RefOf[a.hash] # a.ref} ELSE forgotten
          /\ loaded' = [n \in Names |-> IF n \in omitted THEN Missing ELSE Parsed(file[n])] /\ behind' = omitted
          /\ UNCHANGED <<entries, file, ringDisk, control, acked, revoked, indexRaced, ringRaced, handmade>>
      BY <2>30 DEF Restart, LoadAtStart
    <3>2. \A j \in Jobs : pc[j] = "idle" /\ pc'[j] = "idle" /\ local'[j] = local[j]
      BY <3>1 DEF InstallInv, DiskInv, control
    <3>3. JobInv'
      BY <3>1, <3>2 DEF InstallInv, JobInv, JobOK, PlaceOK, Provided, Carries, Recorded, control
    <3>4. Named(index') \subseteq entries
      BY <3>1 DEF Named, Rebuilt, InstallInv, DiskInv, NoDanglingReference
    <3>5. \A n \in Names : loaded'[n] \notin handmade \cup {Missing} => Pins(loaded'[n]) \subseteq entries
      BY <3>1 DEF Parsed, InstallInv, DiskInv
    <3>6. NoDanglingReference'
      BY <3>1, <3>2, <3>4, <3>5 DEF InstallInv, DiskInv, NoDanglingReference, Pins
    <3>7. AckedConnectorIsKnown'
      <4> SUFFICES ASSUME ~indexRaced, NEW a \in acked \ forgotten' PROVE index'[a.ref] # NoHash
        BY <3>1 DEF AckedConnectorIsKnown
      <4>1. CASE damaged
        <5>1. a.hash \in entries /\ RefOf[a.hash] = a.ref
          BY <3>1, <4>1 DEF InstallInv, DiskInv
        <5>2. a.ref \in Refs /\ entries \subseteq Hashes
          BY <2>t DEF TypeOK, Dependencies
        <5> QED
          BY <3>1, <4>1, <5>1, <5>2, CatalogueAssumption DEF Rebuilt
      <4>2. CASE ~damaged
        BY <3>1, <4>2 DEF InstallInv, DiskInv, AckedConnectorIsKnown
      <4> QED
        BY <4>1, <4>2
    <3>8. LoadedIsCurrent'
      <4>1. \A n \in Names : file[n] \in Unreadable \/ Parsed(file[n]) = file[n]
        BY <2>t DEF TypeOK, Parsed
      <4> QED
        BY <3>1, <4>1 DEF LoadedIsCurrent
    <3>9. DiskInv'
      BY <3>1, <3>2, <3>6, <3>7, <3>8 DEF InstallInv, DiskInv
    <3>10. RingInv'
      BY <3>1 DEF InstallInv, RingInv, ringDisk, control
    <3> QED
      BY <3>3, <3>9, <3>10
  <2>32. ASSUME NEW p \in Jobs, MissDest(p) PROVE Goal
    <3>1. pc[p] = "dest" /\ pc'[p] = "truncate" /\ local' = local /\ stale' = stale /\ Others(p)
      BY <2>32, <2>l, <2>t DEF MissDest, At, Go, Others
    <3>2. JobOK("dest", local[p], stale[p]) /\ up
      BY <2>j, <3>1
    <3>3. JobOK(pc'[p], local'[p], stale'[p])
      BY <3>1, <3>2 DEF JobOK, PlaceOK, Provided, Carries, Recorded
    <3> QED
      BY <2>32, <2>a, <2>t, <3>1, <3>2, <3>3 DEF MissDest
  <2>33. ASSUME NEW n \in Names, NEW content \in Drafts, EditFile(n, content) PROVE Goal
    <3>1. /\ UNCHANGED <<entries, indexDisk, ringDisk, memory, control, acked, forgotten, revoked, indexRaced, ringRaced>>
          /\ behind' = behind \cup {n} /\ handmade' = handmade \cup ({content} \cap Contents)
      BY <2>33 DEF EditFile
    <3>2. file'[n] = content /\ \A m \in Names : m # n => file'[m] = file[m]
      BY <2>33, <2>t DEF EditFile, TypeOK
    <3>3. ASSUME NEW q \in Jobs PROVE JobOK(pc[q], local[q], stale[q])'
      BY <2>x, <3>1 DEF memory, control
    <3>4. JobInv'
      BY <3>3 DEF JobInv
    <3>5. NoDanglingReference'
      BY <3>1 DEF InstallInv, DiskInv, NoDanglingReference, indexDisk, memory, control
    <3>6. AckedConnectorIsKnown'
      BY <3>1 DEF InstallInv, DiskInv, AckedConnectorIsKnown, indexDisk, memory
    <3>7. LoadedIsCurrent'
      BY <3>1, <3>2 DEF InstallInv, DiskInv, LoadedIsCurrent, Name, memory, control
    <3>8. DiskInv'
      <4>1. \A m \in Names : file'[m] \in Contents \ handmade' => Pins(file'[m]) \subseteq entries
        BY <3>1, <3>2 DEF InstallInv, DiskInv
      <4> QED
        BY <3>1, <3>5, <3>6, <3>7, <4>1 DEF InstallInv, DiskInv, memory, control
    <3>9. RingInv'
      BY <3>1 DEF InstallInv, RingInv, ringDisk, control
    <3> QED
      BY <3>4, <3>8, <3>9
  <2>34. ASSUME NEW p \in Jobs, FailLoad(p) PROVE Goal
    <3>1. /\ pc[p] = "scan" /\ Return(p) /\ stale' = stale
          /\ behind' = (IF local[p].op = "action" THEN behind \cup {NameOf[local[p].content]} ELSE behind)
          /\ UNCHANGED <<disk, memory, acked, forgotten, revoked, indexRaced, ringRaced, handmade>>
      BY <2>34 DEF FailLoad, At, Name
    <3>2. /\ Others(p) /\ pc'[p] \in {"idle", "exited"} /\ local'[p] = Idle
          /\ JobOK(pc'[p], local'[p], stale'[p])
      BY <2>r, <2>t, <3>1 DEF Others
    <3>3. up
      BY <2>j, <3>1
    <3>4. JobInv'
      <4>1. JobOK(pc[p], local[p], stale[p])'
        BY <3>1, <3>2 DEF JobOK, PlaceOK, Provided, Carries, Recorded, disk, memory
      <4>2. ASSUME NEW q \in Jobs, q # p PROVE JobOK(pc[q], local[q], stale[q])'
        BY <2>x, <2>t, <3>1, <3>2, <4>2 DEF Others, disk, memory
      <4> QED
        BY <4>1, <4>2 DEF JobInv
    <3>5. DiskInv'
      <4>1. NoDanglingReference'
        <5>1. \A j \in Jobs : Named(local'[j].snap) \subseteq entries'
          BY <3>4 DEF JobInv, JobOK, Carries
        <5> QED
          BY <3>1, <5>1 DEF InstallInv, DiskInv, NoDanglingReference, disk, indexDisk, memory
      <4>2. AckedConnectorIsKnown'
        BY <3>1 DEF InstallInv, DiskInv, AckedConnectorIsKnown, disk, indexDisk, memory
      <4>3. LoadedIsCurrent'
        <5> SUFFICES ASSUME up, NEW n \in Names \ behind'
                     PROVE  \/ file[n] \in Unreadable
                            \/ loaded[n] = file[n]
                            \/ \E j \in Jobs : local'[j].op = "action" /\ NameOf[local'[j].content] = n /\ pc'[j] \in {"scan", "read"}
          BY <3>1 DEF LoadedIsCurrent, Name, disk, memory
        <5>1. n \notin behind /\ ~(local[p].op = "action" /\ NameOf[local[p].content] = n)
          BY <3>1
        <5>2. \/ file[n] \in Unreadable
              \/ loaded[n] = file[n]
              \/ \E j \in Jobs \ {p} : local[j].op = "action" /\ NameOf[local[j].content] = n /\ pc[j] \in {"scan", "read"}
          BY <5>1 DEF InstallInv, DiskInv, LoadedIsCurrent, Name
        <5> QED
          BY <2>t, <3>2, <5>2 DEF Others
      <4> QED
        BY <3>1, <3>3, <4>1, <4>2, <4>3 DEF InstallInv, DiskInv, disk, memory
    <3>6. RingInv'
      BY <2>k, <2>t, <3>1, <3>2 DEF disk, ringDisk
    <3> QED
      BY <3>4, <3>5, <3>6
  <2>35. ASSUME NEW p \in Jobs, NEW n \in Names, SkipFile(p, n) PROVE Goal
    <3> DEFINE l == [local[p] EXCEPT !.left = @ \ {n}]
    <3>1. /\ local' = [local EXCEPT ![p].left = @ \ {n}]
          /\ pc[p] = "read" /\ pc' = pc /\ stale' = stale
          /\ UNCHANGED <<disk, memory, acked, forgotten, revoked, indexRaced, ringRaced, behind, handmade>>
      BY <2>35 DEF SkipFile, At
    <3>2. local'[p] = l /\ Others(p)
      BY <2>l, <2>t, <3>1 DEF Others
    <3>3. local[p] \in Locals /\ JobOK("read", local[p], stale[p]) /\ up
      BY <2>l, <2>t, <2>j, <3>1
    <3>4. l.op = local[p].op /\ l.content = local[p].content /\ l.snap = local[p].snap /\ l.scan = local[p].scan
      BY <3>3 DEF Locals
    <3> HIDE DEF l
    <3>5. JobOK(pc'[p], local'[p], stale'[p])
      BY <3>1, <3>2, <3>3, <3>4 DEF JobOK, PlaceOK, Provided, Carries, Recorded
    <3>6. JobInv' /\ DiskInv'
      BY <2>m, <2>t, <3>1, <3>2, <3>3, <3>4, <3>5 DEF disk, memory
    <3>7. RingInv'
      BY <2>k, <2>t, <3>1, <3>2 DEF disk, ringDisk
    <3> QED
      BY <3>6, <3>7
  <2>31. CASE UNCHANGED vars
    <3>1. JobInv'
      BY <2>31 DEF vars, disk, memory, control, history, InstallInv, JobInv, JobOK, PlaceOK, Provided, Carries, Recorded
    <3>2. NoDanglingReference' /\ AckedConnectorIsKnown'
      BY <2>31 DEF vars, disk, indexDisk, memory, control, history, InstallInv, DiskInv, NoDanglingReference, AckedConnectorIsKnown
    <3>3. LoadedIsCurrent'
      BY <2>31 DEF vars, disk, memory, control, history, InstallInv, DiskInv, LoadedIsCurrent, Name
    <3>4. DiskInv'
      BY <2>31, <3>2, <3>3 DEF vars, disk, memory, control, history, InstallInv, DiskInv
    <3>5. RingInv'
      BY <2>31 DEF vars, disk, ringDisk, control, history, InstallInv, RingInv
    <3> QED
      BY <3>1, <3>4, <3>5
  <2> QED
    BY <2>1, <2>2, <2>3, <2>4, <2>5, <2>6, <2>7, <2>8, <2>9, <2>10, <2>11, <2>12, <2>13, <2>14, <2>15, <2>16, <2>17, <2>18, <2>19, <2>20, <2>21, <2>22, <2>23, <2>24, <2>25, <2>26, <2>27, <2>28, <2>29, <2>30, <2>31, <2>32, <2>33, <2>34, <2>35
    DEF Next, Request, Pipeline, Keyring
(* Every step keeps what the running Loads have read in agreement with the *)
(* files, but for those they have missed.                                  *)
<1>4. InstallInv /\ TypeOK' /\ [Next]_vars => ScanInv'
  <2> SUFFICES ASSUME InstallInv, TypeOK', [Next]_vars PROVE ScanInv'
    OBVIOUS
  <2>t. TypeOK /\ ScanInv /\ Jobs \subseteq Procs /\ Clis \subseteq Procs
    BY DEF InstallInv, Procs
  <2>l. pc \in [Procs -> Places] /\ local \in [Procs -> Locals] /\ missed \in [Jobs -> SUBSET Names]
    BY <2>t DEF TypeOK
  <2>s. ASSUME \A q \in Jobs : pc'[q] = "read" =>
                 /\ pc[q] = "read" /\ local'[q].left = local[q].left /\ local'[q].scan = local[q].scan
                 /\ \A n \in Names \ local[q].left : file'[n] = file[n] \/ file'[n] \in Unreadable \/ n \in missed'[q]
                 /\ missed[q] \subseteq missed'[q]
        PROVE  ScanInv'
    BY <2>s, <2>t DEF ScanInv
  <2>q. ASSUME NEW p \in Procs, pc'[p] # "read", UNCHANGED <<file, missed>>,
               \A q \in Procs \ {p} : pc'[q] = pc[q] /\ local'[q] = local[q]
        PROVE  ScanInv'
    BY <2>q, <2>s, <2>t
  <2>b. ASSUME NEW p \in Procs, NEW l, NEW x \in {"confirm", "fetch", "scan", "next"}, Begin(p, l, x) PROVE ScanInv'
    BY <2>b, <2>l, <2>q DEF Begin, Go, disk, history
  <2>r. ASSUME NEW p \in Procs, Return(p)
        PROVE  pc'[p] # "read" /\ \A q \in Procs \ {p} : pc'[q] = pc[q] /\ local'[q] = local[q]
    BY <2>r, <2>l DEF Return, Go
  <2>o. ASSUME NEW p \in Procs, NEW rest, Onward(p, rest)
        PROVE  pc'[p] # "read" /\ \A q \in Procs \ {p} : pc'[q] = pc[q] /\ local'[q] = local[q]
    BY <2>o, <2>l, <2>r DEF Onward, Go
  <2>1. ASSUME NEW p \in Jobs, NEW d \in Asks, NEW confirmed \in BOOLEAN, InstallConnector(p, d, confirmed) PROVE ScanInv'
    BY <2>1, <2>b, <2>t DEF InstallConnector, Accept
  <2>2. ASSUME NEW p \in Jobs, NEW c \in Contents, NEW force \in BOOLEAN, NEW auto \in BOOLEAN, NEW confirmed \in BOOLEAN, InstallAction(p, c, force, auto, confirmed) PROVE ScanInv'
    BY <2>2, <2>b, <2>t DEF InstallAction, Accept
  <2>3. ASSUME NEW p \in Jobs, ListActions(p) PROVE ScanInv'
    BY <2>3, <2>b, <2>t DEF ListActions, Accept
  <2>4. ASSUME NEW p \in Jobs, Sync(p) PROVE ScanInv'
    BY <2>4, <2>b, <2>t DEF Sync, Accept
  <2>5. ASSUME NEW p \in Clis, NEW r \in Refs, runKeyringTrust(p, r) PROVE ScanInv'
    BY <2>5, <2>b, <2>t DEF runKeyringTrust, Command
  <2>6. ASSUME NEW p \in Clis, NEW r \in Refs, runKeyringTrustPlan(p, r) PROVE ScanInv'
    BY <2>6, <2>b, <2>t DEF runKeyringTrustPlan, Command
  <2>7. ASSUME NEW p \in Clis, NEW a \in Scopes, runKeyringRevoke(p, a) PROVE ScanInv'
    BY <2>7, <2>b, <2>t DEF runKeyringRevoke, Command
  <2>8. ASSUME NEW p \in Procs, NEW a \in Scopes, LoadKeyring(p, a) PROVE ScanInv'
    <3>1. pc'[p] # "read" /\ \A q \in Procs \ {p} : pc'[q] = pc[q] /\ local'[q] = local[q]
      BY <2>8, <2>l, <2>o DEF LoadKeyring, Go
    <3> QED
      BY <2>8, <2>q, <3>1 DEF LoadKeyring, disk, history
  <2>9. ASSUME NEW p \in Procs, TruncateKeyring(p) PROVE ScanInv'
    BY <2>9, <2>l, <2>q, <2>t DEF TruncateKeyring, Go, history
  <2>10. ASSUME NEW p \in Procs, SaveKeyring(p) PROVE ScanInv'
    BY <2>10, <2>l, <2>o, <2>q DEF SaveKeyring
  <2>11. ASSUME NEW p \in Jobs, NEW d \in Dependencies, NextConnector(p, d) PROVE ScanInv'
    BY <2>11, <2>l, <2>q, <2>t DEF NextConnector, Go, At, disk, history
  <2>12. ASSUME NEW p \in Jobs, NEW h \in Hashes, Pull(p, h) PROVE ScanInv'
    BY <2>12, <2>l, <2>q, <2>t DEF Pull, Go, disk, history
  <2>13. ASSUME NEW p \in Jobs, CommitDir(p) PROVE ScanInv'
    BY <2>13, <2>l, <2>q, <2>t DEF CommitDir, Go, history
  <2>14. ASSUME NEW p \in Jobs, recordIndex(p) PROVE ScanInv'
    BY <2>14, <2>l, <2>q, <2>t DEF recordIndex, Go, disk, history
  <2>15. ASSUME NEW p \in Jobs, SnapshotIndex(p) PROVE ScanInv'
    BY <2>15, <2>l, <2>q, <2>t DEF SnapshotIndex, Go, disk, history
  <2>16. ASSUME NEW p \in Jobs, RenameIndex(p) PROVE ScanInv'
    BY <2>16, <2>l, <2>q, <2>t DEF RenameIndex, Go
  <2>17. ASSUME NEW p \in Jobs, Installed(p) PROVE ScanInv'
    BY <2>17, <2>l, <2>q, <2>r, <2>t DEF Installed, Go, disk, history
  <2>18. ASSUME NEW p \in Jobs, FetchAction(p) PROVE ScanInv'
    BY <2>18, <2>l, <2>q, <2>t DEF FetchAction, Go, disk, history
  <2>19. ASSUME NEW p \in Jobs, CheckConnectors(p) PROVE ScanInv'
    BY <2>19, <2>l, <2>q, <2>r, <2>t DEF CheckConnectors, Go, disk, history
  <2>20. ASSUME NEW p \in Jobs, ReadDest(p) PROVE ScanInv'
    BY <2>20, <2>l, <2>q, <2>r, <2>t DEF ReadDest, Go, disk, history
  <2>26. ASSUME NEW p \in Procs, Fail(p) PROVE ScanInv'
    BY <2>26, <2>l, <2>q, <2>r, <2>t DEF Fail, Go, disk, history
  <2>27. ASSUME NEW p \in Procs, Refuse(p) PROVE ScanInv'
    BY <2>27, <2>l, <2>q, <2>r, <2>t DEF Refuse, Go, disk, history
  <2>32. ASSUME NEW p \in Jobs, MissDest(p) PROVE ScanInv'
    BY <2>32, <2>l, <2>q, <2>t DEF MissDest, Go, disk, history
  <2>34. ASSUME NEW p \in Jobs, FailLoad(p) PROVE ScanInv'
    BY <2>34, <2>l, <2>q, <2>r, <2>t DEF FailLoad, disk
  <2>21. ASSUME NEW p \in Jobs, TruncateAction(p) PROVE ScanInv'
    <3>1. \A n \in Names : file'[n] = file[n] \/ file'[n] \in Unreadable
      BY <2>21, <2>t DEF TruncateAction, TypeOK, Unreadable
    <3> QED
      BY <2>21, <2>l, <2>s, <2>t, <3>1 DEF TruncateAction, Go, history
  <2>22. ASSUME NEW p \in Jobs, WriteAction(p) PROVE ScanInv'
    <3>1. \A n \in Names : n # Name(p) => file'[n] = file[n]
      BY <2>22, <2>t DEF WriteAction, TypeOK
    <3>2. \A q \in Jobs : missed'[q] = IF pc[q] = "read" /\ Name(p) \notin local[q].left THEN missed[q] \cup {Name(p)} ELSE missed[q]
      BY <2>22 DEF WriteAction, Overtake, At
    <3>3. \A q \in Jobs : pc'[q] = "read" => pc[q] = "read" /\ local'[q] = local[q]
      BY <2>22, <2>l, <2>t DEF WriteAction, Go
    <3> QED
      BY <2>s, <3>1, <3>2, <3>3
  <2>23. ASSUME NEW p \in Jobs, ReadDir(p) PROVE ScanInv'
    <3> DEFINE left == {n \in Names : file[n] # Missing}
    <3>1. local' = [local EXCEPT ![p].left = left, ![p].scan = NoActions] /\ UNCHANGED <<file, missed>>
      BY <2>23 DEF ReadDir, disk, history
    <3>2. \A n \in Names : n \notin left => file[n] = Missing
      OBVIOUS
    <3> HIDE DEF left
    <3>3. local[p] \in Locals /\ p \in Procs
      BY <2>l, <2>t
    <3>4. local'[p].left = left /\ local'[p].scan = NoActions
      BY <2>l, <3>1, <3>3 DEF Locals
    <3>5. \A q \in Jobs \ {p} : pc'[q] = pc[q] /\ local'[q] = local[q]
      BY <2>23, <2>l, <2>t, <3>1 DEF ReadDir, Go
    <3> SUFFICES ASSUME NEW q \in Jobs, pc'[q] = "read", NEW m \in Names \ (local'[q].left \cup missed'[q])
                 PROVE  file'[m] \in Unreadable \/ local'[q].scan[m] = file'[m]
      BY DEF ScanInv
    <3>6. CASE q = p
      BY <3>1, <3>2, <3>4, <3>6 DEF NoActions
    <3>7. CASE q # p
      BY <2>t, <3>1, <3>5, <3>7 DEF ScanInv
    <3> QED
      BY <3>6, <3>7
  <2>24. ASSUME NEW p \in Jobs, NEW n \in Names, ReadFile(p, n) PROVE ScanInv'
    <3>1. /\ local' = [local EXCEPT ![p].left = @ \ {n}, ![p].scan[n] = Parsed(file[n])]
          /\ pc[p] = "read" /\ UNCHANGED <<pc, file, missed>>
      BY <2>24 DEF ReadFile, At, disk, history
    <3>2. local[p] \in Locals /\ p \in Procs
      BY <2>l, <2>t
    <3>3. /\ local'[p].left = local[p].left \ {n}
          /\ local'[p].scan[n] = Parsed(file[n])
          /\ \A m \in Names : m # n => local'[p].scan[m] = local[p].scan[m]
      BY <2>l, <3>1, <3>2 DEF Locals
    <3>4. \A q \in Jobs \ {p} : local'[q] = local[q]
      BY <2>l, <2>t, <3>1
    <3>5. file[n] \in Unreadable \/ Parsed(file[n]) = file[n]
      BY <2>t DEF Parsed, TypeOK
    <3> SUFFICES ASSUME NEW q \in Jobs, pc'[q] = "read", NEW m \in Names \ (local'[q].left \cup missed'[q])
                 PROVE  file'[m] \in Unreadable \/ local'[q].scan[m] = file'[m]
      BY DEF ScanInv
    <3>6. CASE q = p
      BY <2>t, <3>1, <3>3, <3>5, <3>6 DEF ScanInv
    <3>7. CASE q # p
      BY <2>t, <3>1, <3>4, <3>7 DEF ScanInv
    <3> QED
      BY <3>6, <3>7
  <2>25. ASSUME NEW p \in Jobs, Replace(p) PROVE ScanInv'
    <3>1. \A q \in Jobs \ {p} : missed'[q] = missed[q]
      BY <2>25, <2>l DEF Replace
    <3> QED
      BY <2>25, <2>r, <2>s, <2>t, <3>1 DEF Replace, disk
  <2>28. ASSUME Crash PROVE ScanInv'
    BY <2>28, <2>t DEF Crash, ScanInv
  <2>29. ASSUME DamageIndex PROVE ScanInv'
    BY <2>29, <2>s DEF DamageIndex, control, history
  <2>30. ASSUME NEW omitted \in SUBSET Names, Restart(omitted) PROVE ScanInv'
    BY <2>30, <2>s DEF Restart, control
  <2>33. ASSUME NEW n \in Names, NEW content \in Drafts, EditFile(n, content) PROVE ScanInv'
    <3>1. \A m \in Names : m # n => file'[m] = file[m]
      BY <2>33, <2>t DEF EditFile, TypeOK
    <3>2. \A q \in Jobs : missed'[q] = IF pc[q] = "read" /\ n \notin local[q].left THEN missed[q] \cup {n} ELSE missed[q]
      BY <2>33 DEF EditFile, Overtake, At
    <3> QED
      BY <2>33, <2>s, <3>1, <3>2 DEF EditFile, control
  <2>35. ASSUME NEW p \in Jobs, NEW n \in Names, SkipFile(p, n) PROVE ScanInv'
    <3>1. /\ local' = [local EXCEPT ![p].left = @ \ {n}] /\ missed' = [missed EXCEPT ![p] = @ \cup {n}]
          /\ pc[p] = "read" /\ UNCHANGED <<pc, file>>
      BY <2>35 DEF SkipFile, At, disk
    <3>2. local[p] \in Locals /\ p \in Procs
      BY <2>l, <2>t
    <3>3. local'[p].left = local[p].left \ {n} /\ local'[p].scan = local[p].scan /\ missed'[p] = missed[p] \cup {n}
      BY <2>l, <3>1, <3>2 DEF Locals
    <3>4. \A q \in Jobs \ {p} : local'[q] = local[q] /\ missed'[q] = missed[q]
      BY <2>l, <2>t, <3>1
    <3> QED
      BY <2>t, <3>1, <3>3, <3>4 DEF ScanInv
  <2>31. CASE UNCHANGED vars
    BY <2>31, <2>s DEF vars, disk, control, history
  <2> QED
    BY <2>1, <2>2, <2>3, <2>4, <2>5, <2>6, <2>7, <2>8, <2>9, <2>10, <2>11, <2>12, <2>13, <2>14, <2>15, <2>16, <2>17, <2>18, <2>19, <2>20, <2>21, <2>22, <2>23, <2>24, <2>25, <2>26, <2>27, <2>28, <2>29, <2>30, <2>31, <2>32, <2>33, <2>34, <2>35
    DEF Next, Request, Pipeline, Keyring
<1>5. InstallInv /\ [Next]_vars => InstallInv'
  BY <1>2, <1>3, <1>4 DEF InstallInv
<1> QED
  BY <1>1, <1>5, PTL DEF Spec

-----------------------------------------------------------------------------
(* The theorems.                                                           *)

(* Type correctness of the disk, the stores in memory and the requests. *)
THEOREM TypeCorrect == Spec => []TypeOK
<1>1. InstallInv => TypeOK
  BY DEF InstallInv
<1> QED
  BY <1>1, InstallInvariant, PTL

(* Nothing that the index, its file, a copy of it or a loaded action that  *)
(* was installed names is missing from the connector store, wherever       *)
(* installs are interrupted.  Manifests the user put in place are exempt.  *)
THEOREM NothingDangles == Spec => []NoDanglingReference
<1>1. InstallInv => NoDanglingReference
  BY DEF InstallInv, DiskInv
<1> QED
  BY <1>1, InstallInvariant, PTL

(* A reported connector install survives crashes, restarts and rebuilds of *)
(* the index, unless two persistIndex calls wrote in the wrong order, or a *)
(* rebuild came after it and its tarball declares another connector than   *)
(* the one it was reported for.                                            *)
THEOREM AckedKnown == Spec => []AckedConnectorIsKnown
<1>1. InstallInv => AckedConnectorIsKnown
  BY DEF InstallInv, DiskInv
<1> QED
  BY <1>1, InstallInvariant, PTL

(* The loaded actions are the files, but for installs on the way to their  *)
(* Load and, until the next complete Load, files the user has changed, a   *)
(* Load could not read or was overtaken on, or an install could not load.  *)
THEOREM LoadedCurrent == Spec => []LoadedIsCurrent
<1>1. InstallInv => LoadedIsCurrent
  BY DEF InstallInv, DiskInv
<1> QED
  BY <1>1, InstallInvariant, PTL

(* A revoked authority stays out of the keyring, whatever the daemon and   *)
(* other keyring commands do, unless two edits overlap.                    *)
THEOREM RevokeStays == Spec => []RevokeHolds
<1>1. InstallInv => RevokeHolds
  BY DEF InstallInv, RingInv, RevokeHolds
<1> QED
  BY <1>1, InstallInvariant, PTL
=============================================================================
