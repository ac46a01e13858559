------------------------- MODULE OAuthBindingsProofs -------------------------
(***************************************************************************)
(* Proofs about OAuthBindings, for every set of bindings, scopes, handlers *)
(* and sessions and every bound.                                           *)
(***************************************************************************)
EXTENDS OAuthBindings, TLAPS

-----------------------------------------------------------------------------
(* The inductive invariant.                                                *)

(* A refresh has a token to refresh, and the hook is done with the binding *)
(* it is writing.                                                          *)
JobOK(j) ==
  /\ j.op \in {"refresh", "persist"} => j.old # 0
  /\ j.op = "drift_put" => j.snap[j.name] = NoEntry

JobInv == \A h \in Handlers : JobOK(job[h])

(* What the job has read of n is what the vault holds. *)
Fresh(j, n) ==
  /\ j.op = "refresh" /\ j.name = n =>
       j.entry = mem[n] /\ j.old = mem[n].ref
  /\ j.op = "persist" /\ j.name = n =>
       j.entry.status = mem[n].status /\ j.old = mem[n].ref
  /\ j.op \in {"drift", "drift_put"} /\ n \in OAuthNames /\ j.snap[n] # NoEntry => mem[n] = j.snap[n]
  /\ j.op = "drift_put" /\ j.name = n => mem[n] # NoEntry /\ j.entry.ref = mem[n].ref

FreshInv == \A h \in Handlers, n \in Names : <<h, n>> \notin stale => Fresh(job[h], n)

(* While the vault is closed no handler holds an entry; while it is open   *)
(* the file lags behind only where a write failed.                         *)
Resting(j) == j = Idle \/ (j.op = "drift" /\ \A n \in OAuthNames : j.snap[n] = NoEntry)

FileInv ==
  /\ vault # "open" => unsaved = {} /\ \A h \in Handlers : Resting(job[h])
  /\ vault = "open" => \A n \in Names \ unsaved : file[n] = mem[n]

(* The entry that counts: the vault's, or the one it will read back. *)
Kept(n) == IF vault = "open" THEN mem[n] ELSE file[n]

OutcomeInv ==
  /\ \A n \in revoked \ (clobbered \cup lagged) : Kept(n) = NoEntry
  /\ \A n \in marked \ (clobbered \cup lagged) : Kept(n).status # "active"

BindingInv == TypeOK /\ JobInv /\ FreshInv /\ FileInv /\ OutcomeInv

(* The refresh tokens a job holds. *)
TokensOf(j) ==
  IF j.op \in BindingOps THEN {j.old, j.entry.ref}
  ELSE IF j.op = "drift_put" THEN {j.entry.ref} ELSE {}

Stores(n, t) == mem[n].ref = t \/ file[n].ref = t
Holds(h, t) == t \in TokensOf(job[h])
Known(n, t) == Stores(n, t) \/ \E h \in Handlers : Holds(h, t) /\ job[h].name = n

(* A token was issued, and for one binding. *)
HolderInv ==
  \A t \in Tokens, n \in Names : Known(n, t) =>
    t <= issued /\ \A m \in Names : Known(m, t) => m = n

(* A token fresh from the provider is known to one handler only. *)
OwnOK(h) ==
  /\ job[h].op \in {"exchange", "check", "put", "upsert"} => job[h].old = 0
  /\ job[h].op \in {"check", "put", "upsert", "persist"} /\ job[h].name \in OAuthNames =>
       LET u == job[h].entry.ref IN
       \/ u \in {0, job[h].old}
       \/ /\ u \in live
          /\ \A n \in Names : ~Stores(n, u)
          /\ \A k \in Handlers \ {h} : ~Holds(k, u)

OwnInv == \A h \in Handlers : OwnOK(h)

Replaces(k, n, t) == job[k].op = "persist" /\ job[k].name = n /\ job[k].old = t

(* What a handler is about to write back over what it has read is accepted *)
(* or lost, or another handler has the replacement.                        *)
GoodOK(h) ==
  job[h].op = "persist" /\ <<h, job[h].name>> \notin stale =>
    LET u == job[h].entry.ref IN
    u = 0 \/ u \in live \cup burnt \/ \E k \in Handlers \ {h} : Replaces(k, job[h].name, u)

KeptOK(n) ==
  LET t == Kept(n).ref IN t = 0 \/ t \in live \cup burnt \/ \E k \in Handlers : Replaces(k, n, t)

GoodInv ==
  /\ \A h \in Handlers : GoodOK(h)
  /\ \A n \in OAuthNames \ (clobbered \cup lagged) : KeptOK(n)

TokenInv == HolderInv /\ OwnInv /\ GoodInv

-----------------------------------------------------------------------------
AllJobs == {Idle} \cup BindingJobs \cup DriftJobs \cup DriftPutJobs

(* What a job's op says of its fields, and which jobs the handlers build;  *)
(* one at rest, or before its read, has nothing to be fresh about.         *)
LEMMA JobTypes ==
  /\ \A j \in AllJobs :
       /\ j.op \in BindingOps =>
            /\ j \in BindingJobs
            /\ j.name \in Names /\ j.entry \in Entries /\ j.old \in Tokens \cup {0} /\ j.create \in BOOLEAN
       /\ j.op \in {"drift", "drift_put"} => j.snap \in Snaps /\ j.req \in SUBSET Scopes
       /\ j.op = "drift_put" => j.name \in OAuthNames /\ j.entry \in Entries
  /\ NoEntry \in Entries /\ Idle \in AllJobs /\ Idle.op = "idle"
  /\ \A op \in BindingOps, n \in Names :
       /\ Job(op, n) \in BindingJobs /\ Job(op, n).op = op /\ Job(op, n).name = n
  /\ \A snap \in Snaps, req \in SUBSET Scopes :
       /\ DriftJob(snap, req) \in DriftJobs
       /\ DriftJob(snap, req).op = "drift" /\ DriftJob(snap, req).snap = snap
       /\ \A n \in OAuthNames, e \in Entries :
            LET j == DriftPutJob(snap, req, n, e) IN
            /\ j \in DriftPutJobs
            /\ j.op = "drift_put" /\ j.snap = snap /\ j.name = n /\ j.entry = e
  /\ \A j, n : Resting(j) \/ j.op \notin {"refresh", "persist", "drift", "drift_put"} =>
       Fresh(j, n) /\ JobOK(j)
<1>1. ASSUME NEW j \in AllJobs
      PROVE  /\ j.op \in BindingOps =>
                  /\ j \in BindingJobs
                  /\ j.name \in Names /\ j.entry \in Entries /\ j.old \in Tokens \cup {0} /\ j.create \in BOOLEAN
             /\ j.op \in {"drift", "drift_put"} => j.snap \in Snaps /\ j.req \in SUBSET Scopes
             /\ j.op = "drift_put" => j.name \in OAuthNames /\ j.entry \in Entries
  <2>1. CASE j = Idle
    BY <2>1 DEF Idle, BindingOps
  <2>2. CASE j \in BindingJobs
    BY <2>2 DEF BindingJobs, BindingOps
  <2>3. CASE j \in DriftJobs
    BY <2>3 DEF DriftJobs, BindingOps
  <2>4. CASE j \in DriftPutJobs
    BY <2>4 DEF DriftPutJobs, BindingOps
  <2> QED
    BY <2>1, <2>2, <2>3, <2>4 DEF AllJobs
<1>2. NoEntry \in Entries
  BY DEF NoEntry, Entries, Reasons
<1>3. Idle \in AllJobs /\ Idle.op = "idle"
  BY DEF Idle, AllJobs
<1>4. ASSUME NEW op \in BindingOps, NEW n \in Names
      PROVE  Job(op, n) \in BindingJobs /\ Job(op, n).op = op /\ Job(op, n).name = n
  BY <1>2 DEF Job, BindingJobs
<1>5. ASSUME NEW snap \in Snaps, NEW req \in SUBSET Scopes
      PROVE  /\ DriftJob(snap, req) \in DriftJobs
             /\ DriftJob(snap, req).op = "drift" /\ DriftJob(snap, req).snap = snap
  BY DEF DriftJob, DriftJobs
<1>6. ASSUME NEW snap \in Snaps, NEW req \in SUBSET Scopes, NEW n \in OAuthNames, NEW e \in Entries
      PROVE  LET j == DriftPutJob(snap, req, n, e) IN
             /\ j \in DriftPutJobs
             /\ j.op = "drift_put" /\ j.snap = snap /\ j.name = n /\ j.entry = e
  BY DEF DriftPutJob, DriftPutJobs
<1>7. \A j, n : Resting(j) \/ j.op \notin {"refresh", "persist", "drift", "drift_put"} =>
        Fresh(j, n) /\ JobOK(j)
  BY DEF Fresh, JobOK, Resting, Idle
<1> QED
  BY <1>1, <1>2, <1>3, <1>4, <1>5, <1>6, <1>7

(* The entries that handlers build. *)
LEMMA EntryTypes ==
  ASSUME NEW e \in Entries, NEW i \in Tokens \cup {0}, NEW t \in Tokens \cup {0},
         NEW req \in SUBSET Scopes
  PROVE  /\ Entry(i, t, req) \in Entries
         /\ Refreshed(e, i, t) \in Entries
         /\ Refreshed(e, i, t).status = e.status /\ Refreshed(e, i, t).ref = t
         /\ [e EXCEPT !.acc = i] \in Entries
         /\ EvaluateScopeDrift(e, req) \in Entries
<1>1. Entry(i, t, req) \in Entries
  BY DEF Entry, Entries, Reasons
<1>2. Refreshed(e, i, t) \in Entries /\ Refreshed(e, i, t).status = e.status /\ Refreshed(e, i, t).ref = t
  BY DEF Refreshed, Entries
<1>3. [e EXCEPT !.acc = i] \in Entries
  BY DEF Entries
<1>4. EvaluateScopeDrift(e, req) \in Entries
  <2>1. ASSUME NEW st \in {"active", "no_grant_record", "scope_drift"}, NEW m \in SUBSET Scopes
        PROVE  [e EXCEPT !.status = st, !.missing = m] \in Entries
    BY DEF Entries, Reasons
  <2> QED
    BY <2>1 DEF EvaluateScopeDrift, MissingScopes
<1> QED
  BY <1>1, <1>2, <1>3, <1>4


-----------------------------------------------------------------------------
(* Moves and writes.                                                       *)

(* A handler that goes on to j without a write, and has read right what it *)
(* has read, keeps the handlers' part of the invariant.                    *)
LEMMA Moves ==
  ASSUME BindingInv, NEW h \in Handlers, NEW j, Goto(h, j), UNCHANGED <<vault, mem, file, unsaved>>,
         stale' = stale \/ stale' = {p \in stale : p[1] # h},
         JobOK(j),
         \A n \in Names : <<h, n>> \notin stale' => Fresh(j, n),
         vault # "open" => Resting(j)
  PROVE  JobInv' /\ FreshInv' /\ FileInv'
<1>1. job' = [job EXCEPT ![h] = j] /\ job \in [Handlers -> AllJobs]
  BY DEF Goto, BindingInv, TypeOK, AllJobs
<1>2. job'[h] = j /\ \A g \in Handlers : g # h => job'[g] = job[g]
  BY <1>1
<1>3. JobInv'
  BY <1>2 DEF BindingInv, JobInv, JobOK
<1>4. ASSUME NEW g \in Handlers, NEW n \in Names, <<g, n>> \notin stale' PROVE Fresh(job[g], n)'
  <2>1. CASE g = h
    <3>1. Fresh(j, n)
      BY <1>4, <2>1
    <3> QED
      BY <1>2, <2>1, <3>1 DEF Fresh
  <2>2. CASE g # h
    <3>1. <<g, n>> \notin stale
      BY <1>4, <2>2
    <3>2. Fresh(job[g], n)
      BY <3>1 DEF BindingInv, FreshInv
    <3> QED
      BY <1>2, <2>2, <3>2 DEF Fresh
  <2> QED
    BY <2>1, <2>2
<1>5. FreshInv'
  BY <1>4 DEF FreshInv
<1>6. FileInv'
  BY <1>2 DEF BindingInv, FileInv, Resting
<1> QED
  BY <1>3, <1>5, <1>6

(* A write makes every other reader of the name stale and touches no other *)
(* name.                                                                   *)
LEMMA Writes ==
  ASSUME BindingInv, NEW h \in Handlers, NEW n \in Names, NEW e \in Entries, Store(h, n, e),
         \/ Flushed
         \/ FlushFails(n),
         UNCHANGED vault, ~Resting(job[h]),
         \/ Goto(h, Idle)
         \/ /\ job[h].op = "drift_put" /\ job[h].name = n
            /\ Goto(h, DriftJob(job[h].snap, job[h].req))
  PROVE  /\ JobInv' /\ FreshInv' /\ FileInv'
         /\ vault = "open" /\ mem'[n] = e /\ \A m \in Names : m # n => mem'[m] = mem[m]
<1>1. job \in [Handlers -> AllJobs] /\ mem \in [Names -> Entries]
  BY DEF BindingInv, TypeOK, AllJobs
<1>2. \A g \in Handlers : g # h => job'[g] = job[g]
  BY <1>1 DEF Goto
<1>3. \/ job'[h] = Idle
      \/ /\ job[h].op = "drift_put" /\ job[h].name = n
         /\ job'[h] = DriftJob(job[h].snap, job[h].req)
  BY <1>1 DEF Goto
<1>4. vault = "open" /\ mem'[n] = e /\ \A m \in Names : m # n => mem'[m] = mem[m]
  BY <1>1 DEF BindingInv, FileInv, Store
<1>5. JobInv'
  <2>1. JobOK(job'[h])
    BY <1>3 DEF JobOK, DriftJob, Idle
  <2> QED
    BY <1>2, <2>1 DEF BindingInv, JobInv, JobOK
<1>6. ASSUME NEW g \in Handlers, NEW m \in Names, <<g, m>> \notin stale' PROVE Fresh(job[g], m)'
  <2>1. m # n => Fresh(job[g], m)
    BY <1>6 DEF Store, BindingInv, FreshInv
  <2>2. CASE m # n /\ g # h
    BY <1>2, <1>4, <2>1, <2>2 DEF Fresh
  <2>3. CASE m = n /\ g # h
    <3>1. ~HasRead(g, n)
      BY <1>6, <2>3 DEF Store
    <3> QED
      BY <1>2, <2>3, <3>1 DEF HasRead, Fresh
  <2>4. CASE g = h
    <3>1. CASE job'[h] = Idle
      BY <2>4, <3>1 DEF Fresh, Idle
    <3>2. CASE job[h].op = "drift_put" /\ job[h].name = n /\ job'[h] = DriftJob(job[h].snap, job[h].req)
      <4>1. job'[h].op = "drift" /\ job'[h].snap = job[h].snap
        BY <3>2 DEF DriftJob
      <4>2. job[h].snap[n] = NoEntry
        BY <3>2 DEF BindingInv, JobInv, JobOK
      <4>3. m \in OAuthNames /\ job[h].snap[m] # NoEntry => mem'[m] = job[h].snap[m]
        BY <1>4, <2>1, <2>4, <3>2, <4>2 DEF Fresh
      <4> QED
        BY <2>4, <4>1, <4>3 DEF Fresh
    <3> QED
      BY <1>3, <3>1, <3>2
  <2> QED
    BY <2>2, <2>3, <2>4
<1>7. FreshInv'
  BY <1>6 DEF FreshInv
<1>8. FileInv'
  BY <1>4 DEF BindingInv, FileInv, Flushed, FlushFails
<1> QED
  BY <1>4, <1>5, <1>7, <1>8



(* Both invariants hold of every reachable state. *)
LEMMA BindingInvariant == Spec => [](BindingInv /\ TokenInv)
<1>1. Init => BindingInv
  <2> SUFFICES ASSUME Init PROVE BindingInv
    OBVIOUS
  <2>1. TypeOK
    <3>1. NoEntry \in Entries /\ 0 \in 0..MaxTokens /\ 0 \in 0..MaxInstalls /\ 0 \in 0..MaxCrashes
          /\ 0 \in 0..MaxFaults
      BY JobTypes, BoundsAssumption
    <3>2. mem \in [Names -> Entries] /\ file \in [Names -> Entries]
      BY <3>1 DEF Init
    <3>3. job \in [Handlers -> {Idle} \cup BindingJobs \cup DriftJobs \cup DriftPutJobs]
      BY DEF Init
    <3>4. session \in [Sessions -> Sess \cup {NoSession}]
      BY DEF Init
    <3> QED
      BY <3>1, <3>2, <3>3, <3>4 DEF Init, TypeOK
  <2>2. \A h \in Handlers : Resting(job[h])
    BY DEF Init, Resting
  <2>3. JobInv /\ FreshInv
    BY <2>2, JobTypes DEF JobInv, FreshInv
  <2>4. FileInv /\ OutcomeInv
    BY <2>2 DEF Init, FileInv, OutcomeInv
  <2> QED
    BY <2>1, <2>3, <2>4 DEF BindingInv
<1>2. Init => TokenInv
  <2> SUFFICES ASSUME Init PROVE TokenInv
    OBVIOUS
  <2>1. /\ \A n \in Names : mem[n] = NoEntry /\ file[n] = NoEntry
        /\ \A h \in Handlers : job[h] = Idle
    BY DEF Init
  <2>2. \A n \in Names, t \in Tokens : ~Known(n, t)
    BY <2>1, BoundsAssumption DEF Known, Stores, Holds, TokensOf, NoEntry, Idle, BindingOps, Tokens
  <2>3. \A n \in OAuthNames : KeptOK(n)
    BY <2>1 DEF KeptOK, Kept, NoEntry, Names
  <2> QED
    BY <2>1, <2>2, <2>3 DEF TokenInv, HolderInv, OwnInv, OwnOK, GoodInv, GoodOK, Idle
(* Every step keeps the vault, the sessions and the jobs well-formed. *)
<1>3. TypeOK /\ JobInv /\ [Next]_vars => TypeOK'
  <2> SUFFICES ASSUME TypeOK, JobInv, [Next]_vars PROVE TypeOK'
    OBVIOUS
  <2>j. job \in [Handlers -> AllJobs]
    BY DEF TypeOK, AllJobs
  <2>m. ASSUME NEW h \in Handlers, NEW j \in AllJobs, Goto(h, j) PROVE job' \in [Handlers -> AllJobs]
    BY <2>m, <2>j DEF Goto
  <2>i. issued \in 0..MaxTokens /\ (issued < MaxTokens => issued + 1 \in Tokens /\ issued + 1 \in 0..MaxTokens)
    BY BoundsAssumption DEF TypeOK, Tokens
  <2>w. ASSUME NEW h \in Handlers, NEW n \in Names, NEW e \in Entries, Store(h, n, e),
               \/ Flushed
               \/ FlushFails(n)
        PROVE  /\ mem' \in [Names -> Entries] /\ file' \in [Names -> Entries] /\ torn' \in BOOLEAN
               /\ stale' \in SUBSET (Handlers \X Names) /\ unsaved' \in SUBSET Names /\ faults' \in 0..MaxFaults
    <3>1. mem' \in [Names -> Entries]
      BY <2>w DEF Store, TypeOK
    <3>2. stale' \in SUBSET (Handlers \X Names)
      BY <2>w DEF Store, TypeOK
    <3>3. file' \in [Names -> Entries] /\ unsaved' \in SUBSET Names
      BY <2>w, <3>1 DEF Flushed, FlushFails, TypeOK
    <3>4. torn' \in BOOLEAN
      BY <2>w DEF Flushed, FlushFails, TypeOK
    <3>5. faults' \in 0..MaxFaults
      <4>1. faults \in 0..MaxFaults /\ MaxFaults \in Nat
        BY BoundsAssumption DEF TypeOK
      <4>2. faults' = faults \/ (faults < MaxFaults /\ faults' = faults + 1)
        BY <2>w DEF Flushed, FlushFails
      <4> QED
        BY <4>1, <4>2
    <3> QED
      BY <3>1, <3>2, <3>3, <3>4, <3>5
  <2>r. ASSUME NEW h \in Handlers, Return(h)
        PROVE  job' \in [Handlers -> AllJobs] /\ stale' \in SUBSET (Handlers \X Names)
    BY <2>r, <2>m, JobTypes DEF Return, TypeOK
  <2>1. ASSUME NEW h \in Handlers, NEW n \in OAuthNames, ResolverFor(h, n) PROVE TypeOK'
    <3>1. Job("read_token", n) \in AllJobs
      BY JobTypes DEF BindingOps, Names, AllJobs
    <3>2. job' \in [Handlers -> AllJobs]
      BY <2>1, <2>m, <3>1 DEF ResolverFor
    <3> QED
      BY <2>1, <2>i, <3>2 DEF TypeOK, AllJobs, ResolverFor, secrets, provider, history, bounds
  <2>2. ASSUME NEW h \in Handlers, Resolve(h) PROVE TypeOK'
    <3>1. CASE Return(h)
      BY <2>2, <2>r, <3>1 DEF TypeOK, AllJobs, Resolve, secrets, provider, history, bounds
    <3>2. CASE ~Return(h)
      <4>1. [job[h] EXCEPT !.op = "refresh", !.entry = mem[job[h].name], !.old = mem[job[h].name].ref] \in AllJobs
        <5>1. job[h] \in BindingJobs /\ mem[job[h].name] \in Entries
          BY <2>2, <2>j, JobTypes DEF Resolve, BindingOps, TypeOK
        <5>2. mem[job[h].name].ref \in Tokens \cup {0}
          BY <5>1 DEF Entries
        <5> QED
          BY <5>1, <5>2 DEF BindingJobs, BindingOps, AllJobs
      <4>2. job' \in [Handlers -> AllJobs] /\ stale' = stale
        BY <2>2, <2>m, <3>2, <4>1 DEF Resolve
      <4> QED
        BY <2>2, <4>2 DEF TypeOK, AllJobs, Resolve, secrets, provider, history, bounds
    <3> QED
      BY <3>1, <3>2
  <2>3. ASSUME NEW h \in Handlers, NEW rotated \in BOOLEAN, NEW dated \in BOOLEAN, Refresh(h, rotated, dated) PROVE TypeOK'
    <3> DEFINE i == issued + 1
               t == job[h].old
               e == Refreshed(job[h].entry, i, NewRefresh(rotated, i, t))
    <3>1. job[h] \in BindingJobs /\ job[h].entry \in Entries /\ t \in Tokens \cup {0} /\ i \in Tokens
      BY <2>3, <2>i, <2>j, JobTypes DEF Refresh, BindingOps
    <3>2. e \in Entries
      BY <3>1, EntryTypes DEF NewRefresh
    <3> HIDE DEF e
    <3>3. [job[h] EXCEPT !.op = "persist", !.entry = e] \in AllJobs
      BY <3>1, <3>2 DEF BindingJobs, BindingOps, AllJobs
    <3>4. job' \in [Handlers -> AllJobs]
      BY <2>3, <2>m, <3>3 DEF Refresh, e
    <3>5. live' \in SUBSET Tokens /\ expired' \in SUBSET Tokens
      BY <2>3, <3>1 DEF TypeOK, Refresh
    <3>6. issued' \in 0..MaxTokens
      BY <2>3, <2>i DEF Refresh
    <3> QED
      BY <2>3, <3>4, <3>5, <3>6 DEF TypeOK, AllJobs, Refresh, secrets, history, bounds
  <2>4. ASSUME NEW h \in Handlers, RefreshFails(h) PROVE TypeOK'
    BY <2>4, <2>r DEF TypeOK, AllJobs, RefreshFails, secrets, provider, history, bounds
  <2>5. ASSUME NEW h \in Handlers, AnswerLost(h) PROVE TypeOK'
    <3>1. job' \in [Handlers -> AllJobs] /\ stale' \in SUBSET (Handlers \X Names)
      BY <2>5, <2>r DEF AnswerLost
    <3>2. issued' \in 0..MaxTokens /\ live' \in SUBSET Tokens /\ burnt' \in SUBSET Tokens
      BY <2>5, <2>i DEF TypeOK, AnswerLost
    <3>3. faults' \in 0..MaxFaults
      BY <2>5, BoundsAssumption DEF TypeOK, AnswerLost
    <3> QED
      BY <2>5, <3>1, <3>2, <3>3 DEF TypeOK, AllJobs, AnswerLost, secrets, history
  <2>6. ASSUME NEW h \in Handlers, Persist(h) PROVE TypeOK'
    <3>1. job[h].name \in Names /\ job[h].entry \in Entries
      BY <2>6, <2>j, JobTypes DEF Persist, BindingOps
    <3>2. /\ mem' \in [Names -> Entries] /\ file' \in [Names -> Entries] /\ torn' \in BOOLEAN
          /\ stale' \in SUBSET (Handlers \X Names) /\ unsaved' \in SUBSET Names /\ faults' \in 0..MaxFaults
      BY <2>6, <2>w, <3>1 DEF Persist
    <3>3. job' \in [Handlers -> AllJobs]
      BY <2>6, <2>m, JobTypes DEF Persist
    <3>4. /\ clobbered' \in SUBSET Names /\ lagged' \in SUBSET Names
          /\ revoked' \in SUBSET Names /\ marked' \in SUBSET Names
      BY <2>6, <3>1 DEF TypeOK, Persist, WrittenBack
    <3> QED
      BY <2>6, <3>2, <3>3, <3>4 DEF TypeOK, AllJobs, Persist, provider
  <2>7. ASSUME NEW h \in Handlers, NEW s \in Sessions, CompleteConsent(h, s) PROVE TypeOK'
    <3>1. session[s] \in Sess
      BY <2>7 DEF CompleteConsent, Take, TypeOK
    <3>2. Job("exchange", session[s].name) \in BindingJobs
      BY <3>1, JobTypes DEF Sess, Names, BindingOps
    <3>3. session[s].scopes \in SUBSET Scopes /\ (session[s].mode = "create") \in BOOLEAN
      BY <3>1 DEF Sess
    <3>4. [Job("exchange", session[s].name) EXCEPT
             !.create = session[s].mode = "create", !.entry.granted = session[s].scopes] \in AllJobs
      BY <3>2, <3>3 DEF BindingJobs, Entries, AllJobs
    <3>5. job' \in [Handlers -> AllJobs]
      BY <2>7, <2>m, <3>4 DEF CompleteConsent
    <3>6. session' \in [Sessions -> Sess \cup {NoSession}]
      BY <2>7 DEF CompleteConsent, Take, TypeOK
    <3> QED
      BY <2>7, <3>5, <3>6 DEF TypeOK, AllJobs, CompleteConsent, secrets, provider, history, bounds
  <2>8. ASSUME NEW h \in Handlers, NEW refresh \in BOOLEAN, NEW granted \in SUBSET Scopes, ExchangeOAuth2Code(h, refresh, granted) PROVE TypeOK'
    <3> DEFINE i == issued + 1
               t == IF refresh THEN i ELSE 0
               op == IF job[h].create THEN "check" ELSE "upsert"
    <3>1. job[h] \in BindingJobs /\ i \in Tokens /\ i \in 0..MaxTokens
      BY <2>8, <2>i, <2>j, JobTypes DEF ExchangeOAuth2Code, BindingOps
    <3>2. Entry(i, t, granted) \in Entries
      BY <3>1, EntryTypes, JobTypes
    <3>3. op \in BindingOps
      BY DEF BindingOps
    <3> HIDE DEF op, t
    <3>4. [job[h] EXCEPT !.op = op, !.entry = Entry(i, t, granted)] \in AllJobs
      BY <3>1, <3>2, <3>3 DEF BindingJobs, AllJobs
    <3>5. job' \in [Handlers -> AllJobs]
      BY <2>8, <2>m, <3>4 DEF ExchangeOAuth2Code, op, t
    <3>6. live' \in SUBSET Tokens /\ issued' \in 0..MaxTokens
      BY <2>8, <3>1 DEF TypeOK, ExchangeOAuth2Code
    <3> QED
      BY <2>8, <3>5, <3>6 DEF TypeOK, AllJobs, ExchangeOAuth2Code, secrets, history, bounds
  <2>9. ASSUME NEW h \in Handlers, ExchangeFails(h) PROVE TypeOK'
    BY <2>9, <2>r DEF TypeOK, AllJobs, ExchangeFails, secrets, provider, history, bounds
  <2>10. ASSUME NEW h \in Handlers, NEW n \in KeyNames, SetupBinding(h, n) PROVE TypeOK'
    <3>1. issued + 1 \in Tokens /\ issued + 1 \in 0..MaxTokens /\ Job("check", n) \in BindingJobs
      BY <2>10, <2>i, JobTypes DEF SetupBinding, BindingOps, Names
    <3>2. Entry(issued + 1, 0, {}) \in Entries
      BY <3>1, EntryTypes, JobTypes
    <3>3. [Job("check", n) EXCEPT !.entry = Entry(issued + 1, 0, {}), !.create = TRUE] \in AllJobs
      BY <3>1, <3>2 DEF BindingJobs, AllJobs
    <3>4. job' \in [Handlers -> AllJobs]
      BY <2>10, <2>m, <3>3 DEF SetupBinding
    <3>5. issued' \in 0..MaxTokens
      BY <2>10, <3>1 DEF SetupBinding
    <3> QED
      BY <2>10, <3>4, <3>5 DEF TypeOK, AllJobs, SetupBinding, secrets, history, bounds
  <2>11. ASSUME NEW h \in Handlers, NEW n \in KeyNames, RebindBinding(h, n) PROVE TypeOK'
    <3>1. /\ issued + 1 \in Tokens /\ issued + 1 \in 0..MaxTokens /\ Job("put", n) \in BindingJobs
          /\ Get(n) \in Entries
      BY <2>11, <2>i, JobTypes DEF RebindBinding, BindingOps, Names, Get, List, TypeOK
    <3>2. [Get(n) EXCEPT !.acc = issued + 1] \in Entries
      BY <3>1 DEF Entries
    <3>3. [Job("put", n) EXCEPT !.entry = [Get(n) EXCEPT !.acc = issued + 1]] \in AllJobs
      BY <3>1, <3>2 DEF BindingJobs, AllJobs
    <3>4. job' \in [Handlers -> AllJobs]
      BY <2>11, <2>m, <3>3 DEF RebindBinding
    <3>5. issued' \in 0..MaxTokens
      BY <2>11, <3>1 DEF RebindBinding
    <3> QED
      BY <2>11, <3>4, <3>5 DEF TypeOK, AllJobs, RebindBinding, secrets, history, bounds
  <2>12. ASSUME NEW h \in Handlers, CheckCreate(h) PROVE TypeOK'
    <3>1. [job[h] EXCEPT !.op = "put"] \in AllJobs
      <4>1. job[h] \in BindingJobs
        BY <2>12, <2>j, JobTypes DEF CheckCreate, BindingOps
      <4> QED
        BY <4>1 DEF BindingJobs, BindingOps, AllJobs
    <3>2. job' \in [Handlers -> AllJobs] /\ stale' \in SUBSET (Handlers \X Names)
      <4>1. stale \in SUBSET (Handlers \X Names)
        BY DEF TypeOK
      <4> QED
        BY <2>12, <2>m, <2>r, <3>1, <4>1 DEF CheckCreate
    <3> QED
      BY <2>12, <3>2 DEF TypeOK, AllJobs, CheckCreate, secrets, provider, history, bounds
  <2>13. ASSUME NEW h \in Handlers, PutBinding(h) PROVE TypeOK'
    <3>1. job[h].name \in Names /\ job[h].entry \in Entries
      BY <2>13, <2>j, JobTypes DEF PutBinding, BindingOps
    <3>2. /\ mem' \in [Names -> Entries] /\ file' \in [Names -> Entries] /\ torn' \in BOOLEAN
          /\ stale' \in SUBSET (Handlers \X Names) /\ unsaved' \in SUBSET Names /\ faults' \in 0..MaxFaults
      BY <2>13, <2>w, <3>1 DEF PutBinding
    <3>3. job' \in [Handlers -> AllJobs]
      BY <2>13, <2>m, JobTypes DEF PutBinding
    <3>4. /\ clobbered' \in SUBSET Names /\ lagged' \in SUBSET Names
          /\ revoked' \in SUBSET Names /\ marked' \in SUBSET Names
      BY <2>13, <3>1 DEF TypeOK, PutBinding, WrittenBack
    <3> QED
      BY <2>13, <3>2, <3>3, <3>4 DEF TypeOK, AllJobs, PutBinding, provider
  <2>14. ASSUME NEW h \in Handlers, NEW n \in Names, RevokeBinding(h, n) PROVE TypeOK'
    <3>1. Job("delete", n) \in AllJobs
      BY JobTypes DEF BindingOps, AllJobs
    <3>2. job' \in [Handlers -> AllJobs]
      BY <2>14, <2>m, <3>1 DEF RevokeBinding
    <3> QED
      BY <2>14, <2>i, <3>2 DEF TypeOK, AllJobs, RevokeBinding, secrets, provider, history, bounds
  <2>15. ASSUME NEW h \in Handlers, DeleteBinding(h) PROVE TypeOK'
    <3>1. job[h].name \in Names /\ NoEntry \in Entries
      BY <2>15, <2>j, JobTypes DEF DeleteBinding, BindingOps
    <3>2. /\ mem' \in [Names -> Entries] /\ file' \in [Names -> Entries] /\ torn' \in BOOLEAN
          /\ stale' \in SUBSET (Handlers \X Names) /\ unsaved' \in SUBSET Names /\ faults' \in 0..MaxFaults
      BY <2>15, <2>w, <3>1 DEF DeleteBinding
    <3>3. job' \in [Handlers -> AllJobs]
      BY <2>15, <2>m, JobTypes DEF DeleteBinding
    <3>4. /\ clobbered' \in SUBSET Names /\ lagged' \in SUBSET Names
          /\ revoked' \in SUBSET Names /\ marked' \in SUBSET Names
      BY <2>15, <3>1 DEF TypeOK, DeleteBinding, WrittenBack
    <3> QED
      BY <2>15, <3>2, <3>3, <3>4 DEF TypeOK, AllJobs, DeleteBinding, provider
  <2>16. ASSUME NEW h \in Handlers, NEW req \in SUBSET Scopes, InstallConnector(h, req) PROVE TypeOK'
    <3>1. [n \in OAuthNames |-> List[n]] \in Snaps
      BY JobTypes DEF Snaps, List, Names, TypeOK
    <3>2. DriftJob([n \in OAuthNames |-> List[n]], req) \in AllJobs
      BY <3>1, JobTypes DEF AllJobs
    <3>3. job' \in [Handlers -> AllJobs]
      BY <2>16, <2>m, <3>2 DEF InstallConnector
    <3>4. installs' \in 0..MaxInstalls
      BY <2>16, BoundsAssumption DEF TypeOK, InstallConnector
    <3> QED
      BY <2>16, <3>3, <3>4 DEF TypeOK, AllJobs, InstallConnector, secrets, provider, history
  <2>17. ASSUME NEW h \in Handlers, NEW n \in OAuthNames, UpdateMetadata(h, n) PROVE TypeOK'
    <3> DEFINE e == job[h].snap[n]
               new == EvaluateScopeDrift(e, job[h].req)
               rest == [job[h].snap EXCEPT ![n] = NoEntry]
               upd == [new EXCEPT !.acc = mem[n].acc, !.ref = mem[n].ref]
    <3>1. job[h].snap \in Snaps /\ job[h].req \in SUBSET Scopes /\ mem[n] \in Entries
      BY <2>17, <2>j, JobTypes DEF UpdateMetadata, TypeOK, Names
    <3>2. e \in Entries /\ rest \in Snaps
      BY <3>1, JobTypes DEF Snaps
    <3>3. new \in Entries
      BY <3>1, <3>2, EntryTypes
    <3>4. mem[n].acc \in Tokens \cup {0} /\ mem[n].ref \in Tokens \cup {0}
      BY <3>1 DEF Entries
    <3> HIDE DEF e, new, rest
    <3>5. upd \in Entries
      BY <3>3, <3>4 DEF Entries
    <3> HIDE DEF upd
    <3>6. DriftJob(rest, job[h].req) \in AllJobs /\ DriftPutJob(rest, job[h].req, n, upd) \in AllJobs
      BY <3>1, <3>2, <3>5, JobTypes DEF AllJobs
    <3>7. Goto(h, DriftJob(rest, job[h].req)) \/ Goto(h, DriftPutJob(rest, job[h].req, n, upd))
      BY <2>17 DEF UpdateMetadata, e, new, rest, upd
    <3>8. job' \in [Handlers -> AllJobs]
      BY <2>m, <3>6, <3>7
    <3> QED
      BY <2>17, <3>8 DEF TypeOK, AllJobs, UpdateMetadata, secrets, provider, history, bounds
  <2>18. ASSUME NEW h \in Handlers, PutMetadata(h) PROVE TypeOK'
    <3>1. /\ job[h].name \in Names /\ job[h].entry \in Entries
          /\ job[h].snap \in Snaps /\ job[h].req \in SUBSET Scopes
      BY <2>18, <2>j, JobTypes DEF PutMetadata, Names
    <3>2. /\ mem' \in [Names -> Entries] /\ file' \in [Names -> Entries] /\ torn' \in BOOLEAN
          /\ stale' \in SUBSET (Handlers \X Names) /\ unsaved' \in SUBSET Names /\ faults' \in 0..MaxFaults
      BY <2>18, <2>w, <3>1 DEF PutMetadata
    <3>3. DriftJob(job[h].snap, job[h].req) \in AllJobs
      BY <3>1, JobTypes DEF AllJobs
    <3>4. job' \in [Handlers -> AllJobs]
      BY <2>18, <2>m, <3>3 DEF PutMetadata
    <3>5. clobbered' \in SUBSET Names /\ marked' \in SUBSET Names
      BY <2>18, <3>1 DEF TypeOK, PutMetadata, WrittenBack
    <3> QED
      BY <2>18, <3>2, <3>4, <3>5 DEF TypeOK, AllJobs, PutMetadata, provider
  <2>19. ASSUME NEW h \in Handlers, DriftDone(h) PROVE TypeOK'
    BY <2>19, <2>r DEF TypeOK, AllJobs, DriftDone, secrets, provider, history, bounds
  <2>20. ASSUME NEW s \in Sessions, NEW n \in OAuthNames, NEW mode \in {"create", "reauthorize"}, InitOAuth2Binding(s, n, mode) PROVE TypeOK'
    <3>1. [mode |-> mode, name |-> n, scopes |-> required] \in Sess
      BY DEF Sess, TypeOK
    <3>2. session' \in [Sessions -> Sess \cup {NoSession}]
      BY <2>20, <3>1 DEF InitOAuth2Binding, TypeOK
    <3> QED
      BY <2>20, <3>2 DEF TypeOK, InitOAuth2Binding, secrets, provider, history, bounds
  <2>21. ASSUME NEW s \in Sessions, RejectCallback(s) PROVE TypeOK'
    BY <2>21 DEF TypeOK, RejectCallback, Take, secrets, provider, history, bounds
  <2>22. ASSUME NEW n \in OAuthNames, Expire(n) PROVE TypeOK'
    BY <2>22 DEF TypeOK, Expire, secrets, history, bounds
  <2>23. CASE UnlockLocalVault
    BY <2>23 DEF TypeOK, UnlockLocalVault, Unlock, NewFileVault, provider, history, bounds
  <2>24. CASE Crash
    <3>1. job' \in [Handlers -> AllJobs]
      BY <2>24, JobTypes DEF Crash
    <3>2. burnt' \in SUBSET Tokens
      <4>1. \A k \in Handlers : job[k].op = "persist" => job[k].old \in Tokens
        BY <2>j, JobTypes DEF BindingOps, JobInv, JobOK
      <4> QED
        BY <2>24, <4>1 DEF Crash, TypeOK
    <3>3. crashes' \in 0..MaxCrashes
      BY <2>24, BoundsAssumption DEF Crash, TypeOK
    <3>4. mem' \in [Names -> Entries] /\ session' \in [Sessions -> Sess \cup {NoSession}]
      BY <2>24, JobTypes DEF Crash
    <3> QED
      BY <2>24, <3>1, <3>2, <3>3, <3>4 DEF TypeOK, AllJobs, Crash, provider
  <2>25. CASE Restart
    BY <2>25 DEF TypeOK, Restart, secrets, provider, history, bounds
  <2>26. CASE UNCHANGED vars
    BY <2>26 DEF TypeOK, vars, secrets, provider, history, bounds
  <2> QED
    BY <2>1, <2>2, <2>3, <2>4, <2>5, <2>6, <2>7, <2>8, <2>9, <2>10, <2>11, <2>12, <2>13, <2>14, <2>15, <2>16, <2>17, <2>18, <2>19, <2>20, <2>21, <2>22, <2>23, <2>24, <2>25, <2>26
    DEF Next, Resolver, Bind, Drift, FinishOAuth2Binding, Oauth2BindingCallback
(* Every step keeps what the handlers have read in agreement with the      *)
(* vault, the vault with its file, and revocations and marks in force.     *)
<1>4. BindingInv /\ [Next]_vars => JobInv' /\ FreshInv' /\ FileInv' /\ OutcomeInv'
  <2> SUFFICES ASSUME BindingInv, [Next]_vars PROVE JobInv' /\ FreshInv' /\ FileInv' /\ OutcomeInv'
    OBVIOUS
  <2> DEFINE Goal == JobInv' /\ FreshInv' /\ FileInv' /\ OutcomeInv'
  <2>j. job \in [Handlers -> AllJobs] /\ mem \in [Names -> Entries]
    BY DEF BindingInv, TypeOK, AllJobs
  <2>v. ASSUME NEW h \in Handlers, job[h].op \in BindingOps \cup {"drift_put"} PROVE vault = "open" /\ ~Resting(job[h])
    BY <2>v DEF BindingInv, FileInv, Resting, Idle, BindingOps
  <2>o. ASSUME UNCHANGED <<vault, secrets, history>> PROVE OutcomeInv'
    BY <2>o DEF BindingInv, OutcomeInv, Kept, secrets, history
  <2>r. ASSUME NEW h \in Handlers, Return(h), UNCHANGED <<vault, secrets, history>> PROVE Goal
    <3>1. JobInv' /\ FreshInv' /\ FileInv'
      BY <2>r, Moves, JobTypes DEF Return, Resting, secrets, history
    <3> QED
      BY <2>o, <2>r, <3>1
  <2>n. ASSUME NEW h \in Handlers, NEW j, Goto(h, j), UNCHANGED <<vault, secrets, stale, history>>,
               vault = "open", JobOK(j), \A n \in Names : <<h, n>> \notin stale => Fresh(j, n)
        PROVE  Goal
    <3>1. JobInv' /\ FreshInv' /\ FileInv'
      BY <2>n, Moves DEF secrets, history
    <3> QED
      BY <2>o, <2>n, <3>1
  <2>q. ASSUME NEW h \in Handlers, NEW j, Goto(h, j), UNCHANGED <<vault, secrets, stale, history>>,
               vault = "open", j.op \notin {"refresh", "persist", "drift", "drift_put"}
        PROVE  Goal
    BY <2>n, <2>q, JobTypes
  <2>u. ASSUME UNCHANGED <<vault, secrets, job, stale, history>> PROVE Goal
    <3>1. JobInv' /\ FreshInv' /\ FileInv'
      BY <2>u DEF BindingInv, JobInv, FreshInv, Fresh, FileInv, secrets, history
    <3> QED
      BY <2>o, <2>u, <3>1
  <2>1. ASSUME NEW h \in Handlers, NEW n \in OAuthNames, ResolverFor(h, n) PROVE Goal
    <3>1. Job("read_token", n).op = "read_token"
      BY DEF Job
    <3> QED
      BY <2>1, <2>q, <3>1 DEF ResolverFor, Starts, bounds
  <2>2. ASSUME NEW h \in Handlers, Resolve(h) PROVE Goal
    <3>1. CASE Return(h)
      BY <2>2, <2>r, <3>1 DEF Resolve
    <3>2. CASE ~Return(h)
      <4> DEFINE e == mem[job[h].name]
                 j == [job[h] EXCEPT !.op = "refresh", !.entry = e, !.old = e.ref]
      <4>1. job[h] \in BindingJobs /\ vault = "open"
        BY <2>2, <2>j, <2>v, JobTypes DEF Resolve, BindingOps
      <4>2. j.op = "refresh" /\ j.name = job[h].name /\ j.entry = e /\ j.old = e.ref
        BY <4>1 DEF BindingJobs
      <4>3. Goto(h, j) /\ stale' = stale /\ e.ref # 0
        BY <2>2, <3>2 DEF Resolve, ShouldRefresh
      <4> HIDE DEF j
      <4>4. JobOK(j) /\ \A n \in Names : Fresh(j, n)
        BY <4>2, <4>3 DEF JobOK, Fresh
      <4> QED
        BY <2>2, <2>n, <4>1, <4>3, <4>4 DEF Resolve
    <3> QED
      BY <3>1, <3>2
  <2>3. ASSUME NEW h \in Handlers, NEW rotated \in BOOLEAN, NEW dated \in BOOLEAN, Refresh(h, rotated, dated) PROVE Goal
    <3> DEFINE i == issued + 1
               e == Refreshed(job[h].entry, i, NewRefresh(rotated, i, job[h].old))
               j == [job[h] EXCEPT !.op = "persist", !.entry = e]
    <3>1. job[h] \in BindingJobs /\ job[h].entry \in Entries /\ vault = "open"
      BY <2>3, <2>j, <2>v, JobTypes DEF Refresh, BindingOps
    <3>2. e.status = job[h].entry.status
      BY <3>1 DEF Refreshed, Entries
    <3> HIDE DEF e
    <3>3. j.op = "persist" /\ j.name = job[h].name /\ j.entry = e /\ j.old = job[h].old
      BY <3>1 DEF BindingJobs
    <3>4. Goto(h, j)
      BY <2>3 DEF Refresh, e
    <3> HIDE DEF j
    <3>5. JobOK(j)
      BY <2>3, <3>3 DEF BindingInv, JobInv, JobOK, Refresh
    <3>6. ASSUME NEW n \in Names, <<h, n>> \notin stale PROVE Fresh(j, n)
      <4>1. Fresh(job[h], n)
        BY <3>6 DEF BindingInv, FreshInv
      <4> QED
        BY <2>3, <3>2, <3>3, <4>1 DEF Fresh, Refresh
    <3> QED
      BY <2>3, <2>n, <3>1, <3>4, <3>5, <3>6 DEF Refresh
  <2>4. ASSUME NEW h \in Handlers, RefreshFails(h) PROVE Goal
    BY <2>4, <2>r DEF RefreshFails
  <2>5. ASSUME NEW h \in Handlers, AnswerLost(h) PROVE Goal
    BY <2>5, <2>r DEF AnswerLost
  <2>6. ASSUME NEW h \in Handlers, Persist(h) PROVE Goal
    <3> DEFINE n == job[h].name
               e == job[h].entry
    <3>1. n \in Names /\ e \in Entries /\ vault = "open" /\ ~Resting(job[h])
      BY <2>6, <2>j, <2>v, JobTypes DEF Persist, BindingOps
    <3>2. Store(h, n, e) /\ (Flushed \/ FlushFails(n)) /\ Goto(h, Idle) /\ UNCHANGED vault
      BY <2>6 DEF Persist
    <3> HIDE DEF n, e
    <3>3. /\ JobInv' /\ FreshInv' /\ FileInv'
          /\ mem'[n] = e /\ \A m \in Names : m # n => mem'[m] = mem[m]
      BY <3>1, <3>2, Writes
    <3>4. <<h, n>> \notin stale => e.status = mem[n].status /\ mem[n] # NoEntry
      <4>1. <<h, n>> \notin stale => Fresh(job[h], n) /\ JobOK(job[h])
        BY <3>1 DEF BindingInv, FreshInv, JobInv
      <4> QED
        BY <2>6, <4>1 DEF Fresh, JobOK, Persist, n, e, NoEntry
    <3>5. /\ clobbered' = clobbered \cup {m \in {n} : <<h, m>> \in stale}
          /\ lagged' = lagged /\ revoked' = revoked /\ marked' = marked
      BY <2>6 DEF Persist, WrittenBack, n
    <3>6. revoked \subseteq Names /\ marked \subseteq Names
      BY DEF BindingInv, TypeOK
    <3>7. OutcomeInv'
      BY <3>1, <3>2, <3>3, <3>4, <3>5, <3>6 DEF BindingInv, OutcomeInv, Kept
    <3> QED
      BY <3>3, <3>7
  <2>7. ASSUME NEW h \in Handlers, NEW s \in Sessions, CompleteConsent(h, s) PROVE Goal
    <3> DEFINE j == [Job("exchange", session[s].name) EXCEPT
                       !.create = session[s].mode = "create", !.entry.granted = session[s].scopes]
    <3>1. j.op = "exchange"
      BY DEF Job
    <3>2. Goto(h, j)
      BY <2>7 DEF CompleteConsent
    <3> HIDE DEF j
    <3> QED
      BY <2>7, <2>q, <3>1, <3>2 DEF CompleteConsent, Starts
  <2>8. ASSUME NEW h \in Handlers, NEW refresh \in BOOLEAN, NEW granted \in SUBSET Scopes, ExchangeOAuth2Code(h, refresh, granted) PROVE Goal
    <3> DEFINE i == issued + 1
               op == IF job[h].create THEN "check" ELSE "upsert"
               e == Entry(i, IF refresh THEN i ELSE 0, granted)
               j == [job[h] EXCEPT !.op = op, !.entry = e]
    <3>1. job[h] \in BindingJobs /\ vault = "open"
      BY <2>8, <2>j, <2>v, JobTypes DEF ExchangeOAuth2Code, BindingOps
    <3>2. Goto(h, j)
      BY <2>8 DEF ExchangeOAuth2Code
    <3>3. op \notin {"refresh", "persist", "drift", "drift_put"}
      OBVIOUS
    <3> HIDE DEF op, e
    <3>4. j.op = op
      BY <3>1 DEF BindingJobs
    <3> HIDE DEF j
    <3> QED
      BY <2>8, <2>q, <3>1, <3>2, <3>3, <3>4 DEF ExchangeOAuth2Code
  <2>9. ASSUME NEW h \in Handlers, ExchangeFails(h) PROVE Goal
    BY <2>9, <2>r DEF ExchangeFails
  <2>10. ASSUME NEW h \in Handlers, NEW n \in KeyNames, SetupBinding(h, n) PROVE Goal
    <3> DEFINE j == [Job("check", n) EXCEPT !.entry = Entry(issued + 1, 0, {}), !.create = TRUE]
    <3>1. j.op = "check"
      BY DEF Job
    <3>2. Goto(h, j)
      BY <2>10 DEF SetupBinding
    <3> HIDE DEF j
    <3> QED
      BY <2>10, <2>q, <3>1, <3>2 DEF SetupBinding, Starts
  <2>11. ASSUME NEW h \in Handlers, NEW n \in KeyNames, RebindBinding(h, n) PROVE Goal
    <3> DEFINE j == [Job("put", n) EXCEPT !.entry = [Get(n) EXCEPT !.acc = issued + 1]]
    <3>1. j.op = "put"
      BY DEF Job
    <3>2. Goto(h, j)
      BY <2>11 DEF RebindBinding
    <3> HIDE DEF j
    <3> QED
      BY <2>11, <2>q, <3>1, <3>2 DEF RebindBinding, Starts
  <2>12. ASSUME NEW h \in Handlers, CheckCreate(h) PROVE Goal
    <3>1. CASE Return(h)
      BY <2>12, <2>r, <3>1 DEF CheckCreate
    <3>2. CASE ~Return(h)
      <4> DEFINE j == [job[h] EXCEPT !.op = "put"]
      <4>1. job[h] \in BindingJobs /\ vault = "open"
        BY <2>12, <2>j, <2>v, JobTypes DEF CheckCreate, BindingOps
      <4>2. j.op = "put"
        BY <4>1 DEF BindingJobs
      <4>3. Goto(h, j) /\ stale' = stale
        BY <2>12, <3>2 DEF CheckCreate
      <4> HIDE DEF j
      <4> QED
        BY <2>12, <2>q, <4>1, <4>2, <4>3 DEF CheckCreate
    <3> QED
      BY <3>1, <3>2
  <2>13. ASSUME NEW h \in Handlers, PutBinding(h) PROVE Goal
    <3> DEFINE n == job[h].name
               e == job[h].entry
    <3>1. n \in Names /\ e \in Entries /\ vault = "open" /\ ~Resting(job[h])
      BY <2>13, <2>j, <2>v, JobTypes DEF PutBinding, BindingOps
    <3>2. Store(h, n, e) /\ (Flushed \/ FlushFails(n)) /\ Goto(h, Idle) /\ UNCHANGED vault
      BY <2>13 DEF PutBinding
    <3> HIDE DEF n, e
    <3>3. /\ JobInv' /\ FreshInv' /\ FileInv'
          /\ mem'[n] = e /\ \A m \in Names : m # n => mem'[m] = mem[m]
      BY <3>1, <3>2, Writes
    <3>4. /\ clobbered' = (clobbered \ {n}) \cup {m \in {n} : <<h, m>> \in stale}
          /\ revoked' = IF <<h, n>> \in stale THEN revoked ELSE revoked \ {n}
          /\ marked' = marked \ {n} /\ lagged' = lagged \ {n}
      BY <2>13 DEF PutBinding, n
    <3>5. revoked \subseteq Names /\ marked \subseteq Names
      BY DEF BindingInv, TypeOK
    <3>6. OutcomeInv'
      BY <3>1, <3>2, <3>3, <3>4, <3>5 DEF BindingInv, OutcomeInv, Kept
    <3> QED
      BY <3>3, <3>6
  <2>14. ASSUME NEW h \in Handlers, NEW n \in Names, RevokeBinding(h, n) PROVE Goal
    <3>1. Job("delete", n).op = "delete"
      BY DEF Job
    <3> QED
      BY <2>14, <2>q, <3>1 DEF RevokeBinding, Starts, bounds
  <2>15. ASSUME NEW h \in Handlers, DeleteBinding(h) PROVE Goal
    <3> DEFINE n == job[h].name
    <3>1. n \in Names /\ NoEntry \in Entries /\ vault = "open" /\ ~Resting(job[h])
      BY <2>15, <2>j, <2>v, JobTypes DEF DeleteBinding, BindingOps
    <3>2. Store(h, n, NoEntry) /\ (Flushed \/ FlushFails(n)) /\ Goto(h, Idle) /\ UNCHANGED vault
      BY <2>15 DEF DeleteBinding
    <3> HIDE DEF n
    <3>3. /\ JobInv' /\ FreshInv' /\ FileInv'
          /\ mem'[n] = NoEntry /\ \A m \in Names : m # n => mem'[m] = mem[m]
      BY <3>1, <3>2, Writes
    <3>4. /\ clobbered' = clobbered \ {n} /\ revoked' \subseteq revoked \cup {n}
          /\ marked' = marked \ {n} /\ lagged' = lagged \ {n}
      BY <2>15 DEF DeleteBinding, n
    <3>5. revoked \subseteq Names /\ marked \subseteq Names
      BY DEF BindingInv, TypeOK
    <3>6. OutcomeInv'
      BY <3>1, <3>2, <3>3, <3>4, <3>5 DEF BindingInv, OutcomeInv, Kept
    <3> QED
      BY <3>3, <3>6
  <2>16. ASSUME NEW h \in Handlers, NEW req \in SUBSET Scopes, InstallConnector(h, req) PROVE Goal
    <3> DEFINE snap == [n \in OAuthNames |-> List[n]]
               j == DriftJob(snap, req)
    <3>1. /\ \A n \in OAuthNames : snap[n] = IF vault = "open" THEN mem[n] ELSE NoEntry
          /\ Goto(h, j)
      BY <2>16 DEF InstallConnector, List, Names
    <3> HIDE DEF snap
    <3>2. j.op = "drift" /\ j.snap = snap
      BY DEF DriftJob
    <3> HIDE DEF j
    <3>3. JobOK(j) /\ \A n \in Names : Fresh(j, n)
      BY <3>1, <3>2 DEF JobOK, Fresh
    <3>4. vault # "open" => Resting(j)
      BY <3>1, <3>2 DEF Resting
    <3>5. JobInv' /\ FreshInv' /\ FileInv'
      BY <2>16, <3>1, <3>3, <3>4, Moves DEF InstallConnector, secrets, history
    <3> QED
      BY <2>16, <2>o, <3>5 DEF InstallConnector
  <2>17. ASSUME NEW h \in Handlers, NEW n \in OAuthNames, UpdateMetadata(h, n) PROVE Goal
    <3> DEFINE e == job[h].snap[n]
               rest == [job[h].snap EXCEPT ![n] = NoEntry]
               upd == [EvaluateScopeDrift(e, job[h].req) EXCEPT !.acc = mem[n].acc, !.ref = mem[n].ref]
               j1 == DriftJob(rest, job[h].req)
               j2 == DriftPutJob(rest, job[h].req, n, upd)
    <3>1. /\ job[h].snap \in Snaps /\ job[h].req \in SUBSET Scopes /\ mem[n] \in Entries
          /\ job[h].op = "drift" /\ vault = "open" /\ UNCHANGED <<vault, secrets, stale, history>>
      BY <2>17, <2>j, JobTypes DEF UpdateMetadata, Names, BindingInv, FileInv, Resting, Idle
    <3>2. rest[n] = NoEntry /\ \A m \in OAuthNames : rest[m] # NoEntry => rest[m] = job[h].snap[m]
      BY <3>1 DEF Snaps
    <3>3. upd.ref = mem[n].ref
      <4>1. EvaluateScopeDrift(e, job[h].req) \in Entries
        BY <3>1, EntryTypes, JobTypes DEF Snaps
      <4> QED
        BY <4>1 DEF Entries
    <3>4. Goto(h, j1) \/ (mem[n] # NoEntry /\ Goto(h, j2))
      BY <2>17 DEF UpdateMetadata
    <3> HIDE DEF rest, upd
    <3>5. /\ j1.op = "drift" /\ j1.snap = rest
          /\ j2.op = "drift_put" /\ j2.snap = rest /\ j2.name = n /\ j2.entry = upd
      BY DEF DriftJob, DriftPutJob
    <3> HIDE DEF j1, j2
    <3>6. JobOK(j1) /\ JobOK(j2)
      BY <3>2, <3>5 DEF JobOK
    <3>7. ASSUME NEW m \in Names, <<h, m>> \notin stale
          PROVE  Fresh(j1, m) /\ (mem[n] # NoEntry => Fresh(j2, m))
      <4>1. m \in OAuthNames /\ job[h].snap[m] # NoEntry => mem[m] = job[h].snap[m]
        BY <3>1, <3>7 DEF BindingInv, FreshInv, Fresh
      <4> QED
        BY <3>2, <3>3, <3>5, <4>1 DEF Fresh
    <3>8. CASE Goto(h, j1)
      BY <2>n, <3>1, <3>6, <3>7, <3>8
    <3>9. CASE mem[n] # NoEntry /\ Goto(h, j2)
      BY <2>n, <3>1, <3>6, <3>7, <3>9
    <3> QED
      BY <3>4, <3>8, <3>9
  <2>18. ASSUME NEW h \in Handlers, PutMetadata(h) PROVE Goal
    <3> DEFINE n == job[h].name
               e == job[h].entry
    <3>1. n \in Names /\ e \in Entries /\ vault = "open" /\ ~Resting(job[h])
      BY <2>18, <2>j, <2>v, JobTypes DEF PutMetadata, Names
    <3>2. /\ Store(h, n, e) /\ (Flushed \/ FlushFails(n)) /\ UNCHANGED vault
          /\ job[h].op = "drift_put" /\ job[h].name = n /\ Goto(h, DriftJob(job[h].snap, job[h].req))
      BY <2>18 DEF PutMetadata
    <3> HIDE DEF n, e
    <3>3. /\ JobInv' /\ FreshInv' /\ FileInv'
          /\ mem'[n] = e /\ \A m \in Names : m # n => mem'[m] = mem[m]
      BY <3>1, <3>2, Writes
    <3>4. <<h, n>> \notin stale => mem[n] # NoEntry
      BY <3>1, <3>2 DEF BindingInv, FreshInv, Fresh
    <3>5. /\ clobbered' = clobbered \cup {m \in {n} : <<h, m>> \in stale}
          /\ lagged' = lagged /\ revoked' = revoked
          /\ marked' = IF e.status = "active" THEN marked \ {n} ELSE marked \cup {n}
      BY <2>18 DEF PutMetadata, WrittenBack, n, e
    <3>6. revoked \subseteq Names /\ marked \subseteq Names
      BY DEF BindingInv, TypeOK
    <3>7. OutcomeInv'
      BY <3>1, <3>2, <3>3, <3>4, <3>5, <3>6 DEF BindingInv, OutcomeInv, Kept
    <3> QED
      BY <3>3, <3>7
  <2>19. ASSUME NEW h \in Handlers, DriftDone(h) PROVE Goal
    BY <2>19, <2>r DEF DriftDone
  <2>20. ASSUME NEW s \in Sessions, NEW n \in OAuthNames, NEW mode \in {"create", "reauthorize"}, InitOAuth2Binding(s, n, mode) PROVE Goal
    BY <2>20, <2>u DEF InitOAuth2Binding
  <2>21. ASSUME NEW s \in Sessions, RejectCallback(s) PROVE Goal
    BY <2>21, <2>u DEF RejectCallback
  <2>22. ASSUME NEW n \in OAuthNames, Expire(n) PROVE Goal
    BY <2>22, <2>u DEF Expire
  <2>23. ASSUME UnlockLocalVault PROVE Goal
    <3>1. \A h \in Handlers : Resting(job[h])
      BY <2>23 DEF BindingInv, FileInv, UnlockLocalVault
    <3>2. job' = job /\ mem' = file /\ file' = file /\ vault' = "open" /\ vault # "open"
      BY <2>23 DEF UnlockLocalVault, Unlock, NewFileVault
    <3>3. JobInv' /\ FreshInv'
      BY <3>1, <3>2 DEF JobInv, JobOK, FreshInv, Fresh, Resting, Idle
    <3>4. FileInv'
      BY <3>2 DEF FileInv
    <3>5. OutcomeInv'
      BY <2>23, <3>2 DEF BindingInv, OutcomeInv, Kept, UnlockLocalVault, history
    <3> QED
      BY <3>3, <3>4, <3>5
  <2>24. ASSUME Crash PROVE Goal
    <3>1. \A h \in Handlers : job'[h] = Idle
      BY <2>24 DEF Crash
    <3>2. JobInv' /\ FreshInv' /\ FileInv'
      BY <2>24, <3>1 DEF Crash, JobInv, JobOK, FreshInv, Fresh, FileInv, Resting, Idle
    <3>3. revoked \subseteq Names /\ marked \subseteq Names
      BY DEF BindingInv, TypeOK
    <3>4. \A n \in Names : n \notin unsaved => Kept(n)' = Kept(n)
      BY <2>24 DEF Crash, BindingInv, FileInv, Kept
    <3>5. OutcomeInv'
      BY <2>24, <3>3, <3>4 DEF Crash, BindingInv, OutcomeInv
    <3> QED
      BY <3>2, <3>5
  <2>25. ASSUME Restart PROVE Goal
    <3>1. JobInv' /\ FreshInv' /\ FileInv'
      BY <2>25 DEF Restart, BindingInv, JobInv, FreshInv, Fresh, FileInv, secrets, history
    <3>2. OutcomeInv'
      BY <2>25 DEF Restart, BindingInv, OutcomeInv, Kept, secrets, history
    <3> QED
      BY <3>1, <3>2
  <2>26. CASE UNCHANGED vars
    BY <2>26, <2>u DEF vars
  <2> QED
    BY <2>1, <2>2, <2>3, <2>4, <2>5, <2>6, <2>7, <2>8, <2>9, <2>10, <2>11, <2>12, <2>13, <2>14, <2>15, <2>16, <2>17, <2>18, <2>19, <2>20, <2>21, <2>22, <2>23, <2>24, <2>25, <2>26
    DEF Next, Resolver, Bind, Drift, FinishOAuth2Binding, Oauth2BindingCallback
<1>5. BindingInv /\ [Next]_vars => BindingInv'
  BY <1>3, <1>4 DEF BindingInv
(* Every step keeps each refresh token with its binding and handlers, and  *)
(* the stored ones accepted, lost or about to be replaced.                 *)
<1>6. BindingInv /\ TokenInv /\ [Next]_vars => TokenInv'
  <2> SUFFICES ASSUME BindingInv, TokenInv, [Next]_vars PROVE TokenInv'
    OBVIOUS
  <2>j. /\ job \in [Handlers -> AllJobs]
        /\ mem \in [Names -> Entries] /\ file \in [Names -> Entries]
        /\ issued \in Nat
        /\ OAuthNames \subseteq Names
    BY DEF BindingInv, TypeOK, AllJobs, Names
  <2>n. \A t \in Tokens : t \in Nat /\ t # 0
    BY BoundsAssumption DEF Tokens
  <2>h. ASSUME NEW h \in Handlers, NEW t \in Tokens, Holds(h, t)
        PROVE  job[h].name \in Names /\ Known(job[h].name, t) /\ t <= issued
    <3>1. job[h].name \in Names
      BY <2>h, <2>j, JobTypes DEF Holds, TokensOf
    <3>2. Known(job[h].name, t)
      BY <2>h DEF Known
    <3> QED
      BY <3>1, <3>2 DEF TokenInv, HolderInv
  <2>v. ASSUME NEW h \in Handlers, job[h].op \in BindingOps \cup {"drift_put"} PROVE vault = "open"
    BY <2>v DEF BindingInv, FileInv, Resting, Idle, BindingOps
  (* HolderInv: what a step makes known was known, or is new. *)
  <2>a. ASSUME NEW n0, issued' \in Nat, issued <= issued',
               \A n \in Names, t \in Tokens : Known(n, t)' =>
                 Known(n, t) \/ (t = issued + 1 /\ issued' = t /\ n = n0)
        PROVE  HolderInv'
    <3> SUFFICES ASSUME NEW t \in Tokens, NEW n \in Names, Known(n, t)'
                 PROVE  t <= issued' /\ \A m \in Names : Known(m, t)' => m = n
      BY DEF HolderInv
    <3>1. \A m \in Names : Known(m, t) => t <= issued /\ \A k \in Names : Known(k, t) => k = m
      BY DEF TokenInv, HolderInv
    <3>2. \A m \in Names : Known(m, t)' =>
            Known(m, t) \/ (t = issued + 1 /\ issued' = t /\ m = n0)
      BY <2>a
    <3>3. ~(t <= issued /\ t = issued + 1)
      BY <2>j, <2>n
    <3>4. t <= issued'
      BY <2>a, <2>j, <2>n, <3>1, <3>2
    <3> QED
      BY <3>1, <3>2, <3>3, <3>4
  (* OwnInv: the other handlers, when h takes the step. *)
  <2>b. ASSUME NEW h \in Handlers, \A k \in Handlers : k # h => job'[k] = job[k],
               \A t \in Tokens : t \in live /\ ~Holds(h, t) => t \in live',
               \A n \in Names, t \in Tokens : Stores(n, t)' => Holds(h, t) \/ \E m \in Names : Stores(m, t),
               \A t \in Tokens : Holds(h, t)' =>
                 Holds(h, t) \/ (\E m \in Names : Stores(m, t)) \/ t > issued,
               NEW k \in Handlers, k # h
        PROVE  OwnOK(k)'
    <3>1. OwnOK(k) /\ job'[k] = job[k]
      BY <2>b DEF TokenInv, OwnInv
    <3>u. PICK u : u = job[k].entry.ref
      OBVIOUS
    <3> SUFFICES ASSUME job[k].op \in {"check", "put", "upsert", "persist"}, job[k].name \in OAuthNames,
                        u \notin {0, job[k].old}
                 PROVE  /\ u \in live'
                        /\ \A n \in Names : ~Stores(n, u)'
                        /\ \A g \in Handlers \ {k} : ~Holds(g, u)'
      BY <3>1, <3>u DEF OwnOK, Stores, Holds
    <3>2. /\ u \in live
          /\ \A n \in Names : ~Stores(n, u)
          /\ \A g \in Handlers \ {k} : ~Holds(g, u)
      BY <3>1, <3>u DEF OwnOK
    <3>3. u \in Tokens /\ Holds(k, u)
      <4>1. job[k].entry \in Entries /\ job[k].op \in BindingOps
        BY <2>j, JobTypes DEF BindingOps
      <4> QED
        BY <3>u, <4>1 DEF Entries, Holds, TokensOf
    <3>4. u <= issued /\ ~(u > issued)
      BY <2>h, <2>j, <2>n, <3>3
    <3>5. \A g \in Handlers : g # h => Holds(g, u)' = Holds(g, u)
      BY <2>b DEF Holds
    <3> QED
      BY <2>b, <3>2, <3>3, <3>4, <3>5
  (* GoodInv: the same for what is about to be written and what is kept. *)
  <2>c. ASSUME NEW h \in Handlers, \A k \in Handlers : k # h => job'[k] = job[k],
               \A k \in Handlers, n \in Names : k # h /\ <<k, n>> \notin stale' => <<k, n>> \notin stale,
               \A t \in (live \cup burnt) \ (live' \cup burnt') :
                 Holds(h, t) /\ job'[h].op = "persist" /\ job'[h].name = job[h].name /\ job'[h].old = t,
               job[h].op = "persist" => \A k \in Handlers : k # h /\ HasRead(k, job[h].name) =>
                 <<k, job[h].name>> \in stale'
        PROVE  /\ \A k \in Handlers : k # h => GoodOK(k)'
               /\ \A n \in OAuthNames \ (clobbered \cup lagged) :
                    Kept(n)'.ref = Kept(n).ref /\ (job[h].op = "persist" => job[h].name # n) => KeptOK(n)'
    <3>1. ASSUME NEW n \in Names, NEW t \in Tokens, Known(n, t), t \in live \cup burnt
          PROVE  t \in live' \cup burnt' \/ Replaces(h, n, t)'
      <4>1. SUFFICES ASSUME t \notin live' \cup burnt' PROVE Replaces(h, n, t)'
        OBVIOUS
      <4>2. Holds(h, t) /\ job'[h].op = "persist" /\ job'[h].name = job[h].name /\ job'[h].old = t
        BY <2>c, <3>1, <4>1
      <4>3. job[h].name = n
        BY <2>h, <3>1, <4>2 DEF TokenInv, HolderInv
      <4> QED
        BY <4>2, <4>3 DEF Replaces
    <3>2. ASSUME NEW k \in Handlers, k # h PROVE GoodOK(k)'
      <4>u. PICK n, u : n = job[k].name /\ u = job[k].entry.ref
        OBVIOUS
      <4>1. job'[k] = job[k]
        BY <2>c, <3>2
      <4> SUFFICES ASSUME job[k].op = "persist", <<k, n>> \notin stale'
                   PROVE  u = 0 \/ u \in live' \cup burnt' \/ \E g \in Handlers \ {k} : Replaces(g, n, u)'
        BY <4>1, <4>u DEF GoodOK, Replaces
      <4>2. n \in Names /\ u \in Tokens \cup {0} /\ Holds(k, u)
        <5>1. job[k].entry \in Entries /\ job[k].op \in BindingOps /\ n \in Names
          BY <2>j, <4>u, JobTypes DEF BindingOps
        <5> QED
          BY <4>u, <5>1 DEF Entries, Holds, TokensOf
      <4>3. <<k, n>> \notin stale /\ (job[h].op = "persist" => job[h].name # n)
        BY <2>c, <3>2, <4>2, <4>u DEF HasRead
      <4>4. u = 0 \/ u \in live \cup burnt \/ \E g \in Handlers \ {k} : Replaces(g, n, u)
        BY <4>3, <4>u DEF TokenInv, GoodInv, GoodOK
      <4>5. CASE u \in Tokens /\ u \in live \cup burnt
        BY <2>h, <3>1, <3>2, <4>2, <4>5, <4>u
      <4>6. ASSUME NEW g \in Handlers \ {k}, Replaces(g, n, u) PROVE Replaces(g, n, u)'
        BY <2>c, <4>3, <4>6 DEF Replaces
      <4> QED
        BY <4>2, <4>4, <4>5, <4>6
    <3>3. ASSUME NEW n \in OAuthNames \ (clobbered \cup lagged), Kept(n)'.ref = Kept(n).ref,
                 job[h].op = "persist" => job[h].name # n
          PROVE  KeptOK(n)'
      <4>t. PICK t : t = Kept(n).ref
        OBVIOUS
      <4>1. n \in Names /\ t \in Tokens \cup {0} /\ Stores(n, t)
        BY <2>j, <4>t DEF Kept, Stores, Entries
      <4>2. t = 0 \/ t \in live \cup burnt \/ \E k \in Handlers : Replaces(k, n, t)
        BY <4>t DEF TokenInv, GoodInv, KeptOK
      <4>3. ASSUME NEW k \in Handlers, Replaces(k, n, t) PROVE Replaces(k, n, t)'
        BY <2>c, <3>3, <4>3 DEF Replaces
      <4>4. t \in Tokens /\ t \in live \cup burnt => t \in live' \cup burnt' \/ Replaces(h, n, t)'
        BY <3>1, <4>1 DEF Known
      <4>5. t = 0 \/ t \in live' \cup burnt' \/ \E k \in Handlers : Replaces(k, n, t)'
        BY <4>1, <4>2, <4>3, <4>4
      <4> QED
        BY <3>3, <4>5, <4>t DEF KeptOK
    <3> QED
      BY <3>2, <3>3
  (* A handler goes on without a write, a new token or a replacement. *)
  <2>d. ASSUME NEW h \in Handlers, NEW j \in AllJobs, Goto(h, j),
               UNCHANGED <<vault, mem, file, live, burnt, clobbered, lagged>>,
               stale' = stale \/ stale' = {p \in stale : p[1] # h},
               issued' = issued \/ issued' = issued + 1,
               job[h].op # "persist", j.op # "persist",
               \A t \in Tokens : t \in TokensOf(j) => Stores(j.name, t) \/ (Holds(h, t) /\ j.name = job[h].name),
               j.op \in {"exchange", "check", "put", "upsert"} => j.old = 0,
               j.op \in {"check", "put", "upsert"} /\ j.name \in OAuthNames =>
                 job[h].op \in {"check", "put", "upsert"} /\ j.name = job[h].name /\ j.entry = job[h].entry
        PROVE  TokenInv'
    <3>1. job'[h] = j /\ \A k \in Handlers : k # h => job'[k] = job[k]
      BY <2>d, <2>j DEF Goto
    <3>2. \A n, t : Stores(n, t)' = Stores(n, t)
      BY <2>d DEF Stores
    <3>3. /\ \A t : Holds(h, t)' = (t \in TokensOf(j))
          /\ \A k \in Handlers : \A t : k # h => Holds(k, t)' = Holds(k, t)
      BY <3>1 DEF Holds, TokensOf
    <3>4. ASSUME NEW n \in Names, NEW t \in Tokens, Known(n, t)' PROVE Known(n, t)
      <4>1. ASSUME NEW k \in Handlers, Holds(k, t)', job'[k].name = n PROVE Known(n, t)
        <5>1. CASE k = h
          BY <2>d, <3>1, <3>3, <4>1, <5>1 DEF Known
        <5>2. CASE k # h
          BY <3>1, <3>3, <4>1, <5>2 DEF Known
        <5> QED
          BY <5>1, <5>2
      <4> QED
        BY <3>2, <3>4, <4>1 DEF Known
    <3>5. HolderInv'
      <4>1. issued' \in Nat /\ issued <= issued'
        BY <2>d, <2>j
      <4> QED
        BY <2>a, <3>4, <4>1
    <3>6. \A t \in Tokens : Holds(h, t)' => Holds(h, t) \/ \E m \in Names : Stores(m, t)
      <4>1. j.op \in BindingOps \/ j.op = "drift_put" => j.name \in Names
        BY JobTypes DEF Names
      <4> QED
        BY <2>d, <3>3, <4>1 DEF TokensOf
    <3>7. \A k \in Handlers : k # h => OwnOK(k)'
      BY <2>b, <2>d, <3>1, <3>2, <3>6
    <3>8. OwnOK(h)'
      <4>1. OwnOK(h)
        BY DEF TokenInv, OwnInv
      <4> QED
        BY <2>d, <3>1, <3>2, <3>3, <4>1 DEF OwnOK
    <3>9. /\ \A k \in Handlers, n \in Names : k # h /\ <<k, n>> \notin stale' => <<k, n>> \notin stale
          /\ \A n : Kept(n)' = Kept(n)
      BY <2>d DEF Kept
    <3>10. GoodOK(h)'
      BY <2>d, <3>1 DEF GoodOK
    <3>11. /\ \A k \in Handlers : k # h => GoodOK(k)'
           /\ \A n \in OAuthNames \ (clobbered \cup lagged) : KeptOK(n)'
      BY <2>c, <2>d, <3>1, <3>9
    <3> QED
      BY <2>d, <3>5, <3>7, <3>8, <3>10, <3>11 DEF TokenInv, OwnInv, GoodInv
  (* A handler writes what it holds. *)
  <2>w. ASSUME NEW h \in Handlers, NEW n \in Names, NEW e \in Entries, n = job[h].name,
               job[h].op \in BindingOps \cup {"drift_put"}, Store(h, n, e),
               Flushed \/ FlushFails(n),
               NEW j, Goto(h, j), TokensOf(j) = {},
               j.op \notin {"exchange", "check", "put", "upsert", "persist"},
               UNCHANGED <<vault, issued, live, burnt>>,
               e.ref \in Tokens => Holds(h, e.ref),
               \A m \in Names \ {n} : m \notin clobbered' \cup lagged' => m \notin clobbered \cup lagged,
               n \in OAuthNames \ (clobbered' \cup lagged') =>
                 e.ref = 0 \/ e.ref \in live \cup burnt \/ \E k \in Handlers \ {h} : Replaces(k, n, e.ref)
        PROVE  TokenInv'
    <3>1. job'[h] = j /\ \A k \in Handlers : k # h => job'[k] = job[k]
      BY <2>w, <2>j DEF Goto
    <3>2. vault = "open" /\ vault' = "open"
      BY <2>v, <2>w
    <3>3. mem'[n] = e /\ \A m \in Names : m # n => mem'[m] = mem[m]
      BY <2>w, <2>j DEF Store
    <3>4. \A m \in Names, t \in Tokens : Stores(m, t)' => Stores(m, t) \/ (m = n /\ Holds(h, t))
      BY <2>w, <3>3 DEF Stores, Flushed, FlushFails
    <3>5. /\ \A t : ~Holds(h, t)'
          /\ \A k \in Handlers : \A t : k # h => Holds(k, t)' = Holds(k, t)
      BY <2>w, <3>1 DEF Holds, TokensOf
    <3>6. ASSUME NEW m \in Names, NEW t \in Tokens, Known(m, t)' PROVE Known(m, t)
      <4>1. ASSUME NEW k \in Handlers, Holds(k, t)', job'[k].name = m PROVE Known(m, t)
        BY <3>1, <3>5, <4>1 DEF Known
      <4> QED
        BY <2>w, <3>4, <3>6, <4>1 DEF Known
    <3>7. HolderInv'
      <4>1. issued' \in Nat /\ issued <= issued'
        BY <2>w, <2>j
      <4> QED
        BY <2>a, <3>6, <4>1
    <3>8. \A k \in Handlers : k # h => OwnOK(k)'
      BY <2>b, <2>w, <3>1, <3>4, <3>5
    <3>9. OwnOK(h)' /\ GoodOK(h)'
      BY <2>w, <3>1 DEF OwnOK, GoodOK
    <3>10. /\ \A k \in Handlers, m \in Names : k # h /\ <<k, m>> \notin stale' => <<k, m>> \notin stale
           /\ \A k \in Handlers : k # h /\ HasRead(k, n) => <<k, n>> \in stale'
      BY <2>w DEF Store
    <3>11. /\ \A k \in Handlers : k # h => GoodOK(k)'
           /\ \A m \in OAuthNames \ (clobbered \cup lagged) :
                Kept(m)'.ref = Kept(m).ref /\ (job[h].op = "persist" => job[h].name # m) => KeptOK(m)'
      BY <2>c, <2>w, <3>1, <3>10
    <3>12. ASSUME NEW m \in OAuthNames \ (clobbered' \cup lagged') PROVE KeptOK(m)'
      <4>1. CASE m = n
        <5>1. e.ref = 0 \/ e.ref \in live' \cup burnt' \/ \E k \in Handlers \ {h} : Replaces(k, n, e.ref)
          BY <2>w, <3>12, <4>1
        <5>2. Kept(m)' = e
          BY <3>2, <3>3, <4>1 DEF Kept
        <5>3. PICK t : t = e.ref
          OBVIOUS
        <5>4. \A k \in Handlers \ {h} : Replaces(k, n, t) => Replaces(k, m, t)'
          BY <3>1, <4>1 DEF Replaces
        <5> QED
          BY <5>1, <5>2, <5>3, <5>4 DEF KeptOK
      <4>2. CASE m # n
        <5>1. m \in OAuthNames \ (clobbered \cup lagged) /\ job[h].name # m
          BY <2>j, <2>w, <3>12, <4>2
        <5>2. Kept(m)' = Kept(m)
          BY <2>j, <3>2, <3>3, <4>2 DEF Kept
        <5> QED
          BY <3>11, <5>1, <5>2
      <4> QED
        BY <4>1, <4>2
    <3> QED
      BY <3>7, <3>8, <3>9, <3>11, <3>12 DEF TokenInv, OwnInv, GoodInv
  <2>r. ASSUME NEW h \in Handlers, Return(h), job[h].op # "persist",
               UNCHANGED <<vault, secrets, provider, burnt, history>>
        PROVE  TokenInv'
    <3>1. Idle \in AllJobs /\ TokensOf(Idle) = {} /\ Idle.op = "idle"
      BY JobTypes DEF TokensOf, Idle, BindingOps
    <3>2. Goto(h, Idle) /\ stale' = {p \in stale : p[1] # h}
      BY <2>r DEF Return
    <3>3. UNCHANGED <<vault, mem, file, live, burnt, clobbered, lagged, issued>>
      BY <2>r DEF secrets, provider, history
    <3> HIDE DEF Idle
    <3> QED
      BY <2>d, <2>r, <3>1, <3>2, <3>3
  <2>u. ASSUME UNCHANGED <<vault, secrets, job, issued, live, stale, burnt, history>> PROVE TokenInv'
    <3>1. HolderInv'
      BY <2>u DEF TokenInv, HolderInv, Known, Stores, Holds, secrets
    <3>2. OwnInv'
      BY <2>u DEF TokenInv, OwnInv, OwnOK, Stores, Holds, secrets
    <3>3. GoodInv'
      BY <2>u DEF TokenInv, GoodInv, GoodOK, KeptOK, Kept, Replaces, secrets, history
    <3> QED
      BY <3>1, <3>2, <3>3 DEF TokenInv
  <2>1. ASSUME NEW h \in Handlers, NEW n \in OAuthNames, ResolverFor(h, n) PROVE TokenInv'
    <3> DEFINE j == Job("read_token", n)
    <3>1. j \in AllJobs /\ j.op = "read_token" /\ j.entry.ref = 0 /\ j.old = 0
      BY <2>j, JobTypes DEF AllJobs, BindingOps, Job, NoEntry
    <3>2. /\ Goto(h, j) /\ stale' = stale /\ job[h] = Idle
          /\ UNCHANGED <<vault, mem, file, live, burnt, clobbered, lagged, issued>>
      BY <2>1 DEF ResolverFor, Starts, secrets, provider, history
    <3>3. job[h].op # "persist"
      BY <3>2, JobTypes
    <3> HIDE DEF j
    <3>4. \A t \in Tokens : t \notin TokensOf(j)
      BY <2>n, <3>1 DEF TokensOf
    <3> QED
      BY <2>d, <3>1, <3>2, <3>3, <3>4
  <2>2. ASSUME NEW h \in Handlers, Resolve(h) PROVE TokenInv'
    <3>1. CASE Return(h)
      BY <2>2, <2>r, <3>1 DEF Resolve
    <3>2. CASE ~Return(h)
      <4> DEFINE e == mem[job[h].name]
                 j == [job[h] EXCEPT !.op = "refresh", !.entry = e, !.old = e.ref]
      <4>1. job[h] \in BindingJobs /\ job[h].name \in Names /\ e \in Entries
        BY <2>2, <2>j, JobTypes DEF Resolve, BindingOps
      <4>2. j.op = "refresh" /\ j.name = job[h].name /\ j.entry = e /\ j.old = e.ref
        BY <4>1 DEF BindingJobs
      <4>3. /\ Goto(h, j) /\ stale' = stale /\ job[h].op = "read_token"
            /\ UNCHANGED <<vault, mem, file, live, burnt, clobbered, lagged, issued>>
        BY <2>2, <3>2 DEF Resolve, secrets, provider, history
      <4>4. e.ref \in Tokens \cup {0}
        BY <4>1 DEF Entries
      <4>5. j \in AllJobs
        BY <4>1, <4>4 DEF BindingJobs, BindingOps, AllJobs
      <4>6. Stores(j.name, e.ref)
        BY <4>2 DEF Stores
      <4> HIDE DEF j
      <4>7. \A t \in Tokens : t \in TokensOf(j) => Stores(j.name, t)
        BY <4>2, <4>6 DEF TokensOf, BindingOps
      <4> QED
        BY <2>d, <4>2, <4>3, <4>5, <4>7
    <3> QED
      BY <3>1, <3>2
  <2>3. ASSUME NEW h \in Handlers, NEW rotated \in BOOLEAN, NEW dated \in BOOLEAN, Refresh(h, rotated, dated) PROVE TokenInv'
    <3>0. PICK i, t, u, n : /\ i = issued + 1 /\ t = job[h].old /\ n = job[h].name
                            /\ u = NewRefresh(rotated, i, t)
      OBVIOUS
    <3> DEFINE e == Refreshed(job[h].entry, i, u)
               j == [job[h] EXCEPT !.op = "persist", !.entry = e]
    <3>1. /\ job[h] \in BindingJobs /\ job[h].op = "refresh" /\ job[h].op \in BindingOps /\ job[h].entry \in Entries
          /\ n \in Names /\ t \in Tokens /\ t # 0 /\ i \in Tokens
      <4>1. job[h].op = "refresh" /\ issued < MaxTokens
        BY <2>3 DEF Refresh
      <4>2. job[h] \in BindingJobs /\ job[h].op \in BindingOps /\ job[h].entry \in Entries /\ n \in Names
            /\ t \in Tokens \cup {0}
        BY <2>j, <3>0, <4>1, JobTypes DEF BindingOps
      <4>3. t # 0
        BY <3>0, <4>1 DEF BindingInv, JobInv, JobOK
      <4>4. i \in Tokens
        BY <2>j, <3>0, <4>1, BoundsAssumption DEF Tokens
      <4> QED
        BY <4>1, <4>2, <4>3, <4>4
    <3>2. e \in Entries /\ e.ref = u
      <4>1. u \in Tokens \cup {0} /\ i \in Tokens \cup {0} /\ {} \in SUBSET Scopes
        BY <3>0, <3>1 DEF NewRefresh
      <4> QED
        BY <3>1, <4>1, EntryTypes
    <3>3. /\ u = (IF rotated THEN i ELSE t) /\ t \in live /\ issued' = i
          /\ live' = (IF rotated THEN (live \ {t}) \cup {i} ELSE live)
          /\ Goto(h, j) /\ UNCHANGED <<vault, mem, file, stale, burnt, clobbered, lagged>>
      BY <2>3, <3>0 DEF Refresh, NewRefresh, secrets, history
    <3> HIDE DEF e
    <3>4. j.op = "persist" /\ j.name = n /\ j.entry = e /\ j.old = t
      BY <3>0, <3>1 DEF BindingJobs
    <3> HIDE DEF j
    <3>5. job'[h] = j /\ \A k \in Handlers : k # h => job'[k] = job[k]
      BY <2>j, <3>3 DEF Goto
    <3>6. \A m, s : Stores(m, s)' = Stores(m, s)
      BY <3>3 DEF Stores
    <3>7. /\ \A s : Holds(h, s)' = (s \in {t, u})
          /\ \A k \in Handlers : \A s : k # h => Holds(k, s)' = Holds(k, s)
      BY <3>2, <3>4, <3>5 DEF Holds, TokensOf, BindingOps
    <3>8. Holds(h, t)
      BY <3>0, <3>1 DEF Holds, TokensOf
    <3>9. /\ i > issued /\ issued' \in Nat /\ issued <= issued'
          /\ \A m \in Names : ~Stores(m, i)
          /\ \A k \in Handlers : ~Holds(k, i)
      <4>1. i > issued /\ ~(i <= issued) /\ issued' \in Nat /\ issued <= issued'
        BY <2>j, <3>0, <3>3
      <4>2. \A m \in Names : ~Stores(m, i)
        BY <3>1, <4>1 DEF TokenInv, HolderInv, Known
      <4> QED
        BY <2>h, <3>1, <4>1, <4>2
    <3>10. ASSUME NEW m \in Names, NEW s \in Tokens, Known(m, s)'
           PROVE  Known(m, s) \/ (s = issued + 1 /\ issued' = s /\ m = n)
      <4>1. ASSUME NEW k \in Handlers, Holds(k, s)', job'[k].name = m
            PROVE  Known(m, s) \/ (s = issued + 1 /\ issued' = s /\ m = n)
        <5>1. CASE k = h
          <6>1. m = n /\ s \in {t, i}
            BY <3>3, <3>4, <3>5, <3>7, <4>1, <5>1
          <6> QED
            BY <3>0, <3>3, <3>8, <6>1 DEF Known
        <5>2. CASE k # h
          BY <3>5, <3>7, <4>1, <5>2 DEF Known
        <5> QED
          BY <5>1, <5>2
      <4> QED
        BY <3>6, <3>10, <4>1 DEF Known
    <3>11. HolderInv'
      BY <2>a, <3>9, <3>10
    <3>12. \A k \in Handlers : k # h => OwnOK(k)'
      <4>1. \A s \in Tokens : s \in live /\ ~Holds(h, s) => s \in live'
        BY <3>3, <3>8
      <4>2. \A s \in Tokens : Holds(h, s)' => Holds(h, s) \/ s > issued
        BY <3>3, <3>7, <3>8, <3>9
      <4> QED
        BY <2>b, <3>5, <3>6, <4>1, <4>2
    <3>13. OwnOK(h)'
      BY <3>2, <3>3, <3>4, <3>5, <3>6, <3>7, <3>9 DEF OwnOK
    <3>14. /\ \A k \in Handlers : k # h => GoodOK(k)'
           /\ \A m \in OAuthNames \ (clobbered \cup lagged) : KeptOK(m)'
      <4>1. \A s \in (live \cup burnt) \ (live' \cup burnt') :
              Holds(h, s) /\ job'[h].op = "persist" /\ job'[h].name = job[h].name /\ job'[h].old = s
        BY <3>0, <3>3, <3>4, <3>5, <3>8
      <4>2. \A m : Kept(m)' = Kept(m)
        BY <3>3 DEF Kept
      <4> QED
        BY <2>c, <3>1, <3>3, <3>5, <4>1, <4>2
    <3>15. GoodOK(h)'
      BY <3>2, <3>3, <3>4, <3>5 DEF GoodOK
    <3> QED
      BY <3>3, <3>11, <3>12, <3>13, <3>14, <3>15 DEF TokenInv, OwnInv, GoodInv
  <2>4. ASSUME NEW h \in Handlers, RefreshFails(h) PROVE TokenInv'
    BY <2>4, <2>r DEF RefreshFails
  <2>5. ASSUME NEW h \in Handlers, AnswerLost(h) PROVE TokenInv'
    <3>1. /\ job[h].op = "refresh" /\ issued' = issued + 1
          /\ live' = (live \ {job[h].old}) \cup {issued + 1} /\ burnt' = burnt \cup {job[h].old}
          /\ Goto(h, Idle) /\ stale' = {p \in stale : p[1] # h}
          /\ UNCHANGED <<vault, mem, file, clobbered, lagged>>
      BY <2>5 DEF AnswerLost, Return, secrets, history
    <3>2. job'[h] = Idle /\ \A k \in Handlers : k # h => job'[k] = job[k]
      BY <2>j, <3>1 DEF Goto
    <3>3. \A m, s : Stores(m, s)' = Stores(m, s)
      BY <3>1 DEF Stores
    <3>4. /\ \A s : ~Holds(h, s)'
          /\ \A k \in Handlers : \A s : k # h => Holds(k, s)' = Holds(k, s)
      BY <3>2 DEF Holds, TokensOf, BindingOps, Idle
    <3>5. Holds(h, job[h].old)
      BY <3>1 DEF Holds, TokensOf, BindingOps
    <3>6. HolderInv'
      <4>1. \A m \in Names, s \in Tokens : Known(m, s)' => Known(m, s)
        BY <3>2, <3>3, <3>4 DEF Known
      <4>2. issued' \in Nat /\ issued <= issued'
        BY <2>j, <3>1
      <4> QED
        BY <2>a, <4>1, <4>2
    <3>7. \A k \in Handlers : k # h => OwnOK(k)'
      <4>1. \A s \in Tokens : s \in live /\ ~Holds(h, s) => s \in live'
        BY <3>1, <3>5
      <4> QED
        BY <2>b, <3>2, <3>3, <3>4, <4>1
    <3>8. OwnOK(h)' /\ GoodOK(h)'
      BY <3>2 DEF OwnOK, GoodOK, Idle
    <3>9. /\ \A k \in Handlers : k # h => GoodOK(k)'
          /\ \A m \in OAuthNames \ (clobbered \cup lagged) : KeptOK(m)'
      <4>1. live \cup burnt \subseteq live' \cup burnt'
        BY <3>1
      <4>2. \A m : Kept(m)' = Kept(m)
        BY <3>1 DEF Kept
      <4>3. \A k \in Handlers, n \in Names : k # h /\ <<k, n>> \notin stale' => <<k, n>> \notin stale
        BY <3>1
      <4> QED
        BY <2>c, <3>1, <3>2, <4>1, <4>2, <4>3
    <3> QED
      BY <3>1, <3>6, <3>7, <3>8, <3>9 DEF TokenInv, OwnInv, GoodInv
  <2>6. ASSUME NEW h \in Handlers, Persist(h) PROVE TokenInv'
    <3>0. PICK n, e : n = job[h].name /\ e = job[h].entry
      OBVIOUS
    <3>1. n \in Names /\ e \in Entries /\ job[h].op = "persist"
      BY <2>6, <2>j, <3>0, JobTypes DEF Persist, BindingOps
    <3>2. /\ Store(h, n, e) /\ Goto(h, Idle) /\ clobbered' = clobbered \cup {m \in {n} : <<h, m>> \in stale}
          /\ UNCHANGED <<vault, issued, live, burnt, lagged>>
          /\ Flushed \/ FlushFails(n)
      BY <2>6, <3>0 DEF Persist, WrittenBack, provider
    <3>3. Holds(h, e.ref)
      BY <3>0, <3>1 DEF Holds, TokensOf, BindingOps
    <3>4. n \notin clobbered' =>
            e.ref = 0 \/ e.ref \in live \cup burnt \/ \E k \in Handlers \ {h} : Replaces(k, n, e.ref)
      <4>1. GoodOK(h)
        BY DEF TokenInv, GoodInv
      <4> QED
        BY <3>0, <3>1, <3>2, <4>1 DEF GoodOK
    <3>5. TokensOf(Idle) = {} /\ Idle.op = "idle"
      BY DEF TokensOf, Idle, BindingOps
    <3>6. job[h].op \in BindingOps
      BY <3>1 DEF BindingOps
    <3> QED
      BY <2>w, <3>0, <3>1, <3>2, <3>3, <3>4, <3>5, <3>6
  <2>7. ASSUME NEW h \in Handlers, NEW s \in Sessions, CompleteConsent(h, s) PROVE TokenInv'
    <3> DEFINE b == Job("exchange", session[s].name)
               j == [b EXCEPT !.create = session[s].mode = "create", !.entry.granted = session[s].scopes]
    <3>1. session[s] \in Sess
      BY <2>7 DEF CompleteConsent, Take, BindingInv, TypeOK
    <3>2. b \in BindingJobs /\ b.op = "exchange" /\ b.entry.ref = 0 /\ b.old = 0
      BY <3>1, JobTypes DEF Sess, Names, BindingOps, Job, NoEntry
    <3>3. session[s].scopes \in SUBSET Scopes /\ (session[s].mode = "create") \in BOOLEAN
      BY <3>1 DEF Sess
    <3>4. /\ Goto(h, j) /\ stale' = stale /\ job[h] = Idle
          /\ UNCHANGED <<vault, mem, file, live, burnt, clobbered, lagged, issued>>
      BY <2>7 DEF CompleteConsent, Starts, secrets, provider, history
    <3> HIDE DEF b
    <3>5. j \in AllJobs
      BY <3>2, <3>3 DEF BindingJobs, Entries, AllJobs
    <3>6. j.op = "exchange" /\ j.entry.ref = 0 /\ j.old = 0
      BY <3>2 DEF BindingJobs, Entries
    <3>7. job[h].op # "persist"
      BY <3>4, JobTypes
    <3> HIDE DEF j
    <3>8. \A t \in Tokens : t \notin TokensOf(j)
      BY <2>n, <3>6 DEF TokensOf
    <3> QED
      BY <2>d, <3>4, <3>5, <3>6, <3>7, <3>8
  <2>8. ASSUME NEW h \in Handlers, NEW refresh \in BOOLEAN, NEW granted \in SUBSET Scopes, ExchangeOAuth2Code(h, refresh, granted) PROVE TokenInv'
    <3>0. PICK i, u, op, n : /\ i = issued + 1 /\ n = job[h].name
                             /\ u = (IF refresh THEN i ELSE 0)
                             /\ op = IF job[h].create THEN "check" ELSE "upsert"
      OBVIOUS
    <3> DEFINE e == Entry(i, u, granted)
               j == [job[h] EXCEPT !.op = op, !.entry = e]
    <3>1. /\ job[h] \in BindingJobs /\ job[h].op = "exchange" /\ n \in Names /\ i \in Tokens
      <4>1. job[h].op = "exchange" /\ issued < MaxTokens
        BY <2>8 DEF ExchangeOAuth2Code
      <4>2. i \in Tokens
        BY <2>j, <3>0, <4>1, BoundsAssumption DEF Tokens
      <4> QED
        BY <2>j, <3>0, <4>1, <4>2, JobTypes DEF BindingOps
    <3>2. e.ref = u
      BY DEF Entry
    <3>3. /\ issued' = i /\ live' = (IF refresh THEN live \cup {i} ELSE live)
          /\ Goto(h, j) /\ UNCHANGED <<vault, mem, file, stale, burnt, clobbered, lagged>>
      BY <2>8, <3>0 DEF ExchangeOAuth2Code, secrets, history
    <3> HIDE DEF e
    <3>4. /\ op \in {"check", "upsert"} /\ j.op = op /\ j.name = n /\ j.entry = e /\ j.old = 0
      BY <3>0, <3>1 DEF BindingJobs, TokenInv, OwnInv, OwnOK
    <3> HIDE DEF j
    <3>5. job'[h] = j /\ \A k \in Handlers : k # h => job'[k] = job[k]
      BY <2>j, <3>3 DEF Goto
    <3>6. \A m, s : Stores(m, s)' = Stores(m, s)
      BY <3>3 DEF Stores
    <3>7. /\ \A s : Holds(h, s)' = (s \in {0, u})
          /\ \A k \in Handlers : \A s : k # h => Holds(k, s)' = Holds(k, s)
      BY <3>2, <3>4, <3>5 DEF Holds, TokensOf, BindingOps
    <3>8. /\ i > issued /\ issued' \in Nat /\ issued <= issued'
          /\ \A m \in Names : ~Stores(m, i)
          /\ \A k \in Handlers : ~Holds(k, i)
      <4>1. i > issued /\ ~(i <= issued) /\ issued' \in Nat /\ issued <= issued'
        BY <2>j, <3>0, <3>3
      <4>2. \A m \in Names : ~Stores(m, i)
        BY <3>1, <4>1 DEF TokenInv, HolderInv, Known
      <4> QED
        BY <2>h, <3>1, <4>1, <4>2
    <3>9. ASSUME NEW m \in Names, NEW s \in Tokens, Known(m, s)'
           PROVE  Known(m, s) \/ (s = issued + 1 /\ issued' = s /\ m = n)
      <4>1. ASSUME NEW k \in Handlers, Holds(k, s)', job'[k].name = m
            PROVE  Known(m, s) \/ (s = issued + 1 /\ issued' = s /\ m = n)
        <5>1. CASE k = h
          <6>1. m = n /\ s = i
            BY <2>n, <3>0, <3>4, <3>5, <3>7, <4>1, <5>1
          <6> QED
            BY <3>0, <3>3, <6>1
        <5>2. CASE k # h
          BY <3>5, <3>7, <4>1, <5>2 DEF Known
        <5> QED
          BY <5>1, <5>2
      <4> QED
        BY <3>6, <3>9, <4>1 DEF Known
    <3>10. HolderInv'
      BY <2>a, <3>8, <3>9
    <3>11. \A k \in Handlers : k # h => OwnOK(k)'
      <4>1. \A s \in Tokens : s \in live => s \in live'
        BY <3>3
      <4>2. \A s \in Tokens : Holds(h, s)' => s > issued
        BY <2>n, <3>0, <3>7, <3>8
      <4> QED
        BY <2>b, <3>5, <3>6, <4>1, <4>2
    <3>12. OwnOK(h)'
      BY <3>0, <3>2, <3>3, <3>4, <3>5, <3>6, <3>7, <3>8 DEF OwnOK
    <3>13. /\ \A k \in Handlers : k # h => GoodOK(k)'
           /\ \A m \in OAuthNames \ (clobbered \cup lagged) : KeptOK(m)'
      <4>1. live \cup burnt \subseteq live' \cup burnt'
        BY <3>3
      <4>2. \A m : Kept(m)' = Kept(m)
        BY <3>3 DEF Kept
      <4> QED
        BY <2>c, <3>1, <3>3, <3>5, <4>1, <4>2
    <3>14. GoodOK(h)'
      BY <3>4, <3>5 DEF GoodOK
    <3> QED
      BY <3>3, <3>10, <3>11, <3>12, <3>13, <3>14 DEF TokenInv, OwnInv, GoodInv
  <2>9. ASSUME NEW h \in Handlers, ExchangeFails(h) PROVE TokenInv'
    BY <2>9, <2>r DEF ExchangeFails
  <2>10. ASSUME NEW h \in Handlers, NEW n \in KeyNames, SetupBinding(h, n) PROVE TokenInv'
    <3> DEFINE i == issued + 1
               b == Job("check", n)
               j == [b EXCEPT !.entry = Entry(i, 0, {}), !.create = TRUE]
    <3>1. b \in BindingJobs /\ b.op = "check" /\ b.name = n /\ b.old = 0
      BY JobTypes DEF Names, BindingOps, Job
    <3>2. i \in Tokens
      BY <2>10, <2>j, BoundsAssumption DEF SetupBinding, Tokens
    <3>3. Entry(i, 0, {}) \in Entries /\ Entry(i, 0, {}).ref = 0
      BY <3>2, EntryTypes, JobTypes DEF Entry
    <3>4. /\ Goto(h, j) /\ stale' = stale /\ job[h] = Idle /\ issued' = issued + 1
          /\ UNCHANGED <<vault, mem, file, live, burnt, clobbered, lagged>>
      BY <2>10 DEF SetupBinding, Starts, secrets, history
    <3> HIDE DEF b
    <3>5. j \in AllJobs
      BY <3>1, <3>3 DEF BindingJobs, AllJobs
    <3>6. j.op = "check" /\ j.name = n /\ j.entry.ref = 0 /\ j.old = 0
      BY <3>1, <3>3 DEF BindingJobs
    <3>7. job[h].op # "persist" /\ n \notin OAuthNames
      BY <3>4, JobTypes, NamesAssumption
    <3> HIDE DEF j
    <3>8. \A t \in Tokens : t \notin TokensOf(j)
      BY <2>n, <3>6 DEF TokensOf
    <3> QED
      BY <2>d, <3>4, <3>5, <3>6, <3>7, <3>8
  <2>11. ASSUME NEW h \in Handlers, NEW n \in KeyNames, RebindBinding(h, n) PROVE TokenInv'
    <3> DEFINE i == issued + 1
               b == Job("put", n)
               e == [mem[n] EXCEPT !.acc = i]
               j == [b EXCEPT !.entry = e]
    <3>1. b \in BindingJobs /\ b.op = "put" /\ b.name = n /\ b.old = 0
      BY JobTypes DEF Names, BindingOps, Job
    <3>2. i \in Tokens /\ mem[n] \in Entries
      BY <2>11, <2>j, BoundsAssumption DEF RebindBinding, Tokens, Names
    <3>3. e \in Entries /\ e.ref = mem[n].ref
      BY <3>2 DEF Entries
    <3>4. /\ stale' = stale /\ job[h] = Idle /\ issued' = issued + 1 /\ Get(n) = mem[n]
          /\ Goto(h, [b EXCEPT !.entry = [Get(n) EXCEPT !.acc = i]])
          /\ UNCHANGED <<vault, mem, file, live, burnt, clobbered, lagged>>
      BY <2>11 DEF RebindBinding, Starts, Get, List, Names, secrets, history
    <3> HIDE DEF b, e
    <3>5. j \in AllJobs
      BY <3>1, <3>3 DEF BindingJobs, AllJobs
    <3>6. j.op = "put" /\ j.name = n /\ j.entry = e /\ j.old = 0
      BY <3>1, <3>3 DEF BindingJobs
    <3>7. job[h].op # "persist" /\ n \notin OAuthNames
      BY <3>4, JobTypes, NamesAssumption
    <3>8. Goto(h, j)
      BY <3>4 DEF e
    <3> HIDE DEF j
    <3>9. \A t \in Tokens : t \in TokensOf(j) => Stores(j.name, t)
      BY <2>n, <3>3, <3>6 DEF TokensOf, Stores, BindingOps
    <3> QED
      BY <2>d, <3>4, <3>5, <3>6, <3>7, <3>8, <3>9
  <2>12. ASSUME NEW h \in Handlers, CheckCreate(h) PROVE TokenInv'
    <3>1. CASE Return(h)
      BY <2>12, <2>r, <3>1 DEF CheckCreate
    <3>2. CASE ~Return(h)
      <4> DEFINE j == [job[h] EXCEPT !.op = "put"]
      <4>1. job[h] \in BindingJobs /\ job[h].op = "check"
        BY <2>12, <2>j, JobTypes DEF CheckCreate, BindingOps
      <4>2. j.op = "put" /\ j.name = job[h].name /\ j.entry = job[h].entry /\ j.old = job[h].old
        BY <4>1 DEF BindingJobs
      <4>3. j \in AllJobs
        BY <4>1 DEF BindingJobs, BindingOps, AllJobs
      <4>4. /\ Goto(h, j) /\ stale' = stale
            /\ UNCHANGED <<vault, mem, file, live, burnt, clobbered, lagged, issued>>
        BY <2>12, <3>2 DEF CheckCreate, secrets, provider, history
      <4>5. job[h].old = 0
        BY <4>1 DEF TokenInv, OwnInv, OwnOK
      <4> HIDE DEF j
      <4>6. TokensOf(j) = TokensOf(job[h])
        BY <4>1, <4>2 DEF TokensOf, BindingOps
      <4>7. \A t \in Tokens : t \in TokensOf(j) => Holds(h, t)
        BY <4>6 DEF Holds
      <4> QED
        BY <2>d, <4>1, <4>2, <4>3, <4>4, <4>5, <4>7
    <3> QED
      BY <3>1, <3>2
  <2>13. ASSUME NEW h \in Handlers, PutBinding(h) PROVE TokenInv'
    <3>0. PICK n, e : n = job[h].name /\ e = job[h].entry
      OBVIOUS
    <3>1. job[h].op \in {"put", "upsert"}
      BY <2>13 DEF PutBinding
    <3>2. n \in Names /\ e \in Entries /\ job[h].op \in BindingOps
      BY <2>j, <3>0, <3>1, JobTypes DEF BindingOps
    <3>3. /\ Store(h, n, e) /\ Goto(h, Idle)
          /\ clobbered' = (clobbered \ {n}) \cup {m \in {n} : <<h, m>> \in stale}
          /\ lagged' = lagged \ {n}
          /\ UNCHANGED <<vault, issued, live, burnt>>
          /\ Flushed \/ FlushFails(n)
      BY <2>13, <3>0 DEF PutBinding, provider
    <3>4. Holds(h, e.ref)
      BY <3>0, <3>2 DEF Holds, TokensOf
    <3>5. n \in OAuthNames => e.ref = 0 \/ e.ref \in live \cup burnt
      BY <3>0, <3>1 DEF TokenInv, OwnInv, OwnOK
    <3>6. TokensOf(Idle) = {} /\ Idle.op = "idle"
      BY DEF TokensOf, Idle, BindingOps
    <3>7. \A m \in Names \ {n} : m \notin clobbered' \cup lagged' => m \notin clobbered \cup lagged
      BY <3>3
    <3> QED
      BY <2>w, <3>0, <3>2, <3>3, <3>4, <3>5, <3>6, <3>7
  <2>14. ASSUME NEW h \in Handlers, NEW n \in Names, RevokeBinding(h, n) PROVE TokenInv'
    <3> DEFINE j == Job("delete", n)
    <3>1. j \in AllJobs /\ j.op = "delete" /\ j.entry.ref = 0 /\ j.old = 0
      BY JobTypes DEF AllJobs, BindingOps, Job, NoEntry
    <3>2. /\ Goto(h, j) /\ stale' = stale /\ job[h] = Idle
          /\ UNCHANGED <<vault, mem, file, live, burnt, clobbered, lagged, issued>>
      BY <2>14 DEF RevokeBinding, Starts, secrets, provider, history
    <3>3. job[h].op # "persist"
      BY <3>2, JobTypes
    <3> HIDE DEF j
    <3>4. \A t \in Tokens : t \notin TokensOf(j)
      BY <2>n, <3>1 DEF TokensOf
    <3> QED
      BY <2>d, <3>1, <3>2, <3>3, <3>4
  <2>15. ASSUME NEW h \in Handlers, DeleteBinding(h) PROVE TokenInv'
    <3>0. PICK n : n = job[h].name
      OBVIOUS
    <3>1. job[h].op \in BindingOps /\ n \in Names /\ NoEntry \in Entries /\ NoEntry.ref = 0
      BY <2>15, <2>j, <3>0, JobTypes DEF DeleteBinding, BindingOps, NoEntry
    <3>2. /\ Store(h, n, NoEntry) /\ Goto(h, Idle)
          /\ clobbered' = clobbered \ {n} /\ lagged' = lagged \ {n}
          /\ UNCHANGED <<vault, issued, live, burnt>>
          /\ Flushed \/ FlushFails(n)
      BY <2>15, <3>0 DEF DeleteBinding, provider
    <3>3. TokensOf(Idle) = {} /\ Idle.op = "idle"
      BY DEF TokensOf, Idle, BindingOps
    <3>4. \A m \in Names \ {n} : m \notin clobbered' \cup lagged' => m \notin clobbered \cup lagged
      BY <3>2
    <3> HIDE DEF NoEntry, Idle
    <3> QED
      BY <2>n, <2>w, <3>0, <3>1, <3>2, <3>3, <3>4
  <2>16. ASSUME NEW h \in Handlers, NEW req \in SUBSET Scopes, InstallConnector(h, req) PROVE TokenInv'
    <3> DEFINE snap == [n \in OAuthNames |-> List[n]]
               j == DriftJob(snap, req)
    <3>1. \A n \in OAuthNames : List[n] \in Entries
      BY <2>j, JobTypes DEF List
    <3>2. snap \in Snaps
      BY <3>1 DEF Snaps
    <3>3. /\ Goto(h, j) /\ stale' = stale /\ job[h] = Idle
          /\ UNCHANGED <<vault, mem, file, live, burnt, clobbered, lagged, issued>>
      BY <2>16 DEF InstallConnector, secrets, provider, history
    <3> HIDE DEF snap
    <3>4. j \in AllJobs /\ j.op = "drift"
      BY <3>2, JobTypes DEF AllJobs
    <3>5. job[h].op # "persist"
      BY <3>3, JobTypes
    <3> HIDE DEF j
    <3>6. TokensOf(j) = {}
      BY <3>4 DEF TokensOf, BindingOps
    <3> QED
      BY <2>d, <3>3, <3>4, <3>5, <3>6
  <2>17. ASSUME NEW h \in Handlers, NEW n \in OAuthNames, UpdateMetadata(h, n) PROVE TokenInv'
    <3> DEFINE rest == [job[h].snap EXCEPT ![n] = NoEntry]
               new == EvaluateScopeDrift(job[h].snap[n], job[h].req)
               upd == [new EXCEPT !.acc = mem[n].acc, !.ref = mem[n].ref]
               j1 == DriftJob(rest, job[h].req)
               j2 == DriftPutJob(rest, job[h].req, n, upd)
    <3>1. /\ job[h].snap \in Snaps /\ job[h].req \in SUBSET Scopes /\ mem[n] \in Entries
          /\ job[h].op = "drift" /\ NoEntry \in Entries
      BY <2>17, <2>j, JobTypes DEF UpdateMetadata
    <3>2. rest \in Snaps /\ job[h].snap[n] \in Entries
      BY <3>1 DEF Snaps
    <3>3. new \in Entries
      BY <3>1, <3>2, EntryTypes, JobTypes
    <3>4. /\ Goto(h, j1) \/ Goto(h, j2)
          /\ UNCHANGED <<vault, mem, file, live, burnt, clobbered, lagged, issued, stale>>
      BY <2>17 DEF UpdateMetadata, secrets, provider, history
    <3> HIDE DEF rest, new
    <3>5. upd \in Entries /\ upd.ref = mem[n].ref
      BY <3>1, <3>3 DEF Entries
    <3> HIDE DEF upd
    <3>6. /\ j1 \in AllJobs /\ j1.op = "drift"
          /\ j2 \in AllJobs /\ j2.op = "drift_put" /\ j2.name = n /\ j2.entry = upd
      <4>1. j1 \in DriftJobs /\ j1.op = "drift"
        BY <3>1, <3>2 DEF DriftJob, DriftJobs
      <4>2. j2 \in DriftPutJobs /\ j2.op = "drift_put" /\ j2.name = n /\ j2.entry = upd
        BY <3>1, <3>2, <3>5 DEF DriftPutJob, DriftPutJobs
      <4> QED
        BY <4>1, <4>2 DEF AllJobs
    <3> HIDE DEF j1, j2
    <3>7. TokensOf(j1) = {} /\ TokensOf(j2) = {upd.ref}
      BY <3>6 DEF TokensOf, BindingOps
    <3>8. \A t \in Tokens : t \in TokensOf(j2) => Stores(j2.name, t)
      BY <3>5, <3>6, <3>7 DEF Stores
    <3>9. CASE Goto(h, j1)
      BY <2>d, <3>1, <3>4, <3>6, <3>7, <3>9
    <3>10. CASE Goto(h, j2)
      BY <2>d, <3>1, <3>4, <3>6, <3>8, <3>10
    <3> QED
      BY <3>4, <3>9, <3>10
  <2>18. ASSUME NEW h \in Handlers, PutMetadata(h) PROVE TokenInv'
    <3>0. PICK n, e : n = job[h].name /\ e = job[h].entry
      OBVIOUS
    <3> DEFINE j == DriftJob(job[h].snap, job[h].req)
    <3>1. job[h].op = "drift_put" /\ n \in OAuthNames /\ n \in Names /\ e \in Entries
      BY <2>18, <2>j, <3>0, JobTypes DEF PutMetadata
    <3>2. /\ Store(h, n, e) /\ Goto(h, j) /\ clobbered' = clobbered \cup {m \in {n} : <<h, m>> \in stale}
          /\ UNCHANGED <<vault, issued, live, burnt, lagged>>
          /\ Flushed \/ FlushFails(n)
      BY <2>18, <3>0 DEF PutMetadata, WrittenBack, provider
    <3>3. Holds(h, e.ref)
      BY <3>0, <3>1 DEF Holds, TokensOf, BindingOps
    <3>4. ASSUME n \notin clobbered' \cup lagged'
          PROVE  e.ref = 0 \/ e.ref \in live \cup burnt \/ \E k \in Handlers \ {h} : Replaces(k, n, e.ref)
      <4>1. n \in OAuthNames \ (clobbered \cup lagged) /\ <<h, n>> \notin stale
        BY <3>1, <3>2, <3>4
      <4>2. KeptOK(n)
        BY <4>1 DEF TokenInv, GoodInv
      <4>3. e.ref = mem[n].ref
        BY <3>0, <3>1, <4>1 DEF BindingInv, FreshInv, Fresh
      <4>4. Kept(n) = mem[n]
        BY <2>v, <3>1 DEF Kept
      <4> QED
        BY <3>1, <4>2, <4>3, <4>4 DEF KeptOK, Replaces
    <3>5. TokensOf(j) = {} /\ j.op = "drift"
      BY DEF TokensOf, DriftJob, BindingOps
    <3> HIDE DEF j
    <3> QED
      BY <2>w, <3>0, <3>1, <3>2, <3>3, <3>4, <3>5
  <2>19. ASSUME NEW h \in Handlers, DriftDone(h) PROVE TokenInv'
    BY <2>19, <2>r DEF DriftDone
  <2>20. ASSUME NEW s \in Sessions, NEW n \in OAuthNames, NEW mode \in {"create", "reauthorize"}, InitOAuth2Binding(s, n, mode) PROVE TokenInv'
    BY <2>20, <2>u DEF InitOAuth2Binding, provider
  <2>21. ASSUME NEW s \in Sessions, RejectCallback(s) PROVE TokenInv'
    BY <2>21, <2>u DEF RejectCallback, provider
  <2>22. ASSUME NEW n \in OAuthNames, Expire(n) PROVE TokenInv'
    BY <2>22, <2>u DEF Expire
  <2>23. ASSUME UnlockLocalVault PROVE TokenInv'
    <3>1. /\ vault # "open" /\ vault' = "open" /\ mem' = file
          /\ UNCHANGED <<file, job, issued, live, burnt, stale, clobbered, lagged>>
      BY <2>23 DEF UnlockLocalVault, Unlock, NewFileVault, provider, history
    <3>2. \A n, t : (Stores(n, t)' => Stores(n, t)) /\ \A h : Holds(h, t)' = Holds(h, t)
      BY <3>1 DEF Stores, Holds
    <3>3. HolderInv'
      <4>1. \A n \in Names, t \in Tokens : Known(n, t)' => Known(n, t)
        BY <3>1, <3>2 DEF Known
      <4> QED
        BY <3>1, <4>1 DEF TokenInv, HolderInv
    <3>4. OwnInv'
      BY <3>1, <3>2 DEF TokenInv, OwnInv, OwnOK
    <3>5. \A n : Kept(n)' = Kept(n)
      BY <3>1 DEF Kept
    <3>6. GoodInv'
      BY <3>1, <3>5 DEF TokenInv, GoodInv, GoodOK, KeptOK, Replaces
    <3> QED
      BY <3>3, <3>4, <3>6 DEF TokenInv
  <2>24. ASSUME Crash PROVE TokenInv'
    <3>1. \A h \in Handlers : job'[h] = Idle
      BY <2>24 DEF Crash
    <3>2. \A n \in Names : mem'[n] = NoEntry /\ file'[n] = file[n]
      BY <2>24 DEF Crash
    <3>3. /\ vault' # "open" /\ issued' = issued /\ live' = live
          /\ lagged' = lagged \cup unsaved /\ clobbered' = clobbered
          /\ \A h \in Handlers : job[h].op = "persist" => job[h].old \in burnt'
          /\ burnt \subseteq burnt'
      BY <2>24 DEF Crash, provider
    <3>4. \A h \in Handlers : \A t : ~Holds(h, t)'
      BY <3>1 DEF Holds, TokensOf, Idle, BindingOps
    <3>5. \A n \in Names, t \in Tokens : Stores(n, t)' => Stores(n, t)
      BY <2>n, <3>2 DEF Stores, NoEntry
    <3>6. HolderInv'
      <4>1. \A n \in Names, t \in Tokens : Known(n, t)' => Known(n, t)
        BY <3>4, <3>5 DEF Known
      <4> QED
        BY <3>3, <4>1 DEF TokenInv, HolderInv
    <3>7. OwnInv' /\ \A h \in Handlers : GoodOK(h)'
      BY <3>1 DEF OwnInv, OwnOK, GoodOK, Idle
    <3>8. ASSUME NEW n \in OAuthNames \ (clobbered' \cup lagged') PROVE KeptOK(n)'
      <4>1. n \in OAuthNames \ (clobbered \cup lagged) /\ n \notin unsaved
        BY <3>3, <3>8
      <4>2. KeptOK(n)
        BY <4>1 DEF TokenInv, GoodInv
      <4>3. Kept(n)' = Kept(n)
        BY <2>j, <3>2, <3>3, <4>1 DEF Kept, BindingInv, FileInv
      <4> QED
        BY <3>3, <4>2, <4>3 DEF KeptOK, Replaces
    <3> QED
      BY <3>6, <3>7, <3>8 DEF TokenInv, GoodInv
  <2>25. ASSUME Restart PROVE TokenInv'
    <3>1. /\ vault # "open" /\ vault' # "open"
          /\ UNCHANGED <<mem, file, job, issued, live, burnt, stale, clobbered, lagged>>
      BY <2>25 DEF Restart, secrets, provider, history
    <3>2. HolderInv'
      BY <3>1 DEF TokenInv, HolderInv, Known, Stores, Holds
    <3>3. OwnInv'
      BY <3>1 DEF TokenInv, OwnInv, OwnOK, Stores, Holds
    <3>4. \A n : Kept(n)' = Kept(n)
      BY <3>1 DEF Kept
    <3>5. GoodInv'
      BY <3>1, <3>4 DEF TokenInv, GoodInv, GoodOK, KeptOK, Replaces
    <3> QED
      BY <3>2, <3>3, <3>5 DEF TokenInv
  <2>26. CASE UNCHANGED vars
    BY <2>26, <2>u DEF vars, provider
  <2> QED
    BY <2>1, <2>2, <2>3, <2>4, <2>5, <2>6, <2>7, <2>8, <2>9, <2>10, <2>11, <2>12, <2>13, <2>14, <2>15, <2>16, <2>17, <2>18, <2>19, <2>20, <2>21, <2>22, <2>23, <2>24, <2>25, <2>26
    DEF Next, Resolver, Bind, Drift, FinishOAuth2Binding, Oauth2BindingCallback
<1> QED
  BY <1>1, <1>2, <1>5, <1>6, PTL DEF Spec

-----------------------------------------------------------------------------
(* The theorems.                                                           *)

(* Type correctness of vault, sessions, handlers and provider. *)
THEOREM TypeCorrect == Spec => []TypeOK
<1>1. BindingInv => TypeOK
  BY DEF BindingInv
<1> QED
  BY <1>1, BindingInvariant, PTL

(* A binding whose revocation was acknowledged comes back only by a new    *)
(* consent or key, by the late write of a handler that read it before, or  *)
(* with a file that could not be written.                                  *)
THEOREM RevokedStays == Spec => []RevokedStaysRevoked
<1>1. BindingInv => RevokedStaysRevoked
  BY DEF BindingInv, OutcomeInv, Kept, RevokedStaysRevoked
<1> QED
  BY <1>1, BindingInvariant, PTL

(* No refresh that read the binding after the drift hook marked it lifts   *)
(* the mark, and no restart that finds every write in the file does.  The  *)
(* late write of a handler that read it before another's, and a restart    *)
(* after a failed write, may lift it and are exempt.                       *)
THEOREM MarkSurvives == Spec => []MarkSurvivesRefresh
<1>1. BindingInv => MarkSurvivesRefresh
  BY DEF BindingInv, OutcomeInv, Kept, MarkSurvivesRefresh
<1> QED
  BY <1>1, BindingInvariant, PTL

(* The refresh token in the vault is one the provider accepts, or a        *)
(* handler is about to store its replacement: whatever refreshes,          *)
(* consents, drift marks and crashes interleave, a binding is left with a  *)
(* spent token only if the replacement was lost on the way, a handler      *)
(* wrote back what it had read before another's write, or a restart        *)
(* brought back an older file.                                             *)
THEOREM StoredTokenLive == Spec => []StoredTokenIsLive
<1>1. TokenInv => StoredTokenIsLive
  BY DEF TokenInv, GoodInv, KeptOK, Kept, Replaces, Replacing, StoredTokenIsLive
<1> QED
  BY <1>1, BindingInvariant, PTL
=============================================================================
