---------------------------- MODULE OAuthBindings ----------------------------
(***************************************************************************)
(* Credential bindings and the vault they live in: VaultStore over the     *)
(* file vault, the binding handlers, the OAuth sessions, the resolver that *)
(* refreshes access tokens, and the scope-drift hook of connector          *)
(* installs.  Every vault call is a step of its own: the vault's mutex     *)
(* covers one call, and nothing covers a handler's read and its later      *)
(* write.  The provider's token endpoint is external.                      *)
(***************************************************************************)
EXTENDS Naturals, FiniteSets

CONSTANTS OAuthNames,   \* oauth2 bindings of one connector
          KeyNames,     \* api_key and aws_sigv4 bindings
          Scopes,       \* scopes the connector's manifest may demand
          Handlers,     \* request goroutines
          Sessions,     \* places for OAuth sessions; a new session may follow a spent one
          MaxTokens,    \* credentials issued: consents, refreshes, keys typed in
          MaxInstalls,  \* connector versions installed
          MaxCrashes,
          MaxFaults     \* vault writes and token responses that fail

ASSUME NamesAssumption == OAuthNames \cap KeyNames = {}
ASSUME BoundsAssumption ==
  MaxTokens \in Nat /\ MaxInstalls \in Nat /\ MaxCrashes \in Nat /\ MaxFaults \in Nat

Names == OAuthNames \cup KeyNames

VARIABLES
  vault,      \* "down", "locked" or "open"
  mem,        \* FileVault.data.Secrets, per name
  file,       \* the file's secrets, as of the last complete write
  torn,       \* the file does not parse
  required,   \* scopes of the installed manifest
  session,    \* oauth2Sessions
  job,        \* what each handler is doing, with its locals
  issued,     \* credentials issued so far
  live,       \* refresh tokens the provider accepts
  expired,    \* access tokens past their expiry less the leeway
  stale,      \* handler and name: the name was written since the handler read it
  clobbered,  \* names last written by a stale handler
  unsaved,    \* names whose last write did not reach the file
  burnt,      \* refresh tokens whose replacement was lost
  lagged,     \* names a restart set back to an older entry
  revoked,    \* names whose revocation was acknowledged
  marked,     \* names the drift hook left stale
  installs, crashes, faults

secrets == <<mem, file, torn>>
provider == <<issued, live, expired>>
history == <<unsaved, clobbered, lagged, revoked, marked>>
bounds == <<installs, crashes, faults>>
vars == <<vault, secrets, required, session, job, provider, stale, burnt, history, bounds>>

Tokens == 1..MaxTokens
Reasons == {"none", "active", "no_grant_record", "scope_drift"}

(* A vault entry: the envelope's access and refresh token (0: none), and   *)
(* the metadata: status with its reason, granted and missing scopes.       *)
Entries == [acc : Tokens \cup {0}, ref : Tokens \cup {0}, status : Reasons,
            granted : SUBSET Scopes, missing : SUBSET Scopes]

Entry(acc, ref, granted) ==
  [acc |-> acc, ref |-> ref, status |-> "active", granted |-> granted, missing |-> {}]

NoEntry == [acc |-> 0, ref |-> 0, status |-> "none", granted |-> {}, missing |-> {}]

NoSession == [mode |-> "none"]
Idle == [op |-> "idle"]

Job(op, n) == [op |-> op, name |-> n, entry |-> NoEntry, old |-> 0, create |-> FALSE]
DriftJob(snap, req) == [op |-> "drift", snap |-> snap, req |-> req]
DriftPutJob(snap, req, n, e) ==
  [op |-> "drift_put", snap |-> snap, req |-> req, name |-> n, entry |-> e]

Sess == [mode : {"create", "reauthorize"}, name : OAuthNames, scopes : SUBSET Scopes]
Snaps == [OAuthNames -> Entries]

BindingOps == {"read_token", "refresh", "persist", "exchange", "check", "put", "upsert", "delete"}
BindingJobs == [op : BindingOps, name : Names, entry : Entries, old : Tokens \cup {0},
                create : BOOLEAN]
DriftJobs == [op : {"drift"}, snap : Snaps, req : SUBSET Scopes]
DriftPutJobs == [op : {"drift_put"}, snap : Snaps, req : SUBSET Scopes, name : OAuthNames,
                 entry : Entries]

TypeOK ==
  /\ vault \in {"down", "locked", "open"}
  /\ mem \in [Names -> Entries]
  /\ file \in [Names -> Entries]
  /\ torn \in BOOLEAN
  /\ required \in SUBSET Scopes
  /\ session \in [Sessions -> Sess \cup {NoSession}]
  /\ job \in [Handlers -> {Idle} \cup BindingJobs \cup DriftJobs \cup DriftPutJobs]
  /\ issued \in 0..MaxTokens
  /\ live \in SUBSET Tokens /\ expired \in SUBSET Tokens
  /\ stale \in SUBSET (Handlers \X Names)
  /\ burnt \in SUBSET Tokens
  /\ unsaved \in SUBSET Names /\ clobbered \in SUBSET Names /\ lagged \in SUBSET Names
  /\ revoked \in SUBSET Names /\ marked \in SUBSET Names
  /\ installs \in 0..MaxInstalls /\ crashes \in 0..MaxCrashes /\ faults \in 0..MaxFaults

Init ==
  /\ vault = "locked"
  /\ mem = [n \in Names |-> NoEntry] /\ file = mem /\ torn = FALSE
  /\ required \in SUBSET Scopes
  /\ session = [s \in Sessions |-> NoSession]
  /\ job = [h \in Handlers |-> Idle]
  /\ issued = 0 /\ live = {} /\ expired = {}
  /\ stale = {} /\ burnt = {}
  /\ unsaved = {} /\ clobbered = {} /\ lagged = {} /\ revoked = {} /\ marked = {}
  /\ installs = 0 /\ crashes = 0 /\ faults = 0

-----------------------------------------------------------------------------
(* The file vault.                                                         *)

(* h has read n and may yet write it. *)
HasRead(h, n) ==
  \/ job[h].op \in {"refresh", "persist", "put", "delete"} /\ job[h].name = n
  \/ job[h].op \in {"drift", "drift_put"} /\ n \in OAuthNames /\ job[h].snap[n] # NoEntry
  \/ job[h].op = "drift_put" /\ job[h].name = n

(* flush: the whole file is rewritten in place.  A write that fails leaves *)
(* the old file or a truncated one; one cut off by a crash is a failed     *)
(* write followed by a crash.                                              *)
Flushed == file' = mem' /\ torn' = FALSE /\ unsaved' = {} /\ UNCHANGED faults

FlushFails(n) ==
  /\ faults < MaxFaults
  /\ faults' = faults + 1
  /\ UNCHANGED file
  /\ torn' \in {torn, TRUE}
  /\ unsaved' = unsaved \cup {n}

(* FileVault.Put and Delete by handler h: the map, then the file. *)
Store(h, n, e) ==
  /\ mem' = [mem EXCEPT ![n] = e]
  /\ stale' = (stale \ {<<h, n>>}) \cup {<<g, n>> : g \in {k \in Handlers \ {h} : HasRead(k, n)}}

(* n is written by h after a read: it is clobbered if another write came   *)
(* in between.                                                             *)
WrittenBack(h, n) == clobbered' = clobbered \cup {m \in {n} : <<h, m>> \in stale}

Goto(h, j) == job' = [job EXCEPT ![h] = j]

(* The handler ends without a write. *)
Return(h) ==
  /\ Goto(h, Idle)
  /\ stale' = {p \in stale : p[1] # h}

Starts(h) == vault = "open" /\ job[h] = Idle

(* LockableVault lists nothing while the vault is locked. *)
List == [n \in Names |-> IF vault = "open" THEN mem[n] ELSE NoEntry]

(* VaultStore.Get. *)
Get(n) == List[n]

(* The file is read into memory, if it parses. *)
NewFileVault == ~torn /\ mem' = file

(* vault.Unlock with the right passphrase; a wrong one changes nothing. *)
Unlock == NewFileVault

UnlockLocalVault ==
  /\ vault = "locked"
  /\ vault' = "open"
  /\ Unlock
  /\ UNCHANGED <<file, torn, required, session, job, provider, stale, burnt, history,
                 bounds>>

-----------------------------------------------------------------------------
(* OAuth sessions.                                                         *)

(* InitOAuth2Binding; reauthorize needs a binding, and a locked vault      *)
(* lists none.                                                             *)
InitOAuth2Binding(s, n, mode) ==
  /\ vault # "down"
  /\ session[s] = NoSession
  /\ mode = "reauthorize" => Get(n) # NoEntry
  /\ session' = [session EXCEPT ![s] = [mode |-> mode, name |-> n, scopes |-> required]]
  /\ UNCHANGED <<vault, secrets, required, job, provider, stale, burnt, history, bounds>>

(* oauth2Sessions.take and takeByState. *)
Take(s) ==
  /\ session[s] # NoSession
  /\ session' = [session EXCEPT ![s] = NoSession]

(* What both ends of a consent do up to the exchange. *)
CompleteConsent(h, s) ==
  /\ Starts(h)
  /\ Take(s)
  /\ Goto(h, [Job("exchange", session[s].name) EXCEPT
                !.create = session[s].mode = "create", !.entry.granted = session[s].scopes])
  /\ UNCHANGED <<vault, secrets, required, provider, stale, burnt, history, bounds>>

(* The CLI brings the code back; the browser does. *)
FinishOAuth2Binding(h, s) == CompleteConsent(h, s)
Oauth2BindingCallback(h, s) == CompleteConsent(h, s)

(* The session is taken and ends there: it expired, the state differs, the *)
(* provider reports an error, or the browser opened a session of the CLI.  *)
RejectCallback(s) ==
  /\ vault = "open"
  /\ Take(s)
  /\ UNCHANGED <<vault, secrets, required, job, provider, stale, burnt, history, bounds>>

(* exchangeOAuth2Code: the provider answers with or without a refresh      *)
(* token, and grants what was asked or what it says.                       *)
ExchangeOAuth2Code(h, refresh, granted) ==
  /\ job[h].op = "exchange"
  /\ issued < MaxTokens
  /\ granted # {} \/ granted = job[h].entry.granted
  /\ LET i == issued + 1
         t == IF refresh THEN i ELSE 0 IN
     /\ issued' = i
     /\ live' = IF refresh THEN live \cup {i} ELSE live
     /\ Goto(h, [job[h] EXCEPT !.op = IF job[h].create THEN "check" ELSE "upsert",
                               !.entry = Entry(i, t, granted)])
  /\ UNCHANGED <<vault, secrets, required, session, expired, stale, burnt, history, bounds>>

ExchangeFails(h) ==
  /\ job[h].op = "exchange"
  /\ Return(h)
  /\ UNCHANGED <<vault, secrets, required, session, provider, burnt, history, bounds>>

-----------------------------------------------------------------------------
(* Binding handlers over VaultStore.                                       *)

(* SetupBindings, one item: the user typed a key in. *)
SetupBinding(h, n) ==
  /\ Starts(h)
  /\ issued < MaxTokens
  /\ issued' = issued + 1
  /\ Goto(h, [Job("check", n) EXCEPT !.entry = Entry(issued + 1, 0, {}), !.create = TRUE])
  /\ UNCHANGED <<vault, secrets, required, session, live, expired, stale, burnt, history,
                 bounds>>

(* VaultStore.Put in PutCreate mode, the check: ErrAlreadyExists. *)
CheckCreate(h) ==
  /\ job[h].op = "check"
  /\ IF Get(job[h].name) = NoEntry
     THEN Goto(h, [job[h] EXCEPT !.op = "put"]) /\ UNCHANGED stale
     ELSE Return(h)
  /\ UNCHANGED <<vault, secrets, required, session, provider, burnt, history, bounds>>

(* RebindBinding: a new key under the metadata that was read. *)
RebindBinding(h, n) ==
  /\ Starts(h)
  /\ Get(n) # NoEntry
  /\ issued < MaxTokens
  /\ issued' = issued + 1
  /\ Goto(h, [Job("put", n) EXCEPT !.entry = [Get(n) EXCEPT !.acc = issued + 1]])
  /\ UNCHANGED <<vault, secrets, required, session, live, expired, stale, burnt, history,
                 bounds>>

(* The write of a create, a reauthorization or a rebind. *)
PutBinding(h) ==
  LET n == job[h].name IN
  /\ job[h].op \in {"put", "upsert"}
  /\ Store(h, n, job[h].entry)
  /\ Goto(h, Idle)
  /\ Flushed \/ FlushFails(n)
  /\ clobbered' = (clobbered \ {n}) \cup {m \in {n} : <<h, m>> \in stale}
  /\ revoked' = IF <<h, n>> \in stale THEN revoked ELSE revoked \ {n}
  /\ marked' = marked \ {n}
  /\ lagged' = lagged \ {n}
  /\ UNCHANGED <<vault, required, session, provider, burnt, installs, crashes>>

(* RevokeBinding: VaultStore.Delete reads, then deletes. *)
RevokeBinding(h, n) ==
  /\ Starts(h)
  /\ Get(n) # NoEntry
  /\ Goto(h, Job("delete", n))
  /\ UNCHANGED <<vault, secrets, required, session, provider, stale, burnt, history, bounds>>

(* Mutant of DeleteBinding: the deletion stays in memory. *)
DeleteNotFlushed(h) ==
  LET n == job[h].name IN
  /\ job[h].op = "delete"
  /\ Store(h, n, NoEntry)
  /\ Goto(h, Idle)
  /\ revoked' = revoked \cup {n}
  /\ clobbered' = clobbered \ {n}
  /\ marked' = marked \ {n}
  /\ lagged' = lagged \ {n}
  /\ UNCHANGED <<vault, file, torn, unsaved, required, session, provider, burnt, bounds>>

DeleteBinding(h) ==
  LET n == job[h].name IN
  /\ job[h].op = "delete"
  /\ Store(h, n, NoEntry)
  /\ Goto(h, Idle)
  /\ \/ Flushed /\ revoked' = revoked \cup {n}
     \/ FlushFails(n) /\ UNCHANGED revoked
  /\ clobbered' = clobbered \ {n}
  /\ marked' = marked \ {n}
  /\ lagged' = lagged \ {n}
  /\ UNCHANGED <<vault, required, session, provider, burnt, installs, crashes>>

-----------------------------------------------------------------------------
(* OAuth2VaultResolver.                                                    *)

(* VaultStore.Resolve: none is an error, and so is more than one. *)
Candidates == {m \in OAuthNames : List[m] # NoEntry}

(* VaultStore.ResolverFor. *)
ResolverFor(h, n) ==
  /\ Starts(h)
  /\ Candidates = {n}
  /\ Goto(h, Job("read_token", n))
  /\ UNCHANGED <<vault, secrets, required, session, provider, stale, burnt, history, bounds>>

ShouldRefresh(e) == e.acc \in expired /\ e.ref # 0

(* Resolve's Get; an access token that is still good is returned. *)
Resolve(h) ==
  LET e == mem[job[h].name] IN
  /\ job[h].op = "read_token"
  /\ IF ShouldRefresh(e)
     THEN Goto(h, [job[h] EXCEPT !.op = "refresh", !.entry = e, !.old = e.ref]) /\ UNCHANGED stale
     ELSE Return(h)
  /\ UNCHANGED <<vault, secrets, required, session, provider, burnt, history, bounds>>

(* Mutants of NewRefresh: the rotated token is dropped; it is misread. *)
KeepsOldRefresh(rotated, i, t) == t
MisreadsRefresh(rotated, i, t) == IF rotated THEN i + 1 ELSE t

(* The refresh token to keep, with and without rotation. *)
NewRefresh(rotated, i, t) == IF rotated THEN i ELSE t

(* Mutant of Refreshed: the binding's metadata starts afresh. *)
RefreshedAfresh(e, i, t) == Entry(i, t, e.granted)

(* The envelope to persist, under the metadata that was read. *)
Refreshed(e, i, t) == [e EXCEPT !.acc = i, !.ref = t]

(* refresh: the provider may rotate the refresh token, and may omit the    *)
(* lifetime, in which case the old expiry stays.                           *)
Refresh(h, rotated, dated) ==
  LET t == job[h].old
      i == issued + 1 IN
  /\ job[h].op = "refresh"
  /\ t \in live
  /\ issued < MaxTokens
  /\ issued' = i
  /\ live' = IF rotated THEN (live \ {t}) \cup {i} ELSE live
  /\ expired' = IF dated THEN expired ELSE expired \cup {i}
  /\ Goto(h, [job[h] EXCEPT !.op = "persist",
                            !.entry = Refreshed(@, i, NewRefresh(rotated, i, t))])
  /\ UNCHANGED <<vault, secrets, required, session, stale, burnt, history, bounds>>

(* The provider refuses a token it no longer accepts, or is not reached. *)
RefreshFails(h) ==
  /\ job[h].op = "refresh"
  /\ Return(h)
  /\ UNCHANGED <<vault, secrets, required, session, provider, burnt, history, bounds>>

(* The provider rotates and its answer is lost or cannot be parsed. *)
AnswerLost(h) ==
  /\ job[h].op = "refresh"
  /\ job[h].old \in live
  /\ issued < MaxTokens
  /\ faults < MaxFaults
  /\ faults' = faults + 1
  /\ issued' = issued + 1
  /\ live' = (live \ {job[h].old}) \cup {issued + 1}
  /\ burnt' = burnt \cup {job[h].old}
  /\ Return(h)
  /\ UNCHANGED <<vault, secrets, required, session, expired, history, installs, crashes>>

(* persist, whose error is dropped. *)
Persist(h) ==
  LET n == job[h].name IN
  /\ job[h].op = "persist"
  /\ Store(h, n, job[h].entry)
  /\ Goto(h, Idle)
  /\ Flushed \/ FlushFails(n)
  /\ WrittenBack(h, n)
  /\ UNCHANGED <<vault, required, session, provider, burnt, lagged, revoked, marked, installs, crashes>>

(* Time passes. *)
Expire(n) ==
  /\ mem[n].acc \in Tokens \ expired
  /\ expired' = expired \cup {mem[n].acc}
  /\ UNCHANGED <<vault, secrets, required, session, job, issued, live, stale, burnt, history,
                 bounds>>

-----------------------------------------------------------------------------
(* The scope-drift hook.                                                   *)

MissingScopes(req, granted) == req \ granted

EvaluateScopeDrift(e, req) ==
  LET missing == MissingScopes(req, e.granted) IN
  IF e.granted = {}
  THEN IF e.status = "no_grant_record" THEN e
       ELSE [e EXCEPT !.status = "no_grant_record", !.missing = {}]
  ELSE IF missing # {} THEN [e EXCEPT !.status = "scope_drift", !.missing = missing]
  ELSE [e EXCEPT !.status = "active", !.missing = {}]

(* A connector version with other scopes is installed; the hook lists the  *)
(* bindings, of which a locked vault shows none.                           *)
InstallConnector(h, req) ==
  /\ vault # "down" /\ job[h] = Idle
  /\ installs < MaxInstalls
  /\ installs' = installs + 1
  /\ required' = req
  /\ Goto(h, DriftJob([n \in OAuthNames |-> List[n]], req))
  /\ UNCHANGED <<vault, secrets, session, provider, stale, burnt, history, crashes, faults>>

(* One listed binding: nothing to change, or UpdateMetadata, which reads   *)
(* the secret's value again and finds it or not.                           *)
UpdateMetadata(h, n) ==
  LET e == job[h].snap[n]
      new == EvaluateScopeDrift(e, job[h].req)
      rest == [job[h].snap EXCEPT ![n] = NoEntry] IN
  /\ job[h].op = "drift"
  /\ e # NoEntry
  /\ Goto(h, IF new = e \/ mem[n] = NoEntry
             THEN DriftJob(rest, job[h].req)
             ELSE DriftPutJob(rest, job[h].req, n, [new EXCEPT !.acc = mem[n].acc, !.ref = mem[n].ref]))
  /\ UNCHANGED <<vault, secrets, required, session, provider, stale, burnt, history, bounds>>

PutMetadata(h) ==
  LET n == job[h].name IN
  /\ job[h].op = "drift_put"
  /\ Store(h, n, job[h].entry)
  /\ Goto(h, DriftJob(job[h].snap, job[h].req))
  /\ Flushed \/ FlushFails(n)
  /\ WrittenBack(h, n)
  /\ marked' = IF job[h].entry.status = "active" THEN marked \ {n} ELSE marked \cup {n}
  /\ UNCHANGED <<vault, required, session, provider, burnt, lagged, revoked, installs, crashes>>

DriftDone(h) ==
  /\ job[h].op = "drift"
  /\ \A n \in OAuthNames : job[h].snap[n] = NoEntry
  /\ Return(h)
  /\ UNCHANGED <<vault, secrets, required, session, provider, burnt, history, bounds>>

-----------------------------------------------------------------------------
(* The daemon stops or dies: memory, sessions and requests are gone. *)
Crash ==
  /\ vault # "down"
  /\ crashes < MaxCrashes
  /\ crashes' = crashes + 1
  /\ vault' = "down"
  /\ mem' = [n \in Names |-> NoEntry]
  /\ session' = [s \in Sessions |-> NoSession]
  /\ job' = [h \in Handlers |-> Idle]
  /\ stale' = {}
  /\ burnt' = burnt \cup {job[h].old : h \in {k \in Handlers : job[k].op = "persist"}}
  /\ lagged' = lagged \cup unsaved
  /\ unsaved' = {}
  /\ UNCHANGED <<file, torn, required, provider, clobbered, revoked, marked, installs, faults>>

Restart ==
  /\ vault = "down"
  /\ vault' = "locked"
  /\ UNCHANGED <<secrets, required, session, job, provider, stale, burnt, history, bounds>>

Resolver(h) ==
  \/ \E n \in OAuthNames : ResolverFor(h, n)
  \/ Resolve(h)
  \/ \E rotated, dated \in BOOLEAN : Refresh(h, rotated, dated)
  \/ RefreshFails(h) \/ AnswerLost(h)
  \/ Persist(h)

Bind(h) ==
  \/ \E s \in Sessions : FinishOAuth2Binding(h, s) \/ Oauth2BindingCallback(h, s)
  \/ \E refresh \in BOOLEAN, granted \in SUBSET Scopes : ExchangeOAuth2Code(h, refresh, granted)
  \/ ExchangeFails(h)
  \/ \E n \in KeyNames : SetupBinding(h, n) \/ RebindBinding(h, n)
  \/ CheckCreate(h) \/ PutBinding(h)
  \/ \E n \in Names : RevokeBinding(h, n)
  \/ DeleteBinding(h)

Drift(h) ==
  \/ \E req \in SUBSET Scopes : InstallConnector(h, req)
  \/ \E n \in OAuthNames : UpdateMetadata(h, n)
  \/ PutMetadata(h) \/ DriftDone(h)

Next ==
  \/ \E h \in Handlers : Resolver(h) \/ Bind(h) \/ Drift(h)
  \/ \E s \in Sessions, n \in OAuthNames, mode \in {"create", "reauthorize"} :
       InitOAuth2Binding(s, n, mode)
  \/ \E s \in Sessions : RejectCallback(s)
  \/ \E n \in OAuthNames : Expire(n)
  \/ UnlockLocalVault
  \/ Crash
  \/ Restart

Spec == Init /\ [][Next]_vars
-----------------------------------------------------------------------------
(* Properties.                                                             *)

Replacing(n, t) == \E h \in Handlers : job[h].op = "persist" /\ job[h].name = n /\ job[h].old = t

(* A rotating provider accepts a refresh token once.  The stored one is    *)
(* still accepted, or its replacement is about to be stored, unless that   *)
(* was lost on the way, a handler wrote back what it had read before       *)
(* another's write, or a restart brought back an older file.               *)
StoredTokenIsLive ==
  vault = "open" => \A n \in OAuthNames \ (clobbered \cup lagged) :
    LET t == mem[n].ref IN t = 0 \/ t \in live \cup burnt \/ Replacing(n, t)

(* A binding whose revocation was acknowledged does not come back but by a *)
(* new consent or key, a late write of a request that had read it before,  *)
(* or a file that could not be written.                                    *)
RevokedStaysRevoked ==
  vault = "open" => \A n \in revoked \ (clobbered \cup lagged) : mem[n] = NoEntry

(* A binding the drift hook marked stale stays marked until it is          *)
(* authorized anew, revoked or the demand is dropped: by a refresh that    *)
(* read it after the mark, and by a restart that finds every write in the  *)
(* file.  Two things do lift the mark and are exempt: the late write of a  *)
(* handler that had read the binding before another's write (clobbered), a *)
(* refresh under way when the mark was set among them, and a restart after *)
(* a write that did not reach the file (lagged).                           *)
MarkSurvivesRefresh ==
  vault = "open" => \A n \in marked \ (clobbered \cup lagged) : mem[n].status # "active"
=============================================================================
