----------------------------- MODULE ToolSurface -----------------------------
(***************************************************************************)
(* The tool surface of the MCP server an agent's host talks to over stdin  *)
(* and stdout: one tool per enabled action and installed flight plan of    *)
(* the daemon, discovered at startup and refreshed by a poller that swaps  *)
(* the two caches in turn and then tells the host to list again.  The      *)
(* request loop answers while the poller works, one request at a time.     *)
(*                                                                         *)
(* An item stands for a manifest and the tool definition derived from it;  *)
(* the daemon answers sorted by name, so a discovered list is the set of   *)
(* its items with Rank, the position by name, for what depends on order.   *)
(***************************************************************************)
EXTENDS Naturals, Sequences, FiniteSets, FiniteSetsExt

CONSTANTS Actions, Plans, ToolNames, Builtins, ToolName, Rank, Unknown,
          Starts,   \* the daemon's contents when the server starts
          MaxChanges, MaxFailures, MaxCalls

Items == Actions \cup Plans

ASSUME ItemsAssumption == /\ Actions \cap Plans = {}
                          /\ Unknown \notin Items
                          /\ ToolName \in [Items -> ToolNames]
                          /\ IsFiniteSet(Items)
                          /\ Rank \in [Items -> 1..Cardinality(Items)]
                          /\ \A p, q \in Plans : Rank[p] = Rank[q] => p = q
                          /\ Builtins \subseteq ToolNames
                          /\ Starts \subseteq [enabled : SUBSET Actions,
                                              installed : SUBSET Plans]
ASSUME BoundsAssumption == MaxChanges \in Nat /\ MaxFailures \in Nat /\ MaxCalls \in Nat

VARIABLES
  enabled,     \* the daemon's enabled actions
  installed,   \* the daemon's frozen flight plans
  actionTools, planTools,   \* the two caches actionsMu guards
  discovery,   \* the reason kept for aileron_diagnostics
  poller,      \* the refresh poller: its step, what it discovered, what changed
  loop,        \* the request loop: reading, holding a response, in a tool call
  stdin, stdout,   \* the frames in flight
  connected, hostTools,   \* the host: handshake done, the list it last received
  changes, failures, calls   \* bounds

daemonVars == <<enabled, installed>>
cacheVars == <<actionTools, planTools>>
wire == <<stdin, stdout>>
host == <<connected, hostTools>>
counts == <<changes, failures, calls>>
vars == <<enabled, installed, actionTools, planTools, discovery, poller, loop,
          stdin, stdout, connected, hostTools, changes, failures, calls>>

Surface == actionTools \cup planTools

NamesOf(items) == {ToolName[i] : i \in items}

Request(method) == [method |-> method, item |-> Unknown]
Call(i) == [method |-> "tools/call", item |-> i]
Frame(kind, tools) == [kind |-> kind, tools |-> tools]

-----------------------------------------------------------------------------
(* Discovery.  A plan is dropped when an action of this tick, a built-in   *)
(* or an earlier plan has its tool name; an action never is.               *)

(* Mutant of discoverFlightPlans: a plan may take a built-in's name. *)
KeepsBuiltinNames(plans, actions) ==
  LET free == {p \in plans : ToolName[p] \notin NamesOf(actions)}
  IN {p \in free : \A q \in free : ToolName[q] = ToolName[p] => Rank[p] <= Rank[q]}

discoverFlightPlans(plans, actions) ==
  LET free == {p \in plans : ToolName[p] \notin NamesOf(actions) \cup Builtins}
  IN {p \in free : \A q \in free : ToolName[q] = ToolName[p] => Rank[p] <= Rank[q]}

classifyDiscovery(ok, tools) ==
  CASE ~ok        -> "failed"
    [] tools = {} -> "empty"
    [] OTHER      -> "ok"

(* The outcomes of one GET: the daemon's answer, or a failure (transport,  *)
(* status, decoding).                                                      *)
Discovered(answer) ==
  {[ok |-> TRUE, tools |-> answer]} \cup
  (IF failures < MaxFailures THEN {[ok |-> FALSE, tools |-> {}]} ELSE {})

CountFailure(r) == failures' = IF r.ok THEN failures ELSE failures + 1

(* main, before the poller and the request loop start.                     *)
StartActions ==
  /\ poller.pc = "start"
  /\ \E r \in Discovered(enabled) :
       /\ discovery' = classifyDiscovery(r.ok, r.tools)
       /\ actionTools' = IF r.ok THEN r.tools ELSE actionTools
       /\ poller' = [poller EXCEPT !.pc = "startPlans", !.actions = r]
       /\ CountFailure(r)
  /\ UNCHANGED <<daemonVars, planTools, loop, wire, host, changes, calls>>

StartPlans ==
  /\ poller.pc = "startPlans"
  /\ \E r \in Discovered(discoverFlightPlans(installed, poller.actions.tools)) :
       /\ planTools' = IF r.ok THEN r.tools ELSE planTools
       /\ poller' = [poller EXCEPT !.pc = "idle", !.plans = r]
       /\ CountFailure(r)
  /\ loop' = [loop EXCEPT !.st = "read"]
  /\ UNCHANGED <<daemonVars, actionTools, discovery, wire, host, changes, calls>>

-----------------------------------------------------------------------------
(* refreshOnce, one step per request to the daemon, swap and frame.        *)

RefreshActions ==
  /\ poller.pc = "idle"
  /\ \E r \in Discovered(enabled) :
       /\ discovery' = classifyDiscovery(r.ok, r.tools)
       /\ poller' = [poller EXCEPT !.pc = "plans", !.actions = r]
       /\ CountFailure(r)
  /\ UNCHANGED <<daemonVars, cacheVars, loop, wire, host, changes, calls>>

(* Mutant of CollisionNames: the cached actions, though new ones came. *)
CachedNames == actionTools

(* The names a plan may not take: the actions live after this tick.        *)
CollisionNames ==
  IF poller.actions.ok THEN poller.actions.tools ELSE actionTools

(* Mutant of toolDefsEqual: only the lengths are compared. *)
SameLength(cached, found) == Cardinality(cached) = Cardinality(found)

toolDefsEqual(cached, found) == cached = found

Changed(cached, r) == r.ok /\ ~toolDefsEqual(cached, r.tools)

RefreshPlans ==
  /\ poller.pc = "plans"
  /\ \E r \in Discovered(discoverFlightPlans(installed, CollisionNames)) :
       LET ac == Changed(actionTools, poller.actions)
           pl == Changed(planTools, r)
       IN /\ poller' = [poller EXCEPT !.pc = IF ac THEN "setActions"
                                             ELSE IF pl THEN "setPlans" ELSE "idle",
                                      !.plans = r, !.planChanged = pl]
          /\ CountFailure(r)
  /\ UNCHANGED <<daemonVars, cacheVars, discovery, loop, wire, host, changes, calls>>

setActions ==
  /\ poller.pc = "setActions"
  /\ actionTools' = poller.actions.tools
  /\ poller' = [poller EXCEPT !.pc = IF poller.planChanged THEN "setPlans" ELSE "emit"]
  /\ UNCHANGED <<daemonVars, planTools, discovery, loop, wire, host, counts>>

(* Mutant of setFlightPlans: a plan-only change is not announced. *)
SetPlansQuietly ==
  /\ poller.pc = "setPlans"
  /\ planTools' = poller.plans.tools
  /\ poller' = [poller EXCEPT !.pc = IF Changed(actionTools, poller.actions)
                                     THEN "emit" ELSE "idle"]
  /\ UNCHANGED <<daemonVars, actionTools, discovery, loop, wire, host, counts>>

setFlightPlans ==
  /\ poller.pc = "setPlans"
  /\ planTools' = poller.plans.tools
  /\ poller' = [poller EXCEPT !.pc = "emit"]
  /\ UNCHANGED <<daemonVars, actionTools, discovery, loop, wire, host, counts>>

emitToolsListChanged ==
  /\ poller.pc = "emit"
  /\ stdout' = Append(stdout, Frame("list_changed", {}))
  /\ poller' = [poller EXCEPT !.pc = "idle"]
  /\ UNCHANGED <<daemonVars, cacheVars, discovery, loop, stdin, host, counts>>

-----------------------------------------------------------------------------
(* The request loop.  A response is computed under actionsMu and written   *)
(* under writeMu: the poller may swap and notify between the two.          *)

(* dispatchTool: an action's name first, then a plan's, then a built-in.   *)
(* Of two actions with one tool name the name map keeps the last.          *)
dispatchTool(n) ==
  LET acts == {a \in actionTools : ToolName[a] = n}
      runs == {p \in planTools : ToolName[p] = n}
  IN CASE acts # {} -> CHOOSE a \in acts : \A b \in acts : Rank[b] <= Rank[a]
       [] acts = {} /\ runs # {} -> CHOOSE p \in runs : TRUE
       [] OTHER -> Unknown

handle ==
  /\ loop.st = "read"
  /\ stdin # <<>>
  /\ LET req == Head(stdin)
         respond(f) == [st |-> "write", frame |-> f, target |-> Unknown]
     IN loop' = CASE req.method = "initialize" -> respond(Frame("initialize", {}))
                  [] req.method = "tools/list" -> respond(Frame("tools/list", Surface))
                  [] req.method = "initialized" -> loop
                  [] OTHER -> [st |-> "call", frame |-> Frame("tools/call", {}),
                               target |-> dispatchTool(ToolName[req.item])]
  /\ stdin' = Tail(stdin)
  /\ UNCHANGED <<daemonVars, cacheVars, discovery, poller, stdout, host, counts>>

(* The daemon's answer, or the client's 30 s: the loop served nothing      *)
(* else meanwhile.                                                         *)
EndCall ==
  /\ loop.st = "call"
  /\ loop' = [loop EXCEPT !.st = "write"]
  /\ UNCHANGED <<daemonVars, cacheVars, discovery, poller, wire, host, counts>>

writeLine ==
  /\ loop.st = "write"
  /\ stdout' = Append(stdout, loop.frame)
  /\ loop' = [st |-> "read", frame |-> Frame("none", {}), target |-> Unknown]
  /\ UNCHANGED <<daemonVars, cacheVars, discovery, poller, stdin, host, counts>>

-----------------------------------------------------------------------------
(* The host (external): it lists after the handshake and after every       *)
(* list_changed, and calls tools it has been listed.                       *)

HostRead ==
  /\ stdout # <<>>
  /\ LET f == Head(stdout)
     IN /\ connected' = (connected \/ f.kind = "initialize")
        /\ hostTools' = IF f.kind = "tools/list" THEN f.tools ELSE hostTools
        /\ stdin' = CASE f.kind = "initialize" ->
                           stdin \o <<Request("initialized"), Request("tools/list")>>
                      [] f.kind = "list_changed" /\ connected ->
                           Append(stdin, Request("tools/list"))
                      [] OTHER -> stdin
  /\ stdout' = Tail(stdout)
  /\ UNCHANGED <<daemonVars, cacheVars, discovery, poller, loop, counts>>

HostCall ==
  /\ connected
  /\ calls < MaxCalls
  /\ \E i \in hostTools : stdin' = Append(stdin, Call(i))
  /\ calls' = calls + 1
  /\ UNCHANGED <<daemonVars, cacheVars, discovery, poller, loop, stdout, host,
                 changes, failures>>

(* The daemon (external here): an action is installed, enabled, disabled   *)
(* or removed, a plan pulled or removed.                                   *)
DaemonChange ==
  /\ changes < MaxChanges
  /\ \/ /\ \E a \in Actions : enabled' = SymDiff(enabled, {a})
        /\ UNCHANGED installed
     \/ /\ \E p \in Plans : installed' = SymDiff(installed, {p})
        /\ UNCHANGED enabled
  /\ changes' = changes + 1
  /\ UNCHANGED <<cacheVars, discovery, poller, loop, wire, host, failures, calls>>

-----------------------------------------------------------------------------

None == [ok |-> FALSE, tools |-> {}]

Init ==
  /\ \E s \in Starts : enabled = s.enabled /\ installed = s.installed
  /\ actionTools = {}
  /\ planTools = {}
  /\ discovery = "ok"
  /\ poller = [pc |-> "start", actions |-> None, plans |-> None, planChanged |-> FALSE]
  /\ loop = [st |-> "starting", frame |-> Frame("none", {}), target |-> Unknown]
  /\ stdin = <<Request("initialize")>>
  /\ stdout = <<>>
  /\ connected = FALSE
  /\ hostTools = {}
  /\ changes = 0 /\ failures = 0 /\ calls = 0

Poll == \/ StartActions \/ StartPlans \/ RefreshActions \/ RefreshPlans
        \/ setActions \/ setFlightPlans \/ emitToolsListChanged

Serve == handle \/ EndCall \/ writeLine

Next == Poll \/ Serve \/ HostRead \/ HostCall \/ DaemonChange

Spec == Init /\ [][Next]_vars

(* The poller's ticker and the request loop run on, a request to the       *)
(* daemon ends by its 30 s limit, and the host reads what it is sent.      *)
(* Nobody has to change an action or call a tool.                          *)
FairSpec == Spec /\ WF_vars(Poll) /\ WF_vars(Serve) /\ WF_vars(HostRead)

-----------------------------------------------------------------------------

Results(S) == [ok : BOOLEAN, tools : SUBSET S]
Frames == [kind : {"none", "initialize", "tools/list", "tools/call", "list_changed"},
           tools : SUBSET Items]
Requests == [method : {"initialize", "initialized", "tools/list", "tools/call"},
             item : Items \cup {Unknown}]

(* The types; and no cached plan has the name of a built-in tool, which    *)
(* discoverFlightPlans drops.                                              *)
TypeOK ==
  /\ enabled \subseteq Actions /\ installed \subseteq Plans
  /\ actionTools \subseteq Actions
  /\ planTools \subseteq {p \in Plans : ToolName[p] \notin Builtins}
  /\ discovery \in {"ok", "empty", "failed"}
  /\ poller \in [pc : {"start", "startPlans", "idle", "plans", "setActions",
                       "setPlans", "emit"},
                 actions : Results(Actions), plans : Results(Plans),
                 planChanged : BOOLEAN]
  /\ loop \in [st : {"starting", "read", "call", "write"}, frame : Frames,
               target : Items \cup {Unknown}]
  /\ stdin \in Seq(Requests) /\ stdout \in Seq(Frames)
  /\ connected \in BOOLEAN /\ hostTools \subseteq Items
  /\ changes \in 0..MaxChanges /\ failures \in 0..MaxFailures /\ calls \in 0..MaxCalls

Lists(f) == f.kind = "tools/list"

(* The host will hold this list once it has read what is under way: it is  *)
(* in the response being written, else the last on stdout, else the list   *)
(* the host has.                                                           *)
HostWillHold(tools) ==
  IF Lists(loop.frame) THEN loop.frame.tools = tools
  ELSE \/ \E k \in DOMAIN stdout : /\ Lists(stdout[k]) /\ stdout[k].tools = tools
                                  /\ \A m \in DOMAIN stdout : m > k => ~Lists(stdout[m])
       \/ hostTools = tools /\ \A k \in DOMAIN stdout : ~Lists(stdout[k])

(* No change of the cache goes untold: unless the poller is still between  *)
(* a swap and its notification, or a notification or a list request is on  *)
(* its way, the last list computed for the host is the cached surface,     *)
(* also when a response computed before the swap is written after the      *)
(* notification.                                                           *)
HostListIsAnnounced ==
  \/ ~connected
  \/ poller.pc \in {"setPlans", "emit"}
  \/ \E k \in DOMAIN stdin : stdin[k].method = "tools/list"
  \/ \E k \in DOMAIN stdout : stdout[k].kind = "list_changed"
  \/ HostWillHold(Surface)

(* Two actions of one tool name are both listed, and one of them answers.  *)
HasTwin(i) == \E a \in actionTools \ {i} : i \in Actions /\ ToolName[a] = ToolName[i]

(* The plans were not filtered against the cached actions: their last      *)
(* discovery failed, or their swap is still to come.                       *)
PlansLag == ~poller.plans.ok \/ poller.pc \in {"setActions", "setPlans"}

(* A tool call runs what the host was listed, or, when that is no longer   *)
(* exposed, something else: but while the item is exposed no other takes   *)
(* its name, save a twin action, and save while the plans lag behind.      *)
ExposedToolRuns ==
  [][\A i \in Items :
       loop.st = "read" /\ loop'.st = "call" /\ Head(stdin).item = i /\ i \in Surface
         => loop'.target = i \/ HasTwin(i) \/ PlansLag]_vars

(* Once the daemon's actions and plans stop changing, the host ends up     *)
(* with exactly the tools they give.                                       *)
HostCatchesUp ==
  <>[](hostTools = enabled \cup discoverFlightPlans(installed, enabled))
=============================================================================
