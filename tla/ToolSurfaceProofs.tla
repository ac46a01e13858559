-------------------------- MODULE ToolSurfaceProofs --------------------------
(***************************************************************************)
(* Proofs about ToolSurface, for every set of actions, plans and tool      *)
(* names, every daemon contents and every bound.                           *)
(***************************************************************************)
EXTENDS ToolSurface, FiniteSetTheorems, WellFoundedInduction, TLAPS

-----------------------------------------------------------------------------
(* The inductive invariant.                                                *)

(* No plan has the tool name of one of the actions; no two plans have the  *)
(* same, and none that of a built-in.                                      *)
Clear(plans, actions) == \A p \in plans, a \in actions : ToolName[p] # ToolName[a]

Single(plans) ==
  /\ \A p \in plans : ToolName[p] \notin Builtins
  /\ \A p, q \in plans : ToolName[p] = ToolName[q] => p = q

(* Nothing is served before both caches were filled once. *)
StartInv ==
  /\ poller.pc \in {"start", "startPlans"} =>
       loop.st = "starting" /\ stdout = <<>> /\ ~connected /\ planTools = {}
  /\ poller.pc = "start" => actionTools = {}
  /\ poller.pc = "startPlans" => actionTools = poller.actions.tools

(* What the poller is about to swap in, and what it swapped in, does not   *)
(* collide.                                                                *)
PlanInv ==
  /\ Single(planTools) /\ Single(poller.plans.tools)
  /\ poller.pc = "setActions" =>
       /\ poller.plans.ok => Clear(poller.plans.tools, poller.actions.tools)
       /\ ~poller.planChanged /\ poller.plans.ok => planTools = poller.plans.tools
       /\ poller.planChanged => poller.plans.ok
  /\ poller.pc = "setPlans" => Clear(poller.plans.tools, actionTools)
  /\ ~PlansLag => Clear(planTools, actionTools)

(* Between requests the loop holds no response. *)
LoopInv == loop.st \in {"starting", "read"} => loop.frame.kind = "none"

ToolInv == TypeOK /\ StartInv /\ PlanInv /\ LoopInv /\ HostListIsAnnounced

-----------------------------------------------------------------------------
(* What a discovery of plans finds: free names, each once. *)
LEMMA PlansFound ==
  ASSUME NEW plans \in SUBSET Plans, NEW actions \in SUBSET Actions,
         NEW r \in Discovered(discoverFlightPlans(plans, actions))
  PROVE  r \in Results(Plans) /\ Single(r.tools) /\ Clear(r.tools, actions)
<1> DEFINE found == discoverFlightPlans(plans, actions)
<1>1. found \subseteq Plans
  BY DEF discoverFlightPlans
<1>2. Clear(found, actions) /\ \A p \in found : ToolName[p] \notin Builtins
  BY DEF discoverFlightPlans, Clear, NamesOf
<1>3. ASSUME NEW p \in found, NEW q \in found, ToolName[p] = ToolName[q] PROVE p = q
  <2>1. Rank[p] <= Rank[q] /\ Rank[q] <= Rank[p]
    BY <1>3 DEF discoverFlightPlans
  <2>2. Rank[p] \in Nat /\ Rank[q] \in Nat /\ p \in Plans /\ q \in Plans
    BY <1>1, ItemsAssumption DEF Items
  <2>3. Rank[p] = Rank[q]
    BY <2>1, <2>2
  <2> QED
    BY <2>2, <2>3, ItemsAssumption
<1>4. Single(found)
  BY <1>2, <1>3 DEF Single
<1>5. r \in {[ok |-> TRUE, tools |-> found], [ok |-> FALSE, tools |-> {}]}
  BY DEF Discovered
<1> HIDE DEF found
<1>6. r \in Results(Plans) /\ (r.tools = found \/ r.tools = {})
  <2>1. CASE r = [ok |-> TRUE, tools |-> found]
    BY <1>1, <2>1 DEF Results
  <2>2. CASE r = [ok |-> FALSE, tools |-> {}]
    BY <2>2 DEF Results
  <2> QED
    BY <1>5, <2>1, <2>2
<1> QED
  BY <1>2, <1>4, <1>6 DEF Single, Clear

(* The invariant holds of every reachable state. *)
LEMMA ToolInvariant == Spec => []ToolInv
(* The request loop picks an item that is exposed, or none; of the actions *)
(* of one name there is a last.                                            *)
<1>d. ASSUME TypeOK, NEW n PROVE dispatchTool(n) \in Items \cup {Unknown}
  <2> DEFINE acts == {a \in actionTools : ToolName[a] = n}
             runs == {p \in planTools : ToolName[p] = n}
             top == Cardinality(Items)
             R == OpToRel(<, Nat)
             T == {top - Rank[a] : a \in acts}
  <2>1. acts \subseteq Items /\ runs \subseteq Items
    BY <1>d DEF TypeOK, Items
  <2>2. top \in Nat /\ \A a \in acts : Rank[a] \in 1..top
    BY <2>1, ItemsAssumption, FS_CardinalityType
  <2>3. ASSUME acts # {} PROVE \E a \in acts : \A b \in acts : Rank[b] <= Rank[a]
    <3> HIDE DEF acts, top
    <3>1. T \subseteq Nat /\ T # {}
      BY <2>2, <2>3
    <3>2. IsWellFoundedOn(R, Nat)
      BY NatLessThanWellFounded
    <3> HIDE DEF R, T
    <3>3. PICK m \in T : \A y \in T : ~(<<y, m>> \in R)
      BY <3>1, <3>2, WFMin
    <3>4. \A y \in T : ~(y < m)
      BY <3>1, <3>3 DEF R, OpToRel
    <3>5. PICK a \in acts : m = top - Rank[a]
      BY DEF T
    <3>6. ASSUME NEW b \in acts PROVE Rank[b] <= Rank[a]
      <4>1. ~(top - Rank[b] < top - Rank[a])
        BY <3>4, <3>5 DEF T
      <4> QED
        BY <2>2, <4>1
    <3> QED
      BY <3>6
  <2>4. dispatchTool(n) = CASE acts # {} -> CHOOSE a \in acts : \A b \in acts : Rank[b] <= Rank[a]
                            [] acts = {} /\ runs # {} -> CHOOSE p \in runs : TRUE
                            [] OTHER -> Unknown
    BY DEF dispatchTool
  <2> HIDE DEF acts, runs
  <2>5. runs # {} => \E p \in runs : TRUE
    OBVIOUS
  <2> QED
    BY <2>1, <2>3, <2>4, <2>5
<1>1. Init => ToolInv
  <2> SUFFICES ASSUME Init PROVE ToolInv
    OBVIOUS
  <2>1. None \in Results(Actions) /\ None \in Results(Plans) /\ None.tools = {} /\ None.ok = FALSE
    BY DEF None, Results
  <2>2. Frame("none", {}) \in Frames /\ Frame("none", {}).kind = "none"
    BY DEF Frame, Frames
  <2>3. Request("initialize") \in Requests
    BY DEF Request, Requests
  <2>4. enabled \subseteq Actions /\ installed \subseteq Plans
    <3>1. PICK s \in Starts : enabled = s.enabled /\ installed = s.installed
      BY DEF Init
    <3>2. s \in [enabled : SUBSET Actions, installed : SUBSET Plans]
      BY ItemsAssumption
    <3> QED
      BY <3>1, <3>2
  <2>5. /\ poller \in [pc : {"start", "startPlans", "idle", "plans", "setActions", "setPlans", "emit"},
                       actions : Results(Actions), plans : Results(Plans), planChanged : BOOLEAN]
        /\ poller.pc = "start" /\ poller.plans = None
    BY <2>1 DEF Init
  <2>6. /\ loop \in [st : {"starting", "read", "call", "write"}, frame : Frames, target : Items \cup {Unknown}]
        /\ loop.st = "starting" /\ loop.frame.kind = "none"
    BY <2>2 DEF Init
  <2>7. stdin \in Seq(Requests) /\ stdout \in Seq(Frames)
    BY <2>3 DEF Init
  <2>8. TypeOK
    <3>1. 0 \in 0..MaxChanges /\ 0 \in 0..MaxFailures /\ 0 \in 0..MaxCalls
      BY BoundsAssumption
    <3>2. actionTools = {} /\ planTools = {} /\ hostTools = {} /\ connected = FALSE /\ discovery = "ok"
          /\ changes = 0 /\ failures = 0 /\ calls = 0
      BY DEF Init
    <3> QED
      BY <2>4, <2>5, <2>6, <2>7, <3>1, <3>2 DEF TypeOK
  <2>9. StartInv /\ PlanInv /\ LoopInv /\ HostListIsAnnounced
    BY <2>1, <2>5, <2>6 DEF Init, StartInv, PlanInv, Single, Clear, LoopInv, HostListIsAnnounced
  <2> QED
    BY <2>8, <2>9 DEF ToolInv
(* Every step keeps the types, the caches free of collisions, and the host *)
(* told of every change.                                                   *)
<1>2. ToolInv /\ [Next]_vars => ToolInv'
  <2> SUFFICES ASSUME ToolInv, [Next]_vars PROVE ToolInv'
    OBVIOUS
  <2> USE DEF daemonVars, cacheVars, wire, host, counts
  <2> DEFINE pcs == {"start", "startPlans", "idle", "plans", "setActions", "setPlans", "emit"}
  <2>t. /\ enabled \subseteq Actions /\ installed \subseteq Plans
        /\ actionTools \subseteq Actions /\ planTools \subseteq Plans
        /\ poller.pc \in pcs
        /\ poller.actions \in Results(Actions) /\ poller.plans \in Results(Plans)
        /\ poller.actions.tools \subseteq Actions /\ poller.plans.tools \subseteq Plans
        /\ loop.st \in {"starting", "read", "call", "write"} /\ loop.frame \in Frames
        /\ stdin \in Seq(Requests) /\ stdout \in Seq(Frames)
        /\ failures \in 0..MaxFailures /\ MaxFailures \in Nat
    BY BoundsAssumption DEF ToolInv, TypeOK, Results
  (* A discovery of actions, and the count of failures. *)
  <2>a. ASSUME NEW r \in Discovered(enabled) PROVE r \in Results(Actions) /\ (~r.ok => r.tools = {})
    <3>1. r \in {[ok |-> TRUE, tools |-> enabled], [ok |-> FALSE, tools |-> {}]}
      BY DEF Discovered
    <3>2. CASE r = [ok |-> TRUE, tools |-> enabled]
      BY <2>t, <3>2 DEF Results
    <3>3. CASE r = [ok |-> FALSE, tools |-> {}]
      BY <3>3 DEF Results
    <3> QED
      BY <3>1, <3>2, <3>3
  <2>f. ASSUME NEW answer, NEW r \in Discovered(answer), CountFailure(r) PROVE failures' \in 0..MaxFailures
    <3>1. r.ok \/ failures < MaxFailures
      BY DEF Discovered
    <3> QED
      BY <2>f, <2>t, <3>1 DEF CountFailure
  (* The host is told of nothing new, and nothing is new. *)
  <2>h. ASSUME UNCHANGED <<actionTools, planTools, stdout, host>>, loop'.frame = loop.frame,
               \A k \in DOMAIN stdin : \E m \in DOMAIN stdin' : stdin'[m].method = stdin[k].method,
               poller.pc \in {"setPlans", "emit"} => poller'.pc \in {"setPlans", "emit"}
        PROVE  HostListIsAnnounced'
    <3>1. HostWillHold(Surface) => HostWillHold(Surface)'
      BY <2>h DEF HostWillHold, Surface, Lists
    <3> QED
      BY <2>h, <3>1 DEF ToolInv, HostListIsAnnounced
  <2>1. ASSUME StartActions PROVE ToolInv'
    <3>1. PICK r \in Discovered(enabled) :
            /\ discovery' = classifyDiscovery(r.ok, r.tools)
            /\ actionTools' = IF r.ok THEN r.tools ELSE actionTools
            /\ poller' = [poller EXCEPT !.pc = "startPlans", !.actions = r]
            /\ CountFailure(r)
      BY <2>1 DEF StartActions
    <3>2. r \in Results(Actions) /\ (~r.ok => r.tools = {}) /\ failures' \in 0..MaxFailures
      BY <2>a, <2>f, <3>1
    <3>3. /\ poller'.pc = "startPlans" /\ poller'.actions = r /\ poller'.plans = poller.plans
          /\ poller' \in [pc : pcs, actions : Results(Actions), plans : Results(Plans), planChanged : BOOLEAN]
      BY <3>1, <3>2 DEF ToolInv, TypeOK
    <3>4. /\ poller.pc = "start" /\ UNCHANGED <<enabled, installed, planTools, loop, stdin, stdout, connected, hostTools, changes, calls>>
      BY <2>1 DEF StartActions
    <3>5. actionTools' = r.tools
      BY <3>1, <3>2, <3>4 DEF ToolInv, StartInv
    <3>6. discovery' \in {"ok", "empty", "failed"}
      BY <3>1 DEF classifyDiscovery
    <3>7. TypeOK'
      BY <3>2, <3>3, <3>4, <3>5, <3>6 DEF ToolInv, TypeOK, Results
    <3>8. StartInv' /\ LoopInv' /\ ~connected'
      BY <3>3, <3>4, <3>5 DEF ToolInv, StartInv, LoopInv
    <3>9. PlanInv'
      BY <3>3, <3>4 DEF ToolInv, StartInv, PlanInv, Clear
    <3> QED
      BY <3>7, <3>8, <3>9 DEF ToolInv, HostListIsAnnounced
  <2>2. ASSUME StartPlans PROVE ToolInv'
    <3>1. PICK r \in Discovered(discoverFlightPlans(installed, poller.actions.tools)) :
            /\ planTools' = IF r.ok THEN r.tools ELSE planTools
            /\ poller' = [poller EXCEPT !.pc = "idle", !.plans = r]
            /\ CountFailure(r)
      BY <2>2 DEF StartPlans
    <3>2. /\ r \in Results(Plans) /\ Single(r.tools) /\ Clear(r.tools, poller.actions.tools)
          /\ failures' \in 0..MaxFailures
      BY <2>f, <2>t, <3>1, PlansFound
    <3>3. /\ poller'.pc = "idle" /\ poller'.plans = r
          /\ poller' \in [pc : pcs, actions : Results(Actions), plans : Results(Plans), planChanged : BOOLEAN]
      BY <3>1, <3>2 DEF ToolInv, TypeOK
    <3>4. /\ poller.pc = "startPlans" /\ loop' = [loop EXCEPT !.st = "read"]
          /\ UNCHANGED <<enabled, installed, actionTools, discovery, stdin, stdout, connected, hostTools, changes, calls>>
      BY <2>2 DEF StartPlans
    <3>5. /\ loop' \in [st : {"starting", "read", "call", "write"}, frame : Frames, target : Items \cup {Unknown}]
          /\ loop'.st = "read" /\ loop'.frame = loop.frame
      BY <3>4 DEF ToolInv, TypeOK
    <3>6. loop.st = "starting" /\ planTools = {} /\ actionTools = poller.actions.tools /\ ~connected
      BY <3>4 DEF ToolInv, StartInv
    <3>7. planTools' \subseteq {p \in Plans : ToolName[p] \notin Builtins}
      BY <3>1, <3>2, <3>6 DEF Results, Single
    <3>8. TypeOK'
      BY <3>2, <3>3, <3>4, <3>5, <3>7 DEF ToolInv, TypeOK
    <3>9. StartInv' /\ LoopInv' /\ ~connected'
      BY <3>3, <3>4, <3>5, <3>6 DEF ToolInv, StartInv, LoopInv
    <3>10. PlanInv'
      <4>1. Single(planTools') /\ (r.ok => Clear(planTools', actionTools'))
        BY <3>1, <3>2, <3>4, <3>6 DEF Single
      <4> QED
        BY <3>2, <3>3, <4>1 DEF PlanInv, Single, Clear, PlansLag
    <3> QED
      BY <3>8, <3>9, <3>10 DEF ToolInv, HostListIsAnnounced
  <2>3. ASSUME RefreshActions PROVE ToolInv'
    <3>1. PICK r \in Discovered(enabled) :
            /\ discovery' = classifyDiscovery(r.ok, r.tools)
            /\ poller' = [poller EXCEPT !.pc = "plans", !.actions = r]
            /\ CountFailure(r)
      BY <2>3 DEF RefreshActions
    <3>2. r \in Results(Actions) /\ failures' \in 0..MaxFailures
      BY <2>a, <2>f, <3>1
    <3>3. /\ poller'.pc = "plans" /\ poller'.plans = poller.plans
          /\ poller' \in [pc : pcs, actions : Results(Actions), plans : Results(Plans), planChanged : BOOLEAN]
      BY <3>1, <3>2 DEF ToolInv, TypeOK
    <3>4. /\ poller.pc = "idle" /\ UNCHANGED <<enabled, installed, actionTools, planTools, loop, stdin, stdout, connected, hostTools, changes, calls>>
      BY <2>3 DEF RefreshActions
    <3>5. discovery' \in {"ok", "empty", "failed"}
      BY <3>1 DEF classifyDiscovery
    <3>6. TypeOK'
      BY <3>2, <3>3, <3>4, <3>5 DEF ToolInv, TypeOK
    <3>7. StartInv' /\ LoopInv' /\ PlanInv'
      BY <3>3, <3>4 DEF ToolInv, StartInv, LoopInv, PlanInv, PlansLag, Single, Clear
    <3>8. HostListIsAnnounced'
      BY <2>h, <3>3, <3>4
    <3> QED
      BY <3>6, <3>7, <3>8 DEF ToolInv
  <2>4. ASSUME RefreshPlans PROVE ToolInv'
    <3>1. PICK r \in Discovered(discoverFlightPlans(installed, CollisionNames)) :
            LET ac == Changed(actionTools, poller.actions)
                pl == Changed(planTools, r)
            IN /\ poller' = [poller EXCEPT !.pc = IF ac THEN "setActions" ELSE IF pl THEN "setPlans" ELSE "idle",
                                           !.plans = r, !.planChanged = pl]
               /\ CountFailure(r)
      BY <2>4 DEF RefreshPlans
    <3> DEFINE ac == Changed(actionTools, poller.actions)
               pl == Changed(planTools, r)
               pc == IF ac THEN "setActions" ELSE IF pl THEN "setPlans" ELSE "idle"
    <3>2. CollisionNames \subseteq Actions
      BY <2>t DEF CollisionNames
    <3>3. /\ r \in Results(Plans) /\ Single(r.tools) /\ Clear(r.tools, CollisionNames)
          /\ failures' \in 0..MaxFailures
      BY <2>f, <2>t, <3>1, <3>2, PlansFound
    <3>4. ac \in BOOLEAN /\ pl \in BOOLEAN /\ r.ok \in BOOLEAN
      BY <2>t, <3>3 DEF Changed, Results
    <3>5. /\ ~ac /\ poller.actions.ok => actionTools = poller.actions.tools
          /\ ~pl /\ r.ok => planTools = r.tools
          /\ (ac => poller.actions.ok) /\ (pl => r.ok)
      BY DEF Changed, toolDefsEqual
    <3>6. poller' = [poller EXCEPT !.pc = pc, !.plans = r, !.planChanged = pl]
      BY <3>1
    <3> HIDE DEF ac, pl
    <3>7. /\ poller'.pc = pc /\ poller'.plans = r /\ poller'.planChanged = pl /\ poller'.actions = poller.actions
          /\ poller' \in [pc : pcs, actions : Results(Actions), plans : Results(Plans), planChanged : BOOLEAN]
      BY <3>3, <3>4, <3>6 DEF ToolInv, TypeOK
    <3>8. /\ poller.pc = "plans" /\ UNCHANGED <<enabled, installed, actionTools, planTools, discovery, loop, stdin, stdout, connected, hostTools, changes, calls>>
      BY <2>4 DEF RefreshPlans
    <3>9. TypeOK'
      BY <3>3, <3>7, <3>8 DEF ToolInv, TypeOK
    <3>10. StartInv' /\ LoopInv'
      BY <3>7, <3>8 DEF ToolInv, StartInv, LoopInv
    <3>11. PlanInv'
      <4>1. Single(planTools') /\ Single(poller'.plans.tools)
        BY <3>3, <3>7, <3>8 DEF ToolInv, PlanInv
      <4>2. ac => Clear(r.tools, poller.actions.tools)
        BY <3>3, <3>5 DEF CollisionNames
      <4>3. ~ac => Clear(r.tools, actionTools)
        BY <3>3, <3>5 DEF CollisionNames
      <4>4. poller'.pc = "setActions" =>
              /\ poller'.plans.ok => Clear(poller'.plans.tools, poller'.actions.tools)
              /\ ~poller'.planChanged /\ poller'.plans.ok => planTools' = poller'.plans.tools
              /\ poller'.planChanged => poller'.plans.ok
        BY <3>5, <3>7, <3>8, <4>2
      <4>5. poller'.pc = "setPlans" => Clear(poller'.plans.tools, actionTools')
        BY <3>7, <3>8, <4>3
      <4>6. ~PlansLag' => Clear(planTools', actionTools')
        BY <3>5, <3>7, <3>8, <4>3 DEF PlansLag
      <4> QED
        BY <4>1, <4>4, <4>5, <4>6 DEF PlanInv, Single, Clear
    <3>12. HostListIsAnnounced'
      BY <2>h, <3>7, <3>8
    <3> QED
      BY <3>9, <3>10, <3>11, <3>12 DEF ToolInv
  <2>5. ASSUME setActions PROVE ToolInv'
    <3>1. /\ poller.pc = "setActions" /\ actionTools' = poller.actions.tools
          /\ poller' = [poller EXCEPT !.pc = IF poller.planChanged THEN "setPlans" ELSE "emit"]
          /\ UNCHANGED <<enabled, installed, planTools, discovery, loop, stdin, stdout, connected, hostTools, changes, failures, calls>>
      BY <2>5 DEF setActions
    <3>2. /\ poller'.pc = (IF poller.planChanged THEN "setPlans" ELSE "emit")
          /\ poller'.plans = poller.plans /\ poller'.actions = poller.actions
          /\ poller' \in [pc : pcs, actions : Results(Actions), plans : Results(Plans), planChanged : BOOLEAN]
      BY <3>1 DEF ToolInv, TypeOK
    <3>3. TypeOK'
      BY <2>t, <3>1, <3>2 DEF ToolInv, TypeOK
    <3>4. StartInv' /\ LoopInv'
      BY <3>1, <3>2 DEF ToolInv, StartInv, LoopInv
    <3>5. PlanInv'
      <4>1. /\ Single(planTools) /\ Single(poller.plans.tools)
            /\ poller.plans.ok => Clear(poller.plans.tools, poller.actions.tools)
            /\ ~poller.planChanged /\ poller.plans.ok => planTools = poller.plans.tools
            /\ poller.planChanged => poller.plans.ok
        BY <3>1 DEF ToolInv, PlanInv
      <4> QED
        BY <3>1, <3>2, <4>1 DEF PlanInv, PlansLag, Single, Clear
    <3> QED
      BY <3>2, <3>3, <3>4, <3>5 DEF ToolInv, HostListIsAnnounced
  <2>6. ASSUME setFlightPlans PROVE ToolInv'
    <3>1. /\ poller.pc = "setPlans" /\ planTools' = poller.plans.tools
          /\ poller' = [poller EXCEPT !.pc = "emit"]
          /\ UNCHANGED <<enabled, installed, actionTools, discovery, loop, stdin, stdout, connected, hostTools, changes, failures, calls>>
      BY <2>6 DEF setFlightPlans
    <3>2. /\ poller'.pc = "emit" /\ poller'.plans = poller.plans /\ poller'.actions = poller.actions
          /\ poller' \in [pc : pcs, actions : Results(Actions), plans : Results(Plans), planChanged : BOOLEAN]
      BY <3>1 DEF ToolInv, TypeOK
    <3>3. Single(poller.plans.tools) /\ Clear(poller.plans.tools, actionTools)
      BY <3>1 DEF ToolInv, PlanInv
    <3>4. TypeOK'
      BY <2>t, <3>1, <3>2, <3>3 DEF ToolInv, TypeOK, Single
    <3>5. StartInv' /\ LoopInv'
      BY <3>1, <3>2 DEF ToolInv, StartInv, LoopInv
    <3>6. PlanInv'
      BY <3>1, <3>2, <3>3 DEF PlanInv, PlansLag, Single, Clear
    <3> QED
      BY <3>2, <3>4, <3>5, <3>6 DEF ToolInv, HostListIsAnnounced
  <2>7. ASSUME emitToolsListChanged PROVE ToolInv'
    <3> DEFINE f == Frame("list_changed", {})
    <3>1. /\ poller.pc = "emit" /\ stdout' = Append(stdout, f) /\ poller' = [poller EXCEPT !.pc = "idle"]
          /\ UNCHANGED <<enabled, installed, actionTools, planTools, discovery, loop, stdin, connected, hostTools, changes, failures, calls>>
      BY <2>7 DEF emitToolsListChanged
    <3>2. /\ poller'.pc = "idle" /\ poller'.plans = poller.plans /\ poller'.actions = poller.actions
          /\ poller' \in [pc : pcs, actions : Results(Actions), plans : Results(Plans), planChanged : BOOLEAN]
      BY <3>1 DEF ToolInv, TypeOK
    <3>3. f \in Frames /\ f.kind = "list_changed"
      BY DEF Frame, Frames
    <3> HIDE DEF f
    <3>4. stdout' \in Seq(Frames) /\ Len(stdout') \in DOMAIN stdout' /\ stdout'[Len(stdout')] = f
      BY <2>t, <3>1, <3>3
    <3>5. TypeOK'
      BY <3>1, <3>2, <3>4 DEF ToolInv, TypeOK
    <3>6. StartInv' /\ LoopInv' /\ PlanInv'
      BY <3>1, <3>2 DEF ToolInv, StartInv, LoopInv, PlanInv, PlansLag, Single, Clear
    <3>7. HostListIsAnnounced'
      BY <3>3, <3>4 DEF HostListIsAnnounced
    <3> QED
      BY <3>5, <3>6, <3>7 DEF ToolInv
  <2>8. ASSUME handle PROVE ToolInv'
    <3> DEFINE req == Head(stdin)
               respond(f) == [st |-> "write", frame |-> f, target |-> Unknown]
               call == [st |-> "call", frame |-> Frame("tools/call", {}), target |-> dispatchTool(ToolName[req.item])]
    <3>1. /\ loop.st = "read" /\ stdin # <<>> /\ stdin' = Tail(stdin)
          /\ UNCHANGED <<enabled, installed, actionTools, planTools, discovery, poller, stdout, connected, hostTools, changes, failures, calls>>
          /\ loop' = CASE req.method = "initialize" -> respond(Frame("initialize", {}))
                       [] req.method = "tools/list" -> respond(Frame("tools/list", Surface))
                       [] req.method = "initialized" -> loop
                       [] OTHER -> call
      BY <2>8 DEF handle
    <3>2. /\ stdin' \in Seq(Requests)
          /\ \A k \in DOMAIN stdin : k # 1 => k - 1 \in DOMAIN stdin' /\ stdin'[k - 1] = stdin[k]
          /\ req = stdin[1] /\ 1 \in DOMAIN stdin
      BY <2>t, <3>1
    <3>3. /\ dispatchTool(ToolName[req.item]) \in Items \cup {Unknown}
          /\ Surface \subseteq Items
      BY <2>t, <1>d DEF ToolInv, Surface, Items
    <3>4. PICK target \in Items \cup {Unknown} : target = dispatchTool(ToolName[req.item])
      BY <3>3
    <3>5. /\ \A tools \in SUBSET Items, kind \in {"initialize", "tools/list", "tools/call"} :
               /\ Frame(kind, tools) \in Frames
               /\ Frame(kind, tools).kind = kind /\ Frame(kind, tools).tools = tools
      BY DEF Frame, Frames
    <3>6. loop.frame.kind = "none" /\ ~Lists(loop.frame) /\ poller.pc \notin {"start", "startPlans"}
      BY <3>1 DEF ToolInv, LoopInv, StartInv, Lists
    <3> DEFINE Loops == [st : {"starting", "read", "call", "write"}, frame : Frames, target : Items \cup {Unknown}]
    <3>7. CASE req.method = "tools/list"
      <4> DEFINE f == Frame("tools/list", Surface)
      <4>1. loop' = respond(f)
        BY <3>1, <3>7
      <4>2. f \in Frames /\ f.kind = "tools/list" /\ f.tools = Surface
        BY <3>3, <3>5
      <4> HIDE DEF f
      <4>3. loop' \in Loops /\ loop'.st = "write" /\ loop'.frame = f
        BY <4>1, <4>2
      <4>4. HostWillHold(Surface)'
        BY <3>1, <4>2, <4>3 DEF HostWillHold, Surface, Lists
      <4>5. TypeOK'
        BY <3>1, <3>2, <4>3 DEF ToolInv, TypeOK
      <4>6. StartInv' /\ LoopInv' /\ PlanInv'
        BY <3>1, <3>6, <4>3 DEF ToolInv, StartInv, LoopInv, PlanInv, PlansLag, Single, Clear
      <4> QED
        BY <4>4, <4>5, <4>6 DEF ToolInv, HostListIsAnnounced
    <3>8. CASE req.method # "tools/list"
      <4>1. /\ loop' \in Loops /\ loop'.st \in {"read", "call", "write"} /\ ~Lists(loop'.frame)
            /\ loop'.st = "read" => loop'.frame = loop.frame
        <5>1. CASE req.method = "initialize"
          <6> DEFINE f == Frame("initialize", {})
          <6>1. loop' = respond(f)
            BY <3>1, <5>1
          <6>2. f \in Frames /\ f.kind = "initialize"
            BY <3>5
          <6> HIDE DEF f
          <6> QED
            BY <6>1, <6>2 DEF Lists
        <5>2. CASE req.method = "initialized"
          BY <3>1, <3>6, <5>2 DEF ToolInv, TypeOK
        <5>3. CASE req.method \notin {"initialize", "initialized"}
          <6> DEFINE f == Frame("tools/call", {})
          <6>1. loop' = [st |-> "call", frame |-> f, target |-> target]
            BY <3>1, <3>4, <3>8, <5>3
          <6>2. f \in Frames /\ f.kind = "tools/call"
            BY <3>5
          <6> HIDE DEF f
          <6> QED
            BY <6>1, <6>2 DEF Lists
        <5> QED
          BY <5>1, <5>2, <5>3
      <4>2. TypeOK'
        BY <3>1, <3>2, <4>1 DEF ToolInv, TypeOK
      <4>3. StartInv' /\ LoopInv' /\ PlanInv'
        BY <3>1, <3>6, <4>1 DEF ToolInv, StartInv, LoopInv, PlanInv, PlansLag, Single, Clear
      <4>4. \A k \in DOMAIN stdin : stdin[k].method = "tools/list" =>
              \E m \in DOMAIN stdin' : stdin'[m].method = "tools/list"
        BY <3>2, <3>8
      <4>5. HostWillHold(Surface) => HostWillHold(Surface)'
        BY <3>1, <3>6, <4>1 DEF HostWillHold, Surface
      <4>6. HostListIsAnnounced'
        BY <3>1, <4>4, <4>5 DEF ToolInv, HostListIsAnnounced
      <4> QED
        BY <4>2, <4>3, <4>6 DEF ToolInv
    <3> QED
      BY <3>7, <3>8
  <2>9. ASSUME EndCall PROVE ToolInv'
    <3>1. /\ loop.st = "call" /\ loop' = [loop EXCEPT !.st = "write"]
          /\ UNCHANGED <<enabled, installed, actionTools, planTools, discovery, poller, stdin, stdout, connected, hostTools, changes, failures, calls>>
      BY <2>9 DEF EndCall
    <3>2. /\ loop' \in [st : {"starting", "read", "call", "write"}, frame : Frames, target : Items \cup {Unknown}]
          /\ loop'.st = "write" /\ loop'.frame = loop.frame
      BY <3>1 DEF ToolInv, TypeOK
    <3>3. TypeOK'
      BY <3>1, <3>2 DEF ToolInv, TypeOK
    <3>4. StartInv' /\ LoopInv' /\ PlanInv'
      BY <3>1, <3>2 DEF ToolInv, StartInv, LoopInv, PlanInv, PlansLag, Single, Clear
    <3>5. HostListIsAnnounced'
      BY <2>h, <3>1, <3>2
    <3> QED
      BY <3>3, <3>4, <3>5 DEF ToolInv
  <2>10. ASSUME writeLine PROVE ToolInv'
    <3>1. /\ loop.st = "write" /\ stdout' = Append(stdout, loop.frame)
          /\ loop' = [st |-> "read", frame |-> Frame("none", {}), target |-> Unknown]
          /\ UNCHANGED <<enabled, installed, actionTools, planTools, discovery, poller, stdin, connected, hostTools, changes, failures, calls>>
      BY <2>10 DEF writeLine
    <3>2. /\ loop' \in [st : {"starting", "read", "call", "write"}, frame : Frames, target : Items \cup {Unknown}]
          /\ loop'.frame.kind = "none" /\ ~Lists(loop'.frame)
      BY <3>1 DEF Frame, Frames, Lists
    <3>3. /\ stdout' \in Seq(Frames) /\ Len(stdout') = Len(stdout) + 1
          /\ DOMAIN stdout = 1..Len(stdout) /\ DOMAIN stdout' = 1..(Len(stdout) + 1) /\ Len(stdout) \in Nat
          /\ \A k \in DOMAIN stdout : k \in DOMAIN stdout' /\ stdout'[k] = stdout[k]
          /\ stdout'[Len(stdout')] = loop.frame
      BY <2>t, <3>1
    <3>4. TypeOK'
      BY <3>1, <3>2, <3>3 DEF ToolInv, TypeOK
    <3>5. StartInv' /\ LoopInv' /\ PlanInv'
      BY <3>1, <3>2 DEF ToolInv, StartInv, LoopInv, PlanInv, PlansLag, Single, Clear
    <3>6. ASSUME HostWillHold(Surface) PROVE HostWillHold(Surface)'
      <4>1. Surface' = Surface
        BY <3>1 DEF Surface
      <4>2. CASE Lists(loop.frame)
        <5>1. loop.frame.tools = Surface
          BY <3>6, <4>2 DEF HostWillHold
        <5>2. /\ Len(stdout') \in DOMAIN stdout' /\ Lists(stdout'[Len(stdout')]) /\ stdout'[Len(stdout')].tools = Surface'
              /\ \A m \in DOMAIN stdout' : ~(m > Len(stdout'))
          BY <3>3, <4>1, <4>2, <5>1
        <5> QED
          BY <3>2, <5>2 DEF HostWillHold, Lists
      <4>3. CASE ~Lists(loop.frame)
        <5>1. \A m \in DOMAIN stdout' : Lists(stdout'[m]) => m \in DOMAIN stdout /\ Lists(stdout[m])
          BY <3>3, <4>3
        <5>2. CASE hostTools = Surface /\ \A k \in DOMAIN stdout : ~Lists(stdout[k])
          BY <3>1, <3>2, <4>1, <5>1, <5>2 DEF HostWillHold, Lists
        <5>3. ASSUME NEW k \in DOMAIN stdout, Lists(stdout[k]), stdout[k].tools = Surface,
                     \A m \in DOMAIN stdout : m > k => ~Lists(stdout[m])
              PROVE  HostWillHold(Surface)'
          <6>1. /\ k \in DOMAIN stdout' /\ Lists(stdout'[k]) /\ stdout'[k].tools = Surface'
                /\ \A m \in DOMAIN stdout' : m > k => ~Lists(stdout'[m])
            BY <3>3, <4>1, <5>1, <5>3
          <6> QED
            BY <3>2, <6>1 DEF HostWillHold, Lists
        <5> QED
          BY <3>6, <4>3, <5>2, <5>3 DEF HostWillHold
      <4> QED
        BY <4>2, <4>3
    <3>7. HostListIsAnnounced'
      BY <3>1, <3>3, <3>6 DEF ToolInv, HostListIsAnnounced
    <3> QED
      BY <3>4, <3>5, <3>7 DEF ToolInv
  <2>11. ASSUME HostRead PROVE ToolInv'
    <3> DEFINE more(f) == CASE f.kind = "initialize" -> stdin \o <<Request("initialized"), Request("tools/list")>>
                            [] f.kind = "list_changed" /\ connected -> Append(stdin, Request("tools/list"))
                            [] OTHER -> stdin
    <3>0. PICK f : f = Head(stdout)
      OBVIOUS
    <3>1. /\ stdout # <<>> /\ stdout' = Tail(stdout)
          /\ connected' = (connected \/ f.kind = "initialize")
          /\ hostTools' = (IF f.kind = "tools/list" THEN f.tools ELSE hostTools)
          /\ stdin' = more(f)
          /\ UNCHANGED <<enabled, installed, actionTools, planTools, discovery, poller, loop, changes, failures, calls>>
      BY <2>11, <3>0 DEF HostRead
    <3>2. /\ stdout' \in Seq(Frames) /\ f \in Frames /\ f = stdout[1]
          /\ DOMAIN stdout = 1..Len(stdout) /\ DOMAIN stdout' = 1..(Len(stdout) - 1) /\ Len(stdout) \in Nat \ {0}
          /\ \A k \in DOMAIN stdout' : stdout'[k] = stdout[k + 1]
      BY <2>t, <3>0, <3>1
    <3>3. /\ \A m \in {"initialized", "tools/list"} : Request(m) \in Requests /\ Request(m).method = m
      BY DEF Request, Requests
    <3>4. stdin' \in Seq(Requests) /\ \A k \in DOMAIN stdin : k \in DOMAIN stdin' /\ stdin'[k] = stdin[k]
      <4> HIDE DEF Requests
      <4>1. Request("initialized") \in Requests /\ Request("tools/list") \in Requests
        BY <3>3
      <4>2. stdin' \in {stdin, Append(stdin, Request("tools/list")), stdin \o <<Request("initialized"), Request("tools/list")>>}
        BY <3>1
      <4>3. CASE stdin' = stdin \/ stdin' = Append(stdin, Request("tools/list"))
        BY <2>t, <4>1, <4>3
      <4>4. CASE stdin' = stdin \o <<Request("initialized"), Request("tools/list")>>
        <5>1. PICK a \in Requests, b \in Requests : a = Request("initialized") /\ b = Request("tools/list")
          BY <4>1
        <5>2. <<a, b>> \in Seq(Requests) /\ stdin' = stdin \o <<a, b>>
          BY <4>4, <5>1
        <5> QED
          BY <2>t, <5>2
      <4> QED
        BY <4>2, <4>3, <4>4
    <3>5. TypeOK'
      <4>1. hostTools' \subseteq Items /\ connected' \in BOOLEAN
        BY <3>1, <3>2 DEF ToolInv, TypeOK, Frames
      <4> QED
        BY <3>1, <3>2, <3>4, <4>1 DEF ToolInv, TypeOK
    <3>6. StartInv' /\ LoopInv' /\ PlanInv'
      BY <3>1 DEF ToolInv, StartInv, LoopInv, PlanInv, PlansLag, Single, Clear
    <3>7. CASE f.kind = "initialize" \/ (f.kind = "list_changed" /\ connected)
      <4>1. Len(stdin') \in DOMAIN stdin' /\ stdin'[Len(stdin')] = Request("tools/list")
        <5>1. stdin' \in {Append(stdin, Request("tools/list")), stdin \o <<Request("initialized"), Request("tools/list")>>}
          BY <3>1, <3>7
        <5>2. Request("initialized") \in Requests /\ Request("tools/list") \in Requests
          BY <3>3
        <5> HIDE DEF Requests
        <5> QED
          BY <2>t, <5>1, <5>2
      <4>2. HostListIsAnnounced'
        BY <3>3, <4>1 DEF HostListIsAnnounced
      <4> QED
        BY <3>5, <3>6, <4>2 DEF ToolInv
    <3>8. CASE f.kind # "initialize" /\ ~(f.kind = "list_changed" /\ connected)
      <4>1. connected' = connected /\ stdin' = stdin
        BY <3>1, <3>8 DEF ToolInv, TypeOK
      <4>2. connected /\ (\E k \in DOMAIN stdout : stdout[k].kind = "list_changed") =>
              \E k \in DOMAIN stdout' : stdout'[k].kind = "list_changed"
        <5>1. ASSUME connected, NEW k \in DOMAIN stdout, stdout[k].kind = "list_changed"
              PROVE  k - 1 \in DOMAIN stdout' /\ stdout'[k - 1].kind = "list_changed"
          <6>1. k # 1
            BY <3>2, <3>8, <5>1
          <6> QED
            BY <3>2, <5>1, <6>1
        <5> QED
          BY <5>1
      <4>3. ASSUME HostWillHold(Surface) PROVE HostWillHold(Surface)'
        <5>1. Surface' = Surface /\ loop' = loop
          BY <3>1 DEF Surface
        <5>2. CASE Lists(loop.frame)
          BY <4>3, <5>1, <5>2 DEF HostWillHold, Lists
        <5>3. CASE ~Lists(loop.frame) /\ hostTools = Surface /\ \A k \in DOMAIN stdout : ~Lists(stdout[k])
          <6>1. /\ \A k \in DOMAIN stdout' : ~Lists(stdout'[k])
                /\ ~Lists(f)
            BY <3>2, <5>3
          <6>2. hostTools' = Surface'
            BY <3>1, <5>1, <5>3, <6>1 DEF Lists
          <6> QED
            BY <5>1, <5>3, <6>1, <6>2 DEF HostWillHold, Lists
        <5>4. ASSUME ~Lists(loop.frame), NEW k \in DOMAIN stdout, Lists(stdout[k]), stdout[k].tools = Surface,
                     \A m \in DOMAIN stdout : m > k => ~Lists(stdout[m])
              PROVE  HostWillHold(Surface)'
          <6>1. CASE k = 1
            <7>1. \A m \in DOMAIN stdout' : ~Lists(stdout'[m])
              BY <3>2, <5>4, <6>1
            <7>2. hostTools' = Surface'
              BY <3>1, <3>2, <5>1, <5>4, <6>1 DEF Lists
            <7> QED
              BY <5>1, <5>4, <7>1, <7>2 DEF HostWillHold, Lists
          <6>2. CASE k # 1
            <7>1. /\ k - 1 \in DOMAIN stdout' /\ Lists(stdout'[k - 1]) /\ stdout'[k - 1].tools = Surface'
                  /\ \A m \in DOMAIN stdout' : m > k - 1 => ~Lists(stdout'[m])
              BY <3>2, <5>1, <5>4, <6>2
            <7> QED
              BY <5>1, <5>4, <7>1 DEF HostWillHold, Lists
          <6> QED
            BY <6>1, <6>2
        <5> QED
          BY <4>3, <5>2, <5>3, <5>4 DEF HostWillHold
      <4>4. HostListIsAnnounced'
        BY <3>1, <4>1, <4>2, <4>3 DEF ToolInv, HostListIsAnnounced
      <4> QED
        BY <3>5, <3>6, <4>4 DEF ToolInv
    <3> QED
      BY <3>7, <3>8
  <2>12. ASSUME HostCall PROVE ToolInv'
    <3>1. PICK i \in hostTools : stdin' = Append(stdin, Call(i))
      BY <2>12 DEF HostCall
    <3>2. /\ calls < MaxCalls /\ calls' = calls + 1
          /\ UNCHANGED <<enabled, installed, actionTools, planTools, discovery, poller, loop, stdout, connected, hostTools, changes, failures>>
      BY <2>12 DEF HostCall
    <3>3. Call(i) \in Requests
      BY DEF Call, Requests, ToolInv, TypeOK
    <3>4. stdin' \in Seq(Requests) /\ \A k \in DOMAIN stdin : k \in DOMAIN stdin' /\ stdin'[k] = stdin[k]
      <4> HIDE DEF Requests
      <4> QED
        BY <2>t, <3>1, <3>3
    <3>5. calls' \in 0..MaxCalls
      BY <3>2, BoundsAssumption DEF ToolInv, TypeOK
    <3>6. TypeOK'
      BY <3>2, <3>4, <3>5 DEF ToolInv, TypeOK
    <3>7. StartInv' /\ LoopInv' /\ PlanInv'
      BY <3>2 DEF ToolInv, StartInv, LoopInv, PlanInv, PlansLag, Single, Clear
    <3>8. HostListIsAnnounced'
      BY <2>h, <3>2, <3>4
    <3> QED
      BY <3>6, <3>7, <3>8 DEF ToolInv
  <2>13. ASSUME DaemonChange PROVE ToolInv'
    <3>1. /\ changes < MaxChanges /\ changes' = changes + 1
          /\ UNCHANGED <<actionTools, planTools, discovery, poller, loop, stdin, stdout, connected, hostTools, failures, calls>>
      BY <2>13 DEF DaemonChange
    <3>2. enabled' \subseteq Actions /\ installed' \subseteq Plans
      BY <2>13, <2>t DEF DaemonChange, SymDiff
    <3>3. changes' \in 0..MaxChanges
      BY <3>1, BoundsAssumption DEF ToolInv, TypeOK
    <3>4. TypeOK'
      BY <3>1, <3>2, <3>3 DEF ToolInv, TypeOK
    <3>5. StartInv' /\ LoopInv' /\ PlanInv'
      BY <3>1 DEF ToolInv, StartInv, LoopInv, PlanInv, PlansLag, Single, Clear
    <3>6. HostListIsAnnounced'
      BY <2>h, <3>1
    <3> QED
      BY <3>4, <3>5, <3>6 DEF ToolInv
  <2>14. CASE UNCHANGED vars
    <3>1. UNCHANGED <<enabled, installed, actionTools, planTools, discovery, poller, loop, stdin, stdout, connected, hostTools, changes, failures, calls>>
      BY <2>14 DEF vars
    <3>2. TypeOK'
      BY <3>1 DEF ToolInv, TypeOK
    <3>3. StartInv' /\ LoopInv' /\ PlanInv'
      BY <3>1 DEF ToolInv, StartInv, LoopInv, PlanInv, PlansLag, Single, Clear
    <3>4. HostListIsAnnounced'
      BY <2>h, <3>1
    <3> QED
      BY <3>2, <3>3, <3>4 DEF ToolInv
  <2> QED
    BY <2>1, <2>2, <2>3, <2>4, <2>5, <2>6, <2>7, <2>8, <2>9, <2>10, <2>11, <2>12, <2>13, <2>14
    DEF Next, Poll, Serve
<1> QED
  BY <1>1, <1>2, PTL DEF Spec

-----------------------------------------------------------------------------
(* The theorems.                                                           *)

(* Type correctness of the caches, the poller, the loop and the wire; no   *)
(* cached plan takes a built-in's name.                                    *)
THEOREM TypeCorrect == Spec => []TypeOK
<1>1. ToolInv => TypeOK
  BY DEF ToolInv
<1> QED
  BY <1>1, ToolInvariant, PTL

(* No change of a cache goes untold: when no notification and no request   *)
(* is under way, the list the host has or is being sent is the cached      *)
(* surface, whatever the order of swaps, responses and notifications.      *)
THEOREM ListAnnounced == Spec => []HostListIsAnnounced
<1>1. ToolInv => HostListIsAnnounced
  BY DEF ToolInv
<1> QED
  BY <1>1, ToolInvariant, PTL

(* A call of a tool that is still exposed runs that tool, unless an action *)
(* shares its name or the plans lag behind the actions.                    *)
THEOREM ExposedRuns == Spec => ExposedToolRuns
<1>1. ToolInv /\ [Next]_vars =>
        [\A i \in Items :
           loop.st = "read" /\ loop'.st = "call" /\ Head(stdin).item = i /\ i \in Surface
             => loop'.target = i \/ HasTwin(i) \/ PlansLag]_vars
  <2> SUFFICES ASSUME ToolInv, [Next]_vars, NEW i \in Items,
                      loop.st = "read", loop'.st = "call", Head(stdin).item = i, i \in Surface,
                      ~HasTwin(i), ~PlansLag
               PROVE  loop'.target = i
    OBVIOUS
  <2>1. handle
    <3>1. StartPlans => loop'.st = "read"
      BY DEF StartPlans, ToolInv, TypeOK
    <3>2. (Poll /\ ~StartPlans) \/ HostRead \/ HostCall \/ DaemonChange \/ UNCHANGED vars => loop' = loop
      BY DEF Poll, StartActions, RefreshActions, RefreshPlans, setActions, setFlightPlans, emitToolsListChanged,
             HostRead, HostCall, DaemonChange, vars
    <3>3. (EndCall => loop.st = "call") /\ (writeLine => loop.st = "write")
      BY DEF EndCall, writeLine
    <3> QED
      BY <3>1, <3>2, <3>3 DEF Next, Serve
  <2>2. loop'.target = dispatchTool(ToolName[i])
    BY <2>1 DEF handle
  <2> DEFINE n == ToolName[i]
             acts == {a \in actionTools : ToolName[a] = n}
             runs == {p \in planTools : ToolName[p] = n}
  <2>3. Single(planTools) /\ Clear(planTools, actionTools) /\ actionTools \subseteq Actions
    BY DEF ToolInv, PlanInv, TypeOK
  <2>4. CASE i \in actionTools
    <3>1. acts = {i}
      BY <2>3, <2>4 DEF HasTwin
    <3>2. dispatchTool(n) = CHOOSE a \in {i} : \A b \in {i} : Rank[b] <= Rank[a]
      BY <3>1 DEF dispatchTool
    <3>3. Rank[i] <= Rank[i]
      <4>1. Cardinality(Items) \in Nat
        BY ItemsAssumption, FS_CardinalityType
      <4>2. Rank[i] \in Nat
        BY <4>1, ItemsAssumption
      <4> QED
        BY <4>2
    <3> QED
      BY <2>2, <3>2, <3>3
  <2>5. CASE i \in planTools
    <3>1. acts = {} /\ runs = {i}
      BY <2>3, <2>5 DEF Single, Clear
    <3>2. dispatchTool(n) = CHOOSE p \in {i} : TRUE
      BY <3>1 DEF dispatchTool
    <3> QED
      BY <2>2, <3>2
  <2> QED
    BY <2>4, <2>5 DEF Surface
<1> QED
  BY <1>1, ToolInvariant, PTL DEF Spec, ExposedToolRuns
=============================================================================
