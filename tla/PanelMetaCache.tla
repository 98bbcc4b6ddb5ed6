----------------------------- MODULE PanelMetaCache -----------------------------
(***************************************************************************)
(* The titles that messages carry (ws/hub.go): a fan-out looks the panel a *)
(* message came from up in a cache, and in the database if it is not       *)
(* there, with no lock around the two; whoever changes a panel writes its  *)
(* row and takes it out of the cache afterwards.                           *)
(*                                                                         *)
(* A row is its title and its dashboard.  Ids are uuids and used once.     *)
(* Left out: the other columns, failing statements, and the panels the     *)
(* demo's reset and the MCP server put in place of those they delete,      *)
(* which are new.                                                          *)
(***************************************************************************)
EXTENDS Naturals, FiniteSets

CONSTANTS Routers, Panels, Dashboards, Titles,
          Default,      \* the dashboard the demo's reset keeps
          MaxWrites,    \* requests that change panels
          MaxRestarts

Meta(t, d) == [title |-> t, dashboard |-> d]
NoRow == Meta("none", "none")      \* no row; in the cache: known not to exist
Uncached == Meta("?", "?")
Unsent == "unsent"                 \* a request without a title
Asleep == [at |-> "idle", panel |-> "none", meta |-> NoRow]

VARIABLES row, dashboards, used,   \* the database, and the ids ever given out
          cache,                   \* panelMetaCache
          router,                  \* the fan-out of each broker, in resolvePanelMeta
          tasks,                   \* requests at work
          writes, restarts,
          crossed,                 \* ghost: a fan-out held the row when it was written
          missed                   \* ghost: deleted with a dashboard, and not collected
vars == <<row, dashboards, used, cache, router, tasks, writes, restarts, crossed, missed>>

On(d) == {p \in Panels : row[p] # NoRow /\ row[p].dashboard = d}

Init ==
    /\ dashboards = Dashboards
    /\ \E p \in Panels, t \in Titles, d \in Dashboards :
          used = {p} /\ row = [q \in Panels |-> IF q = p THEN Meta(t, d) ELSE NoRow]
    /\ cache = [p \in Panels |-> Uncached] /\ router = [r \in Routers |-> Asleep]
    /\ tasks = {} /\ writes = 0 /\ restarts = 0 /\ crossed = {} /\ missed = {}

-----------------------------------------------------------------------------
(* resolvePanelMeta: a panel that is not cached is looked up, and what was *)
(* found is stored, also that there is nothing.                            *)
Miss(r, p) ==
    /\ router[r] = Asleep /\ p \in used /\ cache[p] = Uncached
    /\ router' = [router EXCEPT ![r] = [at |-> "asks", panel |-> p, meta |-> NoRow]]
    /\ UNCHANGED <<row, dashboards, used, cache, tasks, writes, restarts, crossed, missed>>
Query(r) ==
    /\ router[r].at = "asks"
    /\ router' = [router EXCEPT ![r] = [at |-> "stores", panel |-> @.panel, meta |-> row[@.panel]]]
    /\ UNCHANGED <<row, dashboards, used, cache, tasks, writes, restarts, crossed, missed>>
Store(r) ==
    /\ router[r].at = "stores"
    /\ cache' = [cache EXCEPT ![router[r].panel] = router[r].meta]
    /\ router' = [router EXCEPT ![r] = Asleep]
    /\ UNCHANGED <<row, dashboards, used, tasks, writes, restarts, crossed, missed>>
Held == {router[r].panel : r \in {s \in Routers : router[s].at = "stores"}}

-----------------------------------------------------------------------------
(* A request: what it does, to which panels, and with what it has read or  *)
(* was sent.                                                               *)
Begin(does, panels, with) ==
    /\ writes < MaxWrites /\ writes' = writes + 1
    /\ tasks' = tasks \cup {[id |-> writes, does |-> does, panels |-> panels, with |-> with]}
    /\ UNCHANGED <<row, dashboards, used, cache, router, restarts, crossed, missed>>

(* UpdatePanel reads the row first, and writes back the title it was not   *)
(* sent; MovePanel looks for the dashboard first.                          *)
UpdatePanel(p, t) == row[p] # NoRow /\ Begin("rename", {p}, IF t = Unsent THEN row[p].title ELSE t)
MovePanel(p, d) == d \in dashboards /\ row[p] # NoRow /\ row[p].dashboard # d /\ Begin("move", {p}, d)
DeletePanel(p) == Begin("delete", {p}, Unsent)
(* The panels of a dashboard are collected before the transaction; the     *)
(* last dashboard is not deleted.                                          *)
DeleteDashboard(d) == d \in dashboards /\ Cardinality(dashboards) > 1 /\ Begin("drop", On(d), d)
ReplacePanels(d) == d \in dashboards /\ Begin("empty", On(d), d)
ResetDatabase == Begin("reset", Panels, Unsent)

(* The row is written, and if there was none to delete the request ends.   *)
Written(k) ==
    CASE k.does = "rename" -> [p \in Panels |-> IF p \in k.panels /\ row[p] # NoRow THEN Meta(k.with, row[p].dashboard) ELSE row[p]]
      [] k.does = "move" -> [p \in Panels |-> IF p \in k.panels /\ row[p] # NoRow THEN Meta(row[p].title, k.with) ELSE row[p]]
      [] k.does = "delete" -> [p \in Panels |-> IF p \in k.panels THEN NoRow ELSE row[p]]
      [] k.does \in {"drop", "empty"} -> [p \in Panels |-> IF p \in On(k.with) THEN NoRow ELSE row[p]]
      [] k.does = "reset" -> [p \in Panels |-> NoRow]
Left(k) ==
    CASE k.does = "drop" -> dashboards \ {k.with}
      [] k.does = "reset" -> dashboards \cap {Default}
      [] OTHER -> dashboards
NotThere(k) ==
    \/ k.does = "delete" /\ \A p \in k.panels : row[p] = NoRow
    \/ k.does = "drop" /\ k.with \notin dashboards
Write(k) ==
    LET changed == {p \in Panels : Written(k)[p] # row[p]} IN
    /\ k.does # "clear"
    /\ tasks' = (tasks \ {k}) \cup IF NotThere(k) \/ k.panels = {} THEN {} ELSE {[k EXCEPT !.does = "clear"]}
    /\ IF NotThere(k) THEN UNCHANGED <<row, dashboards, crossed, missed>>
       ELSE /\ row' = Written(k)
            /\ dashboards' = Left(k)
            /\ crossed' = crossed \cup (changed \cap Held)
            /\ missed' = missed \cup (changed \ k.panels)
    /\ UNCHANGED <<used, cache, router, writes, restarts>>

(* InvalidatePanelMeta, one panel after the other; the reset clears them   *)
(* all in the same way.                                                    *)
Invalidate(k, p) ==
    /\ k.does = "clear" /\ p \in k.panels
    /\ cache' = [cache EXCEPT ![p] = Uncached]
    /\ tasks' = (tasks \ {k}) \cup (IF k.panels = {p} THEN {} ELSE {[k EXCEPT !.panels = @ \ {p}]})
    /\ crossed' = crossed \ ({p} \ Held) /\ missed' = missed \ ({p} \ Held)
    /\ UNCHANGED <<row, dashboards, used, router, writes, restarts>>

(* CreatePanel does not ask whether there is such a dashboard. *)
CreatePanel(p, t, d) ==
    /\ p \notin used /\ used' = used \cup {p}
    /\ row' = [row EXCEPT ![p] = Meta(t, d)]
    /\ UNCHANGED <<dashboards, cache, router, tasks, writes, restarts, crossed, missed>>

Restart ==
    /\ restarts < MaxRestarts /\ restarts' = restarts + 1
    /\ cache' = [p \in Panels |-> Uncached] /\ router' = [r \in Routers |-> Asleep] /\ tasks' = {}
    /\ crossed' = {} /\ missed' = {} /\ UNCHANGED <<row, dashboards, used, writes>>

Lookup(r) == (\E p \in Panels : Miss(r, p)) \/ Query(r) \/ Store(r)
Ask ==
    \/ \E p \in Panels : \/ \E t \in Titles \cup {Unsent} : UpdatePanel(p, t)
                         \/ \E d \in Dashboards : MovePanel(p, d)
                         \/ p \in used /\ DeletePanel(p)
                         \/ \E t \in Titles, d \in Dashboards : CreatePanel(p, t, d)
    \/ \E d \in Dashboards : DeleteDashboard(d) \/ ReplacePanels(d)
    \/ ResetDatabase
Step(k) == Write(k) \/ \E p \in k.panels : Invalidate(k, p)
Next == (\E r \in Routers : Lookup(r)) \/ Ask \/ (\E k \in tasks : Step(k)) \/ Restart

(* Routers and requests run on.                                            *)
Fairness == (\A r \in Routers : WF_vars(Query(r) \/ Store(r))) /\ WF_vars(\E k \in tasks : Step(k))
Spec == Init /\ [][Next]_vars /\ Fairness

-----------------------------------------------------------------------------
(* The shapes of rows and entries; only ids that were given out have any.  *)
TypeOK ==
    /\ \A p \in Panels : row[p] \in {NoRow} \cup [title : Titles, dashboard : Dashboards]
    /\ \A p \in Panels : cache[p] \in {NoRow, Uncached} \cup [title : Titles, dashboard : Dashboards]
    /\ \A p \in Panels \ used : row[p] = NoRow /\ cache[p] = Uncached
    /\ dashboards \subseteq Dashboards
    /\ \A k \in tasks : k.panels \subseteq Panels /\ k.id < writes

(* hub.go:257: what is cached of a panel is its row, unless somebody is    *)
(* about to take it out, a fan-out held the row while it was written, or   *)
(* its dashboard was deleted with it after its panels had been collected.  *)
ToClear == UNION {k.panels : k \in {j \in tasks : j.does = "clear"}}
CacheFresh == \A p \in Panels \ (ToClear \cup crossed \cup missed) : cache[p] \in {Uncached, row[p]}

(* Requests end, and no fan-out stays at the database.                     *)
Rested == tasks = {} /\ \A r \in Routers : router[r] = Asleep
================================================================================
