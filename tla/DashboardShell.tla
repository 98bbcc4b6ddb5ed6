---------------------------- MODULE DashboardShell ----------------------------
(***************************************************************************)
(* The browser's dashboards: the layout with its list and its selection    *)
(* (components/Layout.tsx), the menu that creates, copies, imports and     *)
(* deletes them (components/DashboardSelector.tsx) and the page that shows *)
(* the panels of the selected one (pages/DashboardPage.tsx).  Each request *)
(* is sent, served and answered in three steps; what the answer does is    *)
(* the handler's code after its await, run on whatever the page shows by   *)
(* then.                                                                   *)
(*                                                                         *)
(* One browser changes the dashboards.  Names, titles, the grid and the    *)
(* highlighting of panels are left out.                                    *)
(***************************************************************************)
EXTENDS FiniteSets, Lists

CONSTANTS Dashboards, Panels,
          NoDash,       \* the empty id
          InitialRows,  \* dashboards the server may start with
          Visited,      \* what may be stored as the last dashboard
          MaxCalls,     \* requests in flight at a time
          MaxActs       \* bound on what the user does

None == "none"
ShellFit == /\ InitialRows \subseteq Seq(Dashboards) /\ Visited \subseteq Dashboards \union {NoDash}
            /\ NoDash \notin Dashboards
            /\ None \notin Dashboards \union Panels /\ "failed" \notin Dashboards \union Panels
Unserved == <<"?">>
NoCall == [dash |-> NoDash, ans |-> <<>>, mixed |-> FALSE]

VARIABLES rows, home,             \* server: dashboards in order, and each panel's
          path, query,            \* route and its dashboard parameter
          dashboards, activeDashboardId, stored, dashboardsLoading,
          listCalls,              \* GETs of the list, each with what it will answer
          editMode, panelLibraryOpen,
          dialogs, busy,          \* the selector's
          panels, isLoadingLayout, layoutCall,    \* the page's
          calls,                  \* requests of handlers that await
          astray,                 \* the page may have missed a change of its panels
          overlapped,             \* an answer for the list was lost, or crossed a change
          raced,                  \* two changes of the list were under way at once
          nowhere,                \* a panel was sent where its dashboard has gone
          acts
server == <<rows, home>>
layout == <<path, query, dashboards, activeDashboardId, stored, dashboardsLoading, listCalls>>
modes == <<editMode, panelLibraryOpen, dialogs, busy>>
page == <<panels, isLoadingLayout, layoutCall>>
races == <<overlapped, raced, nowhere>>
vars == <<server, layout, modes, page, calls, astray, races, acts>>

Mounted == path = "dashboard"
Housed(d) == {p \in Panels : home[p] = d}
(* The server never gives an id again: an id that the page or a request    *)
(* still has is not free for a new row.                                    *)
Known == panels \union {c.panel : c \in calls} \union {c.made : c \in calls}
FreeDash == Dashboards \ (ToSet(rows) \union ToSet(dashboards) \union {c.dash : c \in calls}
                            \union {activeDashboardId, query})
FreePanels == {p \in Panels \ Known : home[p] = NoDash}
Budget == acts < MaxActs /\ acts' = acts + 1
Spins == dashboardsLoading \/ (dashboards # <<>> /\ isLoadingLayout)

-----------------------------------------------------------------------------
(* The page's effect on the selection: another dashboard, the end of the   *)
(* list's loading, or the page's own mount start a load, and cancel the    *)
(* one before.  ps are the panels in state until its answer.               *)
Same_Dash(a, loading, pth) == a = activeDashboardId
Same(a, loading, pth) == <<a, loading, pth>> = <<activeDashboardId, dashboardsLoading, path>>
Reload(a, loading, pth, ps) ==
    IF pth # "dashboard"
    THEN panels' = {} /\ isLoadingLayout' = TRUE /\ layoutCall' = NoCall
    ELSE IF Same(a, loading, pth)
    THEN panels' = ps /\ UNCHANGED <<isLoadingLayout, layoutCall>>
    ELSE /\ panels' = ps
         /\ isLoadingLayout' = (~Mounted \/ isLoadingLayout \/ (~loading /\ a # NoDash))
         /\ layoutCall' = IF loading \/ a = NoDash THEN NoCall ELSE [dash |-> a, ans |-> <<>>, mixed |-> calls' # {}]

(* A dashboard of the list that the URL names becomes the active one. *)
Named(ds, q, a) == IF q \in ToSet(ds) THEN q ELSE a

(* switchDashboard: the URL loses its parameters, in the same render or in *)
(* a later one; in between, the effect follows the URL back.               *)
SwitchTo(ds, id, ps) ==
    \E a \in {id, Named(ds, query, id)} :
        /\ activeDashboardId' = a
        /\ stored' = a
        /\ query' = NoDash
        /\ dashboards' = ds
        /\ Reload(a, dashboardsLoading, path, ps)

InFlight == listCalls # <<>>
(* The effect that asks for the list runs again when the list is replaced, *)
(* the selection or the URL changes; with a list, it does not ask.         *)
AsksAgain(anew) == dashboards' = <<>> /\ (anew \/ <<activeDashboardId', query'>> # <<activeDashboardId, query>>)

Init ==
    /\ rows \in InitialRows
    /\ home \in [Panels -> ToSet(rows) \union {NoDash}]
    /\ path = "dashboard"
    /\ query \in Dashboards \union {NoDash}
    /\ stored \in Visited
    /\ dashboards = <<>>
    /\ activeDashboardId = stored
    /\ dashboardsLoading = TRUE
    /\ listCalls = <<Unserved>>
    /\ editMode = FALSE /\ panelLibraryOpen = FALSE
    /\ dialogs = {} /\ busy = FALSE
    /\ panels = {} /\ isLoadingLayout = TRUE /\ layoutCall = NoCall
    /\ calls = {}
    /\ astray = FALSE /\ overlapped = FALSE /\ raced = FALSE /\ nowhere = FALSE
    /\ acts = 0

-----------------------------------------------------------------------------
(* The list of dashboards. *)
ServeList(i) ==
    /\ listCalls[i] = Unserved
    /\ listCalls' = [listCalls EXCEPT ![i] = rows]
    /\ UNCHANGED <<server, path, query, dashboards, activeDashboardId, stored,
                   dashboardsLoading, modes, page, calls, astray, races, acts>>

(* Its answer replaces the list, and selects the dashboard of the URL, the *)
(* one of the last visit, or the first; an empty one is asked for again.   *)
ListAnswered(i) ==
    LET list == listCalls[i]
        target == Named(list, query, stored)
        id == IF target \in ToSet(list) THEN target
              ELSE IF list = <<>> THEN NoDash ELSE list[1]
    IN /\ list # Unserved
       /\ dashboards' = list
       /\ activeDashboardId' = id
       /\ stored' = id
       /\ dashboardsLoading' = FALSE
       /\ UNCHANGED <<server, path, query, modes, calls, astray, raced, nowhere, acts>>
       /\ Reload(id, FALSE, path, panels)
       /\ listCalls' = IF AsksAgain(TRUE) THEN Append(RemoveAt(listCalls, i), Unserved) ELSE RemoveAt(listCalls, i)
       /\ overlapped' = (overlapped \/ dashboards # <<>> \/ calls # {})

(* A list that failed is not asked for again: the page goes on without.    *)
ListFailed(i) ==
    /\ listCalls' = RemoveAt(listCalls, i)
    /\ dashboardsLoading' = FALSE
    /\ overlapped' = TRUE
    /\ UNCHANGED <<server, path, query, dashboards, activeDashboardId, stored, modes, calls, astray,
                   raced, nowhere, acts>>
    /\ Reload(activeDashboardId, FALSE, path, panels)

(* The user follows a link: to a page, or to a dashboard by the URL.  The  *)
(* list is asked for again while there is none.                            *)
Navigate(pth, q) ==
    /\ Budget
    /\ <<pth, q>> # <<path, query>>
    /\ path' = pth /\ query' = q
    /\ IF pth = path THEN UNCHANGED modes
       ELSE editMode' = FALSE /\ panelLibraryOpen' = FALSE /\ dialogs' = {} /\ busy' = FALSE
    /\ activeDashboardId' = Named(dashboards, q, activeDashboardId)
    /\ stored' = IF q \in ToSet(dashboards) THEN q ELSE stored
    /\ calls' = IF pth = path THEN calls ELSE {[c EXCEPT !.here = FALSE] : c \in calls}
    /\ Reload(activeDashboardId', dashboardsLoading, pth, panels)
    /\ astray' = (astray /\ pth = path)
    /\ UNCHANGED <<server, dashboards, dashboardsLoading, races>>
    /\ listCalls' = IF AsksAgain(FALSE) THEN Append(listCalls, Unserved) ELSE listCalls

LibraryOpen_Kept(on) == panelLibraryOpen
LibraryOpen(on) == panelLibraryOpen /\ on
Edit(on) ==
    /\ Mounted /\ editMode # on
    /\ editMode' = on
    /\ panelLibraryOpen' = LibraryOpen(on)
    /\ UNCHANGED <<server, layout, dialogs, busy, page, calls, astray, races, acts>>
Library ==
    /\ Mounted /\ editMode
    /\ panelLibraryOpen' = ~panelLibraryOpen
    /\ UNCHANGED <<server, layout, editMode, dialogs, busy, page, calls, astray, races, acts>>

-----------------------------------------------------------------------------
(* The selector: what it offers, given its open menus and dialogs. *)
Selector == Mounted /\ ~dashboardsLoading
activeDashboard == activeDashboardId \in ToSet(dashboards)
Offers(item) ==
    /\ Selector
    /\ item \in {"rename", "delete", "duplicate"} => activeDashboard
    /\ item = "delete" => Len(dashboards) > 1

Open(item) ==
    /\ Offers(item)
    /\ dialogs = {}
    /\ dialogs' = {item}
    /\ UNCHANGED <<server, layout, editMode, panelLibraryOpen, busy, page, calls, astray,
                   races, acts>>
Close ==
    /\ dialogs # {}
    /\ dialogs' = {}
    /\ UNCHANGED <<server, layout, editMode, panelLibraryOpen, busy, page, calls, astray,
                   races, acts>>

Pick(d) ==
    /\ Selector /\ dialogs = {} /\ Budget
    /\ d \in ToSet(dashboards) /\ d # activeDashboardId
    /\ UNCHANGED <<server, path, dashboardsLoading, listCalls, modes, calls, astray, races>>
    /\ SwitchTo(dashboards, d, panels)

(* A handler of the selector sends its request, unless one of this mount's *)
(* is waiting.                                                             *)
Ask(op, dash, panel) ==
    /\ Cardinality(calls) < MaxCalls
    /\ LET c == [op |-> op, dash |-> dash, panel |-> panel, made |-> None, here |-> TRUE]
       IN c \notin calls /\ calls' = calls \union {c}

Creating == {"create", "template", "import", "duplicate"}
Changes == Creating \union {"delete"}
Submit(op) ==
    /\ Selector /\ ~busy /\ Budget
    /\ CASE op \in {"create", "template"} -> "create" \in dialogs
         [] op \in {"rename", "delete"} -> op \in dialogs /\ activeDashboard
         [] op = "import" -> dialogs = {}
         [] op = "duplicate" -> dialogs = {} /\ Offers("duplicate")
    /\ busy' = TRUE
    /\ Ask(op, activeDashboardId, None)
    /\ raced' = (raced \/ (op \in Changes /\ \E c \in calls : c.op \in Changes))
    /\ UNCHANGED <<server, layout, editMode, panelLibraryOpen, dialogs, page, astray, overlapped, nowhere>>

(* The page and its panels: add, duplicate, move, copy and delete. *)
Panel(op, p, target) ==
    /\ Mounted /\ ~isLoadingLayout /\ activeDashboardId # NoDash /\ dialogs = {} /\ Budget
    /\ IF op = "add" THEN panelLibraryOpen /\ p = None ELSE p \in panels
    /\ op \in {"move", "copy"} => target \in ToSet(dashboards) \ {activeDashboardId}
    /\ op \notin {"move", "copy"} => target = activeDashboardId
    /\ panelLibraryOpen' = (panelLibraryOpen /\ op # "add")
    /\ Ask(op, target, p)
    /\ UNCHANGED <<server, layout, editMode, dialogs, busy, page, astray, races>>

-----------------------------------------------------------------------------
(* The server carries a request out, or refuses it. *)
Refuse(c) ==
    /\ calls' = (calls \ {c}) \union {[c EXCEPT !.made = "failed"]}
    /\ UNCHANGED server
Serve(c) ==
    /\ c.made = None
    /\ \/ Refuse(c)
       \/ \E made \in Dashboards \union Panels :
            /\ calls' = (calls \ {c}) \union {[c EXCEPT !.made = made]}
            /\ CASE c.op \in Creating ->
                       /\ made \in FreeDash
                       /\ rows' = Append(rows, made)
                       /\ \E ps \in SUBSET FreePanels :
                             /\ Cardinality(ps) <= (IF c.op = "create" THEN 0
                                                    ELSE IF c.op \in {"template", "import"} THEN 1
                                                    ELSE Cardinality(Housed(c.dash)))
                             /\ home' = [p \in Panels |-> IF p \in ps THEN made ELSE home[p]]
                 [] c.op = "delete" ->
                       /\ made = c.dash /\ made \in ToSet(rows) /\ Len(rows) > 1
                       /\ rows' = Kept(rows, Dashboards \ {made})
                       /\ home' = [p \in Panels |-> IF home[p] = made THEN NoDash ELSE home[p]]
                 [] c.op \in {"add", "panel copy", "copy"} ->
                       /\ made \in FreePanels /\ c.dash \in ToSet(rows)
                       /\ home' = [home EXCEPT ![made] = c.dash] /\ UNCHANGED rows
                 [] c.op = "move" ->
                       /\ made = c.panel /\ home[made] # NoDash /\ c.dash \in ToSet(rows)
                       /\ home' = [home EXCEPT ![made] = c.dash] /\ UNCHANGED rows
                 [] c.op = "rename" -> made = c.dash /\ made \in ToSet(rows) /\ UNCHANGED server
                 [] c.op = "remove" ->
                       /\ made = c.panel
                       /\ home' = [home EXCEPT ![made] = NoDash] /\ UNCHANGED rows
    /\ UNCHANGED <<layout, modes, page, astray, races, acts>>

(* What the list and the page are told of an answer. *)
Remaining(d) == Kept(dashboards, Dashboards \ {d})
Following(list) == IF list = <<>> THEN NoDash ELSE list[1]
PanelsAfter_Removed(c) == panels \ {c.panel}
PanelsAfter(c) == IF c.op = "remove" THEN panels \ {c.panel} ELSE panels \union {c.made}

(* A dialog that is left open is its own handler's to close; that of an    *)
(* imported file has none, and opens the create dialog to say it failed.   *)
OwnDialog(op) == IF op \in {"create", "template"} THEN {"create"} ELSE {op} \intersect {"rename", "delete"}
Dialogs(op, ok) == IF ok THEN dialogs \ OwnDialog(op)
                   ELSE IF op = "import" THEN dialogs \union {"create"} ELSE dialogs

(* The handler goes on after its await.  What it does to the layout's list *)
(* happens even if its own component has gone.                             *)
Answered(c) ==
    LET ok == c.made # "failed"
        selector == c.op \in Changes \union {"rename"}
        gone == ok /\ c.op \in {"move", "copy"} /\ c.dash \notin ToSet(dashboards)
        mine(s) == IF c.here THEN s ELSE panels
    IN /\ c.made # None
       /\ calls' = calls \ {c}
       /\ CASE ok /\ c.op \in Creating ->
                  SwitchTo(Append(dashboards, c.made), c.made, panels)
            [] ok /\ c.op = "delete" ->
                  SwitchTo(Remaining(c.dash), Following(Remaining(c.dash)), panels)
            [] ok /\ c.op = "move" -> SwitchTo(dashboards, c.dash, mine(panels \ {c.panel}))
            [] ok /\ c.op = "copy" -> SwitchTo(dashboards, c.dash, panels)
            [] ok /\ c.op \in {"add", "panel copy", "remove"} ->
                  /\ panels' = mine(PanelsAfter(c))
                  /\ UNCHANGED <<query, dashboards, activeDashboardId, stored, isLoadingLayout,
                                 layoutCall>>
            [] ~ok \/ c.op = "rename" -> UNCHANGED <<query, dashboards, activeDashboardId, stored, page>>
       /\ busy' = (busy /\ ~(selector /\ c.here))
       /\ dialogs' = IF selector /\ c.here THEN Dialogs(c.op, ok) ELSE dialogs
       /\ astray' = (astray \/ (~selector /\ (layoutCall # NoCall \/ c.dash # activeDashboardId)
                                /\ c.op \in {"add", "panel copy", "remove"}))
       /\ overlapped' = (overlapped \/ InFlight)
       /\ nowhere' = (nowhere \/ gone)
       /\ listCalls' = IF AsksAgain(ok /\ selector) THEN Append(listCalls, Unserved) ELSE listCalls
       /\ UNCHANGED <<server, path, dashboardsLoading, editMode, panelLibraryOpen, raced, acts>>

(* The load of a dashboard's panels: served, answered, or failed, which    *)
(* leaves the panels that were there.                                      *)
ServeLayout ==
    /\ layoutCall # NoCall /\ layoutCall.ans = <<>>
    /\ layoutCall' = [layoutCall EXCEPT !.ans = <<Housed(layoutCall.dash)>>]
    /\ UNCHANGED <<server, layout, modes, panels, isLoadingLayout, calls, astray, races, acts>>
LayoutAnswered ==
    /\ layoutCall # NoCall
    /\ layoutCall' = NoCall
    /\ isLoadingLayout' = FALSE
    /\ \/ /\ layoutCall.ans # <<>>
          /\ panels' = layoutCall.ans[1]
          /\ astray' = layoutCall.mixed
       \/ /\ layoutCall.ans = <<>>
          /\ UNCHANGED panels
          /\ astray' = TRUE
    /\ UNCHANGED <<server, layout, modes, calls, races, acts>>

Next ==
    \/ \E i \in DOMAIN listCalls : ServeList(i) \/ ListAnswered(i) \/ ListFailed(i)
    \/ \E pth \in {"dashboard", "other"}, q \in Dashboards \union {NoDash} : Navigate(pth, q)
    \/ \E on \in BOOLEAN : Edit(on)
    \/ Library \/ Close
    \/ \E item \in {"create", "rename", "delete"} : Open(item)
    \/ \E d \in Dashboards : Pick(d)
    \/ \E op \in Changes \union {"rename"} : Submit(op)
    \/ \E op \in {"add", "panel copy", "copy", "move", "remove"}, p \in Panels \union {None},
          d \in Dashboards : Panel(op, p, d)
    \/ \E c \in calls : Serve(c) \/ Answered(c)
    \/ ServeLayout \/ LayoutAnswered

(* Every request is answered. *)
Fairness ==
    /\ WF_vars(\E i \in DOMAIN listCalls : ServeList(i) \/ ListAnswered(i))
    /\ WF_vars(ServeLayout) /\ WF_vars(LayoutAnswered)
Spec == Init /\ [][Next]_vars /\ Fairness

-----------------------------------------------------------------------------
TypeOK ==
    /\ ToSet(rows) \union ToSet(dashboards) \subseteq Dashboards
    /\ home \in [Panels -> Dashboards \union {NoDash}]
    /\ {query, activeDashboardId, stored} \subseteq Dashboards \union {NoDash}
    /\ panels \subseteq Panels
    /\ {dashboardsLoading, isLoadingLayout, editMode, panelLibraryOpen, busy, astray,
        overlapped, raced, nowhere} \subseteq BOOLEAN
    /\ dialogs \subseteq {"create", "rename", "delete"}
    /\ panelLibraryOpen => editMode /\ Mounted

Quiet == calls = {} /\ ~InFlight /\ layoutCall = NoCall

(* The selection is never a dashboard the list does not have, after any    *)
(* order of creating, deleting, switching and links, and a reload of the   *)
(* page opens the same one; only an answer to a list request that crossed  *)
(* a change of the list, or that never came, or a panel sent to a          *)
(* dashboard that was deleted meanwhile, may leave them apart.             *)
ActiveKnown ==
    /\ stored = activeDashboardId
    /\ ~dashboardsLoading /\ ~overlapped /\ ~nowhere =>
          IF dashboards = <<>> THEN activeDashboardId = NoDash
          ELSE activeDashboardId \in ToSet(dashboards)

(* When nothing is in flight the list has the dashboards of the server,    *)
(* unless an answer to a list request was lost or crossed a change of the  *)
(* list; and in the server's order, unless two changes of the list were    *)
(* under way at once, as they may be after leaving the page.               *)
ListInStep ==
    Quiet /\ ~dashboardsLoading /\ ~overlapped =>
        /\ ToSet(dashboards) = ToSet(rows)
        /\ ~raced => dashboards = rows

(* When nothing is in flight the page shows the panels of the selected     *)
(* dashboard, unless the last load failed or crossed a request, or a       *)
(* panel's request was answered after the user had turned elsewhere.       *)
PageInStep ==
    Quiet /\ Mounted /\ ~Spins /\ ~astray /\ activeDashboardId # NoDash
        => panels = Housed(activeDashboardId)

(* The page does not load for ever. *)
Still == Mounted => ~Spins
=============================================================================
