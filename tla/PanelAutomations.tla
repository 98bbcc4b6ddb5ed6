--------------------------- MODULE PanelAutomations ---------------------------
(***************************************************************************)
(* The automation of a panel lives twice: in the panel's row of            *)
(* dashboard_layouts, and as a rule of the logic engine or a job of the    *)
(* cron scheduler, registered under the panel's id.  The HTTP handlers     *)
(* (backend/handlers), the engine's trip callback (backend/main.go) and    *)
(* the loaders edit the two with separate calls, each atomic by itself:    *)
(* the database has one connection, the engine and the scheduler a mutex.  *)
(* No lock and no transaction spans both.                                  *)
(***************************************************************************)
EXTENDS Naturals, FiniteSets

CONSTANTS Panels, Dashboards,   \* fresh uuids: an id is given out once
          Default,              \* the dashboard InitDB makes sure exists
          Bodies,               \* automation configurations, without the enabled flag
          Loadable,             \* those that name a source topic or a cron expression
          Rejected,             \* those AddRule or AddJob refuses
          Workers               \* handlers and trip callbacks that may run at once

ASSUME PanelsAssumption == /\ Default \in Dashboards
                           /\ Loadable \subseteq Bodies /\ Rejected \subseteq Bodies
                           /\ "blank" \notin Bodies /\ "none" \notin Dashboards

VARIABLES dashboards,  \* rows of dashboards
          row,         \* rows of dashboard_layouts: dashboard, body and flag of config_json
          live,        \* Engine.rules or Scheduler.jobs
          task,        \* what each handler is doing
          used,        \* ids given out
          cron,        \* the panels whose panel_type is cron; the others are logic panels
          excused      \* ghost: panels on which requests overlapped, or that were unregistered

vars == <<dashboards, row, live, task, used, cron, excused>>

NoRow   == [dash |-> "none", body |-> "blank", on |-> FALSE]
NoRule  == [body |-> "blank", on |-> FALSE]
Configs == [body : Bodies \cup {"blank"}, on : BOOLEAN]
Rows    == [dash : Dashboards, body : Bodies \cup {"blank"}, on : BOOLEAN] \cup {NoRow}

Stored(p)     == row[p] # NoRow
Registered(p) == live[p] # NoRule
Config(p)     == [body |-> row[p].body, on |-> row[p].on]

\* A handler at work: the step it is at, its panel, the configuration it carries,
\* the dashboard it concerns and the panels it has still to go through.
Steps == {"fetch", "store", "apply", "upsert", "flip", "reschedule", "recover", "readd",
          "reread", "rewrite", "drop", "erase", "insert", "move", "count", "collect",
          "cascade", "cleanup", "register"}
Ops   == {"save", "pin", "title", "toggle", "trip", "status", "delete", "copy", "move",
          "cascade", "import"}
Tasks == [op : Ops, at : Steps, on : SUBSET Panels, want : Configs, dash : Dashboards,
          left : SUBSET Panels]
Idle  == [op |-> "none", on |-> {}]

TypeOK ==
  /\ dashboards \subseteq Dashboards
  /\ row \in [Panels -> Rows]
  /\ live \in [Panels -> [body : Bodies \ Rejected, on : BOOLEAN] \cup {NoRule}]
  /\ task \in [Workers -> Tasks \cup {Idle}]
  /\ used \subseteq Panels \cup Dashboards /\ cron \subseteq Panels
  /\ excused \subseteq Panels

Init ==
  /\ dashboards = {Default} /\ used = {Default}
  /\ row = [p \in Panels |-> NoRow] /\ live = [p \in Panels |-> NoRule]
  /\ task = [w \in Workers |-> Idle] /\ cron = {} /\ excused = {}

Busy(w) == task[w] # Idle
Touched == UNION {task[w].on : w \in Workers}

Task(op, at, on, want, d) ==
  [op |-> op, at |-> at, on |-> on, want |-> want, dash |-> d, left |-> {}]
Begin(w, t) ==
  /\ ~Busy(w)
  /\ task' = [task EXCEPT ![w] = t]
  /\ excused' = excused \cup (t.on \cap Touched)

At(w, step)   == Busy(w) /\ task[w].at = step
Goto(w, step) == task' = [task EXCEPT ![w].at = step]
With(w, step, want) == task' = [task EXCEPT ![w].at = step, ![w].want = want]
End(w)        == task' = [task EXCEPT ![w] = Idle]
Panel(w)      == CHOOSE p \in task[w].on : TRUE

\* UPDATE ... SET config_json WHERE id: a row that is gone stays gone.
Update(p, c) == row' = IF Stored(p) THEN [row EXCEPT ![p] = [dash |-> row[p].dash,
                                                             body |-> c.body, on |-> c.on]]
                       ELSE row

-----------------------------------------------------------------------------
(* What the pages ask for.                                                  *)

\* POST /api/layouts.  The dashboard is not looked up.
CreatePanel(p, d) ==
  /\ p \notin used /\ d \in used
  /\ cron' \in {cron, cron \cup {p}}
  /\ row' = [row EXCEPT ![p] = [dash |-> d, body |-> "blank", on |-> FALSE]]
  /\ used' = used \cup {p}
  /\ UNCHANGED <<dashboards, live, task, excused>>

\* PanelWrapper.saveConfig: PUT /api/layouts/{id}, and if that succeeds
\* POST /api/logic/{id} or /api/cron/{id}.
Save(w, p, b, on) ==
  /\ p \in used
  /\ Begin(w, Task("save", "fetch", {p}, [body |-> b, on |-> on], Default))
  /\ UNCHANGED <<dashboards, row, live, used, cron>>

\* PanelWrapper.updateMetaPinned: the page sends back its copy of the config.
Pin(w, p) ==
  /\ Stored(p)
  /\ Begin(w, Task("pin", "fetch", {p}, Config(p), Default))
  /\ UNCHANGED <<dashboards, row, live, used, cron>>

\* PanelWrapper.saveTitle: the config is left out of the request.
SaveTitle(w, p) ==
  /\ p \in used
  /\ Begin(w, Task("title", "fetch", {p}, NoRule, Default))
  /\ UNCHANGED <<dashboards, row, live, used, cron>>

\* PUT .../{id}/toggle of logic, cron and automations.
Toggle(w, p, on) ==
  /\ p \in used
  /\ Begin(w, Task("toggle", "flip", {p}, [body |-> "blank", on |-> on], Default))
  /\ UNCHANGED <<dashboards, row, live, used, cron>>

\* GET /api/logic/{id} or /api/cron/{id}, which pages poll, when nothing is registered.
PollStatus(w, p) ==
  /\ p \in used /\ ~Registered(p)
  /\ Begin(w, Task("status", "recover", {p}, NoRule, Default))
  /\ UNCHANGED <<dashboards, row, live, used, cron>>

\* DELETE /api/logic/{id} or /api/cron/{id}: the row keeps its configuration.
Unregister(p) ==
  /\ Registered(p)
  /\ live' = [live EXCEPT ![p] = NoRule]
  /\ excused' = excused \cup {p}
  /\ UNCHANGED <<dashboards, row, task, used, cron>>

DeletePanel(w, p) ==
  /\ p \in used
  /\ Begin(w, Task("delete", "drop", {p}, NoRule, Default))
  /\ UNCHANGED <<dashboards, row, live, used, cron>>

\* DuplicatePanel, and CopyPanelTo once it has found the target dashboard.
Copy(w, p, q, d) ==
  /\ Stored(p) /\ q \notin used
  /\ cron' = IF p \in cron THEN cron \cup {q} ELSE cron
  /\ d \in dashboards \cup {row[p].dash}
  /\ Begin(w, Task("copy", "insert", {q}, Config(p), d))
  /\ used' = used \cup {q}
  /\ UNCHANGED <<dashboards, row, live>>

MovePanel(w, p, d) ==
  /\ Stored(p) /\ d \in dashboards /\ row[p].dash # d
  /\ Begin(w, Task("move", "move", {p}, NoRule, d))
  /\ UNCHANGED <<dashboards, row, live, used, cron>>

CreateDashboard(d) ==
  /\ d \notin used
  /\ dashboards' = dashboards \cup {d} /\ used' = used \cup {d}
  /\ UNCHANGED <<row, live, task, cron, excused>>

\* One transaction stores the dashboard and its panels; their rules and jobs
\* follow.  A rule without a source topic of its own is not registered.
ImportDashboard(w, d, p, b, on) ==
  /\ d \notin used /\ p \notin used
  /\ cron' \in {cron, cron \cup {p}}
  /\ dashboards' = dashboards \cup {d} /\ used' = used \cup {d, p}
  /\ row' = [row EXCEPT ![p] = [dash |-> d, body |-> b, on |-> on]]
  /\ IF b \in Loadable
     THEN Begin(w, Task("import", "register", {p}, [body |-> b, on |-> on], d))
     ELSE UNCHANGED <<task, excused>>
  /\ UNCHANGED live

DeleteDashboard(w, d) ==
  /\ d \in used
  /\ Begin(w, Task("cascade", "count", Panels, NoRule, d))
  /\ UNCHANGED <<dashboards, row, live, used, cron>>

\* tryFireActionLocked switches the rule off and starts the callback.
Trip(w, p) ==
  /\ p \notin cron /\ live[p].on
  /\ live' = [live EXCEPT ![p].on = FALSE]
  /\ Begin(w, Task("trip", "reread", {p}, NoRule, Default))
  /\ UNCHANGED <<dashboards, row, used, cron>>

-----------------------------------------------------------------------------
(* The handlers, one call at a time.                                        *)

\* UpdatePanel reads the row; what the request leaves out keeps its value.
Fetch(w) ==
  LET p == Panel(w) IN
  /\ At(w, "fetch")
  /\ IF ~Stored(p) THEN End(w)
     ELSE With(w, "store", IF task[w].op = "title" THEN Config(p) ELSE task[w].want)
  /\ UNCHANGED <<dashboards, row, live, used, cron, excused>>

Store(w) ==
  /\ At(w, "store")
  /\ Update(Panel(w), task[w].want)
  /\ Goto(w, "apply")
  /\ UNCHANGED <<dashboards, live, used, cron, excused>>

\* AddRule or AddJob, whose validation comes before any change.
Accepts(b)     == b \in Bodies \ Rejected

\* Mutant: the configuration is not validated.
Register_Unchecked(p, c) == live' = [live EXCEPT ![p] = c]
Register(p, c) == live' = IF Accepts(c.body) THEN [live EXCEPT ![p] = c] ELSE live

\* UpdatePanel hands a logic panel's rule to the engine and ignores the error; a
\* cron panel's job it leaves alone.
Apply(w) ==
  LET p == Panel(w) IN
  /\ At(w, "apply")
  /\ IF p \in cron THEN UNCHANGED live ELSE Register(p, task[w].want)
  /\ IF task[w].op = "save" THEN Goto(w, "upsert") ELSE End(w)
  /\ UNCHANGED <<dashboards, row, used, cron, excused>>

\* UpsertLogic, UpsertCron: register, then store.
Upsert(w) ==
  /\ At(w, "upsert")
  /\ Register(Panel(w), task[w].want)
  /\ IF Accepts(task[w].want.body) THEN Goto(w, "rewrite") ELSE End(w)
  /\ UNCHANGED <<dashboards, row, used, cron, excused>>

\* ToggleRule flips the flag in place; ToggleJob looks the job up, lets go of the
\* lock and adds it anew.
Flip(w) ==
  LET p == Panel(w) IN
  /\ At(w, "flip")
  /\ \/ /\ ~Registered(p) /\ Goto(w, "recover") /\ UNCHANGED live
     \/ /\ Registered(p) /\ p \notin cron
        /\ live' = [live EXCEPT ![p].on = task[w].want.on]
        /\ Goto(w, "reread")
     \/ /\ Registered(p) /\ p \in cron
        /\ With(w, "reschedule", [body |-> live[p].body, on |-> task[w].want.on])
        /\ UNCHANGED live
  /\ UNCHANGED <<dashboards, row, used, cron, excused>>

Reschedule(w) ==
  /\ At(w, "reschedule")
  /\ live' = [live EXCEPT ![Panel(w)] = task[w].want]
  /\ Goto(w, "reread")
  /\ UNCHANGED <<dashboards, row, used, cron, excused>>

\* Lazy recovery: the stored configuration is registered, with the flag a toggle
\* asked for or the stored one.
Recover(w) ==
  LET p == Panel(w) IN
  /\ At(w, "recover")
  /\ IF row[p].body = "blank" THEN End(w)
     ELSE With(w, "readd", [body |-> row[p].body,
                            on |-> IF task[w].op = "toggle" THEN task[w].want.on ELSE row[p].on])
  /\ UNCHANGED <<dashboards, row, live, used, cron, excused>>

Readd(w) ==
  /\ At(w, "readd")
  /\ Register(Panel(w), task[w].want)
  /\ IF Accepts(task[w].want.body) /\ task[w].op = "toggle" THEN Goto(w, "reread") ELSE End(w)
  /\ UNCHANGED <<dashboards, row, used, cron, excused>>

\* A toggle or a trip reads the config, to write it back with the new flag.
Reread(w) ==
  LET p == Panel(w) IN
  /\ At(w, "reread")
  /\ IF Stored(p) THEN With(w, "rewrite", [body |-> row[p].body, on |-> task[w].want.on]) ELSE End(w)
  /\ UNCHANGED <<dashboards, row, live, used, cron, excused>>

\* Mutant: INSERT OR REPLACE.
Rewrite_Inserts(w) ==
  /\ At(w, "rewrite")
  /\ row' = [row EXCEPT ![Panel(w)] = [dash |-> Default, body |-> task[w].want.body,
                                       on |-> task[w].want.on]]
  /\ End(w)
  /\ UNCHANGED <<dashboards, live, used, cron, excused>>

Rewrite(w) ==
  /\ At(w, "rewrite")
  /\ Update(Panel(w), task[w].want)
  /\ End(w)
  /\ UNCHANGED <<dashboards, live, used, cron, excused>>

\* DeletePanel takes the rule or the job away, then the row.
Drop(w) ==
  /\ At(w, "drop")
  /\ live' = [live EXCEPT ![Panel(w)] = NoRule]
  /\ Goto(w, "erase")
  /\ UNCHANGED <<dashboards, row, used, cron, excused>>

Erase(w) ==
  /\ At(w, "erase")
  /\ row' = [row EXCEPT ![Panel(w)] = NoRow]
  /\ End(w)
  /\ UNCHANGED <<dashboards, live, used, cron, excused>>

\* duplicatePanelTo stores the copy, then registers it.
Insert(w) ==
  LET t == task[w] IN
  /\ At(w, "insert")
  /\ row' = [row EXCEPT ![Panel(w)] = [dash |-> t.dash, body |-> t.want.body, on |-> t.want.on]]
  /\ Goto(w, "register")
  /\ UNCHANGED <<dashboards, live, used, cron, excused>>

RegisterCopy(w) ==
  /\ At(w, "register")
  /\ Register(Panel(w), task[w].want)
  /\ End(w)
  /\ UNCHANGED <<dashboards, row, used, cron, excused>>

MoveRow(w) ==
  LET p == Panel(w) IN
  /\ At(w, "move")
  /\ row' = IF Stored(p) THEN [row EXCEPT ![p].dash = task[w].dash] ELSE row
  /\ End(w)
  /\ UNCHANGED <<dashboards, live, used, cron, excused>>

\* DeleteDashboardByID: count, collect, delete in a transaction that is rolled back
\* when the dashboard is not there, and clean up panel by panel.
Count(w) ==
  /\ At(w, "count")
  /\ IF Cardinality(dashboards) <= 1 THEN End(w) ELSE Goto(w, "collect")
  /\ UNCHANGED <<dashboards, row, live, used, cron, excused>>

Housed(d) == {p \in Panels : Stored(p) /\ row[p].dash = d}

\* Mutant: the panels are looked for once their rows are gone.
Collect_Late(w) ==
  /\ At(w, "collect")
  /\ task' = [task EXCEPT ![w].at = "cascade", ![w].left = {}]
  /\ UNCHANGED <<dashboards, row, live, used, cron, excused>>

Collect(w) ==
  /\ At(w, "collect")
  /\ task' = [task EXCEPT ![w].at = "cascade", ![w].left = Housed(task[w].dash)]
  /\ UNCHANGED <<dashboards, row, live, used, cron, excused>>

Cascade(w) ==
  LET d == task[w].dash IN
  /\ At(w, "cascade")
  /\ IF d \notin dashboards
     THEN End(w) /\ UNCHANGED <<dashboards, row>>
     ELSE /\ row' = [p \in Panels |-> IF p \in Housed(d) THEN NoRow ELSE row[p]]
          /\ dashboards' = dashboards \ {d}
          /\ Goto(w, "cleanup")
  /\ UNCHANGED <<live, used, cron, excused>>

Cleanup(w) ==
  /\ At(w, "cleanup")
  /\ IF task[w].left = {} THEN End(w) /\ UNCHANGED live
     ELSE \E p \in task[w].left :
            /\ live' = [live EXCEPT ![p] = NoRule]
            /\ task' = [task EXCEPT ![w].left = @ \ {p}]
  /\ UNCHANGED <<dashboards, row, used, cron, excused>>

-----------------------------------------------------------------------------
(* The process ends at any moment and starts again: LoadRulesFromDB and     *)
(* LoadJobsFromDB register what the rows hold before any request is served. *)
Loaded(p) == IF row[p].body \in Loadable /\ Accepts(row[p].body) THEN Config(p) ELSE NoRule

Restart ==
  /\ live' = [p \in Panels |-> Loaded(p)]
  /\ dashboards' = dashboards \cup {Default}
  /\ task' = [w \in Workers |-> Idle]
  /\ excused' = {}
  /\ UNCHANGED <<row, used, cron>>

Handler(w) ==
  \/ Fetch(w) \/ Store(w) \/ Apply(w) \/ Upsert(w) \/ Flip(w) \/ Reschedule(w)
  \/ Recover(w) \/ Readd(w) \/ Reread(w) \/ Rewrite(w) \/ Drop(w) \/ Erase(w)
  \/ Insert(w) \/ RegisterCopy(w) \/ MoveRow(w) \/ Count(w) \/ Collect(w)
  \/ Cascade(w) \/ Cleanup(w)

Next ==
  \/ \E w \in Workers : Handler(w)
  \/ \E w \in Workers, p \in Panels :
       \/ Pin(w, p) \/ SaveTitle(w, p) \/ PollStatus(w, p) \/ DeletePanel(w, p) \/ Trip(w, p)
       \/ \E on \in BOOLEAN : Toggle(w, p, on) \/ \E b \in Bodies : Save(w, p, b, on)
       \/ \E d \in Dashboards : MovePanel(w, p, d) \/ \E q \in Panels : Copy(w, p, q, d)
       \/ \E d \in Dashboards, b \in Bodies, on \in BOOLEAN : ImportDashboard(w, d, p, b, on)
  \/ \E w \in Workers, d \in Dashboards : DeleteDashboard(w, d)
  \/ \E p \in Panels : Unregister(p) \/ \E d \in Dashboards : CreatePanel(p, d)
  \/ \E d \in Dashboards : CreateDashboard(d)
  \/ Restart

Spec == Init /\ [][Next]_vars

-----------------------------------------------------------------------------
(* Properties.                                                              *)

Agree(p) == row[p].body \in Rejected \/
              /\ ~Stored(p) => ~Registered(p)
              /\ Registered(p) => live[p] = Config(p)
              /\ row[p].on /\ row[p].body \in Loadable => Registered(p)

\* Requests that do not overlap on one panel leave its two lives in step, whatever
\* happens to other panels meanwhile and wherever the process dies: nothing runs for
\* a panel that is gone, what runs is the stored configuration with the stored flag,
\* and an enabled one does run.  (A configuration the engine or the scheduler refuses
\* is stored all the same and says nothing of what runs.)
InStep == \A p \in Panels : p \in excused \cup Touched \/ Agree(p)

\* A deleted panel never comes back, whichever handlers still carry its configuration.
DeletedForGood == [][\A p \in used \cap Panels :
                       ~Stored(p) /\ Stored(p)' =>
                         \E w \in Workers : task[w].op = "copy" /\ p \in task[w].on]_vars
=============================================================================
