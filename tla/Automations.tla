------------------------------ MODULE Automations ------------------------------
(***************************************************************************)
(* The browser's list of automations (pages/AutomationsPage.tsx): a table  *)
(* that is filtered and sorted by column, with a switch per row that shows *)
(* the new state before the server has taken it, and fetches the list anew *)
(* afterwards.  Other tabs and the dashboard change the same automations.  *)
(*                                                                         *)
(* The texts of a column are numbers, which order them; a query is one of  *)
(* them, and 0 no query.  Copying, toasts that succeed, tooltips and the   *)
(* wording of cells are left out.                                          *)
(***************************************************************************)
EXTENDS Integers, FiniteSets, Lists

CONSTANTS Jobs,         \* panels that may hold an automation
          Attr,         \* what the list says of each
          Dashboards,
          Texts,        \* queries to type
          Used,         \* columns that are sorted and filtered by
          MaxCalls,     \* requests in flight at a time
          MaxActs       \* bound on what the user and the other tabs do

NoJob == [there |-> FALSE, enabled |-> FALSE, next |-> FALSE]
All == "all"
AnyQos == 3
NoJobs == [j \in Jobs |-> NoJob]
(* An answer holds a list of automations; these two hold none, or two. *)
Unserved == <<>>
Failed == <<NoJobs, NoJobs>>

VARIABLES server,        \* each panel's automation, as the server has it
          jobs, dashboards, loading, togglingIds, toast,
          selectedDashboardId, searchQuery, filters, sort, activeFilterCol,
          calls,         \* requests of the handlers that await
          crossed, acts
view == <<selectedDashboardId, searchQuery, filters, sort, activeFilterCol>>
vars == <<server, jobs, dashboards, loading, togglingIds, toast, view, calls, crossed, acts>>

Present == {j \in Jobs : jobs[j].there}
Budget == acts < MaxActs /\ acts' = acts + 1
Scheduled(j) == Attr[j].type = "cron"
Job(j, on) == [there |-> TRUE, enabled |-> on, next |-> on /\ Scheduled(j)]
States(j) == {NoJob, Job(j, TRUE), Job(j, FALSE)}

DEFAULT_FILTERS ==
    [status |-> All, type |-> All, automation |-> 0, topic |-> 0, payload |-> 0,
     qos |-> AnyQos, retain |-> FALSE, triggerExecution |-> 0, timing |-> All, broker |-> 0]

-----------------------------------------------------------------------------
(* Which rows are shown, and in which order. *)
Found(q, texts) == q = 0 \/ q \in texts
Passes(j) ==
    LET a == Attr[j]  e == jobs[j].enabled  f == filters IN
    /\ selectedDashboardId \in {All, a.dashboard}
    /\ Found(searchQuery, {a.topic, a.automation, a.broker, a.trigger, a.payload})
    /\ f.status = All \/ e = (f.status = "active")
    /\ f.type \in {All, a.type}
    /\ Found(f.automation, {a.automation})
    /\ Found(f.topic, {a.topic})
    /\ Found(f.payload, {a.payload})
    /\ f.qos \in {AnyQos, a.qos}
    /\ f.retain => a.retain
    /\ Found(f.triggerExecution, {a.trigger})
    /\ f.timing = "scheduled" => e /\ (Scheduled(j) => jobs[j].next)
    /\ f.timing = "soon" => e /\ jobs[j].next /\ a.due = "soon"
    /\ Found(f.broker, {a.broker})

SortValue(j) ==
    CASE sort.key = "status" -> IF jobs[j].enabled THEN 1 ELSE 0
      [] sort.key = "type" -> IF Scheduled(j) THEN 0 ELSE 1
      [] sort.key = "trigger_execution" -> Attr[j].trigger
      [] OTHER -> Attr[j][sort.key]

Shown == {j \in Present : Passes(j)}
(* Rows that compare as equal keep the order of the list, which is that of *)
(* the positions in Attr.                                                  *)
Before(i, j) ==
    LET d == IF sort.key = "none" THEN 0
             ELSE (SortValue(i) - SortValue(j)) * (IF sort.order = "asc" THEN 1 ELSE -1)
    IN d < 0 \/ (d = 0 /\ Attr[i].at < Attr[j].at)
displayedJobs ==
    [n \in 1..Cardinality(Shown) |->
        CHOOSE j \in Shown : Cardinality({i \in Shown : Before(i, j)}) = n - 1]

(* What the controls offer. *)
availableDashboards == dashboards \union {Attr[j].dashboard : j \in Present}
availableTypes == {Attr[j].type : j \in Present}
brokerOptions == {Attr[j].broker : j \in Present}

isFilterActive == \E f \in DOMAIN filters : filters[f] # DEFAULT_FILTERS[f]
Column(f) == CASE f \in {"payload", "qos", "retain"} -> "payload"
               [] f \in {"triggerExecution", "timing"} -> "trigger_execution"
               [] OTHER -> f
Columns == {Column(f) : f \in DOMAIN DEFAULT_FILTERS}

isColFiltered(col) ==
    CASE col = "payload" -> filters.payload # 0 \/ filters.qos # AnyQos \/ filters.retain
      [] col = "trigger_execution" -> filters.triggerExecution # 0 \/ filters.timing # All
      [] col \in {"status", "type"} -> filters[col] # All
      [] OTHER -> filters[col] # 0

(* The header of the page: the button that clears, and the choices. *)
ClearOffered == isFilterActive \/ searchQuery # 0 \/ selectedDashboardId # All

(* The heads of the table, all alike: a column's arrow and its funnel. *)
Arrow(col) == IF sort.key = col THEN sort.order ELSE "none"
Funnel(col) == IF isColFiltered(col) THEN "filled" ELSE "line"

(* The table the proofs are about: no two automations stand at the same    *)
(* place of the list, and what is sorted by is a number.                   *)
JobsFit ==
    /\ IsFiniteSet(Jobs) /\ All \notin Jobs /\ Used \subseteq Columns
    /\ Attr \in [Jobs -> [at : Int, dashboard : Dashboards, type : {"cron", "logic"}, automation : Int, topic : Int,
                          payload : Int, qos : 0..2, retain : BOOLEAN, trigger : Int, broker : Int,
                          due : {"soon", "none"}]]
    /\ \A i, j \in Jobs : Attr[i].at = Attr[j].at => i = j

(* What stands in the table's body, and in a row's last cell but one. *)
Body == IF loading /\ Present = {} THEN "loading"
        ELSE IF Present = {} THEN "no automations"
        ELSE IF displayedJobs = <<>> THEN "no matches" ELSE "rows"
Rows == IF Body = "rows" THEN ToSet(displayedJobs) ELSE {}
SwitchShown(j) == [on |-> jobs[j].enabled, disabled |-> j \in togglingIds]
Execution(j) == IF ~jobs[j].enabled \/ (Scheduled(j) /\ ~jobs[j].next) THEN "paused"
                ELSE IF Scheduled(j) THEN "next run" ELSE "active"

(* The choices of a column's popover: its radios, buttons and texts. *)
PayloadOptions(f) ==
    CASE f = "qos" -> 0..AnyQos [] f = "retain" -> BOOLEAN [] f = "payload" -> {0} \union Texts
TriggerOptions(f) ==
    CASE f = "timing" -> {All, "scheduled", "soon"}
      [] f = "triggerExecution" -> {0} \union Texts
      [] f = "broker" -> {0} \union brokerOptions
Options(f) ==
    CASE f = "status" -> {All, "active", "paused"}
      [] f = "type" -> {All} \union availableTypes
      [] f \in {"automation", "topic"} -> {0} \union Texts
      [] Column(f) = "payload" -> PayloadOptions(f)
      [] OTHER -> TriggerOptions(f)

-----------------------------------------------------------------------------
Load == [kind |-> "load", job |-> All, was |-> FALSE, step |-> "get", ans |-> Unserved]

Init ==
    /\ server \in [Jobs -> UNION {States(j) : j \in Jobs}] /\ \A j \in Jobs : server[j] \in States(j)
    /\ jobs = NoJobs
    /\ dashboards = {}
    /\ loading = TRUE
    /\ togglingIds = {}
    /\ toast = FALSE
    /\ selectedDashboardId = All
    /\ searchQuery = 0
    /\ filters = DEFAULT_FILTERS
    /\ sort = [key |-> "none", order |-> "none"]
    /\ activeFilterCol = "none"
    /\ calls = {Load}
    /\ crossed = FALSE
    /\ acts = 0

(* The view: nothing of it is sent. *)
SetView == UNCHANGED <<server, jobs, dashboards, loading, togglingIds, toast, calls, crossed>>

SelectDashboard(d) ==
    /\ Budget /\ d \in {All} \union availableDashboards /\ d # selectedDashboardId
    /\ selectedDashboardId' = d
    /\ UNCHANGED <<searchQuery, filters, sort, activeFilterCol>> /\ SetView
Search(q) ==
    /\ Budget /\ q # searchQuery
    /\ searchQuery' = q
    /\ UNCHANGED <<selectedDashboardId, filters, sort, activeFilterCol>> /\ SetView
(* A column is sorted upwards, then downwards, then not at all. *)
handleSort(col) ==
    /\ Budget
    /\ sort' = CASE sort.key # col -> [key |-> col, order |-> "asc"]
                 [] Arrow(col) = "asc" -> [key |-> col, order |-> "desc"]
                 [] OTHER -> [key |-> "none", order |-> "none"]
    /\ UNCHANGED <<selectedDashboardId, searchQuery, filters, activeFilterCol>> /\ SetView
handleOpenFilter(col) ==
    /\ activeFilterCol' = IF activeFilterCol = col THEN "none" ELSE col
    /\ UNCHANGED <<selectedDashboardId, searchQuery, filters, sort, acts>> /\ SetView
(* Escape, or a click elsewhere. *)
handleCloseFilter ==
    /\ activeFilterCol # "none" /\ activeFilterCol' = "none"
    /\ UNCHANGED <<selectedDashboardId, searchQuery, filters, sort, acts>> /\ SetView
SetFilter(f, v) ==
    /\ Budget /\ activeFilterCol = Column(f) /\ v \in Options(f) /\ v # filters[f]
    /\ filters' = [filters EXCEPT ![f] = v]
    /\ UNCHANGED <<selectedDashboardId, searchQuery, sort, activeFilterCol>> /\ SetView
(* The button at the foot of a popover. *)
ClearColumn(col) ==
    /\ activeFilterCol = col /\ isColFiltered(col)
    /\ col \notin {"status", "type", "broker"}
    /\ filters' = [f \in DOMAIN filters |->
                    IF Column(f) = col THEN DEFAULT_FILTERS[f] ELSE filters[f]]
    /\ UNCHANGED <<selectedDashboardId, searchQuery, sort, activeFilterCol, acts>> /\ SetView
handleResetAllFilters ==
    /\ ClearOffered
    /\ filters' = DEFAULT_FILTERS
    /\ searchQuery' = 0
    /\ selectedDashboardId' = All
    /\ UNCHANGED <<sort, activeFilterCol, acts>> /\ SetView

-----------------------------------------------------------------------------
(* The refresh button. *)
handleRefresh ==
    /\ ~loading /\ Budget
    /\ Cardinality(calls) < MaxCalls
    /\ loading' = TRUE
    /\ calls' = calls \union {Load}
    /\ UNCHANGED <<server, jobs, dashboards, togglingIds, toast, view, crossed>>

(* A row's switch: shown at once, then asked for. *)
handleToggle(j) ==
    /\ j \in Rows /\ ~SwitchShown(j).disabled /\ Budget
    /\ Cardinality(calls) < MaxCalls
    /\ togglingIds' = togglingIds \union {j}
    /\ jobs' = [jobs EXCEPT ![j].enabled = ~@]
    /\ calls' = calls \union {[kind |-> "toggle", job |-> j, was |-> jobs[j].enabled,
                               step |-> "put", ans |-> Unserved]}
    /\ UNCHANGED <<server, dashboards, loading, toast, view, crossed>>

(* The server takes the new state, or has no such automation any more; the *)
(* handler then asks for the list.                                         *)
ServePut(c) ==
    /\ c.step = "put" /\ c.ans = Unserved
    /\ \/ /\ server[c.job].there
          /\ server' = [server EXCEPT ![c.job] = Job(c.job, ~c.was)]
          /\ calls' = (calls \ {c}) \union {[c EXCEPT !.step = "get"]}
       \/ /\ calls' = (calls \ {c}) \union {[c EXCEPT !.ans = Failed]}
          /\ UNCHANGED server
    /\ crossed' = (crossed \/ calls # {c})
    /\ UNCHANGED <<jobs, dashboards, loading, togglingIds, toast, view, acts>>

ServeList(c) ==
    /\ c.step = "get" /\ c.ans = Unserved
    /\ \E ans \in {<<server>>, Failed} : calls' = (calls \ {c}) \union {[c EXCEPT !.ans = ans]}
    /\ UNCHANGED <<server, jobs, dashboards, loading, togglingIds, toast, view, crossed, acts>>

(* What an answer makes of the list: it is replaced, or the switch goes    *)
(* back.                                                                   *)
NewJobs(c) ==
    IF c.ans # Failed THEN c.ans[1]
    ELSE IF c.kind = "toggle" /\ jobs[c.job].there
    THEN [jobs EXCEPT ![c.job].enabled = c.was] ELSE jobs
StillLoading(c) == loading /\ c.kind # "load"

(* Dashboards are fetched beside a load, and kept if there are none.       *)
Answered(c) ==
    LET ok == c.ans # Failed IN
    /\ c.ans # Unserved
    /\ calls' = calls \ {c}
    /\ jobs' = NewJobs(c)
    /\ loading' = StillLoading(c)
    /\ togglingIds' = togglingIds \ {c.job}
    /\ dashboards' \in IF ok /\ c.kind = "load" THEN {dashboards, Dashboards} ELSE {dashboards}
    /\ toast' = (toast \/ ~ok)
    /\ crossed' = (crossed \/ (~ok /\ c.step = "get"))
    /\ UNCHANGED <<server, view, acts>>
DismissToast ==
    /\ toast /\ toast' = FALSE
    /\ UNCHANGED <<server, jobs, dashboards, loading, togglingIds, view, calls, crossed, acts>>

(* Somebody else adds, removes, pauses or resumes an automation. *)
Elsewhere(j) ==
    /\ Budget
    /\ server' \in {[server EXCEPT ![j] = s] : s \in States(j)}
    /\ server' # server
    /\ crossed' = TRUE
    /\ UNCHANGED <<jobs, dashboards, loading, togglingIds, toast, view, calls>>

Next ==
    \/ \E d \in {All} \union Dashboards : SelectDashboard(d)
    \/ \E q \in {0} \union Texts : Search(q)
    \/ \E col \in Used : handleSort(col) \/ handleOpenFilter(col) \/ ClearColumn(col)
    \/ \E f \in DOMAIN filters : \E v \in Options(f) : SetFilter(f, v)
    \/ handleCloseFilter \/ handleResetAllFilters \/ handleRefresh \/ DismissToast
    \/ \E j \in Jobs : handleToggle(j) \/ Elsewhere(j)
    \/ \E c \in calls : ServePut(c) \/ ServeList(c) \/ Answered(c)

(* The server answers every request. *)
Fairness == WF_vars(\E c \in calls : ServePut(c) \/ ServeList(c) \/ Answered(c))
Spec == Init /\ [][Next]_vars /\ Fairness

-----------------------------------------------------------------------------
TypeOK ==
    /\ \A j \in Jobs : {server[j], jobs[j]} \subseteq [there: BOOLEAN, enabled: BOOLEAN, next: BOOLEAN]
    /\ dashboards \subseteq Dashboards
    /\ activeFilterCol \in Columns \union {"none"}
    /\ filters.status \in {All, "active", "paused"} /\ filters.qos \in 0..AnyQos
    /\ {filters.payload, filters.topic, searchQuery} \subseteq {0} \union Texts
    /\ {loading, toast, crossed} \subseteq BOOLEAN

(* A row of the list is hidden only if the page says so: the button that   *)
(* clears is offered, and unless the search or the dashboard hides it, the *)
(* funnel of a column is filled.  Rows come and go, and the choices of a   *)
(* popover with them, while the filters stay.                              *)
HiddenExplained ==
    ToSet(displayedJobs) # Present =>
        /\ ClearOffered
        /\ \/ searchQuery # 0 \/ selectedDashboardId # All
           \/ \E col \in Columns : Funnel(col) = "filled"

(* A switch takes one request at a time, however often the list is         *)
(* replaced in between, and is given back when that one has been answered. *)
SwitchHeld ==
    /\ togglingIds = {c.job : c \in {d \in calls : d.kind = "toggle"}}
    /\ \A c, d \in calls : c.job = d.job => c = d

(* When nothing is in flight, the switches and the run states of the rows  *)
(* are those of the server, unless somebody else changed it, two requests  *)
(* crossed, or the list could not be fetched.                              *)
SwitchesInStep ==
    calls = {} /\ ~crossed =>
        \A j \in Jobs : /\ jobs[j].there = server[j].there
                        /\ jobs[j].enabled = server[j].enabled
                        /\ (Execution(j) = "paused") = ~server[j].enabled

(* The refresh button and the switches come back. *)
ControlsFree == ~loading /\ togglingIds = {}
=============================================================================
