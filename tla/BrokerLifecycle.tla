---------------------------- MODULE BrokerLifecycle ----------------------------
(***************************************************************************)
(* The connections of the brokers (mqtt/registry.go) against the brokers'  *)
(* rows: the handlers that create, change, delete and reorder brokers      *)
(* (handlers/config.go), what connects them when the server starts         *)
(* (mqtt/loader.go), and the demo's reset (demo/reset.go).  A handler      *)
(* writes the row, then takes the connection down and makes it anew, with  *)
(* no lock around the steps; a connection is waited for, ten seconds at    *)
(* most, before the registry knows of it.                                  *)
(*                                                                         *)
(* The database has one connection, which the loader keeps until all       *)
(* brokers have been tried.  The settings of a broker are a number, the    *)
(* version.  A manager is its place in the sequence of those made since    *)
(* the start.  Left out: the layouts of a deleted broker, retained         *)
(* messages and statistics, and what a manager subscribes to               *)
(* (MqttSubscriptions).                                                    *)
(***************************************************************************)
EXTENDS Integers, FiniteSets, FiniteSetsExt, Sequences, SequencesExt

CONSTANTS Brokers,
          Created,      \* those a request may create; ids are not used again
          Seeds,        \* brokers of the seed file, in their order
          Initial,      \* tables the server may find
          MaxRequests, MaxResets, MaxCrashes

NoBroker == ""
NoRow == [on |-> FALSE, order |-> -1, version |-> 0]
Row(on, order, version) == [on |-> on, order |-> order, version |-> version]

VARIABLES rows,         \* mqtt_brokers
          managers,     \* MQTTManagers: broker, version, link
          clients,      \* the registry's, 0 for none
          default,
          tasks,        \* requests, the reset and the start, in progress
          created,
          crossed,      \* ghost: brokers two tasks were at once about
          halved,       \* ghost: brokers of which half a deletion failed
          stale,        \* ghost: the default comes from a table that has changed
          counts
books == <<managers, clients, default>>
ghosts == <<crossed, halved, stale>>
vars == <<rows, books, tasks, created, ghosts, counts>>

Task(kind, b, step, on) ==
    [id |-> counts.requests, kind |-> kind, b |-> b, step |-> step, on |-> on,
     was |-> FALSE, row |-> NoRow, todo |-> <<>>, manager |-> 0, pick |-> NoBroker, fresh |-> TRUE]
Boot == [id |-> -1, kind |-> "boot", b |-> NoBroker, step |-> "seed", on |-> TRUE,
         was |-> FALSE, row |-> NoRow, todo |-> <<>>, manager |-> 0, pick |-> NoBroker, fresh |-> TRUE]

Init ==
    /\ rows \in Initial /\ managers = <<>> /\ clients = [b \in Brokers |-> 0] /\ default = NoBroker
    /\ tasks = {Boot} /\ created = {b \in Created : rows[b] # NoRow} /\ crossed = {} /\ halved = {} /\ stale = FALSE
    /\ counts = [requests |-> 0, resets |-> 0, crashes |-> 0]

Present == {b \in Brokers : rows[b] # NoRow}
Enabled == {b \in Brokers : rows[b].on}
(* The enabled brokers of the least order, of which a query returns one. *)
LeastEnabled == {b \in Enabled : \A c \in Enabled : rows[b].order <= rows[c].order}
Loading(t) == t.kind \in {"boot", "reset"} /\ t.step \in {"next", "connect", "store", "default"}
Database == \A t \in tasks : ~Loading(t)
Serving == Boot.id \notin {t.id : t \in tasks}

To(t, next) == tasks' = (tasks \ {t}) \cup {next}
Done(t) == tasks' = tasks \ {t}
(* What tasks have selected of the table is old after a change. *)
Written(t, next) ==
    tasks' = {[u EXCEPT !.fresh = FALSE] : u \in tasks \ {t}} \cup next

-----------------------------------------------------------------------------
(* Requests. *)
About(t) == IF t.kind \in {"boot", "reset"} THEN Brokers ELSE {t.b} \ {NoBroker}
Begin(t) ==
    /\ Serving
    /\ tasks' = tasks \cup {t}
    /\ crossed' = crossed \cup (About(t) \cap UNION {About(u) : u \in tasks})
    /\ UNCHANGED <<rows, books, halved, stale>>
Request(t) ==
    /\ counts.requests < MaxRequests /\ counts' = [counts EXCEPT !.requests = @ + 1]
    /\ Begin(t)
CreateBroker(b, on) ==
    /\ b \in Created \ created /\ created' = created \cup {b} /\ Request(Task("create", b, "max", on))
UpdateBroker(b, on) == Request(Task("update", b, "read", on)) /\ created' = created
DeleteBroker(b) == Request(Task("delete", b, "remove", FALSE)) /\ created' = created
ReorderBrokers == Request(Task("reorder", NoBroker, "reorder", FALSE)) /\ created' = created
ResetDatabase ==
    /\ counts.resets < MaxResets /\ counts' = [counts EXCEPT !.resets = @ + 1]
    /\ \A t \in tasks : t.kind # "reset"
    /\ Begin([Boot EXCEPT !.id = -2, !.kind = "reset", !.step = "wipe"]) /\ created' = created

(* CreateBroker: the place after the last, then the row. *)
MaxOrder(t) ==
    /\ t.step = "max" /\ Database
    /\ To(t, [t EXCEPT !.step = "insert", !.row = Row(t.on, Max({rows[b].order : b \in Brokers}) + 1, t.id)])
    /\ UNCHANGED <<rows, books, created, ghosts, counts>>
Insert(t) ==
    /\ t.step = "insert" /\ Database
    /\ \/ /\ rows' = [rows EXCEPT ![t.b] = t.row]
          /\ Written(t, IF t.on THEN {[t EXCEPT !.step = "connect"]} ELSE {})
       \/ rows' = rows /\ Done(t)
    /\ UNCHANGED <<books, created, ghosts, counts>>

(* UpdateBroker: what becomes of the connection is decided by the row that *)
(* was read.                                                               *)
Read(t) ==
    /\ t.step = "read" /\ Database
    /\ IF t.b \notin Present THEN Done(t)
       ELSE To(t, [t EXCEPT !.step = "write", !.was = rows[t.b].on, !.row = Row(t.on, rows[t.b].order, t.id)])
    /\ UNCHANGED <<rows, books, created, ghosts, counts>>
AfterWrite(t) ==
    CASE t.was -> "remove"
      [] ~t.was /\ t.on -> "connect"
      [] OTHER -> "select"
Write(t) ==
    /\ t.step = "write" /\ Database
    /\ \/ /\ rows' = IF t.b \in Present THEN [rows EXCEPT ![t.b] = t.row] ELSE rows
          /\ Written(t, {[t EXCEPT !.step = AfterWrite(t)]})
       \/ rows' = rows /\ Done(t)
    /\ UNCHANGED <<books, created, ghosts, counts>>

(* DeleteBroker, once its connection has gone. *)
Delete(t) ==
    /\ t.step = "delete" /\ Database
    /\ \/ /\ t.b \in Present /\ rows' = [rows EXCEPT ![t.b] = NoRow]
          /\ Written(t, {[t EXCEPT !.step = "select"]}) /\ UNCHANGED <<halved, stale>>
       \/ /\ rows' = rows /\ Done(t)                    \* no such row, or an error
          /\ halved' = halved \cup ({t.b} \cap Present)
          /\ stale' = (stale \/ default = NoBroker)
    /\ UNCHANGED <<books, created, crossed, counts>>

(* ReorderBrokers: the page sends all in their new order. *)
Reorder(t) ==
    /\ t.step = "reorder" /\ Database
    /\ \/ \E order \in {o \in [Present -> 0..(Cardinality(Present) - 1)] : Cardinality({o[b] : b \in Present}) = Cardinality(Present)} :
              /\ rows' = [b \in Brokers |-> IF b \in Present THEN [rows[b] EXCEPT !.order = order[b]] ELSE NoRow]
              /\ Written(t, {[t EXCEPT !.step = "select"]})
       \/ rows' = rows /\ Done(t)
    /\ UNCHANGED <<books, created, ghosts, counts>>

-----------------------------------------------------------------------------
(* The registry. *)
(* Disconnect: only a client that is connected, or was and tries again.    *)
Off(n) == IF n # 0 /\ managers[n].link \in {"up", "late"} THEN [managers EXCEPT ![n].link = "off"] ELSE managers

(* AddBroker: Connect.  The wait may end before the attempt does.          *)
Connect(t) ==
    LET b == t.b IN
    /\ t.step = "connect"
    /\ \E link \in {"up", "failed", "slow"} :
           managers' = Append(managers, [broker |-> b, version |-> t.row.version, link |-> link])
    /\ To(t, [t EXCEPT !.step = "store", !.manager = Len(managers')])
    /\ UNCHANGED <<rows, clients, default, created, ghosts, counts>>
LateAnswer(n) ==
    /\ managers[n].link = "slow"
    /\ \E link \in {"late", "failed"} : managers' = [managers EXCEPT ![n].link = link]
    /\ UNCHANGED <<rows, clients, default, tasks, created, ghosts, counts>>
(* The manager that was there before is disconnected. *)
Replaced(b) == Off(clients[b])
AfterStore(t) ==
    CASE t.kind \in {"create", "update"} -> "select"
      [] t.kind \in {"boot", "reset"} /\ t.pick = NoBroker -> "default"    \* the loader's first
      [] OTHER -> "next"
Store(t) ==
    /\ t.step = "store"
    /\ managers' = Replaced(t.b) /\ clients' = [clients EXCEPT ![t.b] = t.manager]
    /\ To(t, [t EXCEPT !.step = AfterStore(t), !.manager = 0,
                       !.pick = IF AfterStore(t) = "default" THEN t.b ELSE @])
    /\ UNCHANGED <<rows, default, created, ghosts, counts>>

RemoveBroker(b) ==
    /\ managers' = Off(clients[b]) /\ clients' = [clients EXCEPT ![b] = 0]
    /\ default' = IF default = b THEN NoBroker ELSE default
(* Mutant: a broker that stays enabled keeps its connection. *)
AfterRemove_Kept(t) == IF t.kind = "delete" THEN "delete" ELSE "select"
AfterRemove(t) ==
    CASE t.kind = "delete" -> "delete"
      [] t.kind = "update" /\ t.on -> "connect"
      [] OTHER -> "select"
TakeDown(t) ==
    /\ t.step = "remove" /\ RemoveBroker(t.b)
    /\ To(t, [t EXCEPT !.step = AfterRemove(t)])
    /\ UNCHANGED <<rows, created, ghosts, counts>>

(* updateDefaultBroker *)
Select(t) ==
    /\ t.step = "select" /\ Database
    /\ \E b \in IF LeastEnabled = {} THEN {NoBroker} ELSE LeastEnabled :
           To(t, [t EXCEPT !.step = "default", !.pick = b, !.fresh = TRUE])
    /\ UNCHANGED <<rows, books, created, ghosts, counts>>
SetDefault(t) ==
    /\ t.step = "default" /\ default' = t.pick /\ stale' = ~t.fresh
    /\ IF Loading(t) THEN To(t, [t EXCEPT !.step = "next"]) ELSE Done(t)
    /\ UNCHANGED <<rows, managers, clients, created, crossed, halved, counts>>

-----------------------------------------------------------------------------
(* The reset: the rows, the seed file, every connection, and the loader,   *)
(* which also runs when the server starts.                                 *)
Wipe(t) ==
    /\ t.step = "wipe" /\ Database
    /\ \/ rows' = [b \in Brokers |-> NoRow] /\ Written(t, {[t EXCEPT !.step = "seed"]})
       \/ rows' = rows /\ Done(t)
    /\ UNCHANGED <<books, created, ghosts, counts>>
Seed(t) ==
    /\ t.step = "seed" /\ Database
    /\ rows' = [b \in Brokers |-> IF b \in ToSet(Seeds) \ Present THEN Row(TRUE, SelectInSeq(Seeds, LAMBDA s : s = b) - 1, 0)
                                  ELSE rows[b]]
    /\ Written(t, {[t EXCEPT !.step = IF t.kind = "boot" THEN "load" ELSE "all"]})
    /\ UNCHANGED <<books, created, ghosts, counts>>
(* RemoveAllBrokers: those that are there now, one after the other, in no  *)
(* particular order.                                                       *)
RemoveAll(t) ==
    /\ t.step = "all"
    /\ \E ids \in SetToSeqs({b \in Brokers : clients[b] # 0}) : To(t, [t EXCEPT !.step = "each", !.todo = ids])
    /\ UNCHANGED <<rows, books, created, ghosts, counts>>
RemoveEach(t) ==
    /\ t.step = "each"
    /\ IF t.todo = <<>> THEN UNCHANGED books /\ To(t, [t EXCEPT !.step = "load"])
       ELSE RemoveBroker(Head(t.todo)) /\ To(t, [t EXCEPT !.todo = Tail(@)])
    /\ UNCHANGED <<rows, created, ghosts, counts>>
(* AutoConnectFromDB keeps the database until its rows are read. *)
Load(t) ==
    /\ t.step = "load" /\ Database
    /\ \E found \in SetToSeqs(Enabled) :
           /\ \A i, j \in DOMAIN found : i < j => rows[found[i]].order <= rows[found[j]].order
           /\ To(t, [t EXCEPT !.step = "next", !.fresh = TRUE, !.todo = found])
    /\ UNCHANGED <<rows, books, created, ghosts, counts>>
NextRow(t) ==
    /\ t.step = "next"
    /\ IF t.todo = <<>> THEN Done(t)
       ELSE To(t, [t EXCEPT !.step = "connect", !.b = Head(t.todo), !.row = rows[Head(t.todo)], !.todo = Tail(@)])
    /\ UNCHANGED <<rows, books, created, ghosts, counts>>

(* The process dies at any step and is started again. *)
Crash ==
    /\ counts.crashes < MaxCrashes /\ counts' = [counts EXCEPT !.crashes = @ + 1]
    /\ managers' = <<>> /\ clients' = [b \in Brokers |-> 0] /\ default' = NoBroker
    /\ tasks' = {Boot} /\ crossed' = {} /\ halved' = {} /\ stale' = FALSE
    /\ UNCHANGED <<rows, created>>

Step(t) ==
    \/ MaxOrder(t) \/ Insert(t) \/ Read(t) \/ Write(t) \/ Delete(t) \/ Reorder(t)
    \/ Connect(t) \/ Store(t) \/ TakeDown(t) \/ Select(t) \/ SetDefault(t)
    \/ Wipe(t) \/ Seed(t) \/ RemoveAll(t) \/ RemoveEach(t) \/ Load(t) \/ NextRow(t)
Next ==
    \/ \E b \in Brokers : \/ DeleteBroker(b)
                          \/ \E on \in BOOLEAN : CreateBroker(b, on) \/ UpdateBroker(b, on)
    \/ ReorderBrokers \/ ResetDatabase
    \/ \E t \in tasks : Step(t)
    \/ \E n \in DOMAIN managers : LateAnswer(n)
    \/ Crash

(* Handlers run on; a connection is waited for ten seconds and no longer.  *)
Fairness == WF_vars(\E t \in tasks : Step(t))
Spec == Init /\ [][Next]_vars /\ Fairness

-----------------------------------------------------------------------------
(* The shapes of table and registry; the registry has a manager under its  *)
(* own broker, and a task that stores one has made it.                     *)
TypeOK ==
    /\ \A b \in Brokers : rows[b] = NoRow \/ rows[b].order >= 0
    /\ \A n \in DOMAIN managers : managers[n].broker \in Brokers /\ managers[n].link \in {"up", "failed", "slow", "late", "off"}
    /\ \A b \in Brokers : clients[b] # 0 => clients[b] \in DOMAIN managers /\ managers[clients[b]].broker = b
    /\ default \in Brokers \cup {NoBroker} /\ created \subseteq Created
    /\ \A t \in tasks : t.step = "store" => managers[t.manager].broker = t.b
    /\ crossed \cup halved \subseteq Brokers /\ stale \in BOOLEAN

(* registry.go:188: with nothing under way the registry has a manager for  *)
(* each enabled row and for no other, with the settings of the row, unless *)
(* two tasks about that broker overlapped or a deletion failed half way;   *)
(* and the default is the first enabled broker, unless it was chosen       *)
(* before a change and set after it.                                       *)
InStep ==
    tasks = {} =>
        /\ \A b \in Brokers \ (crossed \cup halved) :
               /\ clients[b] # 0 <=> rows[b].on
               /\ clients[b] # 0 => managers[clients[b]].version = rows[b].version
        /\ ~stale => IF LeastEnabled = {} THEN default = NoBroker ELSE default \in LeastEnabled

(* registry.go:184: every client that is connected is the registry's, or   *)
(* of a task that will store it, unless it took longer than its task       *)
(* waited.                                                                 *)
NoOrphans ==
    \A n \in DOMAIN managers :
        managers[n].link = "up" => \/ clients[managers[n].broker] = n
                                   \/ \E t \in tasks : t.manager = n

(* No request and no reset waits for ever. *)
Rested == tasks = {}
================================================================================
