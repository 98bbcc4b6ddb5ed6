----------------------------- MODULE HistoryWriter -----------------------------
(***************************************************************************)
(* How messages get into the table of the history (mqtt/registry.go): the  *)
(* router of each broker's connection hands them to a bounded queue, one   *)
(* worker takes them from there, and is stopped after it has emptied it.   *)
(* A router looks whether there is a worker before it uses the queue, and  *)
(* without a lock in between.                                              *)
(*                                                                         *)
(* A record is a router and the number of its message.  The process may    *)
(* die at any time; only the command line mode ever stops the worker, and  *)
(* closes the database after it.  Left out: what a record holds.           *)
(***************************************************************************)
EXTENDS Naturals, Functions, Lists

CONSTANTS Routers,
          historyQueueSize,
          MaxMessages,   \* messages of each router
          MaxCrashes

Records == Routers \X (1..MaxMessages)
(* A router that asked whether there is a worker, with the answer. *)
Asked(s) == [at |-> "asked", started |-> s]
Idle == [at |-> "idle", started |-> FALSE]

VARIABLES started, stopCh,   \* historyWorkerStarted; stopCh: closed
          queue,
          worker,            \* "off", "select", "drain" or "done"
          taken,             \* <<>>, or the record it is writing
          router, arrived,   \* a router's step, and its last message
          saveSysTopics,
          stopper,           \* StopHistoryWriter: "no", "waits" or "returned"
          closed,            \* the database is
          table,
          lost,              \* ghost: not written, as the log says
          late,              \* ghost: queued by routers that asked before the stop
          direct,            \* ghost: written by their routers, there being no worker
          crashes
vars == <<started, stopCh, queue, worker, taken, router, arrived, saveSysTopics, stopper, closed, table, lost, late, direct, crashes>>

Init ==
    /\ started = FALSE /\ stopCh = FALSE /\ queue = <<>> /\ worker = "off" /\ taken = <<>>
    /\ router = [r \in Routers |-> Idle] /\ arrived = [r \in Routers |-> 0]
    /\ saveSysTopics \in BOOLEAN
    /\ stopper = "no" /\ closed = FALSE /\ table = <<>> /\ lost = {} /\ late = {} /\ direct = {} /\ crashes = 0

-----------------------------------------------------------------------------
StartHistoryWriter ==
    /\ worker = "off" /\ ~started
    /\ started' = TRUE /\ worker' = "select"
    /\ UNCHANGED <<stopCh, queue, taken, router, arrived, saveSysTopics, stopper, closed, table, lost, late, direct, crashes>>

(* insertHistoryRecord: an error is only logged. *)
Insert(record) ==
    \/ ~closed /\ table' = Append(table, record) /\ lost' = lost
    \/ lost' = lost \cup {record} /\ table' = table

(* The worker waits for a record or the stop, and takes either if both are *)
(* there; then it goes on until the queue is empty.                        *)
Take ==
    /\ worker \in {"select", "drain"} /\ taken = <<>> /\ queue # <<>>
    /\ taken' = <<Head(queue)>> /\ queue' = Tail(queue)
    /\ UNCHANGED <<started, stopCh, worker, router, arrived, saveSysTopics, stopper, closed, table, lost, late, direct, crashes>>
Write ==
    /\ taken # <<>> /\ Insert(taken[1]) /\ taken' = <<>>
    /\ UNCHANGED <<started, stopCh, queue, worker, router, arrived, saveSysTopics, stopper, closed, late, direct, crashes>>
AfterStop(w) == IF w = "select" THEN "drain" ELSE "done"
Ends ==
    /\ taken = <<>>
    /\ \/ worker = "select" /\ stopCh
       \/ worker = "drain" /\ queue = <<>>
    /\ worker' = AfterStop(worker)
    /\ UNCHANGED <<started, stopCh, queue, taken, router, arrived, saveSysTopics, stopper, closed, table, lost, late, direct, crashes>>

StopHistoryWriter ==
    /\ stopper = "no"
    /\ IF started
       THEN started' = FALSE /\ stopCh' = TRUE /\ stopper' = "waits"
       ELSE stopper' = "returned" /\ UNCHANGED <<started, stopCh>>
    /\ UNCHANGED <<queue, worker, taken, router, arrived, saveSysTopics, closed, table, lost, late, direct, crashes>>
Stopped ==
    /\ stopper = "waits" /\ worker = "done" /\ stopper' = "returned"
    /\ UNCHANGED <<started, stopCh, queue, worker, taken, router, arrived, saveSysTopics, closed, table, lost, late, direct, crashes>>
(* main's deferred calls: the database after the writer. *)
CloseDatabase ==
    /\ stopper = "returned" /\ ~closed /\ closed' = TRUE
    /\ UNCHANGED <<started, stopCh, queue, worker, taken, router, arrived, saveSysTopics, stopper, table, lost, late, direct, crashes>>

-----------------------------------------------------------------------------
(* writeHistory, in the router's goroutine: brokers are connected after    *)
(* the worker was started, and stay so after it was stopped.               *)
WriteHistory(r, sys) ==
    /\ worker # "off" /\ router[r] = Idle /\ arrived[r] < MaxMessages
    /\ arrived' = [arrived EXCEPT ![r] = @ + 1]
    /\ router' = IF sys /\ ~saveSysTopics THEN router ELSE [router EXCEPT ![r] = Asked(started)]
    /\ UNCHANGED <<started, stopCh, queue, worker, taken, saveSysTopics, stopper, closed, table, lost, late, direct, crashes>>

(* A record that finds the queue full is dropped. *)
Enqueued(record) ==
    IF Len(queue) < historyQueueSize THEN queue' = Append(queue, record) /\ UNCHANGED <<table, lost>>
    ELSE queue' = queue /\ lost' = lost \cup {record} /\ table' = table

HandOver(r) ==
    LET record == <<r, arrived[r]>> IN
    /\ router[r].at = "asked"
    /\ IF router[r].started THEN Enqueued(record) ELSE Insert(record) /\ queue' = queue
    /\ late' = IF router[r].started /\ stopCh THEN late \cup {record} ELSE late
    /\ direct' = IF router[r].started THEN direct ELSE direct \cup {record}
    /\ router' = [router EXCEPT ![r] = Idle]
    /\ UNCHANGED <<started, stopCh, worker, taken, arrived, saveSysTopics, stopper, closed, crashes>>

(* UpdateSettings and PatchSettings. *)
SetSaveSysTopics ==
    /\ saveSysTopics' = ~saveSysTopics
    /\ UNCHANGED <<started, stopCh, queue, worker, taken, router, arrived, stopper, closed, table, lost, late, direct, crashes>>

(* The process dies, with what the queue held, and is started again. *)
Crash ==
    /\ worker # "off" /\ crashes < MaxCrashes /\ crashes' = crashes + 1
    /\ started' = FALSE /\ stopCh' = FALSE /\ worker' = "off" /\ queue' = <<>> /\ taken' = <<>>
    /\ router' = [r \in Routers |-> Idle] /\ stopper' = "no" /\ closed' = FALSE
    /\ lost' = lost \cup ToSet(queue) \cup ToSet(taken)
                    \cup {<<r, arrived[r]>> : r \in {s \in Routers : router[s].at = "asked"}}
    /\ UNCHANGED <<arrived, saveSysTopics, table, late, direct>>

Next ==
    \/ StartHistoryWriter \/ Take \/ Write \/ Ends
    \/ StopHistoryWriter \/ Stopped \/ CloseDatabase
    \/ \E r \in Routers : (\E sys \in BOOLEAN : WriteHistory(r, sys)) \/ HandOver(r)
    \/ SetSaveSysTopics \/ Crash

(* The worker and the routers are scheduled. *)
Fairness ==
    /\ WF_vars(Take) /\ WF_vars(Write) /\ WF_vars(Ends) /\ WF_vars(Stopped)
    /\ \A r \in Routers : WF_vars(HandOver(r))
Spec == Init /\ [][Next]_vars /\ Fairness

-----------------------------------------------------------------------------
(* The shapes of the writer; the queue keeps its size, and nobody waits    *)
(* for a worker that was not told to stop.                                 *)
TypeOK ==
    /\ started \in BOOLEAN /\ stopCh \in BOOLEAN /\ saveSysTopics \in BOOLEAN /\ closed \in BOOLEAN
    /\ worker \in {"off", "select", "drain", "done"} /\ stopper \in {"no", "waits", "returned"}
    /\ queue \in Seq(Records) /\ Len(queue) <= historyQueueSize
    /\ taken \in Seq(Records) /\ Len(taken) <= 1
    /\ router \in [Routers -> {Idle, Asked(TRUE), Asked(FALSE)}]
    /\ arrived \in [Routers -> 0..MaxMessages]
    /\ ToSet(table) \cup lost \cup late \cup direct \subseteq Records
    /\ worker \in {"drain", "done"} \/ stopper = "waits" => stopCh
    /\ started => worker = "select"

(* registry.go:269: with a worker nobody else writes, so that the messages *)
(* of a broker are in the table in their order, but for those that came    *)
(* after the stop and found the worker still at it; none is there twice.   *)
InOrder ==
    \A i, j \in DOMAIN table :
        i < j /\ table[i][1] = table[j][1]
        => table[i][2] < table[j][2] \/ (table[i] \in direct /\ table[i] # table[j])

(* The router and the queue of a record that is not yet written. *)
Underway == ToSet(queue) \cup ToSet(taken)
(* No message is in two places: what is queued is not written, what was    *)
(* given up is neither, and the worker has nothing that is still queued.   *)
OnePlace ==
    /\ Underway \cap (ToSet(table) \cup lost) = {} /\ ToSet(table) \cap lost = {}
    /\ ToSet(queue) \cap ToSet(taken) = {} /\ IsInjective(queue)

(* registry.go:158: the worker leaves nothing behind, but for messages     *)
(* whose router had asked before the stop and queued them after it.        *)
Drained == worker = "done" => ToSet(queue) \subseteq late

(* The queue empties, and the stop returns. *)
Rested == (queue = <<>> \/ worker \in {"off", "done"}) /\ stopper # "waits"
================================================================================
