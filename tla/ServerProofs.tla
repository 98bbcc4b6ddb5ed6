---------------------------- MODULE ServerProofs ----------------------------
(***************************************************************************)
(* Proofs about parts of the server, each on its own and for every value   *)
(* of its constants:                                                       *)
(*                                                                         *)
(*   Reg    BrokerLifecycle  registry, table and default are in step        *)
(*   Cache  PanelMetaCache   the titles messages carry are the rows'        *)
(*   Waits  SubackWait       who waits for an answer has its lock           *)
(*   Hist   HistoryWriter    messages are written once and in their order   *)
(*   Mcp    McpSwitch        switched off is off; row and copies agree      *)
(*                                                                         *)
(* Each part is an instance, so a part and its lemmas share no name with    *)
(* another; the variables that have one name in two parts (tasks, crossed,  *)
(* router, counts, closed, saveSysTopics) are of no theorem of both.        *)
(***************************************************************************)
EXTENDS Integers, FiniteSets, Sequences, FiniteSetTheorems, WellFoundedInduction, TLAPS

CONSTANTS Brokers, Created, Seeds, Initial, MaxRequests, MaxResets, MaxCrashes,
          Routers, Panels, Dashboards, Titles, Default, MaxWrites, MaxRestarts,
          Tasks, Watched, Depth, MaxMessages,
          historyQueueSize, Streams, queueSize
VARIABLES rows, managers, clients, default, tasks, created, crossed, halved, stale, counts,
          row, dashboards, used, cache, router, writes, restarts, missed,
          step, holder, subs, asked, granted, line, answered, sent,
          started, stopCh, queue, worker, taken, arrived, saveSysTopics, stopper, closed,
          table, lost, late, direct, crashes,
          stored, enabled, requests, reset, stream, sessions, channel, messages, gone,
          accepted, delivered, straddling, overlapped, dropped, unread
Reg == INSTANCE BrokerLifecycle
Cache == INSTANCE PanelMetaCache
Waits == INSTANCE SubackWait
Hist == INSTANCE HistoryWriter
Mcp == INSTANCE McpSwitch

-----------------------------------------------------------------------------
(* BrokerLifecycle.                                                          *)

(* What the constants are. *)
Rows == {Reg!NoRow} \cup [on : BOOLEAN, order : Nat, version : Int]
BrokersFit ==
    /\ IsFiniteSet(Brokers) /\ Reg!NoBroker \notin Brokers /\ Created \subseteq Brokers
    /\ Seeds \in Seq(Brokers \ Created) /\ (MaxResets = 0 \/ Seeds # <<>>)
    /\ Initial \subseteq [Brokers -> Rows]

Named == Brokers \cup {Reg!NoBroker}
StepsOf(kind) ==
    CASE kind = "create" -> {"max", "insert", "connect", "store", "select", "default"}
      [] kind = "update" -> {"read", "write", "remove", "connect", "store", "select", "default"}
      [] kind = "delete" -> {"remove", "delete", "select", "default"}
      [] kind = "reorder" -> {"reorder", "select", "default"}
      [] kind = "boot" -> {"seed", "load", "next", "connect", "store", "default"}
      [] kind = "reset" -> {"wipe", "seed", "all", "each", "load", "next", "connect", "store", "default"}
Kinds == {"create", "update", "delete", "reorder", "boot", "reset"}
OneBroker == {"create", "update", "delete"}
Loaders == {"boot", "reset"}
AllSteps == {"max", "insert", "read", "write", "remove", "delete", "reorder", "connect", "store", "select", "default",
             "wipe", "seed", "all", "each", "load", "next"}
TaskRecs == [id : Int, kind : Kinds, b : Named, step : AllSteps, on : BOOLEAN, was : BOOLEAN,
             row : [on : BOOLEAN, order : Int, version : Int], todo : Seq(Brokers), manager : Nat, pick : Named, fresh : BOOLEAN]
TaskOK(t) ==
    /\ t.step \in StepsOf(t.kind)
    /\ t.kind \in OneBroker => t.b \in Brokers
    /\ t.kind = "reorder" => t.b = Reg!NoBroker
    /\ t.step \in {"connect", "store"} => t.b \in Brokers
    /\ (t.kind = "boot" <=> t.id = -1)
    /\ (t.kind = "create" /\ t.step # "max") \/ (t.kind = "update" /\ t.step # "read") => t.row.on = t.on /\ t.row.order \in Nat
    /\ t.kind = "create" /\ t.step \in {"connect", "store"} => t.on
    /\ t.kind = "update" /\ t.step \in {"connect", "store"} => t.on
    /\ IF t.step = "store" THEN t.manager \in DOMAIN managers /\ managers[t.manager].broker = t.b
       ELSE t.manager = 0
BooksOK ==
    /\ rows \in [Brokers -> Rows]
    /\ managers \in Seq([broker : Brokers, version : Int, link : {"up", "failed", "slow", "late", "off"}])
    /\ clients \in [Brokers -> Nat]
    /\ \A b \in Brokers : clients[b] # 0 => clients[b] \in DOMAIN managers /\ managers[clients[b]].broker = b
    /\ default \in Named /\ created \subseteq Created
    /\ crossed \subseteq Brokers /\ halved \subseteq Brokers /\ stale \in BOOLEAN
    /\ counts \in [requests : Nat, resets : Nat, crashes : Nat]
RegShapes == BooksOK /\ tasks \subseteq TaskRecs /\ \A t \in tasks : TaskOK(t)

Owned == Reg!NoOrphans

(* Tasks *)
Apart ==
    /\ \A t, u \in tasks : t.kind = "boot" => t = u
    /\ \A t, u \in tasks : t.kind = "reset" /\ u.kind = "reset" => t = u
    /\ MaxResets = 0 => \A t \in tasks : t.kind # "reset"
Announced ==
    /\ \A b \in Created \ created : rows[b] = Reg!NoRow
    /\ \A t \in tasks : t.kind = "create" /\ t.step \in {"max", "insert"} => rows[t.b] = Reg!NoRow /\ t.b \in created
    /\ \A t, u \in tasks : /\ t.kind = "create" /\ t.step \in {"max", "insert"}
                           /\ u.kind = "create" /\ u.step \in {"max", "insert"} /\ t.b = u.b
                           => t = u

(* Registry and row of one broker. *)
Fits(b) ==
    /\ clients[b] # 0 <=> rows[b].on
    /\ clients[b] # 0 => managers[clients[b]].version = rows[b].version
Listed(t, b) == \E i \in DOMAIN t.todo : t.todo[i] = b
RequestAlong(t, b) ==
    /\ t.step \in {"max", "insert", "read", "write", "select", "default"} \/ (t.step = "remove" /\ t.kind = "delete") => Fits(b)
    /\ t.step = "write" => rows[b] # Reg!NoRow /\ t.was = rows[b].on
    /\ t.step \in {"remove", "connect"} /\ t.kind # "delete" => rows[b].on = t.on /\ rows[b].version = t.row.version
    /\ t.step \in {"connect", "delete"} => clients[b] = 0
    /\ t.step = "store" => rows[b].on /\ managers[t.manager].version = rows[b].version
LoaderAlong(t, b) ==
    /\ t.step = "wipe" => Fits(b)
    /\ t.step = "load" \/ (t.step = "seed" /\ t.kind = "boot") => clients[b] = 0
    /\ t.step = "each" /\ clients[b] # 0 => Listed(t, b)
    /\ t.step \in {"next", "default"} \/ (t.step \in {"connect", "store"} /\ t.b # b) =>
          IF Listed(t, b) THEN rows[b].on ELSE Fits(b)
    /\ t.step = "connect" /\ t.b = b => rows[b].on /\ t.row.version = rows[b].version
    /\ t.step = "store" /\ t.b = b => rows[b].on /\ managers[t.manager].version = rows[b].version
Along(t, b) == IF t.kind \in Loaders THEN LoaderAlong(t, b) ELSE RequestAlong(t, b)
About(t) == Reg!About(t)
InPlace(b) ==
    /\ \A t, u \in tasks : b \in About(t) /\ b \in About(u) => t = u
    /\ \A t \in tasks : b \in About(t) => Along(t, b)
    /\ (\A t \in tasks : b \notin About(t)) => Fits(b)
Places == \A b \in Brokers \ (crossed \cup halved) : InPlace(b)

(* The default. *)
Right(p) == IF Reg!LeastEnabled = {} THEN p = Reg!NoBroker ELSE p \in Reg!LeastEnabled
PickOK(t) ==
    /\ t.step = "default" /\ t.fresh => Right(t.pick)
    /\ Reg!Loading(t) => t.fresh
    /\ t.kind \in Loaders /\ t.step = "default" => t.pick # Reg!NoBroker
    /\ t.kind \in Loaders /\ t.step = "next" /\ t.pick = Reg!NoBroker =>
          IF t.todo = <<>> THEN Reg!Enabled = {} ELSE Head(t.todo) \in Reg!LeastEnabled
    /\ t.kind \in Loaders /\ t.step \in {"connect", "store"} /\ t.pick = Reg!NoBroker => t.b \in Reg!LeastEnabled
    /\ t.kind = "boot" /\ t.step \in {"seed", "load"} => default = Reg!NoBroker
    /\ t.kind \in Loaders /\ t.step \in {"wipe", "seed", "all", "each", "load"} => t.pick = Reg!NoBroker
    /\ t.kind = "reset" /\ t.step = "seed" => \A i \in DOMAIN Seeds : rows[Seeds[i]] = Reg!NoRow
Picks == \A t \in tasks : PickOK(t)
Will(t) ==
    IF t.kind \in Loaders
    THEN \/ t.step = "seed" \/ t.step = "default"
         \/ t.step \in {"all", "each", "load"} /\ Reg!Enabled # {}
         \/ t.step = "next" /\ t.pick = Reg!NoBroker /\ t.todo # <<>>
         \/ t.step \in {"connect", "store"} /\ t.pick = Reg!NoBroker
    ELSE t.step \in {"connect", "store", "select", "default"} \/ (t.kind = "update" /\ t.step = "remove")
Deleting(t) == t.kind = "delete" /\ t.step = "delete"
DefaultFits ==
    ~stale => \/ Right(default) \/ (\E t \in tasks : Will(t))
              \/ default = Reg!NoBroker /\ \E t \in tasks : Deleting(t)
Chosen == Picks /\ DefaultFits

BInv == RegShapes /\ Owned /\ Apart /\ Announced /\ Places /\ Chosen

-----------------------------------------------------------------------------
(* What a step of task t does to the tasks: t gives way to those of ns, and *)
(* the others stay, with what they have selected marked old if w.           *)
Stays(u, w) == IF w THEN [u EXCEPT !.fresh = FALSE] ELSE u
Becomes(t, ns, w) == tasks' = {Stays(u, w) : u \in tasks \ {t}} \cup ns

\* A task that is not the one at work keeps all but the freshness of what it selected.
LEMMA StayRec ==
  ASSUME NEW u \in TaskRecs, NEW w \in BOOLEAN
  PROVE  /\ Stays(u, w) \in TaskRecs /\ Stays(u, w).id = u.id /\ Stays(u, w).kind = u.kind /\ Stays(u, w).b = u.b
         /\ Stays(u, w).step = u.step /\ Stays(u, w).on = u.on /\ Stays(u, w).was = u.was /\ Stays(u, w).row = u.row
         /\ Stays(u, w).todo = u.todo /\ Stays(u, w).manager = u.manager /\ Stays(u, w).pick = u.pick
         /\ Stays(u, w).fresh = (u.fresh /\ ~w)
<1>1. CASE w BY <1>1 DEF Stays, TaskRecs
<1>2. CASE ~w BY <1>2 DEF Stays, TaskRecs
<1> QED BY <1>1, <1>2

\* The three ways in which a step of the model leaves its task.
LEMMA Gives ==
  ASSUME NEW t, NEW n
  PROVE  /\ Reg!To(t, n) => Becomes(t, {n}, FALSE)
         /\ Reg!Done(t) => Becomes(t, {}, FALSE)
         /\ \A ns : Reg!Written(t, ns) => Becomes(t, ns, TRUE)
BY DEF Reg!To, Reg!Done, Reg!Written, Becomes, Stays

(* t gives way to n, or to nothing; n is the same request.                  *)
Succeeds(t, n) ==
    /\ n \in TaskRecs /\ n.kind = t.kind /\ n.id = t.id
    /\ t.kind \notin Loaders => n.b = t.b

\* A request stays with its broker.
LEMMA SameAbout ==
  ASSUME NEW t, NEW n, n.kind = t.kind, t.kind \notin Loaders => n.b = t.b
  PROVE  About(n) = About(t)
BY DEF About, Reg!About, Loaders

\* One boot, one reset at most.
LEMMA ApartStep ==
  ASSUME tasks \subseteq TaskRecs, Apart, NEW t \in tasks, NEW n, Succeeds(t, n), NEW ns \in SUBSET {n},
         NEW w \in BOOLEAN, Becomes(t, ns, w)
  PROVE  Apart'
<1>1. \A v \in tasks' : v \in ns \/ \E u \in tasks \ {t} : v = Stays(u, w)
  BY DEF Becomes
<1>2. \A u \in tasks : Stays(u, w).kind = u.kind BY StayRec
<1>3. n.kind = t.kind BY DEF Succeeds
<1>4. ASSUME NEW v \in tasks' PROVE \E u \in tasks : v.kind = u.kind /\ ((v = n /\ u = t) \/ (v = Stays(u, w) /\ u # t))
  BY <1>1, <1>2, <1>3
<1>5. \A v, x \in tasks' : v.kind = "boot" => v = x BY <1>4 DEF Apart
<1>6. \A v, x \in tasks' : v.kind = "reset" /\ x.kind = "reset" => v = x BY <1>4 DEF Apart
<1>7. MaxResets = 0 => \A v \in tasks' : v.kind # "reset" BY <1>4 DEF Apart
<1> QED BY <1>5, <1>6, <1>7 DEF Apart

(* What a broker has in table and registry, which tasks about others leave. *)
SameAt(b) ==
    /\ clients'[b] = clients[b] /\ rows'[b].on = rows[b].on /\ rows'[b].version = rows[b].version
    /\ rows[b] # Reg!NoRow => rows'[b] # Reg!NoRow
SameManagers == \A m \in DOMAIN managers : m \in DOMAIN managers' /\ managers'[m].version = managers[m].version /\ managers'[m].broker = managers[m].broker

\* What holds of another task and its broker goes on to hold.
LEMMA StaysAlong ==
  ASSUME RegShapes, NEW b \in Brokers, SameAt(b), SameManagers, NEW u \in tasks, NEW w \in BOOLEAN, Along(u, b)
  PROVE  Along(Stays(u, w), b)'
<1> DEFINE v == Stays(u, w)
<1>1. /\ v.kind = u.kind /\ v.b = u.b /\ v.step = u.step /\ v.on = u.on /\ v.was = u.was /\ v.row = u.row
      /\ v.todo = u.todo /\ v.manager = u.manager
  BY StayRec DEF RegShapes
<1>2. Fits(b) => Fits(b)' BY DEF Fits, SameAt, SameManagers, RegShapes, BooksOK
<1>3. u.step = "store" => u.manager \in DOMAIN managers BY DEF RegShapes, TaskOK
<1> SUFFICES ASSUME NEW x, x = v PROVE Along(x, b)'
  OBVIOUS
<1> HIDE DEF v
<1>4. CASE u.kind \in Loaders
  <2>1. LoaderAlong(u, b) BY <1>4 DEF Along
  <2>2. LoaderAlong(v, b)'
    BY <1>1, <1>2, <1>3, <2>1 DEF LoaderAlong, Listed, SameAt, SameManagers
  <2> QED BY <2>2, <1>1, <1>4 DEF Along
<1>5. CASE u.kind \notin Loaders
  <2>1. RequestAlong(u, b) BY <1>5 DEF Along
  <2>2. RequestAlong(v, b)'
    BY <1>1, <1>2, <1>3, <2>1 DEF RequestAlong, SameAt, SameManagers
  <2> QED BY <2>2, <1>1, <1>5 DEF Along
<1> QED BY <1>4, <1>5

-----------------------------------------------------------------------------
\* Table and registry: it is enough to look at the task at work and at the brokers it touches.
LEMMA PlaceStep ==
  ASSUME RegShapes, NEW b \in Brokers, InPlace(b), SameManagers,
         NEW t \in tasks, NEW n, Succeeds(t, n), NEW ns \in SUBSET {n}, NEW w \in BOOLEAN, Becomes(t, ns, w),
         IF b \in About(t) THEN IF ns = {} THEN Fits(b)' ELSE Along(n, b)' ELSE SameAt(b)
  PROVE  InPlace(b)'
<1>1. About(n) = About(t) BY SameAbout DEF Succeeds
<1>2. \A u \in tasks : About(Stays(u, w)) = About(u)
  BY StayRec DEF RegShapes, About, Reg!About
<1>3. \A v \in tasks' : v \in ns \/ \E u \in tasks \ {t} : v = Stays(u, w)
  BY DEF Becomes
<1>4. \A v : About(v)' = About(v) BY DEF About, Reg!About
<1>5. CASE b \in About(t)
  <2>1. \A v \in tasks' : b \in About(v) => v \in ns BY <1>2, <1>3, <1>5 DEF InPlace
  <2>2. ns # {} => n \in tasks' /\ b \in About(n) BY <1>1, <1>5 DEF Becomes
  <2> QED BY <1>4, <1>5, <2>1, <2>2 DEF InPlace
<1>6. CASE b \notin About(t)
  <2>1. \A v \in tasks' : b \in About(v) => \E u \in tasks \ {t} : v = Stays(u, w) /\ b \in About(u)
    BY <1>1, <1>2, <1>3, <1>6
  <2>2. \A v, x \in tasks' : b \in About(v) /\ b \in About(x) => v = x BY <2>1 DEF InPlace
  <2>3. ASSUME NEW v \in tasks', b \in About(v) PROVE Along(v, b)'
    <3>1. PICK u \in tasks \ {t} : v = Stays(u, w) /\ b \in About(u) BY <2>1, <2>3
    <3>2. Along(u, b) BY <3>1 DEF InPlace
    <3>3. Along(Stays(u, w), b)' BY <1>6, <3>2, StaysAlong
    <3> QED BY <3>1, <3>3
  <2>4. (\A v \in tasks' : b \notin About(v)) => Fits(b)'
    <3> SUFFICES ASSUME \A v \in tasks' : b \notin About(v) PROVE Fits(b)'
      OBVIOUS
    <3>1. \A u \in tasks \ {t} : Stays(u, w) \in tasks' BY DEF Becomes
    <3>2. Fits(b) BY <1>2, <1>6, <3>1 DEF InPlace
    <3> QED BY <1>6, <3>2 DEF Fits, SameAt, SameManagers, RegShapes, BooksOK
  <2> QED BY <1>4, <2>2, <2>3, <2>4 DEF InPlace
<1> QED BY <1>5, <1>6

\* Shapes: it is enough to look at what the task becomes.
LEMMA ShapesStep ==
  ASSUME RegShapes, SameManagers, BooksOK', NEW t \in tasks, NEW n, Succeeds(t, n), NEW ns \in SUBSET {n},
         NEW w \in BOOLEAN, Becomes(t, ns, w), ns # {} => TaskOK(n)'
  PROVE  RegShapes'
<1>1. ASSUME NEW u \in tasks PROVE Stays(u, w) \in TaskRecs /\ TaskOK(Stays(u, w))'
  <2>1. TaskOK(u) BY DEF RegShapes
  <2> QED BY <2>1, StayRec DEF RegShapes, TaskOK, SameManagers
<1> QED BY <1>1 DEF Becomes, RegShapes, Succeeds

\* No manager is lost when the registry stays and the task passes on what it holds.
LEMMA OwnedStep ==
  ASSUME RegShapes, Owned, NEW t \in tasks, NEW n, NEW ns \in SUBSET {n}, NEW w \in BOOLEAN, Becomes(t, ns, w),
         UNCHANGED <<managers, clients>>, t.manager = 0
  PROVE  Owned'
<1> SUFFICES ASSUME NEW m \in DOMAIN managers, managers[m].link = "up"
             PROVE  clients[managers[m].broker] = m \/ \E v \in tasks' : v.manager = m
  BY DEF Owned, Reg!NoOrphans
<1>1. CASE clients[managers[m].broker] = m BY <1>1
<1>2. CASE \E u \in tasks : u.manager = m
  <2>1. PICK u \in tasks : u.manager = m BY <1>2
  <2>2. u # t BY <2>1 DEF RegShapes, BooksOK
  <2>3. Stays(u, w) \in tasks' /\ Stays(u, w).manager = m BY <2>1, <2>2, StayRec DEF RegShapes, Becomes
  <2> QED BY <2>3
<1> QED BY <1>1, <1>2 DEF Owned, Reg!NoOrphans

(* Where rows come from. *)
Early == {"max", "insert"}
NewRows(t, n) ==
    \A b \in Brokers : rows[b] = Reg!NoRow /\ rows'[b] # Reg!NoRow =>
        \/ t.kind \in Loaders /\ b \notin Created
        \/ t.kind = "create" /\ t.step = "insert" /\ b = t.b /\ n.step \notin Early
\* A broker that is being created has no row before its insert.
LEMMA AnnouncedStep ==
  ASSUME BrokersFit, RegShapes, Announced, NEW t \in tasks, NEW n, Succeeds(t, n), NEW ns \in SUBSET {n}, NEW w \in BOOLEAN,
         Becomes(t, ns, w), created' = created, NewRows(t, n), n.step \in Early => t.step \in Early
  PROVE  Announced'
<1>0. created \subseteq Created /\ Created \subseteq Brokers BY DEF RegShapes, BooksOK, BrokersFit
<1>1. ASSUME NEW b \in Created \ created PROVE rows'[b] = Reg!NoRow
  BY <1>0 DEF Announced, NewRows, Early
<1>2. ASSUME NEW v \in tasks', v.kind = "create", v.step \in Early
      PROVE  \E u \in tasks : /\ u.kind = "create" /\ u.step \in Early /\ u.b = v.b
                              /\ (u = t /\ v = n) \/ (u # t /\ v = Stays(u, w))
  <2>1. CASE v \in ns BY <1>2, <2>1 DEF Succeeds, Loaders
  <2>2. CASE v \notin ns
    <3>1. PICK u \in tasks \ {t} : v = Stays(u, w) BY <2>2 DEF Becomes
    <3>2. u.kind = v.kind /\ u.step = v.step /\ u.b = v.b BY <3>1, StayRec DEF RegShapes
    <3> QED BY <1>2, <3>1, <3>2
  <2> QED BY <2>1, <2>2
<1>3. ASSUME NEW v \in tasks', v.kind = "create", v.step \in Early PROVE rows'[v.b] = Reg!NoRow /\ v.b \in created'
  <2>1. PICK u \in tasks : /\ u.kind = "create" /\ u.step \in Early /\ u.b = v.b
                           /\ (u = t /\ v = n) \/ (u # t /\ v = Stays(u, w))
    BY <1>2, <1>3
  <2>2. rows[u.b] = Reg!NoRow /\ u.b \in created BY <2>1 DEF Announced, Early
  <2>3. rows'[u.b] # Reg!NoRow => u = t /\ n.step \notin Early
    BY <1>0, <2>1, <2>2 DEF NewRows, Announced, Early
  <2> QED BY <1>3, <2>1, <2>2, <2>3
<1>4. ASSUME NEW v \in tasks', v.kind = "create", v.step \in Early, NEW x \in tasks', x.kind = "create", x.step \in Early, v.b = x.b
      PROVE  v = x
  <2>1. PICK u \in tasks : /\ u.kind = "create" /\ u.step \in Early /\ u.b = v.b
                           /\ (u = t /\ v = n) \/ (u # t /\ v = Stays(u, w))
    BY <1>2, <1>4
  <2>2. PICK y \in tasks : /\ y.kind = "create" /\ y.step \in Early /\ y.b = x.b
                           /\ (y = t /\ x = n) \/ (y # t /\ x = Stays(y, w))
    BY <1>2, <1>4
  <2>3. u = y BY <2>1, <2>2, <1>4 DEF Announced, Early
  <2> QED BY <2>1, <2>2, <2>3
<1> QED BY <1>0, <1>1, <1>3, <1>4 DEF Announced, Early

\* What is read off the table is a function of it.
LEMMA TableKept == rows' = rows => /\ Reg!Enabled' = Reg!Enabled /\ Reg!LeastEnabled' = Reg!LeastEnabled
                                   /\ \A p : Right(p)' = Right(p)
BY DEF Reg!Enabled, Reg!LeastEnabled, Right

\* What tasks have selected goes on to hold of the rows if they stay, and is marked old if they do not.
LEMMA PicksStep ==
  ASSUME BrokersFit, RegShapes, Apart, Announced, Picks, NEW t \in tasks, NEW n, Succeeds(t, n), NEW ns \in SUBSET {n}, NEW w \in BOOLEAN,
         Becomes(t, ns, w), NewRows(t, n), w => Reg!Database, ~w => rows' = rows, ns # {} => PickOK(n)'
  PROVE  Picks'
<1>1. ASSUME NEW u \in tasks, u # t PROVE PickOK(Stays(u, w))'
  <2> DEFINE v == Stays(u, w)
  <2>1. /\ v.kind = u.kind /\ v.b = u.b /\ v.step = u.step /\ v.todo = u.todo /\ v.pick = u.pick
        /\ v.fresh = (u.fresh /\ ~w)
    BY StayRec DEF RegShapes
  <2>2. PickOK(u) BY DEF Picks
  <2>3. u.kind # "boot" BY <1>1 DEF Apart
  <2>4. ASSUME u.kind = "reset", u.step = "seed" PROVE \A i \in DOMAIN Seeds : rows'[Seeds[i]] = Reg!NoRow
    <3>1. t.kind \notin Loaders BY <1>1, <2>4 DEF Apart, Loaders
    <3> SUFFICES ASSUME NEW i \in DOMAIN Seeds PROVE rows'[Seeds[i]] = Reg!NoRow
      OBVIOUS
    <3>2. Seeds[i] \in Brokers \ Created /\ rows[Seeds[i]] = Reg!NoRow
      BY <2>2, <2>4 DEF PickOK, BrokersFit
    <3>3. t.kind = "create" /\ t.step = "insert" => t.b \in Created BY DEF BrokersFit, RegShapes, BooksOK, Announced
    <3> QED BY <3>1, <3>2, <3>3 DEF NewRows
  <2> SUFFICES ASSUME NEW x, x = v PROVE PickOK(x)'
    OBVIOUS
  <2> HIDE DEF v
  <2>5. CASE w
    <3>1. ~Reg!Loading(u) BY <2>5 DEF Reg!Database
    <3> QED BY <2>1, <2>2, <2>3, <2>4, <2>5, <3>1 DEF PickOK, Reg!Loading, Loaders
  <2>6. CASE ~w
    BY <2>1, <2>2, <2>3, <2>4, <2>6, TableKept DEF PickOK, Reg!Loading
  <2> QED BY <2>5, <2>6
<1>2. \A v \in tasks' : v \in ns \/ \E u \in tasks \ {t} : v = Stays(u, w)
  BY DEF Becomes
<1> QED BY <1>1, <1>2 DEF Picks

(* Nothing that spoke for the default is lost with t.                       *)
NoLess(t) ==
    /\ ~stale /\ (Right(default) => Right(default)') /\ (Reg!Enabled # {} => Reg!Enabled' # {}) /\ ~Will(t)
    /\ default = Reg!NoBroker => default' = Reg!NoBroker /\ ~Deleting(t)
\* The default is right, or somebody is still to set it.
LEMMA DefaultStep ==
  ASSUME RegShapes, DefaultFits, NEW t \in tasks, NEW n, NEW ns \in SUBSET {n}, NEW w \in BOOLEAN, Becomes(t, ns, w),
         ~stale' => \/ Right(default)' \/ (ns # {} /\ Will(n)')
                    \/ (ns # {} /\ default' = Reg!NoBroker /\ Deleting(n)) \/ NoLess(t)
  PROVE  DefaultFits'
<1>1. CASE stale' BY <1>1 DEF DefaultFits
<1>2. CASE Right(default)' BY <1>2 DEF DefaultFits
<1>3. CASE ns # {} /\ Will(n)'
  <2>1. n \in tasks' BY <1>3 DEF Becomes
  <2> QED BY <1>3, <2>1 DEF DefaultFits
<1>4. CASE ns # {} /\ default' = Reg!NoBroker /\ Deleting(n)
  <2>1. n \in tasks' BY <1>4 DEF Becomes
  <2> QED BY <1>4, <2>1 DEF DefaultFits, Deleting
<1>5. CASE NoLess(t)
  <2>1. ASSUME NEW u \in tasks, u # t, Will(u) PROVE \E v \in tasks' : Will(v)'
    <3> DEFINE v == Stays(u, w)
    <3>1. v \in tasks' /\ v.kind = u.kind /\ v.step = u.step /\ v.todo = u.todo /\ v.pick = u.pick
      BY <2>1, StayRec DEF RegShapes, Becomes
    <3> SUFFICES ASSUME NEW x, x = v PROVE Will(x)'
      BY <3>1
    <3> HIDE DEF v
    <3> QED BY <1>5, <2>1, <3>1 DEF Will, NoLess
  <2>2. ASSUME NEW u \in tasks, Deleting(u), default = Reg!NoBroker PROVE default' = Reg!NoBroker /\ \E v \in tasks' : Deleting(v)
    <3>1. u # t /\ default' = Reg!NoBroker BY <1>5, <2>2 DEF NoLess
    <3>2. Stays(u, w) \in tasks' /\ Stays(u, w).kind = u.kind /\ Stays(u, w).step = u.step
      BY <3>1, StayRec DEF RegShapes, Becomes
    <3> QED BY <2>2, <3>1, <3>2 DEF Deleting
  <2>3. CASE Right(default) BY <1>5, <2>3 DEF DefaultFits, NoLess
  <2>4. CASE \E u \in tasks : Will(u)
    <3>1. PICK u \in tasks : Will(u) BY <2>4
    <3>2. u # t BY <1>5, <3>1 DEF NoLess
    <3>3. \E v \in tasks' : Will(v)' BY <2>1, <3>1, <3>2
    <3> QED BY <3>3 DEF DefaultFits
  <2>5. CASE default = Reg!NoBroker /\ \E u \in tasks : Deleting(u)
    <3>1. default' = Reg!NoBroker /\ \E v \in tasks' : Deleting(v) BY <2>2, <2>5
    <3> QED BY <3>1 DEF DefaultFits, Deleting
  <2> QED BY <1>5, <2>3, <2>4, <2>5 DEF DefaultFits, NoLess
<1> QED BY <1>1, <1>2, <1>3, <1>4, <1>5

\* A step of one task: what is to be shown of it.
LEMMA TaskStep ==
  ASSUME BrokersFit, BInv, NEW t \in tasks, NEW n, Succeeds(t, n), NEW ns \in SUBSET {n}, NEW w \in BOOLEAN, Becomes(t, ns, w),
         BooksOK', SameManagers, Owned', created' = created, crossed' = crossed, halved \subseteq halved',
         NewRows(t, n), n.step \in Early => t.step \in Early, w => Reg!Database, ~w => rows' = rows,
         ns # {} => TaskOK(n)' /\ PickOK(n)',
         \A b \in Brokers \ (crossed \cup halved') : InPlace(b) =>
             IF b \in About(t) THEN IF ns = {} THEN Fits(b)' ELSE Along(n, b)' ELSE SameAt(b),
         ~stale' => \/ Right(default)' \/ (ns # {} /\ Will(n)')
                    \/ (ns # {} /\ default' = Reg!NoBroker /\ Deleting(n)) \/ NoLess(t)
  PROVE  BInv'
<1>1. RegShapes' BY ShapesStep DEF BInv
<1>2. Apart' BY ApartStep DEF BInv, RegShapes
<1>3. Announced' BY AnnouncedStep DEF BInv
<1>4. Places'
  <2> SUFFICES ASSUME NEW b \in Brokers, b \notin crossed, b \notin halved' PROVE InPlace(b)'
    BY DEF Places
  <2>1. InPlace(b) BY DEF BInv, Places
  <2>2. IF b \in About(t) THEN IF ns = {} THEN Fits(b)' ELSE Along(n, b)' ELSE SameAt(b) BY <2>1
  <2> QED BY <2>1, <2>2, PlaceStep DEF BInv
<1>5. Picks' BY PicksStep DEF BInv, Chosen
<1>6. DefaultFits' BY DefaultStep DEF BInv, Chosen
<1> QED BY <1>1, <1>2, <1>3, <1>4, <1>5, <1>6 DEF BInv, Chosen

\* A step that leaves the table, the registry and the default alone.
LEMMA QuietStep ==
  ASSUME BrokersFit, BInv, NEW t \in tasks, NEW n, Succeeds(t, n), NEW ns \in SUBSET {n}, Becomes(t, ns, FALSE),
         UNCHANGED <<rows, managers, clients, default, created, crossed, halved, stale, counts>>,
         t.manager = 0, n.step \in Early => t.step \in Early, ns # {} => TaskOK(n) /\ PickOK(n),
         \A b \in Brokers : b \in About(t) /\ Along(t, b) => IF ns = {} THEN Fits(b) ELSE Along(n, b),
         (ns # {} /\ Will(n)) \/ (~Will(t) /\ ~Deleting(t))
  PROVE  BInv'
<1>1. BooksOK' /\ SameManagers BY DEF BInv, RegShapes, BooksOK, SameManagers
<1>2. Owned' BY OwnedStep DEF BInv
<1>3. NewRows(t, n) BY DEF NewRows
<1>4. \A b \in Brokers : SameAt(b) BY DEF SameAt
<1>5. TaskOK(n) => TaskOK(n)' BY DEF TaskOK
<1>6. PickOK(n) => PickOK(n)' BY TableKept DEF PickOK, Reg!Loading
<1>7. \A b \in Brokers : (Fits(b) => Fits(b)') /\ (Along(n, b) => Along(n, b)')
  BY DEF Fits, Along, LoaderAlong, RequestAlong, Listed
<1>8. Will(n) => Will(n)' BY TableKept DEF Will
<1>9. ~stale => NoLess(t) \/ (ns # {} /\ Will(n)')
  BY <1>8, TableKept DEF NoLess
<1>10. ASSUME NEW b \in Brokers \ (crossed \cup halved'), InPlace(b)
       PROVE  IF b \in About(t) THEN IF ns = {} THEN Fits(b)' ELSE Along(n, b)' ELSE SameAt(b)
  <2>1. b \in About(t) => Along(t, b) BY <1>10 DEF InPlace
  <2> QED BY <1>4, <1>7, <2>1
<1> QED BY <1>1, <1>2, <1>3, <1>5, <1>6, <1>9, <1>10, TaskStep

\* What the invariant says of one task.
LEMMA OfTask ==
  ASSUME BInv, NEW t \in tasks
  PROVE  /\ t \in TaskRecs /\ TaskOK(t) /\ PickOK(t) /\ t.step \in StepsOf(t.kind) /\ t.kind \in Kinds
         /\ t.kind \notin Loaders => About(t) = {t.b} \ {Reg!NoBroker}
         /\ t.kind \in Loaders => About(t) = Brokers
BY DEF BInv, RegShapes, TaskOK, Chosen, Picks, About, Reg!About, Loaders, TaskRecs

\* An order of some brokers is a sequence of them.
LEMMA SeqsOf ==
  ASSUME NEW S, IsFiniteSet(S), NEW f \in Reg!SetToSeqs(S)
  PROVE  f \in Seq(S) /\ \A x \in S : \E i \in DOMAIN f : f[i] = x
<1>0. Reg!Cardinality(S) = Cardinality(S) BY DEF Reg!Cardinality, Cardinality
<1>1. Cardinality(S) \in Nat BY FS_CardinalityType
<1>2. f \in [1..Cardinality(S) -> S] /\ \A i, j \in 1..Cardinality(S) : i # j => f[i] # f[j]
  BY <1>0 DEF Reg!SetToSeqs
<1>3. f \in Injection(1..Cardinality(S), S) BY <1>2 DEF Injection, IsInjective
<1>4. IsFiniteSet(1..Cardinality(S)) /\ Cardinality(1..Cardinality(S)) = Cardinality(S)
  BY <1>1, FS_Interval
<1>5. f \in Surjection(1..Cardinality(S), S) BY <1>3, <1>4, FS_Injection
<1> QED BY <1>1, <1>2, <1>5 DEF Surjection

\* UpdateBroker reads the row. broker_handlers.go:97
LEMMA ReadStep ==
  ASSUME BrokersFit, BInv, NEW t \in tasks, Reg!Read(t)
  PROVE  BInv'
<1> DEFINE r == Reg!Row(t.on, rows[t.b].order, t.id)
           n == [t EXCEPT !.step = "write", !.was = rows[t.b].on, !.row = r]
<1>0. t \in TaskRecs /\ TaskOK(t) /\ t.kind = "update" /\ t.step = "read" /\ t.b \in Brokers /\ t.manager = 0
  BY OfTask DEF Reg!Read, TaskOK, StepsOf, OneBroker, Kinds
<1>1. CASE t.b \notin Reg!Present
  <2>1. Becomes(t, {}, FALSE) BY <1>1, Gives DEF Reg!Read
  <2>2. Succeeds(t, t) BY <1>0 DEF Succeeds
  <2>3. \A b \in Brokers : b \in About(t) /\ Along(t, b) => Fits(b)
    BY <1>0 DEF Along, RequestAlong, Loaders
  <2>4. ~Will(t) /\ ~Deleting(t) BY <1>0 DEF Will, Deleting, Loaders
  <2> QED BY <1>0, <2>1, <2>2, <2>3, <2>4, QuietStep DEF Reg!Read, Reg!books, Reg!ghosts
<1>2. CASE t.b \in Reg!Present
  <2>0. rows[t.b] \in [on : BOOLEAN, order : Nat, version : Int] /\ rows[t.b] # Reg!NoRow
    BY <1>0, <1>2 DEF Reg!Present, BInv, RegShapes, BooksOK, Rows
  <2>1. Becomes(t, {n}, FALSE) BY <1>2, Gives DEF Reg!Read
  <2>3. r.on = t.on /\ r.order \in Nat /\ r \in [on : BOOLEAN, order : Int, version : Int]
    BY <1>0, <2>0 DEF Reg!Row, TaskRecs
  <2> HIDE DEF r
  <2>2. /\ n \in TaskRecs /\ n.id = t.id /\ n.kind = t.kind /\ n.b = t.b /\ n.step = "write" /\ n.on = t.on
        /\ n.was = rows[t.b].on /\ n.row = r /\ n.manager = t.manager /\ n.pick = t.pick /\ n.fresh = t.fresh
    BY <1>0, <2>0, <2>3 DEF TaskRecs, AllSteps
  <2> HIDE DEF n
  <2>4. Succeeds(t, n) BY <2>2 DEF Succeeds
  <2>5. TaskOK(n) BY <1>0, <2>2, <2>3 DEF TaskOK, StepsOf, OneBroker
  <2>6. PickOK(n) BY <1>0, <2>2 DEF PickOK, Reg!Loading, Loaders
  <2>7. ASSUME NEW b \in Brokers, b \in About(t), Along(t, b) PROVE Along(n, b)
    <3>1. b = t.b BY <1>0, <2>7, OfTask DEF Loaders
    <3> QED BY <1>0, <2>0, <2>2, <2>7, <3>1 DEF Along, RequestAlong, Loaders
  <2>8. ~Will(t) /\ ~Deleting(t) BY <1>0 DEF Will, Deleting, Loaders
  <2> QED BY <1>0, <2>1, <2>2, <2>4, <2>5, <2>6, <2>7, <2>8, QuietStep DEF Reg!Read, Reg!books, Reg!ghosts, Early
<1> QED BY <1>1, <1>2

\* A request selects the enabled broker that comes first.
LEMMA SelectStep ==
  ASSUME BrokersFit, BInv, NEW t \in tasks, Reg!Select(t)
  PROVE  BInv'
<1>0. /\ t \in TaskRecs /\ TaskOK(t) /\ t.kind \notin Loaders /\ t.kind \in Kinds /\ t.step = "select" /\ t.manager = 0
  BY OfTask DEF Reg!Select, TaskOK, StepsOf, Loaders, Kinds
<1>1. PICK p \in IF Reg!LeastEnabled = {} THEN {Reg!NoBroker} ELSE Reg!LeastEnabled :
         Reg!To(t, [t EXCEPT !.step = "default", !.pick = p, !.fresh = TRUE])
  BY DEF Reg!Select
<1>2. PICK n : n = [t EXCEPT !.step = "default", !.pick = p, !.fresh = TRUE]
  OBVIOUS
<1>3. Right(p) /\ p \in Named BY DEF Right, Named, Reg!LeastEnabled, Reg!Enabled
<1>4. Becomes(t, {n}, FALSE) BY <1>1, <1>2, Gives
<1>5. /\ n \in TaskRecs /\ n.id = t.id /\ n.kind = t.kind /\ n.b = t.b /\ n.step = "default" /\ n.on = t.on
      /\ n.was = t.was /\ n.row = t.row /\ n.manager = t.manager /\ n.pick = p /\ n.fresh = TRUE
  BY <1>0, <1>2, <1>3 DEF TaskRecs, AllSteps
<1>6. Succeeds(t, n) BY <1>5 DEF Succeeds
<1>7. TaskOK(n) BY <1>0, <1>5 DEF TaskOK, StepsOf, Loaders, Kinds
<1>8. PickOK(n) BY <1>0, <1>3, <1>5 DEF PickOK, Reg!Loading, Loaders
<1>9. \A b \in Brokers : Along(t, b) => Along(n, b)
  BY <1>0, <1>5 DEF Along, RequestAlong
<1>10. Will(n) BY <1>0, <1>5 DEF Will
<1> QED BY <1>0, <1>4, <1>5, <1>6, <1>7, <1>8, <1>9, <1>10, QuietStep DEF Reg!Select, Reg!books, Reg!ghosts, Early

\* The reset collects the brokers of the registry.
LEMMA RemoveAllStep ==
  ASSUME BrokersFit, BInv, NEW t \in tasks, Reg!RemoveAll(t)
  PROVE  BInv'
<1> DEFINE C == {b \in Brokers : clients[b] # 0}
<1>0. t \in TaskRecs /\ TaskOK(t) /\ t.kind = "reset" /\ t.step = "all" /\ t.manager = 0 /\ t.pick = Reg!NoBroker
  BY OfTask DEF Reg!RemoveAll, TaskOK, StepsOf, Loaders, Kinds, PickOK
<1>1. PICK ids \in Reg!SetToSeqs(C) : Reg!To(t, [t EXCEPT !.step = "each", !.todo = ids])
  BY DEF Reg!RemoveAll
<1>2. ids \in Seq(Brokers) /\ \A b \in C : \E i \in DOMAIN ids : ids[i] = b
  <2>1. IsFiniteSet(C) /\ C \subseteq Brokers BY FS_Subset DEF BrokersFit
  <2> HIDE DEF C
  <2>2. ids \in Seq(C) /\ \A b \in C : \E i \in DOMAIN ids : ids[i] = b BY <2>1, SeqsOf
  <2>3. ids \in Seq(Brokers) BY <2>1, <2>2
  <2> QED BY <2>2, <2>3
<1>3. PICK n : n = [t EXCEPT !.step = "each", !.todo = ids]
  OBVIOUS
<1>4. Becomes(t, {n}, FALSE) BY <1>1, <1>3, Gives
<1>5. /\ n \in TaskRecs /\ n.id = t.id /\ n.kind = t.kind /\ n.b = t.b /\ n.step = "each" /\ n.on = t.on
      /\ n.todo = ids /\ n.manager = t.manager /\ n.pick = t.pick
  BY <1>0, <1>2, <1>3 DEF TaskRecs, AllSteps
<1>6. Succeeds(t, n) BY <1>0, <1>5 DEF Succeeds, Loaders
<1>7. TaskOK(n) BY <1>0, <1>5 DEF TaskOK, StepsOf, OneBroker
<1>8. PickOK(n) BY <1>0, <1>5 DEF PickOK, Reg!Loading
<1>9. \A b \in Brokers : Along(n, b)
  BY <1>0, <1>2, <1>5 DEF Along, LoaderAlong, Loaders, Listed
<1>10. (Will(t) => Will(n)) /\ ~Deleting(t) BY <1>0, <1>5 DEF Will, Deleting, Loaders
<1> QED BY <1>0, <1>4, <1>5, <1>6, <1>7, <1>8, <1>9, <1>10, QuietStep DEF Reg!RemoveAll, Reg!books, Reg!ghosts, Early

\* The loader reads the enabled rows in their order. loader.go:19
LEMMA LoadStep ==
  ASSUME BrokersFit, BInv, NEW t \in tasks, Reg!Load(t)
  PROVE  BInv'
<1>0. t \in TaskRecs /\ TaskOK(t) /\ t.kind \in Loaders /\ t.step = "load" /\ t.manager = 0 /\ t.pick = Reg!NoBroker
  BY OfTask DEF Reg!Load, TaskOK, StepsOf, Loaders, Kinds, PickOK
<1>1. PICK found \in Reg!SetToSeqs(Reg!Enabled) :
         /\ \A i, j \in DOMAIN found : i < j => rows[found[i]].order <= rows[found[j]].order
         /\ Reg!To(t, [t EXCEPT !.step = "next", !.fresh = TRUE, !.todo = found])
  BY DEF Reg!Load
<1>2. found \in Seq(Reg!Enabled) /\ found \in Seq(Brokers) /\ \A b \in Reg!Enabled : \E i \in DOMAIN found : found[i] = b
  <2>1. IsFiniteSet(Reg!Enabled) /\ Reg!Enabled \subseteq Brokers BY FS_Subset DEF BrokersFit, Reg!Enabled
  <2> QED BY <2>1, SeqsOf
<1>3. PICK n : n = [t EXCEPT !.step = "next", !.fresh = TRUE, !.todo = found]
  OBVIOUS
<1>4. Becomes(t, {n}, FALSE) BY <1>1, <1>3, Gives
<1>5. /\ n \in TaskRecs /\ n.id = t.id /\ n.kind = t.kind /\ n.b = t.b /\ n.step = "next" /\ n.on = t.on
      /\ n.todo = found /\ n.manager = t.manager /\ n.pick = t.pick /\ n.fresh = TRUE
  BY <1>0, <1>2, <1>3 DEF TaskRecs, AllSteps
<1>6. Succeeds(t, n) BY <1>0, <1>5 DEF Succeeds
<1>7. TaskOK(n) BY <1>0, <1>5 DEF TaskOK, StepsOf, OneBroker, Loaders
<1>8. IF found = <<>> THEN Reg!Enabled = {} ELSE Head(found) \in Reg!LeastEnabled
  <2>1. CASE found = <<>> BY <1>2, <2>1
  <2>2. CASE found # <<>>
    <3>1. 1 \in DOMAIN found /\ Head(found) = found[1] /\ found[1] \in Reg!Enabled BY <1>2, <2>2
    <3>2. ASSUME NEW c \in Reg!Enabled PROVE rows[found[1]].order <= rows[c].order
      <4>1. PICK i \in DOMAIN found : found[i] = c BY <1>2
      <4>2. i \in Nat /\ (i = 1 \/ 1 < i) BY <1>2
      <4>3. rows[c].order \in Int BY DEF BInv, RegShapes, BooksOK, Rows, Reg!NoRow, Reg!Enabled
      <4> QED BY <1>1, <3>1, <4>1, <4>2, <4>3
    <3> QED BY <2>2, <3>1, <3>2 DEF Reg!LeastEnabled
  <2> QED BY <2>1, <2>2
<1>9. PickOK(n) BY <1>0, <1>5, <1>8 DEF PickOK, Reg!Loading, Loaders
<1>10. ASSUME NEW b \in Brokers, Along(t, b) PROVE Along(n, b)
  <2>1. clients[b] = 0 BY <1>0, <1>10 DEF Along, LoaderAlong
  <2>2. Listed(n, b) <=> b \in Reg!Enabled BY <1>2, <1>5 DEF Listed
  <2>3. Reg!Enabled = {c \in Brokers : rows[c].on} BY DEF Reg!Enabled
  <2>4. IF Listed(n, b) THEN rows[b].on ELSE Fits(b) BY <2>1, <2>2, <2>3 DEF Fits
  <2> QED BY <1>0, <1>5, <2>4 DEF Along, LoaderAlong
<1>11. (Will(t) => Will(n)) /\ ~Deleting(t)
  <2>1. Reg!Enabled # {} => found # <<>> BY <1>2
  <2> QED BY <1>0, <1>5, <2>1 DEF Will, Deleting, Loaders
<1> QED BY <1>0, <1>4, <1>5, <1>6, <1>7, <1>9, <1>10, <1>11, QuietStep DEF Reg!Load, Reg!books, Reg!ghosts, Early

\* A list that is not empty: its first element and the others.
LEMMA HeadTail ==
  ASSUME NEW S, NEW s \in Seq(S), s # <<>>
  PROVE  /\ Head(s) \in S /\ Tail(s) \in Seq(S) /\ 1 \in DOMAIN s /\ Head(s) = s[1]
         /\ \A i \in DOMAIN s : i = 1 \/ (i - 1 \in DOMAIN Tail(s) /\ Tail(s)[i - 1] = s[i])
         /\ \A j \in DOMAIN Tail(s) : j + 1 \in DOMAIN s /\ Tail(s)[j] = s[j + 1]
<1>1. Head(s) \in S /\ Tail(s) \in Seq(S) /\ Len(s) \in Nat /\ Len(s) >= 1 OBVIOUS
<1>2. DOMAIN s = 1..Len(s) /\ DOMAIN Tail(s) = 1..(Len(s) - 1) BY <1>1
<1>3. \A j \in 1..(Len(s) - 1) : Tail(s)[j] = s[j + 1] BY <1>1
<1>4. ASSUME NEW i \in DOMAIN s, i # 1 PROVE i - 1 \in DOMAIN Tail(s) /\ Tail(s)[i - 1] = s[i]
  <2>1. i \in 1..Len(s) /\ i - 1 \in 1..(Len(s) - 1) /\ (i - 1) + 1 = i BY <1>1, <1>2, <1>4
  <2> QED BY <1>2, <1>3, <2>1
<1>5. ASSUME NEW j \in DOMAIN Tail(s) PROVE j + 1 \in DOMAIN s /\ Tail(s)[j] = s[j + 1]
  <2>1. j \in 1..(Len(s) - 1) /\ j + 1 \in 1..Len(s) BY <1>1, <1>2, <1>5
  <2> QED BY <1>2, <1>3, <2>1
<1>6. 1 \in DOMAIN s /\ Head(s) = s[1] BY <1>1, <1>2
<1> QED BY <1>1, <1>4, <1>5, <1>6

\* The loader takes the next row of its list.
LEMMA NextRowStep ==
  ASSUME BrokersFit, BInv, NEW t \in tasks, Reg!NextRow(t)
  PROVE  BInv'
<1>0. t \in TaskRecs /\ TaskOK(t) /\ PickOK(t) /\ t.kind \in Loaders /\ t.step = "next" /\ t.manager = 0
  BY OfTask DEF Reg!NextRow, TaskOK, StepsOf, Loaders, Kinds
<1>1. CASE t.todo = <<>>
  <2>1. Becomes(t, {}, FALSE) BY <1>1, Gives DEF Reg!NextRow
  <2>2. Succeeds(t, t) BY <1>0 DEF Succeeds
  <2>3. \A b \in Brokers : Along(t, b) => Fits(b)
    BY <1>0, <1>1 DEF Along, LoaderAlong, Listed
  <2>4. ~Will(t) /\ ~Deleting(t) BY <1>0, <1>1 DEF Will, Deleting, Loaders
  <2> QED BY <1>0, <2>1, <2>2, <2>3, <2>4, QuietStep DEF Reg!NextRow, Reg!books, Reg!ghosts
<1>2. CASE t.todo # <<>>
  <2>0. PICK h, rest, r : h = Head(t.todo) /\ rest = Tail(t.todo) /\ r = rows[Head(t.todo)]
    OBVIOUS
  <2>1. t.todo \in Seq(Brokers) BY <1>0 DEF TaskRecs
  <2>2. h \in Brokers /\ rest \in Seq(Brokers) /\ r \in [on : BOOLEAN, order : Int, version : Int]
    <3>1. h \in Brokers /\ rest \in Seq(Brokers) BY <1>2, <2>0, <2>1
    <3>2. r = rows[h] /\ r \in Rows BY <3>1, <2>0 DEF BInv, RegShapes, BooksOK
    <3>3. Reg!NoRow \in [on : BOOLEAN, order : Int, version : Int] BY DEF Reg!NoRow
    <3> QED BY <3>1, <3>2, <3>3 DEF Rows
  <2>3. PICK n : n = [t EXCEPT !.step = "connect", !.b = h, !.row = r, !.todo = rest]
    OBVIOUS
  <2>4. Becomes(t, {n}, FALSE) BY <1>2, <2>0, <2>3, Gives DEF Reg!NextRow
  <2>5. /\ n \in TaskRecs /\ n.id = t.id /\ n.kind = t.kind /\ n.b = h /\ n.step = "connect" /\ n.on = t.on
        /\ n.todo = rest /\ n.manager = t.manager /\ n.pick = t.pick /\ n.fresh = t.fresh /\ n.row = r
    BY <1>0, <2>2, <2>3 DEF TaskRecs, AllSteps, Named
  <2>6. Succeeds(t, n) BY <1>0, <2>5 DEF Succeeds
  <2>7. TaskOK(n) BY <1>0, <2>2, <2>5 DEF TaskOK, StepsOf, OneBroker, Loaders
  <2>8. PickOK(n) BY <1>0, <1>2, <2>0, <2>5 DEF PickOK, Reg!Loading, Loaders
  <2>9. ASSUME NEW b \in Brokers, Along(t, b) PROVE Along(n, b)
    <3>1. IF Listed(t, b) THEN rows[b].on ELSE Fits(b) BY <1>0, <2>9 DEF Along, LoaderAlong
    <3>2. \A i \in DOMAIN t.todo : t.todo[i] = h \/ \E j \in DOMAIN rest : rest[j] = t.todo[i]
      BY ZenonT(40), <2>0, <2>1, <1>2, HeadTail
    <3>3. \A j \in DOMAIN rest : j + 1 \in DOMAIN t.todo /\ rest[j] = t.todo[j + 1] BY <2>0, <2>1, <1>2, HeadTail
    <3>4. 1 \in DOMAIN t.todo /\ h = t.todo[1] BY <2>0, <2>1, <1>2, HeadTail
    <3>5. Listed(n, b) => Listed(t, b) BY <2>5, <3>3 DEF Listed
    <3>6. b # h /\ Listed(t, b) => Listed(n, b) BY <2>5, <3>2 DEF Listed
    <3>7. Listed(t, h) BY <3>4 DEF Listed
    <3>8. b # h => IF Listed(n, b) THEN rows[b].on ELSE Fits(b) BY <3>1, <3>5, <3>6
    <3>9. b = h => rows[b].on /\ n.row.version = rows[b].version BY <3>1, <3>7, <2>0, <2>5
    <3> QED BY <1>0, <2>5, <3>8, <3>9 DEF Along, LoaderAlong
  <2>10. (Will(t) => Will(n)) /\ ~Deleting(t) BY <1>0, <2>5 DEF Will, Deleting, Loaders
  <2> QED BY <1>0, <2>4, <2>5, <2>6, <2>7, <2>8, <2>9, <2>10, QuietStep DEF Reg!NextRow, Reg!books, Reg!ghosts, Early
<1> QED BY <1>1, <1>2

\* The greatest of some whole numbers is one of them and bounds the others.
LEMMA MaxOf ==
  ASSUME NEW S, IsFiniteSet(S), S # {}, S \subseteq Int
  PROVE  Reg!Max(S) \in S /\ \A y \in S : Reg!Max(S) >= y
<1> DEFINE F == {T \in FiniteSubsetsOf(S) : T # {} /\ \A x \in S : \E y \in T : x <= y}
<1>1. S \in F BY DEF FiniteSubsetsOf
<1>2. PICK T \in F : \A U \in F : ~(<<U, T>> \in StrictSubsetOrdering(S))
  <2>1. F \subseteq FiniteSubsetsOf(S) /\ F # {} BY <1>1
  <2> HIDE DEF F
  <2> QED BY <2>1, FS_StrictSubsetOrderingWellFounded, WFMin
<1>3. T \subseteq S /\ IsFiniteSet(T) /\ T # {} /\ \A x \in S : \E y \in T : x <= y BY <1>2 DEF FiniteSubsetsOf
<1>4. ASSUME NEW c \in T, NEW d \in T, c < d PROVE FALSE
  <2>1. T \ {c} \subseteq S /\ IsFiniteSet(T \ {c}) /\ T \ {c} # {} BY <1>3, <1>4, FS_Subset
  <2>2. \A x \in S : \E y \in T \ {c} : x <= y
    <3> SUFFICES ASSUME NEW x \in S PROVE \E y \in T \ {c} : x <= y
      OBVIOUS
    <3>1. PICK y \in T : x <= y BY <1>3
    <3>2. CASE y # c BY <3>1, <3>2
    <3>3. CASE y = c
      <4>1. d \in T \ {c} /\ x <= d BY <1>3, <1>4, <3>1, <3>3
      <4> QED BY <4>1
    <3> QED BY <3>2, <3>3
  <2>3. T \ {c} \in F BY <2>1, <2>2 DEF FiniteSubsetsOf
  <2>4. <<T \ {c}, T>> \in StrictSubsetOrdering(S) BY <1>3, <2>1 DEF StrictSubsetOrdering
  <2> QED BY <1>2, <2>3, <2>4
<1>5. PICK a \in T : TRUE BY <1>3
<1>6. a \in S /\ \A x \in S : a >= x
  <2> SUFFICES ASSUME NEW x \in S PROVE a >= x
    BY <1>3, <1>5
  <2>1. PICK y \in T : x <= y BY <1>3
  <2> QED BY <1>3, <1>4, <1>5, <2>1
<1>7. \E x \in S : \A y \in S : x >= y BY <1>6
<1> QED BY <1>7 DEF Reg!Max

\* Among the enabled rows there is one that comes first.
LEMMA MinOf ==
  ASSUME NEW S, S # {}, S \subseteq Nat
  PROVE  Reg!Min(S) \in S
<1>1. PICK x \in S : \A y \in S : ~(<<y, x>> \in OpToRel(<, Nat))
  BY NatLessThanWellFounded, WFMin
<1>2. ASSUME NEW y \in S, y < x PROVE FALSE
  <2>1. <<y, x>> \in Nat \X Nat /\ <<y, x>>[1] < <<y, x>>[2] BY <1>2
  <2>2. <<y, x>> \in OpToRel(<, Nat) BY <2>1 DEF OpToRel
  <2> QED BY <1>1, <2>2
<1>3. \A y \in S : x <= y BY <1>2
<1> QED BY <1>3 DEF Reg!Min

\* A row that is moved.
LEMMA Moved ==
  ASSUME NEW t \in TaskRecs, NEW s \in AllSteps, NEW n, n = [t EXCEPT !.step = s]
  PROVE  /\ n \in TaskRecs /\ n.id = t.id /\ n.kind = t.kind /\ n.b = t.b /\ n.step = s /\ n.on = t.on /\ n.was = t.was
         /\ n.row = t.row /\ n.todo = t.todo /\ n.manager = t.manager /\ n.pick = t.pick /\ n.fresh = t.fresh
         /\ Succeeds(t, n)
<1>1. /\ n \in TaskRecs /\ n.id = t.id /\ n.kind = t.kind /\ n.b = t.b /\ n.step = s /\ n.on = t.on /\ n.was = t.was
      /\ n.row = t.row /\ n.todo = t.todo /\ n.manager = t.manager /\ n.pick = t.pick /\ n.fresh = t.fresh
  BY DEF TaskRecs
<1> QED BY <1>1 DEF Succeeds

\* Rows and NoRow are records of one shape.
LEMMA RowRecs == \A x \in Rows : /\ x \in [on : BOOLEAN, order : Int, version : Int] /\ x.order >= -1
                                 /\ x.on => x # Reg!NoRow
<1>1. /\ Reg!NoRow \in [on : BOOLEAN, order : Int, version : Int] /\ Reg!NoRow.order >= -1 /\ ~Reg!NoRow.on
  BY DEF Reg!NoRow
<1>2. \A x \in [on : BOOLEAN, order : Nat, version : Int] : x \in [on : BOOLEAN, order : Int, version : Int] /\ x.order >= -1
  OBVIOUS
<1> QED BY <1>1, <1>2 DEF Rows

\* CreateBroker reads the greatest order.
LEMMA MaxOrderStep ==
  ASSUME BrokersFit, BInv, NEW t \in tasks, Reg!MaxOrder(t)
  PROVE  BInv'
<1>0. t \in TaskRecs /\ TaskOK(t) /\ t.kind = "create" /\ t.step = "max" /\ t.b \in Brokers /\ t.manager = 0
  BY OfTask DEF Reg!MaxOrder, TaskOK, StepsOf, OneBroker, Kinds
<1> DEFINE Orders == {rows[b].order : b \in Brokers}
<1>1. Reg!Max(Orders) \in Int /\ Reg!Max(Orders) >= -1
  <2>1. IsFiniteSet(Orders)
    <3> DEFINE order == [b \in Brokers |-> rows[b].order]
    <3>1. order \in Surjection(Brokers, Orders) BY DEF Surjection
    <3> QED BY <3>1, FS_Surjection DEF BrokersFit
  <2>2. rows[t.b].order \in Orders BY <1>0
  <2>3. \A x \in Orders : x \in Int /\ x >= -1
    <3>1. \A b \in Brokers : rows[b] \in Rows BY DEF BInv, RegShapes, BooksOK
    <3> QED BY <3>1, RowRecs
  <2> HIDE DEF Orders
  <2>4. Reg!Max(Orders) \in Orders BY <2>1, <2>2, <2>3, MaxOf
  <2> QED BY <2>3, <2>4
<1>2. PICK r : r = Reg!Row(t.on, Reg!Max(Orders) + 1, t.id)
  OBVIOUS
<1>3. r \in [on : BOOLEAN, order : Int, version : Int] /\ r.on = t.on /\ r.order \in Nat
  BY <1>0, <1>1, <1>2 DEF Reg!Row, TaskRecs
<1>4. PICK n : n = [t EXCEPT !.step = "insert", !.row = r]
  OBVIOUS
<1>5. Becomes(t, {n}, FALSE) BY <1>2, <1>4, Gives DEF Reg!MaxOrder
<1>6. /\ n \in TaskRecs /\ n.id = t.id /\ n.kind = t.kind /\ n.b = t.b /\ n.step = "insert" /\ n.on = t.on
      /\ n.row = r /\ n.manager = t.manager
  BY <1>0, <1>3, <1>4 DEF TaskRecs, AllSteps
<1>7. Succeeds(t, n) BY <1>6 DEF Succeeds
<1>8. TaskOK(n) BY <1>0, <1>3, <1>6 DEF TaskOK, StepsOf, OneBroker
<1>9. PickOK(n) BY <1>0, <1>6 DEF PickOK, Reg!Loading, Loaders
<1>10. \A b \in Brokers : Along(t, b) => Along(n, b)
  BY <1>0, <1>6 DEF Along, RequestAlong, Loaders
<1>11. ~Will(t) /\ ~Deleting(t) BY <1>0 DEF Will, Deleting, Loaders
<1> QED BY <1>0, <1>5, <1>6, <1>7, <1>8, <1>9, <1>10, <1>11, QuietStep DEF Reg!MaxOrder, Reg!books, Reg!ghosts, Early

\* CreateBroker inserts the row.
LEMMA InsertStep ==
  ASSUME BrokersFit, BInv, NEW t \in tasks, Reg!Insert(t)
  PROVE  BInv'
<1>0. /\ t \in TaskRecs /\ TaskOK(t) /\ t.kind = "create" /\ t.step = "insert" /\ t.b \in Brokers /\ t.manager = 0
      /\ t.row.on = t.on /\ t.row.order \in Nat /\ t.row \in [on : BOOLEAN, order : Int, version : Int] /\ t.on \in BOOLEAN
  BY OfTask DEF Reg!Insert, TaskOK, StepsOf, OneBroker, Kinds, TaskRecs
<1>1. ASSUME rows' = rows, Reg!Done(t) PROVE BInv'
  <2>1. Becomes(t, {}, FALSE) BY <1>1, Gives
  <2>2. Succeeds(t, t) BY <1>0 DEF Succeeds
  <2>3. \A b \in Brokers : b \in About(t) /\ Along(t, b) => Fits(b)
    BY <1>0 DEF Along, RequestAlong, Loaders
  <2>4. ~Will(t) /\ ~Deleting(t) BY <1>0 DEF Will, Deleting, Loaders
  <2> QED BY <1>0, <1>1, <2>1, <2>2, <2>3, <2>4, QuietStep DEF Reg!Insert, Reg!books, Reg!ghosts
<1>2. ASSUME rows' = [rows EXCEPT ![t.b] = t.row], Reg!Written(t, IF t.on THEN {[t EXCEPT !.step = "connect"]} ELSE {})
      PROVE  BInv'
  <2>1. PICK n : n = [t EXCEPT !.step = "connect"] OBVIOUS
  <2>2. PICK ns : ns = IF t.on THEN {n} ELSE {} OBVIOUS
  <2>3. Becomes(t, ns, TRUE) /\ ns \in SUBSET {n} BY <1>2, <2>1, <2>2, Gives
  <2>4. /\ n \in TaskRecs /\ n.id = t.id /\ n.kind = t.kind /\ n.b = t.b /\ n.step = "connect" /\ n.on = t.on
        /\ n.row = t.row /\ n.manager = t.manager /\ Succeeds(t, n)
    BY <1>0, <2>1, Moved DEF AllSteps
  <2>5. rows \in [Brokers -> Rows] /\ rows[t.b] = Reg!NoRow BY <1>0 DEF BInv, RegShapes, BooksOK, Announced
  <2>6. UNCHANGED <<managers, clients, default, created, crossed, halved, stale, counts>> /\ Reg!Database
    BY DEF Reg!Insert, Reg!books, Reg!ghosts
  <2>7. t.row \in Rows BY <1>0 DEF Rows
  <2>8. rows' \in [Brokers -> Rows] /\ rows'[t.b] = t.row /\ \A b \in Brokers : b # t.b => rows'[b] = rows[b]
    BY <1>0, <1>2, <2>5, <2>7
  <2>9. BooksOK' BY <2>6, <2>8 DEF BInv, RegShapes, BooksOK
  <2>10. SameManagers BY <2>6 DEF SameManagers
  <2>11. Owned' BY <1>0, <2>3, <2>6, OwnedStep DEF BInv
  <2>12. NewRows(t, n) BY <1>0, <2>4, <2>8 DEF NewRows, Early
  <2>13. ns # {} => TaskOK(n)' BY <1>0, <2>2, <2>4 DEF TaskOK, StepsOf, OneBroker
  <2>14. PickOK(n)' BY <1>0, <2>4 DEF PickOK, Reg!Loading, Loaders
  <2>15. ASSUME NEW b \in Brokers, InPlace(b)
         PROVE  IF b \in About(t) THEN IF ns = {} THEN Fits(b)' ELSE Along(n, b)' ELSE SameAt(b)
    <3>1. b \in About(t) <=> b = t.b BY <1>0, OfTask DEF Loaders, BrokersFit
    <3>2. CASE b # t.b BY <2>6, <2>8, <3>1, <3>2 DEF SameAt
    <3>3. CASE b = t.b
      <4>1. Fits(b) BY <1>0, <2>15, <3>1, <3>3 DEF InPlace, Along, RequestAlong, Loaders
      <4>2. clients[b] = 0 BY <2>5, <3>3, <4>1 DEF Fits, Reg!NoRow
      <4>3. ns = {} => Fits(b)' BY <1>0, <2>2, <2>6, <2>8, <3>3, <4>2 DEF Fits
      <4>4. ns # {} => Along(n, b)' BY <1>0, <2>2, <2>4, <2>6, <2>8, <3>3, <4>2 DEF Along, RequestAlong, Loaders
      <4> QED BY <3>1, <3>3, <4>3, <4>4
    <3> QED BY <3>2, <3>3
  <2>16. ns # {} => Will(n)' BY <1>0, <2>4 DEF Will, Loaders
  <2>17. ns = {} /\ ~stale => NoLess(t)
    <3> SUFFICES ASSUME ~t.on, ~stale PROVE NoLess(t)
      BY <2>2
    <3>1. Reg!Enabled' = Reg!Enabled BY <1>0, <2>5, <2>8 DEF Reg!Enabled, Reg!NoRow
    <3>2. t.b \notin Reg!Enabled BY <2>5 DEF Reg!Enabled, Reg!NoRow
    <3>3. Reg!LeastEnabled' = Reg!LeastEnabled BY <2>8, <3>1, <3>2 DEF Reg!LeastEnabled, Reg!Enabled
    <3>4. ~Will(t) /\ ~Deleting(t) BY <1>0 DEF Will, Deleting, Loaders
    <3> QED BY <2>6, <3>1, <3>3, <3>4 DEF NoLess, Right
  <2>18. halved \subseteq halved' BY <2>6
  <2> QED
    BY <2>3, <2>4, <2>6, <2>9, <2>10, <2>11, <2>12, <2>13, <2>14, <2>15, <2>16, <2>17, <2>18, TaskStep DEF Early
<1> QED BY <1>1, <1>2 DEF Reg!Insert

\* UpdateBroker writes the row.
LEMMA WriteStep ==
  ASSUME BrokersFit, BInv, NEW t \in tasks, Reg!Write(t)
  PROVE  BInv'
<1>0. /\ t \in TaskRecs /\ TaskOK(t) /\ t.kind = "update" /\ t.step = "write" /\ t.b \in Brokers /\ t.manager = 0
      /\ t.row.on = t.on /\ t.row.order \in Nat /\ t.row \in [on : BOOLEAN, order : Int, version : Int] /\ t.on \in BOOLEAN
      /\ t.was \in BOOLEAN
  BY OfTask DEF Reg!Write, TaskOK, StepsOf, OneBroker, Kinds, TaskRecs
<1>1. ASSUME rows' = rows, Reg!Done(t) PROVE BInv'
  <2>1. Becomes(t, {}, FALSE) BY <1>1, Gives
  <2>2. Succeeds(t, t) BY <1>0 DEF Succeeds
  <2>3. \A b \in Brokers : b \in About(t) /\ Along(t, b) => Fits(b)
    BY <1>0 DEF Along, RequestAlong, Loaders
  <2>4. ~Will(t) /\ ~Deleting(t) BY <1>0 DEF Will, Deleting, Loaders
  <2> QED BY <1>0, <1>1, <2>1, <2>2, <2>3, <2>4, QuietStep DEF Reg!Write, Reg!books, Reg!ghosts
<1>2. ASSUME rows' = IF t.b \in Reg!Present THEN [rows EXCEPT ![t.b] = t.row] ELSE rows,
             Reg!Written(t, {[t EXCEPT !.step = Reg!AfterWrite(t)]})
      PROVE  BInv'
  <2>0. PICK s : s = Reg!AfterWrite(t) OBVIOUS
  <2>00. s \in {"remove", "connect", "select"} /\ (s = "remove" <=> t.was) /\ (s = "connect" <=> ~t.was /\ t.on)
    BY <1>0, <2>0 DEF Reg!AfterWrite
  <2>1. PICK n : n = [t EXCEPT !.step = s] OBVIOUS
  <2>3. Becomes(t, {n}, TRUE) BY <1>2, <2>0, <2>1, Gives
  <2>4. /\ n \in TaskRecs /\ n.id = t.id /\ n.kind = t.kind /\ n.b = t.b /\ n.step = s /\ n.on = t.on
        /\ n.row = t.row /\ n.manager = t.manager /\ Succeeds(t, n)
    BY <1>0, <2>00, <2>1, Moved DEF AllSteps
  <2>5. rows \in [Brokers -> Rows] BY DEF BInv, RegShapes, BooksOK
  <2>6. UNCHANGED <<managers, clients, default, created, crossed, halved, stale, counts>> /\ Reg!Database
    BY DEF Reg!Write, Reg!books, Reg!ghosts
  <2>7. t.row \in Rows BY <1>0 DEF Rows
  <2>8. rows' \in [Brokers -> Rows] /\ (rows[t.b] # Reg!NoRow => rows'[t.b] = t.row) /\ \A b \in Brokers : b # t.b \/ rows[b] = Reg!NoRow => rows'[b] = rows[b]
    BY <1>0, <1>2, <2>5, <2>7 DEF Reg!Present
  <2>9. BooksOK' BY <2>6, <2>8 DEF BInv, RegShapes, BooksOK
  <2>10. SameManagers BY <2>6 DEF SameManagers
  <2>11. Owned' BY <1>0, <2>3, <2>6, OwnedStep DEF BInv
  <2>12. NewRows(t, n) BY <2>8 DEF NewRows
  <2>13. TaskOK(n)' BY <1>0, <2>00, <2>4 DEF TaskOK, StepsOf, OneBroker
  <2>14. PickOK(n)' BY <1>0, <2>00, <2>4 DEF PickOK, Reg!Loading, Loaders
  <2>15. ASSUME NEW b \in Brokers, InPlace(b)
         PROVE  IF b \in About(t) THEN Along(n, b)' ELSE SameAt(b)
    <3>1. b \in About(t) <=> b = t.b BY <1>0, OfTask DEF Loaders, BrokersFit
    <3>2. CASE b # t.b BY <2>6, <2>8, <3>1, <3>2 DEF SameAt
    <3>3. CASE b = t.b
      <4>1. Fits(b) /\ rows[b] # Reg!NoRow /\ t.was = rows[b].on
        BY <1>0, <2>15, <3>1, <3>3 DEF InPlace, Along, RequestAlong, Loaders
      <4>2. ~t.was => clients'[b] = 0 BY <2>6, <4>1 DEF Fits
      <4>3. rows'[b].on = t.on /\ rows'[b].version = t.row.version BY <1>0, <2>8, <3>3, <4>1
      <4>4. s = "select" => Fits(b)' BY <2>00, <4>2, <4>3 DEF Fits
      <4>5. Along(n, b)' BY <1>0, <2>00, <2>4, <4>2, <4>3, <4>4 DEF Along, RequestAlong, Loaders
      <4> QED BY <3>1, <3>3, <4>5
    <3> QED BY <3>2, <3>3
  <2>16. Will(n)' BY <1>0, <2>00, <2>4 DEF Will, Loaders
  <2>17. halved \subseteq halved' BY <2>6
  <2>18. n.step \notin Early BY <2>00, <2>4 DEF Early
  <2> QED
    BY <2>3, <2>4, <2>6, <2>9, <2>10, <2>11, <2>12, <2>13, <2>14, <2>15, <2>16, <2>17, <2>18, TaskStep
<1> QED BY <1>1, <1>2 DEF Reg!Write

\* DeleteBroker deletes the row.
LEMMA DeleteStep ==
  ASSUME BrokersFit, BInv, NEW t \in tasks, Reg!Delete(t)
  PROVE  BInv'
<1>0. t \in TaskRecs /\ TaskOK(t) /\ t.kind = "delete" /\ t.step = "delete" /\ t.b \in Brokers /\ t.manager = 0
  BY OfTask DEF Reg!Delete, TaskOK, StepsOf, OneBroker, Kinds
<1>1. rows \in [Brokers -> Rows] /\ UNCHANGED <<managers, clients, default, created, crossed, counts>> /\ Reg!Database
  BY DEF BInv, RegShapes, BooksOK, Reg!Delete, Reg!books
<1>2. \A b \in Brokers : b \in About(t) <=> b = t.b BY <1>0, OfTask DEF Loaders, BrokersFit
<1>3. \A b \in Brokers : b = t.b /\ InPlace(b) => clients[b] = 0
  BY <1>0, <1>2 DEF InPlace, Along, RequestAlong, Loaders
<1>4. SameManagers BY <1>1 DEF SameManagers
<1>5. PICK n : n = [t EXCEPT !.step = "select"] OBVIOUS
<1>6. /\ n \in TaskRecs /\ n.id = t.id /\ n.kind = t.kind /\ n.b = t.b /\ n.step = "select" /\ n.on = t.on
      /\ n.row = t.row /\ n.manager = t.manager /\ Succeeds(t, n)
  BY <1>0, <1>5, Moved DEF AllSteps
<1>7. n.step \notin Early BY <1>6 DEF Early
<1>8. ASSUME rows' = rows, Reg!Done(t), halved' = halved \cup ({t.b} \cap Reg!Present), stale' = (stale \/ default = Reg!NoBroker)
      PROVE  BInv'
  <2>1. Becomes(t, {}, FALSE) BY <1>8, Gives
  <2>2. BooksOK' BY <1>0, <1>1, <1>8 DEF BInv, RegShapes, BooksOK
  <2>3. Owned' BY <1>0, <1>1, <2>1, OwnedStep DEF BInv
  <2>4. NewRows(t, n) BY <1>8 DEF NewRows
  <2>5. ASSUME NEW b \in Brokers \ (crossed \cup halved'), InPlace(b)
        PROVE  IF b \in About(t) THEN Fits(b)' ELSE SameAt(b)
    <3>1. CASE b # t.b BY <1>1, <1>2, <1>8, <3>1 DEF SameAt
    <3>2. CASE b = t.b
      <4>1. rows'[b] = Reg!NoRow BY <1>8, <2>5, <3>2 DEF Reg!Present
      <4> QED BY <1>1, <1>2, <1>3, <2>5, <3>2, <4>1 DEF Fits, Reg!NoRow
    <3> QED BY <3>1, <3>2
  <2>6. ~stale' => NoLess(t)
    BY <1>0, <1>1, <1>8, TableKept DEF NoLess, Will, Loaders, Right
  <2> QED BY <1>1, <1>4, <1>6, <1>7, <1>8, <2>1, <2>2, <2>3, <2>4, <2>5, <2>6, TaskStep
<1>9. ASSUME t.b \in Reg!Present, rows' = [rows EXCEPT ![t.b] = Reg!NoRow], Reg!Written(t, {n}), UNCHANGED <<halved, stale>>
      PROVE  BInv'
  <2>1. Becomes(t, {n}, TRUE) BY <1>9, Gives
  <2>2. rows' \in [Brokers -> Rows] /\ rows'[t.b] = Reg!NoRow /\ \A b \in Brokers : b # t.b => rows'[b] = rows[b]
    BY <1>0, <1>1, <1>9 DEF Rows
  <2>3. BooksOK' BY <1>1, <1>9, <2>2 DEF BInv, RegShapes, BooksOK
  <2>4. Owned' BY <1>0, <1>1, <2>1, OwnedStep DEF BInv
  <2>5. NewRows(t, n) BY <2>2 DEF NewRows
  <2>6. TaskOK(n)' BY <1>0, <1>6 DEF TaskOK, StepsOf, OneBroker
  <2>7. PickOK(n)' BY <1>0, <1>6 DEF PickOK, Reg!Loading, Loaders
  <2>8. ASSUME NEW b \in Brokers \ (crossed \cup halved'), InPlace(b)
        PROVE  IF b \in About(t) THEN Along(n, b)' ELSE SameAt(b)
    <3>1. CASE b # t.b BY <1>1, <1>2, <2>2, <3>1 DEF SameAt
    <3>2. CASE b = t.b
      <4>1. Fits(b)' BY <1>1, <1>3, <2>2, <2>8, <3>2 DEF Fits, Reg!NoRow
      <4> QED BY <1>0, <1>2, <1>6, <3>2, <4>1 DEF Along, RequestAlong, Loaders
    <3> QED BY <3>1, <3>2
  <2>9. Will(n)' BY <1>0, <1>6 DEF Will, Loaders
  <2> QED BY <1>1, <1>4, <1>6, <1>7, <1>9, <2>1, <2>3, <2>4, <2>5, <2>6, <2>7, <2>8, <2>9, TaskStep
<1> QED BY <1>5, <1>8, <1>9 DEF Reg!Delete

\* ReorderBrokers writes the order.
LEMMA ReorderStep ==
  ASSUME BrokersFit, BInv, NEW t \in tasks, Reg!Reorder(t)
  PROVE  BInv'
<1>0. t \in TaskRecs /\ TaskOK(t) /\ t.kind = "reorder" /\ t.step = "reorder" /\ t.b = Reg!NoBroker /\ t.manager = 0
  BY OfTask DEF Reg!Reorder, TaskOK, StepsOf, OneBroker, Kinds
<1>1. rows \in [Brokers -> Rows] /\ UNCHANGED <<managers, clients, default, created, crossed, halved, stale, counts>> /\ Reg!Database
  BY DEF BInv, RegShapes, BooksOK, Reg!Reorder, Reg!books, Reg!ghosts
<1>2. About(t) = {} BY <1>0, OfTask DEF Loaders
<1>3. ASSUME rows' = rows, Reg!Done(t) PROVE BInv'
  <2>1. Becomes(t, {}, FALSE) BY <1>3, Gives
  <2>2. Succeeds(t, t) BY <1>0 DEF Succeeds
  <2>4. ~Will(t) /\ ~Deleting(t) BY <1>0 DEF Will, Deleting, Loaders
  <2> QED BY <1>0, <1>1, <1>2, <1>3, <2>1, <2>2, <2>4, QuietStep
<1>4. ASSUME NEW order \in [Reg!Present -> 0..(Reg!Cardinality(Reg!Present) - 1)],
             rows' = [b \in Brokers |-> IF b \in Reg!Present THEN [rows[b] EXCEPT !.order = order[b]] ELSE Reg!NoRow],
             Reg!Written(t, {[t EXCEPT !.step = "select"]})
      PROVE  BInv'
  <2>0. \A b \in Reg!Present : order[b] \in Nat
    <3>1. Reg!Cardinality(Reg!Present) = Cardinality(Reg!Present) BY DEF Reg!Cardinality, Cardinality
    <3>2. IsFiniteSet(Reg!Present) BY FS_Subset DEF BrokersFit, Reg!Present
    <3>3. Cardinality(Reg!Present) \in Nat BY <3>2, FS_CardinalityType
    <3> QED BY <3>1, <3>3
  <2>1. PICK n : n = [t EXCEPT !.step = "select"] OBVIOUS
  <2>2. /\ n \in TaskRecs /\ n.id = t.id /\ n.kind = t.kind /\ n.b = t.b /\ n.step = "select" /\ n.on = t.on
        /\ n.row = t.row /\ n.manager = t.manager /\ Succeeds(t, n)
    BY <1>0, <2>1, Moved DEF AllSteps
  <2>3. Becomes(t, {n}, TRUE) BY <1>4, <2>1, Gives
  <2>4. ASSUME NEW b \in Brokers
        PROVE  /\ rows'[b] \in Rows /\ rows'[b].on = rows[b].on /\ rows'[b].version = rows[b].version
               /\ rows[b] = Reg!NoRow <=> rows'[b] = Reg!NoRow
    <3>1. CASE b \notin Reg!Present BY <1>4, <3>1 DEF Reg!Present, Rows
    <3>2. CASE b \in Reg!Present
      <4>1. rows[b] \in [on : BOOLEAN, order : Nat, version : Int] /\ rows[b] # Reg!NoRow BY <1>1, <3>2 DEF Reg!Present, Rows
      <4>2. PICK r : r = [rows[b] EXCEPT !.order = order[b]] OBVIOUS
      <4>3. rows'[b] = r BY <1>4, <3>2, <4>2
      <4>4. r \in [on : BOOLEAN, order : Nat, version : Int] /\ r.on = rows[b].on /\ r.version = rows[b].version /\ r.order >= 0
        BY <2>0, <3>2, <4>1, <4>2
      <4>5. r # Reg!NoRow BY <4>4 DEF Reg!NoRow
      <4> QED BY <4>1, <4>3, <4>4, <4>5 DEF Rows
    <3> QED BY <3>1, <3>2
  <2>5. rows' \in [Brokers -> Rows] BY <1>4, <2>4
  <2>6. BooksOK' BY <1>1, <2>5 DEF BInv, RegShapes, BooksOK
  <2>7. SameManagers BY <1>1 DEF SameManagers
  <2>8. Owned' BY <1>0, <1>1, <2>3, OwnedStep DEF BInv
  <2>9. NewRows(t, n) BY <2>4 DEF NewRows
  <2>10. TaskOK(n)' BY <1>0, <2>2 DEF TaskOK, StepsOf, OneBroker
  <2>11. PickOK(n)' BY <1>0, <2>2 DEF PickOK, Reg!Loading, Loaders
  <2>12. \A b \in Brokers : SameAt(b) BY <1>1, <2>4 DEF SameAt
  <2>13. Will(n)' BY <1>0, <2>2 DEF Will, Loaders
  <2>14. n.step \notin Early BY <2>2 DEF Early
  <2> QED
    BY <1>1, <1>2, <2>2, <2>3, <2>6, <2>7, <2>8, <2>9, <2>10, <2>11, <2>12, <2>13, <2>14, TaskStep
<1> QED BY <1>3, <1>4 DEF Reg!Reorder

ManagerRecs == [broker : Brokers, version : Int, link : {"up", "failed", "slow", "late", "off"}]
Managers == Seq(ManagerRecs)

\* An element of a sequence.
LEMMA SeqAt ==
  ASSUME NEW S, NEW s \in Seq(S)
  PROVE  /\ 0 \notin DOMAIN s /\ \A i \in DOMAIN s : s[i] \in S
         /\ \A i \in DOMAIN s, x \in S :
               /\ [s EXCEPT ![i] = x] \in Seq(S) /\ DOMAIN [s EXCEPT ![i] = x] = DOMAIN s
               /\ [s EXCEPT ![i] = x][i] = x
               /\ \A j \in DOMAIN s : j # i => [s EXCEPT ![i] = x][j] = s[j]
OBVIOUS

\* A manager more, which the task that made it holds.
LEMMA ConnectStep ==
  ASSUME BrokersFit, BInv, NEW t \in tasks, Reg!Connect(t)
  PROVE  BInv'
<1>0. /\ t \in TaskRecs /\ TaskOK(t) /\ t.kind \in Kinds /\ t.step = "connect" /\ t.b \in Brokers /\ t.manager = 0
      /\ t.row.version \in Int /\ t.kind \in {"create", "update", "boot", "reset"} /\ PickOK(t)
  BY OfTask DEF Reg!Connect, TaskOK, StepsOf, Kinds, TaskRecs
<1>1. PICK link \in {"up", "failed", "slow"} :
         managers' = Append(managers, [broker |-> t.b, version |-> t.row.version, link |-> link])
  BY DEF Reg!Connect
<1>2. PICK m, k : m = [broker |-> t.b, version |-> t.row.version, link |-> link] /\ k = Len(managers')
  OBVIOUS
<1>3. managers \in Managers BY DEF BInv, RegShapes, BooksOK, Managers, ManagerRecs
<1>4. m \in [broker : Brokers, version : Int, link : {"up", "failed", "slow", "late", "off"}] /\ m.broker = t.b /\ m.version = t.row.version
  BY <1>0, <1>2
<1>5. managers' = Append(managers, m) BY <1>1, <1>2
<1>6. /\ managers' \in Managers /\ k \in Nat /\ k # 0 /\ k \in DOMAIN managers' /\ k \notin DOMAIN managers /\ managers'[k] = m
      /\ \A i \in DOMAIN managers : i \in DOMAIN managers' /\ managers'[i] = managers[i]
      /\ \A i \in DOMAIN managers' : i = k \/ i \in DOMAIN managers
  BY <1>2, <1>3, <1>4, <1>5, SeqAt DEF Managers, ManagerRecs
<1>7. UNCHANGED <<rows, clients, default, created, crossed, halved, stale, counts>>
  BY DEF Reg!Connect, Reg!ghosts
<1>8. PICK n : n = [t EXCEPT !.step = "store", !.manager = k] OBVIOUS
<1>9. Becomes(t, {n}, FALSE) BY <1>2, <1>8, Gives DEF Reg!Connect
<1>10. /\ n \in TaskRecs /\ n.id = t.id /\ n.kind = t.kind /\ n.b = t.b /\ n.step = "store" /\ n.on = t.on
       /\ n.row = t.row /\ n.todo = t.todo /\ n.manager = k /\ n.pick = t.pick /\ n.fresh = t.fresh
  BY <1>0, <1>6, <1>8 DEF TaskRecs, AllSteps
<1>11. Succeeds(t, n) BY <1>10 DEF Succeeds
<1>12. BooksOK' BY <1>6, <1>7 DEF BInv, RegShapes, BooksOK, Managers, ManagerRecs
<1>13. SameManagers BY <1>6 DEF SameManagers
<1>14. Owned'
  <2> SUFFICES ASSUME NEW i \in DOMAIN managers', managers'[i].link = "up"
               PROVE  clients[managers'[i].broker] = i \/ \E v \in tasks' : v.manager = i
    BY <1>7 DEF Owned, Reg!NoOrphans
  <2>1. CASE i = k BY <1>9, <1>10, <2>1 DEF Becomes
  <2>2. CASE i \in DOMAIN managers
    <3>1. managers[i].link = "up" /\ managers'[i] = managers[i] BY <1>6, <2>2
    <3>2. CASE clients[managers[i].broker] = i BY <3>1, <3>2
    <3>3. CASE \E u \in tasks : u.manager = i
      <4>1. PICK u \in tasks : u.manager = i BY <3>3
      <4>2. u # t BY <1>0, <1>3, <2>2, <4>1, SeqAt DEF Managers
      <4>3. Stays(u, FALSE) \in tasks' /\ Stays(u, FALSE).manager = i
        BY <1>9, <4>1, <4>2 DEF Stays, Becomes
      <4> QED BY <4>3
    <3> QED BY <2>2, <3>1, <3>2, <3>3 DEF BInv, Owned, Reg!NoOrphans
  <2> QED BY <1>6, <2>1, <2>2
<1>15. NewRows(t, n) BY <1>7 DEF NewRows
<1>16. TaskOK(n)' BY <1>0, <1>4, <1>6, <1>10 DEF TaskOK, StepsOf, OneBroker
<1>17. PickOK(n)' BY <1>0, <1>7, <1>10, TableKept DEF PickOK, Reg!Loading, Loaders
<1>18. ASSUME NEW b \in Brokers, InPlace(b)
       PROVE  IF b \in About(t) THEN Along(n, b)' ELSE SameAt(b)
  <2>1. CASE b \notin About(t) BY <1>7, <2>1 DEF SameAt
  <2>2. CASE b \in About(t)
    <3>1. Along(t, b) BY <1>18, <2>2 DEF InPlace
    <3>2. Fits(b) => Fits(b)' BY <1>6, <1>7 DEF Fits, BInv, RegShapes, BooksOK
    <3>3. CASE t.kind \in Loaders
      <4>1. Listed(n, b) <=> Listed(t, b) BY <1>10 DEF Listed
      <4> QED BY <1>0, <1>4, <1>6, <1>7, <1>10, <2>2, <3>1, <3>2, <3>3, <4>1 DEF Along, LoaderAlong, Listed
    <3>4. CASE t.kind \notin Loaders
      <4>1. t.kind \in {"create", "update"} /\ t.on BY <1>0, <3>4 DEF Loaders, TaskOK
      <4> QED BY <1>0, <1>4, <1>6, <1>7, <1>10, <2>2, <3>1, <3>4, <4>1 DEF Along, RequestAlong
    <3> QED BY <2>2, <3>3, <3>4
  <2> QED BY <2>1, <2>2
<1>19. ~stale' => Will(n)' \/ NoLess(t)
  <2>1. t.kind \notin Loaders \/ t.pick = Reg!NoBroker => Will(n)' BY <1>10 DEF Will
  <2>2. t.kind \in Loaders /\ t.pick # Reg!NoBroker /\ ~stale => NoLess(t)
    BY <1>0, <1>7, TableKept DEF NoLess, Will, Deleting, Loaders, Right
  <2> QED BY <1>7, <2>1, <2>2
<1>20. n.step \notin Early /\ halved \subseteq halved' BY <1>7, <1>10 DEF Early
<1> QED
  BY <1>7, <1>9, <1>11, <1>12, <1>13, <1>14, <1>15, <1>16, <1>17, <1>18, <1>19, <1>20, TaskStep

\* Disconnect leaves a manager that is down.
LEMMA OffKeeps ==
  ASSUME managers \in Managers, NEW m, m = 0 \/ m \in DOMAIN managers, managers' = Reg!Off(m)
  PROVE  /\ managers' \in Managers /\ DOMAIN managers' = DOMAIN managers /\ SameManagers
         /\ \A i \in DOMAIN managers : /\ managers'[i].broker = managers[i].broker
                                       /\ managers'[i].version = managers[i].version
                                       /\ managers'[i].link = "up" => managers[i].link = "up" /\ i # m
<1>1. CASE m = 0 \/ managers[m].link \notin {"up", "late"}
  <2>1. managers' = managers BY <1>1 DEF Reg!Off
  <2>2. m \in DOMAIN managers => m # 0 BY SeqAt DEF Managers
  <2> QED BY <1>1, <2>1, <2>2 DEF SameManagers
<1>2. CASE m # 0 /\ managers[m].link \in {"up", "late"}
  <2>1. m \in DOMAIN managers /\ managers' = [managers EXCEPT ![m] = [managers[m] EXCEPT !.link = "off"]] BY <1>2 DEF Reg!Off
  <2>2. PICK x : x = [managers[m] EXCEPT !.link = "off"] OBVIOUS
  <2>3. managers[m] \in ManagerRecs BY <2>1, SeqAt DEF Managers
  <2>4. x \in ManagerRecs /\ x.broker = managers[m].broker /\ x.version = managers[m].version /\ x.link = "off"
    BY <2>2, <2>3 DEF ManagerRecs
  <2>5. /\ managers' \in Managers /\ DOMAIN managers' = DOMAIN managers /\ managers'[m] = x
        /\ \A i \in DOMAIN managers : i # m => managers'[i] = managers[i]
    BY <2>1, <2>2, <2>4, SeqAt DEF Managers
  <2> QED BY <2>1, <2>4, <2>5 DEF SameManagers
<1> QED BY <1>1, <1>2

\* The registry takes manager k, or none, in the place of one it takes down.
LEMMA TakesPlace ==
  ASSUME BInv, NEW t \in tasks, NEW b \in Brokers, NEW n, NEW ns \in SUBSET {n}, NEW w \in BOOLEAN, Becomes(t, ns, w),
         managers' = Reg!Off(clients[b]), clients' = [clients EXCEPT ![b] = t.manager],
         t.manager # 0 => t.manager \in DOMAIN managers /\ managers[t.manager].broker = b,
         UNCHANGED <<rows, created, crossed, halved, counts>>, default' \in Named, stale' \in BOOLEAN
  PROVE  /\ BooksOK' /\ SameManagers /\ Owned' /\ \A c \in Brokers : c # b => SameAt(c) /\ (Fits(c) => Fits(c)')
         /\ clients'[b] = t.manager
<1>1. managers \in Managers /\ clients \in [Brokers -> Nat] /\ t \in TaskRecs
  BY DEF BInv, RegShapes, BooksOK, Managers, ManagerRecs
<1>2. \A c \in Brokers : clients[c] = 0 \/ (clients[c] \in DOMAIN managers /\ managers[clients[c]].broker = c)
  BY DEF BInv, RegShapes, BooksOK
<1>3. /\ managers' \in Managers /\ DOMAIN managers' = DOMAIN managers /\ SameManagers
      /\ \A i \in DOMAIN managers : /\ managers'[i].broker = managers[i].broker
                                    /\ managers'[i].version = managers[i].version
                                    /\ managers'[i].link = "up" => managers[i].link = "up" /\ i # clients[b]
  BY <1>1, <1>2, OffKeeps
<1>4. t.manager \in Nat BY <1>1 DEF TaskRecs
<1>5. clients' \in [Brokers -> Nat] /\ clients'[b] = t.manager /\ \A c \in Brokers : c # b => clients'[c] = clients[c]
  BY <1>1, <1>4
<1>6. \A c \in Brokers : clients'[c] # 0 => clients'[c] \in DOMAIN managers' /\ managers'[clients'[c]].broker = c
  BY <1>2, <1>3, <1>5
<1>7. BooksOK' BY <1>3, <1>5, <1>6 DEF BInv, RegShapes, BooksOK, Managers, ManagerRecs
<1>8. Owned'
  <2> SUFFICES ASSUME NEW i \in DOMAIN managers, managers'[i].link = "up"
               PROVE  clients'[managers[i].broker] = i \/ \E v \in tasks' : v.manager = i
    BY <1>3 DEF Owned, Reg!NoOrphans
  <2>0. managers[i] \in ManagerRecs /\ i # 0 BY <1>1, SeqAt DEF Managers
  <2>1. managers[i].link = "up" /\ i # clients[b] /\ managers[i].broker \in Brokers BY <1>3, <2>0 DEF ManagerRecs
  <2>2. CASE clients[managers[i].broker] = i BY <1>5, <2>1, <2>2
  <2>3. CASE \E u \in tasks : u.manager = i
    <3>1. PICK u \in tasks : u.manager = i BY <2>3
    <3>2. CASE u = t
      <4> QED BY <1>5, <2>0, <3>1, <3>2
    <3>3. CASE u # t
      <4>1. Stays(u, w) \in tasks' /\ Stays(u, w).manager = i
        BY <3>1, <3>3, StayRec DEF Becomes, BInv, RegShapes
      <4> QED BY <4>1
    <3> QED BY <3>2, <3>3
  <2> QED BY <2>1, <2>2, <2>3 DEF BInv, Owned, Reg!NoOrphans
<1>9. \A c \in Brokers : c # b => SameAt(c) /\ (Fits(c) => Fits(c)')
  BY <1>2, <1>3, <1>5 DEF SameAt, Fits
<1> QED BY <1>3, <1>5, <1>7, <1>8, <1>9

\* AddBroker puts its manager in the registry. registry.go:24
LEMMA StoreStep ==
  ASSUME BrokersFit, BInv, NEW t \in tasks, Reg!Store(t)
  PROVE  BInv'
<1>0. /\ t \in TaskRecs /\ TaskOK(t) /\ PickOK(t) /\ t.step = "store" /\ t.b \in Brokers /\ t.kind \in {"create", "update", "boot", "reset"}
      /\ t.manager \in DOMAIN managers /\ managers[t.manager].broker = t.b
  BY OfTask DEF Reg!Store, TaskOK, StepsOf, Kinds
<1>1. UNCHANGED <<rows, default, created, crossed, halved, stale, counts>> BY DEF Reg!Store, Reg!ghosts
<1>2. t.manager # 0 BY <1>0, SeqAt DEF BInv, RegShapes, BooksOK
<1>3. PICK s, p : s = Reg!AfterStore(t) /\ p = IF Reg!AfterStore(t) = "default" THEN t.b ELSE t.pick
  OBVIOUS
<1>4. /\ t.kind \notin Loaders => s = "select" /\ p = t.pick
      /\ t.kind \in Loaders /\ t.pick = Reg!NoBroker => s = "default" /\ p = t.b
      /\ t.kind \in Loaders /\ t.pick # Reg!NoBroker => s = "next" /\ p = t.pick
      /\ s \in AllSteps /\ p \in Named
  <2>1. t.pick \in Named BY <1>0 DEF TaskRecs
  <2>2. CASE t.kind \in {"create", "update"}
    <3>1. s = "select" BY <1>3, <2>2 DEF Reg!AfterStore
    <3> QED BY <1>3, <2>1, <2>2, <3>1 DEF Loaders, AllSteps
  <2>3. CASE t.kind \in Loaders
    <3>1. s = IF t.pick = Reg!NoBroker THEN "default" ELSE "next" BY <1>3, <2>3 DEF Reg!AfterStore, Loaders
    <3> QED BY <1>0, <1>3, <2>1, <2>3, <3>1 DEF AllSteps, Named
  <2> QED BY <1>0, <2>2, <2>3 DEF Loaders
<1>5. PICK n : n = [t EXCEPT !.step = s, !.manager = 0, !.pick = p] OBVIOUS
<1>6. Becomes(t, {n}, FALSE) BY <1>3, <1>5, Gives DEF Reg!Store
<1>7. /\ n \in TaskRecs /\ n.id = t.id /\ n.kind = t.kind /\ n.b = t.b /\ n.step = s /\ n.on = t.on
      /\ n.row = t.row /\ n.todo = t.todo /\ n.manager = 0 /\ n.pick = p /\ n.fresh = t.fresh
  BY <1>0, <1>4, <1>5 DEF TaskRecs
<1>8. Succeeds(t, n) BY <1>7 DEF Succeeds
<1>9. /\ BooksOK' /\ SameManagers /\ Owned' /\ \A c \in Brokers : c # t.b => SameAt(c) /\ (Fits(c) => Fits(c)')
      /\ clients'[t.b] = t.manager
  <2>1. managers' = Reg!Off(clients[t.b]) /\ clients' = [clients EXCEPT ![t.b] = t.manager] BY DEF Reg!Store, Reg!Replaced
  <2>2. default' \in Named /\ stale' \in BOOLEAN BY <1>1 DEF BInv, RegShapes, BooksOK
  <2> QED BY <1>0, <1>1, <1>6, <2>1, <2>2, TakesPlace
<1>10. NewRows(t, n) BY <1>1 DEF NewRows
<1>11. TaskOK(n)' BY <1>0, <1>4, <1>7 DEF TaskOK, StepsOf, OneBroker, Loaders
<1>12. PickOK(n)'
  <2>1. Reg!Loading(t) <=> t.kind \in Loaders BY <1>0 DEF Reg!Loading, Loaders
  <2>2. t.kind \in Loaders /\ t.pick = Reg!NoBroker => t.b \in Reg!LeastEnabled /\ t.b # Reg!NoBroker
    BY <1>0 DEF PickOK, BrokersFit
  <2>3. t.b \in Reg!LeastEnabled => Right(t.b) BY DEF Right
  <2>4. Right(t.b) => Right(t.b)' BY <1>1, TableKept
  <2>5. CASE t.kind \notin Loaders BY <1>4, <1>7, <2>5 DEF PickOK, Reg!Loading, Loaders
  <2>6. CASE t.kind \in Loaders
    <3>1. t.fresh BY <1>0, <2>1, <2>6 DEF PickOK
    <3> QED BY <1>4, <1>7, <2>2, <2>3, <2>4, <2>6, <3>1 DEF PickOK, Reg!Loading, Loaders
  <2> QED BY <2>5, <2>6
<1>13. ASSUME NEW b \in Brokers, InPlace(b)
       PROVE  IF b \in About(t) THEN Along(n, b)' ELSE SameAt(b)
  <2>1. CASE b \notin About(t)
    <3>1. t.b \in About(t) BY <1>0, OfTask DEF BrokersFit
    <3> QED BY <1>9, <2>1, <3>1
  <2>2. CASE b \in About(t)
    <3>1. Along(t, b) BY <1>13, <2>2 DEF InPlace
    <3>2. t.b = b /\ rows[b].on /\ managers[t.manager].version = rows[b].version => Fits(b)'
      BY <1>0, <1>1, <1>2, <1>9 DEF Fits, SameManagers
    <3>3. CASE t.kind \in Loaders
      <4>1. Listed(n, b) <=> Listed(t, b) BY <1>7 DEF Listed
      <4>2. LoaderAlong(t, b) BY <3>1, <3>3 DEF Along
      <4>3. IF Listed(n, b) THEN rows'[b].on ELSE Fits(b)'
        BY <1>0, <1>1, <1>9, <3>2, <4>1, <4>2 DEF LoaderAlong
      <4>4. LoaderAlong(n, b)' BY <1>4, <1>7, <3>3, <4>3 DEF LoaderAlong, Listed
      <4> QED BY <1>7, <2>2, <3>3, <4>4 DEF Along
    <3>4. CASE t.kind \notin Loaders
      <4>1. t.b = b BY <2>2, <3>4, OfTask
      <4>2. Fits(b)' BY <1>0, <3>1, <3>2, <3>4, <4>1 DEF Along, RequestAlong
      <4> QED BY <1>4, <1>7, <2>2, <3>4, <4>2 DEF Along, RequestAlong
    <3> QED BY <2>2, <3>3, <3>4
  <2> QED BY <2>1, <2>2
<1>14. ~stale' => Will(n)' \/ NoLess(t)
  <2>1. t.kind \notin Loaders \/ t.pick = Reg!NoBroker => Will(n)' BY <1>4, <1>7 DEF Will
  <2>2. t.kind \in Loaders /\ t.pick # Reg!NoBroker /\ ~stale => NoLess(t)
    BY <1>0, <1>1, TableKept DEF NoLess, Will, Deleting, Loaders, Right
  <2> QED BY <1>1, <2>1, <2>2
<1>15. n.step \notin Early /\ halved \subseteq halved' BY <1>1, <1>4, <1>7 DEF Early
<1> QED
  BY <1>1, <1>6, <1>8, <1>9, <1>10, <1>11, <1>12, <1>13, <1>14, <1>15, TaskStep

\* RemoveBroker takes the manager of one broker down. registry.go:51
LEMMA TakeDownStep ==
  ASSUME BrokersFit, BInv, NEW t \in tasks, Reg!TakeDown(t)
  PROVE  BInv'
<1>0. /\ t \in TaskRecs /\ TaskOK(t) /\ t.step = "remove" /\ t.b \in Brokers /\ t.kind \in {"update", "delete"} /\ t.manager = 0
      /\ t.on \in BOOLEAN
  BY OfTask DEF Reg!TakeDown, TaskOK, StepsOf, Kinds, OneBroker, TaskRecs
<1>1. /\ UNCHANGED <<rows, created, crossed, halved, stale, counts>>
      /\ default' = IF default = t.b THEN Reg!NoBroker ELSE default
  BY DEF Reg!TakeDown, Reg!ghosts, Reg!RemoveBroker
<1>2. PICK s : s = Reg!AfterRemove(t) OBVIOUS
<1>3. /\ t.kind = "delete" => s = "delete"
      /\ t.kind = "update" => s = IF t.on THEN "connect" ELSE "select"
      /\ s \in AllSteps
  BY <1>0, <1>2 DEF Reg!AfterRemove, AllSteps
<1>4. PICK n : n = [t EXCEPT !.step = s] OBVIOUS
<1>5. Becomes(t, {n}, FALSE) BY <1>2, <1>4, Gives DEF Reg!TakeDown
<1>6. /\ n \in TaskRecs /\ n.id = t.id /\ n.kind = t.kind /\ n.b = t.b /\ n.step = s /\ n.on = t.on
      /\ n.row = t.row /\ n.manager = t.manager /\ Succeeds(t, n)
  BY <1>0, <1>3, <1>4, Moved
<1>7. /\ BooksOK' /\ SameManagers /\ Owned' /\ \A c \in Brokers : c # t.b => SameAt(c) /\ (Fits(c) => Fits(c)')
      /\ clients'[t.b] = 0
  <2>1. managers' = Reg!Off(clients[t.b]) /\ clients' = [clients EXCEPT ![t.b] = t.manager]
    BY <1>0 DEF Reg!TakeDown, Reg!RemoveBroker
  <2>2. default' \in Named /\ stale' \in BOOLEAN BY <1>1 DEF BInv, RegShapes, BooksOK, Named
  <2> QED BY <1>0, <1>1, <1>5, <2>1, <2>2, TakesPlace
<1>8. NewRows(t, n) BY <1>1 DEF NewRows
<1>9. TaskOK(n)' BY <1>0, <1>3, <1>6 DEF TaskOK, StepsOf, OneBroker
<1>10. PickOK(n)' BY <1>0, <1>3, <1>6 DEF PickOK, Reg!Loading, Loaders
<1>11. ASSUME NEW b \in Brokers, InPlace(b)
       PROVE  IF b \in About(t) THEN Along(n, b)' ELSE SameAt(b)
  <2>1. b \in About(t) <=> b = t.b BY <1>0, OfTask DEF Loaders, BrokersFit
  <2>2. CASE b # t.b BY <1>7, <2>1, <2>2
  <2>3. CASE b = t.b
    <3>1. RequestAlong(t, b) BY <1>0, <1>11, <2>1, <2>3 DEF InPlace, Along, Loaders
    <3>2. clients'[b] = 0 BY <1>7, <2>3
    <3>3. t.kind = "update" => rows'[b].on = t.on /\ rows'[b].version = t.row.version
      BY <1>0, <1>1, <3>1 DEF RequestAlong
    <3>4. t.kind = "update" /\ ~t.on => Fits(b)' BY <1>0, <3>2, <3>3 DEF Fits
    <3>5. RequestAlong(n, b)' BY <1>0, <1>3, <1>6, <3>2, <3>3, <3>4 DEF RequestAlong
    <3> QED BY <1>0, <1>6, <2>1, <2>3, <3>5 DEF Along, Loaders
  <2> QED BY <2>2, <2>3
<1>12. ~stale' => Will(n)' \/ (default' = Reg!NoBroker /\ Deleting(n)) \/ NoLess(t)
  <2>1. t.kind = "update" => Will(n)' BY <1>0, <1>3, <1>6 DEF Will, Loaders
  <2>2. t.kind = "delete" => Deleting(n) BY <1>3, <1>6 DEF Deleting
  <2>3. t.kind = "delete" /\ default' = default /\ ~stale => NoLess(t)
    BY <1>0, <1>1, TableKept DEF NoLess, Will, Deleting, Loaders, Right
  <2> QED BY <1>0, <1>1, <2>1, <2>2, <2>3
<1>13. n.step \notin Early /\ halved \subseteq halved' BY <1>0, <1>1, <1>3, <1>6 DEF Early
<1> QED
  BY <1>1, <1>5, <1>6, <1>7, <1>8, <1>9, <1>10, <1>11, <1>12, <1>13, TaskStep

\* The reset takes one of the collected brokers down.
LEMMA RemoveEachStep ==
  ASSUME BrokersFit, BInv, NEW t \in tasks, Reg!RemoveEach(t)
  PROVE  BInv'
<1>0. /\ t \in TaskRecs /\ TaskOK(t) /\ t.step = "each" /\ t.kind = "reset" /\ t.manager = 0 /\ t.pick = Reg!NoBroker
      /\ t.todo \in Seq(Brokers)
  BY OfTask DEF Reg!RemoveEach, TaskOK, StepsOf, Kinds, PickOK, Loaders, TaskRecs
<1>1. UNCHANGED <<rows, created, crossed, halved, stale, counts>> BY DEF Reg!RemoveEach, Reg!ghosts
<1>2. CASE t.todo = <<>>
  <2>1. PICK n : n = [t EXCEPT !.step = "load"] OBVIOUS
  <2>2. /\ n \in TaskRecs /\ n.id = t.id /\ n.kind = t.kind /\ n.b = t.b /\ n.step = "load" /\ n.on = t.on
        /\ n.row = t.row /\ n.manager = t.manager /\ n.pick = t.pick /\ Succeeds(t, n)
    BY <1>0, <2>1, Moved DEF AllSteps
  <2>3. Becomes(t, {n}, FALSE) /\ UNCHANGED <<managers, clients, default>>
    BY <1>2, <2>1, Gives DEF Reg!RemoveEach, Reg!books
  <2>4. TaskOK(n) BY <1>0, <2>2 DEF TaskOK, StepsOf, OneBroker
  <2>5. PickOK(n) BY <1>0, <2>2 DEF PickOK, Reg!Loading, Loaders
  <2>6. \A b \in Brokers : ~Listed(t, b) BY <1>2 DEF Listed
  <2>7. \A b \in Brokers : Along(t, b) => Along(n, b)
    BY <1>0, <2>2, <2>6 DEF Along, LoaderAlong, Loaders
  <2>8. (Will(t) => Will(n)) /\ ~Deleting(t) BY <1>0, <2>2 DEF Will, Deleting, Loaders
  <2> QED BY <1>0, <1>1, <2>2, <2>3, <2>4, <2>5, <2>7, <2>8, QuietStep DEF Early
<1>3. CASE t.todo # <<>>
  <2>0. PICK h, rest : h = Head(t.todo) /\ rest = Tail(t.todo) OBVIOUS
  <2>1. /\ h \in Brokers /\ rest \in Seq(Brokers)
        /\ \A i \in DOMAIN t.todo : t.todo[i] = h \/ \E j \in DOMAIN rest : rest[j] = t.todo[i]
    BY ZenonT(40), <1>0, <1>3, <2>0, HeadTail
  <2>2. PICK n : n = [t EXCEPT !.todo = rest] OBVIOUS
  <2>3. /\ n \in TaskRecs /\ n.id = t.id /\ n.kind = t.kind /\ n.b = t.b /\ n.step = "each" /\ n.on = t.on
        /\ n.row = t.row /\ n.todo = rest /\ n.manager = t.manager /\ n.pick = t.pick
    BY <1>0, <2>1, <2>2 DEF TaskRecs
  <2>4. Becomes(t, {n}, FALSE) /\ Reg!RemoveBroker(h) BY <1>3, <2>0, <2>2, Gives DEF Reg!RemoveEach
  <2>5. Succeeds(t, n) BY <2>3 DEF Succeeds
  <2>6. default' = (IF default = h THEN Reg!NoBroker ELSE default) BY <2>4 DEF Reg!RemoveBroker
  <2>7. /\ BooksOK' /\ SameManagers /\ Owned' /\ \A c \in Brokers : c # h => SameAt(c) /\ (Fits(c) => Fits(c)')
        /\ clients'[h] = 0
    <3>1. managers' = Reg!Off(clients[h]) /\ clients' = [clients EXCEPT ![h] = t.manager]
      BY <1>0, <2>4 DEF Reg!RemoveBroker
    <3>2. default' \in Named /\ stale' \in BOOLEAN BY <1>1, <2>6 DEF BInv, RegShapes, BooksOK, Named
    <3> QED BY <1>0, <1>1, <2>1, <2>4, <3>1, <3>2, TakesPlace
  <2>8. NewRows(t, n) BY <1>1 DEF NewRows
  <2>9. TaskOK(n)' BY <1>0, <2>3 DEF TaskOK, StepsOf, OneBroker
  <2>10. PickOK(n)' BY <1>0, <2>3 DEF PickOK, Reg!Loading
  <2>11. ASSUME NEW b \in Brokers, InPlace(b) PROVE b \in About(t) /\ Along(n, b)'
    <3>1. b \in About(t) BY <1>0, OfTask DEF Loaders
    <3>2. clients[b] # 0 => Listed(t, b) BY <1>0, <2>11, <3>1 DEF InPlace, Along, LoaderAlong, Loaders
    <3>3. Listed(t, b) /\ b # h => Listed(n, b) BY <2>1, <2>3 DEF Listed
    <3>4. clients'[b] # 0 => Listed(n, b) BY <2>7, <3>2, <3>3 DEF SameAt
    <3> QED BY <1>0, <2>3, <3>1, <3>4 DEF Along, LoaderAlong, Loaders, Listed
  <2>12. ~stale' => Will(n)' \/ NoLess(t)
    <3>1. CASE Reg!Enabled # {} BY <1>0, <1>1, <2>3, <3>1, TableKept DEF Will, Loaders
    <3>2. CASE Reg!Enabled = {}
      <4>1. Reg!LeastEnabled = {} BY <3>2 DEF Reg!LeastEnabled
      <4>2. Right(default) => Right(default)'
        <5>1. Right(default) => default' = Reg!NoBroker BY <2>6, <4>1 DEF Right
        <5>2. Reg!LeastEnabled' = {} BY <1>1, <4>1, TableKept
        <5> QED BY <5>1, <5>2 DEF Right
      <4>3. ~Will(t) /\ ~Deleting(t) BY <1>0, <3>2 DEF Will, Deleting, Loaders
      <4> QED BY <1>1, <2>6, <3>2, <4>2, <4>3 DEF NoLess
    <3> QED BY <3>1, <3>2
  <2>13. n.step \notin Early /\ halved \subseteq halved' BY <1>1, <2>3 DEF Early
  <2> QED
    BY <1>1, <2>4, <2>5, <2>7, <2>8, <2>9, <2>10, <2>11, <2>12, <2>13, TaskStep
<1> QED BY <1>2, <1>3

\* The default is set to what was selected.
LEMMA SetDefaultStep ==
  ASSUME BrokersFit, BInv, NEW t \in tasks, Reg!SetDefault(t)
  PROVE  BInv'
<1>0. t \in TaskRecs /\ TaskOK(t) /\ PickOK(t) /\ t.kind \in Kinds /\ t.step = "default" /\ t.manager = 0 /\ t.pick \in Named /\ t.fresh \in BOOLEAN
  BY OfTask DEF Reg!SetDefault, TaskOK, TaskRecs
<1>1. UNCHANGED <<rows, managers, clients, created, crossed, halved, counts>> /\ default' = t.pick /\ stale' = ~t.fresh
  BY DEF Reg!SetDefault
<1>2. PICK n : n = [t EXCEPT !.step = "next"] OBVIOUS
<1>3. /\ n \in TaskRecs /\ n.id = t.id /\ n.kind = t.kind /\ n.b = t.b /\ n.step = "next" /\ n.on = t.on /\ n.todo = t.todo
      /\ n.row = t.row /\ n.manager = t.manager /\ n.pick = t.pick /\ n.fresh = t.fresh /\ Succeeds(t, n)
  BY <1>0, <1>2, Moved DEF AllSteps
<1>4. PICK ns : ns = IF t.kind \in Loaders THEN {n} ELSE {} OBVIOUS
<1>5. Becomes(t, ns, FALSE)
  <2>1. Reg!Loading(t) <=> t.kind \in Loaders BY <1>0 DEF Reg!Loading, Loaders
  <2> QED BY <1>2, <1>4, <2>1, Gives DEF Reg!SetDefault
<1>6. BooksOK' BY <1>0, <1>1 DEF BInv, RegShapes, BooksOK
<1>7. SameManagers BY <1>1 DEF SameManagers
<1>8. ns \in SUBSET {n} BY <1>4
<1>9. Owned' BY <1>0, <1>1, <1>5, <1>8, OwnedStep DEF BInv
<1>10. NewRows(t, n) BY <1>1 DEF NewRows
<1>11. ns # {} => TaskOK(n)' BY <1>0, <1>3, <1>4 DEF TaskOK, StepsOf, OneBroker, Loaders
<1>12. ns # {} => PickOK(n)'
  <2> SUFFICES ASSUME t.kind \in Loaders PROVE PickOK(n)'
    BY <1>4
  <2>1. t.pick # Reg!NoBroker /\ t.fresh BY <1>0 DEF PickOK, Reg!Loading, Loaders
  <2> QED BY <1>3, <2>1 DEF PickOK, Reg!Loading
<1>13. ASSUME NEW b \in Brokers, InPlace(b)
       PROVE  IF b \in About(t) THEN IF ns = {} THEN Fits(b)' ELSE Along(n, b)' ELSE SameAt(b)
  <2>1. CASE b \notin About(t) BY <1>1, <2>1 DEF SameAt
  <2>2. CASE b \in About(t)
    <3>1. Along(t, b) BY <1>13, <2>2 DEF InPlace
    <3>2. Fits(b) => Fits(b)' BY <1>1 DEF Fits
    <3>3. t.kind \notin Loaders => ns = {} /\ Fits(b) BY <1>0, <1>4, <3>1 DEF Along, RequestAlong
    <3>4. t.kind \in Loaders => ns # {} /\ Along(n, b)'
      BY <1>0, <1>1, <1>3, <1>4, <3>1, <3>2 DEF Along, LoaderAlong, Listed
    <3> QED BY <2>2, <3>2, <3>3, <3>4
  <2> QED BY <2>1, <2>2
<1>14. ~stale' => Right(default)'
  <2>1. ~stale' => Right(t.pick) BY <1>0, <1>1 DEF PickOK
  <2> QED BY <1>1, <2>1, TableKept DEF Right
<1>15. n.step \notin Early /\ halved \subseteq halved' BY <1>1, <1>3 DEF Early
<1> QED
  BY <1>1, <1>3, <1>5, <1>6, <1>7, <1>8, <1>9, <1>10, <1>11, <1>12, <1>13, <1>14, <1>15, TaskStep

\* The reset empties the table.
LEMMA WipeStep ==
  ASSUME BrokersFit, BInv, NEW t \in tasks, Reg!Wipe(t)
  PROVE  BInv'
<1>0. t \in TaskRecs /\ TaskOK(t) /\ PickOK(t) /\ t.kind = "reset" /\ t.step = "wipe" /\ t.manager = 0 /\ t.pick = Reg!NoBroker
  BY OfTask DEF Reg!Wipe, TaskOK, StepsOf, Kinds, PickOK, Loaders
<1>1. UNCHANGED <<managers, clients, default, created, crossed, halved, stale, counts>> /\ Reg!Database
  BY DEF Reg!Wipe, Reg!books, Reg!ghosts
<1>2. About(t) = Brokers BY <1>0, OfTask DEF Loaders
<1>3. ASSUME rows' = rows, Reg!Done(t) PROVE BInv'
  <2>1. Becomes(t, {}, FALSE) BY <1>3, Gives
  <2>2. Succeeds(t, t) BY <1>0 DEF Succeeds
  <2>3. \A b \in Brokers : Along(t, b) => Fits(b) BY <1>0 DEF Along, LoaderAlong, Loaders
  <2>4. ~Will(t) /\ ~Deleting(t) BY <1>0 DEF Will, Deleting, Loaders
  <2> QED BY <1>0, <1>1, <1>3, <2>1, <2>2, <2>3, <2>4, QuietStep
<1>4. ASSUME rows' = [b \in Brokers |-> Reg!NoRow], Reg!Written(t, {[t EXCEPT !.step = "seed"]}) PROVE BInv'
  <2>1. PICK n : n = [t EXCEPT !.step = "seed"] OBVIOUS
  <2>2. /\ n \in TaskRecs /\ n.id = t.id /\ n.kind = t.kind /\ n.b = t.b /\ n.step = "seed" /\ n.on = t.on
        /\ n.row = t.row /\ n.manager = t.manager /\ n.pick = t.pick /\ Succeeds(t, n)
    BY <1>0, <2>1, Moved DEF AllSteps
  <2>3. Becomes(t, {n}, TRUE) BY <1>4, <2>1, Gives
  <2>4. BooksOK' BY <1>1, <1>4 DEF BInv, RegShapes, BooksOK, Rows
  <2>5. SameManagers BY <1>1 DEF SameManagers
  <2>6. Owned' BY <1>0, <1>1, <2>3, OwnedStep DEF BInv
  <2>7. NewRows(t, n) BY <1>4 DEF NewRows
  <2>8. TaskOK(n)' BY <1>0, <2>2 DEF TaskOK, StepsOf, OneBroker
  <2>9. PickOK(n)'
    <3>1. \A i \in DOMAIN Seeds : rows'[Seeds[i]] = Reg!NoRow BY <1>4, SeqAt DEF BrokersFit
    <3> QED BY <1>0, <2>2, <3>1 DEF PickOK, Reg!Loading
  <2>10. \A b \in Brokers : Along(n, b)' BY <1>0, <2>2 DEF Along, LoaderAlong, Loaders
  <2>11. Will(n)' BY <1>0, <2>2 DEF Will, Loaders
  <2>12. n.step \notin Early /\ halved \subseteq halved' BY <1>1, <2>2 DEF Early
  <2> QED
    BY <1>1, <1>2, <2>2, <2>3, <2>4, <2>5, <2>6, <2>7, <2>8, <2>9, <2>10, <2>11, <2>12, TaskStep
<1> QED BY <1>3, <1>4 DEF Reg!Wipe

\* The boot and the reset seed the table if it is empty.
LEMMA SeedStep ==
  ASSUME BrokersFit, BInv, NEW t \in tasks, Reg!Seed(t)
  PROVE  BInv'
<1>0. /\ t \in TaskRecs /\ TaskOK(t) /\ PickOK(t) /\ t.kind \in Loaders /\ t.step = "seed" /\ t.manager = 0 /\ t.pick = Reg!NoBroker
  BY OfTask DEF Reg!Seed, TaskOK, StepsOf, Kinds, PickOK, Loaders
<1>1. UNCHANGED <<managers, clients, default, created, crossed, halved, stale, counts>> /\ Reg!Database /\ rows \in [Brokers -> Rows]
  BY DEF Reg!Seed, Reg!books, Reg!ghosts, BInv, RegShapes, BooksOK
<1>2. About(t) = Brokers BY <1>0, OfTask
<1>3. Seeds \in Seq(Brokers \ Created) BY DEF BrokersFit
<1>4. \A b : b \in Reg!ToSet(Seeds) <=> \E i \in DOMAIN Seeds : Seeds[i] = b BY <1>3 DEF Reg!ToSet
<1>5. ASSUME NEW b \in Brokers
      PROVE  IF b \in Reg!ToSet(Seeds) /\ rows[b] = Reg!NoRow
             THEN /\ rows'[b] \in Rows /\ rows'[b].on /\ b \notin Created
             ELSE rows'[b] = rows[b]
  <2>1. CASE b \in Reg!ToSet(Seeds) /\ rows[b] = Reg!NoRow
    <3>1. PICK i \in DOMAIN Seeds : Seeds[i] = b BY <1>4, <2>1
    <3>2. PICK k : k = Reg!SelectInSeq(Seeds, LAMBDA s : s = b) OBVIOUS
    <3>3. k \in 1..Len(Seeds)
      <4> DEFINE I == {j \in 1..Len(Seeds) : Seeds[j] = b}
      <4>1. I # {} /\ I \subseteq Nat BY <1>3, <3>1
      <4>2. Reg!Min(I) \in I BY <4>1, MinOf
      <4> QED BY <3>2, <4>1, <4>2 DEF Reg!SelectInSeq
    <3>4. k - 1 \in Nat BY <1>3, <3>3
    <3>5. rows'[b] = Reg!Row(TRUE, k - 1, 0) BY <2>1, <3>2 DEF Reg!Seed, Reg!Present
    <3>6. b \notin Created BY <1>3, <3>1, SeqAt
    <3> QED BY <2>1, <3>4, <3>5, <3>6 DEF Reg!Row, Rows
  <2>2. CASE ~(b \in Reg!ToSet(Seeds) /\ rows[b] = Reg!NoRow) BY <2>2 DEF Reg!Seed, Reg!Present
  <2> QED BY <2>1, <2>2
<1>6. rows' \in [Brokers -> Rows]
  <2>1. DOMAIN rows' = Brokers /\ rows' = [b \in Brokers |-> rows'[b]] BY DEF Reg!Seed
  <2>2. \A b \in Brokers : rows'[b] \in Rows BY <1>1, <1>5
  <2> QED BY <2>1, <2>2
<1>7. PICK s : s = IF t.kind = "boot" THEN "load" ELSE "all" OBVIOUS
<1>8. PICK n : n = [t EXCEPT !.step = s] OBVIOUS
<1>9. /\ n \in TaskRecs /\ n.id = t.id /\ n.kind = t.kind /\ n.b = t.b /\ n.step = s /\ n.on = t.on
      /\ n.row = t.row /\ n.manager = t.manager /\ n.pick = t.pick /\ Succeeds(t, n)
  BY <1>0, <1>7, <1>8, Moved DEF AllSteps
<1>10. Becomes(t, {n}, TRUE) BY <1>7, <1>8, Gives DEF Reg!Seed
<1>11. BooksOK' BY <1>1, <1>6 DEF BInv, RegShapes, BooksOK
<1>12. SameManagers BY <1>1 DEF SameManagers
<1>13. Owned' BY <1>0, <1>1, <1>10, OwnedStep DEF BInv
<1>14. NewRows(t, n) BY <1>0, <1>5 DEF NewRows
<1>15. TaskOK(n)' BY <1>0, <1>7, <1>9 DEF TaskOK, StepsOf, OneBroker, Loaders
<1>16. t.kind = "boot" => default = Reg!NoBroker BY <1>0 DEF PickOK
<1>17. PickOK(n)' BY <1>0, <1>1, <1>7, <1>9, <1>16 DEF PickOK, Reg!Loading, Loaders
<1>18. ASSUME NEW b \in Brokers, InPlace(b) PROVE Along(n, b)'
  <2>1. LoaderAlong(t, b) BY <1>0, <1>2, <1>18 DEF InPlace, Along
  <2>2. LoaderAlong(n, b)' BY <1>0, <1>1, <1>7, <1>9, <2>1 DEF LoaderAlong, Loaders
  <2> QED BY <1>0, <1>9, <2>2 DEF Along
<1>19. Right(default)' \/ Will(n)'
  <2>1. CASE Reg!Enabled' # {} BY <1>0, <1>7, <1>9, <2>1 DEF Will, Loaders
  <2>2. CASE Reg!Enabled' = {}
    <3>1. CASE t.kind = "boot"
      <4>1. Reg!LeastEnabled' = {} BY <2>2 DEF Reg!LeastEnabled
      <4>2. default' = Reg!NoBroker BY <1>1, <1>16, <3>1
      <4> QED BY <4>1, <4>2 DEF Right
    <3>2. CASE t.kind = "reset"
      <4>1. Seeds # <<>> BY <3>2 DEF BInv, Apart, BrokersFit
      <4>2. 1 \in DOMAIN Seeds BY <1>3, <4>1
      <4>3. Seeds[1] \in Brokers /\ Seeds[1] \in Reg!ToSet(Seeds) /\ rows[Seeds[1]] = Reg!NoRow
        BY <1>0, <1>3, <1>4, <3>2, <4>2, SeqAt DEF PickOK
      <4>4. Seeds[1] \in Reg!Enabled' BY <1>5, <4>3 DEF Reg!Enabled
      <4> QED BY <2>2, <4>4
    <3> QED BY <1>0, <3>1, <3>2 DEF Loaders
  <2> QED BY <2>1, <2>2
<1>20. n.step \notin Early /\ halved \subseteq halved' BY <1>1, <1>7, <1>9 DEF Early
<1> QED
  BY <1>1, <1>2, <1>9, <1>10, <1>11, <1>12, <1>13, <1>14, <1>15, <1>17, <1>18, <1>19, <1>20, TaskStep

\* Every step of a task keeps the invariant.
LEMMA StepFits ==
  ASSUME BrokersFit, BInv, NEW t \in tasks, Reg!Step(t)
  PROVE  BInv'
BY MaxOrderStep, InsertStep, ReadStep, WriteStep, DeleteStep, ReorderStep, ConnectStep, StoreStep, TakeDownStep,
   SelectStep, SetDefaultStep, WipeStep, SeedStep, RemoveAllStep, RemoveEachStep, LoadStep, NextRowStep DEF Reg!Step

-----------------------------------------------------------------------------
\* A request, or the reset, begins.
LEMMA BeginStep ==
  ASSUME BrokersFit, BInv, NEW t \in TaskRecs, Reg!Begin(t), t.kind # "boot", t.manager = 0, t.pick = Reg!NoBroker,
         t.step \in {"max", "read", "remove", "reorder", "wipe"}, t.step = "remove" => t.kind = "delete",
         \A s \in tasks : t.kind = "reset" => s.kind # "reset", t.kind = "reset" => MaxResets # 0,
         TaskOK(t), created \subseteq created', created' \subseteq Created, counts' \in [requests : Nat, resets : Nat, crashes : Nat],
         t.kind = "create" => t.b \in Created \ created /\ t.b \in created'
  PROVE  BInv'
<1>1. /\ tasks' = tasks \cup {t} /\ UNCHANGED <<rows, managers, clients, default, halved, stale>>
      /\ crossed' = crossed \cup (About(t) \cap UNION {About(u) : u \in tasks})
  BY DEF Reg!Begin, Reg!books, About
<1>2. /\ \A u \in TaskRecs : TaskOK(u)' = TaskOK(u) /\ PickOK(u)' = PickOK(u) /\ Will(u)' = Will(u)
      /\ \A b \in Brokers : Fits(b)' = Fits(b) /\ \A u \in TaskRecs : Along(u, b)' = Along(u, b)
  <2>1. \A u \in TaskRecs : TaskOK(u)' = TaskOK(u) BY <1>1 DEF TaskOK
  <2>2. \A u \in TaskRecs : PickOK(u)' = PickOK(u) BY <1>1, TableKept DEF PickOK, Reg!Loading
  <2>3. \A u \in TaskRecs : Will(u)' = Will(u) BY <1>1, TableKept DEF Will
  <2>4. \A b \in Brokers : Fits(b)' = Fits(b) BY <1>1 DEF Fits
  <2>5. \A b \in Brokers, u \in TaskRecs : LoaderAlong(u, b)' = LoaderAlong(u, b) BY <1>1, <2>4 DEF LoaderAlong, Listed
  <2>6. \A b \in Brokers, u \in TaskRecs : RequestAlong(u, b)' = RequestAlong(u, b) BY <1>1, <2>4 DEF RequestAlong
  <2>7. \A b \in Brokers, u \in TaskRecs : Along(u, b)' = Along(u, b) BY <2>5, <2>6 DEF Along
  <2> QED BY <2>1, <2>2, <2>3, <2>4, <2>7
<1>3. PickOK(t) BY DEF PickOK, Reg!Loading, TaskOK, StepsOf, Loaders
<1>4. tasks \subseteq TaskRecs BY DEF BInv, RegShapes
<1>5. BooksOK'
  <2>1. About(t) \subseteq Brokers BY DEF About, Reg!About, TaskRecs, Named
  <2>2. crossed' \subseteq Brokers BY <1>1, <2>1 DEF BInv, RegShapes, BooksOK
  <2> QED BY <1>1, <2>2 DEF BInv, RegShapes, BooksOK
<1>6. RegShapes' BY SMTT(40), <1>1, <1>2, <1>4, <1>5 DEF BInv, RegShapes
<1>7. Owned' BY <1>1 DEF BInv, Owned, Reg!NoOrphans
<1>8. Apart'
  <2>1. \A u \in tasks : u.kind # "boot" BY DEF Reg!Begin, Reg!Serving, Reg!Boot, BInv, RegShapes, TaskOK
  <2> QED BY <1>1, <2>1 DEF BInv, Apart
<1>9. Announced' BY <1>1 DEF BInv, Announced
<1>10. Places'
  <2> SUFFICES ASSUME NEW b \in Brokers, b \notin crossed', b \notin halved PROVE InPlace(b)'
    BY <1>1 DEF Places
  <2>1. InPlace(b) BY <1>1 DEF BInv, Places
  <2>2. \A u : About(u)' = About(u) BY DEF About, Reg!About
  <2>3. CASE b \notin About(t)
    BY <1>1, <1>2, <1>4, <2>1, <2>2, <2>3 DEF InPlace
  <2>4. CASE b \in About(t)
    <3>1. \A u \in tasks : b \notin About(u) BY <1>1, <2>4
    <3>2. Fits(b) BY <2>1, <3>1 DEF InPlace
    <3>3. Along(t, b) BY <3>2 DEF Along, LoaderAlong, RequestAlong, TaskOK, StepsOf, Loaders
    <3> QED BY <1>1, <1>2, <2>2, <2>4, <3>1, <3>3 DEF InPlace
  <2> QED BY <2>3, <2>4
<1>11. Picks' BY <1>1, <1>2, <1>3, <1>4 DEF BInv, Chosen, Picks
<1>12. DefaultFits'
  <2>1. Right(default)' = Right(default) BY <1>1, TableKept DEF Right
  <2>2. (\E u \in tasks : Will(u)) => \E u \in tasks' : Will(u)' BY <1>1, <1>2, <1>4
  <2>3. (\E u \in tasks : Deleting(u)) => \E u \in tasks' : Deleting(u)' BY <1>1 DEF Deleting
  <2> QED BY <1>1, <2>1, <2>2, <2>3 DEF BInv, Chosen, DefaultFits
<1> QED BY <1>6, <1>7, <1>8, <1>9, <1>10, <1>11, <1>12 DEF BInv, Chosen

\* A request arrives.
LEMMA RequestsFit ==
  ASSUME BrokersFit, BInv,
         \/ \E b \in Brokers : Reg!DeleteBroker(b) \/ \E on \in BOOLEAN : Reg!CreateBroker(b, on) \/ Reg!UpdateBroker(b, on)
         \/ Reg!ReorderBrokers
  PROVE  BInv'
<1>1. /\ counts \in [requests : Nat, resets : Nat, crashes : Nat] /\ counts.requests \in Nat /\ created \subseteq Created
  BY DEF BInv, RegShapes, BooksOK
<1>2. Reg!NoRow \in [on : BOOLEAN, order : Int, version : Int] BY DEF Reg!NoRow
<1>3. ASSUME NEW kind \in {"create", "update", "delete", "reorder"}, NEW c \in Named, NEW s \in AllSteps, NEW o \in BOOLEAN,
             Reg!Request(Reg!Task(kind, c, s, o)), created \subseteq created', created' \subseteq Created,
             /\ kind = "create" => s = "max" /\ c \in Created \ created /\ c \in created'
             /\ kind = "update" => s = "read" /\ c \in Brokers
             /\ kind = "delete" => s = "remove" /\ c \in Brokers
             /\ kind = "reorder" => s = "reorder" /\ c = Reg!NoBroker
      PROVE  BInv'
  <2>1. PICK t : t = Reg!Task(kind, c, s, o) OBVIOUS
  <2>2. /\ t \in TaskRecs /\ t.id = counts.requests /\ t.kind = kind /\ t.b = c /\ t.step = s /\ t.on = o /\ t.manager = 0
        /\ t.pick = Reg!NoBroker
    BY <1>1, <1>2, <2>1 DEF Reg!Task, TaskRecs, Kinds, Named
  <2>3. TaskOK(t) BY <1>1, <1>3, <2>2 DEF TaskOK, StepsOf, OneBroker, BrokersFit
  <2>4. Reg!Begin(t) /\ counts' = [counts EXCEPT !.requests = counts.requests + 1] BY <1>3, <2>1 DEF Reg!Request
  <2>5. counts' \in [requests : Nat, resets : Nat, crashes : Nat] BY <1>1, <2>4
  <2> QED BY <1>3, <2>2, <2>3, <2>4, <2>5, BeginStep
<1>4. CASE \E b \in Brokers : Reg!DeleteBroker(b) BY <1>1, <1>3, <1>4 DEF Reg!DeleteBroker, Named, AllSteps
<1>5. CASE \E b \in Brokers, on \in BOOLEAN : Reg!CreateBroker(b, on)
  BY <1>1, <1>3, <1>5 DEF Reg!CreateBroker, Named, AllSteps, BrokersFit
<1>6. CASE \E b \in Brokers, on \in BOOLEAN : Reg!UpdateBroker(b, on)
  BY <1>1, <1>3, <1>6 DEF Reg!UpdateBroker, Named, AllSteps
<1>7. CASE Reg!ReorderBrokers BY <1>1, <1>3, <1>7 DEF Reg!ReorderBrokers, Named, AllSteps
<1> QED BY <1>4, <1>5, <1>6, <1>7

\* The hour of the reset comes.
LEMMA ResetFits ==
  ASSUME BrokersFit, BInv, Reg!ResetDatabase
  PROVE  BInv'
<1>1. counts \in [requests : Nat, resets : Nat, crashes : Nat] /\ created \subseteq Created
  BY DEF BInv, RegShapes, BooksOK
<1>2. PICK t : t = [Reg!Boot EXCEPT !.id = -2, !.kind = "reset", !.step = "wipe"] OBVIOUS
<1>3. t = [id |-> -2, kind |-> "reset", b |-> Reg!NoBroker, step |-> "wipe", on |-> TRUE, was |-> FALSE, row |-> Reg!NoRow,
           todo |-> <<>>, manager |-> 0, pick |-> Reg!NoBroker, fresh |-> TRUE]
  BY <1>2 DEF Reg!Boot
<1>4. /\ t \in TaskRecs /\ t.id = -2 /\ t.kind = "reset" /\ t.b = Reg!NoBroker /\ t.step = "wipe" /\ t.manager = 0
      /\ t.pick = Reg!NoBroker
  BY <1>3 DEF TaskRecs, Kinds, Named, AllSteps, Reg!NoRow
<1>5. TaskOK(t) BY <1>4 DEF TaskOK, StepsOf, OneBroker
<1>6. /\ Reg!Begin(t) /\ counts' = [counts EXCEPT !.resets = counts.resets + 1] /\ created' = created
      /\ counts.resets < MaxResets /\ \A u \in tasks : u.kind # "reset"
  BY <1>2 DEF Reg!ResetDatabase
<1>7. counts' \in [requests : Nat, resets : Nat, crashes : Nat] BY <1>1, <1>6
<1>8. MaxResets # 0 BY <1>1, <1>6
<1> QED BY <1>1, <1>4, <1>5, <1>6, <1>7, <1>8, BeginStep

\* Steps that leave the tasks and the table as they are.
LEMMA IdleStep ==
  ASSUME BrokersFit, BInv, UNCHANGED <<rows, clients, default, tasks, created, crossed, halved, stale>>,
         managers' \in Managers, DOMAIN managers' = DOMAIN managers, SameManagers, counts' = counts,
         \A i \in DOMAIN managers : managers'[i].link = "up" => managers[i].link = "up"
  PROVE  BInv'
<1>1. RegShapes'
  <2>1. BooksOK' BY DEF BInv, RegShapes, BooksOK, Managers, ManagerRecs, SameManagers
  <2>2. \A t \in tasks : TaskOK(t)' BY DEF BInv, RegShapes, TaskOK, SameManagers
  <2> QED BY <2>1, <2>2 DEF BInv, RegShapes
<1>2. Owned' BY DEF BInv, Owned, Reg!NoOrphans, SameManagers
<1>3. Apart' /\ Announced' BY DEF BInv, Apart, Announced
<1>4. Places'
  <2> SUFFICES ASSUME NEW b \in Brokers, b \notin crossed, b \notin halved PROVE InPlace(b)'
    BY DEF Places
  <2>1. InPlace(b) BY DEF BInv, Places
  <2>2. \A u : About(u)' = About(u) BY DEF About, Reg!About
  <2>3. Fits(b) => Fits(b)' BY DEF Fits, SameManagers, BInv, RegShapes, BooksOK
  <2>4. SameAt(b) BY DEF SameAt
  <2>5. ASSUME NEW u \in tasks, Along(u, b) PROVE Along(u, b)'
    <3>1. Along(Stays(u, FALSE), b)' BY <2>4, <2>5, StaysAlong DEF BInv
    <3> QED BY <3>1 DEF Stays
  <2> QED BY <2>1, <2>2, <2>3, <2>5 DEF InPlace
<1>5. Picks' BY TableKept DEF BInv, Chosen, Picks, PickOK, Reg!Loading
<1>6. DefaultFits' BY TableKept DEF BInv, Chosen, DefaultFits, Right, Will, Deleting
<1> QED BY <1>1, <1>2, <1>3, <1>4, <1>5, <1>6 DEF BInv, Chosen

\* A broker answers after Connect gave up.
LEMMA LateAnswerStep ==
  ASSUME BrokersFit, BInv, NEW n \in DOMAIN managers, Reg!LateAnswer(n)
  PROVE  BInv'
<1>1. PICK link \in {"late", "failed"} : managers' = [managers EXCEPT ![n] = [managers[n] EXCEPT !.link = link]]
  BY DEF Reg!LateAnswer
<1>2. PICK x : x = [managers[n] EXCEPT !.link = link] OBVIOUS
<1>3. managers \in Managers BY DEF BInv, RegShapes, BooksOK, Managers, ManagerRecs
<1>4. managers[n] \in ManagerRecs BY <1>3, SeqAt DEF Managers
<1>5. x \in ManagerRecs /\ x.broker = managers[n].broker /\ x.version = managers[n].version /\ x.link = link
  BY <1>2, <1>4 DEF ManagerRecs
<1>6. /\ managers' \in Managers /\ DOMAIN managers' = DOMAIN managers /\ managers'[n] = x
      /\ \A i \in DOMAIN managers : i # n => managers'[i] = managers[i]
  BY <1>1, <1>2, <1>3, <1>5, SeqAt DEF Managers
<1>7. SameManagers BY <1>5, <1>6 DEF SameManagers
<1>8. \A i \in DOMAIN managers : managers'[i].link = "up" => managers[i].link = "up" BY <1>5, <1>6
<1>9. UNCHANGED <<rows, clients, default, tasks, created, crossed, halved, stale, counts>> BY DEF Reg!LateAnswer, Reg!ghosts
<1> QED BY <1>6, <1>7, <1>8, <1>9, IdleStep

\* The server starts, on a table it finds.
Starts ==
    /\ rows \in [Brokers -> Rows] /\ created \subseteq Created /\ (\A b \in Created \ created : rows[b] = Reg!NoRow)
    /\ managers = <<>> /\ clients = [b \in Brokers |-> 0] /\ default = Reg!NoBroker /\ tasks = {Reg!Boot}
    /\ crossed = {} /\ halved = {} /\ stale = FALSE /\ counts \in [requests : Nat, resets : Nat, crashes : Nat]
LEMMA StartFits == Starts => BInv
<1> SUFFICES ASSUME Starts PROVE BInv
  OBVIOUS
<1> USE DEF Starts
<1>1. PICK t : t = Reg!Boot OBVIOUS
<1>2. /\ t \in TaskRecs /\ t.id = -1 /\ t.kind = "boot" /\ t.b = Reg!NoBroker /\ t.step = "seed" /\ t.manager = 0
      /\ t.pick = Reg!NoBroker /\ t.fresh = TRUE
  BY <1>1 DEF Reg!Boot, TaskRecs, Kinds, Named, AllSteps, Reg!NoRow
<1>3. RegShapes
  <2>1. TaskOK(t) BY <1>2 DEF TaskOK, StepsOf, OneBroker
  <2>2. managers \in Managers BY DEF Managers
  <2> QED BY <1>1, <1>2, <2>1, <2>2 DEF RegShapes, BooksOK, Named, Managers, ManagerRecs
<1>4. Owned /\ Apart /\ Announced BY <1>1, <1>2 DEF Owned, Reg!NoOrphans, Apart, Announced
<1>5. Places
  <2>1. About(t) = Brokers BY <1>2 DEF About, Reg!About
  <2>2. \A b \in Brokers : Along(t, b) BY <1>2 DEF Along, LoaderAlong, Loaders
  <2> QED BY <1>1, <2>1, <2>2 DEF Places, InPlace
<1>6. Picks BY <1>1, <1>2 DEF Picks, PickOK, Reg!Loading, Loaders
<1>7. DefaultFits BY <1>1, <1>2 DEF DefaultFits, Will, Loaders
<1> QED BY <1>3, <1>4, <1>5, <1>6, <1>7 DEF BInv, Chosen

\* The states the server can start in fit the invariant.
LEMMA BInvInit == BrokersFit /\ Reg!Init => BInv
<1>1. ASSUME BrokersFit, Reg!Init PROVE Starts
  BY <1>1 DEF BrokersFit, Reg!Init, Starts
<1> QED BY <1>1, StartFits

\* No step breaks the invariant.
LEMMA BInvNext == BrokersFit /\ BInv /\ [Reg!Next]_(Reg!vars) => BInv'
<1> SUFFICES ASSUME BrokersFit, BInv, [Reg!Next]_(Reg!vars) PROVE BInv'
  OBVIOUS
<1>1. CASE Reg!Next
  <2>1. CASE \/ \E b \in Brokers : Reg!DeleteBroker(b) \/ \E on \in BOOLEAN : Reg!CreateBroker(b, on) \/ Reg!UpdateBroker(b, on)
             \/ Reg!ReorderBrokers
    BY <2>1, RequestsFit
  <2>3. CASE Reg!ResetDatabase BY <2>3, ResetFits
  <2>4. CASE \E t \in tasks : Reg!Step(t) BY <2>4, StepFits
  <2>5. CASE \E n \in DOMAIN managers : Reg!LateAnswer(n) BY <2>5, LateAnswerStep
  <2>6. CASE Reg!Crash
    <3>1. Starts'
      <4>1. counts \in [requests : Nat, resets : Nat, crashes : Nat] BY DEF BInv, RegShapes, BooksOK
      <4>2. counts' = [counts EXCEPT !.crashes = counts.crashes + 1] BY <2>6 DEF Reg!Crash
      <4>3. counts' \in [requests : Nat, resets : Nat, crashes : Nat] BY <4>1, <4>2
      <4> QED BY <2>6, <4>3 DEF Reg!Crash, Starts, BInv, RegShapes, BooksOK, Announced
    <3>2. Starts' => BInv' BY StartFits, PTL
    <3> QED BY <3>1, <3>2
  <2> QED BY <1>1, <2>1, <2>3, <2>4, <2>5, <2>6 DEF Reg!Next
<1>2. CASE UNCHANGED Reg!vars
  <2>1. UNCHANGED <<rows, managers, clients, default, tasks, created, crossed, halved, stale, counts>>
    BY <1>2 DEF Reg!vars, Reg!books, Reg!ghosts
  <2>2. managers' \in Managers /\ SameManagers BY <2>1 DEF SameManagers, BInv, RegShapes, BooksOK, Managers, ManagerRecs
  <2> QED BY <2>1, <2>2, IdleStep
<1> QED BY <1>1, <1>2

\* The invariant is as strong as what was to be shown.
LEMMA BInvShows == BrokersFit /\ BInv => Reg!TypeOK /\ Reg!NoOrphans /\ Reg!InStep
<1> SUFFICES ASSUME BrokersFit, BInv PROVE Reg!TypeOK /\ Reg!NoOrphans /\ Reg!InStep
  OBVIOUS
<1>1. Reg!TypeOK
  <2>1. \A b \in Brokers : rows[b] = Reg!NoRow \/ rows[b].order >= 0 BY DEF BInv, RegShapes, BooksOK, Rows
  <2>2. managers \in Managers BY DEF BInv, RegShapes, BooksOK, Managers, ManagerRecs
  <2>3. \A n \in DOMAIN managers : managers[n] \in ManagerRecs BY <2>2, SeqAt DEF Managers
  <2>4. \A t \in tasks : t.step = "store" => managers[t.manager].broker = t.b BY DEF BInv, RegShapes, TaskOK
  <2> QED BY <2>1, <2>3, <2>4 DEF Reg!TypeOK, BInv, RegShapes, BooksOK, ManagerRecs, Named
<1>2. Reg!InStep
  <2> SUFFICES ASSUME tasks = {}
               PROVE  /\ \A b \in Brokers \ (crossed \cup halved) : Fits(b)
                      /\ ~stale => Right(default)
    BY DEF Reg!InStep, Fits, Right
  <2>1. \A b \in Brokers \ (crossed \cup halved) : Fits(b) BY DEF BInv, Places, InPlace
  <2>2. ~stale => Right(default) BY DEF BInv, Chosen, DefaultFits
  <2> QED BY <2>1, <2>2
<1> QED BY <1>1, <1>2 DEF BInv, Owned

\* The invariant holds in every state.
LEMMA BInvAlways == BrokersFit => (Reg!Spec => []BInv)
<1> SUFFICES ASSUME BrokersFit PROVE Reg!Spec => []BInv
  OBVIOUS
<1>1. Reg!Init => BInv BY BInvInit
<1>2. BInv /\ [Reg!Next]_(Reg!vars) => BInv' BY BInvNext
<1> QED BY <1>1, <1>2, PTL DEF Reg!Spec

\* Rows, managers, tasks and counters keep their shapes, the registry names
\* managers that exist and a task that is about to store one holds one of its
\* broker. registry.go:24-49
THEOREM RegistryTyped == BrokersFit => (Reg!Spec => []Reg!TypeOK)
<1> SUFFICES ASSUME BrokersFit PROVE Reg!Spec => []Reg!TypeOK
  OBVIOUS
<1>1. BInv => Reg!TypeOK BY BInvShows
<1>2. Reg!Spec => []BInv BY BInvAlways
<1> QED BY <1>1, <1>2, PTL

\* A manager whose connection is not down is in the registry, or in the hands
\* of the task that made it: whoever replaces one disconnects it.
\* registry.go:24-49, 51-63
THEOREM NoManagerLost == BrokersFit => (Reg!Spec => []Reg!NoOrphans)
<1> SUFFICES ASSUME BrokersFit PROVE Reg!Spec => []Reg!NoOrphans
  OBVIOUS
<1>1. BInv => Reg!NoOrphans BY BInvShows
<1>2. Reg!Spec => []BInv BY BInvAlways
<1> QED BY <1>1, <1>2, PTL

\* When every request, the boot and the reset are through, the registry holds
\* a manager of each enabled row and of no other, made from the row as it is,
\* and the default is the enabled broker that comes first; brokers two tasks
\* worked on at once, or one gave up half way, are left out.
\* broker_handlers.go:41-258
THEOREM RegistryInStep == BrokersFit => (Reg!Spec => []Reg!InStep)
<1> SUFFICES ASSUME BrokersFit PROVE Reg!Spec => []Reg!InStep
  OBVIOUS
<1>1. BInv => Reg!InStep BY BInvShows
<1>2. Reg!Spec => []BInv BY BInvAlways
<1> QED BY <1>1, <1>2, PTL

-----------------------------------------------------------------------------
(* PanelMetaCache.                                                           *)

(* What a request does, and with what. *)
MetaRows == {Cache!NoRow} \cup [title : Titles, dashboard : Dashboards]
MetaTask(k) ==
    /\ k \in [id : Nat, does : {"rename", "move", "delete", "drop", "empty", "reset", "clear"},
              panels : SUBSET Panels, with : Titles \cup Dashboards \cup {Cache!Unsent}]
    /\ k.id < writes
    /\ k.does = "rename" => k.with \in Titles
    /\ k.does \in {"move", "drop", "empty"} => k.with \in Dashboards
    /\ k.does = "reset" => k.panels = Panels
MetaShapes ==
    /\ row \in [Panels -> MetaRows] /\ cache \in [Panels -> MetaRows \cup {Cache!Uncached}]
    /\ used \subseteq Panels /\ dashboards \subseteq Dashboards /\ writes \in Nat
    /\ \A p \in Panels \ used : row[p] = Cache!NoRow /\ cache[p] = Cache!Uncached
    /\ router \in [Routers -> [at : {"idle"}, panel : {"none"}, meta : {Cache!NoRow}]
                              \cup [at : {"asks", "stores"}, panel : used, meta : MetaRows]]
    /\ \A k \in tasks : MetaTask(k)
(* What a fan-out is about to store is the row, unless somebody wrote it    *)
(* since.                                                                   *)
Copies == \A r \in Routers : router[r].at = "stores" /\ router[r].panel \notin crossed => router[r].meta = row[router[r].panel]
MetaInv == MetaShapes /\ Copies /\ Cache!CacheFresh

\* A server that has just started fits the invariant.
LEMMA MetaStarts == Cache!Init => MetaInv
<1> SUFFICES ASSUME Cache!Init PROVE MetaInv
  OBVIOUS
<1>1. MetaShapes
  BY DEF Cache!Init, MetaShapes, MetaRows, Cache!Meta, Cache!NoRow, Cache!Uncached, Cache!Asleep
<1>2. Copies BY DEF Copies, Cache!Init, Cache!Asleep
<1>3. Cache!CacheFresh BY DEF Cache!CacheFresh, Cache!Init
<1> QED BY <1>1, <1>2, <1>3 DEF MetaInv

\* A fan-out looks a panel up.
LEMMA MetaLooksUp ==
  ASSUME MetaInv, NEW r \in Routers, Cache!Lookup(r)
  PROVE  MetaInv'
<1>1. CASE \E p \in Panels : Cache!Miss(r, p)
  <2> PICK p \in Panels : Cache!Miss(r, p)
    BY <1>1
  <2>1. Cache!NoRow \in MetaRows
    BY DEF MetaRows
  <2>2. MetaShapes' BY <2>1 DEF MetaInv, MetaShapes, Cache!Miss, MetaTask
  <2>3. Copies' BY DEF MetaInv, MetaShapes, Copies, Cache!Miss
  <2>4. Cache!CacheFresh' BY DEF MetaInv, Cache!CacheFresh, Cache!ToClear, Cache!Miss
  <2> QED BY <2>2, <2>3, <2>4 DEF MetaInv
<1>2. CASE Cache!Query(r)
  <2>1. MetaShapes' BY <1>2 DEF MetaInv, MetaShapes, Cache!Query, MetaTask
  <2>2. Copies' BY <1>2 DEF MetaInv, MetaShapes, Copies, Cache!Query
  <2>3. Cache!CacheFresh' BY <1>2 DEF MetaInv, Cache!CacheFresh, Cache!ToClear, Cache!Query
  <2> QED BY <2>1, <2>2, <2>3 DEF MetaInv
<1>3. CASE Cache!Store(r)
  <2>0. router[r].panel \in used /\ router[r].meta \in MetaRows
    BY <1>3 DEF MetaInv, MetaShapes, Cache!Store
  <2>1. MetaShapes' BY <1>3, <2>0 DEF MetaInv, MetaShapes, Cache!Store, MetaTask, Cache!Asleep
  <2>2. Copies' BY <1>3 DEF MetaInv, MetaShapes, Copies, Cache!Store, Cache!Asleep
  <2>3. Cache!CacheFresh' BY <1>3, <2>0 DEF MetaInv, MetaShapes, Copies, Cache!CacheFresh, Cache!ToClear, Cache!Store
  <2> QED BY <2>1, <2>2, <2>3 DEF MetaInv
<1> QED BY <1>1, <1>2, <1>3 DEF Cache!Lookup

\* A request comes; what it was sent and what it has read are of the shapes.
LEMMA MetaBegins ==
  ASSUME MetaInv, NEW does, NEW panels, NEW with, Cache!Begin(does, panels, with),
         does \in {"rename", "move", "delete", "drop", "empty", "reset"}, panels \subseteq Panels,
         with \in Titles \cup Dashboards \cup {Cache!Unsent},
         does = "rename" => with \in Titles, does \in {"move", "drop", "empty"} => with \in Dashboards,
         does = "reset" => panels = Panels
  PROVE  MetaInv'
<1>0. PICK k : k = [id |-> writes, does |-> does, panels |-> panels, with |-> with]
  OBVIOUS
<1>1. writes \in Nat /\ writes' = writes + 1 /\ tasks' = tasks \cup {k}
  BY <1>0 DEF Cache!Begin, MetaInv, MetaShapes
<1>2. MetaTask(k)' BY <1>0, <1>1 DEF MetaTask
<1>3. \A j \in tasks : MetaTask(j)' BY <1>1 DEF MetaInv, MetaShapes, MetaTask
<1>4. MetaShapes' BY <1>1, <1>2, <1>3 DEF MetaInv, MetaShapes, Cache!Begin
<1>5. Copies' BY DEF MetaInv, Copies, Cache!Begin
<1>6. Cache!ToClear \subseteq Cache!ToClear' BY <1>1 DEF Cache!ToClear
<1>7. Cache!CacheFresh' BY <1>6 DEF MetaInv, Cache!CacheFresh, Cache!Begin
<1> QED BY <1>4, <1>5, <1>7 DEF MetaInv

\* A request is made; the panels it is about have been given out.
LEMMA MetaAsks ==
  ASSUME MetaInv, Cache!Ask
  PROVE  MetaInv'
<1>1. ASSUME NEW p \in Panels, NEW t \in Titles \cup {Cache!Unsent}, Cache!UpdatePanel(p, t) PROVE MetaInv'
  <2>1. row[p] \in [title : Titles, dashboard : Dashboards]
    BY <1>1 DEF MetaInv, MetaShapes, MetaRows, Cache!UpdatePanel
  <2>2. (IF t = Cache!Unsent THEN row[p].title ELSE t) \in Titles BY <2>1
  <2> QED BY <1>1, <2>2, MetaBegins DEF Cache!UpdatePanel
<1>2. ASSUME NEW p \in Panels, NEW d \in Dashboards, Cache!MovePanel(p, d) PROVE MetaInv'
  BY <1>2, MetaBegins DEF Cache!MovePanel
<1>3. ASSUME NEW p \in Panels, Cache!DeletePanel(p) PROVE MetaInv'
  BY <1>3, MetaBegins DEF Cache!DeletePanel
<1>4. ASSUME NEW d \in Dashboards, Cache!DeleteDashboard(d) \/ Cache!ReplacePanels(d) PROVE MetaInv'
  <2>1. Cache!On(d) \subseteq Panels BY DEF Cache!On
  <2> QED BY <1>4, <2>1, MetaBegins DEF Cache!DeleteDashboard, Cache!ReplacePanels
<1>5. CASE Cache!ResetDatabase BY <1>5, MetaBegins DEF Cache!ResetDatabase
<1>6. ASSUME NEW p \in Panels, NEW t \in Titles, NEW d \in Dashboards, Cache!CreatePanel(p, t, d) PROVE MetaInv'
  <2>1. Cache!Meta(t, d) \in MetaRows BY DEF MetaRows, Cache!Meta
  <2>2. MetaShapes' BY <1>6, <2>1 DEF MetaInv, MetaShapes, MetaTask, Cache!CreatePanel
  <2>3. Copies' BY <1>6 DEF MetaInv, MetaShapes, Copies, Cache!CreatePanel
  <2>4. Cache!CacheFresh' BY <1>6 DEF MetaInv, MetaShapes, Cache!CacheFresh, Cache!ToClear, Cache!CreatePanel
  <2> QED BY <2>2, <2>3, <2>4 DEF MetaInv
<1> QED BY <1>1, <1>2, <1>3, <1>4, <1>5, <1>6 DEF Cache!Ask

\* What a request writes is of the shapes, and leaves ids that were never
\* given out without a row.
LEMMA WrittenRows ==
  ASSUME MetaShapes, NEW k \in tasks, k.does # "clear"
  PROVE  /\ Cache!Written(k) \in [Panels -> MetaRows] /\ Cache!Left(k) \subseteq Dashboards
         /\ \A p \in Panels \ used : Cache!Written(k)[p] = Cache!NoRow
<1>1. MetaTask(k) BY DEF MetaShapes
<1>2. \A p \in Panels : row[p] # Cache!NoRow => row[p].title \in Titles /\ row[p].dashboard \in Dashboards
  BY DEF MetaShapes, MetaRows
<1>3. CASE k.does = "rename" BY <1>1, <1>2, <1>3 DEF MetaShapes, MetaTask, Cache!Written, Cache!Left, Cache!Meta, MetaRows
<1>4. CASE k.does = "move" BY <1>1, <1>2, <1>4 DEF MetaShapes, MetaTask, Cache!Written, Cache!Left, Cache!Meta, MetaRows
<1>5. CASE k.does = "delete" BY <1>1, <1>5 DEF MetaShapes, Cache!Written, Cache!Left, MetaRows
<1>6. CASE k.does \in {"drop", "empty"} BY <1>1, <1>6 DEF MetaShapes, Cache!Written, Cache!Left, MetaRows
<1>7. CASE k.does = "reset" BY <1>1, <1>7 DEF MetaShapes, Cache!Written, Cache!Left, MetaRows
<1> QED BY <1>1, <1>3, <1>4, <1>5, <1>6, <1>7 DEF MetaTask

\* A row is written: who held it is remembered, and so is who is to take it
\* out of the cache, or that nobody will.
LEMMA MetaWrites ==
  ASSUME MetaInv, NEW k \in tasks, Cache!Write(k)
  PROVE  MetaInv'
<1> DEFINE c == [k EXCEPT !.does = "clear"]
<1>1. MetaShapes /\ MetaTask(k) /\ k.does # "clear" BY DEF MetaInv, MetaShapes, Cache!Write
<1>2. MetaTask(c) /\ c.does = "clear" /\ c.panels = k.panels BY <1>1 DEF MetaTask
<1>3. tasks' \subseteq tasks \cup {c} /\ \A j \in tasks : j # k => j \in tasks'
  BY DEF Cache!Write
<1>4. \A j \in tasks' : MetaTask(j)' BY <1>1, <1>2, <1>3 DEF MetaShapes, MetaTask, Cache!Write
<1>5. Cache!ToClear \subseteq Cache!ToClear'
  BY <1>1, <1>3 DEF Cache!ToClear
<1>6. CASE Cache!NotThere(k)
  <2>1. MetaShapes' BY <1>1, <1>4, <1>6 DEF MetaShapes, Cache!Write
  <2>2. Copies' BY <1>6 DEF MetaInv, Copies, Cache!Write
  <2>3. Cache!CacheFresh' BY <1>5, <1>6 DEF MetaInv, Cache!CacheFresh, Cache!Write
  <2> QED BY <2>1, <2>2, <2>3 DEF MetaInv
<1>7. CASE ~Cache!NotThere(k)
  <2> DEFINE changed == {p \in Panels : Cache!Written(k)[p] # row[p]}
  <2>1. /\ row' = Cache!Written(k) /\ dashboards' = Cache!Left(k)
        /\ crossed' = crossed \cup (changed \cap Cache!Held) /\ missed' = missed \cup (changed \ k.panels)
        /\ UNCHANGED <<used, cache, router, writes, restarts>>
    BY <1>7 DEF Cache!Write
  <2>2. \A p \in k.panels : p \in Cache!ToClear'
    <3>1. k.panels # {} => c \in tasks' BY <1>7 DEF Cache!Write
    <3> HIDE DEF c
    <3> QED BY <3>1, <1>2 DEF Cache!ToClear
  <2>3. MetaShapes' BY <1>1, <1>4, <2>1, WrittenRows DEF MetaShapes
  <2>4. \A p \in Panels : p \notin changed => row'[p] = row[p] BY <2>1
  <2>5. Copies'
    <3> SUFFICES ASSUME NEW r \in Routers, router[r].at = "stores", router[r].panel \notin crossed'
                 PROVE  router[r].meta = row'[router[r].panel]
      BY <2>1 DEF Copies
    <3>1. router[r].panel \in Panels /\ router[r].panel \in Cache!Held
      BY <1>1 DEF MetaShapes, Cache!Held
    <3>2. router[r].panel \notin changed /\ router[r].panel \notin crossed BY <3>1, <2>1
    <3> QED BY <3>1, <3>2, <2>4 DEF MetaInv, Copies
  <2>6. Cache!CacheFresh'
    <3> SUFFICES ASSUME NEW p \in Panels, p \notin Cache!ToClear', p \notin crossed', p \notin missed'
                 PROVE  cache[p] \in {Cache!Uncached, row'[p]}
      BY <2>1 DEF Cache!CacheFresh
    <3>1. p \notin changed /\ p \notin missed /\ p \notin crossed BY <2>1, <2>2
    <3> QED BY <3>1, <1>5, <2>4 DEF MetaInv, Cache!CacheFresh
  <2> QED BY <2>3, <2>5, <2>6 DEF MetaInv
<1> QED BY <1>6, <1>7

\* A panel is taken out of the cache, after which nothing old is there.
LEMMA MetaInvalidates ==
  ASSUME MetaInv, NEW k \in tasks, NEW p \in k.panels, Cache!Invalidate(k, p)
  PROVE  MetaInv'
<1> DEFINE c == [k EXCEPT !.panels = @ \ {p}]
<1>1. MetaShapes /\ MetaTask(k) /\ k.does = "clear" /\ p \in Panels
  BY DEF MetaInv, MetaShapes, Cache!Invalidate, MetaTask
<1>2. MetaTask(c) /\ c.does = "clear" /\ c.panels = k.panels \ {p} BY <1>1 DEF MetaTask
<1>3. \A j \in tasks' : MetaTask(j)' BY <1>1, <1>2 DEF MetaShapes, MetaTask, Cache!Invalidate
<1>4. MetaShapes' BY <1>1, <1>3 DEF MetaShapes, Cache!Invalidate
<1>5. Copies'
  <2> SUFFICES ASSUME NEW r \in Routers, router[r].at = "stores", router[r].panel \notin crossed'
               PROVE  router[r].meta = row[router[r].panel]
    BY DEF Copies, Cache!Invalidate
  <2>1. router[r].panel \in Cache!Held BY DEF Cache!Held
  <2>2. router[r].panel \notin crossed BY <2>1 DEF Cache!Invalidate
  <2> QED BY <2>2 DEF MetaInv, Copies
<1>6. \A q \in Cache!ToClear : q # p => q \in Cache!ToClear'
  <2> SUFFICES ASSUME NEW j \in tasks, j.does = "clear", NEW q \in j.panels, q # p PROVE q \in Cache!ToClear'
    BY DEF Cache!ToClear
  <2>1. CASE j # k
    <3>1. j \in tasks' BY <2>1 DEF Cache!Invalidate
    <3> QED BY <3>1 DEF Cache!ToClear
  <2>2. CASE j = k
    <3>1. c \in tasks' /\ q \in c.panels BY <1>2, <2>2 DEF Cache!Invalidate
    <3> HIDE DEF c
    <3> QED BY <3>1, <1>2 DEF Cache!ToClear
  <2> QED BY <2>1, <2>2
<1>7. Cache!CacheFresh'
  <2> SUFFICES ASSUME NEW q \in Panels, q \notin Cache!ToClear', q \notin crossed', q \notin missed'
               PROVE  cache'[q] \in {Cache!Uncached, row[q]}
    BY DEF Cache!CacheFresh, Cache!Invalidate
  <2>1. CASE q = p BY <2>1, <1>1 DEF MetaShapes, Cache!Invalidate
  <2>2. CASE q # p BY <2>2, <1>6, <1>1 DEF MetaInv, MetaShapes, Cache!CacheFresh, Cache!Invalidate
  <2> QED BY <2>1, <2>2
<1> QED BY <1>4, <1>5, <1>7 DEF MetaInv

\* No step of a fan-out, of a request or of the process breaks the invariant.
LEMMA MetaKeeps == MetaInv /\ [Cache!Next]_(Cache!vars) => MetaInv'
<1> SUFFICES ASSUME MetaInv, [Cache!Next]_(Cache!vars) PROVE MetaInv'
  OBVIOUS
<1>1. ASSUME NEW r \in Routers, Cache!Lookup(r) PROVE MetaInv' BY <1>1, MetaLooksUp
<1>2. CASE Cache!Ask BY <1>2, MetaAsks
<1>3. ASSUME NEW k \in tasks, Cache!Step(k) PROVE MetaInv'
  BY <1>3, MetaWrites, MetaInvalidates DEF Cache!Step
<1>4. CASE Cache!Restart
  <2>1. MetaShapes' BY <1>4 DEF MetaInv, MetaShapes, Cache!Restart, Cache!Asleep, MetaRows
  <2>2. Copies' BY <1>4 DEF Copies, Cache!Restart, Cache!Asleep
  <2>3. Cache!CacheFresh' BY <1>4 DEF Cache!CacheFresh, Cache!Restart
  <2> QED BY <2>1, <2>2, <2>3 DEF MetaInv
<1>5. CASE UNCHANGED Cache!vars
  <2>1. MetaShapes' BY <1>5 DEF MetaInv, MetaShapes, MetaTask, Cache!vars
  <2>2. Copies' BY <1>5 DEF MetaInv, Copies, Cache!vars
  <2>3. Cache!CacheFresh' BY <1>5 DEF MetaInv, Cache!CacheFresh, Cache!ToClear, Cache!vars
  <2> QED BY <2>1, <2>2, <2>3 DEF MetaInv
<1> QED BY <1>1, <1>2, <1>3, <1>4, <1>5 DEF Cache!Next

\* What the cache says is in its shape and about ids that were given out.
THEOREM TitlesTyped == Cache!Spec => []Cache!TypeOK
<1>1. MetaInv => Cache!TypeOK BY DEF MetaInv, MetaShapes, MetaTask, MetaRows, Cache!TypeOK
<1> QED BY MetaStarts, MetaKeeps, <1>1, PTL DEF Cache!Spec
\* hub.go:257
THEOREM TitlesFresh == Cache!Spec => []Cache!CacheFresh
<1>1. MetaInv => Cache!CacheFresh BY DEF MetaInv
<1> QED BY MetaStarts, MetaKeeps, <1>1, PTL DEF Cache!Spec

-----------------------------------------------------------------------------
(* SubackWait.                                                               *)

WaitTopics == {k.topic : k \in Tasks} \cup {w[2] : w \in Watched}
Packets == {[answer |-> TRUE, to |-> k, topic |-> k.topic] : k \in Tasks}
           \cup {[answer |-> FALSE, to |-> Waits!Nobody, topic |-> t] : t \in WaitTopics}
WaitTasks == \A k \in Tasks : k.lock \in Waits!Locks /\ k.broker \in Brokers
Turns ==
    /\ step \in [Tasks -> {"new", "queued", "locked", "waits", "done"}]
    /\ holder \in [Waits!Locks -> Tasks \cup {Waits!Nobody}]
    /\ \A l \in Waits!Locks : holder[l] # Waits!Nobody => holder[l].lock = l
    /\ \A k \in Tasks : holder[k.lock] = k <=> step[k] \in {"locked", "waits"}
Traffic ==
    /\ asked \in [Brokers -> Seq(Tasks)] /\ line \in [Brokers -> Seq(Packets)]
    /\ router \in [Brokers -> Seq(Waits!Locks)] /\ answered \subseteq Tasks
    /\ \A b \in Brokers : Waits!Topics(b) \subseteq WaitTopics
    /\ DOMAIN subs = Brokers
WaitInv == Turns /\ Traffic

\* What is left of a sequence when one element is taken out.
LEMMA Removed ==
  ASSUME NEW S, NEW s \in Seq(S), NEW i \in DOMAIN s
  PROVE  Waits!RemoveAt(s, i) \in Seq(S)
BY DEF Waits!RemoveAt

\* At first nobody holds a lock.
LEMMA WaitStarts == WaitTasks /\ Waits!Init => WaitInv
<1> SUFFICES ASSUME WaitTasks, Waits!Init PROVE WaitInv
  OBVIOUS
<1>1. \A k \in Tasks : k # Waits!Nobody BY DEF WaitTasks, Waits!Locks, Waits!Nobody
<1>2. Turns BY <1>1 DEF WaitTasks, Waits!Init, Turns
<1>3. \A b \in Brokers : Waits!Topics(b) \subseteq WaitTopics
  BY DEF Waits!Topics, WaitTopics, Waits!Init
<1>4. Traffic BY <1>3 DEF Waits!Init, Traffic
<1> QED BY <1>2, <1>4 DEF WaitInv

\* A lock is taken by one and given back by the same.
LEMMA LockStep ==
  ASSUME WaitTasks, WaitInv, NEW k \in Tasks, Waits!Lock(k)
  PROVE  Turns'
<1>1. /\ step[k] = "queued" /\ holder[k.lock] = Waits!Nobody /\ k.lock \in Waits!Locks
      /\ step' = [step EXCEPT ![k] = "locked"] /\ holder' = [holder EXCEPT ![k.lock] = k]
  BY DEF Waits!Lock, WaitTasks
<1>2. \A j \in Tasks : j # Waits!Nobody BY DEF WaitTasks, Waits!Locks, Waits!Nobody
<1> QED BY <1>1, <1>2 DEF WaitInv, Turns

\* Who gives a lock back held it, and is through.
LEMMA UnlockStep ==
  ASSUME WaitTasks, Turns, NEW k \in Tasks, step[k] \in {"locked", "waits"}, Waits!Unlock(k)
  PROVE  Turns'
<1>1. /\ holder[k.lock] = k /\ k.lock \in Waits!Locks
      /\ step' = [step EXCEPT ![k] = "done"] /\ holder' = [holder EXCEPT ![k.lock] = Waits!Nobody]
  BY DEF Waits!Unlock, WaitTasks, Turns
<1>2. \A j \in Tasks : j # Waits!Nobody BY DEF WaitTasks, Waits!Locks, Waits!Nobody
<1> QED BY <1>1, <1>2 DEF Turns

\* The steps of a task on its way to an answer and back.
LEMMA TaskSteps ==
  ASSUME WaitTasks, WaitInv, NEW k \in Tasks,
         Waits!Arrives(k) \/ Waits!Lock(k) \/ Waits!Subscribe(k) \/ Waits!Answered(k) \/ Waits!TimedOut(k)
  PROVE  WaitInv'
<1>0. k.broker \in Brokers /\ k.topic \in WaitTopics BY DEF WaitTasks, WaitTopics
<1>1. CASE Waits!Arrives(k)
  <2>1. Turns' BY <1>1 DEF WaitInv, Turns, Waits!Arrives
  <2>2. Traffic' BY <1>1 DEF WaitInv, Traffic, Waits!Arrives, Waits!Topics
  <2> QED BY <2>1, <2>2 DEF WaitInv
<1>2. CASE Waits!Lock(k)
  <2>1. Traffic' BY <1>2 DEF WaitInv, Traffic, Waits!Lock, Waits!Topics
  <2> QED BY <1>2, <2>1, LockStep DEF WaitInv
<1>3. CASE Waits!Subscribe(k)
  <2>1. Turns'
    <3>1. CASE Waits!NeedsAsking(k) BY <1>3, <3>1 DEF WaitInv, Turns, Waits!Subscribe
    <3>2. CASE ~Waits!NeedsAsking(k) BY <1>3, <3>2, UnlockStep DEF WaitInv, Waits!Subscribe
    <3> QED BY <3>1, <3>2
  <2>2. \A b \in Brokers : Waits!Topics(b)' \subseteq WaitTopics
    BY <1>0, <1>3 DEF WaitInv, Traffic, Waits!Subscribe, Waits!Topics, Waits!Handler
  <2>3. asked' \in [Brokers -> Seq(Tasks)]
    <3>1. Append(asked[k.broker], k) \in Seq(Tasks) BY <1>0 DEF WaitInv, Traffic
    <3> QED BY <1>0, <1>3, <3>1 DEF WaitInv, Traffic, Waits!Subscribe
  <2>4. Traffic' BY <2>2, <2>3, <1>3 DEF WaitInv, Traffic, Waits!Subscribe
  <2> QED BY <2>1, <2>4 DEF WaitInv
<1>4. CASE Waits!Answered(k) \/ Waits!TimedOut(k)
  <2>1. Traffic' BY <1>4 DEF WaitInv, Traffic, Waits!Answered, Waits!TimedOut, Waits!Topics
  <2>2. Turns' BY <1>4, UnlockStep DEF WaitInv, Waits!Answered, Waits!TimedOut, Waits!Expires
  <2> QED BY <2>1, <2>2 DEF WaitInv
<1> QED BY <1>1, <1>2, <1>3, <1>4

\* What a broker, the library and the callbacks do takes no lock away.
LEMMA BrokerSteps ==
  ASSUME WaitTasks, WaitInv, NEW b \in Brokers,
         \/ Waits!Grants(b) \/ Waits!Route(b) \/ Waits!Callback(b)
         \/ \E i \in DOMAIN line[b] : Waits!Reads(b, i)
         \/ \E t \in {s.topic : s \in UNION {subs[c] : c \in Brokers}} \ {Waits!All} : Waits!Sends(b, t)
  PROVE  WaitInv'
<1>1. CASE Waits!Grants(b)
  <2>1. Head(asked[b]) \in Tasks /\ Tail(asked[b]) \in Seq(Tasks) BY <1>1 DEF WaitInv, Traffic, Waits!Grants
  <2>2. [answer |-> TRUE, to |-> Head(asked[b]), topic |-> Head(asked[b]).topic] \in Packets BY <2>1 DEF Packets
  <2>3. line' \in [Brokers -> Seq(Packets)] /\ asked' \in [Brokers -> Seq(Tasks)]
    BY <1>1, <2>1, <2>2 DEF WaitInv, Traffic, Waits!Grants
  <2>4. Traffic' BY <1>1, <2>3 DEF WaitInv, Traffic, Waits!Grants, Waits!Topics
  <2>5. Turns' BY <1>1 DEF WaitInv, Turns, Waits!Grants
  <2> QED BY <2>4, <2>5 DEF WaitInv
<1>2. ASSUME NEW t \in {s.topic : s \in UNION {subs[c] : c \in Brokers}}, Waits!Sends(b, t) PROVE WaitInv'
  <2>1. t \in WaitTopics BY DEF WaitInv, Traffic, Waits!Topics
  <2>2. [answer |-> FALSE, to |-> Waits!Nobody, topic |-> t] \in Packets BY <2>1 DEF Packets
  <2>3. line' \in [Brokers -> Seq(Packets)] BY <1>2, <2>2 DEF WaitInv, Traffic, Waits!Sends
  <2>4. Traffic' BY <1>2, <2>3 DEF WaitInv, Traffic, Waits!Sends, Waits!Topics
  <2>5. Turns' BY <1>2 DEF WaitInv, Turns, Waits!Sends
  <2> QED BY <2>4, <2>5 DEF WaitInv
<1>3. ASSUME NEW i \in DOMAIN line[b], Waits!Reads(b, i) PROVE WaitInv'
  <2>1. line[b] \in Seq(Packets) /\ line[b][i] \in Packets /\ line[b][i].answer
    BY <1>3 DEF WaitInv, Traffic, Waits!Reads
  <2>2. line[b][i].to \in Tasks BY <2>1 DEF Packets
  <2>3. line' \in [Brokers -> Seq(Packets)]
    <3>1. Waits!RemoveAt(line[b], i) \in Seq(Packets) BY <2>1, Removed
    <3> QED BY <1>3, <3>1 DEF WaitInv, Traffic, Waits!Reads
  <2>4. Traffic' BY <1>3, <2>2, <2>3 DEF WaitInv, Traffic, Waits!Reads, Waits!Topics
  <2>5. Turns' BY <1>3 DEF WaitInv, Turns, Waits!Reads
  <2> QED BY <2>4, <2>5 DEF WaitInv
<1>4. CASE Waits!Route(b)
  <2>1. Tail(line[b]) \in Seq(Packets) BY <1>4 DEF WaitInv, Traffic, Waits!Route
  <2>2. \A l \in {"hub", "engine"} : Waits!Takes(l) \subseteq Seq(Waits!Locks)
    <3>1. "hub" \in Waits!Locks /\ "database" \in Waits!Locks /\ "engine" \in Waits!Locks BY DEF Waits!Locks
    <3>2. <<"hub">> \in Seq(Waits!Locks) /\ <<"hub", "database">> \in Seq(Waits!Locks) /\ <<"engine">> \in Seq(Waits!Locks)
      BY <3>1
    <3> QED BY <3>2 DEF Waits!Takes
  <2>3. <<>> \in Seq(Waits!Locks) OBVIOUS
  <2>4. PICK f \in Seq(Waits!Locks), r \in Seq(Waits!Locks) :
           router' \in {[router EXCEPT ![b] = f \o r], [router EXCEPT ![b] = r \o f]}
    BY <1>4, <2>2, <2>3 DEF Waits!Route
  <2>5. router' \in [Brokers -> Seq(Waits!Locks)]
    <3>1. f \o r \in Seq(Waits!Locks) /\ r \o f \in Seq(Waits!Locks) OBVIOUS
    <3> QED BY <2>4, <3>1 DEF WaitInv, Traffic
  <2>6. Traffic' BY <1>4, <2>1, <2>5 DEF WaitInv, Traffic, Waits!Route, Waits!Topics
  <2>7. Turns' BY <1>4 DEF WaitInv, Turns, Waits!Route
  <2> QED BY <2>6, <2>7 DEF WaitInv
<1>5. CASE Waits!Callback(b)
  <2>1. Tail(router[b]) \in Seq(Waits!Locks) BY <1>5 DEF WaitInv, Traffic, Waits!Callback
  <2>2. Traffic' BY <1>5, <2>1 DEF WaitInv, Traffic, Waits!Callback, Waits!Topics
  <2>3. Turns' BY <1>5 DEF WaitInv, Turns, Waits!Callback
  <2> QED BY <2>2, <2>3 DEF WaitInv
<1> QED BY <1>1, <1>2, <1>3, <1>4, <1>5

\* No step breaks the invariant.
LEMMA WaitKeeps == WaitTasks /\ WaitInv /\ [Waits!Next]_(Waits!vars) => WaitInv'
<1> SUFFICES ASSUME WaitTasks, WaitInv, [Waits!Next]_(Waits!vars) PROVE WaitInv'
  OBVIOUS
<1>1. CASE Waits!Next BY <1>1, TaskSteps, BrokerSteps DEF Waits!Next
<1>2. CASE UNCHANGED Waits!vars
  <2>1. Turns' BY <1>2 DEF WaitInv, Turns, Waits!vars
  <2>2. Traffic' BY <1>2 DEF WaitInv, Traffic, Waits!vars, Waits!Topics
  <2> QED BY <2>1, <2>2 DEF WaitInv
<1> QED BY <1>1, <1>2

\* The hub's, the engine's and the database's lock are each held by the one
\* task that is at work with it, from its subscription to the answer or the
\* end of its wait, whatever brokers and callbacks do meanwhile.
\* hub.go:222, client.go:282
THEOREM OneHolder == WaitTasks => (Waits!Spec => []Waits!TypeOK)
<1> SUFFICES ASSUME WaitTasks PROVE Waits!Spec => []Waits!TypeOK
  OBVIOUS
<1>1. WaitInv => Waits!TypeOK
  BY DEF WaitInv, Turns, Traffic, Waits!TypeOK
<1> QED BY WaitStarts, WaitKeeps, <1>1, PTL DEF Waits!Spec

-----------------------------------------------------------------------------
(* HistoryWriter.                                                            *)
(*                                                                           *)
(* A router numbers its messages, and everything there is of it is older     *)
(* than the message it is handing over (Past).  So what it appends to the    *)
(* queue comes last there (Queued), the worker takes what comes first        *)
(* (TakenFirst), and what is written was first of all (Written).             *)

(* Who is at work, and what the stop was told. *)
Control ==
    /\ started \in BOOLEAN /\ stopCh \in BOOLEAN /\ saveSysTopics \in BOOLEAN /\ closed \in BOOLEAN
    /\ worker \in {"off", "select", "drain", "done"}
    /\ stopper \in {"no", "waits", "returned"}
    /\ started => worker = "select" /\ ~stopCh
    /\ worker = "off" => ~stopCh
    /\ worker \in {"drain", "done"} \/ stopper = "waits" => stopCh

Channels ==
    /\ queue \in Seq(Hist!Records) /\ Len(queue) <= historyQueueSize
    /\ taken \in Seq(Hist!Records) /\ Len(taken) <= 1
Fates ==
    /\ table \in Seq(Hist!Records)
    /\ lost \subseteq Hist!Records /\ late \subseteq Hist!Records /\ direct \subseteq Hist!Records
Readers ==
    /\ router \in [Routers -> {Hist!Idle, Hist!Asked(TRUE), Hist!Asked(FALSE)}]
    /\ arrived \in [Routers -> 0..MaxMessages]
    /\ \A r \in Routers : router[r].at = "asked" => arrived[r] > 0
WriterShapes == Channels /\ Fates /\ Readers

(* q has been handed over, and what its router holds now came after it. *)
HandedOver(q) ==
    q[2] <= arrived[q[1]] /\ (router[q[1]].at = "asked" => q[2] < arrived[q[1]])
Seen == Hist!ToSet(table) \cup lost \cup Hist!Underway
Past == \A q \in Seen : HandedOver(q)

Queued ==
    \A i, j \in DOMAIN queue :
        i < j /\ queue[i][1] = queue[j][1] => queue[i][2] < queue[j][2]
TakenFirst ==
    \A t \in Hist!ToSet(taken), q \in Hist!ToSet(queue) : t[1] = q[1] => t[2] < q[2]
Written ==
    \A t \in Hist!ToSet(table), q \in Hist!Underway : t[1] = q[1] => t[2] < q[2] \/ t \in direct

WriterApart ==
    /\ Hist!Underway \cap (Hist!ToSet(table) \cup lost) = {}
    /\ Hist!ToSet(table) \cap lost = {}
Books == Past /\ Queued /\ TakenFirst /\ Written /\ WriterApart /\ Hist!InOrder

WriterInv == Control /\ WriterShapes /\ Books /\ Hist!Drained

-----------------------------------------------------------------------------
LEMMA SetOfAppend ==
  ASSUME NEW S, NEW c \in Seq(S), NEW x \in S
  PROVE  /\ Append(c, x) \in Seq(S) /\ Len(Append(c, x)) = Len(c) + 1
         /\ \A i \in DOMAIN c : i \in 1..Len(c) /\ Append(c, x)[i] = c[i]
         /\ DOMAIN Append(c, x) = 1..(Len(c) + 1)
         /\ Append(c, x)[Len(c) + 1] = x
         /\ Hist!ToSet(Append(c, x)) = Hist!ToSet(c) \cup {x}
<1>1. /\ Len(c) \in Nat /\ DOMAIN c = 1..Len(c) /\ DOMAIN Append(c, x) = 1..(Len(c) + 1)
      /\ Append(c, x) \in Seq(S) /\ Len(Append(c, x)) = Len(c) + 1
  OBVIOUS
<1>2. \A i \in 1..Len(c) : i \in 1..(Len(c) + 1) /\ Append(c, x)[i] = c[i]
  OBVIOUS
<1>3. Len(c) + 1 \in 1..(Len(c) + 1) /\ Append(c, x)[Len(c) + 1] = x
  OBVIOUS
<1>4. \A i \in 1..(Len(c) + 1) : i \in 1..Len(c) \/ i = Len(c) + 1
  BY <1>1
<1>5. Hist!ToSet(Append(c, x)) \subseteq Hist!ToSet(c) \cup {x}
  <2> SUFFICES ASSUME NEW i \in 1..(Len(c) + 1) PROVE Append(c, x)[i] \in Hist!ToSet(c) \cup {x}
    BY <1>1, Zenon DEF Hist!ToSet
  <2> QED BY <1>1, <1>2, <1>3, <1>4, Zenon DEF Hist!ToSet
<1>6. Hist!ToSet(c) \subseteq Hist!ToSet(Append(c, x))
  <2> SUFFICES ASSUME NEW i \in DOMAIN c PROVE c[i] \in Hist!ToSet(Append(c, x))
    BY DEF Hist!ToSet
  <2> QED BY <1>1, <1>2, Zenon DEF Hist!ToSet
<1>7. x \in Hist!ToSet(Append(c, x)) BY <1>1, <1>3, Zenon DEF Hist!ToSet
<1> QED BY <1>1, <1>2, <1>3, <1>5, <1>6, <1>7

LEMMA SetOfTail ==
  ASSUME NEW S, NEW c \in Seq(S), c # <<>>
  PROVE  /\ Head(c) \in S /\ Tail(c) \in Seq(S) /\ Len(Tail(c)) = Len(c) - 1
         /\ 1 \in DOMAIN c /\ Head(c) = c[1]
         /\ \A i \in DOMAIN Tail(c) : i \in Nat /\ i + 1 \in DOMAIN c /\ 1 < i + 1 /\ Tail(c)[i] = c[i + 1]
         /\ Hist!ToSet(c) = {Head(c)} \cup Hist!ToSet(Tail(c))
<1>1. /\ Len(c) \in Nat /\ Len(c) > 0 /\ DOMAIN c = 1..Len(c)
      /\ DOMAIN Tail(c) = 1..(Len(c) - 1)
      /\ Head(c) \in S /\ Tail(c) \in Seq(S) /\ Len(Tail(c)) = Len(c) - 1
      /\ Head(c) = c[1] /\ 1 \in 1..Len(c)
  OBVIOUS
<1>2. \A i \in 1..(Len(c) - 1) : i \in Nat /\ i + 1 \in 1..Len(c) /\ 1 < i + 1 /\ Tail(c)[i] = c[i + 1]
  OBVIOUS
<1>3. \A i \in 1..Len(c) : i = 1 \/ \E j \in 1..(Len(c) - 1) : i = j + 1
  <2> SUFFICES ASSUME NEW i \in 1..Len(c), i # 1 PROVE \E j \in 1..(Len(c) - 1) : i = j + 1
    OBVIOUS
  <2>1. i - 1 \in 1..(Len(c) - 1) /\ i = (i - 1) + 1 BY <1>1
  <2> QED BY <2>1
<1>4. Hist!ToSet(c) \subseteq {Head(c)} \cup Hist!ToSet(Tail(c))
  <2> SUFFICES ASSUME NEW i \in 1..Len(c), i # 1 PROVE c[i] \in Hist!ToSet(Tail(c))
    BY <1>1 DEF Hist!ToSet
  <2>1. PICK j \in 1..(Len(c) - 1) : i = j + 1 BY <1>3
  <2>2. Tail(c)[j] = c[i] BY <1>2, <2>1
  <2> QED BY <1>1, <2>2, Zenon DEF Hist!ToSet
<1>5. Hist!ToSet(Tail(c)) \subseteq Hist!ToSet(c)
  <2> SUFFICES ASSUME NEW i \in 1..(Len(c) - 1) PROVE Tail(c)[i] \in Hist!ToSet(c)
    BY <1>1, Zenon DEF Hist!ToSet
  <2> QED BY <1>1, <1>2, Zenon DEF Hist!ToSet
<1>6. Head(c) \in Hist!ToSet(c) BY <1>1, Zenon DEF Hist!ToSet
<1> QED BY <1>1, <1>2, <1>4, <1>5, <1>6

LEMMA SetOfNone == Hist!ToSet(<<>>) = {}
BY DEF Hist!ToSet

LEMMA SetOfOne == ASSUME NEW x PROVE Hist!ToSet(<<x>>) = {x}
BY DEF Hist!ToSet

LEMMA EmptyOnly ==
  ASSUME NEW S, NEW c \in Seq(S), Len(c) = 0
  PROVE  c = <<>>
OBVIOUS

LEMMA SetTyped == ASSUME NEW S, NEW c \in Seq(S) PROVE Hist!ToSet(c) \subseteq S
BY DEF Hist!ToSet

LEMMA SeenTyped == ASSUME WriterShapes PROVE Seen \subseteq Hist!Records
<1>1. Hist!ToSet(queue) \subseteq Hist!Records /\ Hist!ToSet(taken) \subseteq Hist!Records /\ Hist!ToSet(table) \subseteq Hist!Records
  BY SetTyped DEF WriterShapes, Channels, Fates
<1> QED BY <1>1 DEF Seen, Hist!Underway, WriterShapes, Fates

\* A table stays in order if what is appended is younger than all of its router in it,
\* but for those that were written by the router itself.
LEMMA StaysInOrder ==
  ASSUME MaxMessages \in Nat, table \in Seq(Hist!Records), Hist!InOrder,
         NEW x \in Hist!Records, table' = Append(table, x), direct \subseteq direct',
         \A t \in Hist!ToSet(table) : t[1] = x[1] => t[2] < x[2] \/ (t \in direct' /\ t # x)
  PROVE  Hist!InOrder'
<1>1. /\ \A i \in DOMAIN table : i \in 1..Len(table) /\ table'[i] = table[i]
      /\ DOMAIN table' = 1..(Len(table) + 1) /\ DOMAIN table = 1..Len(table)
      /\ table'[Len(table) + 1] = x
      /\ Len(table) \in Nat
  BY SetOfAppend
<1> SUFFICES ASSUME NEW i \in DOMAIN table', NEW j \in DOMAIN table',
                    i < j, table'[i][1] = table'[j][1]
             PROVE  table'[i][2] < table'[j][2] \/ (table'[i] \in direct' /\ table'[i] # table'[j])
  BY DEF Hist!InOrder
<1>2. i \in DOMAIN table /\ table'[i] = table[i] BY <1>1
<1>3. CASE j \in DOMAIN table
  <2>1. table'[j] = table[j] BY <1>1, <1>3
  <2> QED BY <1>2, <1>3, <2>1 DEF Hist!InOrder
<1>4. CASE j \notin DOMAIN table
  <2>1. table'[j] = x BY <1>1, <1>4
  <2>2. table[i] \in Hist!ToSet(table) BY <1>2, Zenon DEF Hist!ToSet
  <2> QED BY <1>2, <2>1, <2>2
<1> QED BY <1>3, <1>4

-----------------------------------------------------------------------------
LEMMA WriterStarts == ASSUME historyQueueSize \in Nat, MaxMessages \in Nat, Hist!Init PROVE WriterInv
<1>1. Control BY DEF Hist!Init, Control
<1>2. WriterShapes BY DEF Hist!Init, WriterShapes, Channels, Fates, Readers, Hist!Idle
<1>3. Books
  BY SetOfNone DEF Hist!Init, Books, Past, Seen, Hist!Underway, Queued, TakenFirst, Written, WriterApart, Hist!InOrder
<1>4. Hist!Drained BY DEF Hist!Init, Hist!Drained
<1> QED BY <1>1, <1>2, <1>3, <1>4 DEF WriterInv

\* Steps of the worker's own life touch no message.
WriterData == <<queue, taken, table, lost, late, direct, router, arrived>>
LEMMA WriterQuietStep ==
  ASSUME WriterShapes, Books, UNCHANGED WriterData
  PROVE  WriterShapes' /\ Books'
<1> USE DEF WriterData
<1>1. WriterShapes' BY DEF WriterShapes, Channels, Fates, Readers
<1>2. Seen' = Seen /\ Hist!Underway' = Hist!Underway BY DEF Seen, Hist!Underway
<1>3. Past' BY <1>2 DEF Books, Past, HandedOver
<1>4. Queued' /\ TakenFirst' BY DEF Books, Queued, TakenFirst
<1>5. Written' /\ WriterApart' /\ Hist!InOrder' BY <1>2 DEF Books, Written, WriterApart, Hist!InOrder
<1> QED BY <1>1, <1>3, <1>4, <1>5 DEF Books

LEMMA LifeStep ==
  ASSUME WriterInv, \/ Hist!StartHistoryWriter \/ Hist!Ends \/ Hist!StopHistoryWriter \/ Hist!Stopped
                    \/ Hist!CloseDatabase \/ Hist!SetSaveSysTopics \/ UNCHANGED Hist!vars
  PROVE  WriterInv'
<1>1. UNCHANGED WriterData
  BY DEF Hist!StartHistoryWriter, Hist!Ends, Hist!StopHistoryWriter, Hist!Stopped, Hist!CloseDatabase,
         Hist!SetSaveSysTopics, Hist!vars, WriterData
<1>2. WriterShapes' /\ Books' BY <1>1, WriterQuietStep DEF WriterInv
<1>3. Control'
  <2>1. CASE Hist!StartHistoryWriter BY <2>1 DEF WriterInv, Control, Hist!StartHistoryWriter
  <2>2. CASE Hist!Ends BY <2>2 DEF WriterInv, Control, Hist!Ends, Hist!AfterStop
  <2>3. CASE Hist!StopHistoryWriter BY <2>3 DEF WriterInv, Control, Hist!StopHistoryWriter
  <2>4. CASE Hist!Stopped BY <2>4 DEF WriterInv, Control, Hist!Stopped
  <2>5. CASE Hist!CloseDatabase BY <2>5 DEF WriterInv, Control, Hist!CloseDatabase
  <2>6. CASE Hist!SetSaveSysTopics BY <2>6 DEF WriterInv, Control, Hist!SetSaveSysTopics
  <2>7. CASE UNCHANGED Hist!vars BY <2>7 DEF WriterInv, Control, Hist!vars
  <2> QED BY <2>1, <2>2, <2>3, <2>4, <2>5, <2>6, <2>7
<1>4. Hist!Drained'
  <2>1. CASE Hist!StartHistoryWriter BY <2>1 DEF Hist!Drained, Hist!StartHistoryWriter
  <2>2. CASE Hist!Ends
    <3>1. worker' = "done" => queue' = <<>> BY <2>2 DEF Hist!Ends, Hist!AfterStop
    <3> QED BY <3>1, SetOfNone DEF Hist!Drained
  <2>3. CASE ~Hist!StartHistoryWriter /\ ~Hist!Ends
    <3>1. worker' = worker
      BY <2>3 DEF Hist!StopHistoryWriter, Hist!Stopped, Hist!CloseDatabase, Hist!SetSaveSysTopics, Hist!vars
    <3> QED BY <1>1, <3>1 DEF WriterInv, Hist!Drained, WriterData
  <2> QED BY <2>1, <2>2, <2>3
<1> QED BY <1>2, <1>3, <1>4 DEF WriterInv

\* The worker takes the first record of the queue.
LEMMA WriterTakeStep ==
  ASSUME historyQueueSize \in Nat, WriterInv, Hist!Take
  PROVE  WriterInv'
<1>1. /\ worker \in {"select", "drain"} /\ taken = <<>> /\ queue # <<>>
      /\ taken' = <<Head(queue)>> /\ queue' = Tail(queue)
      /\ UNCHANGED <<started, stopCh, worker, router, arrived, saveSysTopics, stopper, closed,
                     table, lost, late, direct>>
  BY DEF Hist!Take
<1>2. queue \in Seq(Hist!Records) /\ Len(queue) <= historyQueueSize /\ Len(queue) \in Nat
  BY DEF WriterInv, WriterShapes, Channels
<1>3. /\ Head(queue) \in Hist!Records /\ Tail(queue) \in Seq(Hist!Records)
      /\ Len(Tail(queue)) = Len(queue) - 1
      /\ 1 \in DOMAIN queue /\ Head(queue) = queue[1]
      /\ \A i \in DOMAIN Tail(queue) :
            i \in Nat /\ i + 1 \in DOMAIN queue /\ 1 < i + 1 /\ Tail(queue)[i] = queue[i + 1]
      /\ Hist!ToSet(queue) = {Head(queue)} \cup Hist!ToSet(Tail(queue))
  BY <1>1, <1>2, SetOfTail
<1>4. Hist!ToSet(taken) = {} /\ Hist!ToSet(taken') = {Head(queue)} BY <1>1, SetOfNone, SetOfOne
<1>5. Hist!Underway' = Hist!Underway /\ Seen' = Seen BY <1>1, <1>3, <1>4 DEF Hist!Underway, Seen
<1>6. WriterShapes'
  <2>1. <<Head(queue)>> \in Seq(Hist!Records) /\ Len(<<Head(queue)>>) = 1 BY <1>3
  <2>2. Len(queue') <= historyQueueSize BY <1>1, <1>2, <1>3
  <2>3. Channels' BY <1>1, <1>3, <2>1, <2>2 DEF Channels
  <2>4. Fates' /\ Readers' BY <1>1 DEF WriterInv, WriterShapes, Fates, Readers
  <2> QED BY <2>3, <2>4 DEF WriterShapes
<1>7. Past' BY <1>1, <1>5 DEF WriterInv, Books, Past, HandedOver
<1>8. Queued'
  <2> SUFFICES ASSUME NEW i \in DOMAIN queue', NEW j \in DOMAIN queue', i < j,
                      queue'[i][1] = queue'[j][1]
               PROVE  queue'[i][2] < queue'[j][2]
    BY DEF Queued
  <2>1. /\ i \in Nat /\ j \in Nat /\ i + 1 \in DOMAIN queue /\ j + 1 \in DOMAIN queue
        /\ queue'[i] = queue[i + 1] /\ queue'[j] = queue[j + 1]
    BY <1>1, <1>3
  <2>2. i + 1 < j + 1 BY <2>1
  <2> QED BY <2>1, <2>2 DEF WriterInv, Books, Queued
<1>9. TakenFirst'
  <2> SUFFICES ASSUME NEW i \in DOMAIN Tail(queue), Head(queue)[1] = Tail(queue)[i][1]
               PROVE  Head(queue)[2] < Tail(queue)[i][2]
    BY <1>1, <1>4 DEF TakenFirst, Hist!ToSet
  <2>1. 1 \in DOMAIN queue /\ i + 1 \in DOMAIN queue /\ 1 < i + 1 /\ Tail(queue)[i] = queue[i + 1]
    BY <1>3
  <2> QED BY <1>3, <2>1 DEF WriterInv, Books, Queued
<1>10. Written' /\ WriterApart' /\ Hist!InOrder'
  BY <1>1, <1>5 DEF WriterInv, Books, Written, WriterApart, Hist!InOrder
<1>11. Control' BY <1>1 DEF WriterInv, Control
<1>12. Hist!Drained' BY <1>1 DEF Hist!Drained
<1> QED BY <1>6, <1>7, <1>8, <1>9, <1>10, <1>11, <1>12 DEF WriterInv, Books

\* The record taken is written or given up.
LEMMA InsertedStep ==
  ASSUME MaxMessages \in Nat, WriterInv, Hist!Write
  PROVE  WriterInv'
<1> DEFINE x == taken[1]
<1>1. /\ taken # <<>> /\ taken' = <<>> /\ Hist!Insert(x)
      /\ UNCHANGED <<started, stopCh, queue, worker, router, arrived, saveSysTopics, stopper,
                     closed, late, direct>>
  BY DEF Hist!Write
<1>2. x \in Hist!Records /\ Hist!ToSet(taken) = {x} /\ taken = <<x>>
  <2>1. taken \in Seq(Hist!Records) /\ Len(taken) <= 1 /\ Len(taken) \in Nat
    BY DEF WriterInv, WriterShapes, Channels
  <2>2. Len(taken) # 0 BY <1>1, <2>1, EmptyOnly
  <2>6. \A n \in Nat : n <= 1 /\ n # 0 => n = 1 OBVIOUS
  <2>4. Len(taken) = 1 BY <2>1, <2>2, <2>6, Zenon
  <2>5. x \in Hist!Records BY <2>1, <2>4
  <2>3. taken = <<x>> BY <2>1, <2>4
  <2> QED BY <2>5, <2>3, SetOfOne
<1>3. table \in Seq(Hist!Records) /\ lost \subseteq Hist!Records BY DEF WriterInv, WriterShapes, Fates
<1>4. Hist!ToSet(taken') = {} BY <1>1, SetOfNone
<1>5. Hist!Underway' = Hist!ToSet(queue) /\ Hist!Underway = Hist!ToSet(queue) \cup {x}
  BY <1>1, <1>2, <1>4 DEF Hist!Underway
<1>6. x \notin Hist!ToSet(queue)
  <2>1. x[1] = x[1] /\ x[2] \in Nat /\ ~(x[2] < x[2]) BY <1>2 DEF Hist!Records
  <2> QED BY <1>2, <2>1 DEF WriterInv, Books, TakenFirst
<1>13. Channels' /\ Readers'
  <2>1. taken' \in Seq(Hist!Records) /\ Len(taken') <= 1 BY <1>1
  <2>2. Channels' BY <1>1, <2>1 DEF WriterInv, WriterShapes, Channels
  <2>3. Readers' BY <1>1 DEF WriterInv, WriterShapes, Readers
  <2> QED BY <2>2, <2>3
<1>7. Queued' /\ TakenFirst'
  BY <1>1, <1>4 DEF WriterInv, Books, Queued, TakenFirst
<1>8. Control' BY <1>1 DEF WriterInv, Control
<1>9. Hist!Drained' BY <1>1 DEF WriterInv, Hist!Drained
<1>10. CASE table' = Append(table, x) /\ lost' = lost
  <2>1. Hist!ToSet(table') = Hist!ToSet(table) \cup {x} /\ table' \in Seq(Hist!Records)
    BY <1>2, <1>3, <1>10, SetOfAppend
  <2>2. WriterShapes' BY <1>1, <1>10, <1>13, <2>1 DEF WriterInv, WriterShapes, Fates
  <2>3. Seen' = Seen BY <1>5, <1>10, <2>1 DEF Seen
  <2>4. Past' BY <1>1, <2>3 DEF WriterInv, Books, Past, HandedOver
  <2>5. Written'
    <3>1. \A q \in Hist!ToSet(queue) : x[1] = q[1] => x[2] < q[2]
      BY <1>2 DEF WriterInv, Books, TakenFirst
    <3> QED BY <1>1, <1>5, <2>1, <3>1 DEF WriterInv, Books, Written
  <2>6. WriterApart' BY <1>5, <1>6, <1>10, <2>1 DEF WriterInv, Books, WriterApart
  <2>7. Hist!InOrder'
    <3>1. \A t \in Hist!ToSet(table) : t[1] = x[1] => t[2] < x[2] \/ (t \in direct' /\ t # x)
      BY <1>1, <1>5 DEF WriterInv, Books, Written, WriterApart
    <3> QED BY <1>1, <1>2, <1>3, <1>10, <3>1, StaysInOrder DEF WriterInv, Books
  <2> QED BY <1>7, <1>8, <1>9, <2>2, <2>4, <2>5, <2>6, <2>7 DEF WriterInv, Books
<1>11. CASE lost' = lost \cup {x} /\ table' = table
  <2>1. WriterShapes' BY <1>1, <1>2, <1>11, <1>13 DEF WriterInv, WriterShapes, Fates
  <2>2. Seen' = Seen BY <1>5, <1>11 DEF Seen
  <2>3. Past' BY <1>1, <2>2 DEF WriterInv, Books, Past, HandedOver
  <2>4. Written' /\ Hist!InOrder' BY <1>1, <1>5, <1>11 DEF WriterInv, Books, Written, Hist!InOrder
  <2>5. WriterApart' BY <1>5, <1>6, <1>11 DEF WriterInv, Books, WriterApart
  <2> QED BY <1>7, <1>8, <1>9, <2>1, <2>3, <2>4, <2>5 DEF WriterInv, Books
<1> QED BY <1>1, <1>10, <1>11 DEF Hist!Insert

\* A message arrives: what its router had is older.
LEMMA ArriveStep ==
  ASSUME MaxMessages \in Nat, WriterInv, NEW r \in Routers, NEW sys \in BOOLEAN, Hist!WriteHistory(r, sys)
  PROVE  WriterInv'
<1>1. /\ router[r] = Hist!Idle /\ arrived[r] < MaxMessages
      /\ arrived' = [arrived EXCEPT ![r] = arrived[r] + 1]
      /\ (router' = router \/ router' = [router EXCEPT ![r] = Hist!Asked(started)])
      /\ UNCHANGED <<started, stopCh, queue, worker, taken, saveSysTopics, stopper, closed,
                     table, lost, late, direct>>
  BY DEF Hist!WriteHistory
<1>2. /\ arrived \in [Routers -> 0..MaxMessages]
      /\ router \in [Routers -> {Hist!Idle, Hist!Asked(TRUE), Hist!Asked(FALSE)}]
  BY DEF WriterInv, WriterShapes, Readers
<1>3. Hist!Asked(started) \in {Hist!Asked(TRUE), Hist!Asked(FALSE)} BY DEF WriterInv, Control
<1>4. Hist!Idle.at # "asked" BY DEF Hist!Idle
<1>5. arrived'[r] = arrived[r] + 1 /\ arrived[r] \in Nat /\ arrived[r] + 1 \in 0..MaxMessages
  BY <1>1, <1>2
<1>6. \A s \in Routers : s # r => arrived'[s] = arrived[s] /\ router'[s] = router[s]
  BY <1>1, <1>2
<1>7. WriterShapes'
  <2>1. arrived' \in [Routers -> 0..MaxMessages] BY <1>1, <1>2, <1>5
  <2>2. router' \in [Routers -> {Hist!Idle, Hist!Asked(TRUE), Hist!Asked(FALSE)}] BY <1>1, <1>2, <1>3
  <2>3. \A s \in Routers : router'[s].at = "asked" => arrived'[s] > 0
    BY <1>5, <1>6 DEF WriterInv, WriterShapes, Readers
  <2>4. Readers' BY <2>1, <2>2, <2>3 DEF Readers
  <2>5. Channels' /\ Fates' BY <1>1 DEF WriterInv, WriterShapes, Channels, Fates
  <2> QED BY <2>4, <2>5 DEF WriterShapes
<1>8. Seen' = Seen /\ Hist!Underway' = Hist!Underway BY <1>1 DEF Seen, Hist!Underway
<1>9. Seen \subseteq Hist!Records BY SeenTyped DEF WriterInv
<1>10. Past'
  <2> SUFFICES ASSUME NEW q \in Seen PROVE HandedOver(q)'
    BY <1>8 DEF Past
  <2>1. q[1] \in Routers /\ q[2] \in Nat BY <1>9 DEF Hist!Records
  <2>2. q[2] <= arrived[q[1]] /\ (router[q[1]].at = "asked" => q[2] < arrived[q[1]])
    BY DEF WriterInv, Books, Past, HandedOver
  <2>3. q[2] <= arrived'[q[1]] /\ (router'[q[1]].at = "asked" => q[2] < arrived'[q[1]])
    BY <1>5, <1>6, <2>1, <2>2
  <2> QED BY <2>3 DEF HandedOver
<1>11. Queued' /\ TakenFirst' BY <1>1 DEF WriterInv, Books, Queued, TakenFirst
<1>12. Written' /\ WriterApart' /\ Hist!InOrder'
  BY <1>1, <1>8 DEF WriterInv, Books, Written, WriterApart, Hist!InOrder
<1>13. Control' /\ Hist!Drained' BY <1>1 DEF WriterInv, Control, Hist!Drained
<1> QED BY <1>7, <1>10, <1>11, <1>12, <1>13 DEF WriterInv, Books

\* A router gives its message to the queue, to the table, or up.
LEMMA HandOverStep ==
  ASSUME historyQueueSize \in Nat, MaxMessages \in Nat, WriterInv, NEW r \in Routers, Hist!HandOver(r)
  PROVE  WriterInv'
<1> DEFINE x == <<r, arrived[r]>>
<1>1. /\ router[r].at = "asked"
      /\ IF router[r].started THEN Hist!Enqueued(x) ELSE Hist!Insert(x) /\ queue' = queue
      /\ late' = IF router[r].started /\ stopCh THEN late \cup {x} ELSE late
      /\ direct' = IF router[r].started THEN direct ELSE direct \cup {x}
      /\ router' = [router EXCEPT ![r] = Hist!Idle]
      /\ UNCHANGED <<started, stopCh, worker, taken, arrived, saveSysTopics, stopper, closed>>
  BY DEF Hist!HandOver
<1>2. /\ router \in [Routers -> {Hist!Idle, Hist!Asked(TRUE), Hist!Asked(FALSE)}]
      /\ arrived \in [Routers -> 0..MaxMessages] /\ arrived[r] > 0
  BY <1>1 DEF WriterInv, WriterShapes, Readers
<1>3. x \in Hist!Records /\ x[1] = r /\ x[2] = arrived[r] BY <1>2 DEF Hist!Records
<1>4. Seen \subseteq Hist!Records BY SeenTyped DEF WriterInv
<1>5. \A q \in Seen : q[1] = r => q[2] < x[2] /\ q[2] \in Nat
  BY <1>1, <1>3, <1>4 DEF WriterInv, Books, Past, HandedOver, Hist!Records
<1>6. x \notin Seen
  <2>1. ~(x[2] < x[2]) BY <1>2
  <2> QED BY <1>3, <1>5, <2>1
<1>7. Control' BY <1>1 DEF WriterInv, Control
<1>8. Readers'
  <2>1. router' \in [Routers -> {Hist!Idle, Hist!Asked(TRUE), Hist!Asked(FALSE)}] BY <1>1, <1>2
  <2>2. \A s \in Routers : router'[s].at = "asked" => router[s].at = "asked"
    BY <1>1, <1>2 DEF Hist!Idle
  <2> QED BY <1>1, <1>2, <2>1, <2>2 DEF WriterInv, WriterShapes, Readers
<1>9. late' \subseteq Hist!Records /\ direct' \subseteq Hist!Records /\ direct \subseteq direct'
  BY <1>1, <1>3 DEF WriterInv, WriterShapes, Fates
<1>10. \A q \in Hist!Records : q \in Seen \/ q = x => HandedOver(q)'
  <2> SUFFICES ASSUME NEW q \in Hist!Records, q \in Seen \/ q = x PROVE HandedOver(q)'
    OBVIOUS
  <2>1. q[1] \in Routers BY DEF Hist!Records
  <2>2. q[2] <= arrived'[q[1]]
    <3>1. CASE q = x BY <1>1, <1>2, <1>3, <3>1
    <3>2. CASE q \in Seen BY <1>1, <3>2 DEF WriterInv, Books, Past, HandedOver
    <3> QED BY <3>1, <3>2
  <2>3. router'[q[1]].at = "asked" => q[2] < arrived'[q[1]]
    <3>1. CASE q[1] = r
      <4>1. router'[q[1]].at # "asked" BY <1>1, <1>2, <3>1 DEF Hist!Idle
      <4> QED BY <4>1
    <3>2. CASE q[1] # r
      <4>1. router'[q[1]] = router[q[1]] BY <1>1, <1>2, <2>1, <3>2
      <4>2. q \in Seen BY <1>3, <3>2
      <4> QED BY <1>1, <4>1, <4>2 DEF WriterInv, Books, Past, HandedOver
    <3> QED BY <3>1, <3>2
  <2> QED BY <2>2, <2>3 DEF HandedOver
<1>11. CASE queue' = Append(queue, x) /\ Len(queue) < historyQueueSize /\ router[r].started
            /\ table' = table /\ lost' = lost
  <2>1. /\ queue \in Seq(Hist!Records) /\ queue' \in Seq(Hist!Records) /\ Len(queue') = Len(queue) + 1
        /\ \A i \in DOMAIN queue : i \in 1..Len(queue) /\ queue'[i] = queue[i]
        /\ DOMAIN queue' = 1..(Len(queue) + 1) /\ DOMAIN queue = 1..Len(queue)
        /\ Len(queue) \in Nat
        /\ queue'[Len(queue) + 1] = x
        /\ Hist!ToSet(queue') = Hist!ToSet(queue) \cup {x}
    <3>1. queue \in Seq(Hist!Records) BY DEF WriterInv, WriterShapes, Channels
    <3>2. Len(queue) \in Nat /\ DOMAIN queue = 1..Len(queue) BY <3>1
    <3> HIDE DEF x
    <3> QED BY <1>3, <1>11, <3>1, <3>2, SetOfAppend
  <2>2. Hist!Underway' = Hist!Underway \cup {x} /\ Seen' = Seen \cup {x}
    BY <1>1, <1>11, <2>1 DEF Hist!Underway, Seen
  <2>3. Channels' BY <1>1, <1>11, <2>1 DEF WriterInv, WriterShapes, Channels
  <2>4. WriterShapes' BY <1>8, <1>9, <1>11, <2>3 DEF WriterInv, WriterShapes, Fates
  <2>5. Past' BY <1>3, <1>4, <1>10, <2>2 DEF Past
  <2>6. Queued'
    <3> SUFFICES ASSUME NEW i \in DOMAIN queue', NEW j \in DOMAIN queue', i < j,
                        queue'[i][1] = queue'[j][1]
                 PROVE  queue'[i][2] < queue'[j][2]
      BY DEF Queued
    <3>1. i \in DOMAIN queue /\ queue'[i] = queue[i] BY <2>1
    <3>2. CASE j \in DOMAIN queue
      <4>1. queue'[j] = queue[j] BY <2>1, <3>2
      <4> QED BY <3>1, <3>2, <4>1 DEF WriterInv, Books, Queued
    <3>3. CASE j \notin DOMAIN queue
      <4>1. queue'[j] = x BY <2>1, <3>3
      <4>2. queue[i] \in Seen BY <3>1, Zenon DEF Seen, Hist!Underway, Hist!ToSet
      <4> QED BY <1>3, <1>5, <3>1, <4>1, <4>2
    <3> QED BY <3>2, <3>3
  <2>7. TakenFirst'
    <3>1. \A t \in Hist!ToSet(taken) : t[1] = r => t[2] < x[2] BY <1>5 DEF Seen, Hist!Underway
    <3> QED BY <1>1, <1>3, <2>1, <3>1 DEF WriterInv, Books, TakenFirst
  <2>8. Written'
    <3>1. \A t \in Hist!ToSet(table) : t[1] = r => t[2] < x[2] BY <1>5 DEF Seen
    <3> QED BY <1>3, <1>9, <1>11, <2>2, <3>1 DEF WriterInv, Books, Written
  <2>9. WriterApart' BY <1>6, <1>11, <2>2 DEF WriterInv, Books, WriterApart, Seen
  <2>10. Hist!InOrder' BY <1>9, <1>11 DEF WriterInv, Books, Hist!InOrder
  <2>11. Hist!Drained'
    <3> SUFFICES ASSUME worker' = "done" PROVE Hist!ToSet(queue') \subseteq late'
      BY DEF Hist!Drained
    <3>1. stopCh /\ worker = "done" BY <1>1 DEF WriterInv, Control
    <3>2. late' = late \cup {x} BY <1>1, <1>11, <3>1
    <3> QED BY <2>1, <3>1, <3>2 DEF WriterInv, Hist!Drained
  <2> QED BY <1>7, <2>4, <2>5, <2>6, <2>7, <2>8, <2>9, <2>10, <2>11 DEF WriterInv, Books
<1>12. CASE queue' = queue /\ lost' = lost \cup {x} /\ table' = table
  <2>1. Hist!Underway' = Hist!Underway /\ Seen' = Seen \cup {x} BY <1>1, <1>12 DEF Hist!Underway, Seen
  <2>2. WriterShapes' BY <1>1, <1>3, <1>8, <1>9, <1>12 DEF WriterInv, WriterShapes, Channels, Fates
  <2>3. Past' BY <1>3, <1>4, <1>10, <2>1 DEF Past
  <2>4. Queued' /\ TakenFirst' BY <1>1, <1>12 DEF WriterInv, Books, Queued, TakenFirst
  <2>5. Written' /\ Hist!InOrder' BY <1>9, <1>12, <2>1 DEF WriterInv, Books, Written, Hist!InOrder
  <2>6. WriterApart' BY <1>6, <1>12, <2>1 DEF WriterInv, Books, WriterApart, Seen
  <2>7. Hist!Drained' BY <1>1, <1>12 DEF WriterInv, Hist!Drained
  <2> QED BY <1>7, <2>2, <2>3, <2>4, <2>5, <2>6, <2>7 DEF WriterInv, Books
<1>13. CASE queue' = queue /\ lost' = lost /\ table' = Append(table, x) /\ ~router[r].started
  <2>1. table \in Seq(Hist!Records) BY DEF WriterInv, WriterShapes, Fates
  <2>2. table' \in Seq(Hist!Records) /\ Hist!ToSet(table') = Hist!ToSet(table) \cup {x}
    <3> HIDE DEF x
    <3> QED BY <1>3, <1>13, <2>1, SetOfAppend
  <2>3. Hist!Underway' = Hist!Underway /\ Seen' = Seen \cup {x} BY <1>1, <1>13, <2>2 DEF Hist!Underway, Seen
  <2>4. WriterShapes' BY <1>1, <1>8, <1>9, <1>13, <2>2 DEF WriterInv, WriterShapes, Channels, Fates
  <2>5. Past' BY <1>3, <1>4, <1>10, <2>3 DEF Past
  <2>6. Queued' /\ TakenFirst' BY <1>1, <1>13 DEF WriterInv, Books, Queued, TakenFirst
  <2>7. x \in direct' BY <1>1, <1>13
  <2>8. Written' BY <1>9, <2>2, <2>3, <2>7 DEF WriterInv, Books, Written
  <2>9. WriterApart' BY <1>6, <1>13, <2>2, <2>3 DEF WriterInv, Books, WriterApart, Seen
  <2>10. Hist!InOrder'
    <3>1. \A t \in Hist!ToSet(table) : t[1] = x[1] => t[2] < x[2] BY <1>3, <1>5 DEF Seen
    <3> QED BY <1>3, <1>9, <1>13, <2>1, <3>1, StaysInOrder DEF WriterInv, Books
  <2>11. Hist!Drained' BY <1>1, <1>13 DEF WriterInv, Hist!Drained
  <2> QED BY <1>7, <2>4, <2>5, <2>6, <2>8, <2>9, <2>10, <2>11 DEF WriterInv, Books
<1> QED BY <1>1, <1>11, <1>12, <1>13 DEF Hist!Enqueued, Hist!Insert

\* The process dies: what was on its way is lost, and nothing else.
LEMMA WriterCrashStep ==
  ASSUME historyQueueSize \in Nat, MaxMessages \in Nat, WriterInv, Hist!Crash
  PROVE  WriterInv'
<1> DEFINE holding == {s \in Routers : router[s].at = "asked"}
           held == {<<r, arrived[r]>> : r \in holding}
<1>1. /\ started' = FALSE /\ stopCh' = FALSE /\ worker' = "off" /\ queue' = <<>> /\ taken' = <<>>
      /\ router' = [r \in Routers |-> Hist!Idle] /\ stopper' = "no" /\ closed' = FALSE
      /\ lost' = lost \cup Hist!ToSet(queue) \cup Hist!ToSet(taken) \cup held
      /\ UNCHANGED <<arrived, saveSysTopics, table, late, direct>>
  BY DEF Hist!Crash
<1>2. Hist!ToSet(queue') = {} /\ Hist!ToSet(taken') = {} BY <1>1, SetOfNone
<1>3. Hist!Underway' = {} /\ Seen' = Seen \cup held BY <1>1, <1>2 DEF Hist!Underway, Seen
<1>4. arrived \in [Routers -> 0..MaxMessages] BY DEF WriterInv, WriterShapes, Readers
<1>5. held \subseteq Hist!Records
  <2> SUFFICES ASSUME NEW r \in holding PROVE <<r, arrived[r]>> \in Hist!Records
    OBVIOUS
  <2> QED BY <1>4 DEF WriterInv, WriterShapes, Readers, Hist!Records
<1>6. Seen \subseteq Hist!Records BY SeenTyped DEF WriterInv
<1>7. held \cap Seen = {}
  <2> SUFFICES ASSUME NEW r \in holding, <<r, arrived[r]>> \in Seen PROVE FALSE
    OBVIOUS
  <2>1. HandedOver(<<r, arrived[r]>>) BY DEF WriterInv, Books, Past
  <2>2. arrived[r] < arrived[r] BY <2>1 DEF HandedOver
  <2> QED BY <1>4, <2>2
<1>8. WriterShapes'
  <2>1. Channels' BY <1>1 DEF Channels
  <2>2. Fates' BY <1>1, <1>5, <1>6 DEF WriterInv, WriterShapes, Fates, Seen, Hist!Underway
  <2>3. Readers' BY <1>1, <1>4 DEF Readers, Hist!Idle
  <2> QED BY <2>1, <2>2, <2>3 DEF WriterShapes
<1>9. Past'
  <2> SUFFICES ASSUME NEW q \in Seen \cup held PROVE HandedOver(q)'
    BY <1>3 DEF Past
  <2>1. q[1] \in Routers BY <1>5, <1>6 DEF Hist!Records
  <2>2. router'[q[1]].at # "asked" BY <1>1, <2>1 DEF Hist!Idle
  <2>3. q[2] <= arrived'[q[1]]
    <3>1. CASE q \in Seen BY <1>1, <3>1 DEF WriterInv, Books, Past, HandedOver
    <3>2. CASE q \in held
      <4>1. PICK r \in Routers : q = <<r, arrived[r]>> BY <3>2
      <4> QED BY <1>1, <1>4, <4>1
    <3> QED BY <3>1, <3>2
  <2> QED BY <2>2, <2>3 DEF HandedOver
<1>10. Queued' /\ TakenFirst' /\ Written' BY <1>1, <1>2, <1>3 DEF Queued, TakenFirst, Written
<1>11. WriterApart' BY <1>1, <1>3, <1>7 DEF WriterInv, Books, WriterApart, Seen, Hist!Underway
<1>12. Hist!InOrder' BY <1>1 DEF WriterInv, Books, Hist!InOrder
<1>13. Control' BY <1>1 DEF WriterInv, Control
<1>14. Hist!Drained' BY <1>1 DEF Hist!Drained
<1> QED BY <1>8, <1>9, <1>10, <1>11, <1>12, <1>13, <1>14 DEF WriterInv, Books

-----------------------------------------------------------------------------
LEMMA WriterInvariant ==
  ASSUME historyQueueSize \in Nat, MaxMessages \in Nat
  PROVE  Hist!Spec => []WriterInv
<1>1. Hist!Init => WriterInv BY WriterStarts
<1>2. WriterInv /\ [Hist!Next]_(Hist!vars) => WriterInv'
  BY LifeStep, WriterTakeStep, InsertedStep, ArriveStep, HandOverStep, WriterCrashStep DEF Hist!Next
<1> QED BY <1>1, <1>2, PTL DEF Hist!Spec

(* TypeOK holds for any number of routers and messages: the queue keeps    *)
(* its size, and nobody waits for a worker that was not told to stop       *)
(* (mqtt/registry.go, StopHistoryWriter).                                  *)
THEOREM WriterTyped ==
  ASSUME historyQueueSize \in Nat, MaxMessages \in Nat
  PROVE  Hist!Spec => []Hist!TypeOK
<1>1. WriterInv => Hist!TypeOK
  <2> SUFFICES ASSUME WriterInv PROVE Hist!TypeOK
    OBVIOUS
  <2>1. Hist!ToSet(table) \subseteq Hist!Records BY SetTyped DEF WriterInv, WriterShapes, Fates
  <2>2. Hist!ToSet(table) \cup lost \cup late \cup direct \subseteq Hist!Records
    BY <2>1 DEF WriterInv, WriterShapes, Fates
  <2> QED BY <2>2 DEF WriterInv, Control, WriterShapes, Channels, Readers, Hist!TypeOK
<1> QED BY <1>1, WriterInvariant, PTL

(* InOrder holds for any routers, with crashes and stops anywhere: what a  *)
(* broker's connection brought is in the table once and in its order, but  *)
(* for what its router wrote itself (mqtt/registry.go, writeHistory).      *)
THEOREM WrittenInOrder ==
  ASSUME historyQueueSize \in Nat, MaxMessages \in Nat
  PROVE  Hist!Spec => []Hist!InOrder
<1>1. WriterInv => Hist!InOrder BY DEF WriterInv, Books
<1> QED BY <1>1, WriterInvariant, PTL

(* OnePlace holds: no message is both written and still to be written, or  *)
(* given up and kept, or queued twice (mqtt/registry.go, historyWorker).   *)
THEOREM NothingTwice ==
  ASSUME historyQueueSize \in Nat, MaxMessages \in Nat
  PROVE  Hist!Spec => []Hist!OnePlace
<1>1. WriterInv => Hist!OnePlace
  <2> SUFFICES ASSUME WriterInv PROVE Hist!OnePlace
    OBVIOUS
  <2>1. \A q \in Hist!Records : q[2] \in Nat /\ ~(q[2] < q[2]) BY DEF Hist!Records
  <2>2. Hist!ToSet(queue) \subseteq Hist!Records BY SetTyped DEF WriterInv, WriterShapes, Channels
  <2>3. Hist!ToSet(queue) \cap Hist!ToSet(taken) = {}
    BY <2>1, <2>2 DEF WriterInv, Books, TakenFirst
  <2>4. Hist!IsInjective(queue)
    <3> SUFFICES ASSUME NEW i \in DOMAIN queue, NEW j \in DOMAIN queue,
                        queue[i] = queue[j], i # j
                 PROVE  FALSE
      BY DEF Hist!IsInjective
    <3>1. i \in Nat /\ j \in Nat /\ queue[i] \in Hist!Records BY DEF WriterInv, WriterShapes, Channels
    <3>2. i < j \/ j < i BY <3>1
    <3>3. queue[i][2] < queue[i][2] BY <3>2 DEF WriterInv, Books, Queued
    <3> QED BY <2>1, <3>1, <3>3
  <2> QED BY <2>3, <2>4 DEF WriterInv, Books, WriterApart, Hist!OnePlace
<1> QED BY <1>1, WriterInvariant, PTL

(* Drained holds: a worker that has ended leaves nothing behind but what   *)
(* was queued after the stop (mqtt/registry.go, historyWorker).            *)
THEOREM StopLeavesNothing ==
  ASSUME historyQueueSize \in Nat, MaxMessages \in Nat
  PROVE  Hist!Spec => []Hist!Drained
<1>1. WriterInv => Hist!Drained BY DEF WriterInv
<1> QED BY <1>1, WriterInvariant, PTL

-----------------------------------------------------------------------------
(* McpSwitch.                                                                *)
(*                                                                           *)
(* A closed channel has left the map (SessionChannels), the server that is   *)
(* off let in only streams that straddled the closing (LetIn), and a request *)
(* that is alone leads row and copies in step (Alone).                       *)

(* What was closed was in the map, and a stream that leaves while it is     *)
(* there lost its client.                                                   *)
SessionChannels ==
    /\ closed \subseteq {s \in Streams : stream[s] \in {"open", "leaving", "ended"}}
    /\ \A s \in sessions : stream[s] = "leaving" => s \in gone
    /\ Mcp!NoSendOnClosed

(* Somebody is about to close the sessions. *)
Closing == reset = "close" \/ \E q \in requests : q.step = "close"
(* With the server off and nobody about to close, who is in or on the way   *)
(* in was on the way in when sessions were last closed.                     *)
LetIn == ~enabled /\ ~Closing => \A s \in Streams : s \in sessions \/ stream[s] = "admitted" => s \in straddling

(* A stream whose answer was accepted is known. *)
Answers ==
    /\ \A m \in accepted : stream[m.stream] # "new"
    /\ Mcp!AcceptedArrives

SInv == Mcp!TypeOK /\ SessionChannels /\ LetIn /\ Answers

-----------------------------------------------------------------------------
(* The copies, along the one request or the reset that is under way.        *)
SysAgrees == saveSysTopics = stored.sys \/ dropped
McpAgrees == enabled = stored.mcp \/ (unread /\ enabled)
Agree == McpAgrees /\ SysAgrees
Keeps(q) == q.row.mcp = stored.mcp \/ (q.blind /\ ~q.row.mcp)
BeforeRow(q) == Agree /\ (q.step = "update" /\ Mcp!AfterSys(q) = "done" => Keeps(q))
AlongRow(q) ==
    /\ q.step \in {"read", "update"} => BeforeRow(q)
    /\ q.step = "sys" => stored = q.row /\ (Mcp!AfterSys(q) = "done" => McpAgrees)
    /\ q.step = "mcp" => stored = q.row /\ SysAgrees
    /\ q.step = "close" => Agree
Alone ==
    ~overlapped =>
        /\ \A q, p \in requests : q = p
        /\ requests # {} => reset = "idle"
        /\ \A q \in requests : AlongRow(q)
        /\ Mcp!Quiet => Agree
        /\ reset # "idle" => ~stored.mcp /\ SysAgrees
        /\ reset = "close" => ~enabled
SwitchInv == SInv /\ Alone

-----------------------------------------------------------------------------
(* The parts of the state that a step of one half leaves alone.             *)
SwitchRequests == [id : Nat, step : {"read", "update", "sys", "mcp", "close"}, put : BOOLEAN,
                   mcp : Mcp!Fields, sys : Mcp!Fields, blind : BOOLEAN, row : [mcp : BOOLEAN, sys : BOOLEAN]]
SettingsOK ==
    /\ stored \in [mcp : BOOLEAN, sys : BOOLEAN] /\ enabled \in BOOLEAN /\ saveSysTopics \in BOOLEAN
    /\ reset \in {"idle", "store", "close"} /\ requests \subseteq SwitchRequests
CountsOK == counts \in [{"requests", "messages", "resets", "restarts"} -> Nat]
SessionsOK ==
    /\ stream \in [Streams -> {"new", "admitted", "open", "leaving", "ended"}]
    /\ sessions \subseteq {s \in Streams : stream[s] \in {"open", "leaving"}}
    /\ channel \in [Streams -> Seq(Nat)] /\ \A s \in Streams : Len(channel[s]) <= queueSize
    /\ messages \cup accepted \subseteq [stream : Streams, number : Nat]

LEMMA Parts == Mcp!TypeOK <=> SettingsOK /\ CountsOK /\ SessionsOK
BY DEF Mcp!TypeOK, SettingsOK, CountsOK, SessionsOK, SwitchRequests

LEMMA Fielded == \A v \in Mcp!Fields, old \in BOOLEAN : Mcp!Or(v, old) \in BOOLEAN
<1> SUFFICES ASSUME NEW v \in Mcp!Fields, NEW old \in BOOLEAN PROVE Mcp!Or(v, old) \in BOOLEAN
  OBVIOUS
<1>1. (TRUE \in v) \in BOOLEAN OBVIOUS
<1>2. CASE Mcp!Here(v) BY <1>1, <1>2 DEF Mcp!Or
<1>3. CASE ~Mcp!Here(v) BY <1>3 DEF Mcp!Or
<1> QED BY <1>2, <1>3

\* A step of a request on the row or on a copy: sessions are left alone.
LEMMA SessionsKept ==
  ASSUME SInv, UNCHANGED <<Mcp!traffic, sessions, closed, straddling>>, SettingsOK', CountsOK',
         ~enabled' /\ ~Closing' => ~enabled /\ ~Closing
  PROVE  SInv'
<1>1. SessionsOK' BY Parts DEF SInv, SessionsOK, Mcp!traffic
<1>2. SessionChannels' BY DEF SInv, SessionChannels, Mcp!NoSendOnClosed, Mcp!traffic
<1>3. LetIn' BY DEF SInv, LetIn, Mcp!traffic
<1>4. Answers' BY DEF SInv, Answers, Mcp!AcceptedArrives, Mcp!traffic
<1>5. Mcp!TypeOK' BY <1>1, Parts DEF Mcp!TypeOK, SettingsOK, CountsOK, SessionsOK, SwitchRequests
<1> QED BY <1>2, <1>3, <1>4, <1>5 DEF SInv

LEMMA Typed ==
  ASSUME NEW q \in SwitchRequests, NEW s \in {"read", "update", "sys", "mcp", "close"}
  PROVE  /\ [q EXCEPT !.step = s] \in SwitchRequests
         /\ [q EXCEPT !.step = s].step = s /\ [q EXCEPT !.step = s].row = q.row
         /\ [q EXCEPT !.step = s].blind = q.blind
         /\ Mcp!AfterSys([q EXCEPT !.step = s]) = Mcp!AfterSys(q)
BY DEF SwitchRequests, Mcp!AfterSys, Mcp!Here

\* A request comes, which is the only one or is excused.
LEMMA RequestStep ==
  ASSUME SwitchInv, NEW kind \in {"put", "patch"}, NEW m \in Mcp!Fields, NEW y \in Mcp!Fields, Mcp!Request(kind, m, y)
  PROVE  SwitchInv'
<1>0. PICK q : q = [id |-> counts.requests, step |-> IF kind = "put" THEN "update" ELSE "read",
                    put |-> kind = "put", mcp |-> m, sys |-> y, blind |-> FALSE, row |-> [mcp |-> Mcp!Or(m, FALSE), sys |-> Mcp!Or(y, FALSE)]]
  OBVIOUS
<1>1. SettingsOK /\ CountsOK BY Parts DEF SwitchInv, SInv
<1>2. q \in SwitchRequests
  <2>1. Mcp!Or(m, FALSE) \in BOOLEAN /\ Mcp!Or(y, FALSE) \in BOOLEAN BY Fielded
  <2>2. counts.requests \in Nat BY <1>1 DEF CountsOK
  <2> QED BY <1>0, <2>1, <2>2 DEF SwitchRequests
<1>3. requests' = requests \cup {q} BY <1>0 DEF Mcp!Request
<1>4. SettingsOK' BY <1>1, <1>2, <1>3 DEF Mcp!Request, SettingsOK
<1>5. CountsOK' BY <1>1 DEF CountsOK, Mcp!Request, Mcp!Spend
<1>6. ~Closing' => ~Closing BY <1>3 DEF Closing, Mcp!Request
<1>7. SInv' BY <1>4, <1>5, <1>6, SessionsKept DEF SwitchInv, Mcp!Request
<1>8. Alone'
  <2> SUFFICES ASSUME ~overlapped' PROVE Alone'
    BY DEF Alone
  <2>1. ~overlapped /\ requests = {} /\ reset = "idle" BY DEF Mcp!Request
  <2>2. Agree /\ requests' = {q} BY <2>1, <1>3 DEF SwitchInv, Alone, Mcp!Quiet
  <2>3. Agree' BY <2>2 DEF Agree, McpAgrees, SysAgrees, Mcp!Request
  <2>4. q.step \in {"read", "update"} /\ (q.step = "update" => Mcp!AfterSys(q) # "done")
    BY <1>0 DEF Mcp!AfterSys
  <2>5. AlongRow(q)' BY <2>3, <2>4 DEF AlongRow, BeforeRow
  <2> QED BY <2>1, <2>2, <2>3, <2>5 DEF Alone, Mcp!Quiet, Mcp!Request
<1> QED BY <1>7, <1>8 DEF SwitchInv

\* The request reads the row, or fails to and takes the defaults.
LEMMA RowReadStep ==
  ASSUME SwitchInv, NEW q \in requests, Mcp!Read(q)
  PROVE  SwitchInv'
<1>0. PICK old \in {stored, Mcp!Defaults} :
          requests' = (requests \ {q}) \cup
              {[q EXCEPT !.step = "update", !.row = [mcp |-> Mcp!Or(q.mcp, old.mcp), sys |-> Mcp!Or(q.sys, old.sys)],
                         !.blind = ~Mcp!Here(q.mcp) /\ old.mcp # stored.mcp]}
  BY DEF Mcp!Read
<1>p. PICK p : p = [q EXCEPT !.step = "update", !.row = [mcp |-> Mcp!Or(q.mcp, old.mcp), sys |-> Mcp!Or(q.sys, old.sys)],
                              !.blind = ~Mcp!Here(q.mcp) /\ old.mcp # stored.mcp]
  OBVIOUS
<1>1. SettingsOK /\ CountsOK /\ q \in SwitchRequests BY Parts DEF SwitchInv, SInv, SettingsOK
<1>2. old.mcp \in BOOLEAN /\ old.sys \in BOOLEAN /\ (old.mcp = stored.mcp \/ ~old.mcp)
  <2>1. CASE old = stored BY <1>1, <2>1 DEF SettingsOK
  <2>2. CASE old = Mcp!Defaults
    <3>1. old.mcp = FALSE /\ old.sys = FALSE BY <2>2 DEF Mcp!Defaults
    <3> QED BY <3>1
  <2> QED BY <2>1, <2>2
<1>3. p \in SwitchRequests
  <2>1. Mcp!Or(q.mcp, old.mcp) \in BOOLEAN /\ Mcp!Or(q.sys, old.sys) \in BOOLEAN
    BY <1>1, <1>2, Fielded DEF SwitchRequests
  <2>2. (~Mcp!Here(q.mcp) /\ old.mcp # stored.mcp) \in BOOLEAN OBVIOUS
  <2> QED BY <1>1, <1>p, <2>1, <2>2 DEF SwitchRequests
<1>4. /\ p.step = "update" /\ p.row.mcp = Mcp!Or(q.mcp, old.mcp) /\ Mcp!AfterSys(p) = Mcp!AfterSys(q)
      /\ p.blind = (~Mcp!Here(q.mcp) /\ old.mcp # stored.mcp)
  BY <1>1, <1>p DEF SwitchRequests, Mcp!AfterSys
<1>5. Mcp!AfterSys(p) = "done" => Keeps(p)
  <2> SUFFICES ASSUME Mcp!AfterSys(q) = "done" PROVE Keeps(p)
    BY <1>4
  <2>1. ~Mcp!Here(q.mcp) BY DEF Mcp!AfterSys
  <2>2. p.row.mcp = old.mcp BY <1>4, <2>1 DEF Mcp!Or
  <2> QED BY <1>2, <1>4, <2>1, <2>2 DEF Keeps
<1>6. requests' = (requests \ {q}) \cup {p} /\ q.step = "read" BY <1>0, <1>p DEF Mcp!Read
<1>7. SettingsOK' BY <1>1, <1>3, <1>6 DEF Mcp!Read, SettingsOK
<1>8. CountsOK' BY <1>1 DEF CountsOK, Mcp!Read
<1>9. ~Closing' => ~Closing BY <1>6 DEF Closing, Mcp!Read
<1>10. SInv' BY <1>7, <1>8, <1>9, SessionsKept DEF SwitchInv, Mcp!Read
<1>11. Alone'
  <2> SUFFICES ASSUME ~overlapped' PROVE Alone'
    BY DEF Alone
  <2>1. ~overlapped /\ requests = {q} /\ reset = "idle" BY DEF Mcp!Read, SwitchInv, Alone
  <2>2. Agree /\ requests' = {p} BY <2>1, <1>6 DEF SwitchInv, Alone, AlongRow, BeforeRow
  <2>3. Agree' BY <2>2 DEF Agree, McpAgrees, SysAgrees, Mcp!Read
  <2>4. stored' = stored BY DEF Mcp!Read
  <2>5. AlongRow(p)' BY <2>3, <2>4, <1>4, <1>5 DEF AlongRow, BeforeRow, Keeps
  <2> QED BY <2>1, <2>2, <2>3, <2>5, <1>4 DEF Alone, Mcp!Quiet, Mcp!Read
<1> QED BY <1>10, <1>11 DEF SwitchInv

\* A request that ends, or goes on to another step.
LEMMA Onwards ==
  ASSUME SettingsOK, NEW q \in requests, NEW s \in {"read", "update", "sys", "mcp", "close"},
         Mcp!To(q, s) \/ Mcp!Done(q)
  PROVE  requests' \subseteq SwitchRequests
<1>1. q \in SwitchRequests /\ requests \subseteq SwitchRequests BY DEF SettingsOK
<1>2. [q EXCEPT !.step = s] \in SwitchRequests BY <1>1, Typed
<1> QED BY <1>1, <1>2 DEF Mcp!To, Mcp!Done

\* With nothing overlapping, the request under way is the only thing that is.
LEMMA Only ==
  ASSUME SwitchInv, ~overlapped, NEW q \in requests
  PROVE  requests = {q} /\ reset = "idle" /\ AlongRow(q)
BY DEF SwitchInv, Alone

\* The row is written, or that fails and the request is over.
LEMMA UpdateStep ==
  ASSUME SwitchInv, NEW q \in requests, Mcp!Update(q)
  PROVE  SwitchInv'
<1>1. SettingsOK /\ CountsOK /\ q \in SwitchRequests BY Parts DEF SwitchInv, SInv, SettingsOK
<1>2. requests' \subseteq SwitchRequests BY <1>1, Onwards DEF Mcp!Update
<1>3. SettingsOK' BY <1>1, <1>2 DEF Mcp!Update, SettingsOK, SwitchRequests
<1>4. CountsOK' BY <1>1 DEF CountsOK, Mcp!Update
<1>5. ~Closing' => ~Closing BY DEF Closing, Mcp!Update, Mcp!To, Mcp!Done
<1>6. SInv' BY <1>3, <1>4, <1>5, SessionsKept DEF SwitchInv, Mcp!Update
<1>7. Alone'
  <2> SUFFICES ASSUME ~overlapped' PROVE Alone'
    BY DEF Alone
  <2>1. requests = {q} /\ reset = "idle" /\ BeforeRow(q) BY Only DEF Mcp!Update, AlongRow
  <2>2. CASE stored' = stored /\ Mcp!Done(q)
    BY <2>1, <2>2 DEF Alone, Mcp!Quiet, Agree, McpAgrees, SysAgrees, BeforeRow, Mcp!Update, Mcp!Done
  <2>3. CASE stored' = q.row /\ Mcp!To(q, "sys")
    <3>1. PICK p : p = [q EXCEPT !.step = "sys"] OBVIOUS
    <3>2. p.step = "sys" /\ p.row = q.row /\ Mcp!AfterSys(p) = Mcp!AfterSys(q) BY <1>1, <3>1, Typed
    <3>3. requests' = {p} BY <2>1, <2>3, <3>1 DEF Mcp!To
    <3>4. Mcp!AfterSys(p) = "done" => McpAgrees'
      BY <1>1, <2>1, <2>3, <3>2 DEF BeforeRow, Keeps, Agree, McpAgrees, Mcp!Update, SettingsOK, SwitchRequests
    <3>5. AlongRow(p)' BY <2>1, <2>3, <3>2, <3>4 DEF AlongRow
    <3> QED BY <2>1, <3>3, <3>5 DEF Alone, Mcp!Quiet, Mcp!Update
  <2> QED BY <2>2, <2>3 DEF Mcp!Update
<1> QED BY <1>6, <1>7 DEF SwitchInv

\* The registry's copy.
LEMMA SysStep ==
  ASSUME SwitchInv, NEW q \in requests, Mcp!SetSaveSysTopics(q)
  PROVE  SwitchInv'
<1>1. SettingsOK /\ CountsOK /\ q \in SwitchRequests BY Parts DEF SwitchInv, SInv, SettingsOK
<1>2. requests' \subseteq SwitchRequests
  <2>1. Mcp!AfterSys(q) \in {"mcp", "done"} BY DEF Mcp!AfterSys
  <2> QED BY <1>1, <2>1, Onwards DEF Mcp!SetSaveSysTopics
<1>3. SettingsOK' BY <1>1, <1>2 DEF Mcp!SetSaveSysTopics, SettingsOK, SwitchRequests
<1>4. CountsOK' BY <1>1 DEF CountsOK, Mcp!SetSaveSysTopics
<1>5. ~Closing' => ~Closing BY DEF Closing, Mcp!SetSaveSysTopics, Mcp!To, Mcp!Done
<1>6. SInv' BY <1>3, <1>4, <1>5, SessionsKept DEF SwitchInv, Mcp!SetSaveSysTopics
<1>7. Alone'
  <2> SUFFICES ASSUME ~overlapped' PROVE Alone'
    BY DEF Alone
  <2>1. /\ requests = {q} /\ reset = "idle" /\ stored = q.row
        /\ Mcp!AfterSys(q) = "done" => McpAgrees
    BY Only DEF Mcp!SetSaveSysTopics, AlongRow
  <2>2. SysAgrees' BY <2>1 DEF SysAgrees, Mcp!SetSaveSysTopics
  <2>3. CASE Mcp!AfterSys(q) = "done"
    BY <2>1, <2>2, <2>3 DEF Alone, Mcp!Quiet, Agree, McpAgrees, Mcp!SetSaveSysTopics, Mcp!Done
  <2>4. CASE Mcp!AfterSys(q) = "mcp"
    <3>1. PICK p : p = [q EXCEPT !.step = "mcp"] OBVIOUS
    <3>2. p.step = "mcp" /\ p.row = q.row BY <1>1, <3>1, Typed
    <3>3. requests' = {p} BY <2>1, <2>4, <3>1 DEF Mcp!To, Mcp!SetSaveSysTopics
    <3>4. AlongRow(p)' BY <2>1, <2>2, <3>2 DEF AlongRow, Mcp!SetSaveSysTopics
    <3> QED BY <2>1, <3>3, <3>4 DEF Alone, Mcp!Quiet, Mcp!SetSaveSysTopics
  <2> QED BY <2>3, <2>4 DEF Mcp!AfterSys
<1> QED BY <1>6, <1>7 DEF SwitchInv

\* The MCP server's copy; switched off, its sessions are still to be closed.
LEMMA EnabledStep ==
  ASSUME SwitchInv, NEW q \in requests, Mcp!SetEnabled(q)
  PROVE  SwitchInv'
<1>1. SettingsOK /\ CountsOK /\ q \in SwitchRequests BY Parts DEF SwitchInv, SInv, SettingsOK
<1>2. requests' \subseteq SwitchRequests BY <1>1, Onwards DEF Mcp!SetEnabled
<1>3. enabled' = q.row.mcp /\ q.row.mcp \in BOOLEAN BY <1>1 DEF Mcp!SetEnabled, Mcp!Store, SwitchRequests
<1>4. SettingsOK' BY <1>1, <1>2, <1>3 DEF Mcp!SetEnabled, SettingsOK
<1>5. CountsOK' BY <1>1 DEF CountsOK, Mcp!SetEnabled
<1>6. PICK p : p = [q EXCEPT !.step = "close"] OBVIOUS
<1>7. p.step = "close" BY <1>1, <1>6, Typed
<1>8. ~q.row.mcp => requests' = (requests \ {q}) \cup {p} BY <1>6 DEF Mcp!SetEnabled, Mcp!To
<1>9. enabled' \/ Closing' BY <1>3, <1>7, <1>8 DEF Closing
<1>10. SInv' BY <1>4, <1>5, <1>9, SessionsKept DEF SwitchInv, Mcp!SetEnabled, Mcp!Store
<1>11. Alone'
  <2> SUFFICES ASSUME ~overlapped' PROVE Alone'
    BY DEF Alone
  <2>1. requests = {q} /\ reset = "idle" /\ stored = q.row /\ SysAgrees
    BY Only DEF Mcp!SetEnabled, AlongRow
  <2>2. Agree' BY <1>3, <2>1 DEF Agree, McpAgrees, SysAgrees, Mcp!SetEnabled
  <2>3. requests' = IF q.row.mcp THEN {} ELSE {p} BY <1>8, <2>1 DEF Mcp!SetEnabled, Mcp!Done
  <2>4. AlongRow(p)' BY <1>7, <2>2 DEF AlongRow
  <2> QED BY <2>1, <2>2, <2>3, <2>4 DEF Alone, Mcp!Quiet, Mcp!SetEnabled
<1> QED BY <1>10, <1>11 DEF SwitchInv

\* All sessions are closed: nobody is in, and who is on the way in is known.
LEMMA AllClosed ==
  ASSUME SInv, Mcp!CloseAllSessions, UNCHANGED <<Mcp!traffic, enabled>>, SettingsOK', CountsOK'
  PROVE  SInv'
<1> USE DEF Mcp!CloseAllSessions, Mcp!Removed, Mcp!Straddles, Mcp!traffic
<1>1. SessionsOK /\ sessions \subseteq Streams BY Parts DEF SInv, SessionsOK
<1>2. sessions' = {} /\ closed' = closed \cup sessions BY <1>1
<1>3. SessionsOK' BY <1>1, <1>2 DEF SessionsOK
<1>4. SessionChannels'
  <2>1. closed' \subseteq {s \in Streams : stream'[s] \in {"open", "leaving", "ended"}}
    BY <1>1, <1>2 DEF SInv, SessionChannels, SessionsOK
  <2> QED BY <1>2, <2>1 DEF SessionChannels, Mcp!NoSendOnClosed
<1>5. LetIn' BY <1>2 DEF LetIn
<1>6. Answers' BY DEF SInv, Answers, Mcp!AcceptedArrives
<1>7. Mcp!TypeOK' BY <1>3, Parts DEF Mcp!TypeOK, SettingsOK, CountsOK, SessionsOK, SwitchRequests
<1> QED BY <1>4, <1>5, <1>6, <1>7 DEF SInv

LEMMA SwitchCloseStep ==
  ASSUME SwitchInv, NEW q \in requests, Mcp!CloseSessions(q)
  PROVE  SwitchInv'
<1>1. SettingsOK /\ CountsOK BY Parts DEF SwitchInv, SInv
<1>2. SettingsOK' /\ CountsOK' BY <1>1 DEF SettingsOK, CountsOK, Mcp!CloseSessions, Mcp!Done
<1>3. SInv' BY <1>2, AllClosed DEF SwitchInv, Mcp!CloseSessions
<1>4. Alone'
  <2> SUFFICES ASSUME ~overlapped' PROVE Alone'
    BY DEF Alone
  <2>1. requests = {q} /\ reset = "idle" /\ Agree BY Only DEF Mcp!CloseSessions, AlongRow
  <2> QED BY <2>1 DEF Alone, Mcp!Quiet, Agree, McpAgrees, SysAgrees, Mcp!CloseSessions, Mcp!Done
<1> QED BY <1>3, <1>4 DEF SwitchInv

\* The demo's reset: the row, the copy, the sessions.
LEMMA ResetSteps ==
  ASSUME SwitchInv, (\E seeded \in Mcp!Fields : Mcp!ResetRow(seeded)) \/ Mcp!ResetStore \/ Mcp!ResetClose
  PROVE  SwitchInv'
<1>1. SettingsOK /\ CountsOK BY Parts DEF SwitchInv, SInv
<1>2. ASSUME NEW seeded \in Mcp!Fields, Mcp!ResetRow(seeded) PROVE SwitchInv'
  <2>1. stored' \in [mcp : BOOLEAN, sys : BOOLEAN] /\ ~stored'.mcp
    <3>1. Mcp!Or(seeded, FALSE) \in BOOLEAN BY Fielded
    <3> QED BY <1>2, <3>1 DEF Mcp!ResetRow
  <2>2. SettingsOK' BY <1>1, <1>2, <2>1 DEF Mcp!ResetRow, SettingsOK
  <2>3. CountsOK' BY <1>1, <1>2 DEF CountsOK, Mcp!ResetRow, Mcp!Spend
  <2>4. ~Closing' => ~Closing BY <1>2 DEF Closing, Mcp!ResetRow
  <2>5. SInv' BY <1>2, <2>2, <2>3, <2>4, SessionsKept DEF SwitchInv, Mcp!ResetRow
  <2>6. Alone' BY <1>2, <2>1 DEF SwitchInv, Alone, Mcp!Quiet, SysAgrees, Mcp!ResetRow
  <2> QED BY <2>5, <2>6 DEF SwitchInv
<1>3. CASE Mcp!ResetStore
  <2>1. SettingsOK' /\ CountsOK' BY <1>1, <1>3 DEF SettingsOK, CountsOK, Mcp!ResetStore, Mcp!Store
  <2>2. Closing' BY <1>3 DEF Closing, Mcp!ResetStore
  <2>3. SInv' BY <1>3, <2>1, <2>2, SessionsKept DEF SwitchInv, Mcp!ResetStore, Mcp!Store
  <2>4. Alone' BY <1>3 DEF SwitchInv, Alone, Mcp!Quiet, SysAgrees, Mcp!ResetStore, Mcp!Store
  <2> QED BY <2>3, <2>4 DEF SwitchInv
<1>4. CASE Mcp!ResetClose
  <2>1. SettingsOK' /\ CountsOK' BY <1>1, <1>4 DEF SettingsOK, CountsOK, Mcp!ResetClose
  <2>2. SInv' BY <1>4, <2>1, AllClosed DEF SwitchInv, Mcp!ResetClose
  <2>3. Alone'
    <3> SUFFICES ASSUME ~overlapped' PROVE Alone'
      BY DEF Alone
    <3>1. requests = {} /\ ~stored.mcp /\ ~enabled /\ SysAgrees
      BY <1>4 DEF SwitchInv, Alone, Mcp!ResetClose
    <3>2. enabled = stored.mcp BY <1>1, <3>1 DEF SettingsOK
    <3> QED BY <1>4, <3>1, <3>2 DEF Alone, Mcp!Quiet, Agree, McpAgrees, SysAgrees, Mcp!ResetClose
  <2> QED BY <2>2, <2>3 DEF SwitchInv
<1> QED BY <1>2, <1>3, <1>4

\* A restart makes the copies anew and cuts every client off.
LEMMA RestartStep ==
  ASSUME queueSize \in Nat, SwitchInv, NEW seeded \in Mcp!Fields, NEW flag \in BOOLEAN, Mcp!Restart(seeded, flag)
  PROVE  SwitchInv'
<1>1. SettingsOK /\ CountsOK /\ SessionsOK BY Parts DEF SwitchInv, SInv
<1>2. stored' \in [mcp : BOOLEAN, sys : BOOLEAN]
  <2>1. Mcp!Or(seeded, stored.sys) \in BOOLEAN BY <1>1, Fielded DEF SettingsOK
  <2>2. (stored.mcp \/ flag) \in BOOLEAN OBVIOUS
  <2> QED BY <2>1, <2>2 DEF Mcp!Restart
<1>3. enabled' = stored'.mcp /\ saveSysTopics' = stored'.sys BY DEF Mcp!Restart
<1>4. SettingsOK' BY <1>2, <1>3 DEF Mcp!Restart, SettingsOK
<1>5. CountsOK' BY <1>1 DEF CountsOK, Mcp!Restart, Mcp!Spend
<1>6. SessionsOK' BY <1>1 DEF Mcp!Restart, SessionsOK
<1>7. SessionChannels' /\ LetIn'
  BY <1>1 DEF Mcp!Restart, SessionChannels, Mcp!NoSendOnClosed, LetIn, SessionsOK
<1>8. Answers'
  <2>1. ASSUME NEW m \in accepted PROVE m.stream \in Streams /\ stream[m.stream] # "new"
    BY <1>1 DEF SwitchInv, SInv, Answers, SessionsOK
  <2>2. \A m \in accepted : stream'[m.stream] # "new" /\ m.stream \in gone'
    BY <2>1 DEF Mcp!Restart
  <2> QED BY <2>2 DEF Answers, Mcp!AcceptedArrives, Mcp!Restart
<1>9. Mcp!TypeOK' BY <1>4, <1>5, <1>6, Parts DEF Mcp!TypeOK, SettingsOK, CountsOK, SessionsOK, SwitchRequests
<1>10. Alone' BY <1>3 DEF Mcp!Restart, Alone, Mcp!Quiet, Agree, McpAgrees, SysAgrees
<1> QED BY <1>7, <1>8, <1>9, <1>10 DEF SwitchInv, SInv

-----------------------------------------------------------------------------
(* Streams and messages.                                                    *)

\* A step of a stream or a message leaves the settings alone.
LEMMA SettingsKept ==
  ASSUME SwitchInv, UNCHANGED Mcp!settings, CountsOK', SessionsOK', SessionChannels', LetIn', Answers'
  PROVE  SwitchInv'
<1>1. SettingsOK' BY Parts DEF SwitchInv, SInv, SettingsOK, Mcp!settings
<1>2. Mcp!TypeOK' BY <1>1, Parts DEF Mcp!TypeOK, SettingsOK, CountsOK, SessionsOK, SwitchRequests
<1>3. Alone' BY DEF SwitchInv, Alone, Mcp!Quiet, Agree, McpAgrees, SysAgrees, AlongRow, BeforeRow, Keeps, Mcp!settings
<1> QED BY <1>2, <1>3 DEF SwitchInv, SInv

\* The way of a stream in.
LEMMA AdmitStep ==
  ASSUME SwitchInv, NEW s \in Streams, Mcp!Admit(s) \/ Mcp!Register(s)
  PROVE  SwitchInv'
<1>1. SessionsOK /\ CountsOK BY Parts DEF SwitchInv, SInv
<1>2. SessionsOK' /\ CountsOK' BY <1>1 DEF Mcp!Admit, Mcp!Register, SessionsOK, CountsOK
<1>3. SessionChannels'
  BY <1>1 DEF SwitchInv, SInv, SessionChannels, Mcp!NoSendOnClosed, Mcp!Admit, Mcp!Register, SessionsOK
<1>4. LetIn'
  BY <1>1 DEF SwitchInv, SInv, LetIn, Closing, Mcp!Admit, Mcp!Register, SessionsOK, Mcp!settings
<1>5. Answers'
  BY <1>1 DEF SwitchInv, SInv, Answers, Mcp!AcceptedArrives, Mcp!Admit, Mcp!Register, SessionsOK
<1> QED BY <1>2, <1>3, <1>4, <1>5, SettingsKept DEF Mcp!Admit, Mcp!Register

\* The first answer of a channel is written, or its client has gone.
LEMMA DeliverStep ==
  ASSUME queueSize \in Nat, SwitchInv, NEW s \in Streams, Mcp!Deliver(s)
  PROVE  SwitchInv'
<1>1. SessionsOK /\ CountsOK BY Parts DEF SwitchInv, SInv
<1>2. channel[s] \in Seq(Nat) /\ channel[s] # <<>> /\ Len(channel[s]) <= queueSize
  BY <1>1 DEF Mcp!Deliver, SessionsOK
<1>3. Tail(channel[s]) \in Seq(Nat) /\ Len(Tail(channel[s])) <= queueSize BY <1>2
<1>4. \A n : n \in Mcp!ToSet(channel[s]) => n = Head(channel[s]) \/ n \in Mcp!ToSet(Tail(channel[s]))
  <2> SUFFICES ASSUME NEW i \in DOMAIN channel[s], i # 1
               PROVE  channel[s][i] \in Mcp!ToSet(Tail(channel[s]))
    BY <1>2 DEF Mcp!ToSet
  <2>1. i - 1 \in DOMAIN Tail(channel[s]) /\ Tail(channel[s])[i - 1] = channel[s][i] BY <1>2
  <2> QED BY <2>1 DEF Mcp!ToSet
<1>5. SessionsOK' /\ CountsOK' BY <1>1, <1>3 DEF Mcp!Deliver, SessionsOK, CountsOK
<1>6. SessionChannels' /\ LetIn'
  BY DEF SwitchInv, SInv, SessionChannels, Mcp!NoSendOnClosed, LetIn, Closing, Mcp!Deliver, Mcp!settings
<1>7. Answers'
  <2>1. ASSUME NEW m \in accepted
        PROVE  m.stream \in gone \/ m.number \in delivered'
               \/ (m.number \in Mcp!ToSet(channel'[m.stream]) /\ stream[m.stream] = "open")
    <3>1. m.stream \in Streams BY <1>1 DEF SessionsOK
    <3>2. CASE m.stream = s
      BY <1>1, <1>4, <3>2 DEF SwitchInv, SInv, Answers, Mcp!AcceptedArrives, Mcp!Deliver, SessionsOK
    <3>3. CASE m.stream # s
      BY <1>1, <3>1, <3>3 DEF SwitchInv, SInv, Answers, Mcp!AcceptedArrives, Mcp!Deliver, SessionsOK
    <3> QED BY <3>2, <3>3
  <2> QED BY <2>1 DEF SwitchInv, SInv, Answers, Mcp!AcceptedArrives, Mcp!Deliver
<1> QED BY <1>5, <1>6, <1>7, SettingsKept DEF Mcp!Deliver

\* The way out: the stream returns, its client leaves, it is taken out of the map.
LEMMA LeaveStep ==
  ASSUME SwitchInv, NEW s \in Streams,
         Mcp!Returns(s) \/ Mcp!removeSession(s) \/ Mcp!ClientLeaves(s) \/ Mcp!HandleSessionDelete(s)
  PROVE  SwitchInv'
<1> USE DEF Mcp!Removed, Mcp!traffic, Mcp!Emptied
<1>1. SessionsOK /\ CountsOK BY Parts DEF SwitchInv, SInv
<1>2. SessionsOK' /\ CountsOK'
  BY <1>1 DEF Mcp!Returns, Mcp!removeSession, Mcp!ClientLeaves, Mcp!HandleSessionDelete, SessionsOK, CountsOK
<1>3. SessionChannels'
  <2>1. closed' \subseteq {r \in Streams : stream'[r] \in {"open", "leaving", "ended"}}
    BY <1>1 DEF SwitchInv, SInv, SessionChannels, Mcp!Returns, Mcp!removeSession, Mcp!ClientLeaves, Mcp!HandleSessionDelete, SessionsOK
  <2>2. \A r \in sessions' : stream'[r] = "leaving" => r \in gone'
    BY <1>1 DEF SwitchInv, SInv, SessionChannels, Mcp!NoSendOnClosed, Mcp!Returns, Mcp!removeSession, Mcp!ClientLeaves, Mcp!HandleSessionDelete, SessionsOK
  <2>3. Mcp!NoSendOnClosed'
    BY DEF SwitchInv, SInv, SessionChannels, Mcp!NoSendOnClosed, Mcp!Returns, Mcp!removeSession, Mcp!ClientLeaves, Mcp!HandleSessionDelete
  <2> QED BY <2>1, <2>2, <2>3 DEF SessionChannels
<1>4. LetIn'
  <2>1. \A r \in Streams : r \in sessions' \/ stream'[r] = "admitted" => r \in sessions \/ stream[r] = "admitted"
    BY <1>1 DEF Mcp!Returns, Mcp!removeSession, Mcp!ClientLeaves, Mcp!HandleSessionDelete, SessionsOK
  <2>2. UNCHANGED <<Mcp!settings, straddling>>
    BY DEF Mcp!Returns, Mcp!removeSession, Mcp!ClientLeaves, Mcp!HandleSessionDelete
  <2> QED BY <2>1, <2>2 DEF SwitchInv, SInv, LetIn, Closing, Mcp!settings
<1>5. Answers'
  <2>1. \A m \in accepted : m.stream \in Streams BY <1>1 DEF SessionsOK
  <2>2. Mcp!ToSet(<<>>) = {} BY DEF Mcp!ToSet
  <2>3. CASE Mcp!Returns(s) \/ Mcp!removeSession(s)
    BY <1>1, <2>1, <2>2, <2>3 DEF SwitchInv, SInv, Answers, Mcp!AcceptedArrives, Mcp!Returns, Mcp!removeSession, SessionsOK
  <2>4. CASE Mcp!ClientLeaves(s) \/ Mcp!HandleSessionDelete(s)
    BY <2>4 DEF SwitchInv, SInv, Answers, Mcp!AcceptedArrives, Mcp!ClientLeaves, Mcp!HandleSessionDelete
  <2> QED BY <2>3, <2>4
<1>6. UNCHANGED Mcp!settings BY DEF Mcp!Returns, Mcp!removeSession, Mcp!ClientLeaves, Mcp!HandleSessionDelete
<1> QED BY <1>2, <1>3, <1>4, <1>5, <1>6, SettingsKept

LEMMA MessageStep ==
  ASSUME SwitchInv, NEW s \in Streams, Mcp!Message(s)
  PROVE  SwitchInv'
<1>1. SessionsOK /\ CountsOK BY Parts DEF SwitchInv, SInv
<1>2. counts.messages \in Nat BY <1>1 DEF CountsOK
<1>3. SessionsOK' BY <1>1, <1>2 DEF Mcp!Message, SessionsOK
<1>4. CountsOK' BY <1>1, <1>2 DEF Mcp!Message, Mcp!Spend, CountsOK
<1>5. SessionChannels' /\ LetIn' /\ Answers'
  BY DEF SwitchInv, SInv, SessionChannels, Mcp!NoSendOnClosed, LetIn, Closing, Answers, Mcp!AcceptedArrives, Mcp!Message, Mcp!settings
<1> QED BY <1>3, <1>4, <1>5, SettingsKept DEF Mcp!Message

\* Appending keeps what a sequence holds and adds one.
LEMMA AppendSet ==
  ASSUME NEW c \in Seq(Nat), NEW n \in Nat
  PROVE  Mcp!ToSet(c) \subseteq Mcp!ToSet(Append(c, n)) /\ n \in Mcp!ToSet(Append(c, n))
<1>1. Len(c) \in Nat /\ DOMAIN c = 1..Len(c) /\ DOMAIN Append(c, n) = 1..(Len(c) + 1)
  OBVIOUS
<1>2. \A i \in 1..Len(c) : i \in 1..(Len(c) + 1) /\ Append(c, n)[i] = c[i]
  OBVIOUS
<1>3. Len(c) + 1 \in 1..(Len(c) + 1) /\ Append(c, n)[Len(c) + 1] = n
  OBVIOUS
<1>4. Mcp!ToSet(c) \subseteq Mcp!ToSet(Append(c, n))
  <2> SUFFICES ASSUME NEW i \in DOMAIN c PROVE c[i] \in Mcp!ToSet(Append(c, n))
    BY DEF Mcp!ToSet
  <2> QED BY <1>1, <1>2, Zenon DEF Mcp!ToSet
<1>5. n \in Mcp!ToSet(Append(c, n)) BY <1>1, <1>3, Zenon DEF Mcp!ToSet
<1> QED BY <1>4, <1>5

\* An answer goes into a channel of the map, which is read until it is closed and empty.
LEMMA AnswerStep ==
  ASSUME queueSize \in Nat, SwitchInv, NEW m \in messages, Mcp!Answer(m)
  PROVE  SwitchInv'
<1>1. SessionsOK /\ CountsOK BY Parts DEF SwitchInv, SInv
<1>2. m.stream \in Streams /\ m.number \in Nat /\ m \in [stream : Streams, number : Nat]
  BY <1>1 DEF SessionsOK
<1>3. UNCHANGED <<Mcp!settings, sessions, closed, stream, gone, delivered, straddling, counts>> BY DEF Mcp!Answer
<1>4. SessionChannels' /\ LetIn' /\ CountsOK'
  BY <1>1, <1>3 DEF SwitchInv, SInv, SessionChannels, Mcp!NoSendOnClosed, LetIn, Closing, Mcp!settings, CountsOK
<1>5. CASE ~(m.stream \in sessions /\ Len(channel[m.stream]) < queueSize)
  <2>1. channel' = channel /\ accepted' = accepted /\ messages' \subseteq messages
    BY <1>5 DEF Mcp!Answer
  <2>2. SessionsOK' /\ Answers'
    BY <1>1, <1>3, <2>1 DEF SessionsOK, SwitchInv, SInv, Answers, Mcp!AcceptedArrives
  <2> QED BY <1>3, <1>4, <2>2, SettingsKept
<1>6. CASE m.stream \in sessions /\ Len(channel[m.stream]) < queueSize
  <2>1. channel' = [channel EXCEPT ![m.stream] = Append(@, m.number)] /\ accepted' = accepted \cup {m}
        /\ messages' \subseteq messages
    BY <1>6 DEF Mcp!Answer
  <2>2. channel[m.stream] \in Seq(Nat) BY <1>1, <1>2 DEF SessionsOK
  <2>3. Append(channel[m.stream], m.number) \in Seq(Nat)
        /\ Len(Append(channel[m.stream], m.number)) <= queueSize
    BY <1>2, <1>6, <2>2
  <2>4. Mcp!ToSet(channel[m.stream]) \subseteq Mcp!ToSet(Append(channel[m.stream], m.number))
        /\ m.number \in Mcp!ToSet(Append(channel[m.stream], m.number))
    BY <1>2, <2>2, AppendSet
  <2>5. SessionsOK' BY <1>1, <1>2, <1>3, <2>1, <2>3 DEF SessionsOK
  <2>6. stream[m.stream] = "open" \/ m.stream \in gone
    BY <1>1, <1>6 DEF SwitchInv, SInv, SessionChannels, SessionsOK
  <2>7. \A s \in Streams : Mcp!ToSet(channel[s]) \subseteq Mcp!ToSet(channel'[s])
    BY <1>1, <2>1, <2>4 DEF SessionsOK
  <2>8. m.number \in Mcp!ToSet(channel'[m.stream]) BY <1>1, <1>2, <2>1, <2>4 DEF SessionsOK
  <2>9. stream[m.stream] # "new" BY <1>1, <1>6 DEF SessionsOK
  <2>10. Answers'
    <3>1. \A a \in accepted : a.stream \in Streams BY <1>1 DEF SessionsOK
    <3> QED BY <1>3, <2>1, <2>6, <2>7, <2>8, <2>9, <3>1 DEF SwitchInv, SInv, Answers, Mcp!AcceptedArrives
  <2> QED BY <1>3, <1>4, <2>5, <2>10, SettingsKept
<1> QED BY <1>5, <1>6

-----------------------------------------------------------------------------
LEMMA SwitchInvariant ==
  ASSUME queueSize \in Nat
  PROVE  Mcp!Spec => []SwitchInv
<1>1. Mcp!Init => SwitchInv
  <2> SUFFICES ASSUME Mcp!Init PROVE SwitchInv
    OBVIOUS
  <2>1. SettingsOK /\ CountsOK /\ SessionsOK BY DEF Mcp!Init, SettingsOK, CountsOK, SessionsOK
  <2>2. Mcp!TypeOK BY <2>1, Parts
  <2>3. SessionChannels /\ LetIn /\ Answers
    BY DEF Mcp!Init, SessionChannels, Mcp!NoSendOnClosed, LetIn, Answers, Mcp!AcceptedArrives
  <2>4. Alone BY DEF Mcp!Init, Alone, Mcp!Quiet, Agree, McpAgrees, SysAgrees
  <2> QED BY <2>2, <2>3, <2>4 DEF SwitchInv, SInv
<1>2. SwitchInv /\ [Mcp!Next]_(Mcp!vars) => SwitchInv'
  <2> SUFFICES ASSUME SwitchInv, [Mcp!Next]_(Mcp!vars) PROVE SwitchInv'
    OBVIOUS
  <2>1. ASSUME NEW kind \in {"put", "patch"}, NEW m \in Mcp!Fields, NEW y \in Mcp!Fields, Mcp!Request(kind, m, y) PROVE SwitchInv'
    BY <2>1, RequestStep
  <2>2. ASSUME NEW q \in requests, Mcp!Progress(q) PROVE SwitchInv'
    BY <2>2, RowReadStep, UpdateStep, SysStep, EnabledStep, SwitchCloseStep DEF Mcp!Progress
  <2>3. CASE (\E seeded \in Mcp!Fields : Mcp!ResetRow(seeded)) \/ Mcp!ResetStore \/ Mcp!ResetClose
    BY <2>3, ResetSteps
  <2>4. ASSUME NEW seeded \in Mcp!Fields, NEW flag \in BOOLEAN, Mcp!Restart(seeded, flag) PROVE SwitchInv'
    BY <2>4, RestartStep
  <2>5. ASSUME NEW s \in Streams,
               Mcp!Admit(s) \/ Mcp!Register(s) \/ Mcp!Deliver(s) \/ Mcp!Returns(s) \/ Mcp!removeSession(s)
               \/ Mcp!ClientLeaves(s) \/ Mcp!HandleSessionDelete(s) \/ Mcp!Message(s)
        PROVE SwitchInv'
    BY <2>5, AdmitStep, DeliverStep, LeaveStep, MessageStep
  <2>6. ASSUME NEW m \in messages, Mcp!Answer(m) PROVE SwitchInv'
    BY <2>6, AnswerStep
  <2>7. CASE UNCHANGED Mcp!vars
    <3>1. SessionsOK' /\ CountsOK' BY <2>7, Parts DEF SwitchInv, SInv, SessionsOK, CountsOK, Mcp!vars, Mcp!traffic
    <3>2. SessionChannels' /\ LetIn' /\ Answers'
      BY <2>7 DEF SwitchInv, SInv, SessionChannels, Mcp!NoSendOnClosed, LetIn, Closing, Answers, Mcp!AcceptedArrives, Mcp!vars, Mcp!traffic, Mcp!settings
    <3> QED BY <2>7, <3>1, <3>2, SettingsKept DEF Mcp!vars
  <2> QED BY <2>1, <2>2, <2>3, <2>4, <2>5, <2>6, <2>7 DEF Mcp!Next
<1> QED BY <1>1, <1>2, PTL DEF Mcp!Spec

\* The settings, the sessions and their channels keep their types, whatever overlaps.
THEOREM SwitchTyped ==
  ASSUME queueSize \in Nat
  PROVE  Mcp!Spec => []Mcp!TypeOK
<1>1. SwitchInv => Mcp!TypeOK BY DEF SwitchInv, SInv
<1> QED BY <1>1, SwitchInvariant, PTL

\* No answer is sent on a channel that was closed, and none is closed twice, though
\* the switch, a request, a stream's own end and a restart all close channels.
THEOREM NothingSentOnClosed ==
  ASSUME queueSize \in Nat
  PROVE  Mcp!Spec => []Mcp!NoSendOnClosed
<1>1. SwitchInv => Mcp!NoSendOnClosed BY DEF SwitchInv, SInv, SessionChannels
<1> QED BY <1>1, SwitchInvariant, PTL

\* A server that was switched off keeps no session but one that was on its way in
\* when the sessions were closed, however many requests and resets overlap.
THEOREM OffStaysOff ==
  ASSUME queueSize \in Nat
  PROVE  Mcp!Spec => []Mcp!OffMeansOff
<1>1. SwitchInv => Mcp!OffMeansOff
  BY Parts DEF SwitchInv, SInv, LetIn, Mcp!OffMeansOff, Closing, SessionsOK
<1> QED BY <1>1, SwitchInvariant, PTL

\* An answer that a session took is delivered or about to be, unless its client left.
THEOREM AcceptedAnswersArrive ==
  ASSUME queueSize \in Nat
  PROVE  Mcp!Spec => []Mcp!AcceptedArrives
<1>1. SwitchInv => Mcp!AcceptedArrives BY DEF SwitchInv, SInv, Answers
<1> QED BY <1>1, SwitchInvariant, PTL

\* With no request under way the copies are what the row says if no two overlapped,
\* but for the MCP server that a patch which could not read the row has switched off
\* in the row alone; a server is never left off where the row says it is on.
THEOREM CopiesStayInStep ==
  ASSUME queueSize \in Nat
  PROVE  Mcp!Spec => []Mcp!CopiesAgree
<1>1. SwitchInv => Mcp!CopiesAgree BY DEF SwitchInv, Alone, Mcp!CopiesAgree, Agree, McpAgrees, SysAgrees
<1> QED BY <1>1, SwitchInvariant, PTL
=============================================================================
