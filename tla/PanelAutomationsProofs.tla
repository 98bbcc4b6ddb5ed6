----------------------- MODULE PanelAutomationsProofs -----------------------
(* The two lives of a panel, for any panels, dashboards, bodies and workers.  *)
EXTENDS PanelAutomations, TLAPS

Cascading == {"count", "collect", "cascade", "cleanup"}

\* A handler works on one panel that has been created, a cascade on all panels.
Shape(t) ==
  /\ t.left \subseteq used
  /\ IF t.at \in Cascading THEN t.on = Panels
     ELSE \E p \in Panels \cap used : t.on = {p}
Shapes == /\ \A p \in Panels \ used : ~Stored(p) /\ ~Registered(p)
          /\ \A w \in Workers : Busy(w) => Shape(task[w])

\* A configuration that is added without validation was registered before; only a
\* copy inserts a row of its own.
Validated == \A w \in Workers :
               /\ At(w, "reschedule") => task[w].want.body \in Bodies \ Rejected
               /\ At(w, "insert") => task[w].op = "copy"

\* Only the panels on which requests have overlapped are worked on twice.
Sole == \A p \in Panels \ excused : \A v, w \in Workers :
          p \in task[v].on /\ p \in task[w].on => v = w

\* What holds of panel p between two steps of its only handler t: the value the
\* handler has read is still the stored one, and the lives differ in one way.
Progress(t, p) ==
  /\ t.at \in {"fetch", "store", "flip", "recover", "readd", "move", "count", "collect", "cascade"}
       => Agree(p)
  /\ t.at = "fetch" /\ t.op \notin {"save", "title"} => t.want = Config(p)
  /\ t.at = "store" => Stored(p) /\ (t.op # "save" => t.want = Config(p))
  /\ t.at = "upsert" => t.op = "save"
  /\ t.at \in {"fetch", "store", "apply", "upsert"} /\ t.op = "save" => t.want.body \in Bodies
  /\ t.at \in {"apply", "upsert", "register"} => Stored(p) /\ Config(p) = t.want
  /\ t.at = "apply" /\ t.op # "save" => Agree(p)
  /\ t.at = "reschedule" => /\ Stored(p)
                            /\ row[p].body \notin Rejected => t.want.body = row[p].body
  /\ t.at = "reread" => /\ Stored(p) /\ Registered(p) /\ live[p].on = t.want.on
                        /\ row[p].body \notin Rejected => live[p].body = row[p].body
  /\ t.at = "rewrite" => /\ Stored(p) /\ Registered(p) /\ t.want.body = row[p].body
                         /\ t.want.body \notin Rejected => live[p] = t.want
  /\ t.at = "readd" => /\ Stored(p) /\ t.want.body = row[p].body
                       /\ t.op # "toggle" => t.want = Config(p)
  /\ t.at \in {"recover", "readd", "erase", "insert", "register"} => ~Registered(p)
  /\ t.at = "insert" => ~Stored(p)
  /\ t.at = "cascade" => IF p \in t.left THEN p \in Housed(t.dash)
                         ELSE p \in Housed(t.dash) => ~Registered(p)
  /\ t.at = "cleanup" => IF p \in t.left THEN ~Stored(p) ELSE Agree(p)

Attended == \A p \in Panels \ excused :
              IF p \in Touched
              THEN \A w \in Workers : p \in task[w].on => Progress(task[w], p)
              ELSE Agree(p)

IInv == TypeOK /\ Shapes /\ Validated /\ Sole /\ Attended

-----------------------------------------------------------------------------
(* What a step may do, and what that keeps.                                 *)

Kept(p) == row'[p] = row[p] /\ live'[p] = live[p]

\* Progress depends on nothing but the handler and the panel's two lives.
LEMMA Frame ==
  ASSUME NEW p \in Panels, Kept(p)
  PROVE  /\ Agree(p)' <=> Agree(p)
         /\ Stored(p)' <=> Stored(p)
         /\ Registered(p)' <=> Registered(p)
         /\ \A w \in Workers : task'[w] = task[w] =>
              (Progress(task[w], p)' <=> Progress(task[w], p))
<1>1. /\ Agree(p)' <=> Agree(p)
      /\ Stored(p)' <=> Stored(p)
      /\ Registered(p)' <=> Registered(p)
      /\ Config(p)' = Config(p)
      /\ row'[p] = row[p] /\ live'[p] = live[p]
  BY DEF Kept, Agree, Stored, Registered, Config
<1>2. \A d : p \in Housed(d)' <=> p \in Housed(d)
  BY <1>1 DEF Housed
<1> SUFFICES ASSUME NEW w \in Workers, task'[w] = task[w]
             PROVE  Progress(task[w], p)' <=> Progress(task[w], p)
  BY <1>1
<1>3. task[w].dash = task'[w].dash
  OBVIOUS
<1> QED BY <1>1, <1>2, <1>3 DEF Progress

\* A handler's step on its panel q: it ends with the lives in step or goes on.
Works(w, q) ==
  /\ \A v \in Workers \ {w} : task'[v] = task[v]
  /\ \A p \in Panels \ {q} : Kept(p)
  /\ excused' = excused /\ used' = used
  /\ \/ task'[w] = Idle /\ (q \notin excused => Agree(q)')
     \/ /\ Busy(w)' /\ task'[w].on = {q} /\ task'[w].left = task[w].left
        /\ task'[w].at \notin Cascading \cup {"insert"}
        /\ task'[w].at = "reschedule" => task'[w].want.body \in Bodies \ Rejected
        /\ q \notin excused => Progress(task[w], q)'

LEMMA WorksKeeps ==
  ASSUME IInv, NEW w \in Workers, NEW q \in Panels \cap used, Busy(w), task[w].on = {q}, Works(w, q)
  PROVE  Shapes' /\ Validated' /\ Sole' /\ Attended'
<1>1. \A v \in Workers \ {w} : task'[v] = task[v]
  BY DEF Works
<1>2. task'[w] = Idle \/ (task'[w] # Idle /\ task'[w].on = {q} /\ task'[w].left = task[w].left
                          /\ task'[w].at \notin Cascading)
  BY DEF Works, Busy
<1>3. task'[w].on \subseteq {q}
  BY <1>2 DEF Idle
<1>4. excused' = excused /\ used' = used
  BY DEF Works
<1>5. \A p \in Panels \ {q} : Kept(p)
  BY DEF Works
<1>6. Shapes'
  <2>1. \A p \in Panels \ used' : ~Stored(p)' /\ ~Registered(p)'
    BY <1>4, <1>5, Frame DEF IInv, Shapes
  <2>2. ASSUME NEW v \in Workers, Busy(v)' PROVE Shape(task[v])'
    <3>1. CASE v = w
      BY <3>1, <2>2, <1>2, <1>4 DEF IInv, Shapes, Shape, Busy
    <3>2. CASE v # w
      BY <3>2, <2>2, <1>1, <1>4 DEF IInv, Shapes, Shape, Busy
    <3> QED BY <3>1, <3>2
  <2> QED BY <2>1, <2>2 DEF Shapes
<1>7. Validated'
  BY <1>1 DEF IInv, Validated, Works, At, Busy
<1>8. Sole'
  BY <1>1, <1>3, <1>4 DEF IInv, Sole
<1>9. Attended'
  <2> SUFFICES ASSUME NEW p \in Panels \ excused
               PROVE  IF p \in Touched' THEN \A v \in Workers : p \in task'[v].on => Progress(task[v], p)'
                      ELSE Agree(p)'
    BY <1>4 DEF Attended
  <2>1. CASE p = q
    <3>1. \A v \in Workers \ {w} : p \notin task'[v].on
      BY <2>1, <1>1 DEF IInv, Sole
    <3>2. CASE task'[w] = Idle
      <4>1. Agree(q)'
        BY <3>2, <2>1 DEF Works, Busy
      <4>2. p \notin Touched'
        BY <3>1, <3>2 DEF Touched, Idle
      <4> QED BY <4>1, <4>2, <2>1
    <3>3. CASE task'[w] # Idle
      <4>1. Progress(task[w], q)'
        BY <3>3, <2>1 DEF Works
      <4>2. p \in Touched'
        BY <3>3, <1>2, <2>1 DEF Touched
      <4> QED BY <4>1, <4>2, <3>1, <2>1
    <3> QED BY <3>2, <3>3
  <2>2. CASE p # q
    <3>1. p \notin task'[w].on /\ p \notin task[w].on
      BY <2>2, <1>3
    <3>2. \A v \in Workers : p \in task'[v].on <=> p \in task[v].on
      BY <3>1, <1>1
    <3>3. p \in Touched' <=> p \in Touched
      BY <3>2 DEF Touched
    <3>4. \A v \in Workers : p \in task'[v].on => v # w /\ task'[v] = task[v]
      BY <3>1, <1>1
    <3> QED BY <3>2, <3>3, <3>4, <2>2, <1>5, Frame DEF IInv, Attended
  <2> QED BY <2>1, <2>2
<1> QED BY <1>6, <1>7, <1>8, <1>9

\* The task of a handler at work, before and after it goes on.
LEMMA Tasked ==
  ASSUME TypeOK, NEW w \in Workers, Busy(w)
  PROVE  /\ task[w] \in Tasks
         /\ \A s \in Steps : Goto(w, s) =>
              /\ task' \in [Workers -> Tasks \cup {Idle}] /\ Busy(w)'
              /\ \A v \in Workers \ {w} : task'[v] = task[v]
              /\ task'[w].op = task[w].op /\ task'[w].at = s /\ task'[w].on = task[w].on
              /\ task'[w].want = task[w].want /\ task'[w].dash = task[w].dash
              /\ task'[w].left = task[w].left
         /\ \A s \in Steps, c \in Configs : With(w, s, c) =>
              /\ task' \in [Workers -> Tasks \cup {Idle}] /\ Busy(w)'
              /\ \A v \in Workers \ {w} : task'[v] = task[v]
              /\ task'[w].op = task[w].op /\ task'[w].at = s /\ task'[w].on = task[w].on
              /\ task'[w].want = c /\ task'[w].dash = task[w].dash
              /\ task'[w].left = task[w].left
         /\ End(w) =>
              /\ task' \in [Workers -> Tasks \cup {Idle}] /\ task'[w] = Idle
              /\ \A v \in Workers \ {w} : task'[v] = task[v]
<1>1. task \in [Workers -> Tasks \cup {Idle}] /\ task[w] \in Tasks
  BY DEF TypeOK, Busy
<1>2. \A t \in Tasks : t # Idle
  BY DEF Tasks, Ops, Idle
<1>3. ASSUME NEW s \in Steps PROVE [task[w] EXCEPT !.at = s] \in Tasks
  BY <1>1 DEF Tasks
<1>4. ASSUME NEW s \in Steps, NEW c \in Configs
      PROVE  [task[w] EXCEPT !.at = s, !.want = c] \in Tasks
  BY <1>1 DEF Tasks
<1>5. ASSUME NEW s \in Steps, Goto(w, s)
      PROVE  /\ task' \in [Workers -> Tasks \cup {Idle}] /\ Busy(w)'
             /\ \A v \in Workers \ {w} : task'[v] = task[v]
             /\ task'[w] = [task[w] EXCEPT !.at = s]
  BY <1>1, <1>2, <1>3, <1>5 DEF Goto, Busy
<1>6. ASSUME NEW s \in Steps, NEW c \in Configs, With(w, s, c)
      PROVE  /\ task' \in [Workers -> Tasks \cup {Idle}] /\ Busy(w)'
             /\ \A v \in Workers \ {w} : task'[v] = task[v]
             /\ task'[w] = [task[w] EXCEPT !.at = s, !.want = c]
  BY <1>1, <1>2, <1>4, <1>6 DEF With, Busy
<1>7. ASSUME End(w)
      PROVE  /\ task' \in [Workers -> Tasks \cup {Idle}] /\ task'[w] = Idle
             /\ \A v \in Workers \ {w} : task'[v] = task[v]
  BY <1>1, <1>7 DEF End
<1>8. \A s \in Steps : Goto(w, s) =>
        /\ task'[w].op = task[w].op /\ task'[w].at = s /\ task'[w].on = task[w].on
        /\ task'[w].want = task[w].want /\ task'[w].dash = task[w].dash
        /\ task'[w].left = task[w].left
  BY <1>1, <1>5 DEF Tasks
<1>9. \A s \in Steps, c \in Configs : With(w, s, c) =>
        /\ task'[w].op = task[w].op /\ task'[w].at = s /\ task'[w].on = task[w].on
        /\ task'[w].want = c /\ task'[w].dash = task[w].dash
        /\ task'[w].left = task[w].left
  BY <1>1, <1>6 DEF Tasks
<1> QED BY <1>1, <1>5, <1>6, <1>7, <1>8, <1>9

\* The panel a handler works on, and how it stands.
LEMMA Placed ==
  ASSUME IInv, NEW w \in Workers, Busy(w), task[w].at \notin Cascading
  PROVE  /\ task[w].on = {Panel(w)} /\ Panel(w) \in Panels \cap used
         /\ Panel(w) \notin excused => Progress(task[w], Panel(w))
<1>1. PICK p \in Panels \cap used : task[w].on = {p}
  BY DEF IInv, Shapes, Shape
<1>2. Panel(w) = p
  BY <1>1 DEF Panel
<1>3. p \in Touched
  BY <1>1 DEF Touched
<1> QED BY <1>1, <1>2, <1>3 DEF IInv, Attended

\* The stored and the registered configurations are configurations.
LEMMA Typed ==
  ASSUME TypeOK, NEW p \in Panels
  PROVE  /\ row[p] \in Rows /\ Config(p) \in Configs /\ row[p].body \in Bodies \cup {"blank"}
         /\ row[p].on \in BOOLEAN
         /\ live[p] \in Configs
         /\ Registered(p) => live[p].body \in Bodies \ Rejected
         /\ ~Stored(p) => row[p].body = "blank" /\ ~row[p].on
<1>1. row[p] \in Rows /\ live[p] \in [body : Bodies \ Rejected, on : BOOLEAN] \cup {NoRule}
  BY DEF TypeOK
<1>0. NoRow.body = "blank" /\ NoRow.on = FALSE /\ NoRule.body = "blank" /\ NoRule.on = FALSE
  BY DEF NoRow, NoRule
<1>2. row[p].body \in Bodies \cup {"blank"} /\ row[p].on \in BOOLEAN
  <2>1. CASE row[p] = NoRow
    BY <2>1, <1>0
  <2>2. CASE row[p] # NoRow
    BY <2>2, <1>1 DEF Rows
  <2> QED BY <2>1, <2>2
<1>3. live[p] \in Configs
  <2>1. NoRule \in Configs
    BY DEF NoRule, Configs
  <2>2. [body : Bodies \ Rejected, on : BOOLEAN] \subseteq Configs
    BY DEF Configs
  <2> QED BY <1>1, <2>1, <2>2
<1>4. Registered(p) => live[p].body \in Bodies \ Rejected
  BY <1>1 DEF Registered
<1>5. ~Stored(p) => row[p].body = "blank" /\ ~row[p].on
  BY DEF Stored, NoRow
<1> QED BY <1>1, <1>2, <1>3, <1>4, <1>5 DEF Config, Configs

-----------------------------------------------------------------------------
(* One step of a handler on its panel.                                      *)

\* Handler w is at work on panel p.
Working(w, p) ==
  /\ IInv /\ task[w].on = {p} /\ Panel(w) = p
  /\ p \notin excused => Progress(task[w], p)

\* An update of a row that is there, and of one that is not.
LEMMA Updated ==
  ASSUME TypeOK, NEW p \in Panels, NEW c \in Configs, Update(p, c)
  PROVE  /\ row' \in [Panels -> Rows] /\ \A q \in Panels \ {p} : row'[q] = row[q]
         /\ Stored(p) => Stored(p)' /\ row'[p].body = c.body /\ row'[p].on = c.on
         /\ ~Stored(p) => row' = row
<1>1. CASE ~Stored(p)
  BY <1>1 DEF Update, TypeOK
<1>2. CASE Stored(p)
  <2> DEFINE r == [dash |-> row[p].dash, body |-> c.body, on |-> c.on]
  <2>1. row[p] \in [dash : Dashboards, body : Bodies \cup {"blank"}, on : BOOLEAN]
    BY <1>2 DEF TypeOK, Rows, Stored
  <2>2. r \in Rows /\ r.dash \in Dashboards
    BY <2>1 DEF Rows, Configs
  <2>3. NoRow.dash = "none"
    BY DEF NoRow
  <2>4. r # NoRow /\ r.body = c.body /\ r.on = c.on
    BY <2>2, <2>3, PanelsAssumption
  <2>5. row' = [row EXCEPT ![p] = r] /\ row \in [Panels -> Rows]
    BY <1>2 DEF Update, TypeOK
  <2> HIDE DEF r
  <2> QED BY <1>2, <2>2, <2>4, <2>5 DEF Stored
<1> QED BY <1>1, <1>2

\* A registration that is accepted, and one that is refused.
LEMMA Registering ==
  ASSUME TypeOK, NEW p \in Panels, NEW c \in Configs, Register(p, c)
  PROVE  /\ live' \in [Panels -> [body : Bodies \ Rejected, on : BOOLEAN] \cup {NoRule}]
         /\ \A q \in Panels \ {p} : live'[q] = live[q]
         /\ Accepts(c.body) => live'[p] = c /\ Registered(p)'
         /\ ~Accepts(c.body) => live' = live
<1>1. NoRule.body = "blank"
  BY DEF NoRule
<1>2. Accepts(c.body) => c \in [body : Bodies \ Rejected, on : BOOLEAN] /\ c # NoRule
  BY <1>1, PanelsAssumption DEF Accepts, Configs
<1> QED BY <1>2 DEF Register, TypeOK, Registered

LEMMA FetchWorks ==
  ASSUME NEW w \in Workers, NEW p \in Panels, Working(w, p), Fetch(w)
  PROVE  TypeOK' /\ Works(w, p)
<1> DEFINE c == IF task[w].op = "title" THEN Config(p) ELSE task[w].want
<1>1. /\ Busy(w) /\ task[w].at = "fetch" /\ task[w].on = {p} /\ Panel(w) = p
      /\ p \notin excused => Progress(task[w], p)
  BY DEF Fetch, At, Working
<1>2. TypeOK /\ UNCHANGED <<dashboards, row, live, used, cron, excused>>
  BY DEF Working, IInv, Fetch
<1>3. c \in Configs
  BY <1>1, <1>2, Typed, Tasked DEF Tasks
<1>4. \A q \in Panels : Kept(q)
  BY <1>2 DEF Kept
<1>5. (Agree(p)' <=> Agree(p)) /\ (Stored(p)' <=> Stored(p)) /\ Config(p)' = Config(p)
  BY <1>2, <1>4, Frame DEF Config
<1>6. CASE ~Stored(p)
  <2>1. End(w)
    BY <1>1, <1>6 DEF Fetch
  <2> QED BY <1>1, <1>2, <1>4, <1>5, <2>1, Tasked DEF TypeOK, Works, Progress
<1>7. CASE Stored(p)
  <2>1. With(w, "store", c)
    BY <1>1, <1>7 DEF Fetch
  <2>2. /\ task' \in [Workers -> Tasks \cup {Idle}] /\ Busy(w)'
        /\ \A v \in Workers \ {w} : task'[v] = task[v]
        /\ task'[w].op = task[w].op /\ task'[w].at = "store" /\ task'[w].on = {p}
        /\ task'[w].want = c /\ task'[w].left = task[w].left
    BY <1>1, <1>2, <1>3, <2>1, Tasked DEF Steps
  <2>3. p \notin excused => Progress(task[w], p)'
    BY <1>1, <1>5, <1>7, <2>2 DEF Progress
  <2> QED BY <1>1, <1>2, <1>4, <2>2, <2>3 DEF TypeOK, Works, Cascading
<1> QED BY <1>6, <1>7

\* What every other step has in common.
LEMMA Underway ==
  ASSUME NEW w \in Workers, NEW p \in Panels, Working(w, p), Busy(w)
  PROVE  /\ TypeOK /\ Validated /\ task[w].on = {p} /\ Panel(w) = p
         /\ task[w].want \in Configs /\ task[w].dash \in Dashboards
         /\ p \notin excused => Progress(task[w], p)
  BY Tasked DEF Working, IInv, Tasks

\* A handler that ends with the lives in step, and one that goes on, does its work.
LEMMA Ending ==
  ASSUME NEW w \in Workers, NEW p \in Panels, Working(w, p), Busy(w), End(w),
         UNCHANGED <<used, excused>>, \A q \in Panels \ {p} : Kept(q),
         p \notin excused => Agree(p)'
  PROVE  task' \in [Workers -> Tasks \cup {Idle}] /\ Works(w, p)
  BY Underway, Tasked DEF Works

LEMMA Moving ==
  ASSUME NEW w \in Workers, NEW p \in Panels, Working(w, p), Busy(w),
         NEW s \in Steps, s \notin Cascading \cup {"insert", "reschedule"}, Goto(w, s),
         UNCHANGED <<used, excused>>, \A q \in Panels \ {p} : Kept(q),
         ASSUME p \notin excused, Progress(task[w], p),
                task'[w].at = s, task'[w].op = task[w].op, task'[w].want = task[w].want
         PROVE  Progress(task[w], p)'
  PROVE  task' \in [Workers -> Tasks \cup {Idle}] /\ Works(w, p)
<1>1. /\ task' \in [Workers -> Tasks \cup {Idle}] /\ Busy(w)'
      /\ \A v \in Workers \ {w} : task'[v] = task[v]
      /\ task'[w].op = task[w].op /\ task'[w].at = s /\ task'[w].on = {p}
      /\ task'[w].want = task[w].want /\ task'[w].left = task[w].left
  BY Underway, Tasked
<1>2. p \notin excused => Progress(task[w], p)'
  BY <1>1, Underway
<1> QED BY <1>1, <1>2 DEF Works

LEMMA Turning ==
  ASSUME NEW w \in Workers, NEW p \in Panels, Working(w, p), Busy(w),
         NEW s \in Steps, s \notin Cascading \cup {"insert"}, NEW c \in Configs, With(w, s, c),
         s = "reschedule" => c.body \in Bodies \ Rejected,
         UNCHANGED <<used, excused>>, \A q \in Panels \ {p} : Kept(q),
         ASSUME p \notin excused, Progress(task[w], p),
                task'[w].at = s, task'[w].op = task[w].op, task'[w].want = c
         PROVE  Progress(task[w], p)'
  PROVE  task' \in [Workers -> Tasks \cup {Idle}] /\ Works(w, p)
<1>1. /\ task' \in [Workers -> Tasks \cup {Idle}] /\ Busy(w)'
      /\ \A v \in Workers \ {w} : task'[v] = task[v]
      /\ task'[w].op = task[w].op /\ task'[w].at = s /\ task'[w].on = {p}
      /\ task'[w].want = c /\ task'[w].left = task[w].left
  BY Underway, Tasked
<1>2. p \notin excused => Progress(task[w], p)'
  BY <1>1, Underway
<1> QED BY <1>1, <1>2 DEF Works

LEMMA StoreWorks ==
  ASSUME NEW w \in Workers, NEW p \in Panels, Working(w, p), Store(w)
  PROVE  TypeOK' /\ Works(w, p)
<1>1. /\ Busy(w) /\ task[w].at = "store" /\ Update(p, task[w].want) /\ Goto(w, "apply")
      /\ UNCHANGED <<dashboards, live, used, cron, excused>>
  BY Underway DEF Store, At
<1>2. \A q \in Panels \ {p} : Kept(q)
  BY <1>1, Underway, Updated DEF Kept
<1>3. ASSUME p \notin excused, Progress(task[w], p),
             task'[w].at = "apply", task'[w].op = task[w].op, task'[w].want = task[w].want
      PROVE  Progress(task[w], p)'
  <2>1. Stored(p)' /\ Config(p)' = task[w].want
    BY <1>1, <1>3, Underway, Updated DEF Progress, Config, Configs
  <2>2. CASE task[w].op # "save"
    <3>1. task[w].want = Config(p) /\ Agree(p) /\ Stored(p)
      BY <1>1, <1>3, <2>2 DEF Progress
    <3>2. row'[p].body = row[p].body /\ row'[p].on = row[p].on
      BY <1>1, <3>1, Underway, Updated DEF Config
    <3>3. Agree(p)'
      BY <1>1, <2>1, <3>1, <3>2 DEF Agree, Registered
    <3> QED BY <1>3, <2>1, <2>2, <3>3 DEF Progress
  <2>3. CASE task[w].op = "save"
    BY <1>1, <1>3, <2>1, <2>3 DEF Progress
  <2> QED BY <2>2, <2>3
<1>4. task' \in [Workers -> Tasks \cup {Idle}] /\ Works(w, p)
  BY <1>1, <1>2, <1>3, Moving DEF Steps, Cascading
<1> QED BY <1>1, <1>4, Underway, Updated DEF TypeOK

LEMMA ApplyWorks ==
  ASSUME NEW w \in Workers, NEW p \in Panels, Working(w, p), Apply(w)
  PROVE  TypeOK' /\ Works(w, p)
<1>1. /\ Busy(w) /\ task[w].at = "apply"
      /\ IF p \in cron THEN UNCHANGED live ELSE Register(p, task[w].want)
      /\ IF task[w].op = "save" THEN Goto(w, "upsert") ELSE End(w)
      /\ UNCHANGED <<dashboards, row, used, cron, excused>>
  BY Underway DEF Apply, At
<1>2. /\ live' \in [Panels -> [body : Bodies \ Rejected, on : BOOLEAN] \cup {NoRule}]
      /\ \A q \in Panels \ {p} : Kept(q)
  BY <1>1, Underway, Registering DEF Kept, TypeOK
<1>3. Stored(p)' = Stored(p) /\ Config(p)' = Config(p)
  BY <1>1 DEF Stored, Config
<1>4. CASE task[w].op = "save"
  <2>1. ASSUME p \notin excused, Progress(task[w], p),
               task'[w].at = "upsert", task'[w].op = task[w].op, task'[w].want = task[w].want
        PROVE  Progress(task[w], p)'
    BY <1>1, <1>3, <1>4, <2>1 DEF Progress
  <2>2. task' \in [Workers -> Tasks \cup {Idle}] /\ Works(w, p)
    BY <1>1, <1>2, <1>4, <2>1, Moving DEF Steps, Cascading
  <2> QED BY <1>1, <1>2, <2>2, Underway DEF TypeOK
<1>5. CASE task[w].op # "save"
  <2>1. ASSUME p \notin excused PROVE Agree(p)'
    <3>1. Agree(p) /\ Stored(p) /\ Config(p) = task[w].want
      BY <1>1, <1>5, <2>1, Underway DEF Progress
    <3>2. row' = row /\ (live' = live \/ (live'[p] = Config(p) /\ Registered(p)'))
      BY <1>1, <3>1, Underway, Registering
    <3> QED BY <1>3, <3>1, <3>2 DEF Agree, Registered
  <2>2. task' \in [Workers -> Tasks \cup {Idle}] /\ Works(w, p)
    BY <1>1, <1>2, <1>5, <2>1, Ending
  <2> QED BY <1>1, <1>2, <2>2, Underway DEF TypeOK
<1> QED BY <1>4, <1>5

LEMMA UpsertWorks ==
  ASSUME NEW w \in Workers, NEW p \in Panels, Working(w, p), Upsert(w)
  PROVE  TypeOK' /\ Works(w, p)
<1>1. /\ Busy(w) /\ task[w].at = "upsert" /\ Register(p, task[w].want)
      /\ IF Accepts(task[w].want.body) THEN Goto(w, "rewrite") ELSE End(w)
      /\ UNCHANGED <<dashboards, row, used, cron, excused>>
  BY Underway DEF Upsert, At
<1>2. /\ live' \in [Panels -> [body : Bodies \ Rejected, on : BOOLEAN] \cup {NoRule}]
      /\ \A q \in Panels \ {p} : Kept(q)
  BY <1>1, Underway, Registering DEF Kept
<1>3. p \notin excused => Stored(p)' /\ row'[p].body = task[w].want.body /\ task[w].want.body \in Bodies
  <2>1. p \notin excused => Stored(p) /\ Config(p) = task[w].want /\ task[w].want.body \in Bodies
    BY <1>1, Underway DEF Progress
  <2>2. Config(p).body = row[p].body
    BY DEF Config
  <2> QED BY <1>1, <2>1, <2>2 DEF Stored
<1>4. CASE Accepts(task[w].want.body)
  <2>1. ASSUME p \notin excused, Progress(task[w], p),
               task'[w].at = "rewrite", task'[w].op = task[w].op, task'[w].want = task[w].want
        PROVE  Progress(task[w], p)'
    <3>1. live'[p] = task'[w].want /\ Registered(p)'
      BY <1>1, <1>4, <2>1, Underway, Registering
    <3> QED BY <1>3, <2>1, <3>1 DEF Progress
  <2>2. task' \in [Workers -> Tasks \cup {Idle}] /\ Works(w, p)
    BY <1>1, <1>2, <1>4, <2>1, Moving DEF Steps, Cascading
  <2> QED BY <1>1, <1>2, <2>2, Underway DEF TypeOK
<1>5. CASE ~Accepts(task[w].want.body)
  <2>1. p \notin excused => Agree(p)'
    BY <1>3, <1>5 DEF Agree, Accepts
  <2>2. task' \in [Workers -> Tasks \cup {Idle}] /\ Works(w, p)
    BY <1>1, <1>2, <1>5, <2>1, Ending
  <2> QED BY <1>1, <1>2, <2>2, Underway DEF TypeOK
<1> QED BY <1>4, <1>5

LEMMA RescheduleWorks ==
  ASSUME NEW w \in Workers, NEW p \in Panels, Working(w, p), Reschedule(w)
  PROVE  TypeOK' /\ Works(w, p)
<1>1. /\ Busy(w) /\ task[w].at = "reschedule" /\ Goto(w, "reread")
      /\ live' = [live EXCEPT ![p] = task[w].want] /\ task[w].want.body \in Bodies \ Rejected
      /\ UNCHANGED <<dashboards, row, used, cron, excused>>
  BY Underway DEF Reschedule, At, Validated
<1>2. /\ live' \in [Panels -> [body : Bodies \ Rejected, on : BOOLEAN] \cup {NoRule}]
      /\ \A q \in Panels \ {p} : Kept(q)
  BY <1>1, Underway DEF Kept, TypeOK, Configs
<1>3. NoRule.body = "blank"
  BY DEF NoRule
<1>4. live'[p] = task[w].want /\ Registered(p)'
  BY <1>1, <1>3, Underway, PanelsAssumption DEF TypeOK, Registered
<1>5. ASSUME p \notin excused, Progress(task[w], p),
             task'[w].at = "reread", task'[w].op = task[w].op, task'[w].want = task[w].want
      PROVE  Progress(task[w], p)'
  BY <1>1, <1>4, <1>5 DEF Progress, Stored
<1>6. task' \in [Workers -> Tasks \cup {Idle}] /\ Works(w, p)
  BY <1>1, <1>2, <1>5, Moving DEF Steps, Cascading
<1> QED BY <1>1, <1>2, <1>6, Underway DEF TypeOK

LEMMA RecoverWorks ==
  ASSUME NEW w \in Workers, NEW p \in Panels, Working(w, p), Recover(w)
  PROVE  TypeOK' /\ Works(w, p)
<1> DEFINE c == [body |-> row[p].body,
                 on |-> IF task[w].op = "toggle" THEN task[w].want.on ELSE row[p].on]
<1>1. /\ Busy(w) /\ task[w].at = "recover"
      /\ IF row[p].body = "blank" THEN End(w) ELSE With(w, "readd", c)
      /\ UNCHANGED <<dashboards, row, live, used, cron, excused>>
  BY Underway DEF Recover, At
<1>2. c \in Configs
  <2>1. row[p].body \in Bodies \cup {"blank"} /\ row[p].on \in BOOLEAN
    BY <1>1, Underway, Typed
  <2>2. task[w].want \in Configs
    BY <1>1, Underway
  <2>3. task[w].want.on \in BOOLEAN
    BY <2>2 DEF Configs
  <2> QED BY <2>1, <2>3 DEF Configs
<1>3. c.body = row[p].body /\ (task[w].op # "toggle" => c = Config(p))
  BY DEF Config
<1> HIDE DEF c
<1>4. \A q \in Panels : Kept(q)
  BY <1>1 DEF Kept
<1>5. (Agree(p)' <=> Agree(p)) /\ Stored(p)' = Stored(p) /\ Registered(p)' = Registered(p)
  BY <1>1 DEF Agree, Stored, Registered, Config
<1>6. CASE row[p].body = "blank"
  <2>1. task' \in [Workers -> Tasks \cup {Idle}] /\ Works(w, p)
    BY <1>1, <1>4, <1>5, <1>6, Underway, Ending DEF Progress
  <2> QED BY <1>1, <2>1, Underway DEF TypeOK
<1>7. CASE row[p].body # "blank"
  <2>1. Stored(p) /\ Config(p)' = Config(p)
    BY <1>1, <1>7, Underway, Typed DEF Config
  <2>2. ASSUME p \notin excused, Progress(task[w], p),
               task'[w].at = "readd", task'[w].op = task[w].op, task'[w].want = c
        PROVE  Progress(task[w], p)'
    BY <1>1, <1>3, <1>5, <2>1, <2>2 DEF Progress
  <2>3. task' \in [Workers -> Tasks \cup {Idle}] /\ Works(w, p)
    BY <1>1, <1>2, <1>4, <1>7, <2>2, Turning DEF Steps, Cascading
  <2> QED BY <1>1, <2>3, Underway DEF TypeOK
<1> QED BY <1>6, <1>7

LEMMA FlipWorks ==
  ASSUME NEW w \in Workers, NEW p \in Panels, Working(w, p), Flip(w)
  PROVE  TypeOK' /\ Works(w, p)
<1> DEFINE c == [body |-> live[p].body, on |-> task[w].want.on]
<1>1. /\ Busy(w) /\ task[w].at = "flip" /\ TypeOK /\ task[w].want \in Configs
      /\ UNCHANGED <<dashboards, row, used, cron, excused>>
  BY Underway DEF Flip, At
<1>2. task[w].want.on \in BOOLEAN
  BY <1>1 DEF Configs
<1>3. p \notin excused => Agree(p)
  BY <1>1, Underway DEF Progress
<1>4. (Stored(p)' <=> Stored(p)) /\ row'[p] = row[p]
  BY <1>1 DEF Stored
<1>5. CASE ~Registered(p) /\ Goto(w, "recover") /\ UNCHANGED live
  <2>1. Agree(p)' = Agree(p) /\ Registered(p)' = Registered(p)
    BY <1>1, <1>5 DEF Agree, Stored, Registered, Config
  <2>2. ASSUME p \notin excused, Progress(task[w], p),
               task'[w].at = "recover", task'[w].op = task[w].op, task'[w].want = task[w].want
        PROVE  Progress(task[w], p)'
    BY <1>3, <1>5, <2>1, <2>2 DEF Progress
  <2>3. task' \in [Workers -> Tasks \cup {Idle}] /\ Works(w, p)
    BY <1>1, <1>5, <2>2, Moving DEF Steps, Cascading, Kept
  <2> QED BY <1>1, <1>5, <2>3 DEF TypeOK
<1>6. ASSUME Registered(p) PROVE /\ live[p] \in [body : Bodies \ Rejected, on : BOOLEAN]
                                 /\ c \in [body : Bodies \ Rejected, on : BOOLEAN] /\ c \in Configs
                                 /\ p \notin excused =>
                                      /\ Stored(p)
                                      /\ row[p].body \notin Rejected => live[p].body = row[p].body
  <2>1. live[p] \in [body : Bodies \ Rejected, on : BOOLEAN]
    BY <1>1, <1>6 DEF TypeOK, Registered
  <2>2. ~Stored(p) => row[p].body \notin Rejected
    BY PanelsAssumption DEF Stored, NoRow
  <2>3. Config(p).body = row[p].body
    BY DEF Config
  <2> QED BY <1>2, <1>3, <1>6, <2>1, <2>2, <2>3 DEF Agree, Configs
<1>7. CASE /\ Registered(p) /\ live' = [live EXCEPT ![p].on = task[w].want.on]
           /\ Goto(w, "reread")
  <2>1. live' = [live EXCEPT ![p] = c]
    <3>1. [live[p] EXCEPT !.on = task[w].want.on] = c
      BY <1>6, <1>7
    <3>2. live' = [live EXCEPT ![p] = [live[p] EXCEPT !.on = task[w].want.on]]
      BY <1>7
    <3> HIDE DEF c
    <3> QED BY <3>1, <3>2
  <2>2. NoRule.body = "blank" /\ c.body = live[p].body /\ c.on = task[w].want.on
    BY DEF NoRule
  <2>3. /\ live' \in [Panels -> [body : Bodies \ Rejected, on : BOOLEAN] \cup {NoRule}]
        /\ \A q \in Panels \ {p} : Kept(q)
        /\ live'[p] = c /\ Registered(p)'
    BY <1>1, <1>6, <1>7, <2>1, <2>2, PanelsAssumption DEF TypeOK, Registered, Kept
  <2>4. ASSUME p \notin excused, Progress(task[w], p),
               task'[w].at = "reread", task'[w].op = task[w].op, task'[w].want = task[w].want
        PROVE  Progress(task[w], p)'
    BY <1>4, <1>6, <1>7, <2>2, <2>3, <2>4 DEF Progress
  <2>5. task' \in [Workers -> Tasks \cup {Idle}] /\ Works(w, p)
    BY <1>1, <1>7, <2>3, <2>4, Moving DEF Steps, Cascading
  <2> QED BY <1>1, <2>3, <2>5 DEF TypeOK
<1>8. CASE Registered(p) /\ With(w, "reschedule", c) /\ UNCHANGED live
  <2>1. c.body = live[p].body
    OBVIOUS
  <2>2. c.body \in Bodies \ Rejected /\ c \in Configs
    BY <1>6, <1>8, <2>1
  <2>3. ASSUME p \notin excused, Progress(task[w], p),
               task'[w].at = "reschedule", task'[w].op = task[w].op, task'[w].want = c
        PROVE  Progress(task[w], p)'
    BY <1>4, <1>6, <1>8, <2>1, <2>3 DEF Progress
  <2>4. task' \in [Workers -> Tasks \cup {Idle}] /\ Works(w, p)
    BY <1>1, <1>8, <2>2, <2>3, Turning DEF Steps, Cascading, Kept
  <2> QED BY <1>1, <1>8, <2>4 DEF TypeOK
<1> QED BY <1>5, <1>7, <1>8, Underway DEF Flip, Working

LEMMA ReaddWorks ==
  ASSUME NEW w \in Workers, NEW p \in Panels, Working(w, p), Readd(w)
  PROVE  TypeOK' /\ Works(w, p)
<1>1. /\ Busy(w) /\ task[w].at = "readd" /\ Register(p, task[w].want)
      /\ IF Accepts(task[w].want.body) /\ task[w].op = "toggle" THEN Goto(w, "reread") ELSE End(w)
      /\ UNCHANGED <<dashboards, row, used, cron, excused>>
  BY Underway DEF Readd, At
<1>2. /\ live' \in [Panels -> [body : Bodies \ Rejected, on : BOOLEAN] \cup {NoRule}]
      /\ \A q \in Panels \ {p} : Kept(q)
  BY <1>1, Underway, Registering DEF Kept
<1>3. p \notin excused => /\ Stored(p) /\ task[w].want.body = row[p].body /\ Agree(p)
                          /\ task[w].op # "toggle" => task[w].want = Config(p)
  BY <1>1, Underway DEF Progress
<1>4. (Stored(p)' <=> Stored(p)) /\ row'[p] = row[p]
  BY <1>1 DEF Stored
<1>5. CASE Accepts(task[w].want.body) /\ task[w].op = "toggle"
  <2>1. ASSUME p \notin excused, Progress(task[w], p),
               task'[w].at = "reread", task'[w].op = task[w].op, task'[w].want = task[w].want
        PROVE  Progress(task[w], p)'
    <3>1. live'[p] = task'[w].want /\ Registered(p)'
      BY <1>1, <1>5, <2>1, Underway, Registering
    <3> QED BY <1>3, <1>4, <2>1, <3>1 DEF Progress
  <2>2. task' \in [Workers -> Tasks \cup {Idle}] /\ Works(w, p)
    BY <1>1, <1>2, <1>5, <2>1, Moving DEF Steps, Cascading
  <2> QED BY <1>1, <1>2, <2>2, Underway DEF TypeOK
<1>6. CASE ~(Accepts(task[w].want.body) /\ task[w].op = "toggle")
  <2>1. ASSUME p \notin excused PROVE Agree(p)'
    <3>1. live' = live \/ (live'[p] = Config(p) /\ Registered(p)')
      BY <1>1, <1>3, <1>6, <2>1, Underway, Registering
    <3> QED BY <1>1, <1>3, <1>4, <2>1, <3>1 DEF Agree, Registered, Config
  <2>2. task' \in [Workers -> Tasks \cup {Idle}] /\ Works(w, p)
    BY <1>1, <1>2, <1>6, <2>1, Ending
  <2> QED BY <1>1, <1>2, <2>2, Underway DEF TypeOK
<1> QED BY <1>5, <1>6

LEMMA RereadWorks ==
  ASSUME NEW w \in Workers, NEW p \in Panels, Working(w, p), Reread(w)
  PROVE  TypeOK' /\ Works(w, p)
<1> DEFINE c == [body |-> row[p].body, on |-> task[w].want.on]
<1>1. /\ Busy(w) /\ task[w].at = "reread" /\ TypeOK /\ task[w].want \in Configs
      /\ IF Stored(p) THEN With(w, "rewrite", c) ELSE End(w)
      /\ UNCHANGED <<dashboards, row, live, used, cron, excused>>
  BY Underway DEF Reread, At
<1>2. c \in Configs /\ c.body = row[p].body /\ c.on = task[w].want.on
  <2>1. task[w].want.on \in BOOLEAN
    BY <1>1 DEF Configs
  <2>2. row[p].body \in Bodies \cup {"blank"}
    BY <1>1, Typed
  <2> QED BY <2>1, <2>2 DEF Configs
<1>3. live[p] \in Configs
  BY <1>1, Typed
<1>4. live[p].body = c.body /\ live[p].on = c.on => live[p] = c
  BY <1>2, <1>3 DEF Configs
<1> HIDE DEF c
<1>5. \A q \in Panels : Kept(q)
  BY <1>1 DEF Kept
<1>6. Stored(p)' = Stored(p) /\ Registered(p)' = Registered(p)
  BY <1>1 DEF Stored, Registered
<1>7. CASE ~Stored(p)
  <2>1. task' \in [Workers -> Tasks \cup {Idle}] /\ Works(w, p)
    BY <1>1, <1>5, <1>7, Underway, Ending DEF Progress
  <2> QED BY <1>1, <2>1 DEF TypeOK
<1>8. CASE Stored(p)
  <2>1. ASSUME p \notin excused, Progress(task[w], p),
               task'[w].at = "rewrite", task'[w].op = task[w].op, task'[w].want = c
        PROVE  Progress(task[w], p)'
    BY <1>1, <1>2, <1>4, <1>6, <2>1 DEF Progress
  <2>2. task' \in [Workers -> Tasks \cup {Idle}] /\ Works(w, p)
    BY <1>1, <1>2, <1>5, <1>8, <2>1, Turning DEF Steps, Cascading
  <2> QED BY <1>1, <2>2 DEF TypeOK
<1> QED BY <1>7, <1>8

LEMMA RewriteWorks ==
  ASSUME NEW w \in Workers, NEW p \in Panels, Working(w, p), Rewrite(w)
  PROVE  TypeOK' /\ Works(w, p)
<1>1. /\ Busy(w) /\ task[w].at = "rewrite" /\ Update(p, task[w].want) /\ End(w)
      /\ UNCHANGED <<dashboards, live, used, cron, excused>>
  BY Underway DEF Rewrite, At
<1>2. \A q \in Panels \ {p} : Kept(q)
  BY <1>1, Underway, Updated DEF Kept
<1>3. ASSUME p \notin excused PROVE Agree(p)'
  <2>1. /\ Stored(p) /\ Registered(p) /\ task[w].want \in Configs
        /\ task[w].want.body \notin Rejected => live[p] = task[w].want
    BY <1>1, <1>3, Underway DEF Progress
  <2>2. /\ Stored(p)' /\ Registered(p)' /\ live'[p] = live[p]
        /\ row'[p].body = task[w].want.body /\ row'[p].on = task[w].want.on
    BY <1>1, <2>1, Underway, Updated DEF Registered
  <2>3. Config(p)' = task[w].want
    BY <2>1, <2>2 DEF Config, Configs
  <2> QED BY <2>1, <2>2, <2>3 DEF Agree
<1>4. task' \in [Workers -> Tasks \cup {Idle}] /\ Works(w, p)
  BY <1>1, <1>2, <1>3, Ending
<1> QED BY <1>1, <1>4, Underway, Updated DEF TypeOK

LEMMA DropWorks ==
  ASSUME NEW w \in Workers, NEW p \in Panels, Working(w, p), Drop(w)
  PROVE  TypeOK' /\ Works(w, p)
<1>1. /\ Busy(w) /\ task[w].at = "drop" /\ Goto(w, "erase") /\ TypeOK
      /\ live' = [live EXCEPT ![p] = NoRule]
      /\ UNCHANGED <<dashboards, row, used, cron, excused>>
  BY Underway DEF Drop, At
<1>2. /\ live' \in [Panels -> [body : Bodies \ Rejected, on : BOOLEAN] \cup {NoRule}]
      /\ \A q \in Panels \ {p} : Kept(q)
      /\ ~Registered(p)'
  BY <1>1 DEF Kept, TypeOK, Registered
<1>3. task' \in [Workers -> Tasks \cup {Idle}] /\ Works(w, p)
  BY <1>1, <1>2, Moving DEF Steps, Cascading, Progress
<1> QED BY <1>1, <1>2, <1>3 DEF TypeOK

LEMMA EraseWorks ==
  ASSUME NEW w \in Workers, NEW p \in Panels, Working(w, p), Erase(w)
  PROVE  TypeOK' /\ Works(w, p)
<1>1. /\ Busy(w) /\ task[w].at = "erase" /\ End(w) /\ TypeOK
      /\ row' = [row EXCEPT ![p] = NoRow]
      /\ UNCHANGED <<dashboards, live, used, cron, excused>>
  BY Underway DEF Erase, At
<1>2. /\ row' \in [Panels -> Rows] /\ row'[p] = NoRow
      /\ \A q \in Panels \ {p} : Kept(q)
  BY <1>1 DEF Kept, TypeOK, Rows
<1>3. NoRow.on = FALSE
  BY DEF NoRow
<1>4. p \notin excused => Agree(p)'
  BY <1>1, <1>2, <1>3, Underway DEF Progress, Agree, Registered
<1>5. task' \in [Workers -> Tasks \cup {Idle}] /\ Works(w, p)
  BY <1>1, <1>2, <1>4, Ending
<1> QED BY <1>1, <1>2, <1>5 DEF TypeOK

LEMMA InsertWorks ==
  ASSUME NEW w \in Workers, NEW p \in Panels, Working(w, p), Insert(w)
  PROVE  TypeOK' /\ Works(w, p)
<1> DEFINE r == [dash |-> task[w].dash, body |-> task[w].want.body, on |-> task[w].want.on]
<1>1. /\ Busy(w) /\ task[w].at = "insert" /\ Goto(w, "register") /\ TypeOK
      /\ row' = [row EXCEPT ![p] = r]
      /\ UNCHANGED <<dashboards, live, used, cron, excused>>
  BY Underway DEF Insert, At
<1>2. task[w].want \in Configs /\ task[w].dash \in Dashboards
  BY <1>1, Underway
<1>3. NoRow.dash = "none"
  BY DEF NoRow
<1>4. r \in Rows /\ r # NoRow /\ [body |-> r.body, on |-> r.on] = task[w].want
  BY <1>2, <1>3, PanelsAssumption DEF Rows, Configs
<1> HIDE DEF r
<1>5. /\ row' \in [Panels -> Rows] /\ Stored(p)' /\ Config(p)' = task[w].want
      /\ \A q \in Panels \ {p} : Kept(q)
  BY <1>1, <1>4 DEF Kept, TypeOK, Stored, Config
<1>6. Registered(p)' = Registered(p)
  BY <1>1 DEF Registered
<1>7. task' \in [Workers -> Tasks \cup {Idle}] /\ Works(w, p)
  BY <1>1, <1>5, <1>6, Moving DEF Steps, Cascading, Progress
<1> QED BY <1>1, <1>5, <1>7 DEF TypeOK

LEMMA RegisterCopyWorks ==
  ASSUME NEW w \in Workers, NEW p \in Panels, Working(w, p), RegisterCopy(w)
  PROVE  TypeOK' /\ Works(w, p)
<1>1. /\ Busy(w) /\ task[w].at = "register" /\ Register(p, task[w].want) /\ End(w) /\ TypeOK
      /\ UNCHANGED <<dashboards, row, used, cron, excused>>
  BY Underway DEF RegisterCopy, At
<1>2. /\ live' \in [Panels -> [body : Bodies \ Rejected, on : BOOLEAN] \cup {NoRule}]
      /\ \A q \in Panels \ {p} : Kept(q)
  BY <1>1, Underway, Registering DEF Kept
<1>3. ASSUME p \notin excused PROVE Agree(p)'
  <2>1. Stored(p) /\ Config(p) = task[w].want /\ ~Registered(p) /\ Config(p).body = row[p].body
    BY <1>1, <1>3, Underway DEF Progress, Config
  <2>2. Stored(p)' /\ Config(p)' = Config(p) /\ row'[p] = row[p]
    BY <1>1, <2>1 DEF Stored, Config
  <2>3. CASE Accepts(task[w].want.body)
    BY <1>1, <2>1, <2>2, <2>3, Underway, Registering DEF Agree
  <2>4. CASE ~Accepts(task[w].want.body)
    <3>1. ~Registered(p)'
      BY <1>1, <2>1, <2>4, Underway, Registering DEF Registered
    <3> QED BY <2>1, <2>2, <2>4, <3>1, PanelsAssumption DEF Agree, Accepts
  <2> QED BY <2>3, <2>4
<1>4. task' \in [Workers -> Tasks \cup {Idle}] /\ Works(w, p)
  BY <1>1, <1>2, <1>3, Ending
<1> QED BY <1>1, <1>2, <1>4 DEF TypeOK

LEMMA MoveRowWorks ==
  ASSUME NEW w \in Workers, NEW p \in Panels, Working(w, p), MoveRow(w)
  PROVE  TypeOK' /\ Works(w, p)
<1>1. /\ Busy(w) /\ task[w].at = "move" /\ End(w) /\ TypeOK /\ task[w].dash \in Dashboards
      /\ row' = IF Stored(p) THEN [row EXCEPT ![p].dash = task[w].dash] ELSE row
      /\ UNCHANGED <<dashboards, live, used, cron, excused>>
  BY Underway DEF MoveRow, At
<1>2. NoRow.dash = "none"
  BY DEF NoRow
<1>3. CASE ~Stored(p)
  <2>1. (Agree(p)' <=> Agree(p)) /\ \A q \in Panels : Kept(q)
    BY <1>1, <1>3 DEF Agree, Stored, Registered, Config, Kept
  <2>2. task' \in [Workers -> Tasks \cup {Idle}] /\ Works(w, p)
    BY <1>1, <2>1, Underway, Ending DEF Progress
  <2> QED BY <1>1, <1>3, <2>2 DEF TypeOK
<1>4. CASE Stored(p)
  <2> DEFINE r == [row[p] EXCEPT !.dash = task[w].dash]
  <2>1. row[p] \in [dash : Dashboards, body : Bodies \cup {"blank"}, on : BOOLEAN]
    BY <1>1, <1>4 DEF TypeOK, Rows, Stored
  <2>2. r \in Rows /\ r.dash = task[w].dash /\ r.body = row[p].body /\ r.on = row[p].on
    BY <1>1, <2>1 DEF Rows
  <2>3. r # NoRow /\ row' = [row EXCEPT ![p] = r]
    BY <1>1, <1>2, <1>4, <2>2, PanelsAssumption
  <2> HIDE DEF r
  <2>4. row' \in [Panels -> Rows] /\ row'[p] = r /\ \A q \in Panels \ {p} : Kept(q)
    BY <1>1, <2>2, <2>3 DEF TypeOK, Kept
  <2>5. Stored(p)' /\ Config(p)' = Config(p) /\ Registered(p)' = Registered(p)
    BY <1>1, <2>2, <2>3, <2>4 DEF Stored, Config, Registered
  <2>6. Agree(p)' <=> Agree(p)
    BY <1>1, <1>4, <2>2, <2>4, <2>5 DEF Agree
  <2>7. task' \in [Workers -> Tasks \cup {Idle}] /\ Works(w, p)
    BY <1>1, <2>4, <2>6, Underway, Ending DEF Progress
  <2> QED BY <1>1, <2>4, <2>7 DEF TypeOK
<1> QED BY <1>3, <1>4

-----------------------------------------------------------------------------
(* One step of the deletion of a dashboard.                                 *)

Sweeps(w) ==
  /\ \A v \in Workers \ {w} : task'[v] = task[v]
  /\ excused' = excused /\ used' = used
  /\ \A p \in Panels \ used : ~Stored(p)' /\ ~Registered(p)'
  /\ \/ task'[w] = Idle /\ \A p \in Panels \ excused : Agree(p)'
     \/ /\ Busy(w)' /\ task'[w].on = Panels /\ task'[w].left \subseteq used
        /\ task'[w].at \in Cascading
        /\ \A p \in Panels \ excused : Progress(task[w], p)'

LEMMA SweepsKeeps ==
  ASSUME IInv, NEW w \in Workers, Busy(w), task[w].on = Panels, Sweeps(w)
  PROVE  Shapes' /\ Validated' /\ Sole' /\ Attended'
<1>1. /\ \A v \in Workers \ {w} : task'[v] = task[v]
      /\ excused' = excused /\ used' = used
      /\ task'[w] = Idle \/ (task'[w] # Idle /\ task'[w].on = Panels /\ task'[w].left \subseteq used
                             /\ task'[w].at \in Cascading)
  BY DEF Sweeps, Busy
<1>2. \A p \in Panels \ excused : \A v \in Workers \ {w} : p \notin task'[v].on
  BY <1>1 DEF IInv, Sole
<1>3. Shapes'
  <2>1. ASSUME NEW v \in Workers, Busy(v)' PROVE Shape(task[v])'
    <3>1. CASE v = w
      BY <3>1, <2>1, <1>1 DEF Shape, Busy
    <3>2. CASE v # w
      BY <3>2, <2>1, <1>1 DEF IInv, Shapes, Shape, Busy
    <3> QED BY <3>1, <3>2
  <2> QED BY <1>1, <2>1 DEF Shapes, Sweeps
<1>4. Validated'
  BY <1>1 DEF IInv, Validated, At, Busy, Cascading
<1>5. Sole'
  BY <1>1, <1>2 DEF IInv, Sole
<1>6. Attended'
  <2> SUFFICES ASSUME NEW p \in Panels \ excused
               PROVE  IF p \in Touched' THEN \A v \in Workers : p \in task'[v].on => Progress(task[v], p)'
                      ELSE Agree(p)'
    BY <1>1 DEF Attended
  <2>1. CASE task'[w] = Idle
    <3>1. p \notin Touched'
      BY <1>2, <2>1 DEF Touched, Idle
    <3> QED BY <2>1, <3>1 DEF Sweeps, Busy
  <2>2. CASE task'[w] # Idle
    <3>1. p \in Touched'
      BY <1>1, <2>2 DEF Touched
    <3> QED BY <1>2, <2>2, <3>1 DEF Sweeps
  <2> QED BY <2>1, <2>2
<1> QED BY <1>3, <1>4, <1>5, <1>6

\* How a cascade stands.
LEMMA Sweeping ==
  ASSUME IInv, NEW w \in Workers, Busy(w), task[w].at \in Cascading
  PROVE  /\ TypeOK /\ task[w] \in Tasks /\ task[w].on = Panels /\ task[w].left \subseteq used
         /\ \A p \in Panels \ used : ~Stored(p) /\ ~Registered(p)
         /\ \A p \in Panels \ excused : Progress(task[w], p)
<1>1. /\ TypeOK /\ task[w] \in Tasks /\ task[w].on = Panels /\ task[w].left \subseteq used
      /\ \A p \in Panels \ used : ~Stored(p) /\ ~Registered(p)
  BY Tasked DEF IInv, Shapes, Shape
<1>2. \A p \in Panels \ excused : p \in Touched
  BY <1>1 DEF Touched
<1> QED BY <1>1, <1>2 DEF IInv, Attended

LEMMA CountSweeps ==
  ASSUME IInv, NEW w \in Workers, Count(w)
  PROVE  TypeOK' /\ Busy(w) /\ task[w].on = Panels /\ Sweeps(w)
<1>1. Busy(w) /\ task[w].at = "count" /\ UNCHANGED <<dashboards, row, live, used, cron, excused>>
  BY DEF Count, At
<1>2. /\ TypeOK /\ task[w].on = Panels /\ task[w].left \subseteq used
      /\ \A p \in Panels \ used : ~Stored(p)' /\ ~Registered(p)'
      /\ \A p \in Panels \ excused : Progress(task[w], p)
  BY <1>1, Sweeping DEF Cascading, Stored, Registered
<1>3. \A p \in Panels \ excused : Agree(p)'
  BY <1>1, <1>2 DEF Progress, Agree, Stored, Registered, Config
<1>4. CASE End(w)
  BY <1>1, <1>2, <1>3, <1>4, Tasked DEF TypeOK, Sweeps
<1>5. CASE Goto(w, "collect")
  <2>1. /\ task' \in [Workers -> Tasks \cup {Idle}] /\ Busy(w)'
        /\ \A v \in Workers \ {w} : task'[v] = task[v]
        /\ task'[w].at = "collect" /\ task'[w].on = Panels /\ task'[w].left \subseteq used
    BY <1>1, <1>2, <1>5, Tasked DEF Steps
  <2>2. \A p \in Panels \ excused : Progress(task[w], p)'
    BY <1>3, <2>1 DEF Progress
  <2> QED BY <1>1, <1>2, <2>1, <2>2 DEF TypeOK, Sweeps, Cascading
<1> QED BY <1>4, <1>5 DEF Count

LEMMA CollectSweeps ==
  ASSUME IInv, NEW w \in Workers, Collect(w)
  PROVE  TypeOK' /\ Busy(w) /\ task[w].on = Panels /\ Sweeps(w)
<1> DEFINE t == [task[w] EXCEPT !.at = "cascade", !.left = Housed(task[w].dash)]
<1>1. /\ Busy(w) /\ task[w].at = "collect" /\ UNCHANGED <<dashboards, row, live, used, cron, excused>>
      /\ task' = [task EXCEPT ![w] = t]
  BY DEF Collect, At
<1>2. /\ TypeOK /\ task[w] \in Tasks /\ task[w].on = Panels
      /\ \A p \in Panels \ used : ~Stored(p) /\ ~Registered(p)
      /\ \A p \in Panels \ excused : Progress(task[w], p)
  BY <1>1, Sweeping DEF Cascading
<1>3. \A p \in Panels \ excused : Agree(p)'
  BY <1>1, <1>2 DEF Progress, Agree, Stored, Registered, Config
<1>4. Housed(task[w].dash) \subseteq Panels /\ Housed(task[w].dash) \subseteq used
  BY <1>2 DEF Housed
<1>5. t \in Tasks
  BY <1>2, <1>4 DEF Tasks, Steps
<1>6. t.at = "cascade" /\ t.on = Panels /\ t.dash = task[w].dash /\ t.left = Housed(task[w].dash)
  BY <1>2 DEF Tasks
<1>7. t # Idle
  BY <1>5 DEF Idle, Tasks, Ops
<1> HIDE DEF t
<1>8. /\ task' \in [Workers -> Tasks \cup {Idle}] /\ Busy(w)'
      /\ \A v \in Workers \ {w} : task'[v] = task[v]
      /\ task'[w] = t
  BY <1>1, <1>2, <1>5, <1>7 DEF TypeOK, Busy
<1>9. \A d : Housed(d)' = Housed(d)
  BY <1>1 DEF Housed, Stored
<1>10. \A p \in Panels \ excused : Progress(task[w], p)'
  BY <1>3, <1>6, <1>8, <1>9 DEF Progress
<1>11. \A p \in Panels \ used : ~Stored(p)' /\ ~Registered(p)'
  BY <1>1, <1>2 DEF Stored, Registered
<1> QED BY <1>1, <1>2, <1>4, <1>6, <1>8, <1>10, <1>11 DEF TypeOK, Sweeps, Cascading

LEMMA CascadeSweeps ==
  ASSUME IInv, NEW w \in Workers, Cascade(w)
  PROVE  TypeOK' /\ Busy(w) /\ task[w].on = Panels /\ Sweeps(w)
<1> DEFINE d == task[w].dash
<1>1. Busy(w) /\ task[w].at = "cascade" /\ UNCHANGED <<live, used, cron, excused>>
  BY DEF Cascade, At
<1>2. /\ TypeOK /\ task[w].on = Panels /\ task[w].left \subseteq used
      /\ \A p \in Panels \ used : ~Stored(p) /\ ~Registered(p)
      /\ \A p \in Panels \ excused : Progress(task[w], p)
  BY <1>1, Sweeping DEF Cascading
<1>3. CASE d \notin dashboards
  <2>1. End(w) /\ UNCHANGED <<dashboards, row>>
    BY <1>3 DEF Cascade
  <2>2. \A p \in Panels \ excused : Agree(p)'
    BY <1>1, <1>2, <2>1 DEF Progress, Agree, Stored, Registered, Config
  <2>3. \A p \in Panels \ used : ~Stored(p)' /\ ~Registered(p)'
    BY <1>1, <1>2, <2>1 DEF Stored, Registered
  <2> QED BY <1>1, <1>2, <2>1, <2>2, <2>3, Tasked DEF TypeOK, Sweeps
<1>4. CASE d \in dashboards
  <2>1. /\ row' = [p \in Panels |-> IF p \in Housed(d) THEN NoRow ELSE row[p]]
        /\ dashboards' = dashboards \ {d} /\ Goto(w, "cleanup")
    BY <1>4 DEF Cascade
  <2>2. /\ task' \in [Workers -> Tasks \cup {Idle}] /\ Busy(w)'
        /\ \A v \in Workers \ {w} : task'[v] = task[v]
        /\ task'[w].at = "cleanup" /\ task'[w].on = Panels /\ task'[w].left = task[w].left
    BY <1>1, <1>2, <2>1, Tasked DEF Steps
  <2>3. row' \in [Panels -> Rows] /\ dashboards' \subseteq Dashboards
    BY <1>2, <2>1 DEF TypeOK, Rows
  <2>4. \A p \in Panels \ used : ~Stored(p)' /\ ~Registered(p)'
    BY <1>1, <1>2, <2>1 DEF Stored, Registered
  <2>5. ASSUME NEW p \in Panels \ excused PROVE Progress(task[w], p)'
    <3>1. /\ Agree(p)
          /\ p \in task[w].left => p \in Housed(d)
          /\ p \notin task[w].left /\ p \in Housed(d) => ~Registered(p)
      BY <1>1, <1>2 DEF Progress
    <3>2. CASE p \in Housed(d)
      <4>1. row'[p] = NoRow /\ NoRow.on = FALSE /\ (Registered(p)' <=> Registered(p))
        BY <1>1, <2>1, <3>2 DEF NoRow, Registered
      <4>2. ~Stored(p)' /\ (~Registered(p) => Agree(p)')
        BY <4>1 DEF Stored, Agree
      <4> QED BY <2>2, <3>1, <3>2, <4>2 DEF Progress
    <3>3. CASE p \notin Housed(d)
      <4>1. Kept(p)
        BY <1>1, <2>1, <3>3 DEF Kept
      <4>2. Agree(p)'
        BY <3>1, <4>1, Frame
      <4> QED BY <2>2, <3>1, <3>3, <4>2 DEF Progress
    <3> QED BY <3>2, <3>3
  <2> QED BY <1>1, <1>2, <2>2, <2>3, <2>4, <2>5 DEF TypeOK, Sweeps, Cascading
<1> QED BY <1>3, <1>4

LEMMA CleanupSweeps ==
  ASSUME IInv, NEW w \in Workers, Cleanup(w)
  PROVE  TypeOK' /\ Busy(w) /\ task[w].on = Panels /\ Sweeps(w)
<1>1. Busy(w) /\ task[w].at = "cleanup" /\ UNCHANGED <<dashboards, row, used, cron, excused>>
  BY DEF Cleanup, At
<1>2. /\ TypeOK /\ task[w] \in Tasks /\ task[w].on = Panels /\ task[w].left \subseteq used
      /\ \A p \in Panels \ used : ~Stored(p) /\ ~Registered(p)
      /\ \A p \in Panels \ excused : IF p \in task[w].left THEN ~Stored(p) ELSE Agree(p)
  BY <1>1, Sweeping DEF Cascading, Progress
<1>3. CASE task[w].left = {}
  <2>1. End(w) /\ UNCHANGED live
    BY <1>3 DEF Cleanup
  <2>2. \A p \in Panels \ excused : Agree(p)'
    BY <1>1, <1>2, <1>3, <2>1 DEF Agree, Stored, Registered, Config
  <2>3. \A p \in Panels \ used : ~Stored(p)' /\ ~Registered(p)'
    BY <1>1, <1>2, <2>1 DEF Stored, Registered
  <2> QED BY <1>1, <1>2, <2>1, <2>2, <2>3, Tasked DEF TypeOK, Sweeps
<1>4. CASE task[w].left # {}
  <2>1. PICK q \in task[w].left :
          /\ live' = [live EXCEPT ![q] = NoRule]
          /\ task' = [task EXCEPT ![w].left = @ \ {q}]
    BY <1>4 DEF Cleanup
  <2> DEFINE t == [task[w] EXCEPT !.left = task[w].left \ {q}]
  <2>2. task' = [task EXCEPT ![w] = t] /\ q \in Panels
    BY <1>2, <2>1 DEF Tasks
  <2>3. t \in Tasks
    BY <1>2 DEF Tasks
  <2>4. t.at = "cleanup" /\ t.on = Panels /\ t.left = task[w].left \ {q}
    BY <1>1, <1>2 DEF Tasks
  <2>5. t # Idle
    BY <2>3 DEF Idle, Tasks, Ops
  <2> HIDE DEF t
  <2>6. /\ task' \in [Workers -> Tasks \cup {Idle}] /\ Busy(w)'
        /\ \A v \in Workers \ {w} : task'[v] = task[v]
        /\ task'[w] = t
    BY <1>2, <2>2, <2>3, <2>5 DEF TypeOK, Busy
  <2>7. /\ live' \in [Panels -> [body : Bodies \ Rejected, on : BOOLEAN] \cup {NoRule}]
        /\ live'[q] = NoRule /\ \A p \in Panels \ {q} : Kept(p)
    BY <1>1, <1>2, <2>1, <2>2 DEF TypeOK, Kept
  <2>8. \A p \in Panels \ used : ~Stored(p)' /\ ~Registered(p)'
    BY <1>1, <1>2, <2>7 DEF Stored, Registered, Kept
  <2>9. ASSUME NEW p \in Panels \ excused PROVE Progress(task[w], p)'
    <3>1. CASE p = q
      <4>1. ~Stored(p)' /\ ~Registered(p)' /\ row'[p] = NoRow /\ NoRow.on = FALSE
        BY <1>1, <1>2, <2>7, <3>1 DEF Stored, Registered, NoRow
      <4>2. Agree(p)'
        BY <4>1 DEF Agree
      <4> QED BY <2>4, <2>6, <3>1, <4>2 DEF Progress
    <3>2. CASE p # q
      <4>1. (Agree(p)' <=> Agree(p)) /\ (Stored(p)' <=> Stored(p))
        BY <2>7, <3>2, Frame
      <4> QED BY <1>2, <2>4, <2>6, <3>2, <4>1 DEF Progress
    <3> QED BY <3>1, <3>2
  <2> QED BY <1>1, <1>2, <2>4, <2>6, <2>7, <2>8, <2>9 DEF TypeOK, Sweeps, Cascading
<1> QED BY <1>3, <1>4

-----------------------------------------------------------------------------
(* Requests.                                                                *)

\* A request on panels with which nobody is busy starts in step; on the others it
\* overlaps and is excused.
LEMMA Beginning ==
  ASSUME IInv, NEW w \in Workers, NEW STATE t, t \in Tasks, Begin(w, t),
         used \subseteq used', t.left = {}, t.at # "reschedule", t.at = "insert" => t.op = "copy",
         IF t.at \in Cascading THEN t.on = Panels ELSE \E p \in Panels : p \in used' /\ t.on = {p},
         \A p \in Panels \ t.on : Kept(p), \A p \in Panels \ used' : Kept(p),
         ASSUME NEW p \in t.on \ (excused \cup Touched), Agree(p), task'[w] = t
         PROVE  Progress(task[w], p)'
  PROVE  /\ task' \in [Workers -> Tasks \cup {Idle}] /\ excused' \subseteq Panels
         /\ Shapes' /\ Validated' /\ Sole' /\ Attended'
<1>1. t # Idle /\ t.on \subseteq Panels
  BY DEF Idle, Tasks, Ops
<1>2. /\ task' \in [Workers -> Tasks \cup {Idle}] /\ task'[w] = t /\ task[w] = Idle
      /\ \A v \in Workers \ {w} : task'[v] = task[v]
      /\ excused' = excused \cup (t.on \cap Touched) /\ excused' \subseteq Panels
  BY <1>1 DEF Begin, Busy, IInv, TypeOK
<1>3. Shapes'
  <2>1. \A p \in Panels \ used' : ~Stored(p)' /\ ~Registered(p)'
    BY Frame DEF IInv, Shapes
  <2>2. ASSUME NEW v \in Workers, Busy(v)' PROVE Shape(task[v])'
    <3>1. CASE v = w
      BY <3>1, <1>2 DEF Shape
    <3>2. CASE v # w
      BY <3>2, <2>2, <1>2 DEF IInv, Shapes, Shape, Busy
    <3> QED BY <3>1, <3>2
  <2> QED BY <2>1, <2>2 DEF Shapes
<1>4. Validated'
  BY <1>2 DEF IInv, Validated, At, Busy
<1>5. ASSUME NEW p \in t.on \ excused', NEW v \in Workers, v # w PROVE p \notin task'[v].on
  BY <1>2, <1>5 DEF Touched
<1>6. Sole'
  BY <1>1, <1>2, <1>5 DEF IInv, Sole
<1>7. Attended'
  <2> SUFFICES ASSUME NEW p \in Panels \ excused'
               PROVE  IF p \in Touched' THEN \A v \in Workers : p \in task'[v].on => Progress(task[v], p)'
                      ELSE Agree(p)'
    BY DEF Attended
  <2>1. CASE p \in t.on
    <3>1. p \notin Touched /\ p \notin excused
      BY <1>2, <2>1
    <3>2. Agree(p)
      BY <3>1 DEF IInv, Attended
    <3>3. Progress(task[w], p)'
      BY <1>2, <2>1, <3>1, <3>2
    <3>4. p \in Touched'
      BY <1>2, <2>1 DEF Touched
    <3> QED BY <1>5, <2>1, <3>3, <3>4
  <2>2. CASE p \notin t.on
    <3>1. \A v \in Workers : p \in task'[v].on <=> p \in task[v].on
      BY <1>2, <2>2 DEF Idle
    <3>2. p \in Touched' <=> p \in Touched
      BY <3>1 DEF Touched
    <3>3. \A v \in Workers : p \in task'[v].on => task'[v] = task[v]
      BY <1>2, <2>2
    <3> QED BY <1>2, <3>1, <3>2, <3>3, <2>2, Frame DEF IInv, Attended
  <2> QED BY <2>1, <2>2
<1> QED BY <1>2, <1>3, <1>4, <1>6, <1>7

\* A panel that is stored for the first time is in step, and out of the reach of
\* every deletion that has already collected its panels.
LEMMA Newcomer ==
  ASSUME IInv, NEW p \in Panels \ used, UNCHANGED <<task, excused>>, used \subseteq used', p \in used',
         \A q \in Panels \ {p} : Kept(q), ~Registered(p)', Agree(p)'
  PROVE  Shapes' /\ Validated' /\ Sole' /\ Attended'
<1>1. Shapes'
  BY Frame DEF IInv, Shapes, Shape, Busy
<1>2. Validated' /\ Sole'
  BY DEF IInv, Validated, Sole, At, Busy
<1>3. Attended'
  <2>1. ASSUME NEW v \in Workers, p \in task[v].on PROVE Progress(task[v], p)'
    <3>1. Busy(v)
      BY <2>1 DEF Busy, Idle
    <3>2. task[v].at \in Cascading /\ p \notin task[v].left
      BY <2>1, <3>1 DEF IInv, Shapes, Shape
    <3> QED BY <3>2 DEF Progress, Cascading
  <2>2. Touched' = Touched
    BY DEF Touched
  <2>3. ASSUME NEW q \in Panels \ excused, q # p
        PROVE  IF q \in Touched' THEN \A v \in Workers : q \in task'[v].on => Progress(task[v], q)'
               ELSE Agree(q)'
    BY <2>2, <2>3, Frame DEF IInv, Attended
  <2> QED BY <2>1, <2>2, <2>3 DEF Attended
<1> QED BY <1>1, <1>2, <1>3

\* A request that changes nothing yet.
LEMMA Asking ==
  ASSUME IInv, NEW w \in Workers, NEW STATE t, t \in Tasks, Begin(w, t), t.left = {},
         t.at \in {"fetch", "flip", "recover", "drop", "move", "count"},
         IF t.at = "count" THEN t.on = Panels ELSE \E p \in Panels \cap used : t.on = {p},
         UNCHANGED <<dashboards, row, live, used, cron>>,
         \A p \in t.on \ (excused \cup Touched) :
           /\ t.at = "fetch" /\ t.op \notin {"save", "title"} => t.want = Config(p)
           /\ t.at = "fetch" /\ t.op = "save" => t.want.body \in Bodies
           /\ t.at = "recover" => ~Registered(p)
  PROVE  IInv'
<1>1. \A p \in Panels : Kept(p)
  BY DEF Kept
<1>2. ASSUME NEW p \in t.on \ (excused \cup Touched), Agree(p), task'[w] = t
      PROVE  Progress(task[w], p)'
  <2>1. p \in Panels
    BY DEF Tasks
  <2>2. Agree(p)' /\ Config(p)' = Config(p) /\ Registered(p)' = Registered(p)
    BY <1>1, <1>2, <2>1, Frame DEF Config, Registered
  <2> QED BY <1>2, <2>2 DEF Progress
<1>3. /\ task' \in [Workers -> Tasks \cup {Idle}] /\ excused' \subseteq Panels
      /\ Shapes' /\ Validated' /\ Sole' /\ Attended'
  BY <1>1, <1>2, Beginning DEF Cascading
<1> QED BY <1>3 DEF IInv, TypeOK

LEMMA NothingTyped == NoRule \in Configs /\ Default \in Dashboards
  BY PanelsAssumption DEF NoRule, Configs

LEMMA RequestsKeep ==
  ASSUME IInv, NEW w \in Workers, NEW p \in Panels
  PROVE  /\ \A b \in Bodies, on \in BOOLEAN : Save(w, p, b, on) => IInv'
         /\ Pin(w, p) => IInv'
         /\ SaveTitle(w, p) => IInv'
         /\ \A on \in BOOLEAN : Toggle(w, p, on) => IInv'
         /\ PollStatus(w, p) => IInv'
         /\ DeletePanel(w, p) => IInv'
         /\ \A d \in Dashboards : MovePanel(w, p, d) => IInv'
<1>0. /\ "save" \in Ops /\ "pin" \in Ops /\ "title" \in Ops /\ "toggle" \in Ops /\ "status" \in Ops
      /\ "delete" \in Ops /\ "move" \in Ops /\ "fetch" \in Steps /\ "flip" \in Steps
      /\ "recover" \in Steps /\ "drop" \in Steps /\ "move" \in Steps /\ {p} \in SUBSET Panels
  BY DEF Ops, Steps
<1>1. ASSUME NEW b \in Bodies, NEW on \in BOOLEAN, Save(w, p, b, on) PROVE IInv'
  <2> DEFINE c == [body |-> b, on |-> on]
             t == Task("save", "fetch", {p}, c, Default)
  <2>1. c \in Configs /\ c.body = b
    BY DEF Configs
  <2>2. t \in Tasks /\ t.op = "save" /\ t.at = "fetch" /\ t.on = {p} /\ t.want.body = b /\ t.left = {}
    BY <1>0, <2>1, NothingTyped DEF Task, Tasks
  <2>3. p \in used /\ Begin(w, t) /\ UNCHANGED <<dashboards, row, live, used, cron>>
    BY <1>1 DEF Save
  <2> HIDE DEF t
  <2> QED BY <2>2, <2>3, Asking
<1>2. ASSUME Pin(w, p) PROVE IInv'
  <2> DEFINE t == Task("pin", "fetch", {p}, Config(p), Default)
  <2>1. Config(p) \in Configs /\ p \in used
    BY <1>2, Typed DEF IInv, Pin, Shapes
  <2>2. t \in Tasks /\ t.op = "pin" /\ t.at = "fetch" /\ t.on = {p} /\ t.want = Config(p) /\ t.left = {}
    BY <1>0, <2>1, NothingTyped DEF Task, Tasks
  <2>3. Begin(w, t) /\ UNCHANGED <<dashboards, row, live, used, cron>>
    BY <1>2 DEF Pin
  <2> HIDE DEF t
  <2> QED BY <2>1, <2>2, <2>3, Asking
<1>3. ASSUME SaveTitle(w, p) PROVE IInv'
  <2> DEFINE t == Task("title", "fetch", {p}, NoRule, Default)
  <2>1. t \in Tasks /\ t.op = "title" /\ t.at = "fetch" /\ t.on = {p} /\ t.left = {}
    BY <1>0, NothingTyped DEF Task, Tasks
  <2>2. p \in used /\ Begin(w, t) /\ UNCHANGED <<dashboards, row, live, used, cron>>
    BY <1>3 DEF SaveTitle
  <2> HIDE DEF t
  <2> QED BY <2>1, <2>2, Asking
<1>4. ASSUME NEW on \in BOOLEAN, Toggle(w, p, on) PROVE IInv'
  <2> DEFINE c == [body |-> "blank", on |-> on]
             t == Task("toggle", "flip", {p}, c, Default)
  <2>1. c \in Configs
    BY DEF Configs
  <2>2. t \in Tasks /\ t.op = "toggle" /\ t.at = "flip" /\ t.on = {p} /\ t.left = {}
    BY <1>0, <2>1, NothingTyped DEF Task, Tasks
  <2>3. p \in used /\ Begin(w, t) /\ UNCHANGED <<dashboards, row, live, used, cron>>
    BY <1>4 DEF Toggle
  <2> HIDE DEF t
  <2> QED BY <2>2, <2>3, Asking
<1>5. ASSUME PollStatus(w, p) PROVE IInv'
  <2> DEFINE t == Task("status", "recover", {p}, NoRule, Default)
  <2>1. t \in Tasks /\ t.op = "status" /\ t.at = "recover" /\ t.on = {p} /\ t.left = {}
    BY <1>0, NothingTyped DEF Task, Tasks
  <2>2. p \in used /\ Begin(w, t) /\ ~Registered(p) /\ UNCHANGED <<dashboards, row, live, used, cron>>
    BY <1>5 DEF PollStatus
  <2> HIDE DEF t
  <2> QED BY <2>1, <2>2, Asking
<1>6. ASSUME DeletePanel(w, p) PROVE IInv'
  <2> DEFINE t == Task("delete", "drop", {p}, NoRule, Default)
  <2>1. t \in Tasks /\ t.op = "delete" /\ t.at = "drop" /\ t.on = {p} /\ t.left = {}
    BY <1>0, NothingTyped DEF Task, Tasks
  <2>2. p \in used /\ Begin(w, t) /\ UNCHANGED <<dashboards, row, live, used, cron>>
    BY <1>6 DEF DeletePanel
  <2> HIDE DEF t
  <2> QED BY <2>1, <2>2, Asking
<1>7. ASSUME NEW d \in Dashboards, MovePanel(w, p, d) PROVE IInv'
  <2> DEFINE t == Task("move", "move", {p}, NoRule, d)
  <2>1. t \in Tasks /\ t.op = "move" /\ t.at = "move" /\ t.on = {p} /\ t.left = {}
    BY <1>0, NothingTyped DEF Task, Tasks
  <2>2. p \in used /\ Begin(w, t) /\ UNCHANGED <<dashboards, row, live, used, cron>>
    BY <1>7 DEF MovePanel, IInv, Shapes
  <2> HIDE DEF t
  <2> QED BY <2>1, <2>2, Asking
<1> QED BY <1>1, <1>2, <1>3, <1>4, <1>5, <1>6, <1>7

LEMMA DeleteDashboardKeeps ==
  ASSUME IInv, NEW w \in Workers, NEW d \in Dashboards, DeleteDashboard(w, d)
  PROVE  IInv'
<1> DEFINE t == Task("cascade", "count", Panels, NoRule, d)
<1>0. "cascade" \in Ops /\ "count" \in Steps /\ Panels \in SUBSET Panels
  BY DEF Ops, Steps
<1>1. t \in Tasks /\ t.op = "cascade" /\ t.at = "count" /\ t.on = Panels /\ t.left = {}
  BY <1>0, NothingTyped DEF Task, Tasks
<1>2. Begin(w, t) /\ UNCHANGED <<dashboards, row, live, used, cron>>
  BY DEF DeleteDashboard
<1> HIDE DEF t
<1> QED BY <1>1, <1>2, Asking

\* A copy is given its id before anything is stored or registered under it.
LEMMA CopyKeeps ==
  ASSUME IInv, NEW w \in Workers, NEW p \in Panels, NEW q \in Panels, NEW d \in Dashboards,
         Copy(w, p, q, d)
  PROVE  IInv'
<1> DEFINE t == Task("copy", "insert", {q}, Config(p), d)
<1>1. /\ q \notin used /\ used' = used \cup {q} /\ cron' \subseteq Panels /\ Begin(w, t)
      /\ UNCHANGED <<dashboards, row, live>>
  BY DEF Copy, IInv, TypeOK
<1>2. Config(p) \in Configs
  BY Typed DEF IInv
<1>0. "copy" \in Ops /\ "insert" \in Steps /\ {q} \in SUBSET Panels
  BY DEF Ops, Steps
<1>3. t \in Tasks /\ t.op = "copy" /\ t.at = "insert" /\ t.on = {q} /\ t.left = {}
  BY <1>0, <1>2 DEF Task, Tasks
<1> HIDE DEF t
<1>4. ~Stored(q)' /\ ~Registered(q)'
  BY <1>1 DEF IInv, Shapes, Stored, Registered
<1>5. ASSUME task'[w] = t PROVE Progress(task[w], q)'
  BY <1>3, <1>4, <1>5 DEF Progress
<1>6. /\ task' \in [Workers -> Tasks \cup {Idle}] /\ excused' \subseteq Panels
      /\ Shapes' /\ Validated' /\ Sole' /\ Attended'
  BY <1>1, <1>3, <1>5, Beginning DEF Cascading, Kept
<1> QED BY <1>1, <1>6 DEF IInv, TypeOK

\* A trip switches an enabled rule off, which the callback then stores.
LEMMA TripKeeps ==
  ASSUME IInv, NEW w \in Workers, NEW p \in Panels, Trip(w, p)
  PROVE  IInv'
<1> DEFINE t == Task("trip", "reread", {p}, NoRule, Default)
           c == [live[p] EXCEPT !.on = FALSE]
<1>1. /\ live[p].on /\ live' = [live EXCEPT ![p] = c] /\ Begin(w, t)
      /\ UNCHANGED <<dashboards, row, used, cron>>
  BY DEF Trip
<1>2. NoRule.on = FALSE /\ NoRule.body = "blank"
  BY DEF NoRule
<1>3. Registered(p) /\ p \in used
  BY <1>1, <1>2 DEF Registered, IInv, Shapes
<1>4. live[p] \in [body : Bodies \ Rejected, on : BOOLEAN]
  BY <1>3 DEF IInv, TypeOK, Registered
<1>5. c \in [body : Bodies \ Rejected, on : BOOLEAN] /\ c.body = live[p].body /\ c.on = FALSE
  BY <1>4
<1>0. "trip" \in Ops /\ "reread" \in Steps /\ {p} \in SUBSET Panels
  BY DEF Ops, Steps
<1>6. t \in Tasks /\ t.op = "trip" /\ t.at = "reread" /\ t.on = {p} /\ t.want = NoRule /\ t.left = {}
  BY <1>0, NothingTyped DEF Task, Tasks
<1> HIDE DEF t, c
<1>7. /\ live' \in [Panels -> [body : Bodies \ Rejected, on : BOOLEAN] \cup {NoRule}]
      /\ live'[p] = c /\ Registered(p)' /\ \A q \in Panels \ {p} : Kept(q)
  BY <1>1, <1>2, <1>5, PanelsAssumption DEF IInv, TypeOK, Registered, Kept
<1>8. ASSUME Agree(p), task'[w] = t PROVE Progress(task[w], p)'
  <2>1. (Stored(p)' <=> Stored(p)) /\ row'[p] = row[p]
    BY <1>1 DEF Stored
  <2>2. ~Stored(p) => row[p].body \notin Rejected
    BY PanelsAssumption DEF Stored, NoRow
  <2>3. Config(p).body = row[p].body
    BY DEF Config
  <2>4. Stored(p) /\ (row[p].body \notin Rejected => live[p].body = row[p].body)
    BY <1>3, <1>8, <2>2, <2>3 DEF Agree
  <2> QED BY <1>2, <1>5, <1>6, <1>7, <1>8, <2>1, <2>4 DEF Progress
<1>9. /\ task' \in [Workers -> Tasks \cup {Idle}] /\ excused' \subseteq Panels
      /\ Shapes' /\ Validated' /\ Sole' /\ Attended'
  BY <1>1, <1>3, <1>6, <1>7, <1>8, Beginning DEF Cascading
<1> QED BY <1>1, <1>7, <1>9 DEF IInv, TypeOK

LEMMA CreatePanelKeeps ==
  ASSUME IInv, NEW p \in Panels, NEW d \in Dashboards, CreatePanel(p, d)
  PROVE  IInv'
<1> DEFINE r == [dash |-> d, body |-> "blank", on |-> FALSE]
<1>1. /\ p \notin used /\ row' = [row EXCEPT ![p] = r] /\ used' = used \cup {p} /\ cron' \subseteq Panels
      /\ UNCHANGED <<dashboards, live, task, excused>>
  BY DEF CreatePanel, IInv, TypeOK
<1>2. NoRow.dash = "none"
  BY DEF NoRow
<1>3. r \in Rows /\ r # NoRow /\ r.on = FALSE
  BY <1>2, PanelsAssumption DEF Rows
<1> HIDE DEF r
<1>4. row' \in [Panels -> Rows] /\ row'[p] = r /\ \A q \in Panels \ {p} : Kept(q)
  BY <1>1, <1>3 DEF IInv, TypeOK, Kept
<1>5. ~Registered(p)'
  BY <1>1 DEF IInv, Shapes, Registered
<1>6. Agree(p)'
  BY <1>3, <1>4, <1>5 DEF Agree
<1>7. Shapes' /\ Validated' /\ Sole' /\ Attended'
  BY <1>1, <1>4, <1>5, <1>6, Newcomer
<1> QED BY <1>1, <1>4, <1>7 DEF IInv, TypeOK

\* The transaction stores the panel; a rule that can be loaded is registered next.
LEMMA ImportKeeps ==
  ASSUME IInv, NEW w \in Workers, NEW d \in Dashboards, NEW p \in Panels, NEW b \in Bodies,
         NEW on \in BOOLEAN, ImportDashboard(w, d, p, b, on)
  PROVE  IInv'
<1> DEFINE c == [body |-> b, on |-> on]
           r == [dash |-> d, body |-> b, on |-> on]
           t == Task("import", "register", {p}, c, d)
<1>1. /\ p \notin used /\ row' = [row EXCEPT ![p] = r] /\ used' = used \cup {d, p} /\ cron' \subseteq Panels
      /\ dashboards' \subseteq Dashboards /\ UNCHANGED live
      /\ IF b \in Loadable THEN Begin(w, t) ELSE UNCHANGED <<task, excused>>
  BY DEF ImportDashboard, IInv, TypeOK
<1>2. NoRow.dash = "none"
  BY DEF NoRow
<1>3. /\ r \in Rows /\ r # NoRow /\ r.body = b /\ r.on = on /\ [body |-> r.body, on |-> r.on] = c
      /\ c \in Configs
  BY <1>2, PanelsAssumption DEF Rows, Configs
<1>4. "import" \in Ops /\ "register" \in Steps /\ {p} \in SUBSET Panels
  BY DEF Ops, Steps
<1>5. /\ t \in Tasks /\ t.op = "import" /\ t.at = "register" /\ t.on = {p} /\ t.want = c /\ t.left = {}
  BY <1>3, <1>4 DEF Task, Tasks
<1> HIDE DEF r, t, c
<1>6. /\ row' \in [Panels -> Rows] /\ row'[p] = r /\ \A q \in Panels \ {p} : Kept(q)
  BY <1>1, <1>3 DEF IInv, TypeOK, Kept
<1>7. ~Registered(p)' /\ Stored(p)' /\ Config(p)' = c
  BY <1>1, <1>3, <1>6 DEF IInv, Shapes, Registered, Stored, Config
<1>8. CASE b \notin Loadable
  <2>1. Agree(p)'
    BY <1>3, <1>6, <1>7, <1>8 DEF Agree
  <2>2. Shapes' /\ Validated' /\ Sole' /\ Attended'
    BY <1>1, <1>6, <1>7, <1>8, <2>1, Newcomer
  <2> QED BY <1>1, <1>6, <1>8, <2>2 DEF IInv, TypeOK
<1>9. CASE b \in Loadable
  <2>1. ASSUME task'[w] = t PROVE Progress(task[w], p)'
    BY <1>5, <1>7, <2>1 DEF Progress
  <2>2. /\ task' \in [Workers -> Tasks \cup {Idle}] /\ excused' \subseteq Panels
        /\ Shapes' /\ Validated' /\ Sole' /\ Attended'
    BY <1>1, <1>5, <1>6, <1>9, <2>1, Beginning DEF Cascading
  <2> QED BY <1>1, <1>6, <2>2 DEF IInv, TypeOK
<1> QED BY <1>8, <1>9

LEMMA UnregisterKeeps ==
  ASSUME IInv, NEW p \in Panels, Unregister(p)
  PROVE  IInv'
<1>1. /\ live' = [live EXCEPT ![p] = NoRule] /\ excused' = excused \cup {p}
      /\ UNCHANGED <<dashboards, row, task, used, cron>>
  BY DEF Unregister
<1>2. /\ live' \in [Panels -> [body : Bodies \ Rejected, on : BOOLEAN] \cup {NoRule}]
      /\ live'[p] = NoRule /\ \A q \in Panels \ {p} : Kept(q)
  BY <1>1 DEF IInv, TypeOK, Kept
<1>3. TypeOK'
  BY <1>1, <1>2 DEF IInv, TypeOK
<1>4. Shapes'
  BY <1>1, <1>2 DEF IInv, Shapes, Shape, Busy, Stored, Registered, Kept
<1>5. Validated' /\ Sole'
  BY <1>1 DEF IInv, Validated, Sole, At, Busy
<1>6. Attended'
  BY <1>1, <1>2, Frame DEF IInv, Attended, Touched
<1> QED BY <1>3, <1>4, <1>5, <1>6 DEF IInv

LEMMA CreateDashboardKeeps ==
  ASSUME IInv, NEW d \in Dashboards, CreateDashboard(d)
  PROVE  IInv'
<1>1. /\ dashboards' = dashboards \cup {d} /\ used' = used \cup {d}
      /\ UNCHANGED <<row, live, task, cron, excused>>
  BY DEF CreateDashboard
<1>2. TypeOK'
  BY <1>1 DEF IInv, TypeOK
<1>3. Shapes'
  BY <1>1 DEF IInv, Shapes, Shape, Busy, Stored, Registered
<1>4. Validated' /\ Sole'
  BY <1>1 DEF IInv, Validated, Sole, At, Busy
<1>5. Attended'
  BY <1>1, Frame DEF IInv, Attended, Touched, Kept
<1> QED BY <1>2, <1>3, <1>4, <1>5 DEF IInv

\* The loaders register what the rows hold.
LEMMA RestartKeeps == ASSUME IInv, Restart PROVE IInv'
<1>1. /\ live' = [p \in Panels |-> Loaded(p)] /\ dashboards' = dashboards \cup {Default}
      /\ task' = [w \in Workers |-> Idle] /\ excused' = {} /\ UNCHANGED <<row, used, cron>>
  BY DEF Restart
<1>2. \A p \in Panels : ~Stored(p) => row[p].body = "blank" /\ row[p].on = FALSE
  BY DEF Stored, NoRow
<1>3. ASSUME NEW p \in Panels
      PROVE  /\ Loaded(p) \in [body : Bodies \ Rejected, on : BOOLEAN] \cup {NoRule}
             /\ Agree(p)' /\ (~Stored(p) => ~Registered(p)')
  <2>1. live'[p] = Loaded(p) /\ Stored(p)' = Stored(p) /\ Config(p)' = Config(p) /\ row'[p] = row[p]
    BY <1>1 DEF Stored, Config
  <2>2. Config(p) \in Configs /\ Config(p).body = row[p].body
    BY Typed DEF IInv, Config
  <2>3. NoRule.body = "blank"
    BY DEF NoRule
  <2>4. CASE row[p].body \in Loadable /\ row[p].body \notin Rejected
    <3>1. Loaded(p) = Config(p) /\ Stored(p) /\ row[p].body \in Bodies
      BY <1>2, <2>4, PanelsAssumption DEF Loaded, Accepts
    <3>2. Registered(p)'
      BY <2>1, <2>2, <2>3, <3>1, PanelsAssumption DEF Registered
    <3> QED BY <2>1, <2>2, <2>4, <3>1, <3>2 DEF Agree, Configs
  <2>5. CASE ~(row[p].body \in Loadable /\ row[p].body \notin Rejected)
    <3>1. Loaded(p) = NoRule
      BY <2>5 DEF Loaded, Accepts
    <3>2. ~Registered(p)'
      BY <2>1, <3>1 DEF Registered
    <3> QED BY <2>1, <2>5, <3>1, <3>2 DEF Agree
  <2> QED BY <2>4, <2>5
<1>4. TypeOK'
  BY <1>1, <1>3, PanelsAssumption DEF IInv, TypeOK
<1>5. \A w \in Workers : ~Busy(w)' /\ task'[w].on = {}
  BY <1>1 DEF Busy, Idle
<1>6. Shapes'
  BY <1>1, <1>3, <1>5 DEF IInv, Shapes, Stored
<1>7. Validated' /\ Sole'
  BY <1>5 DEF Validated, At, Sole
<1>8. Attended'
  BY <1>3, <1>5 DEF Attended, Touched
<1> QED BY <1>4, <1>6, <1>7, <1>8 DEF IInv

-----------------------------------------------------------------------------
(* The invariant, and the theorems.                                         *)

LEMMA HandlerKeeps ==
  ASSUME IInv, NEW w \in Workers, Handler(w)
  PROVE  IInv'
<1>1. CASE Count(w) \/ Collect(w) \/ Cascade(w) \/ Cleanup(w)
  <2>1. TypeOK' /\ Busy(w) /\ task[w].on = Panels /\ Sweeps(w)
    BY <1>1, CountSweeps, CollectSweeps, CascadeSweeps, CleanupSweeps
  <2> QED BY <2>1, SweepsKeeps DEF IInv
<1>2. CASE ~(Count(w) \/ Collect(w) \/ Cascade(w) \/ Cleanup(w))
  <2>1. Busy(w) /\ task[w].at \notin Cascading
    BY <1>2 DEF Handler, At, Cascading, Fetch, Store, Apply, Upsert, Flip, Reschedule, Recover,
                Readd, Reread, Rewrite, Drop, Erase, Insert, RegisterCopy, MoveRow
  <2>2. PICK p \in Panels \cap used : Panel(w) = p /\ Working(w, p)
    BY <2>1, Placed DEF Working
  <2>3. TypeOK' /\ Works(w, p)
    BY <1>2, <2>2, FetchWorks, StoreWorks, ApplyWorks, UpsertWorks, FlipWorks, RescheduleWorks,
       RecoverWorks, ReaddWorks, RereadWorks, RewriteWorks, DropWorks, EraseWorks, InsertWorks,
       RegisterCopyWorks, MoveRowWorks DEF Handler
  <2> QED BY <2>1, <2>2, <2>3, WorksKeeps DEF IInv, Working
<1> QED BY <1>1, <1>2

LEMMA Initially == Init => IInv
<1> SUFFICES ASSUME Init PROVE IInv
  OBVIOUS
<1>1. TypeOK
  BY PanelsAssumption DEF Init, TypeOK, Rows
<1>2. \A w \in Workers : ~Busy(w) /\ task[w].on = {}
  BY DEF Init, Busy, Idle
<1>3. \A p \in Panels : ~Stored(p) /\ ~Registered(p)
  BY DEF Init, Stored, Registered
<1>4. \A p \in Panels : Agree(p)
  BY <1>3 DEF Agree, Init, NoRow
<1> QED BY <1>1, <1>2, <1>3, <1>4 DEF IInv, Shapes, Validated, At, Sole, Attended, Touched

LEMMA Invariance == IInv /\ [Next]_vars => IInv'
<1> SUFFICES ASSUME IInv, [Next]_vars PROVE IInv'
  OBVIOUS
<1>1. CASE UNCHANGED vars
  <2>1. /\ UNCHANGED <<dashboards, row, live, task, used, cron, excused>>
    BY <1>1 DEF vars
  <2>2. TypeOK' /\ Shapes' /\ Validated' /\ Sole'
    BY <2>1 DEF IInv, TypeOK, Shapes, Shape, Validated, Sole, Busy, At, Stored, Registered
  <2>3. Attended'
    BY <2>1, Frame DEF IInv, Attended, Touched, Kept
  <2> QED BY <2>2, <2>3 DEF IInv
<1>2. ASSUME NEW w \in Workers, Handler(w) PROVE IInv'
  BY <1>2, HandlerKeeps
<1>3. ASSUME NEW w \in Workers, NEW p \in Panels,
             \/ Pin(w, p) \/ SaveTitle(w, p) \/ PollStatus(w, p) \/ DeletePanel(w, p) \/ Trip(w, p)
             \/ \E on \in BOOLEAN : Toggle(w, p, on) \/ \E b \in Bodies : Save(w, p, b, on)
             \/ \E d \in Dashboards : MovePanel(w, p, d) \/ \E q \in Panels : Copy(w, p, q, d)
             \/ \E d \in Dashboards, b \in Bodies, on \in BOOLEAN : ImportDashboard(w, d, p, b, on)
      PROVE  IInv'
  BY <1>3, RequestsKeep, TripKeeps, CopyKeeps, ImportKeeps
<1>4. ASSUME NEW w \in Workers, NEW d \in Dashboards, DeleteDashboard(w, d) PROVE IInv'
  BY <1>4, DeleteDashboardKeeps
<1>5. ASSUME NEW p \in Panels, Unregister(p) \/ \E d \in Dashboards : CreatePanel(p, d) PROVE IInv'
  BY <1>5, UnregisterKeeps, CreatePanelKeeps
<1>6. ASSUME NEW d \in Dashboards, CreateDashboard(d) PROVE IInv'
  BY <1>6, CreateDashboardKeeps
<1>7. CASE Restart
  BY <1>7, RestartKeeps
<1> QED BY <1>1, <1>2, <1>3, <1>4, <1>5, <1>6, <1>7 DEF Next

\* Every variable keeps its type under every interleaving.
THEOREM TypeCorrect == Spec => []TypeOK
<1>1. IInv => TypeOK
  BY DEF IInv
<1> QED BY <1>1, Initially, Invariance, PTL DEF Spec

\* For any panels, handlers and interleaving: outside the panels on which requests
\* overlap, what runs for a panel is what its row holds.
THEOREM LivesStayInStep == Spec => []InStep
<1>1. IInv => InStep
  BY DEF IInv, Attended, InStep
<1> QED BY <1>1, Initially, Invariance, PTL DEF Spec

\* A row that is gone is brought back by nothing but the insertion of a copy.
LEMMA NoReturn ==
  ASSUME IInv, Next, NEW p \in Panels \cap used, ~Stored(p), Stored(p)'
  PROVE  \E w \in Workers : task[w].op = "copy" /\ p \in task[w].on
<1>1. row'[p] # row[p]
  BY DEF Stored
<1>2. ASSUME NEW w \in Workers, Handler(w) PROVE task[w].op = "copy" /\ p \in task[w].on
  <2>1. CASE Insert(w)
    <3>1. Busy(w) /\ task[w].at = "insert" /\ task[w].op = "copy"
      BY <2>1 DEF Insert, At, IInv, Validated
    <3>2. task[w].on = {Panel(w)}
      BY <3>1, Placed DEF Cascading
    <3>3. p = Panel(w)
      BY <1>1, <2>1 DEF Insert, IInv, TypeOK
    <3> QED BY <3>1, <3>2, <3>3
  <2>2. CASE Erase(w) \/ Cascade(w)
    <3>1. row'[p] = NoRow \/ row'[p] = row[p]
      BY <2>2 DEF Erase, Cascade, IInv, TypeOK
    <3> QED BY <1>1, <3>1 DEF Stored
  <2>3. CASE Store(w) \/ Rewrite(w) \/ MoveRow(w)
    <3>1. row'[p] = row[p]
      BY <2>3 DEF Store, Rewrite, MoveRow, Update, IInv, TypeOK
    <3> QED BY <1>1, <3>1
  <2>4. CASE UNCHANGED row
    BY <1>1, <2>4
  <2> QED BY <1>2, <2>1, <2>2, <2>3, <2>4 DEF Handler, Fetch, Apply, Upsert, Flip, Reschedule,
             Recover, Readd, Reread, Drop, RegisterCopy, Count, Collect, Cleanup
<1>3. ASSUME NEW w \in Workers, NEW q \in Panels, NEW d \in Dashboards, NEW b \in Bodies,
             NEW on \in BOOLEAN, ImportDashboard(w, d, q, b, on)
      PROVE  FALSE
  BY <1>1, <1>3 DEF ImportDashboard, IInv, TypeOK
<1>4. ASSUME NEW q \in Panels, NEW d \in Dashboards, CreatePanel(q, d) PROVE FALSE
  BY <1>1, <1>4 DEF CreatePanel, IInv, TypeOK
<1>5. CASE UNCHANGED row
  BY <1>1, <1>5
<1> QED BY ZenonT(40), <1>2, <1>3, <1>4, <1>5
        DEF Next, Pin, SaveTitle, PollStatus, DeletePanel, Trip, Toggle, Save, MovePanel, Copy,
            DeleteDashboard, Unregister, CreateDashboard, Restart

\* For any panels, handlers and interleaving, overlapping requests included: a deleted
\* panel stays deleted.
THEOREM DeletedStaysDeleted == Spec => DeletedForGood
<1>1. IInv /\ [Next]_vars => [\A p \in used \cap Panels :
                                ~Stored(p) /\ Stored(p)' =>
                                  \E w \in Workers : task[w].op = "copy" /\ p \in task[w].on]_vars
  BY NoReturn
<1> QED BY <1>1, Initially, Invariance, PTL DEF Spec, DeletedForGood
=============================================================================
