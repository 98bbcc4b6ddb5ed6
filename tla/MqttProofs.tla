------------------------------ MODULE MqttProofs ------------------------------
(***************************************************************************)
(* Proofs about one manager of the MQTT connections, for every value of    *)
(* the constants.                                                          *)
(*                                                                         *)
(* Its subscriptions (MqttSubscriptions): what the broker holds fits the   *)
(* handlers, nobody is forgotten, and nobody is served twice.              *)
(*                                                                         *)
(* What it remembers of publications (PublishCorrelation, as Pub): the     *)
(* messages that come back are taken for those of their panels, and what   *)
(* the broker retains is known.                                            *)
(***************************************************************************)
EXTENDS MqttSubscriptions, FiniteSets, Sequences, FiniteSetTheorems, WellFoundedInduction, TLAPS

CONSTANTS Panels, Messages, publishTTL, maxPendingPubs, MaxPublish, MaxForeign, MaxTime, MaxLosses
VARIABLES online, now, pendingPubs, calls, outbox, inbox, stored, retained, retainedPanels,
          handling, seen, author, astray, unsure, losses, others
Pub == INSTANCE PublishCorrelation WITH link <- online, held <- stored

-----------------------------------------------------------------------------
(* MqttSubscriptions.                                                        *)

(* What Subscribe and Unsubscribe change, with the set of filters that have *)
(* handlers in place of their numbers.                                      *)
LEMMA MoreHandlers ==
  ASSUME TypeOK, NEW f \in Filters, subs' = [subs EXCEPT ![f] = @ + 1]
  PROVE  subs' \in [Filters -> Nat] /\ Subscribed' = Subscribed \cup {f}
BY DEF TypeOK, Subscribed

LEMMA FewerHandlers ==
  ASSUME TypeOK, NEW f \in Filters, f \in Subscribed, subs' = [subs EXCEPT ![f] = @ - 1]
  PROVE  /\ subs' \in [Filters -> Nat]
         /\ Subscribed' = IF subs[f] > 1 THEN Subscribed ELSE Subscribed \ {f}
BY DEF TypeOK, Subscribed

\* A filter that is covered is superfluous and makes no other so.
LEMMA CoveredIsSuperfluous ==
  ASSUME NEW f \in Filters, NEW S \in SUBSET Filters,
         \/ f # SysAll /\ f \in Sys /\ SysAll \in S
         \/ f # All /\ f \notin Sys /\ All \in S
  PROVE  Uncovered(S \cup {f}) = Uncovered(S \ {f})
BY FiltersAssumption DEF Uncovered, All, SysAll

\* What a first handler asks for turns what fitted into what fits now.
LEMMA TakesOver ==
  ASSUME NEW f \in Filters \ Subscribed, ~Covered(f)
  PROVE  Uncovered(Subscribed \cup {f}) = (Uncovered(Subscribed) \ Replaced(f)) \cup {f}
BY DEF Uncovered, Covered, Replaced, All, SysAll, Subscribed

\* What the last handler asks for does so as well.
LEMMA GivesBack ==
  ASSUME NEW f \in Subscribed, ~Covered(f)
  PROVE  Uncovered(Subscribed \ {f}) = (Uncovered(Subscribed) \ {f}) \cup Restored(f)
BY DEF Uncovered, Covered, Restored, All, SysAll, Subscribed

-----------------------------------------------------------------------------
(* Subscribing and unsubscribing keep what is held in step.                 *)

LEMMA SubscribeFits ==
  ASSUME IInv, NEW f \in Filters, Subscribe(f)
  PROVE  /\ subs' \in [Filters -> Nat] /\ Subscribed' = Subscribed \cup {f}
         /\ held' \subseteq Filters /\ routes' \subseteq Filters
         /\ Holding' /\ FirstRoutes'
<1> DEFINE S == Subscribed
<1>1. TypeOK /\ Holding /\ FirstRoutes BY DEF IInv
<1>2. subs' \in [Filters -> Nat] /\ Subscribed' = S \cup {f}
  BY <1>1, MoreHandlers DEF Subscribe
<1>3. link' = link /\ greet' = greet /\ lost' = lost BY DEF Subscribe
<1>4. S \subseteq Filters BY DEF Subscribed
<1>5. CASE NoRequest /\ (f \in S \/ link # "up" \/ Covered(f))
  <2>1. held' = held /\ routes' = routes BY <1>5 DEF NoRequest
  <2>2. link = "up" => Uncovered(S \cup {f}) = Uncovered(S)
    <3>1. CASE f \in S
      <4>1. S \cup {f} = S BY <3>1
      <4> QED BY <4>1
    <3>2. CASE f \notin S /\ Covered(f)
      <4>1. S \ {f} = S BY <3>2
      <4>2. Uncovered(S \cup {f}) = Uncovered(S \ {f})
        BY <1>4, <3>2, CoveredIsSuperfluous DEF Covered
      <4> QED BY <4>1, <4>2
    <3> QED BY <1>5, <3>1, <3>2
  <2> QED BY <1>1, <1>2, <1>3, <2>1, <2>2 DEF Holding, FirstRoutes, SessionFits, Settled,
                                             TypeOK, Uncovered
<1>6. CASE Request(Replaced(f), {f}) /\ f \notin S /\ link = "up" /\ ~Covered(f)
  <2>1. /\ held' = (held \ Replaced(f)) \cup ({f} \ Refused)
        /\ routes' = (routes \ Replaced(f)) \cup {f}
    BY <1>6 DEF Request
  <2>2. Uncovered(S \cup {f}) = (Uncovered(S) \ Replaced(f)) \cup {f}
    BY <1>6, TakesOver
  <2>3. f \notin Replaced(f)
    BY DEF Replaced, All, SysAll
  <2> QED BY <1>1, <1>2, <1>3, <1>6, <2>1, <2>2, <2>3
          DEF Holding, FirstRoutes, SessionFits, Settled, TypeOK
<1> QED BY <1>5, <1>6 DEF Subscribe

LEMMA TypedWithSetup ==
  ASSUME TypeOK, NEW f \in Filters, Subscribe(f),
         setup' \in {"stored", "captured", "done", "connecting"},
         subs' \in [Filters -> Nat], held' \subseteq Filters, routes' \subseteq Filters
  PROVE  TypeOK'
BY DEF TypeOK, Subscribe

LEMMA UnsubscribeFits ==
  ASSUME IInv, NEW f \in Filters, Unsubscribe(f)
  PROVE  IInv'
<1> DEFINE S == Subscribed
<1>1. TypeOK /\ Holding /\ FirstRoutes /\ Permanent \subseteq S BY DEF IInv
<1>2. link' = link /\ greet' = greet /\ lost' = lost /\ setup' = setup BY DEF Unsubscribe
<1>3. f \in S
  BY <1>1 DEF Unsubscribe, TypeOK, Subscribed
<1>4. /\ subs' \in [Filters -> Nat]
      /\ Subscribed' = IF subs[f] > 1 THEN S ELSE S \ {f}
  BY <1>1, <1>3, FewerHandlers DEF Unsubscribe
<1>5. S \subseteq Filters BY DEF Subscribed
<1>6. Permanent' \subseteq Subscribed'
  BY <1>1, <1>2, <1>4 DEF Unsubscribe, Permanent, TypeOK, All, SysAll, Subscribed
<1>7. CASE NoRequest /\ (subs[f] > 1 \/ link # "up" \/ Covered(f))
  <2>1. held' = held /\ routes' = routes BY <1>7 DEF NoRequest
  <2>2. link = "up" => Uncovered(Subscribed') = Uncovered(S)
    <3>1. CASE subs[f] > 1
      BY <1>4, <3>1
    <3>2. CASE ~(subs[f] > 1) /\ Covered(f)
      <4>1. S \cup {f} = S BY <1>3
      <4>2. Uncovered(S \cup {f}) = Uncovered(S \ {f})
        BY <1>5, <3>2, CoveredIsSuperfluous DEF Covered
      <4> QED BY <1>4, <3>2, <4>1, <4>2
    <3> QED BY <1>7, <3>1, <3>2
  <2> QED BY <1>1, <1>2, <1>4, <1>6, <2>1, <2>2
          DEF IInv, Holding, FirstRoutes, SessionFits, Settled, TypeOK
<1>8. CASE Request({f}, Restored(f)) /\ ~(subs[f] > 1) /\ link = "up" /\ ~Covered(f)
  <2>1. /\ held' = (held \ {f}) \cup (Restored(f) \ Refused)
        /\ routes' = (routes \ {f}) \cup Restored(f)
    BY <1>8 DEF Request
  <2>2. Uncovered(S \ {f}) = (Uncovered(S) \ {f}) \cup Restored(f)
    BY <1>3, <1>8, GivesBack
  <2>3. f \notin Restored(f) /\ Restored(f) \subseteq Filters
    BY DEF Restored, All, SysAll, Subscribed
  <2>4. Subscribed' = S \ {f}
    BY <1>4, <1>8
  <2> QED BY <1>1, <1>2, <1>4, <1>6, <1>8, <2>1, <2>2, <2>3, <2>4
          DEF IInv, Holding, FirstRoutes, SessionFits, Settled, TypeOK
<1> QED BY <1>7, <1>8 DEF Unsubscribe

THEOREM Inductive == Spec => []IInv
<1>1. Init => IInv
  <2> SUFFICES ASSUME Init PROVE IInv
    OBVIOUS
  <2>1. TypeOK BY DEF Init, TypeOK
  <2>2. Holding /\ FirstRoutes BY DEF Init, Holding, FirstRoutes, SessionFits, Settled
  <2>3. Permanent = {} BY DEF Init, Permanent
  <2> QED BY <2>1, <2>2, <2>3 DEF IInv
<1>2. IInv /\ [Next]_vars => IInv'
  <2> SUFFICES ASSUME IInv, [Next]_vars PROVE IInv'
    OBVIOUS
  <2> USE DEF IInv
  <2>1. CASE Connected
    <3>1. Subscribed' = Subscribed BY <2>1 DEF Connected, Subscribed
    <3> QED BY <2>1, <3>1 DEF Connected, TypeOK, Holding, FirstRoutes, SessionFits, Settled,
                              Permanent
  <2>2. CASE ConnectionLost
    <3>1. Subscribed' = Subscribed BY <2>2 DEF ConnectionLost, Subscribed
    <3> QED BY <2>2, <3>1 DEF ConnectionLost, TypeOK, Holding, FirstRoutes, SessionFits, Settled,
                              Permanent
  <2>3. CASE OnConnect
    <3>1. Subscribed' = Subscribed /\ Subscribed \subseteq Filters
      BY <2>3 DEF OnConnect, Subscribed
    <3>2. Uncovered(Subscribed) \subseteq Filters BY <3>1 DEF Uncovered
    <3>3. Uncovered(Subscribed') = Uncovered(Subscribed) BY <3>1
    <3>4. CASE link = "up"
      <4>1. /\ held' = held \cup (Uncovered(Subscribed) \ Refused)
            /\ routes' = routes \cup Uncovered(Subscribed)
        BY <2>3, <3>4 DEF OnConnect, Request
      <4>2. /\ link' = link /\ greet' = FALSE /\ lost' = lost /\ setup' = setup /\ subs' = subs
        BY <2>3 DEF OnConnect
      <4>3. TypeOK' BY <3>2, <4>1, <4>2 DEF TypeOK
      <4>4. Holding'
        <5>1. held \subseteq routes BY DEF Holding
        <5>2. held' \subseteq routes' BY <4>1, <5>1
        <5>3. held \subseteq Uncovered(Subscribed) \ Refused
          BY <3>4 DEF Holding
        <5> QED BY <3>3, <4>1, <4>2, <5>1, <5>2, <5>3 DEF Holding, SessionFits, Settled
      <4>5. FirstRoutes' BY <3>3, <3>4, <4>1, <4>2 DEF FirstRoutes
      <4>6. Permanent' = Permanent BY <4>2 DEF Permanent
      <4> QED BY <3>1, <4>3, <4>4, <4>5, <4>6
    <3>5. CASE link # "up"
      BY <2>3, <3>1, <3>5 DEF OnConnect, NoRequest, TypeOK, Holding, FirstRoutes,
                              SessionFits, Settled, Permanent
    <3> QED BY <3>4, <3>5
  <2>4. CASE AddBroker
    <3>1. CASE /\ setup = "connecting" /\ setup' = "stored"
               /\ UNCHANGED <<subs, held, routes, link, greet, lost>>
      BY <3>1 DEF TypeOK, Holding, FirstRoutes, SessionFits, Settled, Permanent, Subscribed,
                  Uncovered
    <3>2. CASE setup = "stored" /\ setup' = "captured" /\ Subscribe(All)
      <4>1. Permanent' = {All} BY <3>2 DEF Permanent, All, SysAll
      <4> QED BY <3>2, <4>1, SubscribeFits, TypedWithSetup, FiltersAssumption
    <3>3. CASE setup = "captured" /\ setup' = "done" /\ Subscribe(SysAll)
      <4>1. Permanent = {All} /\ Permanent' = {All, SysAll}
        BY <3>3 DEF Permanent, All, SysAll
      <4> QED BY <3>3, <4>1, SubscribeFits, TypedWithSetup, FiltersAssumption
    <3> QED BY <2>4, <3>1, <3>2, <3>3 DEF AddBroker
  <2>5. CASE Disconnect
    <3>1. Subscribed' = Subscribed BY <2>5 DEF Disconnect, Subscribed
    <3> QED BY <2>5, <3>1 DEF Disconnect, TypeOK, Holding, FirstRoutes, SessionFits, Settled,
                              Permanent
  <2>6. ASSUME NEW f \in Filters, Listen(f) PROVE IInv'
    <3>1. setup' = setup BY <2>6 DEF Listen
    <3>2. Permanent' = Permanent BY <3>1 DEF Permanent
    <3>3. setup' \in {"stored", "captured", "done", "connecting"} BY <3>1 DEF TypeOK
    <3>4. Subscribe(f) BY <2>6 DEF Listen
    <3> QED BY <3>2, <3>3, <3>4, SubscribeFits, TypedWithSetup
  <2>7. ASSUME NEW f \in Filters, Unsubscribe(f) PROVE IInv'
    BY <2>7, UnsubscribeFits
  <2>8. CASE UNCHANGED vars
    BY <2>8 DEF vars, TypeOK, Holding, FirstRoutes, SessionFits, Settled, Permanent, Subscribed,
                Uncovered
  <2> QED BY <2>1, <2>2, <2>3, <2>4, <2>5, <2>6, <2>7, <2>8 DEF Next
<1> QED BY <1>1, <1>2, PTL DEF Spec

\* Type correctness of one manager, whatever is subscribed and whenever the link moves.
THEOREM TypeCorrect == Spec => []TypeOK
<1>1. IInv => TypeOK BY DEF IInv
<1> QED BY <1>1, Inductive, PTL

\* Between the library's callbacks the broker holds exactly what is needed: no filter
\* is missing after any order of take-overs and reconnections, and none is held twice
\* under another name.
THEOREM SessionAlwaysFits == Spec => []SessionFits
<1>1. IInv => SessionFits BY DEF IInv, Holding
<1> QED BY <1>1, Inductive, PTL

-----------------------------------------------------------------------------
(* Messages.                                                                *)

LEMMA SettledHolds ==
  ASSUME IInv, Settled
  PROVE  held = Uncovered(Subscribed) \ Refused /\ held \subseteq routes
BY DEF IInv, Holding, SessionFits

\* What '#' and '$SYS/#' match, below the topics that begin with $.
LEMMA WildcardsMatch ==
  ASSUME Dollar \cap Topics \subseteq Sys, NEW t \in Topics
  PROVE  /\ <<All, t>> \in Matches <=> t \notin Sys
         /\ <<SysAll, t>> \in Matches <=> t \in Sys
BY FiltersAssumption

\* If the broker grants '#' and '$SYS/#' and no topic outside $SYS begins with $, every
\* handler with a granted filter is reached, by any filters, topics and history.
THEOREM EveryHandlerReached ==
  ASSUME Dollar \cap Topics \subseteq Sys, All \notin Refused, SysAll \notin Refused
  PROVE  Spec => []Reached
<1>1. IInv => Reached
  <2> SUFFICES ASSUME IInv, Settled, NEW f \in Subscribed \ Refused, NEW t \in Topics,
                      <<f, t>> \in Matches
               PROVE  Copies(t) # {} /\ Runners(f, t) # {}
    BY DEF Reached
  <2>1. f \in Filters /\ (f \in Sys <=> t \in Sys)
    BY FiltersAssumption DEF Subscribed
  <2>2. ASSUME NEW h \in Uncovered(Subscribed) \ Refused, <<h, t>> \in Matches, Runs(h, f, t)
        PROVE  Copies(t) # {} /\ Runners(f, t) # {}
    BY <2>2, SettledHolds DEF Copies, Runners
  <2>3. CASE f \in Uncovered(Subscribed)
    <3>1. Runs(f, f, t)
      BY FiltersAssumption, WildcardsMatch DEF Runs
    <3> QED BY <2>2, <2>3, <3>1
  <2>4. CASE f \notin Uncovered(Subscribed) /\ f \notin Sys
    <3>1. All \in Uncovered(Subscribed)
      BY <2>4, FiltersAssumption DEF Uncovered
    <3>2. <<All, t>> \in Matches /\ Runs(All, f, t)
      BY <2>1, <2>4, WildcardsMatch DEF Runs
    <3> QED BY <2>2, <3>1, <3>2
  <2>5. CASE f \notin Uncovered(Subscribed) /\ f \in Sys
    <3>1. SysAll \in Uncovered(Subscribed)
      BY <2>5, FiltersAssumption DEF Uncovered
    <3>2. <<SysAll, t>> \in Matches /\ Runs(SysAll, f, t)
      BY <2>1, <2>5, WildcardsMatch DEF Runs, All, SysAll
    <3> QED BY <2>2, <3>1, <3>2
  <2> QED BY <2>3, <2>4, <2>5
<1> QED BY <1>1, Inductive, PTL

\* Under the same conditions a message runs each handler once from the end of AddBroker
\* on, for as long as the first connection lasts.
THEOREM EveryHandlerRunsOnce ==
  ASSUME Dollar \cap Topics \subseteq Sys, All \notin Refused, SysAll \notin Refused
  PROVE  Spec => []RunOnce
<1>1. IInv => RunOnce
  <2> SUFFICES ASSUME IInv, Settled, ~lost, setup = "done",
                      NEW f \in Subscribed, NEW t \in Topics, <<f, t>> \in Matches
               PROVE  \E h \in held, r \in routes : Copies(t) = {h} /\ Runners(f, t) = {r}
    BY DEF RunOnce
  <2>1. All \in Subscribed /\ SysAll \in Subscribed
    BY DEF IInv, Permanent
  <2>2. Uncovered(Subscribed) = {All, SysAll}
    BY <2>1, FiltersAssumption DEF Uncovered, All, SysAll
  <2>3. held = {All, SysAll} /\ routes = {All, SysAll}
    BY <2>2, SettledHolds DEF IInv, FirstRoutes, Settled
  <2>4. f \in Filters /\ (f \in Sys <=> t \in Sys)
    BY FiltersAssumption DEF Subscribed
  <2>5. CASE t \notin Sys
    <3>1. Copies(t) = {All} BY <2>3, <2>5, WildcardsMatch DEF Copies
    <3>2. Runs(All, f, t) /\ ~Runs(SysAll, f, t)
      BY <2>5, WildcardsMatch DEF Runs, All, SysAll
    <3>3. Runners(f, t) = {All} BY <2>3, <3>2 DEF Runners
    <3> QED BY <2>3, <3>1, <3>3
  <2>6. CASE t \in Sys
    <3>1. Copies(t) = {SysAll} BY <2>3, <2>6, WildcardsMatch DEF Copies
    <3>2. Runs(SysAll, f, t) /\ ~Runs(All, f, t)
      BY <2>1, <2>6, WildcardsMatch DEF Runs, All, SysAll
    <3>3. Runners(f, t) = {SysAll} BY <2>3, <3>2 DEF Runners
    <3> QED BY <2>3, <3>1, <3>3
  <2> QED BY <2>5, <2>6
<1> QED BY <1>1, Inductive, PTL

-----------------------------------------------------------------------------
(* PublishCorrelation.                                                       *)

(* What the constants are. *)
Payloads == {m.payload : m \in Messages}
Pairs == Topics \X Payloads
Known == Panels \cup {Pub!NoPanel}
MessagesFit ==
    /\ Messages \subseteq [topic : Topics, payload : Payloads, qos : Nat, retain : BOOLEAN]
    /\ Pub!NoPanel \notin Panels /\ IsFiniteSet(Topics)
    /\ publishTTL \in Nat /\ maxPendingPubs \in Nat \ {0} /\ MaxPublish \in Nat /\ MaxTime \in Nat
Sents == {Pub!Numbered(m, n) : m \in Messages, n \in 0..MaxPublish}
Packet == [topic : Topics, payload : Payloads, qos : Nat, retain : BOOLEAN, number : 0..MaxPublish]
Entry == [topic : Topics, payload : Payloads, panel : Panels, at : Nat, number : 1..MaxPublish]
Call == [message : Packet, step : {"waits", "published", "marked"}]
Taking == [message : Packet, panel : Known, entry : 0..MaxPublish, age : Int]
Told == [number : 0..MaxPublish, content : Pairs, replay : BOOLEAN, panel : Known, entry : 0..MaxPublish, age : Int]

(* The shapes: the manager's books, what is on its way, what broker and    *)
(* registry keep, and what the handler of '#' has and had.                 *)
Numbers == 1..Len(author)
Books ==
    /\ online \in BOOLEAN /\ now \in 0..MaxTime
    /\ pendingPubs \in Seq(Entry) /\ Len(pendingPubs) <= maxPendingPubs
    /\ author \in Seq(Known) /\ Len(author) <= MaxPublish
Wires ==
    /\ IsFiniteSet(calls) /\ calls \subseteq Call /\ \A c \in calls : c.message.number \in Numbers /\ c.message \in Sents
    /\ outbox \in Seq(Packet) /\ \A i \in DOMAIN outbox : outbox[i].number \in Numbers /\ outbox[i] \in Sents
    /\ inbox \in Seq(Packet) /\ \A i \in DOMAIN inbox : inbox[i].number \in 0..Len(author) /\ (inbox[i].retain => inbox[i].payload # Pub!Empty)
    /\ ~online => inbox = <<>>
Stored(t, m) ==
    /\ m \in Sents /\ m \in Packet /\ m.number \in 0..Len(author)
    /\ m.topic = t /\ m.retain /\ m.payload # Pub!Empty
Store ==
    /\ stored \in [Topics -> {Pub!None} \cup Sents] /\ \A t \in Topics : stored[t] # Pub!None => Stored(t, stored[t])
    /\ retained \subseteq Topics /\ retainedPanels \in [Topics -> Known]
Reader ==
    /\ handling # <<>> => handling[1] \in Taking /\ handling = <<handling[1]>> /\ handling[1].message.number \in 0..Len(author)
    /\ seen \subseteq Told /\ \A s \in seen : s.number \in 0..Len(author)
    /\ astray \subseteq Pairs /\ unsure \subseteq Topics
PubShapes == Books /\ Wires /\ Store /\ Reader

(* Echoes, and the contents that no mistake is possible of.  What is on    *)
(* its way of such a content is in the order of publication: first what    *)
(* has come back, then what the broker has not taken.                      *)
Clean(c) == c \notin astray
Echo(m) == ~m.retain /\ m.number # Pub!Foreign
Ahead(m, n) == Clean(Pub!Content(m)) /\ Pub!Content(m) = Pub!Content(n) => m.number < n.number
Queues ==
    /\ \A i, j \in DOMAIN outbox : i < j => Ahead(outbox[i], outbox[j])
    /\ \A i, j \in DOMAIN outbox : Clean(Pub!Content(outbox[i])) /\ Pub!Content(outbox[i]) = Pub!Content(outbox[j]) => outbox[i].qos = outbox[j].qos
    /\ \A i, j \in DOMAIN inbox : i < j /\ Echo(inbox[i]) /\ Echo(inbox[j]) => Ahead(inbox[i], inbox[j])
    /\ \A i \in DOMAIN inbox, j \in DOMAIN outbox : Echo(inbox[i]) => Ahead(inbox[i], outbox[j])
(* Of what is on its way, everything or nothing has an entry, the entries  *)
(* are in the order of publication, and each has a message on its way: so  *)
(* the oldest entry of a content is that of the first message.             *)
Coming == Pub!ToSet(outbox) \cup {m \in Pub!ToSet(inbox) : Echo(m)}
Alike == \A m, n \in Coming : Clean(Pub!Content(m)) /\ Pub!Content(m) = Pub!Content(n) => (author[m.number] = Pub!NoPanel <=> author[n.number] = Pub!NoPanel)
Rising(pubs) == \A i, j \in DOMAIN pubs : i < j => pubs[i].number < pubs[j].number
Entries ==
    /\ Rising(pendingPubs)
    /\ \A p \in Pub!ToSet(pendingPubs) : p.number \in Numbers /\ author[p.number] = p.panel
    /\ \A m \in Coming : Clean(Pub!Content(m)) /\ author[m.number] # Pub!NoPanel =>
           \E p \in Pub!ToSet(pendingPubs) : p.number = m.number /\ Pub!Content(p) = Pub!Content(m)
    /\ \A p \in Pub!ToSet(pendingPubs) : Clean(Pub!Content(p)) =>
           \E m \in Coming : m.number = p.number /\ Pub!Content(m) = Pub!Content(p)
(* The message being handled has the panel of its publication, and its     *)
(* entry is gone and was never found before.                               *)
Found(h) ==
    /\ Echo(h.message) /\ Clean(Pub!Content(h.message)) => h.panel = author[h.message.number]
    /\ h.panel = Pub!NoPanel <=> h.entry = Pub!Foreign
    /\ h.entry # Pub!Foreign => h.entry \in Numbers /\ h.panel = author[h.entry] /\ h.age < publishTTL
    /\ h.entry # Pub!Foreign => \A p \in Pub!ToSet(pendingPubs) : p.number # h.entry
    /\ h.entry # Pub!Foreign => \A s \in seen : s.entry # h.entry
    /\ h.message.retain /\ h.panel # Pub!NoPanel => ~Clean(Pub!Content(h.message))
Taken == handling # <<>> => Found(handling[1])
Seen ==
    /\ Pub!Attributed
    /\ \A s \in seen, p \in Pub!ToSet(pendingPubs) : s.entry # p.number
    /\ \A s \in seen : s.entry # Pub!Foreign => s.entry \in Numbers
Correlated == Queues /\ Alike /\ Entries /\ Taken /\ Seen

(* What the registry should say of a topic when v is held there; and of a  *)
(* topic that is not unsure: either nothing is under way and it says what  *)
(* is held, or one publication m is, between the call and the broker.      *)
Says(t, v) ==
    /\ t \in retained <=> v # Pub!None
    /\ t \in retained /\ Clean(Pub!Content(v)) => retainedPanels[t] = author[v.number]
    /\ t \notin retained => retainedPanels[t] = Pub!NoPanel
Result(m) == IF m.payload = Pub!Empty THEN Pub!None ELSE m
About(m, t) == m.retain /\ m.topic = t
CallsOf(t) == {c \in calls : About(c.message, t)}
SentOf(t) == {m \in Pub!ToSet(outbox) : About(m, t)}
Replays(t) == {m \in Pub!ToSet(inbox) \cup {h.message : h \in Pub!ToSet(handling)} : About(m, t)}
InFlight(t, m) ==
    /\ \A c \in CallsOf(t) : c.message = m /\ (c.step = "marked" => t \in retained /\ m.payload # Pub!Empty)
    /\ \A c, d \in CallsOf(t) : c = d
    /\ \A n \in SentOf(t) : n = m
    /\ Replays(t) = {}
    /\ m \in SentOf(t) \/ stored[t] = Result(m)
    /\ CallsOf(t) = {} => Says(t, Result(m))
AtRest(t) ==
    /\ CallsOf(t) = {} /\ SentOf(t) = {}
    /\ \A m \in Replays(t) : m = stored[t]
    /\ Says(t, stored[t])
Holds == \A t \in Topics \ unsure : AtRest(t) \/ \E m \in {c.message : c \in CallsOf(t)} \cup SentOf(t) : InFlight(t, m)
(* No such topic holds another client's message, and only calls that       *)
(* retain something go on after the broker's answer.                       *)
Own ==
    /\ \A t \in Topics \ unsure : stored[t] # Pub!None => stored[t].number \in Numbers
    /\ \A c \in calls : c.step = "waits" \/ c.message.retain
PubInv == PubShapes /\ Correlated /\ Holds /\ Own

LEMMA LeastNumber ==
  ASSUME NEW S, S \subseteq Nat, S # {}
  PROVE  \E n \in S : \A m \in S : n <= m
<1> DEFINE R == {p \in Nat \X Nat : p[1] < p[2]}
<1>1. IsWellFoundedOn(R, Nat)
  BY NatLessThanWellFounded DEF OpToRel
<1>2. PICK n \in S : \A m \in S : ~(<<m, n>> \in R)
  <2> HIDE DEF R
  <2> QED BY <1>1, WFMin
<1>3. ASSUME NEW m \in S PROVE n <= m
  <2>1. m \in Nat /\ n \in Nat
    OBVIOUS
  <2>2. m < n => <<m, n>> \in R
    BY <2>1
  <2> HIDE DEF R
  <2> QED BY <2>1, <2>2, <1>2
<1> QED BY <1>2, <1>3

\* A sequence with one element more, at its end.
LEMMA Appended ==
  ASSUME NEW S, NEW s \in Seq(S), NEW x \in S
  PROVE  /\ Append(s, x) \in Seq(S) /\ Len(Append(s, x)) = Len(s) + 1 /\ DOMAIN Append(s, x) = 1..(Len(s) + 1)
         /\ Append(s, x)[Len(s) + 1] = x /\ \A i \in DOMAIN s : i \in 1..Len(s) /\ Append(s, x)[i] = s[i]
         /\ Pub!ToSet(Append(s, x)) = Pub!ToSet(s) \cup {x}
<1> DEFINE r == Append(s, x)
<1>1. /\ r \in Seq(S) /\ Len(r) = Len(s) + 1 /\ DOMAIN r = 1..(Len(s) + 1) /\ DOMAIN s = 1..Len(s) /\ Len(s) \in Nat
      /\ r[Len(s) + 1] = x /\ \A i \in DOMAIN s : r[i] = s[i]
  OBVIOUS
<1> HIDE DEF r
<1>2. Pub!ToSet(r) = Pub!ToSet(s) \cup {x} BY <1>1 DEF Pub!ToSet
<1> QED BY <1>1, <1>2 DEF r

\* A sequence without its first element.
LEMMA Behead ==
  ASSUME NEW S, NEW s \in Seq(S), s # <<>>
  PROVE  /\ Head(s) \in S /\ 1 \in DOMAIN s /\ s[1] = Head(s) /\ Tail(s) \in Seq(S)
         /\ \A i \in DOMAIN Tail(s) : i \in Nat /\ i + 1 \in DOMAIN s /\ Tail(s)[i] = s[i + 1]
         /\ Pub!ToSet(s) = {Head(s)} \cup Pub!ToSet(Tail(s))
<1> DEFINE r == Tail(s)
<1>1. /\ Head(s) \in S /\ 1 \in DOMAIN s /\ s[1] = Head(s) /\ r \in Seq(S) /\ DOMAIN s = 1..Len(s) /\ Len(s) \in Nat
      /\ DOMAIN r = 1..(Len(s) - 1) /\ \A i \in DOMAIN r : r[i] = s[i + 1]
  OBVIOUS
<1> HIDE DEF r
<1>2. \A i \in DOMAIN r : i \in Nat /\ i + 1 \in DOMAIN s BY <1>1
<1>3. ASSUME NEW i \in DOMAIN s, i # 1 PROVE i - 1 \in DOMAIN r /\ s[i] = r[i - 1]
  <2>1. i - 1 \in DOMAIN r /\ (i - 1) + 1 = i BY <1>1, <1>3
  <2> QED BY <2>1, <1>1
<1>4. Pub!ToSet(s) = {Head(s)} \cup Pub!ToSet(r) BY <1>1, <1>2, <1>3 DEF Pub!ToSet
<1> QED BY <1>1, <1>2, <1>4 DEF r

\* A sequence without one of its elements.
LEMMA Without ==
  ASSUME NEW S, NEW s \in Seq(S), NEW k \in DOMAIN s
  PROVE  /\ s[k] \in S /\ Pub!RemoveAt(s, k) \in Seq(S) /\ Len(Pub!RemoveAt(s, k)) = Len(s) - 1
         /\ \A i \in DOMAIN Pub!RemoveAt(s, k) :
                /\ i \in Nat /\ i < k => i \in DOMAIN s /\ Pub!RemoveAt(s, k)[i] = s[i]
                /\ i >= k => i + 1 \in DOMAIN s /\ Pub!RemoveAt(s, k)[i] = s[i + 1]
         /\ \A i \in DOMAIN s : i \in Nat /\ (i = k \/ s[i] \in Pub!ToSet(Pub!RemoveAt(s, k)))
<1> DEFINE r == Pub!RemoveAt(s, k)
<1>1. /\ r \in Seq(S) /\ Len(r) = Len(s) - 1 /\ DOMAIN s = 1..Len(s) /\ Len(s) \in Nat
      /\ DOMAIN r = 1..(Len(s) - 1) /\ \A i \in DOMAIN r : r[i] = IF i < k THEN s[i] ELSE s[i + 1]
  <2> DEFINE a == SubSeq(s, 1, k - 1)
             b == SubSeq(s, k + 1, Len(s))
  <2>1. k \in 1..Len(s) /\ Len(s) \in Nat OBVIOUS
  <2>2. a \in Seq(S) /\ Len(a) = k - 1 /\ \A i \in 1..(k - 1) : a[i] = s[i] BY <2>1
  <2>3. b \in Seq(S) /\ Len(b) = Len(s) - k /\ \A i \in 1..(Len(s) - k) : b[i] = s[i + k] BY <2>1
  <2>4. r = a \o b BY DEF Pub!RemoveAt
  <2> HIDE DEF a, b
  <2>5. r \in Seq(S) /\ Len(r) = Len(s) - 1 BY <2>1, <2>2, <2>3, <2>4
  <2>6. \A i \in 1..(Len(s) - 1) : r[i] = IF i <= k - 1 THEN a[i] ELSE b[i - (k - 1)] BY SMTT(40), <2>1, <2>2, <2>3, <2>4
  <2>7. ASSUME NEW i \in 1..(Len(s) - 1), i >= k PROVE r[i] = s[i + 1]
    <3>1. i - (k - 1) \in 1..(Len(s) - k) /\ (i - (k - 1)) + k = i + 1 BY <2>1, <2>7
    <3> QED BY <3>1, <2>3, <2>6, <2>7, <2>1
  <2>8. ASSUME NEW i \in 1..(Len(s) - 1), i < k PROVE r[i] = s[i]
    <3>1. i \in 1..(k - 1) BY <2>1, <2>8
    <3> QED BY <3>1, <2>2, <2>6, <2>1
  <2> QED BY <2>1, <2>5, <2>7, <2>8
<1> HIDE DEF r
<1>2. s[k] \in S OBVIOUS
<1>3. ASSUME NEW i \in DOMAIN s
      PROVE  i = k \/ (i < k /\ i \in DOMAIN r /\ s[i] = r[i]) \/ (i > k /\ i - 1 \in DOMAIN r /\ s[i] = r[i - 1])
  <2>1. i > k => i - 1 \in DOMAIN r /\ (i - 1) + 1 = i /\ ~(i - 1 < k) BY <1>1
  <2>2. i < k => i \in DOMAIN r BY <1>1
  <2> QED BY <2>1, <2>2, <1>1
<1>4. \A i \in DOMAIN s : i = k \/ s[i] \in Pub!ToSet(r) BY <1>3 DEF Pub!ToSet
<1> QED BY <1>1, <1>2, <1>4 DEF r

\* A message with its number.
LEMMA NumberedFits ==
  ASSUME MessagesFit, NEW m \in Messages, NEW n \in 0..MaxPublish
  PROVE  /\ Pub!Numbered(m, n) \in Packet /\ Pub!Numbered(m, n) \in Sents
         /\ Pub!Numbered(m, n).number = n
<1>1. m.topic \in Topics /\ m.payload \in Payloads /\ m.qos \in Nat /\ m.retain \in BOOLEAN
  BY DEF MessagesFit
<1> QED BY <1>1 DEF Packet, Sents, Pub!Numbered

\* What is left of the entries when the old ones are dropped.
LEMMA Pruned ==
  ASSUME NEW pubs \in Seq(Entry), now \in Nat, publishTTL \in Nat
  PROVE  LET kept == Pub!prunePendingPubs(pubs) IN
         /\ kept \in Seq(Entry) /\ Len(kept) <= Len(pubs)
         /\ Pub!ToSet(kept) = {p \in Pub!ToSet(pubs) : Pub!Fresh(p)}
         /\ Rising(pubs) => Rising(kept)
<1> DEFINE F(i, f) == IF i = 0 THEN <<>> ELSE IF Pub!Fresh(pubs[i]) THEN Append(f[i - 1], pubs[i]) ELSE f[i - 1]
           Good(n, f) == f \in [0..n -> Seq(Entry)] /\ f = [i \in 0..n |-> F(i, f)]
           Bad == {n \in 0..Len(pubs) : ~ \E f : Good(n, f)}
<1>1. Bad = {}
  <2> SUFFICES ASSUME Bad # {} PROVE FALSE
    OBVIOUS
  <2>1. PICK n \in Bad : \A m \in Bad : n <= m
    <3>1. Bad \subseteq Nat OBVIOUS
    <3> HIDE DEF Bad
    <3> QED BY <3>1, LeastNumber
  <2>2. n # 0
    <3>1. Good(0, [i \in 0..0 |-> <<>>]) OBVIOUS
    <3> QED BY <3>1
  <2>3. n \in 1..Len(pubs) BY <2>2
  <2>4. n - 1 \notin Bad
    <3> HIDE DEF Bad
    <3> QED BY <2>1, <2>3
  <2>5. PICK f : Good(n - 1, f)
    <3>1. n - 1 \in 0..Len(pubs) BY <2>3
    <3> HIDE DEF Good
    <3> QED BY <3>1, <2>4
  <2> DEFINE last == F(n, f)
             g == [i \in 0..n |-> IF i = n THEN last ELSE f[i]]
  <2>6. last \in Seq(Entry)
    <3>1. pubs[n] \in Entry BY <2>3
    <3>2. f[n - 1] \in Seq(Entry) BY <2>3, <2>5
    <3> QED BY <3>1, <3>2, <2>2
  <2>7. g \in [0..n -> Seq(Entry)] BY <2>3, <2>5, <2>6
  <2>8. \A i \in 0..n : g[i] = F(i, g)
    <3> TAKE i \in 0..n
    <3>1. CASE i = n BY <3>1, <2>3
    <3>2. CASE i # n
      <4>1. i \in 0..(n - 1) BY <3>2, <2>3
      <4>2. f[i] = F(i, f) /\ g[i] = f[i] BY <4>1, <2>3, <2>5, <3>2
      <4>3. i # 0 => i - 1 \in 0..n /\ i - 1 # n BY <4>1, <2>3
      <4>4. i # 0 => g[i - 1] = f[i - 1] BY <4>3
      <4> QED BY <4>2, <4>4
    <3> QED BY <3>1, <3>2
  <2>9. g = [i \in 0..n |-> F(i, g)] BY <2>8
  <2> QED BY <2>7, <2>9, <2>3
<1>2. PICK f : Good(Len(pubs), f)
  <2>1. Len(pubs) \in 0..Len(pubs) OBVIOUS
  <2> QED BY <2>1, <1>1
<1> DEFINE valid == CHOOSE v : v = [i \in 0..Len(pubs) |-> IF i = 0 THEN <<>> ELSE IF Pub!Fresh(pubs[i]) THEN Append(v[i - 1], pubs[i]) ELSE v[i - 1]]
<1>3. Pub!prunePendingPubs(pubs) = valid[Len(pubs)]
  BY DEF Pub!prunePendingPubs
<1>4. f = valid
  <2> HIDE DEF valid
  <2>1. valid = [i \in 0..Len(pubs) |-> IF i = 0 THEN <<>> ELSE IF Pub!Fresh(pubs[i]) THEN Append(valid[i - 1], pubs[i]) ELSE valid[i - 1]]
    BY <1>2 DEF valid
  <2> DEFINE Off == {i \in 0..Len(pubs) : f[i] # valid[i]}
  <2>2. Off = {}
    <3> SUFFICES ASSUME Off # {} PROVE FALSE
      OBVIOUS
    <3>1. PICK n \in Off : \A m \in Off : n <= m
      <4>1. Off \subseteq Nat OBVIOUS
      <4> HIDE DEF Off
      <4> QED BY <4>1, LeastNumber
    <3>2. f[n] = F(n, f) BY <1>2
    <3>3. valid[n] = F(n, valid) BY <2>1
    <3>4. CASE n = 0 BY <3>2, <3>3, <3>4
    <3>5. CASE n # 0
      <4>1. n - 1 \in 0..Len(pubs) BY <3>5
      <4>2. n - 1 \notin Off
        <5>1. n \in Nat OBVIOUS
        <5> HIDE DEF Off
        <5> QED BY <3>1, <5>1
      <4>3. f[n - 1] = valid[n - 1] BY <4>1, <4>2
      <4> QED BY <4>3, <3>2, <3>3
    <3> QED BY <3>4, <3>5
  <2>3. DOMAIN f = 0..Len(pubs) /\ f = [i \in 0..Len(pubs) |-> f[i]] BY <1>2
  <2>4. DOMAIN valid = 0..Len(pubs) /\ valid = [i \in 0..Len(pubs) |-> valid[i]] BY <2>1
  <2>5. \A i \in 0..Len(pubs) : f[i] = valid[i] BY <2>2
  <2> QED BY <2>3, <2>4, <2>5
<1> DEFINE Left(i) == {p \in {pubs[k] : k \in 1..i} : Pub!Fresh(p)}
           Amounts(i) == /\ Len(f[i]) <= i /\ Pub!ToSet(f[i]) = Left(i)
                         /\ Rising(pubs) => Rising(f[i])
           Amiss == {i \in 0..Len(pubs) : ~Amounts(i)}
<1>5. Amiss = {}
  <2> SUFFICES ASSUME Amiss # {} PROVE FALSE
    OBVIOUS
  <2>1. PICK n \in Amiss : \A m \in Amiss : n <= m
    <3>1. Amiss \subseteq Nat OBVIOUS
    <3> HIDE DEF Amiss
    <3> QED BY <3>1, LeastNumber
  <2>2. n \in 0..Len(pubs) /\ ~Amounts(n) OBVIOUS
  <2>3. n # 0
    <3>1. f[0] = <<>> BY <1>2
    <3>2. Left(0) = {} OBVIOUS
    <3>3. Pub!ToSet(f[0]) = {} BY <3>1 DEF Pub!ToSet
    <3>4. Rising(f[0]) BY <3>1 DEF Rising
    <3> QED BY <3>1, <3>2, <3>3, <3>4, <2>2
  <2>4. n \in 1..Len(pubs) BY <2>2, <2>3
  <2>5. n - 1 \in 0..Len(pubs) BY <2>4
  <2>6. n - 1 \notin Amiss
    <3> HIDE DEF Amiss
    <3> QED BY <2>1, <2>4
  <2>7. Amounts(n - 1) BY <2>5, <2>6
  <2>8. f[n] = F(n, f) BY <1>2, <2>2
  <2>9. f[n - 1] \in Seq(Entry) /\ f[n] \in Seq(Entry) /\ pubs[n] \in Entry
    <3>1. f \in [0..Len(pubs) -> Seq(Entry)] BY <1>2
    <3>2. f[n - 1] \in Seq(Entry) /\ f[n] \in Seq(Entry)
      <4> DEFINE SE == Seq(Entry)
      <4> HIDE DEF SE
      <4>1. f \in [0..Len(pubs) -> SE] BY <3>1 DEF SE
      <4>2. f[n - 1] \in SE /\ f[n] \in SE BY <4>1, <2>2, <2>5
      <4> QED BY <4>2 DEF SE
    <3>3. pubs[n] \in Entry BY <2>4
    <3> QED BY <3>2, <3>3
  <2>10. CASE ~Pub!Fresh(pubs[n])
    <3>1. f[n] = f[n - 1] BY <2>10, <2>8, <2>3
    <3>2. Left(n) = Left(n - 1) BY <2>10, <2>4
    <3>3. Len(f[n]) <= n BY <3>1, <2>7, <2>9, <2>4
    <3> QED BY <3>1, <3>2, <3>3, <2>7, <2>2
  <2>11. CASE Pub!Fresh(pubs[n])
    <3>1. f[n] = Append(f[n - 1], pubs[n]) BY <2>11, <2>8, <2>3
    <3>2. Left(n) = Left(n - 1) \cup {pubs[n]} BY <2>11, <2>4
    <3>3. Len(f[n]) <= n BY <3>1, <2>7, <2>9, <2>4
    <3>4. Pub!ToSet(f[n]) = Pub!ToSet(f[n - 1]) \cup {pubs[n]}
      BY <3>1, <2>9, Appended
    <3>5. ASSUME Rising(pubs) PROVE Rising(f[n])
      <4>1. \A i \in DOMAIN f[n - 1] : f[n - 1][i].number < pubs[n].number
        <5> SUFFICES ASSUME NEW i \in DOMAIN f[n - 1] PROVE f[n - 1][i].number < pubs[n].number
          OBVIOUS
        <5>1. f[n - 1][i] \in Left(n - 1) BY <2>7 DEF Pub!ToSet
        <5>2. PICK k \in 1..(n - 1) : f[n - 1][i] = pubs[k] BY <5>1
        <5>3. k \in DOMAIN pubs /\ n \in DOMAIN pubs /\ k < n BY <2>4
        <5> QED BY <5>2, <5>3, <3>5 DEF Rising
      <4>2. Rising(f[n - 1]) BY <3>5, <2>7
      <4> QED BY SMTT(40), <4>1, <4>2, <3>1, <2>9 DEF Rising
    <3> QED BY <3>1, <3>2, <3>3, <3>4, <3>5, <2>7, <2>2
  <2> QED BY <2>10, <2>11
<1>6. Len(pubs) \in 0..Len(pubs) OBVIOUS
<1>7. Amounts(Len(pubs)) BY <1>5, <1>6
<1>8. Left(Len(pubs)) = {p \in Pub!ToSet(pubs) : Pub!Fresh(p)}
  BY DEF Pub!ToSet
<1>9. Pub!prunePendingPubs(pubs) = f[Len(pubs)]
  BY <1>3, <1>4
<1>10. f[Len(pubs)] \in Seq(Entry) BY <1>2, <1>6
<1> HIDE DEF Left
<1> QED BY <1>7, <1>8, <1>9, <1>10

\* There is room for one entry more.
LEMMA CappedFits ==
  ASSUME NEW pubs \in Seq(Entry), maxPendingPubs \in Nat \ {0}
  PROVE  LET c == Pub!Capped(pubs) IN
         /\ c \in Seq(Entry) /\ Len(c) < maxPendingPubs /\ Pub!ToSet(c) \subseteq Pub!ToSet(pubs)
         /\ Rising(pubs) => Rising(c)
<1> DEFINE c == Pub!Capped(pubs)
<1>1. CASE Len(pubs) < maxPendingPubs
  <2>1. c = pubs BY <1>1 DEF Pub!Capped
  <2> HIDE DEF c
  <2> QED BY <2>1, <1>1 DEF c
<1>2. CASE Len(pubs) >= maxPendingPubs
  <2> DEFINE k == Len(pubs) - maxPendingPubs + 1
  <2>1. Len(pubs) \in Nat /\ k \in Nat /\ c = SubSeq(pubs, k + 1, Len(pubs))
    BY <1>2 DEF Pub!Capped
  <2>2. /\ SubSeq(pubs, k + 1, Len(pubs)) \in Seq(Entry)
        /\ Len(SubSeq(pubs, k + 1, Len(pubs))) = maxPendingPubs - 1
        /\ \A i \in 1..(maxPendingPubs - 1) : SubSeq(pubs, k + 1, Len(pubs))[i] = pubs[i + k]
    BY <1>2
  <2>3. \A i \in 1..(maxPendingPubs - 1) : i + k \in DOMAIN pubs BY <1>2
  <2>4. /\ c \in Seq(Entry) /\ Len(c) = maxPendingPubs - 1 /\ DOMAIN c = 1..(maxPendingPubs - 1)
        /\ \A i \in DOMAIN c : i \in Nat /\ i + k \in DOMAIN pubs /\ c[i] = pubs[i + k]
    BY <2>1, <2>2, <2>3
  <2> HIDE DEF c, k
  <2>5. Pub!ToSet(c) \subseteq Pub!ToSet(pubs) BY <2>4 DEF Pub!ToSet
  <2>6. Rising(pubs) => Rising(c)
    <3> SUFFICES ASSUME Rising(pubs), NEW i \in DOMAIN c, NEW j \in DOMAIN c, i < j PROVE c[i].number < c[j].number
      BY DEF Rising
    <3>1. i + k < j + k BY <2>1, <2>4
    <3> QED BY <3>1, <2>4 DEF Rising
  <2> QED BY <2>4, <2>5, <2>6 DEF c
<1> QED BY <1>1, <1>2

EntryFor(m, panel) == [topic |-> m.topic, payload |-> m.payload, panel |-> panel, at |-> now, number |-> m.number]
\* The entry of a publication, and what is left of the others.
LEMMA TrackedFits ==
  ASSUME MessagesFit, Books, Rising(pendingPubs), \A p \in Pub!ToSet(pendingPubs) : p.number \in Numbers,
         NEW m \in Packet, m.number = Len(author) + 1, NEW panel \in Known
  PROVE  LET new == Pub!trackOutgoing(m, panel) IN
         /\ new \in Seq(Entry) /\ Len(new) <= maxPendingPubs /\ Rising(new)
         /\ panel = Pub!NoPanel => new = pendingPubs
         /\ panel # Pub!NoPanel => EntryFor(m, panel) \in Pub!ToSet(new)
         /\ \A p \in Pub!ToSet(new) : p \in Pub!ToSet(pendingPubs) \/ (panel # Pub!NoPanel /\ p = EntryFor(m, panel))
<1>1. CASE panel = Pub!NoPanel
  <2>1. Pub!trackOutgoing(m, panel) = pendingPubs BY <1>1 DEF Pub!trackOutgoing
  <2> QED BY <2>1, <1>1 DEF Books
<1>2. CASE panel # Pub!NoPanel
  <2> DEFINE e == EntryFor(m, panel)
             kept == Pub!prunePendingPubs(pendingPubs)
             c == Pub!Capped(kept)
  <2>1. e \in Entry BY <1>2 DEF EntryFor, Entry, Packet, Known, Books, Numbers, MessagesFit
  <2>2. Pub!trackOutgoing(m, panel) = Append(c, e) BY <1>2 DEF Pub!trackOutgoing, EntryFor
  <2>3. pendingPubs \in Seq(Entry) /\ now \in Nat /\ publishTTL \in Nat /\ maxPendingPubs \in Nat \ {0}
    BY DEF Books, MessagesFit
  <2>4. kept \in Seq(Entry) /\ Pub!ToSet(kept) \subseteq Pub!ToSet(pendingPubs) /\ Rising(kept)
    BY <2>3, Pruned
  <2> HIDE DEF kept
  <2>5. c \in Seq(Entry) /\ Len(c) < maxPendingPubs /\ Pub!ToSet(c) \subseteq Pub!ToSet(kept) /\ Rising(c)
    BY <2>3, <2>4, CappedFits
  <2> HIDE DEF c, e
  <2>6. /\ Append(c, e) \in Seq(Entry) /\ Len(Append(c, e)) = Len(c) + 1 /\ DOMAIN Append(c, e) = 1..(Len(c) + 1)
        /\ Append(c, e)[Len(c) + 1] = e /\ \A i \in DOMAIN c : i \in 1..Len(c) /\ Append(c, e)[i] = c[i]
        /\ Pub!ToSet(Append(c, e)) = Pub!ToSet(c) \cup {e}
    BY <2>1, <2>5, Appended
  <2>7. \A i \in DOMAIN c : c[i].number < e.number
    <3> SUFFICES ASSUME NEW i \in DOMAIN c PROVE c[i].number < e.number
      OBVIOUS
    <3>1. c[i] \in Pub!ToSet(pendingPubs) BY <2>4, <2>5 DEF Pub!ToSet
    <3>2. c[i].number \in Numbers BY <3>1
    <3>3. e.number = Len(author) + 1 /\ Len(author) \in Nat BY DEF e, EntryFor, Books
    <3> QED BY <3>2, <3>3 DEF Numbers
  <2>8. Rising(Append(c, e))
    <3> DEFINE a == Append(c, e)
    <3> HIDE DEF a
    <3>1. DOMAIN a = 1..(Len(c) + 1) /\ a[Len(c) + 1] = e /\ Len(c) \in Nat /\ DOMAIN c = 1..Len(c) /\ \A i \in 1..Len(c) : a[i] = c[i]
      BY <2>5, <2>6 DEF a
    <3> SUFFICES ASSUME NEW i \in 1..(Len(c) + 1), NEW j \in 1..(Len(c) + 1), i < j PROVE a[i].number < a[j].number
      BY <3>1 DEF Rising, a
    <3>2. i \in 1..Len(c) /\ a[i] = c[i] BY <3>1
    <3>3. CASE j = Len(c) + 1 BY <3>1, <3>2, <3>3, <2>7
    <3>4. CASE j \in 1..Len(c) BY <3>1, <3>2, <3>4, <2>5 DEF Rising
    <3> QED BY <3>1, <3>3, <3>4
  <2>9. Len(Append(c, e)) <= maxPendingPubs BY <2>3, <2>5, <2>6
  <2>10. \A p \in Pub!ToSet(Append(c, e)) : p \in Pub!ToSet(pendingPubs) \/ p = e BY <2>4, <2>5, <2>6
  <2> QED BY <2>2, <2>6, <2>8, <2>9, <2>10, <1>2 DEF e
<1> QED BY <1>1, <1>2

(* A publication, with its message. *)
Going(m) == online \/ m.qos > 0
Twins(m) == {n \in Pub!OnTheWay : Pub!Content(n) = Pub!Content(m)}
Plain(m, panel) ==
    Going(m) /\ \A n \in Twins(m) : n.qos = m.qos /\ n.number # Pub!Foreign /\ (panel = Pub!NoPanel <=> author[n.number] = Pub!NoPanel)
PublishOf(m, panel) ==
    /\ m \in Packet /\ m \in Sents /\ m.number = Len(author) + 1 /\ m.number <= MaxPublish
    /\ author' = Append(author, panel)
    /\ pendingPubs' = Pub!trackOutgoing(m, panel)
    /\ outbox' = IF Going(m) THEN Append(outbox, m) ELSE outbox
    /\ calls' = calls \cup {[message |-> m, step |-> "waits"]}
    /\ astray' = astray \cup Pub!Forgotten(pendingPubs, pendingPubs')
                        \cup (IF Plain(m, panel) THEN {} ELSE {Pub!Content(m)})
    /\ unsure' = IF m.retain /\ (~Going(m) \/ m.topic \in Pub!RetainedOnTheWay) THEN unsure \cup {m.topic} ELSE unsure
    /\ UNCHANGED <<online, now, inbox, stored, retained, retainedPanels, handling, seen, losses, others>>
LEMMA PublishHas ==
  ASSUME MessagesFit, Books, NEW panel \in Known, NEW message \in Messages, Pub!Publish(panel, message)
  PROVE  \E m : PublishOf(m, panel)
<1>1. Len(author) \in Nat /\ Len(author) + 1 \in 0..MaxPublish BY DEF MessagesFit, Books, Pub!Publish
<1>2. PICK m : m = Pub!Numbered(message, Len(author) + 1) OBVIOUS
<1>3. m \in Packet /\ m \in Sents /\ m.number = Len(author) + 1 BY <1>1, <1>2, NumberedFits
<1>4. /\ author' = Append(author, panel)
      /\ pendingPubs' = Pub!trackOutgoing(m, panel)
      /\ outbox' = IF Going(m) THEN Append(outbox, m) ELSE outbox
      /\ calls' = calls \cup {[message |-> m, step |-> "waits"]}
      /\ unsure' = IF m.retain /\ (~Going(m) \/ m.topic \in Pub!RetainedOnTheWay) THEN unsure \cup {m.topic} ELSE unsure
      /\ UNCHANGED <<online, now, inbox, stored, retained, retainedPanels, handling, seen, losses, others>>
  BY <1>2 DEF Pub!Publish, Going
<1>5. astray' = astray \cup Pub!Forgotten(pendingPubs, pendingPubs')
                       \cup (IF Plain(m, panel) THEN {} ELSE {Pub!Content(m)})
  BY <1>2 DEF Pub!Publish, Going, Plain, Twins
<1>6. m.number <= MaxPublish BY <1>1, <1>3
<1> QED BY <1>3, <1>4, <1>5, <1>6 DEF PublishOf

\* The list of authors grows by one.
LEMMA AuthorsGrow ==
  ASSUME MessagesFit, Books, NEW panel \in Known, NEW m, PublishOf(m, panel)
  PROVE  /\ author' \in Seq(Known) /\ Len(author') = Len(author) + 1 /\ Len(author) \in Nat /\ Len(author') <= MaxPublish
         /\ author'[m.number] = panel /\ \A k \in Numbers : k \in Numbers' /\ author'[k] = author[k]
         /\ m.number \in Numbers' /\ m.number \notin Numbers
<1>1. author \in Seq(Known) /\ author' = Append(author, panel) /\ m.number = Len(author) + 1 /\ m.number <= MaxPublish
  BY DEF Books, PublishOf
<1>2. /\ author' \in Seq(Known) /\ Len(author') = Len(author) + 1 /\ Len(author) \in Nat
      /\ author'[Len(author) + 1] = panel /\ \A k \in 1..Len(author) : author'[k] = author[k]
  BY <1>1
<1> QED BY <1>1, <1>2 DEF Numbers

\* What is on the way once a publication went.
LEMMA Departs ==
  ASSUME Wires, NEW panel, NEW m, PublishOf(m, panel)
  PROVE  /\ outbox' \in Seq(Packet) /\ DOMAIN outbox \subseteq DOMAIN outbox'
         /\ \A i \in DOMAIN outbox : i \in Nat /\ outbox'[i] = outbox[i]
         /\ \A i \in DOMAIN outbox' : i \in Nat /\ (i \in DOMAIN outbox \/ (Going(m) /\ outbox'[i] = m /\ \A j \in DOMAIN outbox' : j <= i))
         /\ Pub!ToSet(outbox') = Pub!ToSet(outbox) \cup (IF Going(m) THEN {m} ELSE {})
<1>1. outbox \in Seq(Packet) /\ m \in Packet BY DEF Wires, PublishOf
<1>2. CASE Going(m)
  <2>1. outbox' = Append(outbox, m) BY <1>2 DEF PublishOf
  <2>2. /\ outbox' \in Seq(Packet) /\ DOMAIN outbox' = 1..(Len(outbox) + 1) /\ DOMAIN outbox = 1..Len(outbox) /\ Len(outbox) \in Nat
        /\ outbox'[Len(outbox) + 1] = m /\ \A i \in DOMAIN outbox : outbox'[i] = outbox[i]
        /\ Pub!ToSet(outbox') = Pub!ToSet(outbox) \cup {m}
    BY <1>1, <2>1, Appended
  <2> QED BY <1>2, <2>2
<1>3. CASE ~Going(m)
  <2>1. outbox' = outbox BY <1>3 DEF PublishOf
  <2>2. \A i \in DOMAIN outbox : i \in Nat BY <1>1
  <2> QED BY <1>1, <1>3, <2>1, <2>2
<1> QED BY <1>2, <1>3

LEMMA PublishShapes ==
  ASSUME MessagesFit, PubInv, NEW panel \in Known, NEW m, PublishOf(m, panel)
  PROVE  PubShapes'
<1> USE DEF PubInv, PubShapes
<1>1. /\ author' \in Seq(Known) /\ Len(author') = Len(author) + 1 /\ Len(author) \in Nat /\ Len(author') <= MaxPublish
      /\ \A k \in Numbers : k \in Numbers'
      /\ m.number \in Numbers'
  BY AuthorsGrow
<1>2. m \in Packet /\ m \in Sents /\ m.number = Len(author) + 1 BY DEF PublishOf
<1>3. pendingPubs' \in Seq(Entry) /\ Len(pendingPubs') <= maxPendingPubs
  BY <1>2, TrackedFits DEF PublishOf, Correlated, Entries
<1>4. Books' BY <1>1, <1>3 DEF Books, PublishOf
<1>5. Wires'
  <2>1. IsFiniteSet(calls') /\ calls' \subseteq Call /\ \A c \in calls' : c.message.number \in Numbers' /\ c.message \in Sents
    <3>1. [message |-> m, step |-> "waits"] \in Call BY <1>2 DEF Call
    <3>2. IsFiniteSet(calls') BY FS_AddElement DEF PublishOf, Wires
    <3> QED BY <1>1, <1>2, <3>1, <3>2 DEF PublishOf, Wires
  <2>2. outbox' \in Seq(Packet) /\ \A i \in DOMAIN outbox' : outbox'[i].number \in Numbers' /\ outbox'[i] \in Sents
    BY <1>1, <1>2, Departs DEF Wires
  <2>3. inbox' = inbox /\ online' = online BY DEF PublishOf
  <2>4. \A n \in 0..Len(author) : n \in 0..Len(author') BY <1>1
  <2> QED BY <2>1, <2>2, <2>3, <2>4 DEF Wires
<1>6. \A n \in 0..Len(author) : n \in 0..Len(author') BY <1>1
<1>7. Store' BY <1>6 DEF Store, PublishOf, Stored
<1>8. Reader'
  <2>1. astray' \subseteq Pairs
    <3>1. Pub!Content(m) \in Pairs BY <1>2 DEF Pub!Content, Packet, Pairs
    <3>2. Pub!Forgotten(pendingPubs, pendingPubs') \subseteq Pairs
      <4>1. \A p \in Pub!ToSet(pendingPubs) : p \in Entry BY DEF Books, Pub!ToSet
      <4> QED BY <4>1 DEF Pub!Forgotten, Pub!Content, Entry, Pairs
    <3> QED BY <3>1, <3>2 DEF PublishOf, Reader
  <2>2. unsure' \subseteq Topics BY <1>2 DEF PublishOf, Reader, Packet
  <2> QED BY <1>6, <2>1, <2>2 DEF Reader, PublishOf
<1> QED BY <1>4, <1>5, <1>7, <1>8

LEMMA PublishCorrelates ==
  ASSUME MessagesFit, PubInv, NEW panel \in Known, NEW m, PublishOf(m, panel)
  PROVE  Correlated'
<1> USE DEF PubInv, PubShapes, Correlated
<1>1. /\ Len(author') = Len(author) + 1 /\ Len(author) \in Nat
      /\ author'[m.number] = panel /\ \A k \in Numbers : k \in Numbers' /\ author'[k] = author[k]
      /\ m.number \in Numbers' /\ m.number \notin Numbers
  BY AuthorsGrow
<1>2. m \in Packet /\ m \in Sents /\ m.number = Len(author) + 1 BY DEF PublishOf
<1>3. /\ outbox' \in Seq(Packet) /\ DOMAIN outbox \subseteq DOMAIN outbox'
      /\ \A i \in DOMAIN outbox : i \in Nat /\ outbox'[i] = outbox[i]
      /\ \A i \in DOMAIN outbox' : i \in Nat /\ (i \in DOMAIN outbox \/ (Going(m) /\ outbox'[i] = m /\ \A j \in DOMAIN outbox' : j <= i))
      /\ Pub!ToSet(outbox') = Pub!ToSet(outbox) \cup (IF Going(m) THEN {m} ELSE {})
  BY Departs
<1>4. inbox' = inbox /\ handling' = handling /\ seen' = seen BY DEF PublishOf
<1>5. \A c : Clean(c)' => Clean(c) BY DEF Clean, PublishOf
<1>6. Clean(Pub!Content(m))' => Plain(m, panel) BY DEF Clean, PublishOf
<1>7. \A n \in Coming : n \in Pub!OnTheWay BY DEF Coming, Pub!OnTheWay
<1>8. Coming' = Coming \cup (IF Going(m) THEN {m} ELSE {}) BY <1>3, <1>4 DEF Coming, Echo
<1>9. \A n \in Pub!ToSet(outbox) : n.number \in Numbers /\ n \in Coming BY DEF Wires, Pub!ToSet, Coming
<1>10. \A n \in Coming : n.number \in Numbers
  <2>1. \A n \in Pub!ToSet(inbox) : n.number \in 0..Len(author) BY DEF Wires, Pub!ToSet
  <2> QED BY <1>9, <2>1 DEF Coming, Echo, Numbers, Pub!Foreign, Books
<1>11. ASSUME NEW n \in Coming, Pub!Content(n) = Pub!Content(m), Clean(Pub!Content(m))'
       PROVE  n.qos = m.qos /\ (panel = Pub!NoPanel <=> author[n.number] = Pub!NoPanel) /\ Going(m)
  BY <1>6, <1>7, <1>11 DEF Plain, Twins
<1>12. \A n \in Coming : n.number < m.number BY <1>1, <1>2, <1>10 DEF Numbers
<1>13. Queues'
  <2>1. ASSUME NEW i \in DOMAIN outbox', NEW j \in DOMAIN outbox', i < j PROVE Ahead(outbox[i], outbox[j])'
    <3>1. i \in DOMAIN outbox BY <1>3, <2>1
    <3>2. CASE j \in DOMAIN outbox BY <3>1, <3>2, <2>1, <1>3, <1>5 DEF Queues, Ahead
    <3>3. CASE outbox'[j] = m
      <4>1. outbox'[i] \in Coming BY <3>1, <1>3, <1>9 DEF Pub!ToSet
      <4> QED BY <4>1, <3>3, <1>12 DEF Ahead
    <3> QED BY <3>2, <3>3, <1>3
  <2>2. ASSUME NEW i \in DOMAIN outbox', NEW j \in DOMAIN outbox', Clean(Pub!Content(outbox[i]))', Pub!Content(outbox'[i]) = Pub!Content(outbox'[j])
        PROVE outbox'[i].qos = outbox'[j].qos
    <3>1. \A k \in DOMAIN outbox' : (k \in DOMAIN outbox /\ outbox'[k] = outbox[k] /\ outbox[k] \in Coming) \/ outbox'[k] = m
      BY <1>3, <1>9 DEF Pub!ToSet
    <3>2. CASE i \in DOMAIN outbox /\ j \in DOMAIN outbox
      <4>1. outbox'[i] = outbox[i] /\ outbox'[j] = outbox[j] BY <3>2, <1>3
      <4>2. Clean(Pub!Content(outbox[i])) BY <2>2, <4>1, <1>5 DEF Clean
      <4> QED BY <4>1, <4>2, <3>2, <2>2 DEF Queues
    <3>3. CASE outbox'[i] = m BY <3>1, <3>3, <2>2, <1>11 DEF Clean
    <3>4. CASE outbox'[j] = m BY <3>1, <3>4, <2>2, <1>11 DEF Clean
    <3> QED BY <3>1, <3>2, <3>3, <3>4
  <2>3. \A i, j \in DOMAIN inbox' : i < j /\ Echo(inbox'[i]) /\ Echo(inbox'[j]) => Ahead(inbox[i], inbox[j])'
    BY <1>4, <1>5 DEF Queues, Ahead
  <2>4. ASSUME NEW i \in DOMAIN inbox', NEW j \in DOMAIN outbox', Echo(inbox'[i]) PROVE Ahead(inbox[i], outbox[j])'
    <3>1. CASE j \in DOMAIN outbox BY <3>1, <2>4, <1>3, <1>4, <1>5 DEF Queues, Ahead
    <3>2. CASE outbox'[j] = m
      <4>1. inbox[i] \in Coming BY <2>4, <1>4 DEF Coming, Pub!ToSet
      <4> QED BY <4>1, <3>2, <1>4, <1>12 DEF Ahead
    <3> QED BY <3>1, <3>2, <1>3
  <2> QED BY <2>1, <2>2, <2>3, <2>4 DEF Queues, Echo
<1>14. Alike'
  <2> SUFFICES ASSUME NEW a \in Coming', NEW b \in Coming', Clean(Pub!Content(a))', Pub!Content(a) = Pub!Content(b)
               PROVE  author'[a.number] = Pub!NoPanel <=> author'[b.number] = Pub!NoPanel
    BY DEF Alike, Clean
  <2>1. \A n \in Coming : author'[n.number] = author[n.number] BY <1>1, <1>10
  <2>2. CASE a \in Coming /\ b \in Coming
    <3>1. Clean(Pub!Content(a)) BY <1>5 DEF Clean
    <3> QED BY <3>1, <2>1, <2>2 DEF Alike
  <2>3. CASE a = m BY <2>1, <2>3, <1>1, <1>8, <1>11 DEF Clean
  <2>4. CASE b = m BY <2>1, <2>4, <1>1, <1>8, <1>11 DEF Clean
  <2> QED BY <2>2, <2>3, <2>4, <1>8
<1>15. /\ Rising(pendingPubs') /\ pendingPubs' \in Seq(Entry)
       /\ panel = Pub!NoPanel => pendingPubs' = pendingPubs
       /\ panel # Pub!NoPanel => EntryFor(m, panel) \in Pub!ToSet(pendingPubs')
       /\ \A p \in Pub!ToSet(pendingPubs') : p \in Pub!ToSet(pendingPubs) \/ (panel # Pub!NoPanel /\ p = EntryFor(m, panel))
  BY <1>2, TrackedFits DEF PublishOf, Entries
<1>16. EntryFor(m, panel).number = m.number /\ EntryFor(m, panel).panel = panel /\ Pub!Content(EntryFor(m, panel)) = Pub!Content(m)
  BY DEF EntryFor, Pub!Content
<1>17. \A p \in Pub!ToSet(pendingPubs) : Clean(Pub!Content(p))' => p \in Pub!ToSet(pendingPubs')
  BY DEF Clean, PublishOf, Pub!Forgotten
<1>18. Entries'
  <2>1. \A p \in Pub!ToSet(pendingPubs') : p.number \in Numbers' /\ author'[p.number] = p.panel
    BY <1>1, <1>15, <1>16 DEF Entries
  <2>2. ASSUME NEW n \in Coming', Clean(Pub!Content(n))', author'[n.number] # Pub!NoPanel
        PROVE  \E p \in Pub!ToSet(pendingPubs') : p.number = n.number /\ Pub!Content(p) = Pub!Content(n)
    <3>1. CASE n = m BY <3>1, <2>2, <1>1, <1>15, <1>16
    <3>2. CASE n \in Coming
      <4>1. author[n.number] # Pub!NoPanel BY <3>2, <2>2, <1>1, <1>10
      <4>2. Clean(Pub!Content(n)) BY <2>2, <1>5 DEF Clean
      <4>3. PICK p \in Pub!ToSet(pendingPubs) : p.number = n.number /\ Pub!Content(p) = Pub!Content(n)
        BY <4>1, <4>2, <3>2 DEF Entries
      <4>4. p \in Pub!ToSet(pendingPubs') BY <4>3, <2>2, <1>17 DEF Clean
      <4> QED BY <4>3, <4>4
    <3> QED BY <3>1, <3>2, <1>8
  <2>3. ASSUME NEW p \in Pub!ToSet(pendingPubs'), Clean(Pub!Content(p))'
        PROVE  \E n \in Coming' : n.number = p.number /\ Pub!Content(n) = Pub!Content(p)
    <3>1. CASE p \in Pub!ToSet(pendingPubs)
      <4>1. Clean(Pub!Content(p)) BY <2>3, <1>5 DEF Clean
      <4> QED BY <4>1, <3>1, <1>8 DEF Entries
    <3>2. CASE p = EntryFor(m, panel)
      <4>1. Going(m) BY <3>2, <2>3, <1>6, <1>16 DEF Plain, Clean
      <4> QED BY <4>1, <3>2, <1>8, <1>16
    <3> QED BY <3>1, <3>2, <1>15
  <2> QED BY <2>1, <2>2, <2>3, <1>15 DEF Entries, Clean
<1>19. \A p \in Pub!ToSet(pendingPubs') : p \in Pub!ToSet(pendingPubs) \/ p.number \notin Numbers
  BY <1>1, <1>15, <1>16
<1>20. Taken'
  <2> SUFFICES ASSUME handling # <<>> PROVE Found(handling[1])'
    BY <1>4 DEF Taken
  <2>1. Found(handling[1]) BY DEF Taken
  <2>2. handling[1].message.number \in 0..Len(author) BY DEF Reader
  <2>3. Echo(handling[1].message) => handling[1].message.number \in Numbers BY <2>2, <1>1 DEF Echo, Numbers, Pub!Foreign
  <2> QED BY <2>1, <2>3, <1>1, <1>4, <1>5, <1>19 DEF Found, Clean
<1>21. Seen'
  <2>1. \A s \in seen : s.number \in 0..Len(author) BY DEF Reader
  <2>2. \A s \in seen : s.number # Pub!Foreign => s.number \in Numbers BY <2>1, <1>1 DEF Numbers, Pub!Foreign
  <2>3. \A s \in seen : s.entry # Pub!Foreign => s.entry \in Numbers BY DEF Seen
  <2>4. \A s \in seen : s.content \notin astray' => s.content \notin astray BY <1>5 DEF Clean
  <2>5. Pub!Attributed' BY <2>2, <2>3, <2>4, <1>1, <1>4 DEF Seen, Pub!Attributed
  <2>6. \A s \in seen, p \in Pub!ToSet(pendingPubs') : s.entry # p.number
    <3>1. \A p \in Pub!ToSet(pendingPubs') : p.number # 0 BY <1>1, <1>18 DEF Entries, Numbers
    <3> QED BY <3>1, <2>3, <1>19 DEF Seen, Pub!Foreign
  <2> QED BY <2>3, <2>5, <2>6, <1>1, <1>4 DEF Seen
<1> QED BY <1>13, <1>14, <1>18, <1>20, <1>21

\* The callback of '#' takes the first message and looks for its entry.
MatchOf(m, pubs, h) ==
    /\ handling = <<>> /\ inbox # <<>> /\ m = Head(inbox) /\ pubs = Pub!prunePendingPubs(pendingPubs)
    /\ inbox' = Tail(inbox) /\ pendingPubs' = Pub!Unmatched(m, pubs)
    /\ handling' = <<h>> /\ h.message = m
    /\ h = IF Pub!Matching(m, pubs) = {} THEN [message |-> m, panel |-> Pub!NoPanel, entry |-> Pub!Foreign, age |-> 0]
           ELSE [message |-> m, panel |-> pubs[Pub!Min(Pub!Matching(m, pubs))].panel,
                 entry |-> pubs[Pub!Min(Pub!Matching(m, pubs))].number, age |-> now - pubs[Pub!Min(Pub!Matching(m, pubs))].at]
    /\ astray' = astray \cup Pub!Forgotten(pendingPubs, pubs)
                        \cup (IF Pub!Matching(m, pubs) # {} /\ (m.number = Pub!Foreign \/ m.retain) THEN {Pub!Content(m)} ELSE {})
    /\ UNCHANGED <<online, now, calls, outbox, stored, retained, retainedPanels, seen, author, unsure, losses, others>>
LEMMA MatchHas ==
  ASSUME Books, Pub!Match
  PROVE  \E m, pubs, h : MatchOf(m, pubs, h)
<1>1. PICK m : m = Head(inbox) OBVIOUS
<1>2. PICK pubs : pubs = Pub!prunePendingPubs(pendingPubs) OBVIOUS
<1>3. now - now = 0 BY DEF Books
<1>4. CASE Pub!Matching(m, pubs) = {}
  <2>1. PICK h : h = [message |-> m, panel |-> Pub!NoPanel, entry |-> Pub!Foreign, age |-> 0] OBVIOUS
  <2>2. MatchOf(m, pubs, h) BY <1>1, <1>2, <1>3, <1>4, <2>1 DEF Pub!Match, MatchOf
  <2> QED BY <2>2
<1>5. CASE Pub!Matching(m, pubs) # {}
  <2>1. PICK k : k = Pub!Min(Pub!Matching(m, pubs)) OBVIOUS
  <2>2. PICK h : h = [message |-> m, panel |-> pubs[k].panel, entry |-> pubs[k].number, age |-> now - pubs[k].at] OBVIOUS
  <2>3. MatchOf(m, pubs, h) BY <1>1, <1>2, <1>5, <2>1, <2>2 DEF Pub!Match, MatchOf
  <2> QED BY <2>3
<1> QED BY <1>4, <1>5

\* The entry that is found, if there is one, and what is left.
LEMMA MatchFinds ==
  ASSUME MessagesFit, PubInv, NEW m, NEW pubs, NEW h, MatchOf(m, pubs, h)
  PROVE  /\ m \in Packet /\ pubs \in Seq(Entry) /\ Len(pubs) <= Len(pendingPubs) /\ Rising(pubs)
         /\ Pub!ToSet(pubs) = {p \in Pub!ToSet(pendingPubs) : Pub!Fresh(p)}
         /\ pendingPubs' \in Seq(Entry) /\ Len(pendingPubs') <= Len(pubs) /\ Rising(pendingPubs')
         /\ \/ /\ \A p \in Pub!ToSet(pubs) : Pub!Content(p) # Pub!Content(m)
               /\ pendingPubs' = pubs /\ h.panel = Pub!NoPanel /\ h.entry = Pub!Foreign /\ h.age = 0
               /\ astray' = astray \cup Pub!Forgotten(pendingPubs, pubs)
            \/ \E e \in Pub!ToSet(pubs) :
               /\ e \in Entry /\ Pub!Content(e) = Pub!Content(m) /\ h.panel = e.panel /\ h.entry = e.number /\ h.age = now - e.at
               /\ \A p \in Pub!ToSet(pubs) : Pub!Content(p) = Pub!Content(m) => e.number <= p.number
               /\ Pub!ToSet(pendingPubs') = {p \in Pub!ToSet(pubs) : p.number # e.number}
               /\ m.number = Pub!Foreign \/ m.retain => Pub!Content(m) \in astray'
               /\ astray \cup Pub!Forgotten(pendingPubs, pubs) \subseteq astray'
         /\ h \in [message : {m}, panel : Known, entry : 0..MaxPublish, age : Int]
<1>1. m \in Packet BY Behead DEF PubInv, PubShapes, Wires, MatchOf
<1>2. pendingPubs \in Seq(Entry) /\ now \in Nat /\ publishTTL \in Nat /\ MaxPublish \in Nat /\ Rising(pendingPubs)
  BY DEF PubInv, PubShapes, Books, MessagesFit, Correlated, Entries
<1>3. pubs = Pub!prunePendingPubs(pendingPubs) BY DEF MatchOf
<1>4. /\ pubs \in Seq(Entry) /\ Len(pubs) <= Len(pendingPubs) /\ Rising(pubs)
      /\ Pub!ToSet(pubs) = {p \in Pub!ToSet(pendingPubs) : Pub!Fresh(p)}
  BY <1>2, <1>3, Pruned
<1>5. \A i \in DOMAIN pubs : i \in Nat /\ pubs[i] \in Pub!ToSet(pubs) /\ pubs[i] \in Entry BY <1>4 DEF Pub!ToSet
<1>6. CASE Pub!Matching(m, pubs) = {}
  <2>1. /\ pendingPubs' = pubs /\ h = [message |-> m, panel |-> Pub!NoPanel, entry |-> Pub!Foreign, age |-> 0]
        /\ astray' = astray \cup Pub!Forgotten(pendingPubs, pubs)
    BY <1>6 DEF MatchOf, Pub!Unmatched
  <2>2. \A p \in Pub!ToSet(pubs) : Pub!Content(p) # Pub!Content(m) BY <1>6 DEF Pub!ToSet, Pub!Matching
  <2>3. h \in [message : {m}, panel : Known, entry : 0..MaxPublish, age : Int] BY <2>1, <1>2 DEF Known, Pub!Foreign
  <2> QED BY <1>1, <1>4, <2>1, <2>2, <2>3
<1>7. CASE Pub!Matching(m, pubs) # {}
  <2>1. PICK k : k = Pub!Min(Pub!Matching(m, pubs)) OBVIOUS
  <2>2. k \in Pub!Matching(m, pubs) /\ \A j \in Pub!Matching(m, pubs) : k <= j
    <3>1. Pub!Matching(m, pubs) \subseteq Nat BY <1>5 DEF Pub!Matching
    <3>2. \E n \in Pub!Matching(m, pubs) : \A j \in Pub!Matching(m, pubs) : n <= j BY <1>7, <3>1, LeastNumber
    <3> QED BY <2>1, <3>2 DEF Pub!Min
  <2>3. k \in DOMAIN pubs /\ Pub!Content(pubs[k]) = Pub!Content(m) BY <2>2 DEF Pub!Matching
  <2>4. PICK e : e = pubs[k] OBVIOUS
  <2>5. e \in Entry /\ e \in Pub!ToSet(pubs) /\ Pub!Content(e) = Pub!Content(m) BY <1>5, <2>3, <2>4
  <2>6. /\ pendingPubs' = Pub!RemoveAt(pubs, k) /\ h = [message |-> m, panel |-> e.panel, entry |-> e.number, age |-> now - e.at]
        /\ m.number = Pub!Foreign \/ m.retain => Pub!Content(m) \in astray'
        /\ astray \cup Pub!Forgotten(pendingPubs, pubs) \subseteq astray'
    BY <1>7, <2>1, <2>4 DEF MatchOf, Pub!Unmatched
  <2>7. \A p \in Pub!ToSet(pubs) : Pub!Content(p) = Pub!Content(m) => e.number <= p.number
    <3> SUFFICES ASSUME NEW j \in DOMAIN pubs, Pub!Content(pubs[j]) = Pub!Content(m) PROVE e.number <= pubs[j].number
      BY DEF Pub!ToSet
    <3>1. k <= j BY <2>2 DEF Pub!Matching
    <3>2. k = j \/ k < j BY <3>1, <1>5, <2>3
    <3>3. e.number \in Nat /\ pubs[j].number \in Nat BY <1>5, <2>5, <1>2 DEF Entry
    <3> QED BY <3>2, <3>3, <2>3, <2>4, <1>4 DEF Rising
  <2> DEFINE r == Pub!RemoveAt(pubs, k)
  <2>8. /\ r \in Seq(Entry) /\ Len(r) = Len(pubs) - 1
        /\ \A i \in DOMAIN r :
              /\ i \in Nat /\ i < k => i \in DOMAIN pubs /\ r[i] = pubs[i]
              /\ i >= k => i + 1 \in DOMAIN pubs /\ r[i] = pubs[i + 1]
        /\ \A i \in DOMAIN pubs : i \in Nat /\ (i = k \/ pubs[i] \in Pub!ToSet(r))
    BY <1>4, <2>3, Without
  <2> HIDE DEF r
  <2>9. Rising(r)
    <3> SUFFICES ASSUME NEW i \in DOMAIN r, NEW j \in DOMAIN r, i < j PROVE r[i].number < r[j].number
      BY DEF Rising
    <3>0. i \in Nat /\ j \in Nat /\ k \in Nat BY <2>8, <1>5, <2>3
    <3>1. CASE j < k BY <3>0, <3>1, <2>8, <1>4 DEF Rising
    <3>2. CASE i >= k
      <4>1. i + 1 < j + 1 /\ j >= k BY <3>0, <3>2
      <4> QED BY <3>2, <4>1, <2>8, <1>4 DEF Rising
    <3>3. CASE i < k /\ j >= k
      <4>1. i < j + 1 BY <3>0
      <4> QED BY <3>3, <4>1, <2>8, <1>4 DEF Rising
    <3> QED BY <3>0, <3>1, <3>2, <3>3
  <2>10. Pub!ToSet(r) = {p \in Pub!ToSet(pubs) : p.number # e.number}
    <3>1. ASSUME NEW i \in DOMAIN r PROVE r[i] \in Pub!ToSet(pubs) /\ r[i].number # e.number
      <4>0. i \in Nat /\ k \in Nat BY <2>8, <1>5, <2>3
      <4>1. CASE i < k
        <5>1. i \in DOMAIN pubs /\ r[i] = pubs[i] BY <4>1, <2>8
        <5>2. pubs[i].number < pubs[k].number BY <5>1, <4>1, <2>3, <1>4 DEF Rising
        <5>3. pubs[i].number \in Nat /\ pubs[k].number \in Nat BY <5>1, <2>3, <1>2, <1>5 DEF Entry
        <5> QED BY <5>1, <5>2, <5>3, <2>4, <1>5
      <4>2. CASE i >= k
        <5>1. i + 1 \in DOMAIN pubs /\ r[i] = pubs[i + 1] /\ k < i + 1 BY <4>0, <4>2, <2>8
        <5>2. pubs[k].number < pubs[i + 1].number BY <5>1, <2>3, <1>4 DEF Rising
        <5>3. pubs[i + 1].number \in Nat /\ pubs[k].number \in Nat BY <5>1, <2>3, <1>2, <1>5 DEF Entry
        <5> QED BY <5>1, <5>2, <5>3, <2>4, <1>5
      <4> QED BY <4>0, <4>1, <4>2
    <3>2. ASSUME NEW i \in DOMAIN pubs, pubs[i].number # e.number PROVE pubs[i] \in Pub!ToSet(r)
      BY <2>4, <2>8, <3>2
    <3> QED BY <3>1, <3>2 DEF Pub!ToSet
  <2>11. h \in [message : {m}, panel : Known, entry : 0..MaxPublish, age : Int]
    BY <2>5, <2>6, <1>2 DEF Known, Entry
  <2>12. Len(r) <= Len(pubs) BY <1>4, <2>8
  <2> QED BY <1>1, <1>4, <2>5, <2>6, <2>7, <2>8, <2>9, <2>10, <2>11, <2>12 DEF r
<1> QED BY <1>6, <1>7

LEMMA MatchKeeps ==
  ASSUME MessagesFit, PubInv, NEW m, NEW pubs, NEW h, MatchOf(m, pubs, h)
  PROVE  PubShapes' /\ Correlated'
<1> USE DEF PubInv, PubShapes, Correlated
<1>1. /\ m \in Packet /\ pubs \in Seq(Entry) /\ Len(pubs) <= Len(pendingPubs) /\ Rising(pubs)
      /\ Pub!ToSet(pubs) = {p \in Pub!ToSet(pendingPubs) : Pub!Fresh(p)}
      /\ pendingPubs' \in Seq(Entry) /\ Len(pendingPubs') <= Len(pubs) /\ Rising(pendingPubs')
      /\ h \in [message : {m}, panel : Known, entry : 0..MaxPublish, age : Int]
  BY MatchFinds
<1>2. /\ 1 \in DOMAIN inbox /\ inbox[1] = m /\ inbox' \in Seq(Packet)
      /\ \A i \in DOMAIN inbox' : i \in Nat /\ i + 1 \in DOMAIN inbox /\ inbox'[i] = inbox[i + 1]
      /\ Pub!ToSet(inbox) = {m} \cup Pub!ToSet(inbox')
  BY Behead DEF Wires, MatchOf
<1>3. outbox' = outbox /\ author' = author /\ seen' = seen /\ handling' = <<h>> /\ h.message = m /\ handling = <<>> BY DEF MatchOf
<1>4. \A c : Clean(c)' => Clean(c) BY DEF Clean, MatchOf
<1>5. PubShapes'
  <2>1. Books' BY <1>1 DEF Books, MatchOf, MessagesFit
  <2>2. Wires'
    <3>1. online BY DEF Wires, MatchOf, Books
    <3>2. calls' = calls /\ outbox' = outbox /\ author' = author /\ online' = online BY DEF MatchOf
    <3>3. \A i \in DOMAIN inbox' : inbox'[i].number \in 0..Len(author) /\ (inbox'[i].retain => inbox'[i].payload # Pub!Empty)
      BY <1>2 DEF Wires
    <3> QED BY <3>1, <3>2, <3>3, <1>2 DEF Wires, Numbers
  <2>3. Store' BY DEF Store, MatchOf, Stored
  <2>4. Reader'
    <3>1. h \in Taking /\ h.message.number \in 0..Len(author) BY <1>1, <1>2 DEF Taking, Wires
    <3>2. astray' \subseteq Pairs
      <4>1. Pub!Content(m) \in Pairs BY <1>1 DEF Pub!Content, Packet, Pairs
      <4>2. \A p \in Pub!ToSet(pendingPubs) : p \in Entry BY DEF Books, Pub!ToSet
      <4>3. Pub!Forgotten(pendingPubs, pubs) \subseteq Pairs BY <4>2 DEF Pub!Forgotten, Pub!Content, Entry, Pairs
      <4> QED BY <4>1, <4>3 DEF MatchOf, Reader
    <3> QED BY <3>1, <3>2, <1>3 DEF Reader, MatchOf
  <2> QED BY <2>1, <2>2, <2>3, <2>4
<1>6. Coming' \subseteq Coming /\ \A n \in Coming : n \in Coming' \/ (n = m /\ Echo(m)) BY <1>2, <1>3 DEF Coming, Echo
<1>7. Queues'
  <2>1. \A i, j \in DOMAIN outbox' : i < j => Ahead(outbox[i], outbox[j])' BY <1>3, <1>4 DEF Queues, Ahead
  <2>2. \A i, j \in DOMAIN outbox' : Clean(Pub!Content(outbox[i]))' /\ Pub!Content(outbox'[i]) = Pub!Content(outbox'[j]) => outbox'[i].qos = outbox'[j].qos
    BY <1>3, <1>4 DEF Queues, Clean
  <2>3. ASSUME NEW i \in DOMAIN inbox', NEW j \in DOMAIN inbox', i < j, Echo(inbox'[i]), Echo(inbox'[j]) PROVE Ahead(inbox[i], inbox[j])'
    <3>1. i + 1 < j + 1 BY <1>2, <2>3
    <3> QED BY <3>1, <2>3, <1>2, <1>4 DEF Queues, Ahead
  <2>4. \A i \in DOMAIN inbox', j \in DOMAIN outbox' : Echo(inbox'[i]) => Ahead(inbox[i], outbox[j])'
    BY <1>2, <1>3, <1>4 DEF Queues, Ahead
  <2> QED BY <2>1, <2>2, <2>3, <2>4 DEF Queues, Echo
<1>8. Alike' BY <1>3, <1>4, <1>6 DEF Alike, Clean
<1>9. \A p \in Pub!ToSet(pendingPubs) : Clean(Pub!Content(p))' => p \in Pub!ToSet(pubs)
  BY DEF Clean, MatchOf, Pub!Forgotten
\* With nothing astray the entry found is the message's own.
<1>10. ASSUME Echo(m), Clean(Pub!Content(m))'
       PROVE  \/ author[m.number] = Pub!NoPanel /\ \A p \in Pub!ToSet(pubs) : Pub!Content(p) # Pub!Content(m)
              \/ author[m.number] # Pub!NoPanel /\ \E p \in Pub!ToSet(pubs) : p.number = m.number /\ Pub!Content(p) = Pub!Content(m)
  <2>0. Clean(Pub!Content(m)) BY <1>10, <1>4 DEF Clean
  <2>1. m \in Coming BY <1>10, <1>2 DEF Coming
  <2>2. CASE author[m.number] = Pub!NoPanel
    <3> SUFFICES ASSUME NEW p \in Pub!ToSet(pubs), Pub!Content(p) = Pub!Content(m) PROVE FALSE
      BY <2>2
    <3>1. p \in Pub!ToSet(pendingPubs) BY <1>1
    <3>2. PICK n \in Coming : n.number = p.number /\ Pub!Content(n) = Pub!Content(p) BY <2>0, <3>1 DEF Entries
    <3>3. author[p.number] = p.panel BY <3>1 DEF Entries
    <3>4. p \in Entry BY <3>1 DEF Books, Pub!ToSet
    <3>5. p.panel # Pub!NoPanel BY <3>4 DEF Entry, MessagesFit
    <3> QED BY <3>2, <3>3, <3>5, <2>0, <2>1, <2>2 DEF Alike
  <2>3. CASE author[m.number] # Pub!NoPanel
    <3>1. PICK p \in Pub!ToSet(pendingPubs) : p.number = m.number /\ Pub!Content(p) = Pub!Content(m)
      BY <2>0, <2>1, <2>3 DEF Entries
    <3> QED BY <3>1, <2>3, <1>9, <1>10 DEF Clean
  <2> QED BY <2>2, <2>3
\* And the one that is first among those of its content.
<1>11. ASSUME Echo(m), NEW p \in Pub!ToSet(pubs), Pub!Content(p) = Pub!Content(m), Clean(Pub!Content(m))'
       PROVE  m.number <= p.number
  <2>0. Clean(Pub!Content(m)) BY <1>11, <1>4 DEF Clean
  <2>1. PICK n \in Coming : n.number = p.number /\ Pub!Content(n) = Pub!Content(p) BY <2>0, <1>1, <1>11 DEF Entries
  <2>2. CASE n \in Pub!ToSet(outbox)
    <3>1. PICK j \in DOMAIN outbox : outbox[j] = n BY <2>2 DEF Pub!ToSet
    <3>2. m.number < n.number BY <3>1, <2>0, <2>1, <1>2, <1>11 DEF Queues, Ahead
    <3>3. m.number \in Int /\ n.number \in Int
      <4>1. n \in Packet BY <3>1 DEF Wires
      <4> QED BY <4>1, <1>1 DEF Packet, MessagesFit
    <3> QED BY <3>2, <3>3, <2>1
  <2>3. CASE n \in Pub!ToSet(inbox) /\ Echo(n)
    <3>1. PICK j \in DOMAIN inbox : inbox[j] = n BY <2>3 DEF Pub!ToSet
    <3>2. j = 1 \/ 1 < j BY <3>1 DEF Wires
    <3>3. n = m \/ m.number < n.number BY <3>1, <3>2, <2>0, <2>1, <2>3, <1>2, <1>11 DEF Queues, Ahead
    <3>4. m.number \in Int /\ n.number \in Int
      <4>1. n \in Packet BY <3>1 DEF Wires
      <4> QED BY <4>1, <1>1 DEF Packet, MessagesFit
    <3> QED BY <3>3, <3>4, <2>1
  <2> QED BY <2>1, <2>2, <2>3 DEF Coming
<1>12. \A p \in Pub!ToSet(pubs) : p \in Entry /\ p.number \in Numbers /\ author[p.number] = p.panel /\ p.panel # Pub!NoPanel
  <2>1. \A p \in Pub!ToSet(pubs) : p \in Entry BY <1>1 DEF Pub!ToSet
  <2> QED BY <2>1, <1>1 DEF Entries, Entry, MessagesFit
<1>13. CASE /\ \A p \in Pub!ToSet(pubs) : Pub!Content(p) # Pub!Content(m)
            /\ pendingPubs' = pubs /\ h.panel = Pub!NoPanel /\ h.entry = Pub!Foreign
  <2>1. Entries'
    <3>1. ASSUME NEW n \in Coming', Clean(Pub!Content(n))', author[n.number] # Pub!NoPanel
          PROVE  \E p \in Pub!ToSet(pendingPubs') : p.number = n.number /\ Pub!Content(p) = Pub!Content(n)
      <4>1. PICK p \in Pub!ToSet(pendingPubs) : p.number = n.number /\ Pub!Content(p) = Pub!Content(n)
        BY <3>1, <1>4, <1>6 DEF Entries, Clean
      <4> QED BY <4>1, <3>1, <1>9, <1>13 DEF Clean
    <3>2. ASSUME NEW p \in Pub!ToSet(pendingPubs'), Clean(Pub!Content(p))'
          PROVE  \E n \in Coming' : n.number = p.number /\ Pub!Content(n) = Pub!Content(p)
      <4>1. PICK n \in Coming : n.number = p.number /\ Pub!Content(n) = Pub!Content(p)
        BY <3>2, <1>1, <1>4, <1>13 DEF Entries, Clean
      <4> QED BY <4>1, <1>6, <1>13, <3>2
    <3> QED BY <3>1, <3>2, <1>1, <1>3, <1>12, <1>13 DEF Entries, Clean, Numbers
  <2>2. Taken'
    <3>1. Found(h)' BY <1>3, <1>10, <1>13 DEF Found, Echo, Clean
    <3> QED BY <3>1, <1>3 DEF Taken
  <2>3. Seen' BY <1>1, <1>3, <1>4, <1>13 DEF Seen, Pub!Attributed, Clean, Numbers
  <2> QED BY <1>5, <1>7, <1>8, <2>1, <2>2, <2>3
<1>14. CASE \E e \in Pub!ToSet(pubs) :
               /\ e \in Entry /\ Pub!Content(e) = Pub!Content(m) /\ h.panel = e.panel /\ h.entry = e.number /\ h.age = now - e.at
               /\ \A p \in Pub!ToSet(pubs) : Pub!Content(p) = Pub!Content(m) => e.number <= p.number
               /\ Pub!ToSet(pendingPubs') = {p \in Pub!ToSet(pubs) : p.number # e.number}
               /\ m.number = Pub!Foreign \/ m.retain => Pub!Content(m) \in astray'
  <2>1. PICK e \in Pub!ToSet(pubs) :
               /\ e \in Entry /\ Pub!Content(e) = Pub!Content(m) /\ h.panel = e.panel /\ h.entry = e.number /\ h.age = now - e.at
               /\ \A p \in Pub!ToSet(pubs) : Pub!Content(p) = Pub!Content(m) => e.number <= p.number
               /\ Pub!ToSet(pendingPubs') = {p \in Pub!ToSet(pubs) : p.number # e.number}
               /\ m.number = Pub!Foreign \/ m.retain => Pub!Content(m) \in astray'
    BY <1>14
  <2>2. Clean(Pub!Content(m))' => Echo(m) BY <2>1 DEF Clean, Echo
  <2>3. Clean(Pub!Content(m))' => e.number = m.number
    <3> SUFFICES ASSUME Clean(Pub!Content(m))' PROVE e.number = m.number
      OBVIOUS
    <3>1. Echo(m) BY <2>2
    <3>2. m.number <= e.number BY <3>1, <2>1, <1>11
    <3>3. PICK p \in Pub!ToSet(pubs) : p.number = m.number /\ Pub!Content(p) = Pub!Content(m)
      BY <3>1, <2>1, <1>10
    <3>4. e.number <= m.number BY <2>1, <3>3
    <3>5. e.number \in Int /\ m.number \in Int BY <2>1, <1>1 DEF Entry, Packet, MessagesFit
    <3> QED BY <3>2, <3>4, <3>5
  <2>4. Entries'
    <3>1. ASSUME NEW n \in Coming', Clean(Pub!Content(n))', author[n.number] # Pub!NoPanel
          PROVE  \E p \in Pub!ToSet(pendingPubs') : p.number = n.number /\ Pub!Content(p) = Pub!Content(n)
      <4>1. PICK p \in Pub!ToSet(pendingPubs) : p.number = n.number /\ Pub!Content(p) = Pub!Content(n)
        BY <3>1, <1>4, <1>6 DEF Entries, Clean
      <4>2. p \in Pub!ToSet(pubs) BY <4>1, <3>1, <1>9 DEF Clean
      <4>3. p.number # e.number
        <5> SUFFICES ASSUME n.number = e.number PROVE FALSE
          BY <4>1
        <5>1. PICK a \in Pub!ToSet(pubs), b \in Pub!ToSet(pubs) : a = e /\ b = p BY <2>1, <4>2
        <5>2. e = p
          <6>1. PICK i \in DOMAIN pubs : pubs[i] = e BY <2>1 DEF Pub!ToSet
          <6>2. PICK j \in DOMAIN pubs : pubs[j] = p BY <4>2 DEF Pub!ToSet
          <6>3. i \in Nat /\ j \in Nat /\ e.number \in Int /\ p.number \in Int
            <7>1. i \in Nat /\ j \in Nat BY <6>1, <6>2, <1>1
            <7>2. e \in Entry /\ p \in Entry BY <6>1, <6>2, <1>1
            <7> QED BY <7>1, <7>2 DEF Entry, MessagesFit
          <6>4. ~(i < j) /\ ~(j < i) BY <6>1, <6>2, <6>3, <1>1, <4>1 DEF Rising
          <6> QED BY <6>1, <6>2, <6>3, <6>4
        <5>3. Pub!Content(n) = Pub!Content(m) BY <4>1, <5>2, <2>1
        <5>4. Clean(Pub!Content(m))' BY <3>1, <5>3 DEF Clean
        <5>5. n.number = m.number /\ Echo(m) /\ Clean(Pub!Content(m)) BY <5>4, <2>2, <2>3, <1>4 DEF Clean
        \* No message with its number is behind it.
        <5>6. CASE n \in Pub!ToSet(outbox)
          <6>1. PICK j \in DOMAIN outbox : outbox[j] = n BY <5>6 DEF Pub!ToSet
          <6>2. m.number < n.number BY <6>1, <5>3, <5>5, <1>2 DEF Queues, Ahead
          <6> QED BY <6>2, <5>5, <1>1 DEF Packet, MessagesFit
        <5>7. CASE n \in Pub!ToSet(inbox') /\ Echo(n)
          <6>1. PICK j \in DOMAIN inbox' : inbox'[j] = n BY <5>7 DEF Pub!ToSet
          <6>2. j + 1 \in DOMAIN inbox /\ inbox[j + 1] = n /\ 1 < j + 1 BY <6>1, <1>2 DEF Wires
          <6>3. m.number < n.number BY <6>2, <5>3, <5>5, <5>7, <1>2 DEF Queues, Ahead
          <6> QED BY <6>3, <5>5, <1>1 DEF Packet, MessagesFit
        <5> QED BY <5>6, <5>7, <1>3 DEF Coming, Echo
      <4> QED BY <4>1, <4>2, <4>3, <2>1
    <3>2. ASSUME NEW p \in Pub!ToSet(pendingPubs'), Clean(Pub!Content(p))'
          PROVE  \E n \in Coming' : n.number = p.number /\ Pub!Content(n) = Pub!Content(p)
      <4>1. p \in Pub!ToSet(pubs) /\ p.number # e.number BY <2>1
      <4>2. PICK n \in Coming : n.number = p.number /\ Pub!Content(n) = Pub!Content(p)
        BY <3>2, <4>1, <1>1, <1>4 DEF Entries, Clean
      <4>3. n # m BY <4>1, <4>2, <3>2, <2>3 DEF Clean
      <4> QED BY <4>2, <4>3, <1>6
    <3>3. \A p \in Pub!ToSet(pendingPubs') : p.number \in Numbers' /\ author'[p.number] = p.panel
      BY <2>1, <1>3, <1>12 DEF Numbers
    <3> QED BY <3>1, <3>2, <3>3, <1>1, <1>3 DEF Entries, Clean
  <2>5. Found(h)'
    <3>1. e.number \in Numbers /\ author[e.number] = e.panel /\ e.panel # Pub!NoPanel BY <2>1, <1>12
    <3>2. e.number # Pub!Foreign BY <3>1 DEF Numbers, Pub!Foreign, Books
    <3>3. h.age < publishTTL
      <4>1. Pub!Fresh(e) BY <2>1, <1>1
      <4>2. e.at \in Nat /\ now \in Int /\ publishTTL \in Int BY <2>1 DEF Entry, Books, MessagesFit
      <4> QED BY <4>1, <4>2, <2>1 DEF Pub!Fresh
    <3>4. \A p \in Pub!ToSet(pendingPubs') : p.number # h.entry BY <2>1
    <3>5. \A s \in seen : s.entry # h.entry BY <2>1, <1>1 DEF Seen
    <3>6. Echo(m) /\ Clean(Pub!Content(m))' => h.panel = author[m.number] BY <2>1, <2>3, <3>1
    <3>7. m.retain => ~Clean(Pub!Content(m))' BY <2>1 DEF Clean
    <3> QED BY <3>1, <3>2, <3>3, <3>4, <3>5, <3>6, <3>7, <2>1, <1>3 DEF Found, Clean, Echo, Numbers
  <2>6. Taken' BY <2>5, <1>3 DEF Taken
  <2>7. Seen' BY <2>1, <1>1, <1>3, <1>4 DEF Seen, Pub!Attributed, Clean, Numbers
  <2> QED BY <1>5, <1>7, <1>8, <2>4, <2>6, <2>7
<1> QED BY <1>13, <1>14, MatchFinds

\* The handler of '#' is told which panel it was, and notes what is retained.
HandleOf(h, told) ==
    /\ handling = <<h>> /\ handling' = <<>>
    /\ told = IF h.panel = Pub!NoPanel /\ h.message.retain THEN retainedPanels[h.message.topic] ELSE h.panel
    /\ IF ~h.message.retain THEN UNCHANGED <<retained, retainedPanels>>
       ELSE /\ retained' = IF h.message.payload # Pub!Empty THEN retained \cup {h.message.topic} ELSE retained \ {h.message.topic}
            /\ retainedPanels' = IF h.panel # Pub!NoPanel THEN [retainedPanels EXCEPT ![h.message.topic] = h.panel] ELSE retainedPanels
    /\ seen' = seen \cup {[number |-> h.message.number, content |-> Pub!Content(h.message), replay |-> h.message.retain,
                           panel |-> told, entry |-> h.entry, age |-> h.age]}
    /\ UNCHANGED <<online, now, pendingPubs, calls, outbox, inbox, stored, author, astray, unsure, losses, others>>
LEMMA HandleHas ==
  ASSUME Reader, Pub!Handle
  PROVE  \E h, told : HandleOf(h, told)
<1>1. PICK h : h = handling[1] OBVIOUS
<1>2. PICK told : told = IF h.panel = Pub!NoPanel /\ h.message.retain THEN retainedPanels[h.message.topic] ELSE h.panel
  OBVIOUS
<1>3. handling = <<h>> BY <1>1 DEF Pub!Handle, Reader
<1>4. HandleOf(h, told) BY <1>1, <1>2, <1>3 DEF Pub!Handle, HandleOf
<1> QED BY <1>4

LEMMA HandleKeeps ==
  ASSUME MessagesFit, PubInv, NEW h, NEW told, HandleOf(h, told)
  PROVE  PubShapes' /\ Correlated'
<1> USE DEF PubInv, PubShapes, Correlated
<1>1. h \in Taking /\ h.message \in Packet /\ h.message.number \in 0..Len(author) /\ h.panel \in Known BY DEF HandleOf, Reader, Taking
<1>2. Found(h) BY DEF Taken, HandleOf
<1>3. told \in Known BY <1>1 DEF HandleOf, Store, Packet
<1>4. PubShapes'
  <2>1. Books' /\ Wires' BY DEF Books, Wires, HandleOf, Numbers
  <2>2. Store' BY <1>1 DEF Store, HandleOf, Stored, Packet
  <2>3. Reader'
    <3>1. [number |-> h.message.number, content |-> Pub!Content(h.message), replay |-> h.message.retain,
           panel |-> told, entry |-> h.entry, age |-> h.age] \in Told
      BY <1>1, <1>3 DEF Told, Taking, Packet, Pub!Content, Pairs
    <3> QED BY <3>1, <1>1 DEF Reader, HandleOf
  <2> QED BY <2>1, <2>2, <2>3
<1>5. Queues' /\ Alike' /\ Entries'
  BY DEF HandleOf, Queues, Alike, Entries, Ahead, Clean, Coming, Echo, Numbers
<1>6. Taken' BY DEF HandleOf, Taken
<1>7. Seen'
  <2>1. PICK s : s = [number |-> h.message.number, content |-> Pub!Content(h.message), replay |-> h.message.retain,
                      panel |-> told, entry |-> h.entry, age |-> h.age]
    OBVIOUS
  <2>2. seen' = seen \cup {s} /\ s.number = h.message.number /\ s.content = Pub!Content(h.message) /\ s.replay = h.message.retain
        /\ s.panel = told /\ s.entry = h.entry /\ s.age = h.age
    BY <2>1 DEF HandleOf
  <2>3. ~s.replay => told = h.panel BY <2>2 DEF HandleOf
  <2>4. ~s.replay /\ s.number # Pub!Foreign /\ s.content \notin astray => s.panel = author[s.number]
    BY <1>2, <2>2, <2>3 DEF Found, Echo, Clean
  <2>5. ~s.replay /\ s.panel # Pub!NoPanel => s.entry # Pub!Foreign /\ s.panel = author[s.entry]
    BY <1>2, <2>2, <2>3 DEF Found
  <2>6. s.entry # Pub!Foreign => s.age < publishTTL /\ s.entry \in Numbers /\ \A r \in seen : r.entry # s.entry
    BY <1>2, <2>2 DEF Found
  <2>7. s.entry # Pub!Foreign => \A p \in Pub!ToSet(pendingPubs) : p.number # s.entry
    BY <1>2, <2>2 DEF Found
  <2>8. astray' = astray /\ author' = author /\ pendingPubs' = pendingPubs BY DEF HandleOf
  <2>9. Pub!Attributed' BY <2>2, <2>4, <2>5, <2>6, <2>8 DEF Seen, Pub!Attributed
  <2>10. \A p \in Pub!ToSet(pendingPubs) : p.number # Pub!Foreign BY DEF Entries, Numbers, Books, Pub!Foreign
  <2>11. \A r \in seen', p \in Pub!ToSet(pendingPubs) : r.entry # p.number BY <2>2, <2>7, <2>10 DEF Seen
  <2>12. \A r \in seen' : r.entry # Pub!Foreign => r.entry \in Numbers BY <2>2, <2>6 DEF Seen
  <2> QED BY <2>8, <2>9, <2>11, <2>12 DEF Seen, Numbers
<1> QED BY <1>4, <1>5, <1>6, <1>7

\* The broker sends a message on.
ForwardOf(m, f) == f = [m EXCEPT !.retain = FALSE] /\ inbox' = Append(inbox, f)
LEMMA ForwardFits ==
  ASSUME MessagesFit, PubInv, NEW m \in Packet, m.number \in 0..Len(author), NEW f, ForwardOf(m, f)
  PROVE  /\ f \in Packet /\ f.number = m.number /\ Pub!Content(f) = Pub!Content(m) /\ f.retain = FALSE
         /\ inbox' \in Seq(Packet) /\ DOMAIN inbox \subseteq DOMAIN inbox'
         /\ \A i \in DOMAIN inbox : i \in Nat /\ inbox'[i] = inbox[i]
         /\ \A i \in DOMAIN inbox' : i \in Nat /\ (i \in DOMAIN inbox \/ (inbox'[i] = f /\ \A j \in DOMAIN inbox' : j <= i))
         /\ Pub!ToSet(inbox') = Pub!ToSet(inbox) \cup {f}
         /\ \A i \in DOMAIN inbox' : inbox'[i].number \in 0..Len(author) /\ (inbox'[i].retain => inbox'[i].payload # Pub!Empty)
<1>1. f \in Packet /\ f.number = m.number /\ Pub!Content(f) = Pub!Content(m) /\ f.retain = FALSE
  <2>1. f = [topic |-> m.topic, payload |-> m.payload, qos |-> m.qos, retain |-> FALSE, number |-> m.number] BY DEF Packet, ForwardOf
  <2>2. f.topic = m.topic /\ f.payload = m.payload /\ f.number = m.number /\ f.retain = FALSE BY <2>1
  <2>3. f \in Packet BY <2>1 DEF Packet
  <2> QED BY <2>2, <2>3 DEF Pub!Content
<1>2. inbox \in Seq(Packet) BY DEF PubInv, PubShapes, Wires
<1>3. /\ inbox' \in Seq(Packet) /\ DOMAIN inbox' = 1..(Len(inbox) + 1) /\ DOMAIN inbox = 1..Len(inbox) /\ Len(inbox) \in Nat
      /\ inbox'[Len(inbox) + 1] = f /\ \A i \in DOMAIN inbox : inbox'[i] = inbox[i]
      /\ Pub!ToSet(inbox') = Pub!ToSet(inbox) \cup {f}
  <2>1. /\ Append(inbox, f) \in Seq(Packet) /\ DOMAIN Append(inbox, f) = 1..(Len(inbox) + 1)
        /\ Append(inbox, f)[Len(inbox) + 1] = f /\ \A i \in DOMAIN inbox : i \in 1..Len(inbox) /\ Append(inbox, f)[i] = inbox[i]
        /\ Pub!ToSet(Append(inbox, f)) = Pub!ToSet(inbox) \cup {f}
    BY <1>1, <1>2, Appended
  <2>2. DOMAIN inbox = 1..Len(inbox) /\ Len(inbox) \in Nat BY <1>2
  <2>3. inbox' = Append(inbox, f) BY DEF ForwardOf
  <2> QED BY <2>1, <2>2, <2>3
<1>4. ASSUME NEW i \in DOMAIN inbox' PROVE inbox'[i].number \in 0..Len(author) /\ (inbox'[i].retain => inbox'[i].payload # Pub!Empty)
  <2>1. CASE i \in DOMAIN inbox BY <2>1, <1>3 DEF PubInv, PubShapes, Wires
  <2>2. CASE i = Len(inbox) + 1 BY <2>2, <1>1, <1>3
  <2> QED BY <2>1, <2>2, <1>3
<1>5. \A i \in DOMAIN inbox : i \in Nat BY <1>3
<1>6. \A i \in DOMAIN inbox' : i \in Nat /\ (i \in DOMAIN inbox \/ (inbox'[i] = f /\ \A j \in DOMAIN inbox' : j <= i)) BY <1>3
<1>7. DOMAIN inbox \subseteq DOMAIN inbox' BY <1>3
<1> QED BY <1>1, <1>3, <1>4, <1>5, <1>6, <1>7

\* The broker takes message number i of what was sent.
LEMMA TakenKeeps ==
  ASSUME MessagesFit, PubInv, NEW i \in DOMAIN outbox, Pub!Taken(i)
  PROVE  PubShapes' /\ Correlated'
<1> USE DEF PubInv, PubShapes, Correlated
<1>1. PICK m : m = outbox[i] OBVIOUS
<1>2. PICK f : f = [m EXCEPT !.retain = FALSE] OBVIOUS
<1>3. /\ m \in Packet /\ m \in Sents /\ m.number \in Numbers /\ m.number \in 0..Len(author)
      /\ online /\ \A j \in 1..(i - 1) : outbox[j].qos # m.qos
      /\ stored' = Pub!Kept(m) /\ inbox' = Append(inbox, f) /\ outbox' = Pub!RemoveAt(outbox, i)
      /\ UNCHANGED <<online, now, pendingPubs, calls, retained, retainedPanels, handling, seen, author, astray, unsure, losses, others>>
  <2>1. m \in Packet /\ m \in Sents /\ m.number \in Numbers BY <1>1 DEF Wires
  <2>2. m.number \in 0..Len(author) BY <2>1 DEF Numbers, Books
  <2> QED BY <1>1, <1>2, <2>1, <2>2 DEF Pub!Taken, Pub!Forward
<1>4. /\ f \in Packet /\ f.number = m.number /\ Pub!Content(f) = Pub!Content(m) /\ f.retain = FALSE
      /\ inbox' \in Seq(Packet) /\ DOMAIN inbox \subseteq DOMAIN inbox'
      /\ \A k \in DOMAIN inbox : k \in Nat /\ inbox'[k] = inbox[k]
      /\ \A k \in DOMAIN inbox' : k \in Nat /\ (k \in DOMAIN inbox \/ (inbox'[k] = f /\ \A j \in DOMAIN inbox' : j <= k))
      /\ Pub!ToSet(inbox') = Pub!ToSet(inbox) \cup {f}
      /\ \A k \in DOMAIN inbox' : inbox'[k].number \in 0..Len(author) /\ (inbox'[k].retain => inbox'[k].payload # Pub!Empty)
  <2> HIDE DEF PubInv, PubShapes, Correlated
  <2>1. m \in Packet /\ m.number \in 0..Len(author) /\ ForwardOf(m, f) BY <1>2, <1>3 DEF ForwardOf
  <2> QED BY <2>1, ForwardFits
<1>5. /\ outbox' \in Seq(Packet)
      /\ \A k \in DOMAIN outbox' :
             /\ k \in Nat /\ k < i => k \in DOMAIN outbox /\ outbox'[k] = outbox[k]
             /\ k >= i => k + 1 \in DOMAIN outbox /\ outbox'[k] = outbox[k + 1]
      /\ \A k \in DOMAIN outbox : k \in Nat /\ (k = i \/ outbox[k] \in Pub!ToSet(outbox'))
  BY <1>3, Without DEF Wires
\* Every place left is one of the old, in the old order, and not that of m.
<1>6. \A k \in DOMAIN outbox' : \E j \in DOMAIN outbox : outbox'[k] = outbox[j] /\ j = (IF k < i THEN k ELSE k + 1) /\ j # i
  BY <1>5
<1>7. PubShapes'
  <2>1. Books' BY <1>3 DEF Books
  <2>2. Wires'
    <3>1. \A k \in DOMAIN outbox' : outbox'[k].number \in Numbers' /\ outbox'[k] \in Sents BY <1>3, <1>6 DEF Wires, Numbers
    <3> QED BY <3>1, <1>3, <1>4, <1>5 DEF Wires, Numbers
  <2>3. Store'
    <3>1. m.retain /\ m.payload # Pub!Empty => Stored(m.topic, m) BY <1>3 DEF Stored
    <3>2. m.topic \in Topics BY <1>3 DEF Packet
    <3>3. stored' \in [Topics -> {Pub!None} \cup Sents] BY <1>3, <3>2 DEF Pub!Kept, Store
    <3>4. \A t \in Topics : stored'[t] # Pub!None => Stored(t, stored'[t]) BY <1>3, <3>1, <3>2 DEF Pub!Kept, Store
    <3> QED BY <3>3, <3>4, <1>3 DEF Store, Stored
  <2>4. Reader' BY <1>3 DEF Reader
  <2> QED BY <2>1, <2>2, <2>3, <2>4
<1>8. Pub!ToSet(outbox') \subseteq Pub!ToSet(outbox) /\ \A n \in Pub!ToSet(outbox) : n \in Pub!ToSet(outbox') \/ n = m
  <2>1. Pub!ToSet(outbox') \subseteq Pub!ToSet(outbox) BY <1>6 DEF Pub!ToSet
  <2>2. \A k \in DOMAIN outbox : outbox[k] \in Pub!ToSet(outbox') \/ outbox[k] = m BY <1>1, <1>5
  <2> QED BY <2>1, <2>2 DEF Pub!ToSet
<1>9. m \in Coming /\ f \in Coming'
  <2>1. f.number # Pub!Foreign BY <1>3, <1>4 DEF Numbers, Pub!Foreign, Books
  <2>2. m \in Pub!ToSet(outbox) BY <1>1 DEF Pub!ToSet
  <2> QED BY <2>1, <2>2, <1>4 DEF Coming, Echo
\* Of its content m is the first that was not taken.
<1>10. ASSUME NEW j \in DOMAIN outbox, j # i, Clean(Pub!Content(m)), Pub!Content(outbox[j]) = Pub!Content(m) PROVE m.number < outbox[j].number
  <2>1. outbox[j].qos = m.qos BY <1>1, <1>10 DEF Queues
  <2>2. i \in Nat /\ j \in Nat BY <1>5
  <2>3. ~(j < i)
    <3>1. j < i => j \in 1..(i - 1) BY <2>2, <1>10 DEF Wires
    <3> QED BY <3>1, <2>1, <1>3
  <2>4. i < j BY <2>2, <2>3, <1>10
  <2> QED BY <2>4, <1>1, <1>10 DEF Queues, Ahead
<1>11. Queues'
  <2>1. ASSUME NEW k \in DOMAIN outbox', NEW l \in DOMAIN outbox', k < l PROVE Ahead(outbox[k], outbox[l])'
    <3>1. k \in Nat /\ l \in Nat /\ i \in Nat BY <1>5
    <3>2. PICK a \in DOMAIN outbox, b \in DOMAIN outbox : a < b /\ outbox'[k] = outbox[a] /\ outbox'[l] = outbox[b]
      BY <3>1, <2>1, <1>6
    <3> QED BY <3>2, <1>3 DEF Queues, Ahead, Clean
  <2>2. \A k, l \in DOMAIN outbox' : Clean(Pub!Content(outbox[k]))' /\ Pub!Content(outbox'[k]) = Pub!Content(outbox'[l]) => outbox'[k].qos = outbox'[l].qos
    BY <1>3, <1>6 DEF Queues, Clean
  <2>3. ASSUME NEW k \in DOMAIN inbox', NEW l \in DOMAIN inbox', k < l, Echo(inbox'[k]), Echo(inbox'[l]) PROVE Ahead(inbox[k], inbox[l])'
    <3>1. k \in DOMAIN inbox /\ inbox'[k] = inbox[k] BY <1>4, <2>3
    <3>2. CASE l \in DOMAIN inbox BY <3>1, <3>2, <2>3, <1>3, <1>4 DEF Queues, Ahead, Clean
    <3>3. CASE inbox'[l] = f BY <3>1, <3>3, <2>3, <1>1, <1>3, <1>4 DEF Queues, Ahead, Clean
    <3> QED BY <3>2, <3>3, <1>4
  <2>4. ASSUME NEW k \in DOMAIN inbox', NEW l \in DOMAIN outbox', Echo(inbox'[k]) PROVE Ahead(inbox[k], outbox[l])'
    <3>1. PICK j \in DOMAIN outbox : outbox'[l] = outbox[j] /\ j # i BY <1>6
    <3>2. CASE k \in DOMAIN inbox BY <3>1, <3>2, <2>4, <1>3, <1>4 DEF Queues, Ahead, Clean
    <3>3. CASE inbox'[k] = f BY <3>1, <3>3, <1>3, <1>4, <1>10 DEF Ahead, Clean
    <3> QED BY <3>2, <3>3, <1>4
  <2> QED BY <2>1, <2>2, <2>3, <2>4 DEF Queues, Echo
\* Under way are the same numbers and contents.
<1>12. ASSUME NEW n \in Coming' PROVE \E o \in Coming : o.number = n.number /\ Pub!Content(o) = Pub!Content(n)
  <2>1. CASE n \in Pub!ToSet(outbox') BY <2>1, <1>8 DEF Coming
  <2>2. CASE n \in Pub!ToSet(inbox) /\ Echo(n) BY <2>2 DEF Coming
  <2>3. CASE n = f BY <2>3, <1>4, <1>9
  <2> QED BY <2>1, <2>2, <2>3, <1>4 DEF Coming, Echo
<1>13. ASSUME NEW o \in Coming PROVE \E n \in Coming' : o.number = n.number /\ Pub!Content(o) = Pub!Content(n)
  <2>1. CASE o = m BY <2>1, <1>4, <1>9
  <2>2. CASE o # m BY <2>2, <1>4, <1>8 DEF Coming, Echo
  <2> QED BY <2>1, <2>2
<1>14. Alike'
  <2> SUFFICES ASSUME NEW a \in Coming', NEW b \in Coming', Clean(Pub!Content(a)), Pub!Content(a) = Pub!Content(b)
               PROVE  author[a.number] = Pub!NoPanel <=> author[b.number] = Pub!NoPanel
    BY <1>3 DEF Alike, Clean
  <2>1. PICK o \in Coming : o.number = a.number /\ Pub!Content(o) = Pub!Content(a) BY <1>12
  <2>2. PICK p \in Coming : p.number = b.number /\ Pub!Content(p) = Pub!Content(b) BY <1>12
  <2>3. author[o.number] = Pub!NoPanel <=> author[p.number] = Pub!NoPanel BY <2>1, <2>2 DEF Alike
  <2> QED BY <2>1, <2>2, <2>3
<1>15. Entries'
  <2>1. ASSUME NEW n \in Coming', Clean(Pub!Content(n)), author[n.number] # Pub!NoPanel
        PROVE  \E p \in Pub!ToSet(pendingPubs) : p.number = n.number /\ Pub!Content(p) = Pub!Content(n)
    <3>1. PICK o \in Coming : o.number = n.number /\ Pub!Content(o) = Pub!Content(n) BY <1>12
    <3>2. author[o.number] # Pub!NoPanel /\ Clean(Pub!Content(o)) BY <3>1, <2>1
    <3>3. PICK p \in Pub!ToSet(pendingPubs) : p.number = o.number /\ Pub!Content(p) = Pub!Content(o) BY <3>2 DEF Entries
    <3> QED BY <3>1, <3>3
  <2>2. ASSUME NEW p \in Pub!ToSet(pendingPubs), Clean(Pub!Content(p))
        PROVE  \E n \in Coming' : n.number = p.number /\ Pub!Content(n) = Pub!Content(p)
    <3>1. PICK o \in Coming : o.number = p.number /\ Pub!Content(o) = Pub!Content(p) BY <2>2 DEF Entries
    <3>2. PICK n \in Coming' : o.number = n.number /\ Pub!Content(o) = Pub!Content(n) BY <1>13
    <3> QED BY <3>1, <3>2
  <2> QED BY <2>1, <2>2, <1>3 DEF Entries, Clean, Numbers
<1>16. Taken' BY <1>3 DEF Taken, Found, Echo, Clean, Numbers
<1>17. Seen' BY <1>3 DEF Seen, Pub!Attributed, Numbers
<1> QED BY <1>7, <1>11, <1>14, <1>15, <1>16, <1>17

\* The sequences of the elements of a finite set.
LEMMA Ordered ==
  ASSUME NEW S, IsFiniteSet(S), NEW f \in Pub!SetToSeqs(S)
  PROVE  f \in Seq(S) /\ Pub!ToSet(f) \subseteq S
<1>1. Pub!Cardinality(S) = Cardinality(S) BY DEF Pub!Cardinality, Cardinality
<1>2. Cardinality(S) \in Nat BY FS_CardinalityType
<1>3. f \in [1..Cardinality(S) -> S] BY <1>1 DEF Pub!SetToSeqs
<1>4. f \in Seq(S) BY <1>2, <1>3
<1> QED BY <1>3, <1>4 DEF Pub!ToSet

\* What another client publishes.
ElsewhereOf(m, f) ==
    /\ m \in Packet /\ m \in Sents /\ m.number = Pub!Foreign
    /\ stored' = Pub!Kept(m) /\ (online => ForwardOf(m, f)) /\ (~online => inbox' = inbox)
    /\ unsure' = IF m.retain THEN unsure \cup {m.topic} ELSE unsure
    /\ UNCHANGED <<online, now, pendingPubs, calls, outbox, retained, retainedPanels, handling, seen, author, astray, losses>>
LEMMA ElsewhereHas ==
  ASSUME MessagesFit, NEW message \in Messages, Pub!Elsewhere(message)
  PROVE  \E m, f : ElsewhereOf(m, f)
<1>1. PICK m : m = Pub!Numbered(message, Pub!Foreign) OBVIOUS
<1>2. PICK f : f = [m EXCEPT !.retain = FALSE] OBVIOUS
<1>3. Pub!Foreign \in 0..MaxPublish BY DEF MessagesFit, Pub!Foreign
<1>4. m \in Packet /\ m \in Sents /\ m.number = Pub!Foreign BY <1>1, <1>3, NumberedFits
<1>5. /\ stored' = Pub!Kept(m) /\ (online => ForwardOf(m, f)) /\ (~online => inbox' = inbox)
      /\ unsure' = IF m.retain THEN unsure \cup {m.topic} ELSE unsure
      /\ UNCHANGED <<online, now, pendingPubs, calls, outbox, retained, retainedPanels, handling, seen, author, astray, losses>>
  BY <1>1, <1>2 DEF Pub!Elsewhere, Pub!Forward, ForwardOf
<1>6. ElsewhereOf(m, f) BY <1>4, <1>5 DEF ElsewhereOf
<1> QED BY <1>6

LEMMA ElsewhereKeeps ==
  ASSUME MessagesFit, PubInv, NEW m, NEW f, ElsewhereOf(m, f)
  PROVE  PubShapes' /\ Correlated'
<1> USE DEF PubInv, PubShapes, Correlated
<1>1. /\ m \in Packet /\ m \in Sents /\ m.number = Pub!Foreign /\ m.number \in 0..Len(author)
      /\ stored' = Pub!Kept(m)
      /\ UNCHANGED <<online, now, pendingPubs, calls, outbox, retained, retainedPanels, handling, seen, author, astray>>
  BY DEF ElsewhereOf, Books, Pub!Foreign
<1>2. /\ inbox' \in Seq(Packet) /\ DOMAIN inbox \subseteq DOMAIN inbox'
      /\ \A k \in DOMAIN inbox : inbox'[k] = inbox[k]
      /\ \A k \in DOMAIN inbox' : k \in DOMAIN inbox \/ ~Echo(inbox'[k])
      /\ \A n \in Pub!ToSet(inbox) : n \in Pub!ToSet(inbox')
      /\ \A n \in Pub!ToSet(inbox') : n \in Pub!ToSet(inbox) \/ ~Echo(n)
      /\ \A k \in DOMAIN inbox' : inbox'[k].number \in 0..Len(author) /\ (inbox'[k].retain => inbox'[k].payload # Pub!Empty)
      /\ ~online => inbox' = <<>>
  <2>1. CASE online
    <3>1. ForwardOf(m, f) BY <2>1 DEF ElsewhereOf
    <3>2. /\ f.number = m.number
          /\ inbox' \in Seq(Packet) /\ DOMAIN inbox \subseteq DOMAIN inbox'
          /\ \A k \in DOMAIN inbox : k \in Nat /\ inbox'[k] = inbox[k]
          /\ \A k \in DOMAIN inbox' : k \in Nat /\ (k \in DOMAIN inbox \/ (inbox'[k] = f /\ \A j \in DOMAIN inbox' : j <= k))
          /\ Pub!ToSet(inbox') = Pub!ToSet(inbox) \cup {f}
          /\ \A k \in DOMAIN inbox' : inbox'[k].number \in 0..Len(author) /\ (inbox'[k].retain => inbox'[k].payload # Pub!Empty)
      <4> HIDE DEF PubInv, PubShapes, Correlated
      <4> QED BY <1>1, <3>1, ForwardFits
    <3>3. ~Echo(f) BY <1>1, <3>2 DEF Echo
    <3> QED BY <2>1, <3>2, <3>3
  <2>2. CASE ~online BY <2>2 DEF ElsewhereOf, Wires
  <2> QED BY <2>1, <2>2
<1>3. PubShapes'
  <2>1. Books' BY <1>1 DEF Books
  <2>2. Wires' BY <1>1, <1>2 DEF Wires, Numbers
  <2>3. Store'
    <3>1. m.retain /\ m.payload # Pub!Empty => Stored(m.topic, m) BY <1>1 DEF Stored
    <3>2. m.topic \in Topics BY <1>1 DEF Packet
    <3>3. stored' \in [Topics -> {Pub!None} \cup Sents] BY <1>1, <3>2 DEF Pub!Kept, Store
    <3>4. \A t \in Topics : stored'[t] # Pub!None => Stored(t, stored'[t]) BY <1>1, <3>1, <3>2 DEF Pub!Kept, Store
    <3> QED BY <3>3, <3>4, <1>1 DEF Store, Stored
  <2>4. Reader' BY <1>1 DEF Reader, ElsewhereOf, Packet
  <2> QED BY <2>1, <2>2, <2>3, <2>4
<1>4. Coming' = Coming BY <1>1, <1>2 DEF Coming, Echo
<1>5. Queues' BY <1>1, <1>2 DEF Queues, Ahead, Clean, Echo
<1>6. Alike' BY <1>1, <1>4 DEF Alike, Clean
<1>7. Entries' BY <1>1, <1>4 DEF Entries, Clean, Numbers
<1>8. Taken' BY <1>1 DEF Taken, Found, Echo, Clean, Numbers
<1>9. Seen' BY <1>1 DEF Seen, Pub!Attributed, Numbers
<1> QED BY <1>3, <1>5, <1>6, <1>7, <1>8, <1>9

\* What the broker has not answered.
Unanswered == {c.message : c \in {d \in calls : d.step = "waits"}} \cup Pub!ToSet(outbox)
LEMMA UnansweredFits ==
  ASSUME Wires
  PROVE  IsFiniteSet(Unanswered) /\ \A m \in Unanswered : m \in Packet /\ m \in Sents /\ m.number \in Numbers
<1>1. \A m \in Unanswered : m \in Packet /\ m \in Sents /\ m.number \in Numbers
  BY DEF Wires, Unanswered, Call, Pub!ToSet
<1> DEFINE C == {d \in calls : d.step = "waits"}
<1>2. IsFiniteSet(C) BY FS_Subset DEF Wires
<1>3. IsFiniteSet({c.message : c \in C})
  <2> DEFINE T == {c.message : c \in C}
             f == [c \in C |-> c.message]
  <2>1. f \in Surjection(C, T) BY DEF Surjection
  <2> HIDE DEF f, T
  <2>2. IsFiniteSet(T) BY <1>2, <2>1, FS_Surjection
  <2> QED BY <2>2 DEF T
<1>4. IsFiniteSet(Pub!ToSet(outbox))
  <2> DEFINE T == Pub!ToSet(outbox)
             f == [i \in 1..Len(outbox) |-> outbox[i]]
  <2>1. outbox \in Seq(Packet) BY DEF Wires
  <2>2. f \in Surjection(1..Len(outbox), T) BY <2>1 DEF Surjection, Pub!ToSet
  <2>3. IsFiniteSet(1..Len(outbox)) BY <2>1, FS_Interval
  <2> HIDE DEF f, T
  <2>4. IsFiniteSet(T) BY <2>2, <2>3, FS_Surjection
  <2> QED BY <2>4 DEF T
<1> HIDE DEF C
<1>5. IsFiniteSet(Unanswered) BY <1>3, <1>4, FS_Union DEF Unanswered, C
<1> QED BY <1>1, <1>5

\* The connection is lost, and what the broker has sent with it.
LossOf ==
    /\ online /\ online' = FALSE /\ inbox' = <<>>
    /\ outbox' \in Seq(Packet) /\ \A i \in DOMAIN outbox' : outbox'[i] \in Unanswered
    /\ \A i, j \in DOMAIN outbox' : i < j => outbox'[i].number < outbox'[j].number
    /\ astray' = astray \cup Pub!Contents(inbox) \cup {Pub!Content(m) : m \in Unanswered}
    /\ unsure' = unsure \cup {m.topic : m \in {n \in Unanswered : n.retain}}
    /\ UNCHANGED <<now, pendingPubs, calls, stored, retained, retainedPanels, handling, seen, author, others>>
LEMMA LossHas ==
  ASSUME Wires, Pub!ConnectionLost
  PROVE  LossOf
<1>1. PICK again \in SUBSET {m \in Unanswered : m.qos > 0} :
          outbox' \in {s \in Pub!SetToSeqs(again) : \A i, j \in DOMAIN s : i < j => s[i].number < s[j].number}
  BY DEF Pub!ConnectionLost, Unanswered
<1>2. again \subseteq Unanswered OBVIOUS
<1>3. IsFiniteSet(again) BY <1>2, UnansweredFits, FS_Subset
<1>4. outbox' \in Seq(again) /\ Pub!ToSet(outbox') \subseteq again BY <1>1, <1>3, Ordered
<1>5. \A i \in DOMAIN outbox' : outbox'[i] \in Unanswered BY <1>2, <1>4 DEF Pub!ToSet
<1>6. again \subseteq Packet BY <1>2, UnansweredFits
<1>7. outbox' \in Seq(Packet) BY <1>4, <1>6
<1>8. \A i, j \in DOMAIN outbox' : i < j => outbox'[i].number < outbox'[j].number BY <1>1
<1> QED BY <1>5, <1>7, <1>8 DEF LossOf, Pub!ConnectionLost, Unanswered

LEMMA LossKeeps ==
  ASSUME MessagesFit, PubInv, LossOf
  PROVE  PubShapes' /\ Correlated'
<1> USE DEF PubInv, PubShapes, Correlated
<1>1. /\ online' = FALSE /\ inbox' = <<>> /\ outbox' \in Seq(Packet)
      /\ \A i, j \in DOMAIN outbox' : i < j => outbox'[i].number < outbox'[j].number
      /\ UNCHANGED <<now, pendingPubs, calls, stored, retained, retainedPanels, handling, seen, author>>
  BY DEF LossOf
<1>2. \A m \in Unanswered : m \in Packet /\ m \in Sents /\ m.number \in Numbers BY UnansweredFits
<1>3. \A i \in DOMAIN outbox' : outbox'[i] \in Unanswered BY DEF LossOf
<1>4. \A m \in Unanswered : ~Clean(Pub!Content(m))' BY DEF LossOf, Clean
<1>5. \A m \in Pub!ToSet(inbox) : ~Clean(Pub!Content(m))' BY DEF LossOf, Clean, Pub!Contents
<1>6. \A c : Clean(c)' => Clean(c) BY DEF LossOf, Clean
<1>7. PubShapes'
  <2>1. Books' BY <1>1 DEF Books
  <2>2. Wires' BY <1>1, <1>2, <1>3 DEF Wires, Numbers
  <2>3. Store' BY <1>1 DEF Store, Stored
  <2>4. Reader'
    <3>1. \A m \in Packet : Pub!Content(m) \in Pairs /\ m.topic \in Topics BY DEF Pub!Content, Packet, Pairs
    <3>2. \A m \in Pub!ToSet(inbox) : m \in Packet BY DEF Wires, Pub!ToSet
    <3>3. astray' \subseteq Pairs BY <1>2, <3>1, <3>2 DEF LossOf, Reader, Pub!Contents
    <3>4. unsure' \subseteq Topics BY <1>2, <3>1 DEF LossOf, Reader
    <3> QED BY <3>3, <3>4, <1>1 DEF Reader
  <2> QED BY <2>1, <2>2, <2>3, <2>4
<1>8. \A m \in Coming' : m \in Unanswered BY <1>1, <1>3 DEF Coming, Pub!ToSet
<1>9. \A m \in Coming : ~Clean(Pub!Content(m))'
  <2>1. \A m \in Pub!ToSet(outbox) : m \in Unanswered BY DEF Unanswered
  <2> QED BY <1>4, <1>5, <2>1 DEF Coming
<1>10. Queues' BY <1>1, <1>3, <1>4 DEF Queues, Ahead, Clean
<1>11. Alike' BY <1>4, <1>8 DEF Alike, Clean
<1>12. Entries'
  <2>1. \A m \in Coming' : ~Clean(Pub!Content(m))' BY <1>4, <1>8
  <2>2. ASSUME NEW p \in Pub!ToSet(pendingPubs), Clean(Pub!Content(p))' PROVE FALSE
    <3>1. Clean(Pub!Content(p)) BY <2>2, <1>6 DEF Clean
    <3>2. PICK m \in Coming : Pub!Content(m) = Pub!Content(p) BY <3>1 DEF Entries
    <3> QED BY <2>2, <3>2, <1>9 DEF Clean
  <2> QED BY <2>1, <2>2, <1>1 DEF Entries, Clean, Numbers
<1>13. Taken' BY <1>1, <1>6 DEF Taken, Found, Echo, Clean, Numbers
<1>14. Seen' BY <1>1, <1>6 DEF Seen, Pub!Attributed, Numbers, Clean
<1> QED BY <1>7, <1>10, <1>11, <1>12, <1>13, <1>14

\* The broker replays what it holds.
ReplayOf ==
    /\ ~online /\ online' = TRUE
    /\ inbox' \in Seq(Packet) /\ \A i \in DOMAIN inbox' : \E t \in Topics : stored[t] # Pub!None /\ inbox'[i] = stored[t]
    /\ unsure' = unsure \cup Pub!RetainedOnTheWay
    /\ UNCHANGED <<now, pendingPubs, calls, outbox, stored, retained, retainedPanels, handling, seen, author, astray, losses, others>>
LEMMA ReplayHas ==
  ASSUME MessagesFit, Store, Pub!Reconnected
  PROVE  ReplayOf
<1> DEFINE T == {stored[t] : t \in Topics}
           S == T \ {Pub!None}
           f == [t \in Topics |-> stored[t]]
<1>1. f \in Surjection(Topics, T) BY DEF Surjection
<1>2. S \subseteq T /\ \A m \in S : m \in Packet /\ \E t \in Topics : stored[t] # Pub!None /\ m = stored[t]
  BY DEF Store, Stored
<1>3. inbox' \in Pub!SetToSeqs(S) BY DEF Pub!Reconnected
<1> HIDE DEF f, T, S
<1>4. IsFiniteSet(T) BY <1>1, FS_Surjection DEF MessagesFit
<1>5. IsFiniteSet(S) BY <1>2, <1>4, FS_Subset
<1>6. inbox' \in Seq(S) /\ Pub!ToSet(inbox') \subseteq S BY <1>3, <1>5, Ordered
<1>7. S \subseteq Packet BY <1>2
<1>8. inbox' \in Seq(Packet) BY <1>6, <1>7
<1>9. \A i \in DOMAIN inbox' : inbox'[i] \in S BY <1>6 DEF Pub!ToSet
<1> QED BY <1>2, <1>8, <1>9 DEF ReplayOf, Pub!Reconnected

LEMMA ReplayKeeps ==
  ASSUME MessagesFit, PubInv, ReplayOf
  PROVE  PubShapes' /\ Correlated'
<1> USE DEF PubInv, PubShapes, Correlated
<1>1. /\ inbox = <<>> /\ online' = TRUE /\ inbox' \in Seq(Packet)
      /\ UNCHANGED <<now, pendingPubs, calls, outbox, stored, retained, retainedPanels, handling, seen, author, astray>>
  BY DEF ReplayOf, Wires
<1>2. \A i \in DOMAIN inbox' : inbox'[i].retain /\ inbox'[i].payload # Pub!Empty /\ inbox'[i].number \in 0..Len(author)
  BY DEF ReplayOf, Store, Stored
<1>3. \A i \in DOMAIN inbox' : ~Echo(inbox'[i]) BY <1>2 DEF Echo
<1>4. \A n \in Pub!ToSet(inbox') : ~Echo(n) BY <1>3 DEF Pub!ToSet
<1>5. \A n \in Pub!ToSet(inbox) : FALSE BY <1>1 DEF Pub!ToSet
<1>6. PubShapes'
  <2>1. Books' BY <1>1 DEF Books
  <2>2. Wires' BY <1>1, <1>2 DEF Wires, Numbers
  <2>3. Store' BY <1>1 DEF Store, Stored
  <2>4. Reader'
    <3>1. \A m \in Pub!OnTheWay : m.topic \in Topics
      <4>1. \A m \in Packet : m.topic \in Topics BY DEF Packet
      <4>2. \A m \in Pub!ToSet(outbox) \cup Pub!ToSet(inbox) : m \in Packet BY DEF Wires, Pub!ToSet
      <4>3. \A c \in calls : c.message \in Packet BY DEF Wires, Call
      <4>4. \A h \in Pub!ToSet(handling) : h.message \in Packet BY DEF Reader, Taking, Pub!ToSet
      <4> QED BY <4>1, <4>2, <4>3, <4>4 DEF Pub!OnTheWay
    <3>2. unsure' \subseteq Topics BY <3>1 DEF ReplayOf, Pub!RetainedOnTheWay, Reader
    <3> QED BY <3>2, <1>1 DEF Reader
  <2> QED BY <2>1, <2>2, <2>3, <2>4
<1>7. Coming' = Coming BY <1>1, <1>4, <1>5 DEF Coming, Echo
<1>8. Queues' BY <1>1, <1>3 DEF Queues, Ahead, Clean, Echo
<1>9. Alike' BY <1>1, <1>7 DEF Alike, Clean
<1>10. Entries' BY <1>1, <1>7 DEF Entries, Clean, Numbers
<1>11. Taken' BY <1>1 DEF Taken, Found, Echo, Clean, Numbers
<1>12. Seen' BY <1>1 DEF Seen, Pub!Attributed, Numbers
<1> QED BY <1>6, <1>8, <1>9, <1>10, <1>11, <1>12

\* A step of a call in progress.
CallOf(c) ==
    /\ c \in calls /\ \E N \in SUBSET Call : calls' = (calls \ {c}) \cup N /\ IsFiniteSet(N) /\ \A n \in N : n.message = c.message
    /\ retained' \subseteq Topics /\ retainedPanels' \in [Topics -> Known] /\ unsure' \subseteq Topics
    /\ UNCHANGED <<online, now, pendingPubs, outbox, inbox, stored, handling, seen, author, astray, losses, others>>
LEMMA CallFits ==
  ASSUME Wires, NEW c \in calls
  PROVE  /\ c \in Call /\ c.message \in Packet /\ c.message.number \in Numbers /\ c.message.topic \in Topics
         /\ \A s \in {"waits", "published", "marked"} : [c EXCEPT !.step = s] \in Call /\ [c EXCEPT !.step = s].message = c.message
                                                       /\ [c EXCEPT !.step = s].step = s
BY DEF Wires, Call, Packet
LEMMA CallHas ==
  ASSUME MessagesFit, PubInv, NEW c \in calls, Pub!CallStep(c)
  PROVE  CallOf(c)
<1> USE DEF PubInv, PubShapes
<1>1. /\ c \in Call /\ c.message \in Packet /\ c.message.number \in Numbers /\ c.message.topic \in Topics
      /\ \A s \in {"waits", "published", "marked"} : [c EXCEPT !.step = s] \in Call /\ [c EXCEPT !.step = s].message = c.message
  BY CallFits
<1>2. retained \subseteq Topics /\ retainedPanels \in [Topics -> Known] /\ unsure \subseteq Topics BY DEF Store, Reader
<1>3. author[c.message.number] \in Known BY <1>1 DEF Books, Numbers
<1>4. \A s \in {"waits", "published", "marked"} : IsFiniteSet({[c EXCEPT !.step = s]}) BY FS_Singleton
<1>5. IsFiniteSet({}) BY FS_EmptySet
<1>6. CASE Pub!Acknowledged(c)
  <2> DEFINE N == IF c.message.retain THEN {[c EXCEPT !.step = "published"]} ELSE {}
  <2>1. N \in SUBSET Call /\ IsFiniteSet(N) /\ \A n \in N : n.message = c.message BY <1>1, <1>4, <1>5
  <2>2. calls' = (calls \ {c}) \cup N BY <1>6 DEF Pub!Acknowledged
  <2> HIDE DEF N
  <2> QED BY <1>2, <1>6, <2>1, <2>2 DEF Pub!Acknowledged, CallOf
<1>7. CASE Pub!TimedOut(c)
  <2>1. calls' = (calls \ {c}) \cup {} BY <1>7 DEF Pub!TimedOut
  <2>2. unsure' \subseteq Topics BY <1>1, <1>2, <1>7 DEF Pub!TimedOut
  <2> QED BY <1>2, <1>5, <1>7, <2>1, <2>2 DEF Pub!TimedOut, CallOf
<1>8. CASE Pub!MarkPublished(c)
  <2> DEFINE N == IF c.message.payload # Pub!Empty THEN {[c EXCEPT !.step = "marked"]} ELSE {}
  <2>1. N \in SUBSET Call /\ IsFiniteSet(N) /\ \A n \in N : n.message = c.message BY <1>1, <1>4, <1>5
  <2>2. calls' = (calls \ {c}) \cup N BY <1>8 DEF Pub!MarkPublished
  <2> HIDE DEF N
  <2>3. retained' \subseteq Topics /\ retainedPanels' \in [Topics -> Known]
    BY <1>1, <1>2, <1>8 DEF Pub!MarkPublished, Pub!markRetained, Known
  <2> QED BY <1>2, <1>8, <2>1, <2>2, <2>3 DEF Pub!MarkPublished, CallOf
<1>9. CASE Pub!MarkRetainedPanel(c)
  <2>1. calls' = (calls \ {c}) \cup {} BY <1>9 DEF Pub!MarkRetainedPanel
  <2>2. retainedPanels' \in [Topics -> Known] BY <1>2, <1>3, <1>9 DEF Pub!MarkRetainedPanel
  <2> QED BY <1>2, <1>5, <1>9, <2>1, <2>2 DEF Pub!MarkRetainedPanel, CallOf
<1> QED BY <1>6, <1>7, <1>8, <1>9 DEF Pub!CallStep

LEMMA CallKeeps ==
  ASSUME MessagesFit, PubInv, NEW c, CallOf(c)
  PROVE  PubShapes' /\ Correlated'
<1> USE DEF PubInv, PubShapes, Correlated
<1>1. /\ c \in calls /\ retained' \subseteq Topics /\ retainedPanels' \in [Topics -> Known] /\ unsure' \subseteq Topics
      /\ UNCHANGED <<online, now, pendingPubs, outbox, inbox, stored, handling, seen, author, astray>>
  BY DEF CallOf
<1>2. PICK N \in SUBSET Call : calls' = (calls \ {c}) \cup N /\ IsFiniteSet(N) /\ \A n \in N : n.message = c.message
  BY DEF CallOf
<1>3. Books' BY <1>1 DEF Books
<1>4. IsFiniteSet(calls')
  <2>1. IsFiniteSet(calls \ {c}) BY FS_Subset DEF Wires
  <2> QED BY <1>2, <2>1, FS_Union
<1>5. Wires'
  <2>1. calls' \subseteq Call /\ \A d \in calls' : d.message.number \in Numbers /\ d.message \in Sents
    BY <1>1, <1>2 DEF Wires
  <2> QED BY <2>1, <1>1, <1>4 DEF Wires, Numbers
<1>6. Store' BY <1>1 DEF Store, Stored
<1>7. Reader' BY <1>1 DEF Reader
<1>8. Queues' /\ Alike' /\ Entries' BY <1>1 DEF Queues, Alike, Entries, Ahead, Clean, Coming, Echo, Numbers
<1>9. Taken' BY <1>1 DEF Taken, Found, Echo, Clean, Numbers
<1>10. Seen' BY <1>1 DEF Seen, Pub!Attributed, Numbers
<1> QED BY <1>3, <1>5, <1>6, <1>7, <1>8, <1>9, <1>10

\* A second passes.
LEMMA TickKeeps ==
  ASSUME MessagesFit, PubInv, Pub!Tick
  PROVE  PubInv'
<1> USE DEF PubInv, PubShapes, Correlated
<1>1. /\ now' \in 0..MaxTime
      /\ UNCHANGED <<online, pendingPubs, calls, outbox, inbox, stored, retained, retainedPanels, handling, seen, author, astray, unsure>>
  BY DEF Pub!Tick, Books, MessagesFit
<1>2. Books' /\ Wires' /\ Store' /\ Reader' BY <1>1 DEF Books, Wires, Store, Stored, Reader, Numbers
<1>3. Queues' /\ Alike' /\ Entries' BY <1>1 DEF Queues, Alike, Entries, Ahead, Clean, Coming, Echo, Numbers
<1>4. Taken' BY <1>1 DEF Taken, Found, Echo, Clean, Numbers
<1>5. Seen' BY <1>1 DEF Seen, Pub!Attributed, Numbers
<1>6. Holds' BY <1>1 DEF Holds, AtRest, InFlight, Says, CallsOf, SentOf, Replays, Clean
<1>7. Own' BY <1>1 DEF Own, Numbers
<1> QED BY <1>2, <1>3, <1>4, <1>5, <1>6, <1>7

\* Nothing happens about a topic that is quiet.
Quiet(t) == AtRest(t) \/ \E m \in {c.message : c \in CallsOf(t)} \cup SentOf(t) : InFlight(t, m)
Fixed(t) ==
    /\ CallsOf(t)' = CallsOf(t) /\ SentOf(t)' = SentOf(t) /\ Replays(t)' \subseteq Replays(t)
    /\ stored'[t] = stored[t] /\ (t \in retained' <=> t \in retained) /\ retainedPanels'[t] = retainedPanels[t]
Grows == (\A c : Clean(c)' => Clean(c)) /\ \A k \in Numbers : author'[k] = author[k]

\* What is under way about a topic has a number.
LEMMA OnesOwn ==
  ASSUME PubInv, NEW t, NEW m \in {c.message : c \in CallsOf(t)} \cup SentOf(t)
  PROVE  m.number \in Numbers /\ m \in Packet /\ m \in Sents /\ About(m, t) /\ m # Pub!None
<1>1. \A c \in calls : c.message.number \in Numbers /\ c.message \in Packet /\ c.message \in Sents
  BY DEF PubInv, PubShapes, Wires, Call
<1>2. \A n \in Pub!ToSet(outbox) : n.number \in Numbers /\ n \in Packet /\ n \in Sents
  BY DEF PubInv, PubShapes, Wires, Pub!ToSet
<1>3. m.number \in Numbers /\ m \in Packet /\ m \in Sents /\ About(m, t) BY <1>1, <1>2 DEF CallsOf, SentOf
<1>4. m.retain BY <1>3 DEF About
<1>5. Pub!None.retain = FALSE BY DEF Pub!None
<1> QED BY <1>3, <1>4, <1>5

\* The registry keeps knowing what it knew of a message that has a number.
LEMMA StillSays ==
  ASSUME Grows, NEW t, NEW v, Says(t, v), v # Pub!None => v.number \in Numbers,
         t \in retained' <=> t \in retained, retainedPanels'[t] = retainedPanels[t]
  PROVE  /\ t \in retained' <=> v # Pub!None
         /\ t \in retained' /\ Clean(Pub!Content(v))' => retainedPanels'[t] = author'[v.number]
         /\ t \notin retained' => retainedPanels'[t] = Pub!NoPanel
BY DEF Says, Grows

LEMMA QuietKeeps ==
  ASSUME PubInv, NEW t \in Topics \ unsure, Grows, Fixed(t)
  PROVE  Quiet(t)'
<1>1. Quiet(t) BY DEF PubInv, Holds, Quiet
<1>2. CASE AtRest(t)
  <2>1. stored[t] # Pub!None => stored[t].number \in Numbers BY DEF PubInv, Own
  <2>2. Says(t, stored[t])' BY <1>2, <2>1, StillSays DEF AtRest, Fixed, Says, Clean
  <2>3. AtRest(t)' BY <1>2, <2>2 DEF AtRest, Fixed
  <2> QED BY <2>3 DEF Quiet
<1>3. ASSUME NEW m \in {c.message : c \in CallsOf(t)} \cup SentOf(t), InFlight(t, m) PROVE Quiet(t)'
  <2>1. m.number \in Numbers /\ m # Pub!None BY OnesOwn
  <2>2. Result(m) # Pub!None => Result(m).number \in Numbers BY <2>1 DEF Result
  <2>3. CallsOf(t) = {} => Says(t, Result(m))' BY <1>3, <2>2, StillSays DEF InFlight, Fixed, Says, Clean
  <2>4. InFlight(t, m)' BY <1>3, <2>3 DEF InFlight, Fixed
  <2>5. m \in {c.message : c \in CallsOf(t)'} \cup SentOf(t)' BY <1>3 DEF Fixed
  <2> QED BY <2>4, <2>5 DEF Quiet
<1> QED BY <1>1, <1>2, <1>3 DEF Quiet

\* Where nothing about a topic is under way, the registry knows.
LEMMA Resting ==
  ASSUME PubInv, NEW t \in Topics \ unsure, CallsOf(t) = {}, SentOf(t) = {}
  PROVE  AtRest(t)
BY DEF PubInv, Holds

\* What is under way of a message that is about a topic.
LEMMA Under ==
  ASSUME PubInv, NEW t \in Topics \ unsure, NEW m \in {c.message : c \in CallsOf(t)} \cup SentOf(t)
  PROVE  InFlight(t, m)
<1>1. PICK n \in {c.message : c \in CallsOf(t)} \cup SentOf(t) : InFlight(t, n) BY DEF PubInv, Holds, AtRest
<1>2. m = n BY <1>1 DEF InFlight
<1> QED BY <1>1, <1>2

LEMMA PublishHolds ==
  ASSUME MessagesFit, PubInv, NEW panel \in Known, NEW m, PublishOf(m, panel)
  PROVE  Holds' /\ Own'
<1>1. /\ Len(author') = Len(author) + 1
      /\ author'[m.number] = panel /\ \A k \in Numbers : k \in Numbers' /\ author'[k] = author[k]
      /\ m.number \in Numbers'
  BY AuthorsGrow DEF PubInv, PubShapes
<1>2. Pub!ToSet(outbox') = Pub!ToSet(outbox) \cup (IF Going(m) THEN {m} ELSE {})
  BY Departs DEF PubInv, PubShapes
<1>3. /\ m \in Packet /\ calls' = calls \cup {[message |-> m, step |-> "waits"]} /\ unsure \subseteq unsure'
      /\ UNCHANGED <<inbox, stored, retained, retainedPanels, handling>>
  BY DEF PublishOf
<1>4. Grows BY <1>1 DEF Grows, Clean, PublishOf
<1>5. Own' BY <1>1, <1>3 DEF PubInv, Own
<1>6. ASSUME NEW t \in Topics \ unsure' PROVE Quiet(t)'
  <2>1. t \in Topics \ unsure BY <1>3
  <2>2. CASE ~About(m, t)
    <3>1. CallsOf(t)' = CallsOf(t) BY <1>3, <2>2 DEF CallsOf
    <3>2. SentOf(t)' = SentOf(t) BY <1>2, <2>2 DEF SentOf
    <3>3. Fixed(t) BY <1>3, <3>1, <3>2 DEF Fixed, Replays
    <3> QED BY <2>1, <3>3, <1>4, QuietKeeps
  <2>3. CASE About(m, t)
    <3>1. Going(m) /\ m.topic \notin Pub!RetainedOnTheWay BY <1>6, <2>3 DEF PublishOf, About
    <3>2. \A n \in Pub!OnTheWay : ~About(n, t) BY <3>1, <2>3 DEF Pub!RetainedOnTheWay, About
    <3>3. CallsOf(t) = {} /\ SentOf(t) = {} /\ Replays(t) = {} BY <3>2 DEF CallsOf, SentOf, Replays, Pub!OnTheWay
    <3>0. PICK d : d = [message |-> m, step |-> "waits"] OBVIOUS
    <3>4. CallsOf(t)' = {d} /\ d.message = m /\ d.step # "marked" BY <1>3, <3>0, <3>3, <2>3 DEF CallsOf
    <3>5. SentOf(t)' = {m} BY <1>2, <3>1, <3>3, <2>3 DEF SentOf
    <3>6. Replays(t)' = {} BY <1>3, <3>3 DEF Replays
    <3>7. \A c \in CallsOf(t)' : c.message = m /\ c.step # "marked" BY <3>4
    <3>8. \A c, e \in CallsOf(t)' : c = e BY <3>4
    <3>9. InFlight(t, m)' BY <3>4, <3>5, <3>6, <3>7, <3>8 DEF InFlight
    <3> QED BY <3>5, <3>9 DEF Quiet
  <2> QED BY <2>2, <2>3
<1>7. Holds' BY <1>6 DEF Holds, Quiet
<1> QED BY <1>5, <1>7

LEMMA MatchHolds ==
  ASSUME MessagesFit, PubInv, NEW m, NEW pubs, NEW h, MatchOf(m, pubs, h)
  PROVE  Holds' /\ Own'
<1>1. /\ Pub!ToSet(inbox) = {m} \cup Pub!ToSet(inbox')
  BY Behead DEF PubInv, PubShapes, Wires, MatchOf
<1>2. handling = <<>> /\ handling' = <<h>> /\ h.message = m
      /\ UNCHANGED <<calls, outbox, stored, retained, retainedPanels, author, unsure>>
  BY DEF MatchOf
<1>3. Pub!ToSet(handling') = {h} BY <1>2 DEF Pub!ToSet
<1>4. Grows BY <1>2 DEF Grows, Clean, MatchOf
<1>5. Own' BY <1>2 DEF PubInv, Own, Numbers
<1>6. ASSUME NEW t \in Topics \ unsure PROVE Quiet(t)'
  <2>1. Replays(t)' \subseteq Replays(t) BY <1>1, <1>2, <1>3 DEF Replays
  <2>2. Fixed(t) BY <1>2, <2>1 DEF Fixed, CallsOf, SentOf
  <2> QED BY <2>2, <1>4, QuietKeeps
<1>7. Holds' BY <1>2, <1>6 DEF Holds, Quiet
<1> QED BY <1>5, <1>7

LEMMA HandleHolds ==
  ASSUME MessagesFit, PubInv, NEW h, NEW told, HandleOf(h, told)
  PROVE  Holds' /\ Own'
<1>1. handling = <<h>> /\ handling' = <<>> /\ UNCHANGED <<calls, outbox, inbox, stored, author, astray, unsure>>
  BY DEF HandleOf
<1>2. Pub!ToSet(handling) = {h} /\ Pub!ToSet(handling') = {} BY <1>1 DEF Pub!ToSet
<1>3. Grows BY <1>1 DEF Grows, Clean
<1>4. Own' BY <1>1 DEF PubInv, Own, Numbers
<1>5. h.message \in Packet BY <1>1 DEF PubInv, PubShapes, Reader, Taking
<1>6. ASSUME NEW t \in Topics \ unsure PROVE Quiet(t)'
  <2>1. Replays(t)' \subseteq Replays(t) /\ CallsOf(t)' = CallsOf(t) /\ SentOf(t)' = SentOf(t) /\ stored'[t] = stored[t]
    BY <1>1, <1>2 DEF Replays, CallsOf, SentOf
  <2>2. CASE ~About(h.message, t)
    <3>1. t \in retained' <=> t \in retained BY <2>2 DEF About, HandleOf
    <3>2. retainedPanels'[t] = retainedPanels[t] BY <2>2 DEF About, HandleOf, PubInv, PubShapes, Store
    <3> QED BY <2>1, <3>1, <3>2, <1>3, QuietKeeps DEF Fixed
  <2>3. CASE About(h.message, t)
    <3>1. h.message \in Replays(t) BY <1>2, <2>3 DEF Replays
    <3>2. AtRest(t) BY <3>1 DEF PubInv, Holds, InFlight
    <3>3. h.message = stored[t] /\ Says(t, stored[t]) BY <3>1, <3>2 DEF AtRest
    <3>4. h.message # Pub!None
      <4>1. h.message.retain BY <2>3 DEF About
      <4>2. Pub!None.retain = FALSE BY DEF Pub!None
      <4> QED BY <4>1, <4>2
    <3>5. h.message.payload # Pub!Empty BY <3>3, <3>4 DEF PubInv, PubShapes, Store, Stored
    <3>6. t \in retained /\ t \in retained' BY <2>3, <3>3, <3>4, <3>5 DEF Says, HandleOf, About
    <3>7. Found(h) BY <1>1 DEF PubInv, Correlated, Taken
    <3>8. h.panel # Pub!NoPanel => ~Clean(Pub!Content(stored[t])) BY <2>3, <3>3, <3>7 DEF Found, About
    <3>9. h.panel = Pub!NoPanel => retainedPanels' = retainedPanels BY <2>3 DEF HandleOf, About
    <3>10. Says(t, stored[t])' BY <1>1, <3>3, <3>6, <3>8, <3>9 DEF Says, Clean
    <3>11. AtRest(t)' BY <2>1, <3>2, <3>10 DEF AtRest
    <3> QED BY <3>11 DEF Quiet
  <2> QED BY <2>2, <2>3
<1>7. Holds' BY <1>1, <1>6 DEF Holds, Quiet
<1> QED BY <1>4, <1>7

LEMMA TakenHolds ==
  ASSUME MessagesFit, PubInv, NEW i \in DOMAIN outbox, Pub!Taken(i)
  PROVE  Holds' /\ Own'
<1>1. PICK m : m = outbox[i] OBVIOUS
<1>2. PICK f : f = [m EXCEPT !.retain = FALSE] OBVIOUS
<1>3. /\ m \in Packet /\ m \in Sents /\ m.number \in Numbers /\ m.number \in 0..Len(author) /\ m \in Pub!ToSet(outbox)
      /\ stored' = Pub!Kept(m) /\ ForwardOf(m, f) /\ outbox' = Pub!RemoveAt(outbox, i)
      /\ UNCHANGED <<calls, retained, retainedPanels, handling, author, astray, unsure>>
  <2>1. m \in Packet /\ m \in Sents /\ m.number \in Numbers /\ m \in Pub!ToSet(outbox) BY <1>1 DEF PubInv, PubShapes, Wires, Pub!ToSet
  <2>2. m.number \in 0..Len(author) BY <2>1 DEF Numbers, PubInv, PubShapes, Books
  <2> QED BY <1>1, <1>2, <2>1, <2>2 DEF Pub!Taken, Pub!Forward, ForwardOf
<1>4. f.retain = FALSE /\ Pub!ToSet(inbox') = Pub!ToSet(inbox) \cup {f} BY <1>3, ForwardFits
<1>5. /\ \A n \in Pub!ToSet(outbox) : n \in Pub!ToSet(outbox') \/ n = m
      /\ Pub!ToSet(outbox') \subseteq Pub!ToSet(outbox)
  <2>1. outbox \in Seq(Packet) BY DEF PubInv, PubShapes, Wires
  <2>2. /\ \A k \in DOMAIN outbox' :
             /\ k \in Nat /\ k < i => k \in DOMAIN outbox /\ outbox'[k] = outbox[k]
             /\ k >= i => k + 1 \in DOMAIN outbox /\ outbox'[k] = outbox[k + 1]
        /\ \A k \in DOMAIN outbox : k \in Nat /\ (k = i \/ outbox[k] \in Pub!ToSet(outbox'))
        /\ outbox' \in Seq(Packet)
    BY <1>3, <2>1, Without
  <2>3. \A k \in DOMAIN outbox' : \E j \in DOMAIN outbox : outbox'[k] = outbox[j] BY <2>2
  <2> QED BY <1>1, <2>2, <2>3 DEF Pub!ToSet
<1>6. Grows BY <1>3 DEF Grows, Clean
<1>7. Own' BY <1>3 DEF PubInv, PubShapes, Store, Own, Numbers, Pub!Kept
<1>8. ASSUME NEW t \in Topics \ unsure PROVE Quiet(t)'
  <2>1. CallsOf(t)' = CallsOf(t) BY <1>3 DEF CallsOf
  <2>2. Replays(t)' = Replays(t) BY <1>3, <1>4 DEF Replays, About
  <2>3. CASE ~About(m, t)
    <3>1. SentOf(t)' = SentOf(t) BY <1>5, <2>3 DEF SentOf
    <3>2. stored'[t] = stored[t] BY <1>3, <2>3 DEF Pub!Kept, About, PubInv, PubShapes, Store
    <3> QED BY <2>1, <2>2, <3>1, <3>2, <1>3, <1>6, QuietKeeps DEF Fixed
  <2>4. CASE About(m, t)
    <3>1. m \in SentOf(t) BY <1>3, <2>4 DEF SentOf
    <3>2. InFlight(t, m) BY <3>1, Under
    <3>3. stored'[t] = Result(m) BY <1>3, <2>4 DEF Pub!Kept, About, Result, PubInv, PubShapes, Store
    <3>4. SentOf(t)' \subseteq SentOf(t) BY <1>5 DEF SentOf
    <3>5. CallsOf(t) = {} => Says(t, Result(m))' BY <3>2, <1>3 DEF InFlight, Says, Clean
    <3>6. \A c \in CallsOf(t)' : c.message = m /\ (c.step = "marked" => t \in retained' /\ m.payload # Pub!Empty)
      BY <1>3, <2>1, <3>2 DEF InFlight
    <3>7. /\ \A c, d \in CallsOf(t)' : c = d
          /\ \A n \in SentOf(t)' : n = m
          /\ Replays(t)' = {}
      BY <2>1, <2>2, <3>2, <3>4 DEF InFlight
    <3>8. CallsOf(t)' = {} => Says(t, Result(m))' BY <2>1, <3>5
    <3>9. InFlight(t, m)' BY <3>3, <3>6, <3>7, <3>8 DEF InFlight
    <3>10. CASE CallsOf(t)' = {} /\ SentOf(t)' = {}
      <4>1. Says(t, stored[t])' BY <3>3, <3>5, <3>10, <2>1 DEF Says, Clean
      <4>2. AtRest(t)' BY <4>1, <3>2, <3>10, <2>2 DEF AtRest, InFlight
      <4> QED BY <4>2 DEF Quiet
    <3>11. CASE CallsOf(t)' # {} \/ SentOf(t)' # {}
      <4>1. m \in {c.message : c \in CallsOf(t)'} \cup SentOf(t)' BY <3>2, <3>4, <3>11, <2>1 DEF InFlight
      <4> QED BY <4>1, <3>9 DEF Quiet
    <3> QED BY <3>10, <3>11
  <2> QED BY <2>3, <2>4
<1>9. Holds' BY <1>3, <1>8 DEF Holds, Quiet
<1> QED BY <1>7, <1>9

LEMMA ElsewhereHolds ==
  ASSUME MessagesFit, PubInv, NEW m, NEW f, ElsewhereOf(m, f)
  PROVE  Holds' /\ Own'
<1>1. /\ m \in Packet /\ m.number \in 0..Len(author) /\ stored' = Pub!Kept(m)
      /\ UNCHANGED <<calls, outbox, retained, retainedPanels, handling, author, astray>>
  BY DEF ElsewhereOf, PubInv, PubShapes, Books, Pub!Foreign
<1>2. \A n \in Pub!ToSet(inbox') : n \in Pub!ToSet(inbox) \/ ~n.retain
  <2>1. CASE online
    <3>1. ForwardOf(m, f) BY <2>1 DEF ElsewhereOf
    <3>2. f.retain = FALSE /\ Pub!ToSet(inbox') = Pub!ToSet(inbox) \cup {f} BY <1>1, <3>1, ForwardFits
    <3> QED BY <3>2
  <2>2. CASE ~online BY <2>2 DEF ElsewhereOf
  <2> QED BY <2>1, <2>2
<1>3. Grows BY <1>1 DEF Grows, Clean
<1>4. \A t \in Topics \ unsure' : t \in Topics \ unsure /\ stored'[t] = stored[t]
  BY <1>1 DEF ElsewhereOf, Pub!Kept, PubInv, PubShapes, Store
<1>5. Own' BY <1>1, <1>4 DEF PubInv, Own, Numbers
<1>6. ASSUME NEW t \in Topics \ unsure' PROVE Quiet(t)'
  <2>1. Replays(t)' \subseteq Replays(t) BY <1>1, <1>2 DEF Replays, About
  <2>2. Fixed(t) BY <1>1, <1>4, <2>1 DEF Fixed, CallsOf, SentOf
  <2> QED BY <2>2, <1>3, <1>4, QuietKeeps
<1>7. Holds' BY <1>6 DEF Holds, Quiet
<1> QED BY <1>5, <1>7

LEMMA LossHolds ==
  ASSUME MessagesFit, PubInv, LossOf
  PROVE  Holds' /\ Own'
<1>1. /\ inbox' = <<>> /\ unsure \subseteq unsure'
      /\ UNCHANGED <<calls, stored, retained, retainedPanels, handling, author>>
  BY DEF LossOf
<1>2. Grows BY <1>1 DEF Grows, Clean, LossOf
<1>3. Own' BY <1>1 DEF PubInv, Own, Numbers
<1>4. ASSUME NEW t \in Topics \ unsure' PROVE Quiet(t)'
  <2>1. t \in Topics \ unsure BY <1>1
  <2>2. \A m \in Unanswered : ~About(m, t) BY <1>4 DEF LossOf, About
  <2>3. SentOf(t) = {} BY <2>2 DEF Unanswered, SentOf
  <2>4. SentOf(t)' = {}
    <3>1. \A m \in Pub!ToSet(outbox') : m \in Unanswered BY DEF LossOf, Pub!ToSet
    <3> QED BY <3>1, <2>2 DEF SentOf
  <2>5. Replays(t)' \subseteq Replays(t)
    <3>1. Pub!ToSet(inbox') = {} BY <1>1 DEF Pub!ToSet
    <3> QED BY <1>1, <3>1 DEF Replays
  <2>6. Fixed(t) BY <1>1, <2>3, <2>4, <2>5 DEF Fixed, CallsOf
  <2> QED BY <2>1, <2>6, <1>2, QuietKeeps
<1>5. Holds' BY <1>4 DEF Holds, Quiet
<1> QED BY <1>3, <1>5

LEMMA ReplayHolds ==
  ASSUME MessagesFit, PubInv, ReplayOf
  PROVE  Holds' /\ Own'
<1>1. /\ unsure \subseteq unsure'
      /\ UNCHANGED <<calls, outbox, stored, retained, retainedPanels, handling, author, astray>>
  BY DEF ReplayOf
<1>2. Own' BY <1>1 DEF PubInv, Own, Numbers
<1>3. ASSUME NEW t \in Topics \ unsure' PROVE AtRest(t)'
  <2>1. \A n \in Pub!OnTheWay : ~About(n, t) BY <1>3 DEF ReplayOf, Pub!RetainedOnTheWay, About
  <2>2. CallsOf(t) = {} /\ SentOf(t) = {} /\ Replays(t) = {} BY <2>1 DEF CallsOf, SentOf, Replays, Pub!OnTheWay
  <2>3. AtRest(t) BY <1>1, <2>2, Resting
  <2>4. CallsOf(t)' = {} /\ SentOf(t)' = {} BY <1>1, <2>2 DEF CallsOf, SentOf
  <2>5. ASSUME NEW m \in Replays(t)' PROVE m = stored[t]
    <3>1. About(m, t) /\ m \in Pub!ToSet(inbox') BY <2>2, <2>5, <1>1 DEF Replays
    <3>2. PICK u \in Topics : stored[u] # Pub!None /\ m = stored[u] BY <3>1 DEF ReplayOf, Pub!ToSet
    <3>3. u = t BY <3>1, <3>2 DEF PubInv, PubShapes, Store, Stored, About
    <3> QED BY <3>2, <3>3
  <2>6. Says(t, stored[t])' BY <1>1, <2>3 DEF AtRest, Says, Clean
  <2> QED BY <2>4, <2>5, <2>6, <1>1 DEF AtRest
<1>4. Holds' BY <1>3 DEF Holds
<1> QED BY <1>2, <1>4

\* What a step of a call leaves of the calls about a topic.
LEMMA CallsLeft ==
  ASSUME PubInv, NEW c \in calls, NEW N, calls' = (calls \ {c}) \cup N, \A n \in N : n.message = c.message, NEW t
  PROVE  CallsOf(t)' = IF About(c.message, t) THEN (CallsOf(t) \ {c}) \cup N ELSE CallsOf(t)
BY DEF CallsOf

\* The one call about a topic that is not unsure.
LEMMA OneCall ==
  ASSUME PubInv, NEW c \in calls, NEW t \in Topics \ unsure, About(c.message, t)
  PROVE  CallsOf(t) = {c} /\ InFlight(t, c.message) /\ c.message # Pub!None /\ c.message.number \in Numbers
<1>1. c \in CallsOf(t) BY DEF CallsOf
<1>2. PICK m : m = c.message OBVIOUS
<1>3. m \in {d.message : d \in CallsOf(t)} \cup SentOf(t) BY <1>1, <1>2
<1>4. InFlight(t, m) BY <1>3, Under
<1>5. m # Pub!None /\ m.number \in Numbers BY <1>3, OnesOwn
<1>6. CallsOf(t) = {c} BY <1>1, <1>4 DEF InFlight
<1> QED BY <1>2, <1>4, <1>5, <1>6

\* The call about a topic ended, and the registry knows its message.
LEMMA CallEnds ==
  ASSUME PubInv, NEW t, NEW m, InFlight(t, m), CallsOf(t)' = {}, SentOf(t)' = SentOf(t), Replays(t)' = Replays(t),
         stored' = stored, Says(t, Result(m))'
  PROVE  Quiet(t)'
<1>1. CASE SentOf(t) = {}
  <2>1. stored[t] = Result(m) BY <1>1 DEF InFlight
  <2>2. Says(t, stored[t])' BY <2>1 DEF Says, Clean
  <2>3. AtRest(t)' BY <1>1, <2>2 DEF AtRest, InFlight
  <2> QED BY <2>3 DEF Quiet
<1>2. CASE SentOf(t) # {}
  <2>1. m \in SentOf(t)' BY <1>2 DEF InFlight
  <2>2. \A n \in SentOf(t)' : n = m BY DEF InFlight
  <2>3. Replays(t)' = {} BY DEF InFlight
  <2>4. InFlight(t, m)' BY <2>1, <2>2, <2>3 DEF InFlight
  <2> QED BY <2>1, <2>4 DEF Quiet
<1> QED BY <1>1, <1>2

LEMMA CallHolds ==
  ASSUME MessagesFit, PubInv, NEW c \in calls, Pub!CallStep(c)
  PROVE  Holds' /\ Own'
<1>1. /\ c \in Call /\ c.message \in Packet /\ c.message.number \in Numbers /\ c.message.topic \in Topics
      /\ \A s \in {"waits", "published", "marked"} : [c EXCEPT !.step = s].message = c.message /\ [c EXCEPT !.step = s].step = s
  BY CallFits DEF PubInv, PubShapes
<1>2. PICK p : p = [c EXCEPT !.step = "published"] OBVIOUS
<1>3. PICK d : d = [c EXCEPT !.step = "marked"] OBVIOUS
<1>4. p.message = c.message /\ p.step = "published" /\ d.message = c.message /\ d.step = "marked" BY <1>1, <1>2, <1>3
<1>5. UNCHANGED <<outbox, inbox, stored, handling, author, astray>> /\ unsure \subseteq unsure'
  BY DEF Pub!CallStep, Pub!Acknowledged, Pub!TimedOut, Pub!MarkPublished, Pub!MarkRetainedPanel
<1>6. Grows BY <1>5 DEF Grows, Clean
<1>7. \A t : SentOf(t)' = SentOf(t) /\ Replays(t)' = Replays(t) BY <1>5 DEF SentOf, Replays
<1>8. c.step # "waits" => c.message.retain BY DEF PubInv, Own
<1>9. \A t \in Topics \ unsure' : stored'[t] # Pub!None => stored'[t].number \in Numbers' BY <1>5 DEF PubInv, Own, Numbers
\* Nothing changes about the other topics.
<1>10. ASSUME NEW t \in Topics \ unsure, CallsOf(t)' = CallsOf(t), t \in retained' <=> t \in retained, retainedPanels'[t] = retainedPanels[t]
       PROVE  Quiet(t)'
  <2>1. Fixed(t) BY <1>5, <1>7, <1>10 DEF Fixed
  <2> QED BY <2>1, <1>6, QuietKeeps
<1>11. CASE Pub!Acknowledged(c)
  <2>1. PICK N : calls' = (calls \ {c}) \cup N /\ N = IF c.message.retain THEN {p} ELSE {}
    BY <1>2, <1>11 DEF Pub!Acknowledged
  <2>2. UNCHANGED <<retained, retainedPanels, unsure>> BY <1>11 DEF Pub!Acknowledged
  <2>3. \A n \in N : n.message = c.message /\ n.message.retain /\ n.step = "published" BY <1>4, <2>1
  <2>4. \A e \in calls' : e.step = "waits" \/ e.message.retain BY <2>1, <2>3 DEF PubInv, Own
  <2>5. ASSUME NEW t \in Topics \ unsure PROVE Quiet(t)'
    <3>1. CallsOf(t)' = IF About(c.message, t) THEN (CallsOf(t) \ {c}) \cup N ELSE CallsOf(t) BY <2>1, <2>3, CallsLeft
    <3>2. CASE ~About(c.message, t) BY <1>10, <2>2, <3>1, <3>2
    <3>3. CASE About(c.message, t)
      <4>1. CallsOf(t) = {c} /\ InFlight(t, c.message) BY <3>3, OneCall
      <4>2. CallsOf(t)' = {p} BY <2>1, <3>1, <3>3, <4>1 DEF About
      <4>3. PICK m : m = c.message OBVIOUS
      <4>4. \A e \in CallsOf(t)' : e.message = m /\ e.step # "marked" BY <1>4, <4>2, <4>3
      <4>5. \A e, f \in CallsOf(t)' : e = f BY <4>2
      <4>6. (\A n \in SentOf(t)' : n = m) /\ Replays(t)' = {} /\ (m \in SentOf(t)' \/ stored'[t] = Result(m))
        BY <1>5, <1>7, <4>1, <4>3 DEF InFlight
      <4>7. InFlight(t, m)' BY <4>2, <4>4, <4>5, <4>6 DEF InFlight, Result
      <4>8. m \in {e.message : e \in CallsOf(t)'} BY <1>4, <4>2, <4>3
      <4> QED BY <4>7, <4>8 DEF Quiet
    <3> QED BY <3>2, <3>3
  <2> QED BY <1>9, <2>2, <2>4, <2>5 DEF Holds, Quiet, Own
<1>12. CASE Pub!TimedOut(c)
  <2>1. calls' = (calls \ {c}) \cup {} /\ UNCHANGED <<retained, retainedPanels>> BY <1>12 DEF Pub!TimedOut
  <2>2. \A e \in calls' : e.step = "waits" \/ e.message.retain BY <2>1 DEF PubInv, Own
  <2>3. ASSUME NEW t \in Topics \ unsure' PROVE Quiet(t)'
    <3>1. ~About(c.message, t) BY <1>12, <2>3 DEF Pub!TimedOut, About
    <3>2. CallsOf(t)' = CallsOf(t) BY <2>1, <3>1 DEF CallsOf
    <3> QED BY <1>5, <1>10, <2>1, <2>3, <3>2
  <2> QED BY <1>9, <2>2, <2>3 DEF Holds, Quiet, Own
<1>13. CASE Pub!MarkPublished(c)
  <2>1. PICK N : calls' = (calls \ {c}) \cup N /\ N = IF c.message.payload # Pub!Empty THEN {d} ELSE {}
    BY <1>3, <1>13 DEF Pub!MarkPublished
  <2>2. unsure' = unsure /\ c.message.retain BY <1>8, <1>13 DEF Pub!MarkPublished
  <2>3. \A n \in N : n.message = c.message BY <1>4, <2>1
  <2>4. \A e \in calls' : e.step = "waits" \/ e.message.retain BY <2>1, <2>2, <2>3 DEF PubInv, Own
  <2>5. /\ c.message.payload # Pub!Empty => retained' = retained \cup {c.message.topic} /\ retainedPanels' = retainedPanels
        /\ c.message.payload = Pub!Empty => /\ retained' = retained \ {c.message.topic}
                                            /\ retainedPanels' = [retainedPanels EXCEPT ![c.message.topic] = Pub!NoPanel]
    BY <1>13 DEF Pub!MarkPublished, Pub!markRetained
  <2>6. retainedPanels \in [Topics -> Known] BY DEF PubInv, PubShapes, Store
  <2>7. ASSUME NEW t \in Topics \ unsure PROVE Quiet(t)'
    <3>1. CallsOf(t)' = IF About(c.message, t) THEN (CallsOf(t) \ {c}) \cup N ELSE CallsOf(t) BY <2>1, <2>3, CallsLeft
    <3>2. CASE ~About(c.message, t)
      <4>1. t # c.message.topic BY <2>2, <3>2 DEF About
      <4>2. (t \in retained' <=> t \in retained) /\ retainedPanels'[t] = retainedPanels[t] BY <2>5, <2>6, <4>1
      <4> QED BY <1>10, <3>1, <3>2, <4>2
    <3>3. CASE About(c.message, t)
      <4>1. CallsOf(t) = {c} /\ InFlight(t, c.message) BY <3>3, OneCall
      <4>2. PICK m : m = c.message OBVIOUS
      <4>3. m.topic = t BY <3>3, <4>2 DEF About
      <4>4. CASE m.payload # Pub!Empty
        <5>1. CallsOf(t)' = {d} BY <2>1, <3>1, <3>3, <4>1, <4>2, <4>4
        <5>2. t \in retained' BY <2>5, <4>2, <4>3, <4>4
        <5>3. \A e \in CallsOf(t)' : e.message = m BY <1>4, <4>2, <5>1
        <5>4. \A e, f \in CallsOf(t)' : e = f BY <5>1
        <5>5. (\A n \in SentOf(t)' : n = m) /\ Replays(t)' = {} /\ (m \in SentOf(t)' \/ stored'[t] = Result(m))
          BY <1>5, <1>7, <4>1, <4>2 DEF InFlight
        <5>6. InFlight(t, m)' BY <4>4, <5>1, <5>2, <5>3, <5>4, <5>5 DEF InFlight, Result
        <5>7. m \in {e.message : e \in CallsOf(t)'} BY <1>4, <4>2, <5>1
        <5> QED BY <5>6, <5>7 DEF Quiet
      <4>5. CASE m.payload = Pub!Empty
        <5>1. CallsOf(t)' = {} BY <2>1, <3>1, <3>3, <4>1, <4>2, <4>5
        <5>2. t \notin retained' /\ retainedPanels'[t] = Pub!NoPanel BY <2>5, <2>6, <4>2, <4>3, <4>5
        <5>3. Says(t, Result(m))' BY <4>5, <5>2 DEF Says, Result
        <5> QED BY <1>5, <1>7, <4>1, <4>2, <5>1, <5>3, CallEnds
      <4> QED BY <4>4, <4>5
    <3> QED BY <3>2, <3>3
  <2> QED BY <1>9, <2>2, <2>4, <2>7 DEF Holds, Quiet, Own
<1>14. CASE Pub!MarkRetainedPanel(c)
  <2>1. /\ calls' = (calls \ {c}) \cup {} /\ retained' = retained /\ unsure' = unsure /\ c.step = "marked"
        /\ retainedPanels' = [retainedPanels EXCEPT ![c.message.topic] = author[c.message.number]]
    BY <1>14 DEF Pub!MarkRetainedPanel
  <2>2. c.message.retain BY <1>8, <2>1
  <2>3. \A e \in calls' : e.step = "waits" \/ e.message.retain BY <2>1 DEF PubInv, Own
  <2>4. retainedPanels \in [Topics -> Known] BY DEF PubInv, PubShapes, Store
  <2>5. ASSUME NEW t \in Topics \ unsure PROVE Quiet(t)'
    <3>1. CallsOf(t)' = IF About(c.message, t) THEN CallsOf(t) \ {c} ELSE CallsOf(t) BY <2>1 DEF CallsOf
    <3>2. CASE ~About(c.message, t)
      <4>1. t # c.message.topic BY <2>2, <3>2 DEF About
      <4>2. retainedPanels'[t] = retainedPanels[t] BY <2>1, <2>4, <4>1
      <4> QED BY <1>10, <2>1, <3>1, <3>2, <4>2
    <3>3. CASE About(c.message, t)
      <4>1. CallsOf(t) = {c} /\ InFlight(t, c.message) /\ c.message # Pub!None BY <3>3, OneCall
      <4>2. PICK m : m = c.message OBVIOUS
      <4>3. m.topic = t BY <3>3, <4>2 DEF About
      <4>4. CallsOf(t)' = {} BY <3>1, <3>3, <4>1
      <4>5. t \in retained /\ m.payload # Pub!Empty BY <2>1, <4>1, <4>2 DEF InFlight
      <4>6. retainedPanels'[t] = author[m.number] BY <2>1, <2>4, <4>2, <4>3
      <4>7. Says(t, Result(m))' BY <1>5, <2>1, <4>1, <4>2, <4>5, <4>6 DEF Says, Result
      <4> QED BY <1>5, <1>7, <4>1, <4>2, <4>4, <4>7, CallEnds
    <3> QED BY <3>2, <3>3
  <2> QED BY <1>9, <2>1, <2>3, <2>5 DEF Holds, Quiet, Own
<1> QED BY <1>11, <1>12, <1>13, <1>14 DEF Pub!CallStep

LEMMA PubStarts ==
  ASSUME MessagesFit, Pub!Init
  PROVE  PubInv
<1> USE DEF Pub!Init
<1>1. Books
  <2>1. pendingPubs = <<>> /\ author = <<>> /\ now = 0 /\ online = TRUE OBVIOUS
  <2>2. pendingPubs \in Seq(Entry) /\ Len(pendingPubs) = 0 /\ author \in Seq(Known) /\ Len(author) = 0 BY <2>1
  <2>3. 0 \in 0..MaxTime /\ 0 <= maxPendingPubs /\ 0 <= MaxPublish BY DEF MessagesFit
  <2> QED BY <2>1, <2>2, <2>3 DEF Books
<1>2. outbox \in Seq(Packet) /\ inbox \in Seq(Packet) /\ DOMAIN outbox = {} /\ DOMAIN inbox = {} /\ DOMAIN pendingPubs = {} OBVIOUS
<1>3. Wires BY <1>2, FS_EmptySet DEF Wires
<1>4. Store BY DEF Store, Known
<1>5. Reader BY DEF Reader
<1>6. Pub!ToSet(outbox) = {} /\ Pub!ToSet(inbox) = {} /\ Pub!ToSet(pendingPubs) = {} /\ Pub!ToSet(handling) = {} BY DEF Pub!ToSet
<1>7. Coming = {} BY <1>6 DEF Coming
<1>8. Queues BY <1>2 DEF Queues
<1>9. Alike /\ Entries BY <1>2, <1>6, <1>7 DEF Alike, Entries, Rising
<1>10. Taken /\ Seen BY DEF Taken, Seen, Pub!Attributed
<1>11. Holds
  <2> SUFFICES ASSUME NEW t \in Topics PROVE AtRest(t)
    BY DEF Holds
  <2>1. CallsOf(t) = {} /\ SentOf(t) = {} /\ Replays(t) = {} BY <1>6 DEF CallsOf, SentOf, Replays
  <2>2. stored[t] = Pub!None /\ t \notin retained /\ retainedPanels[t] = Pub!NoPanel OBVIOUS
  <2> HIDE DEF Pub!Init
  <2> QED BY <2>1, <2>2 DEF AtRest, Says
<1>12. Own BY DEF Own
<1> HIDE DEF Pub!Init
<1> QED BY <1>1, <1>3, <1>4, <1>5, <1>8, <1>9, <1>10, <1>11, <1>12 DEF PubInv, PubShapes, Correlated

LEMMA PubStep ==
  ASSUME MessagesFit, PubInv, [Pub!Next]_(Pub!vars)
  PROVE  PubInv'
<1>1. ASSUME NEW panel \in Panels \cup {Pub!NoPanel}, NEW message \in Messages, Pub!Publish(panel, message) PROVE PubInv'
  <2>1. panel \in Known BY DEF Known
  <2>2. PICK m : PublishOf(m, panel) BY <1>1, <2>1, PublishHas DEF PubInv, PubShapes
  <2> QED BY <2>1, <2>2, PublishShapes, PublishCorrelates, PublishHolds DEF PubInv
<1>2. ASSUME NEW c \in calls, Pub!CallStep(c) PROVE PubInv'
  <2>1. CallOf(c) BY <1>2, CallHas
  <2> QED BY <1>2, <2>1, CallKeeps, CallHolds DEF PubInv
<1>3. CASE Pub!Match
  <2>1. PICK m, pubs, h : MatchOf(m, pubs, h) BY <1>3, MatchHas DEF PubInv, PubShapes
  <2> QED BY <2>1, MatchKeeps, MatchHolds DEF PubInv
<1>4. CASE Pub!Handle
  <2>1. PICK h, told : HandleOf(h, told) BY <1>4, HandleHas DEF PubInv, PubShapes
  <2> QED BY <2>1, HandleKeeps, HandleHolds DEF PubInv
<1>5. ASSUME NEW i \in DOMAIN outbox, Pub!Taken(i) PROVE PubInv'
  BY <1>5, TakenKeeps, TakenHolds DEF PubInv
<1>6. ASSUME NEW message \in Messages, Pub!Elsewhere(message) PROVE PubInv'
  <2>1. PICK m, f : ElsewhereOf(m, f) BY <1>6, ElsewhereHas
  <2> QED BY <2>1, ElsewhereKeeps, ElsewhereHolds DEF PubInv
<1>7. CASE Pub!ConnectionLost
  <2>1. LossOf BY <1>7, LossHas DEF PubInv, PubShapes
  <2> QED BY <2>1, LossKeeps, LossHolds DEF PubInv
<1>8. CASE Pub!Reconnected
  <2>1. ReplayOf BY <1>8, ReplayHas DEF PubInv, PubShapes
  <2> QED BY <2>1, ReplayKeeps, ReplayHolds DEF PubInv
<1>9. CASE Pub!Tick BY <1>9, TickKeeps
<1>10. CASE UNCHANGED Pub!vars
  <2>1. UNCHANGED <<online, now, pendingPubs, calls, outbox, inbox, stored, retained, retainedPanels, handling, seen, author, astray, unsure>>
    BY <1>10 DEF Pub!vars
  <2>2. Books' /\ Wires' /\ Store' /\ Reader' BY <2>1 DEF PubInv, PubShapes, Books, Wires, Store, Stored, Reader, Numbers
  <2>3. Queues' /\ Alike' /\ Entries' BY <2>1 DEF PubInv, Correlated, Queues, Alike, Entries, Ahead, Clean, Coming, Echo, Numbers
  <2>4. Taken' BY <2>1 DEF PubInv, Correlated, Taken, Found, Echo, Clean, Numbers
  <2>5. Seen' BY <2>1 DEF PubInv, Correlated, Seen, Pub!Attributed, Numbers
  <2>6. Holds' BY <2>1 DEF PubInv, Holds, AtRest, InFlight, Says, CallsOf, SentOf, Replays, Clean
  <2>7. Own' BY <2>1 DEF PubInv, Own, Numbers
  <2> QED BY <2>2, <2>3, <2>4, <2>5, <2>6, <2>7 DEF PubInv, PubShapes, Correlated
<1> QED BY <1>1, <1>2, <1>3, <1>4, <1>5, <1>6, <1>7, <1>8, <1>9, <1>10 DEF Pub!Next

LEMMA PubAlways ==
  ASSUME MessagesFit
  PROVE  Pub!Spec => []PubInv
BY PubStarts, PubStep, PTL DEF Pub!Spec

(* The shapes of the books of publications, and that they stay small. *)
THEOREM PublicationsTyped ==
  ASSUME MessagesFit
  PROVE  Pub!Spec => []Pub!TypeOK
<1>1. ASSUME PubInv PROVE Pub!TypeOK
  <2> USE <1>1 DEF PubInv, PubShapes
  <2>1. Len(pendingPubs) <= maxPendingPubs /\ online \in BOOLEAN /\ now \in 0..MaxTime BY DEF Books
  <2>2. \A p \in Pub!ToSet(pendingPubs) : p.panel \in Panels /\ author[p.number] = p.panel
    <3>1. \A p \in Pub!ToSet(pendingPubs) : p \in Entry BY DEF Books, Pub!ToSet
    <3> QED BY <3>1 DEF Entry, Correlated, Entries
  <2>3. DOMAIN author = Numbers BY DEF Books, Numbers
  <2>4. \A c \in calls : c.step \in {"waits", "published", "marked"} /\ c.message.number \in DOMAIN author
    BY <2>3 DEF Wires, Call
  <2>5. \A m \in Pub!ToSet(outbox) : m.number \in DOMAIN author BY <2>3 DEF Wires, Pub!ToSet
  <2>6. \A m \in Pub!ToSet(inbox) : m.retain => m.payload # Pub!Empty BY DEF Wires, Pub!ToSet
  <2>7. stored \in [Topics -> {Pub!None} \cup {Pub!Numbered(m, n) : m \in Messages, n \in 0..MaxPublish}]
        /\ retained \subseteq Topics /\ retainedPanels \in [Topics -> Panels \cup {Pub!NoPanel}]
    BY DEF Store, Sents, Known
  <2>8. author \in Seq(Panels \cup {Pub!NoPanel}) BY DEF Books, Known
  <2>9. unsure \subseteq Topics BY DEF Reader
  <2> QED BY <2>1, <2>2, <2>4, <2>5, <2>6, <2>7, <2>8, <2>9 DEF Pub!TypeOK
<1> QED BY <1>1, PubAlways, PTL

(* A live message is taken for that of the panel that published it; no     *)
(* publication is found twice, none after its time. mqtt/client.go:251     *)
THEOREM PublicationsAttributed ==
  ASSUME MessagesFit
  PROVE  Pub!Spec => []Pub!Attributed
<1>1. PubInv => Pub!Attributed BY DEF PubInv, Correlated, Seen
<1> QED BY <1>1, PubAlways, PTL

(* With nothing under way the registry knows of which topics the broker    *)
(* holds a message, and of which panel it is. mqtt/registry.go:369         *)
THEOREM RetainedIsKnown ==
  ASSUME MessagesFit
  PROVE  Pub!Spec => []Pub!RetainedKnown
<1>1. ASSUME PubInv PROVE Pub!RetainedKnown
  <2> SUFFICES ASSUME NEW t \in Topics \ unsure, Pub!Settled(t)
               PROVE  /\ t \in retained <=> stored[t] # Pub!None
                      /\ t \in retained /\ Pub!Content(stored[t]) \notin astray => retainedPanels[t] = author[stored[t].number]
                      /\ t \notin retained => retainedPanels[t] = Pub!NoPanel
    BY DEF Pub!RetainedKnown
  <2>1. CallsOf(t) = {} /\ SentOf(t) = {} BY DEF Pub!Settled, CallsOf, SentOf, About
  <2>2. AtRest(t) BY <1>1, <2>1, Resting
  <2> QED BY <2>2 DEF AtRest, Says, Clean
<1> QED BY <1>1, PubAlways, PTL
=============================================================================
