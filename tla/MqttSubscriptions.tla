-------------------------- MODULE MqttSubscriptions --------------------------
(***************************************************************************)
(* The subscriptions of one MQTTManager (backend/mqtt/client.go): the      *)
(* handlers registered in subs, the subscriptions the broker holds for the *)
(* connection, and the routes by which the client library picks the        *)
(* callbacks of an incoming message.  '#' takes the place of every filter  *)
(* outside $SYS and '$SYS/#' of every filter below it, so that the broker  *)
(* sends a message once.  The manager's methods run under m.mu; the link   *)
(* comes and goes between any two of them, and the library starts a        *)
(* goroutine for the on-connect callback.                                  *)
(***************************************************************************)
EXTENDS Integers

All    == "#"
SysAll == "$SYS/#"

CONSTANTS Filters, Topics,
          Sys,          \* the filters and topics that begin with $SYS/
          Dollar,       \* the topics that begin with $
          Matches,      \* TopicMatches, as pairs of a filter and a topic
          Refused,      \* filters the broker does not grant
          MaxHandlers   \* bound: handlers of one filter

ASSUME FiltersAssumption ==
  /\ All \in Filters \ Sys /\ SysAll \in Filters \cap Sys
  /\ \A t \in Topics : /\ <<All, t>> \in Matches <=> t \notin Dollar
                       /\ <<SysAll, t>> \in Matches <=> t \in Sys
                       /\ t \in Sys => t \in Dollar
  /\ \A f \in Filters, t \in Topics : <<f, t>> \in Matches => (f \in Sys <=> t \in Sys)

VARIABLES subs,     \* m.subs: how many handlers each filter has
          held,     \* the broker's subscriptions for this connection
          routes,   \* the library's routes
          link,     \* never (connected yet), up, down (and reconnecting) or closed
          greet,    \* whether an on-connect callback is on its way
          setup,    \* AddBroker: connecting, stored, captured or done
          lost      \* ghost: whether a connection was ever lost

vars == <<subs, held, routes, link, greet, setup, lost>>

TypeOK ==
  /\ subs \in [Filters -> Nat] /\ held \subseteq Filters /\ routes \subseteq Filters
  /\ link \in {"never", "up", "down", "closed"}
  /\ setup \in {"connecting", "stored", "captured", "done"}
  /\ greet \in BOOLEAN /\ lost \in BOOLEAN

Init ==
  /\ subs = [f \in Filters |-> 0] /\ held = {} /\ routes = {}
  /\ link = "never" /\ greet = FALSE /\ setup = "connecting" /\ lost = FALSE

Subscribed == {f \in Filters : subs[f] > 0}

-----------------------------------------------------------------------------
(* The client library.  Calls take effect while the link is up and are      *)
(* refused otherwise, which the manager does not look at.  Sessions are     *)
(* clean: the broker's subscriptions end with the connection, the routes    *)
(* stay.                                                                    *)

Request(drop, add) == /\ held' = (held \ drop) \cup (add \ Refused)
                      /\ routes' = (routes \ drop) \cup add
NoRequest == UNCHANGED <<held, routes>>

Connected ==
  /\ link \in {"never", "down"}
  /\ link' = "up" /\ held' = {} /\ greet' = TRUE
  /\ UNCHANGED <<subs, routes, setup, lost>>

ConnectionLost ==
  /\ link = "up"
  /\ link' = "down" /\ held' = {} /\ lost' = TRUE
  /\ UNCHANGED <<subs, routes, greet, setup>>

-----------------------------------------------------------------------------
(* The manager.                                                             *)

\* Those of the filters S that neither '#' nor '$SYS/#' makes superfluous.
Uncovered(S) == {f \in S : /\ f \notin Sys /\ All \in S => f = All
                           /\ f \in Sys /\ SysAll \in S => f = SysAll}

\* SetOnConnectHandler.
OnConnect ==
  /\ greet /\ greet' = FALSE
  /\ IF link = "up" THEN Request({}, Uncovered(Subscribed)) ELSE NoRequest
  /\ UNCHANGED <<subs, link, setup, lost>>

\* What is unsubscribed when '#' or '$SYS/#' takes over.
Replaced(f) == CASE f = All    -> Subscribed \ (Sys \cup {All})
                 [] f = SysAll -> (Subscribed \cap Sys) \ {SysAll}
                 [] OTHER      -> {}

\* Mutant: '#' is taken to cover the filters below $SYS as well.
Covered_Everything(f) == \/ f # SysAll /\ f \in Sys /\ SysAll \in Subscribed
                         \/ f # All /\ f # SysAll /\ All \in Subscribed

\* Whether another filter does the work of f.
Covered(f) == \/ f # SysAll /\ f \in Sys /\ SysAll \in Subscribed
              \/ f # All /\ f \notin Sys /\ All \in Subscribed

Subscribe(f) ==
  /\ subs' = [subs EXCEPT ![f] = @ + 1]
  /\ IF f \in Subscribed \/ link # "up" \/ Covered(f) THEN NoRequest
     ELSE Request(Replaced(f), {f})
  /\ UNCHANGED <<link, greet, lost>>

\* Mutant: every filter is subscribed again.
Restored_Everything(f) == IF f \in {All, SysAll} THEN Subscribed \ {f} ELSE {}

\* What is subscribed again when '#' or '$SYS/#' ends.
Restored(f) ==
  LET left == Subscribed \ {f}
  IN  CASE f = All    -> {g \in left : g \in Sys /\ g # SysAll => SysAll \notin left}
        [] f = SysAll -> left \cap Sys
        [] OTHER      -> {}

\* The handlers of AddBroker stay; everybody else takes away only their own.
Permanent == {f \in {All, SysAll} : setup = "done" \/ (setup = "captured" /\ f = All)}

\* Mutant: the last handler is removed without looking whether there is one.
Unsubscribe_Blind(f) ==
  /\ setup # "connecting"
  /\ subs' = [subs EXCEPT ![f] = @ - 1]
  /\ IF subs[f] > 1 \/ link # "up" \/ Covered(f) THEN NoRequest
     ELSE Request({f}, Restored(f))
  /\ UNCHANGED <<link, greet, setup, lost>>

Unsubscribe(f) ==
  /\ setup # "connecting" /\ subs[f] > (IF f \in Permanent THEN 1 ELSE 0)
  /\ subs' = [subs EXCEPT ![f] = @ - 1]
  /\ IF subs[f] > 1 \/ link # "up" \/ Covered(f) THEN NoRequest
     ELSE Request({f}, Restored(f))
  /\ UNCHANGED <<link, greet, setup, lost>>

\* The hub and the engine, as soon as the manager is in the registry.
Listen(f) == /\ setup # "connecting" /\ subs[f] < MaxHandlers
             /\ Subscribe(f) /\ UNCHANGED setup

\* AddBroker: once Connect has returned, whether or not it succeeded, the manager is
\* stored; then '#' is subscribed for the history and '$SYS/#' for the statistics.
AddBroker ==
  \/ /\ setup = "connecting" /\ setup' = "stored"
     /\ UNCHANGED <<subs, held, routes, link, greet, lost>>
  \/ setup = "stored" /\ setup' = "captured" /\ Subscribe(All)
  \/ setup = "captured" /\ setup' = "done" /\ Subscribe(SysAll)

\* A client that is not connected, nor reconnecting, is not told.
Disconnect ==
  /\ setup # "connecting" /\ link \in {"up", "down"}
  /\ link' = "closed" /\ held' = {}
  /\ UNCHANGED <<subs, routes, greet, setup, lost>>

Next ==
  \/ Connected \/ ConnectionLost \/ OnConnect \/ AddBroker \/ Disconnect
  \/ \E f \in Filters : Listen(f) \/ Unsubscribe(f)

Spec == Init /\ [][Next]_vars

-----------------------------------------------------------------------------
(* Where a message goes.                                                    *)

\* Mutant: the '#' route leaves nothing to '$SYS/#'.
Runs_Both(r, f, t) == /\ r = All \/ <<r, t>> \in Matches
                      /\ f = r \/ (r \in {All, SysAll} /\ <<f, t>> \in Matches)

\* buildHandler: whether route r calls the handlers of filter f for a message on
\* topic t.  The library takes '#' to match every topic.
Runs(r, f, t) ==
  /\ r = All \/ <<r, t>> \in Matches
  /\ r = All /\ t \in Sys => SysAll \notin Subscribed
  /\ f = r \/ (r \in {All, SysAll} /\ <<f, t>> \in Matches)

Runners(f, t) == {r \in routes : Runs(r, f, t)}

\* The subscriptions for each of which the broker may send a copy of the message.
Copies(t) == {h \in held : <<h, t>> \in Matches}

-----------------------------------------------------------------------------
(* Properties.                                                              *)

Settled == link = "up" /\ ~greet

\* Between the callbacks of the library the connection holds exactly the subscriptions
\* that the handlers need and no other subscription makes superfluous, in whatever
\* order filters came, went and took over, on this connection and before it.
SessionFits == Settled => held = Uncovered(Subscribed) \ Refused

\* Nobody is forgotten: a message on a topic that a handler's filter matches is sent by
\* the broker and some route hands it to the handler, as long as the broker grants the
\* filter, '#' and '$SYS/#'.
Reached ==
  Settled => \A f \in Subscribed \ Refused, t \in Topics :
               <<f, t>> \in Matches => Copies(t) # {} /\ Runners(f, t) # {}

\* From the end of AddBroker on, on a connection that was never lost, the broker sends
\* one copy of a message and each handler that matches it runs once, through one route.
RunOnce ==
  Settled /\ ~lost /\ setup = "done" =>
    \A f \in Subscribed, t \in Topics : <<f, t>> \in Matches =>
      \E h \in held, r \in routes : Copies(t) = {h} /\ Runners(f, t) = {r}

(* The strengthening that makes them inductive.                             *)

\* Whatever is held is needed and has its route; before the on-connect callback has
\* run, something needed may be missing.
Holding ==
  /\ held \subseteq routes
  /\ link = "up" => held \subseteq Uncovered(Subscribed) \ Refused
  /\ SessionFits

\* On the first connection no route is left over.
FirstRoutes ==
  ~lost => /\ link # "down"
           /\ link = "never" => routes = {}
           /\ link = "up" => /\ routes \subseteq Uncovered(Subscribed)
                             /\ ~greet => routes = Uncovered(Subscribed)

IInv == TypeOK /\ Holding /\ FirstRoutes /\ Permanent \subseteq Subscribed
=============================================================================
