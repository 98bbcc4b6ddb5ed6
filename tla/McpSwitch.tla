------------------------------- MODULE McpSwitch -------------------------------
(***************************************************************************)
(* The settings on the server (handlers/settings.go), of which two have a  *)
(* copy in memory: whether "$SYS" topics are stored, in the registry, and  *)
(* whether there is an MCP server, in that server; and the sessions of the *)
(* MCP server over server-sent events (mcp/server.go), which end when it   *)
(* is switched off.  A stream or a message is let in by a look at the copy *)
(* that no lock holds until the session is used.                           *)
(*                                                                         *)
(* The row and the copies are written in steps of the request; requests    *)
(* and the demo's reset may overlap.  An answer is the number of the       *)
(* message that asked for it.  Left out: the retention, what messages say, *)
(* the transports without a session, and every other part of the reset.    *)
(***************************************************************************)
EXTENDS Naturals, Lists

CONSTANTS Streams,
          queueSize,      \* answers a session's channel holds
          MaxRequests, MaxMessages, MaxResets, MaxRestarts

(* A field of a body: its value alone, or nothing. *)
Fields == {{}, {TRUE}, {FALSE}}
Here(v) == v # {}
Or(v, old) == IF Here(v) THEN TRUE \in v ELSE old

VARIABLES stored,         \* the row: mcp, sys
          enabled,        \* the MCP server's copy
          saveSysTopics,  \* the registry's copy
          requests,       \* settings requests in progress
          reset,          \* the demo's reset: "idle", "store" or "close"
          stream,         \* HandleSSE: "new", "admitted", "open", "leaving", "ended"
          sessions,       \* the streams in the map
          channel, closed,
          messages,       \* HandleSSEMessage in progress: stream and number
          gone,           \* streams whose client has left
          accepted,       \* ghost: answers the session took, and its stream
          delivered,      \* ghost: answers written to a stream
          straddling,     \* ghost: streams let in and not registered when sessions were closed
          overlapped,     \* ghost: two requests were under way at once
          dropped,        \* ghost: the reset wrote the row's sys, and the registry's is old
          unread,         \* ghost: a patch that failed to read the row has put mcp off in it
          counts
settings == <<stored, enabled, saveSysTopics, requests, reset, overlapped, dropped, unread>>
traffic == <<stream, channel, messages, gone, accepted, delivered>>
vars == <<settings, traffic, sessions, closed, straddling, counts>>

Init ==
    /\ stored \in [mcp : BOOLEAN, sys : BOOLEAN]
    /\ enabled = stored.mcp /\ saveSysTopics = stored.sys
    /\ requests = {} /\ reset = "idle" /\ overlapped = FALSE /\ dropped = FALSE /\ unread = FALSE
    /\ stream = [s \in Streams |-> "new"] /\ sessions = {} /\ channel = [s \in Streams |-> <<>>] /\ closed = {}
    /\ messages = {} /\ gone = {} /\ accepted = {} /\ delivered = {} /\ straddling = {}
    /\ counts = [requests |-> 0, messages |-> 0, resets |-> 0, restarts |-> 0]
Spend(what, limit) == counts[what] < limit /\ counts' = [counts EXCEPT ![what] = @ + 1]

-----------------------------------------------------------------------------
(* removeSession and CloseAllSessions: a channel is closed by whoever      *)
(* takes it out of the map.                                                *)
Removed(S) == sessions' = sessions \ S /\ closed' = closed \cup (sessions \cap S)

(* SetEnabled: the copy, then the sessions.                                *)
Store(on) == enabled' = on /\ unread' = FALSE /\ UNCHANGED <<sessions, closed, straddling>>
Straddles == straddling' = {s \in Streams : stream[s] = "admitted"}
(* Mutant: sessions are closed and stay in the map. *)
CloseAllSessions_Kept == sessions' = sessions /\ closed' = closed \cup sessions /\ Straddles
CloseAllSessions == Removed(Streams) /\ Straddles

-----------------------------------------------------------------------------
(* UpdateSettings has every field; what the body leaves out is false.      *)
(* PatchSettings reads the row first and writes it back; when that fails   *)
(* it takes the defaults for the row, and says nothing.                    *)
Defaults == [mcp |-> FALSE, sys |-> FALSE]
Request(kind, mcp, sys) ==
    /\ Spend("requests", MaxRequests)
    /\ IF kind = "put" THEN Here(mcp) /\ Here(sys) ELSE Here(mcp) \/ Here(sys)
    /\ requests' = requests \cup
           {[id |-> counts.requests, step |-> IF kind = "put" THEN "update" ELSE "read",
             put |-> kind = "put", mcp |-> mcp, sys |-> sys, blind |-> FALSE, row |-> [mcp |-> Or(mcp, FALSE), sys |-> Or(sys, FALSE)]]}
    /\ overlapped' = (overlapped \/ requests # {} \/ reset # "idle")
    /\ UNCHANGED <<stored, enabled, saveSysTopics, reset, dropped, unread, traffic, sessions, closed, straddling>>
To(q, step) == requests' = (requests \ {q}) \cup {[q EXCEPT !.step = step]}
Done(q) == requests' = requests \ {q}

Read(q) ==
    /\ q.step = "read"
    /\ \E old \in {stored, Defaults} :
           requests' = (requests \ {q}) \cup
               {[q EXCEPT !.step = "update", !.row = [mcp |-> Or(q.mcp, old.mcp), sys |-> Or(q.sys, old.sys)],
                          !.blind = ~Here(q.mcp) /\ old.mcp # stored.mcp]}
    /\ UNCHANGED <<stored, enabled, saveSysTopics, reset, overlapped, dropped, unread, traffic, sessions, closed, straddling, counts>>
Update(q) ==
    /\ q.step = "update"
    /\ \/ stored' = q.row /\ unread' = (unread \/ q.blind) /\ To(q, "sys")
       \/ UNCHANGED <<stored, unread>> /\ Done(q)
    /\ UNCHANGED <<enabled, saveSysTopics, reset, overlapped, dropped, traffic, sessions, closed, straddling, counts>>
(* A patch that leaves a field out does not touch the MCP server. *)
AfterSys(q) == IF q.put \/ Here(q.mcp) THEN "mcp" ELSE "done"
SetSaveSysTopics(q) ==
    /\ q.step = "sys" /\ saveSysTopics' = q.row.sys /\ dropped' = FALSE
    /\ IF AfterSys(q) = "done" THEN Done(q) ELSE To(q, AfterSys(q))
    /\ UNCHANGED <<stored, enabled, reset, overlapped, unread, traffic, sessions, closed, straddling, counts>>
SetEnabled(q) ==
    /\ q.step = "mcp" /\ Store(q.row.mcp)
    /\ IF q.row.mcp THEN Done(q) ELSE To(q, "close")
    /\ UNCHANGED <<stored, saveSysTopics, reset, overlapped, dropped, traffic, counts>>
CloseSessions(q) ==
    /\ q.step = "close" /\ CloseAllSessions /\ Done(q)
    /\ UNCHANGED <<stored, enabled, saveSysTopics, reset, overlapped, dropped, unread, traffic, counts>>

(* demo.ResetDatabase, one at a time: the row, which the seed file may     *)
(* change, then SetEnabled(false); the registry is not told.               *)
ResetRow(seeded) ==
    /\ reset = "idle" /\ Spend("resets", MaxResets)
    /\ reset' = "store" /\ stored' = [mcp |-> FALSE, sys |-> Or(seeded, FALSE)] /\ dropped' = TRUE
    /\ overlapped' = (overlapped \/ requests # {})
    /\ UNCHANGED <<enabled, saveSysTopics, requests, unread, traffic, sessions, closed, straddling>>
ResetStore ==
    /\ reset = "store" /\ reset' = "close" /\ Store(FALSE)
    /\ UNCHANGED <<stored, saveSysTopics, requests, overlapped, dropped, traffic, counts>>
ResetClose ==
    /\ reset = "close" /\ reset' = "idle" /\ CloseAllSessions
    /\ UNCHANGED <<stored, enabled, saveSysTopics, requests, overlapped, dropped, unread, traffic, counts>>

(* buildRouter and initRegistrySettings after a crash: clients are cut off *)
(* and the copies are made anew; the seed file may say something of "$SYS" *)
(* topics, and the command line may ask for the MCP server.                *)
Restart(seeded, flag) ==
    /\ Spend("restarts", MaxRestarts)
    /\ stored' = [mcp |-> stored.mcp \/ flag, sys |-> Or(seeded, stored.sys)]
    /\ enabled' = stored'.mcp /\ saveSysTopics' = stored'.sys
    /\ requests' = {} /\ reset' = "idle" /\ overlapped' = FALSE /\ dropped' = FALSE /\ unread' = FALSE
    /\ stream' = [s \in Streams |-> IF stream[s] = "new" THEN "new" ELSE "ended"]
    /\ sessions' = {} /\ channel' = [s \in Streams |-> <<>>] /\ closed' = {}
    /\ messages' = {} /\ gone' = gone \cup {s \in Streams : stream[s] # "new"} /\ straddling' = {}
    /\ UNCHANGED <<accepted, delivered>>

-----------------------------------------------------------------------------
(* HandleSSE *)
Admit(s) ==
    /\ stream[s] = "new" /\ enabled /\ stream' = [stream EXCEPT ![s] = "admitted"]
    /\ UNCHANGED <<settings, sessions, closed, channel, messages, gone, accepted, delivered, straddling, counts>>
Register(s) ==
    /\ stream[s] = "admitted" /\ stream' = [stream EXCEPT ![s] = "open"]
    /\ sessions' = sessions \cup {s}
    /\ UNCHANGED <<settings, closed, channel, messages, gone, accepted, delivered, straddling, counts>>
Deliver(s) ==
    /\ stream[s] = "open" /\ channel[s] # <<>>
    /\ channel' = [channel EXCEPT ![s] = Tail(@)]
    /\ delivered' = IF s \in gone THEN delivered ELSE delivered \cup {Head(channel[s])}
    /\ UNCHANGED <<settings, sessions, closed, stream, messages, gone, accepted, straddling, counts>>
(* A closed channel is read to its end. *)
Emptied(s) == s \in closed /\ channel[s] = <<>>
Returns(s) ==
    /\ stream[s] = "open" /\ (s \in gone \/ Emptied(s))
    /\ stream' = [stream EXCEPT ![s] = "leaving"]
    /\ UNCHANGED <<settings, sessions, closed, channel, messages, gone, accepted, delivered, straddling, counts>>
removeSession(s) ==
    /\ stream[s] = "leaving" /\ stream' = [stream EXCEPT ![s] = "ended"] /\ Removed({s})
    /\ UNCHANGED <<settings, channel, messages, gone, accepted, delivered, straddling, counts>>
ClientLeaves(s) ==
    /\ stream[s] \in {"admitted", "open"} /\ s \notin gone /\ gone' = gone \cup {s}
    /\ UNCHANGED <<settings, sessions, closed, stream, channel, messages, accepted, delivered, straddling, counts>>
HandleSessionDelete(s) ==
    /\ enabled /\ s \in sessions /\ Removed({s})
    /\ UNCHANGED <<settings, traffic, straddling, counts>>

(* HandleSSEMessage: the answer is computed, and goes to the session under *)
(* its lock, or into the response where there is none or it is full.       *)
Message(s) ==
    /\ enabled /\ stream[s] \notin {"new", "admitted"} /\ Spend("messages", MaxMessages)
    /\ messages' = messages \cup {[stream |-> s, number |-> counts.messages]}
    /\ UNCHANGED <<settings, sessions, closed, stream, channel, gone, accepted, delivered, straddling>>
Answer(m) ==
    LET s == m.stream  taken == s \in sessions /\ Len(channel[s]) < queueSize IN
    /\ messages' = messages \ {m}
    /\ channel' = IF taken THEN [channel EXCEPT ![s] = Append(@, m.number)] ELSE channel
    /\ accepted' = IF taken THEN accepted \cup {m} ELSE accepted
    /\ UNCHANGED <<settings, sessions, closed, stream, gone, delivered, straddling, counts>>

Progress(q) == Read(q) \/ Update(q) \/ SetSaveSysTopics(q) \/ SetEnabled(q) \/ CloseSessions(q)
Next ==
    \/ \E kind \in {"put", "patch"}, mcp, sys \in Fields : Request(kind, mcp, sys)
    \/ \E q \in requests : Progress(q)
    \/ \E seeded \in Fields : ResetRow(seeded) \/ \E flag \in BOOLEAN : Restart(seeded, flag)
    \/ ResetStore \/ ResetClose
    \/ \E s \in Streams : \/ Admit(s) \/ Register(s) \/ Deliver(s) \/ Returns(s) \/ removeSession(s)
                          \/ ClientLeaves(s) \/ HandleSessionDelete(s) \/ Message(s)
    \/ \E m \in messages : Answer(m)

(* Handlers run to their end. *)
Fairness ==
    /\ WF_vars(\E q \in requests : Progress(q)) /\ WF_vars(ResetStore) /\ WF_vars(ResetClose)
    /\ \A s \in Streams : WF_vars(Register(s)) /\ WF_vars(Deliver(s)) /\ WF_vars(Returns(s)) /\ WF_vars(removeSession(s))
    /\ WF_vars(\E m \in messages : Answer(m))
Spec == Init /\ [][Next]_vars /\ Fairness

-----------------------------------------------------------------------------
(* The shapes of settings and sessions; a session in the map has a stream  *)
(* that still reads or is about to take it out.                            *)
TypeOK ==
    /\ stored \in [mcp : BOOLEAN, sys : BOOLEAN] /\ enabled \in BOOLEAN /\ saveSysTopics \in BOOLEAN
    /\ reset \in {"idle", "store", "close"}
    /\ requests \subseteq [id : Nat, step : {"read", "update", "sys", "mcp", "close"}, put : BOOLEAN,
                            mcp : Fields, sys : Fields, blind : BOOLEAN, row : [mcp : BOOLEAN, sys : BOOLEAN]]
    /\ counts \in [{"requests", "messages", "resets", "restarts"} -> Nat]
    /\ stream \in [Streams -> {"new", "admitted", "open", "leaving", "ended"}]
    /\ sessions \subseteq {s \in Streams : stream[s] \in {"open", "leaving"}}
    /\ channel \in [Streams -> Seq(Nat)] /\ \A s \in Streams : Len(channel[s]) <= queueSize
    /\ messages \cup accepted \subseteq [stream : Streams, number : Nat]

Quiet == requests = {} /\ reset = "idle"
(* settings.go:67: with no request under way the copies are what the row   *)
(* says, unless two overlapped; the demo's reset leaves the registry's,    *)
(* and a patch that failed to read the row the MCP server's, which it has  *)
(* switched off in the row alone (settings.go:119).  The reverse, a server *)
(* that is off where the row says it is on, is never left behind.          *)
CopiesAgree ==
    Quiet /\ ~overlapped =>
        /\ enabled = stored.mcp \/ (unread /\ enabled)
        /\ saveSysTopics = stored.sys \/ dropped

(* mcp/server.go:82: nothing is ever sent on, and nobody closes again, a   *)
(* channel that was closed: it is not in the map any more.                 *)
NoSendOnClosed == sessions \cap closed = {}
(* mcp/server.go:77: once the MCP server is off and its sessions closed, a *)
(* session is left only of a client that had been let in and was not yet   *)
(* in the map when they were closed.                                       *)
OffMeansOff ==
    ~enabled /\ reset # "close" /\ (\A q \in requests : q.step # "close")
        => sessions \subseteq straddling
(* mcp/server.go:297: an answer that a session took is delivered or about  *)
(* to be, unless its client has left.                                      *)
AcceptedArrives ==
    \A m \in accepted : m.stream \in gone \/ m.number \in delivered
                        \/ (m.number \in ToSet(channel[m.stream]) /\ stream[m.stream] = "open")

(* Requests end, what was accepted arrives, and a closed session ends. *)
Rested ==
    /\ Quiet /\ messages = {}
    /\ \A s \in Streams : stream[s] = "open" => s \in sessions /\ channel[s] = <<>>
================================================================================
