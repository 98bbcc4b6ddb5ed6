---------------------------- MODULE BrokerSettings ----------------------------
(***************************************************************************)
(* The brokers tab of the settings (pages/ConfigPage.tsx): the list of     *)
(* brokers, which one is open, and the form its settings are edited in;    *)
(* with the server's handlers of brokers (handlers/config.go), as far as   *)
(* the rows go.                                                            *)
(*                                                                         *)
(* Calls are carried out and answered in any order, and may fail before    *)
(* or after they were carried out.  The texts of a broker are one value,   *)
(* its password and certificates another, which is never sent back.  Left  *)
(* out: statuses, the title's own editing, toasts.                         *)
(***************************************************************************)
EXTENDS Lists

CONSTANTS Ids,        \* ids of brokers, in the order they are given out
          Initial,    \* the brokers there are at first
          Texts,      \* what may be typed
          Requested,  \* brokers a link may open the page for
          MaxCalls, MaxActs

NoId == "noid"
None == ""
Bare == [text |-> None, port |-> "1883", enabled |-> TRUE, tls |-> FALSE, auth |-> "none", secret |-> None]
New(id) == [text |-> "new", port |-> "1883", enabled |-> FALSE, tls |-> FALSE, auth |-> "none", secret |-> None,
            id |-> id]

VARIABLES rows,         \* the server's, by sort_order
          created,      \* how many ids were given out
          requested, tab,
          brokers, selectedId, form, saving,
          reading,      \* <<the broker a file is being read for>>
          calls,
          typed,        \* pairs: a broker, what was typed while it was open
          crossed,      \* an answer or a file came for a broker that was left
          overlapped,   \* two calls were under way at once
          astray,       \* a call was carried out and its answer lost
          acts
server == <<rows, created>>
page == <<requested, tab, brokers, selectedId, form, saving, reading>>
ghosts == <<typed, crossed, overlapped, astray>>
vars == <<server, page, calls, ghosts, acts>>

(* What the settings and the page are given: ids that differ, and brokers  *)
(* to begin with that have the first of them; certificates are used under  *)
(* TLS alone.                                                              *)
BrokersFit ==
    /\ Ids \in Seq(ToSet(Ids)) /\ NoId \notin ToSet(Ids)
    /\ \A i, j \in DOMAIN Ids : Ids[i] = Ids[j] => i = j
    /\ Initial \in Seq(ToSet(Initial)) /\ Len(Initial) <= Len(Ids)
    /\ \A i \in DOMAIN Initial : LET row == Initial[i] IN
          /\ row \in [id : {Ids[i]}, text : {row.text}, port : {row.port}, enabled : BOOLEAN, tls : BOOLEAN,
                      auth : {"none", "password", "certificate"}, secret : {row.secret}]
          /\ row.auth = "certificate" => row.tls
    /\ Requested \subseteq ToSet(Ids) \union {NoId}
    /\ MaxCalls \in Nat /\ MaxActs \in Nat

-----------------------------------------------------------------------------
Has(list, id) == \E i \in DOMAIN list : list[i].id = id
Row(list, id) == list[CHOOSE i \in DOMAIN list : list[i].id = id]
Replace(list, row) == [i \in DOMAIN list |-> IF list[i].id = row.id THEN row ELSE list[i]]
Without(list, id) == Kept(list, {r \in ToSet(list) : r.id # id})
Enabled(list) == Kept(list, {r \in ToSet(list) : r.enabled})
First(list) == IF Enabled(list) # <<>> THEN Head(Enabled(list)) ELSE Head(list)
toForm(row) == [text |-> row.text, port |-> row.port, enabled |-> row.enabled, tls |-> row.tls, auth |-> row.auth,
                secret |-> None]
Public(row) == [row EXCEPT !.secret = None]
Sent(list) == [i \in DOMAIN list |-> Public(list[i])]

activeTab == IF requested # NoId \/ tab = "brokers" THEN "brokers" ELSE "general"
canShowForm == activeTab = "brokers" /\ Has(brokers, selectedId)

Call(kind, id) == [kind |-> kind, id |-> id, form |-> Bare, list |-> <<>>, stage |-> "sent",
                   found |-> <<>>, open |-> selectedId, cancelled |-> FALSE]
Send(c) ==
    /\ Len(calls) < MaxCalls /\ calls' = Append(calls, c)
    /\ overlapped' = (overlapped \/ calls # <<>>)
Act == acts < MaxActs /\ acts' = acts + 1

Init ==
    /\ rows = Initial /\ created = Len(Initial)
    /\ requested \in Requested /\ tab \in {"brokers", None}
    /\ brokers = <<>> /\ selectedId = NoId /\ form = Bare /\ saving = FALSE /\ reading = <<>>
    /\ calls = <<Call("load", requested)>>
    /\ typed = {} /\ crossed = FALSE /\ overlapped = FALSE /\ astray = FALSE /\ acts = 0

-----------------------------------------------------------------------------
(* The server.  An update keeps what the request does not hold, and the    *)
(* secrets if it holds none.                                               *)
UpdateBroker(c) ==
    LET old == Row(rows, c.id)
        row == IF c.kind = "toggle" THEN [old EXCEPT !.enabled = c.form.enabled]
               ELSE [text |-> c.form.text, port |-> c.form.port, enabled |-> c.form.enabled, tls |-> c.form.tls,
                     auth |-> c.form.auth, secret |-> IF c.form.secret = None THEN old.secret ELSE c.form.secret,
                     id |-> old.id]
    IN rows' = Replace(rows, row)
(* A broker that is twice in the list goes to its last place there.        *)
Places(list) ==
    Kept([i \in DOMAIN list |-> i],
         {i \in DOMAIN list : Has(rows, list[i].id) /\ \A j \in DOMAIN list : j > i => list[j].id # list[i].id})
ReorderBrokers(list) ==
    rows' = [k \in DOMAIN Places(list) |-> Row(rows, list[Places(list)[k]].id)]
              \o Kept(rows, {r \in ToSet(rows) : ~Has(list, r.id)})
Gone(c) == c.kind \in {"toggle", "save", "delete"} /\ ~Has(rows, c.id)
Serve(i) ==
    LET c == calls[i] IN
    /\ c.stage = "sent"
    /\ IF Gone(c) THEN UNCHANGED rows ELSE
       CASE c.kind \in {"load", "reload"} -> UNCHANGED rows
         [] c.kind = "create" -> rows' = Append(rows, New(c.id))
         [] c.kind \in {"toggle", "save"} -> UpdateBroker(c)
         [] c.kind = "delete" -> rows' = Without(rows, c.id)
         [] c.kind = "reorder" -> ReorderBrokers(c.list)
    /\ calls' = [calls EXCEPT ![i].stage = IF Gone(c) THEN "refused" ELSE "served",
                              ![i].found = IF Gone(c) \/ c.kind \in {"delete", "reorder"} THEN <<>>
                                           ELSE IF c.kind \in {"load", "reload"} THEN Sent(rows)
                                           ELSE <<Public(Row(rows', c.id))>>]
    /\ UNCHANGED <<created, page, ghosts, acts>>

-----------------------------------------------------------------------------
(* The answers.  The handlers go on with what they knew when they asked.   *)
Show(id, f) == selectedId' = id /\ form' = f
OnLoad(c) ==
    IF c.cancelled THEN UNCHANGED <<brokers, selectedId, form>>
    ELSE /\ brokers' = c.found
         /\ IF c.kind = "reload" THEN UNCHANGED <<selectedId, form>>
            ELSE IF c.found = <<>> THEN selectedId' = NoId /\ UNCHANGED form
            ELSE LET preferred == IF Has(c.found, c.id) THEN Row(c.found, c.id) ELSE First(c.found)
                 IN Show(preferred.id, toForm(preferred))
OnCreated(c) ==
    brokers' = Append(brokers, c.found[1]) /\ Show(c.found[1].id, toForm(c.found[1]))
OnToggled(c) ==
    /\ brokers' = Replace(brokers, c.found[1])
    /\ form' = IF c.open = c.id THEN [form EXCEPT !.enabled = c.found[1].enabled] ELSE form
    /\ UNCHANGED selectedId
OnSaved(c) ==
    brokers' = Replace(brokers, c.found[1]) /\ form' = toForm(c.found[1]) /\ UNCHANGED selectedId
OnDeleted(c) ==
    LET remaining == Without(c.list, c.id) IN
    /\ brokers' = remaining
    /\ IF remaining = <<>> THEN selectedId' = NoId /\ UNCHANGED form
       ELSE Show(First(remaining).id, toForm(First(remaining)))

(* The answer is for a broker that is no longer open. *)
Left(c) == c.kind \in {"save", "toggle"} /\ c.id # selectedId /\ form' # form
Answered(i) ==
    LET c == calls[i] IN
    /\ c.stage = "served" /\ calls' = RemoveAt(calls, i)
    /\ CASE c.kind \in {"load", "reload"} -> OnLoad(c) [] c.kind = "create" -> OnCreated(c)
         [] c.kind = "toggle" -> OnToggled(c) [] c.kind = "save" -> OnSaved(c)
         [] c.kind = "delete" -> OnDeleted(c) [] c.kind = "reorder" -> UNCHANGED <<brokers, selectedId, form>>
    /\ saving' = (saving /\ c.kind # "save")
    /\ crossed' = (crossed \/ Left(c))
    /\ UNCHANGED <<server, requested, tab, reading, typed, overlapped, astray, acts>>

(* A call fails, carried out or not: the page only says so, but for a new  *)
(* order of the list, after which the list is loaded again.                *)
Retry(c) == IF c.kind = "reorder" THEN <<Call("reload", NoId)>> ELSE <<>>
StillSaving(c) == saving /\ c.kind # "save"
Failed(i) ==
    LET c == calls[i] IN
    /\ IF c.stage = "refused" THEN UNCHANGED acts ELSE Act
    /\ calls' = RemoveAt(calls, i) \o Retry(c)
    /\ astray' = (astray \/ c.kind \in {"load", "reload"} \/ (c.stage = "served" /\ c.kind # "reorder"))
    /\ saving' = StillSaving(c)
    /\ UNCHANGED <<server, requested, tab, brokers, selectedId, form, reading, typed, crossed, overlapped>>

-----------------------------------------------------------------------------
(* The user. *)
Refetch(id) ==
    calls' = Append([i \in DOMAIN calls |-> [calls[i] EXCEPT !.cancelled = (@ \/ calls[i].kind = "load")]],
                    Call("load", id))
Visit(id, t) ==
    /\ Act /\ <<requested, tab>> # <<id, t>> /\ requested' = id /\ tab' = t
    /\ IF id = requested THEN UNCHANGED <<calls, overlapped>>
       ELSE Len(calls) < MaxCalls /\ Refetch(id) /\ overlapped' = (overlapped \/ calls # <<>>)
    /\ UNCHANGED <<server, brokers, selectedId, form, saving, reading, typed, crossed, astray>>
handleTabChange(t) == Visit(IF t = "brokers" THEN requested ELSE NoId, IF t = "brokers" THEN t ELSE None)
FollowLink(id) == Visit(id, tab)

Ask(c) ==
    /\ Act /\ activeTab = "brokers" /\ Send(c)
    /\ UNCHANGED <<rows, requested, tab, selectedId, form, reading, typed, crossed, astray>>
(* The id is the server's; it is drawn here, for every call another.       *)
handleAddNew ==
    /\ created < Len(Ids) /\ created' = created + 1
    /\ Ask(Call("create", Ids[created + 1])) /\ UNCHANGED <<brokers, saving>>
handleToggle(row) ==
    /\ Ask([Call("toggle", row.id) EXCEPT !.form = [Bare EXCEPT !.enabled = ~row.enabled]])
    /\ UNCHANGED <<created, brokers, saving>>
handleSave ==
    /\ canShowForm /\ ~saving /\ saving' = TRUE
    /\ Ask([Call("save", selectedId) EXCEPT !.form = form]) /\ UNCHANGED <<created, brokers>>
handleDelete ==
    canShowForm /\ Ask([Call("delete", selectedId) EXCEPT !.list = brokers]) /\ UNCHANGED <<created, brokers, saving>>
arrayMove(list, from, to) == InsertAt(RemoveAt(list, from), to, list[from])
handleDragEnd(from, to) ==
    /\ {from, to} \subseteq DOMAIN brokers /\ brokers[from].id # brokers[to].id
    /\ brokers' = arrayMove(brokers, from, to)
    /\ Ask([Call("reorder", NoId) EXCEPT !.list = brokers']) /\ UNCHANGED <<created, saving>>

Local == UNCHANGED <<server, requested, tab, brokers, saving, calls, overlapped, astray>>
handleSelect(row) ==
    /\ Act /\ activeTab = "brokers" /\ row.id # selectedId /\ Show(row.id, toForm(row))
    /\ Local /\ UNCHANGED <<reading, typed, crossed>>
Edit(f) == Act /\ canShowForm /\ form' = f /\ Local /\ UNCHANGED <<selectedId, reading, crossed>>
Type(v) == Edit([form EXCEPT !.text = v]) /\ typed' = typed \union {<<selectedId, v>>}
TypeSecret(v) ==
    /\ form.tls \/ form.auth = "password"
    /\ Edit([form EXCEPT !.secret = v])
    /\ typed' = typed \union {<<selectedId, v>>}
ToggleEnabled == Edit([form EXCEPT !.enabled = ~@]) /\ UNCHANGED typed
(* Without TLS there are no client certificates; the usual port goes along. *)
AuthFor(on, m) == IF ~on /\ m = "certificate" THEN "none" ELSE m
ToggleTls ==
    LET on == ~form.tls IN
    /\ Edit([form EXCEPT !.tls = on,
                         !.auth = AuthFor(on, @),
                         !.port = IF on /\ @ = "1883" THEN "8883" ELSE IF ~on /\ @ = "8883" THEN "1883" ELSE @])
    /\ UNCHANGED typed
ChooseAuth(m) ==
    (m = "certificate" => form.tls) /\ m # form.auth /\ Edit([form EXCEPT !.auth = m]) /\ UNCHANGED typed
(* A file is read for a certificate, and put into the form there is then. *)
ReadFile(v) ==
    /\ Act /\ canShowForm /\ form.tls /\ reading = <<>> /\ reading' = <<selectedId, v>>
    /\ typed' = typed \union {<<selectedId, v>>}
    /\ Local /\ UNCHANGED <<selectedId, form, crossed>>
FileRead ==
    /\ reading # <<>> /\ reading' = <<>>
    /\ form' = [form EXCEPT !.secret = reading[2]]
    /\ crossed' = (crossed \/ reading[1] # selectedId)
    /\ Local /\ UNCHANGED <<selectedId, typed, acts>>

Next ==
    \/ \E i \in DOMAIN calls : Serve(i) \/ Answered(i) \/ Failed(i)
    \/ \E t \in {"brokers", "general"} : handleTabChange(t)
    \/ \E id \in Requested : FollowLink(id)
    \/ handleAddNew \/ handleSave \/ handleDelete
    \/ \E i \in DOMAIN brokers : handleToggle(brokers[i]) \/ handleSelect(brokers[i])
    \/ \E i, j \in DOMAIN brokers : handleDragEnd(i, j)
    \/ \E v \in Texts : Type(v) \/ TypeSecret(v) \/ ReadFile(v)
    \/ ToggleEnabled \/ ToggleTls \/ FileRead
    \/ \E m \in {"none", "password", "certificate"} : ChooseAuth(m)

Answering == \E i \in DOMAIN calls : Serve(i) \/ Answered(i) \/ (calls[i].stage = "refused" /\ Failed(i))
Spec == Init /\ [][Next]_vars /\ WF_vars(Answering)

-----------------------------------------------------------------------------
(* The shapes; a certificate is only asked for under TLS. *)
TypeOK ==
    /\ Len(calls) <= MaxCalls + 1 /\ created <= Len(Ids)
    /\ selectedId \in {NoId} \union ToSet(Ids)
    /\ form.auth = "certificate" => form.tls
    /\ \A i \in DOMAIN rows : rows[i].auth = "certificate" => rows[i].tls

(* What the server holds of a broker was there at first or was entered     *)
(* while that broker was open, unless an answer or a file has come to the  *)
(* form of another one.                                                    *)
Original(id) == IF Has(Initial, id) THEN Row(Initial, id) ELSE New(id)
OwnSettings ==
    ~crossed => \A i \in DOMAIN rows : LET r == rows[i] IN
        /\ r.text = Original(r.id).text \/ <<r.id, r.text>> \in typed
        /\ r.secret = Original(r.id).secret \/ <<r.id, r.secret>> \in typed

(* When no call is under way, and none was lost or crossed another, the    *)
(* page lists the server's brokers in the server's order, and so shows the *)
(* same default.                                                           *)
ListInStep == (calls = <<>> /\ ~overlapped /\ ~astray) => brokers = Sent(rows)

(* The open broker is one of the list, if no call was lost or overtaken. *)
OpenListed == (~overlapped /\ ~astray /\ selectedId # NoId) => Has(brokers, selectedId)

=============================================================================
