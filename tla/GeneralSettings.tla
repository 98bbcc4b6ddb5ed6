---------------------------- MODULE GeneralSettings ----------------------------
(***************************************************************************)
(* The general tab of the settings (pages/ConfigPage.tsx): how long the    *)
(* history is kept, whether "$SYS" topics are part of it, the history's    *)
(* size and its clearing, and the switch of the MCP server; with the       *)
(* handlers of the settings (handlers/settings.go).                        *)
(*                                                                         *)
(* Calls are carried out and answered in any order, and may fail before or *)
(* after they were carried out.  The history is empty or not.  Left out:   *)
(* toasts, and what the copied texts say.                                  *)
(***************************************************************************)
EXTENDS Lists

CONSTANTS Stored,     \* hours the server may hold at first
          Values,     \* numbers that may be typed
          MaxActs

SettingsFit == Stored \subseteq Nat /\ Values \subseteq Nat

Day == 24
NoKey == "nokey"
CopyKeys == {"prompt", "http"}

VARIABLES settings,          \* the server's: hours, sys, mcp
          history,           \* TRUE: the server has messages stored
          retentionValue, retentionUnit, showSysTopics, retentionSaving,
          historySize,       \* "unknown", "some" or "none"
          showClearConfirm, clearingHistory,
          mcpEnabled, mcpSaving,
          copiedMcpKey, copyTimers,
          calls,
          loaded,            \* the settings have come
          unsaved,           \* something was edited since they came or were saved
          early,             \* settings were saved before they had come
          astray,            \* a call was lost, or a patch wrote defaults
          acts
server == <<settings, history>>
retention == <<retentionValue, retentionUnit, showSysTopics, retentionSaving>>
storage == <<historySize, showClearConfirm, clearingHistory>>
mcp == <<mcpEnabled, mcpSaving>>
copying == <<copiedMcpKey, copyTimers>>
ghosts == <<loaded, unsaved, early, astray>>
vars == <<server, retention, storage, mcp, copying, calls, ghosts, acts>>

Call(kind) == [kind |-> kind, stage |-> "sent", values |-> [hours |-> 0, sys |-> FALSE, mcp |-> FALSE], found |-> FALSE]
Hours(value, unit) == IF unit = "days" THEN value * Day ELSE value
(* Whole days are shown as days. *)
Value(hours) == IF hours % Day = 0 THEN hours \div Day ELSE hours
Unit(hours) == IF hours % Day = 0 THEN "days" ELSE "hours"
Saved(kind) == kind = "retention"
Act == acts < MaxActs /\ acts' = acts + 1

Init ==
    /\ settings \in [hours : Stored, sys : BOOLEAN, mcp : BOOLEAN] /\ history \in BOOLEAN
    /\ retentionValue = Day /\ retentionUnit = "hours" /\ showSysTopics = FALSE /\ retentionSaving = FALSE
    /\ historySize = "unknown" /\ showClearConfirm = FALSE /\ clearingHistory = FALSE
    /\ mcpEnabled = FALSE /\ mcpSaving = FALSE
    /\ copiedMcpKey = NoKey /\ copyTimers = <<>>
    /\ calls = <<Call("settings"), Call("size")>>
    /\ loaded = FALSE /\ unsaved = FALSE /\ early = FALSE /\ astray = FALSE /\ acts = 0

-----------------------------------------------------------------------------
(* The server.  A PUT replaces all settings: what the request leaves out,  *)
(* the MCP server's switch, is switched off.  A PATCH keeps the rest, or   *)
(* writes defaults for it when it cannot read the row.                     *)
UpdateSettings(v) == settings' = [hours |-> v.hours, sys |-> v.sys, mcp |-> v.mcp]
Refused(v) == v.hours < Day
PatchSettings(on) ==
    \/ settings' = [settings EXCEPT !.mcp = on] /\ UNCHANGED astray
    \/ settings' = [hours |-> Day, sys |-> FALSE, mcp |-> on] /\ astray' = TRUE
Serve(i) ==
    LET c == calls[i] IN
    /\ c.stage = "sent"
    /\ IF c.kind = "retention" /\ ~Refused(c.values) THEN UpdateSettings(c.values) /\ UNCHANGED astray
       ELSE IF c.kind = "mcp" THEN PatchSettings(c.values.mcp) ELSE UNCHANGED <<settings, astray>>
    /\ history' = (history /\ c.kind # "clear")
    /\ calls' = [calls EXCEPT ![i].stage = IF Saved(c.kind) /\ Refused(c.values) THEN "refused" ELSE "served",
                              ![i].values = IF c.kind = "settings" THEN settings ELSE @,
                              ![i].found = history]
    /\ UNCHANGED <<retention, storage, mcp, copying, loaded, unsaved, early, acts>>
MessageStored == history = FALSE /\ Act /\ history' = TRUE /\ UNCHANGED <<settings, retention, storage, mcp, copying, calls, ghosts>>

(* The answers. *)
OnSettings(v) ==
    /\ retentionValue' = Value(v.hours) /\ retentionUnit' = Unit(v.hours)
    /\ showSysTopics' = v.sys /\ mcpEnabled' = v.mcp
    /\ loaded' = TRUE /\ unsaved' = FALSE
    /\ UNCHANGED <<retentionSaving, storage, mcpSaving>>
OnSize(found) ==
    /\ historySize' = IF found THEN "some" ELSE "none"
    /\ UNCHANGED <<retention, showClearConfirm, clearingHistory, mcp, loaded, unsaved>>
OnCleared ==
    /\ historySize' = "none" /\ showClearConfirm' = FALSE /\ clearingHistory' = FALSE
    /\ UNCHANGED <<retention, mcp, loaded, unsaved>>
OnRetention ==
    /\ retentionSaving' = FALSE
    /\ UNCHANGED <<retentionValue, retentionUnit, showSysTopics, storage, mcp, loaded, unsaved>>
OnMcp(on) == mcpEnabled' = on /\ mcpSaving' = FALSE /\ UNCHANGED <<retention, storage, loaded, unsaved>>
Answered(i) ==
    LET c == calls[i] IN
    /\ c.stage = "served" /\ calls' = RemoveAt(calls, i)
    /\ CASE c.kind = "settings" -> OnSettings(c.values) [] c.kind = "size" -> OnSize(c.found)
         [] c.kind = "clear" -> OnCleared [] c.kind = "retention" -> OnRetention
         [] c.kind = "mcp" -> OnMcp(c.values.mcp)
    /\ UNCHANGED <<server, copying, early, astray, acts>>
StillClearing(k) == clearingHistory /\ k # "clear"
(* finally: whatever fails, its button comes back. *)
Failed(i) ==
    LET k == calls[i].kind IN
    /\ calls' = RemoveAt(calls, i) /\ astray' = TRUE
    /\ retentionSaving' = (retentionSaving /\ ~Saved(k))
    /\ clearingHistory' = StillClearing(k)
    /\ mcpSaving' = (mcpSaving /\ k # "mcp")
    /\ UNCHANGED <<server, retentionValue, retentionUnit, showSysTopics, historySize, showClearConfirm, mcpEnabled,
                   copying, loaded, unsaved, early, acts>>

-----------------------------------------------------------------------------
(* The user. *)
Edit == Act /\ unsaved' = TRUE /\ UNCHANGED <<server, retentionSaving, storage, mcp, copying, calls, loaded, early, astray>>
TypeValue(n) == retentionValue' = n /\ Edit /\ UNCHANGED <<retentionUnit, showSysTopics>>
ChooseUnit(u) == retentionUnit' = u /\ u # retentionUnit /\ Edit /\ UNCHANGED <<retentionValue, showSysTopics>>
ToggleSys == showSysTopics' = ~showSysTopics /\ Edit /\ UNCHANGED <<retentionValue, retentionUnit>>
TooShort == Hours(retentionValue, retentionUnit) < Day
SaveOffered == ~retentionSaving /\ ~TooShort
handleSaveRetention ==
    /\ Act /\ SaveOffered
    /\ retentionSaving' = TRUE /\ unsaved' = FALSE /\ early' = (early \/ ~loaded)
    /\ calls' = Append(calls, [Call("retention") EXCEPT
                    !.values = [hours |-> Hours(retentionValue, retentionUnit), sys |-> showSysTopics, mcp |-> FALSE]])
    /\ UNCHANGED <<server, retentionValue, retentionUnit, showSysTopics, storage, mcp, copying, loaded, astray>>
handleToggleMCP ==
    /\ Act /\ ~mcpSaving /\ mcpSaving' = TRUE
    /\ early' = (early \/ ~loaded)
    /\ calls' = Append(calls, [Call("mcp") EXCEPT !.values.mcp = ~mcpEnabled])
    /\ UNCHANGED <<server, retention, storage, mcpEnabled, copying, loaded, unsaved, astray>>

ClearOffered == ~clearingHistory /\ historySize # "none"
Confirm(shown) ==
    /\ Act /\ shown # showClearConfirm /\ (shown => ClearOffered) /\ showClearConfirm' = shown
    /\ UNCHANGED <<server, retention, historySize, clearingHistory, mcp, copying, calls, ghosts>>
handleClearHistory ==
    /\ Act /\ showClearConfirm /\ ~clearingHistory /\ clearingHistory' = TRUE
    /\ calls' = Append(calls, Call("clear"))
    /\ UNCHANGED <<server, retention, historySize, showClearConfirm, mcp, copying, ghosts>>

(* What was copied is marked for two seconds; only the prompt's button     *)
(* needs the server to be on.                                              *)
handleCopyMcpText(key) ==
    /\ Act /\ (key = "prompt" => mcpEnabled)
    /\ copiedMcpKey' = key /\ copyTimers' = Append(copyTimers, key)
    /\ UNCHANGED <<server, retention, storage, mcp, calls, ghosts>>
Unmark(key) == IF copiedMcpKey = key THEN NoKey ELSE copiedMcpKey
CopyTimer ==
    /\ copyTimers # <<>> /\ copyTimers' = Tail(copyTimers)
    /\ copiedMcpKey' = Unmark(Head(copyTimers))
    /\ UNCHANGED <<server, retention, storage, mcp, calls, ghosts, acts>>

Next ==
    \/ \E i \in DOMAIN calls : Serve(i) \/ Answered(i) \/ Failed(i)
    \/ MessageStored
    \/ \E n \in Values : TypeValue(n)
    \/ \E u \in {"hours", "days"} : ChooseUnit(u)
    \/ ToggleSys \/ handleSaveRetention \/ handleToggleMCP
    \/ \E b \in BOOLEAN : Confirm(b)
    \/ handleClearHistory
    \/ \E k \in CopyKeys : handleCopyMcpText(k)
    \/ CopyTimer

Answering == \E i \in DOMAIN calls : Serve(i) \/ Answered(i)
Spec == Init /\ [][Next]_vars /\ WF_vars(Answering) /\ WF_vars(CopyTimer)

-----------------------------------------------------------------------------
(* The shapes of the page's state; a button that waits has its call under  *)
(* way, and only one.                                                      *)
TypeOK ==
    /\ settings.hours \in Nat /\ settings.sys \in BOOLEAN /\ settings.mcp \in BOOLEAN
    /\ retentionValue \in Nat /\ retentionUnit \in {"hours", "days"}
    /\ historySize \in {"unknown", "some", "none"} /\ copiedMcpKey \in CopyKeys \union {NoKey}
    /\ retentionSaving = (\E i \in DOMAIN calls : calls[i].kind = "retention")
    /\ mcpSaving = (\E i \in DOMAIN calls : calls[i].kind = "mcp")

(* At rest, with nothing edited since, the tab shows the retention and the *)
(* "$SYS" switch the server holds; nothing was saved too early.            *)
RetentionShown ==
    (calls = <<>> /\ loaded /\ ~unsaved /\ ~early /\ ~astray) =>
        /\ Hours(retentionValue, retentionUnit) = settings.hours
        /\ showSysTopics = settings.sys

(* The server refuses nothing the tab lets the user save. *)
SavesAccepted == \A i \in DOMAIN calls : calls[i].stage # "refused"

(* A button that waits for its call comes back, and the mark of a copied   *)
(* text goes out.                                                          *)
ButtonsFree == ~retentionSaving /\ ~mcpSaving /\ ~clearingHistory /\ copiedMcpKey = NoKey
=============================================================================
