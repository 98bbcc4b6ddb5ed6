------------------------------- MODULE PanelCard -------------------------------
(***************************************************************************)
(* The frame of a panel on the dashboard (components/PanelWrapper.tsx):    *)
(* its title, its settings window, the pin of its header, copying, moving  *)
(* and deleting it.  Each of these sends a request built from the panel as *)
(* it was when the user acted, and shows what the answer holds.            *)
(*                                                                         *)
(* A title or a configuration is a number.  A configuration travels whole, *)
(* with the pin as one of its keys.  Left out: sizes, the second request   *)
(* with which a logic or cron panel registers its configuration, which     *)
(* PanelAutomations has, and the popovers, which PanelPopovers has.        *)
(***************************************************************************)
EXTENDS Lists

CONSTANTS Titles, Configs, Brokers,
          Turned,         \* a configuration with the panel's own switch on or off
          Dashboards,     \* the others
          MaxCalls, MaxActs

CardFits == /\ Titles # {} /\ MaxCalls \in Nat
            /\ Turned \in [Configs -> [BOOLEAN -> Configs]]

Nobody == "none"
NoPick == 0
NoPin == "none"

VARIABLES server,          \* the panel's row
          panel,           \* the dashboard's copy
          mounted,
          title, editingTitle,
          showConfig, capturedPicker,
          openConfigTimeout,
          pickerReturn,    \* what the dashboard hands over from the explorer
          openConfigPanels,\* the dashboard's note that the window is open
          optimisticPinned,
          copyModalOpen, actionBusy,
          calls,           \* requests in flight
          meddled,         \* two changes of the row were in flight at once
          failed,          \* a request failed, after the row was changed or before
          acts
window == <<showConfig, capturedPicker, openConfigTimeout, pickerReturn, openConfigPanels>>
copying == <<copyModalOpen, actionBusy>>
ghosts == <<meddled, failed>>
vars == <<server, panel, mounted, title, editingTitle, window, optimisticPinned, copying, calls,
          ghosts, acts>>

Act == acts < MaxActs /\ acts' = acts + 1
Changes == {"title", "save", "pin", "own"}
InFlight(kinds) == \E i \in DOMAIN calls : calls[i].kind \in kinds
(* Answer: <<>> before the server has it, <<row>> after. *)
Request(kind, body) ==
    /\ Len(calls) < MaxCalls
    /\ calls' = Append(calls, [kind |-> kind, body |-> body, answer |-> <<>>])
Change(kind, body) ==
    /\ Request(kind, body)
    /\ meddled' = (meddled \/ InFlight(Changes)) /\ UNCHANGED failed

isPinned == IF optimisticPinned = NoPin THEN panel.pinned ELSE optimisticPinned = "yes"
Pinned(b) == IF b THEN "yes" ELSE "no"

-----------------------------------------------------------------------------
Row(t, c, p, b) == [title |-> t, config |-> c, pinned |-> p, broker |-> b]
Init ==
    /\ \E c \in Configs, p \in BOOLEAN, b \in Brokers :
         server = Row(CHOOSE t \in Titles : TRUE, c, p, b)
    /\ panel = server /\ title = server.title /\ mounted = TRUE
    /\ editingTitle = FALSE /\ showConfig = FALSE /\ capturedPicker = NoPick
    /\ openConfigTimeout = FALSE /\ openConfigPanels = FALSE
    /\ pickerReturn \in {NoPick, server.config}
    /\ optimisticPinned = NoPin /\ copyModalOpen = FALSE /\ actionBusy = FALSE
    /\ calls = <<>> /\ meddled = FALSE /\ failed = FALSE /\ acts = 0

(* saveTitle: the title stays as typed, whatever becomes of the request. *)
EditTitle ==
    /\ mounted /\ ~editingTitle /\ editingTitle' = TRUE /\ Act
    /\ UNCHANGED <<server, panel, mounted, title, window, optimisticPinned, copying, calls, ghosts>>
saveTitle(t) ==
    /\ mounted /\ editingTitle /\ editingTitle' = FALSE /\ title' = t
    /\ IF t = panel.title THEN UNCHANGED <<calls, ghosts>> ELSE Change("title", [title |-> t])
    /\ UNCHANGED <<server, panel, mounted, window, optimisticPinned, copying, acts>>

-----------------------------------------------------------------------------
(* handleOpenConfig: at once, or after the panel has scrolled into view;   *)
(* the effect tells the dashboard.                                         *)
Show == showConfig' = TRUE /\ openConfigPanels' = TRUE /\ openConfigTimeout' = FALSE
OpenOrScroll ==
    \/ Show
    \/ openConfigTimeout' = TRUE /\ UNCHANGED <<showConfig, openConfigPanels>>
handleOpenConfig ==
    /\ mounted /\ ~showConfig /\ Act /\ OpenOrScroll
    /\ UNCHANGED <<server, panel, mounted, title, editingTitle, capturedPicker, pickerReturn,
                   optimisticPinned, copying, calls, ghosts>>
Scrolled ==
    /\ mounted /\ openConfigTimeout /\ Show
    /\ UNCHANGED <<server, panel, mounted, title, editingTitle, capturedPicker, pickerReturn,
                   optimisticPinned, copying, calls, ghosts, acts>>
(* The window opens on what was picked, which the dashboard then forgets. *)
TakePick ==
    /\ mounted /\ pickerReturn # NoPick /\ capturedPicker' = pickerReturn /\ pickerReturn' = NoPick
    /\ OpenOrScroll
    /\ UNCHANGED <<server, panel, mounted, title, editingTitle, optimisticPinned, copying, calls,
                   ghosts, acts>>
closeConfigModal_PickKept ==
    showConfig' = FALSE /\ openConfigPanels' = FALSE /\ UNCHANGED <<capturedPicker, openConfigTimeout, pickerReturn>>
closeConfigModal ==
    /\ showConfig' = FALSE /\ openConfigPanels' = FALSE /\ capturedPicker' = NoPick
    /\ UNCHANGED <<openConfigTimeout, pickerReturn>>
CloseConfig ==
    /\ mounted /\ showConfig /\ closeConfigModal
    /\ UNCHANGED <<server, panel, mounted, title, editingTitle, optimisticPinned, copying, calls,
                   ghosts, acts>>
(* The pin of the panel as it is shown now goes along. *)
NextConfig_NoPin(c, b) == [config |-> c, pinned |-> FALSE, broker |-> b]
NextConfig(c, b) == [config |-> c, pinned |-> panel.pinned, broker |-> b]
saveConfig(c, b) ==
    /\ mounted /\ showConfig /\ closeConfigModal
    /\ Change("save", NextConfig(c, b))
    /\ UNCHANGED <<server, panel, mounted, title, editingTitle, optimisticPinned, copying, acts>>
(* The window goes, and the page with it. *)
Unmount ==
    /\ mounted' = FALSE /\ showConfig' = FALSE /\ openConfigPanels' = FALSE
    /\ openConfigTimeout' = FALSE /\ editingTitle' = FALSE
handlePickTopic ==
    /\ mounted /\ showConfig /\ Unmount
    /\ UNCHANGED <<server, panel, title, capturedPicker, pickerReturn, optimisticPinned, copying,
                   calls, ghosts, acts>>

(* updateMetaPinned: shown at once; the configuration of the panel as it   *)
(* is shown goes along.                                                    *)
updateMetaPinned ==
    /\ mounted /\ Act
    /\ optimisticPinned' = Pinned(~isPinned)
    /\ Change("pin", [config |-> panel.config, pinned |-> ~isPinned, was |-> panel.pinned])
    /\ UNCHANGED <<server, panel, mounted, title, editingTitle, window, copying>>
(* handleToggle: a logic or cron panel's own switch, which waits for its   *)
(* answer; its handler keeps the panel as it was at the click.             *)
handleToggle(on) ==
    /\ mounted /\ ~InFlight({"own"}) /\ Turned[panel.config][on] # panel.config /\ Act
    /\ Change("own", [panel |-> panel, on |-> on])
    /\ UNCHANGED <<server, panel, mounted, title, editingTitle, window, optimisticPinned, copying>>

-----------------------------------------------------------------------------
(* Copy, move and delete. *)
OpenCopy ==
    /\ mounted /\ ~copyModalOpen /\ copyModalOpen' = TRUE
    /\ UNCHANGED <<server, panel, mounted, title, editingTitle, window, optimisticPinned, actionBusy,
                   calls, ghosts, acts>>
CopyClosable == copyModalOpen /\ ~actionBusy
CloseCopy ==
    /\ mounted /\ CopyClosable /\ copyModalOpen' = FALSE
    /\ UNCHANGED <<server, panel, mounted, title, editingTitle, window, optimisticPinned, actionBusy,
                   calls, ghosts, acts>>
Targets(kind) == IF kind = "duplicate" THEN {Nobody} ELSE Dashboards
CopyOffered == copyModalOpen /\ ~actionBusy
Copy(kind, d) ==
    /\ mounted /\ CopyOffered /\ d \in Targets(kind)
    /\ actionBusy' = TRUE /\ Request(kind, d) /\ Act
    /\ UNCHANGED <<server, panel, mounted, title, editingTitle, window, optimisticPinned,
                   copyModalOpen, ghosts>>
handleDelete ==
    /\ mounted /\ Act /\ Request("delete", Nobody)
    /\ UNCHANGED <<server, panel, mounted, title, editingTitle, window, optimisticPinned, copying, ghosts>>

-----------------------------------------------------------------------------
(* The server merges the keys of a request into the row. *)
Merged(row, call) ==
    CASE call.kind = "title" -> [row EXCEPT !.title = call.body.title]
      [] call.kind = "save" ->
           [row EXCEPT !.config = call.body.config, !.pinned = call.body.pinned, !.broker = call.body.broker]
      [] call.kind = "pin" -> [row EXCEPT !.config = call.body.config, !.pinned = call.body.pinned]
      [] call.kind = "own" -> [row EXCEPT !.config = Turned[@][call.body.on]]
      [] OTHER -> row
Serve(i) ==
    /\ calls[i].answer = <<>>
    /\ server' = Merged(server, calls[i])
    /\ calls' = [calls EXCEPT ![i].answer = <<server'>>]
    /\ UNCHANGED <<panel, mounted, title, editingTitle, window, optimisticPinned, copyModalOpen,
                   actionBusy, ghosts, acts>>

Drop(i) == calls' = RemoveAt(calls, i)
(* onConfigChange: the panel as it was at the click, with the switch turned. *)
Taken(call) == IF call.kind = "own"
               THEN [call.body.panel EXCEPT !.config = Turned[@][call.body.on]]
               ELSE call.answer[1]
Updated(i) ==
    /\ calls[i].kind \in Changes /\ calls[i].answer # <<>>
    /\ panel' = Taken(calls[i])
    /\ optimisticPinned' = IF calls[i].kind = "pin" THEN NoPin ELSE optimisticPinned
    /\ UNCHANGED <<mounted, editingTitle, window, copying>>
Copied(i) ==
    /\ calls[i].kind \in {"duplicate", "copy"} /\ calls[i].answer # <<>>
    /\ copyModalOpen' = FALSE /\ actionBusy' = FALSE
    /\ UNCHANGED <<panel, mounted, editingTitle, window, optimisticPinned>>
(* The dashboard takes the panel off its page. *)
Removed(i) ==
    /\ calls[i].kind \in {"move", "delete"} /\ calls[i].answer # <<>>
    /\ Unmount /\ copyModalOpen' = FALSE /\ actionBusy' = FALSE
    /\ UNCHANGED <<panel, capturedPicker, pickerReturn, optimisticPinned>>
(* Errors are swallowed; the pin goes back to that of the panel's copy, as *)
(* it was at the click.                                                    *)
PinFailed(i) == IF calls[i].kind = "pin" THEN Pinned(calls[i].body.was) ELSE optimisticPinned
BusyAfter(i) == actionBusy /\ calls[i].kind \notin {"duplicate", "copy", "move"}
Errs(i) ==
    /\ optimisticPinned' = PinFailed(i)
    /\ actionBusy' = BusyAfter(i)
    /\ UNCHANGED <<panel, mounted, editingTitle, window, copyModalOpen>>
Answer(i) ==
    /\ Drop(i)
    /\ \/ (Updated(i) \/ Copied(i) \/ Removed(i)) /\ UNCHANGED failed
       \/ Errs(i) /\ failed' = TRUE
    /\ UNCHANGED <<server, title, meddled, acts>>

Next ==
    \/ EditTitle \/ \E t \in Titles : saveTitle(t)
    \/ handleOpenConfig \/ Scrolled \/ TakePick \/ CloseConfig \/ handlePickTopic
    \/ \E c \in Configs, b \in Brokers : saveConfig(c, b)
    \/ updateMetaPinned \/ \E on \in BOOLEAN : handleToggle(on)
    \/ OpenCopy \/ CloseCopy \/ handleDelete
    \/ \E kind \in {"duplicate", "copy", "move"}, d \in Dashboards \cup {Nobody} : Copy(kind, d)
    \/ \E i \in DOMAIN calls : Serve(i) \/ Answer(i)
Fairness == /\ WF_vars(\E i \in DOMAIN calls : Answer(i)) /\ WF_vars(Scrolled) /\ WF_vars(TakePick)
Spec == Init /\ [][Next]_vars /\ Fairness

-----------------------------------------------------------------------------
Rows == [title : Titles, config : Configs, pinned : BOOLEAN, broker : Brokers]
TypeOK ==
    /\ panel \in Rows /\ server \in Rows /\ title \in Titles
    /\ capturedPicker \in Configs \cup {NoPick} /\ pickerReturn \in Configs \cup {NoPick}
    /\ optimisticPinned \in {NoPin, "yes", "no"} /\ Len(calls) <= MaxCalls
    /\ actionBusy => copyModalOpen

(* A pick is for one window: when that is closed without it, nothing of it *)
(* is left for the next, and the dashboard knows of every open window and  *)
(* of none that is gone.                                                   *)
PickForOneWindow == mounted /\ capturedPicker # NoPick => showConfig \/ openConfigTimeout
WindowKnown == openConfigPanels = (mounted /\ showConfig)

(* Each change of the row sends keys it did not mean to change, as they    *)
(* were when it was made.  As long as no two are in flight together, the   *)
(* panel on the page is the row, once all is answered and nothing failed.  *)
RowInStep == ~meddled /\ ~failed /\ ~InFlight(Changes) => panel = server
(* A change then moves no more of the row than it is about. *)
Owned(kind) == CASE kind = "title" -> {"title"} [] kind = "save" -> {"config", "broker"}
                 [] kind = "pin" -> {"pinned"} [] kind = "own" -> {"config"} [] OTHER -> {}
MovesOwnKeys ==
    ~meddled /\ ~failed => \A i \in DOMAIN calls :
        i \in DOMAIN calls' /\ calls[i].answer = <<>> /\ calls'[i].answer # <<>> =>
            \A k \in DOMAIN server : k \in Owned(calls[i].kind) \/ server'[k] = server[k]

(* However often the buttons are pressed, one copy is asked for at a time, *)
(* and the dialog can be closed again in the end.                          *)
OneCopy == \A i, j \in DOMAIN calls :
    calls[i].kind \in {"duplicate", "copy", "move"} /\ calls[j].kind \in {"duplicate", "copy", "move"} => i = j
================================================================================
