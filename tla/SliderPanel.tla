------------------------------- MODULE SliderPanel -------------------------------
(***************************************************************************)
(* A slider on the dashboard (SliderPanel and SliderRuntime in             *)
(* components/panels/SliderPanel.tsx): the handle follows the user and the *)
(* value is published when it is let go, or when one typed over the        *)
(* readout is confirmed; the next report of the state topic confirms it.   *)
(* Unlike a toggle it takes another value while one waits.                 *)
(*                                                                         *)
(* Reports are numbers, or no numbers at all; the browser keeps the handle *)
(* on the steps of the range, which its high end need not be on.  The      *)
(* history and the subscription are as in TogglePanel, and stand here for  *)
(* one message of unknown age each.                                        *)
(***************************************************************************)
EXTENDS ReadBack

CONSTANTS Low, High, Step,     \* the configured range
          Typed,               \* numbers that are typed
          Reports,             \* numbers that are reported
          MaxGestures, MaxReports, MaxRemounts

range == normalizeRange(Low, High, Step)
Positions == {v \in range.min..range.max : (v - range.min) % range.step = 0}    \* of the handle
Nothing == Low - 1000                \* null, and a text that is no number

(* Numbers are whole hundredths, and the null of the panel is none of them. *)
NumbersFit ==
    /\ Low \in Int /\ High \in Int /\ Step \in Int
    /\ Typed \subseteq Int /\ Reports \subseteq Int /\ Nothing \notin Typed \cup Reports

VARIABLES remote, dragging, pending, unconfirmed, error,
          typed,               \* <<>>, or the text in the readout
          focused,             \* the handle has the focus
          timers, timeoutRef,
          frames,              \* messages on their way to the page
          history,             \* "asked" or "done"
          posts,               \* publish calls in flight
          gestures,            \* adjustments so far, and commits
          steps
flip == <<pending, unconfirmed, error, timers, timeoutRef>>
hand == <<dragging, typed, focused>>
wire == <<frames, history>>
vars == <<remote, hand, flip, wire, posts, gestures, steps>>

None == 0
Init ==
    /\ remote = Nothing /\ dragging = Nothing /\ pending = Nothing /\ unconfirmed = FALSE /\ error = FALSE
    /\ typed = <<>> /\ focused = FALSE /\ timers = {} /\ timeoutRef = None
    /\ frames = <<>> /\ history = "asked" /\ posts = {}
    /\ gestures = [made |-> 0, sent |-> 0] /\ steps = [reports |-> 0, remounts |-> 0]

Apart(a, b) == IF a > b THEN a - b ELSE b - a
displayed == IF dragging # Nothing THEN dragging ELSE IF pending # Nothing THEN pending ELSE remote
(* The browser moves the handle to the nearest step, the higher of two.     *)
Nearest(v) == CHOOSE p \in Positions : \A q \in Positions : Apart(p, v) < Apart(q, v) \/ (Apart(p, v) = Apart(q, v) /\ q <= p)
handlePosition == IF displayed = Nothing THEN range.min ELSE Nearest(displayed)
Cleared == timers \ {timeoutRef}

-----------------------------------------------------------------------------
(* applyIncomingValue; a message with no number in it is passed over.      *)
Tolerated(next) == Apart(next, pending) <= range.step
Apply(next) ==
    IF next = Nothing THEN UNCHANGED <<remote, flip>>
    ELSE /\ remote' = next
         /\ IF pending = Nothing THEN UNCHANGED flip
            ELSE /\ timers' = Cleared /\ timeoutRef' = None
                 /\ pending' = Nothing /\ unconfirmed' = ~Tolerated(next) /\ UNCHANGED error
OnMessage ==
    /\ frames # <<>> /\ frames' = Tail(frames) /\ Apply(Head(frames))
    /\ UNCHANGED <<hand, history, posts, gestures, steps>>
OnHistory(v) ==
    /\ history = "asked" /\ history' = "done" /\ Apply(v)
    /\ UNCHANGED <<hand, frames, posts, gestures, steps>>
Report(v) ==
    /\ steps.reports < MaxReports /\ steps' = [steps EXCEPT !.reports = @ + 1]
    /\ frames' = Append(frames, v) /\ UNCHANGED <<remote, hand, flip, history, posts, gestures>>

-----------------------------------------------------------------------------
(* commit: the value of an earlier one, and its timer, give way.  With no  *)
(* topic, or a wildcard, the slider is disabled and there is no gesture.   *)
Snapped(raw) == clampToRange(raw, range)
commit(raw, adjustments) ==
    LET value == Snapped(raw) IN
    /\ unconfirmed' = FALSE /\ error' = FALSE /\ pending' = value
    /\ \E t \in {1, 2} \ timers : timeoutRef' = t /\ timers' = Cleared \cup {t}
    /\ posts' = posts \cup {[id |-> gestures.sent, value |-> value, own |-> TRUE]}
    /\ gestures' = [made |-> gestures.made + adjustments, sent |-> gestures.sent + 1]

(* The handle: a press or a tab gives it the focus; the pointer may go up  *)
(* elsewhere, and then the loss of the focus ends the drag.  A press on    *)
(* the handle that does not move it publishes where it stands.             *)
Budget == gestures.sent < MaxGestures
Focus ==
    /\ ~focused /\ typed = <<>> /\ Budget /\ focused' = TRUE
    /\ UNCHANGED <<remote, dragging, typed, flip, wire, posts, gestures, steps>>
Drag(v) ==
    /\ focused /\ Budget /\ v # handlePosition /\ dragging' = v
    /\ gestures' = [gestures EXCEPT !.made = IF dragging = Nothing THEN @ + 1 ELSE @]
    /\ UNCHANGED <<remote, typed, focused, flip, wire, posts, steps>>
PointerUp ==
    /\ focused /\ Budget /\ dragging' = Nothing /\ typed' = typed
    /\ commit(handlePosition, IF dragging = Nothing THEN 1 ELSE 0)
    /\ UNCHANGED <<remote, focused, wire, steps>>
KeyUp ==
    /\ focused /\ dragging # Nothing /\ dragging' = Nothing /\ commit(handlePosition, 0)
    /\ UNCHANGED <<remote, typed, focused, wire, steps>>
AfterBlur_Kept == dragging
AfterBlur == Nothing
Blur ==
    /\ focused /\ focused' = FALSE /\ dragging' = AfterBlur
    /\ IF dragging = Nothing THEN UNCHANGED <<flip, posts, gestures>> ELSE commit(handlePosition, 0)
    /\ UNCHANGED <<remote, typed, wire, steps>>

(* The readout, opened by a double click, left by Enter, a click elsewhere *)
(* or Escape.                                                              *)
EditReadout ==
    /\ typed = <<>> /\ ~focused /\ Budget
    /\ typed' = <<IF displayed = Nothing THEN range.min ELSE displayed>>
    /\ UNCHANGED <<remote, dragging, focused, flip, wire, posts, gestures, steps>>
Type(text) ==
    /\ typed # <<>> /\ typed # <<text>> /\ typed' = <<text>>
    /\ UNCHANGED <<remote, dragging, focused, flip, wire, posts, gestures, steps>>
Escape ==
    /\ typed # <<>> /\ typed' = <<>>
    /\ UNCHANGED <<remote, dragging, focused, flip, wire, posts, gestures, steps>>
commitTyped ==
    /\ typed # <<>> /\ typed' = <<>>
    /\ IF typed[1] = Nothing THEN UNCHANGED <<dragging, flip, posts, gestures>>
       ELSE dragging' = Nothing /\ commit(typed[1], 1)
    /\ UNCHANGED <<remote, focused, wire, steps>>

-----------------------------------------------------------------------------
(* The call's answer; one that is lost is an error.  The catch takes back  *)
(* whatever value waits, also a later one.                                 *)
Unmarked == Nothing
Answered(p, ok) ==
    /\ posts' = posts \ {p}
    /\ IF ok \/ ~p.own THEN UNCHANGED flip
       ELSE /\ timers' = Cleared /\ timeoutRef' = None
            /\ pending' = Unmarked /\ error' = TRUE /\ UNCHANGED unconfirmed
    /\ UNCHANGED <<remote, hand, wire, gestures, steps>>
AfterTimeout == Nothing
Timeout(t) ==
    /\ t \in timers /\ timers' = timers \ {t}
    /\ timeoutRef' = None /\ pending' = AfterTimeout /\ unconfirmed' = TRUE
    /\ UNCHANGED <<remote, hand, error, wire, posts, gestures, steps>>

(* The panel is saved with another range, topic or shape: the runtime is   *)
(* thrown away, and the answers to its calls go unheard.                   *)
Remount ==
    /\ steps.remounts < MaxRemounts /\ steps' = [steps EXCEPT !.remounts = @ + 1]
    /\ remote' = Nothing /\ dragging' = Nothing /\ pending' = Nothing /\ unconfirmed' = FALSE /\ error' = FALSE
    /\ typed' = <<>> /\ focused' = FALSE /\ timers' = Cleared /\ timeoutRef' = None
    /\ frames' = <<>> /\ history' = "asked"
    /\ posts' = {[p EXCEPT !.own = FALSE] : p \in posts} /\ UNCHANGED gestures

Next ==
    \/ OnMessage \/ \E v \in Reports \cup {Nothing} : OnHistory(v) \/ Report(v)
    \/ Focus \/ PointerUp \/ KeyUp \/ Blur \/ \E v \in Positions : Drag(v)
    \/ EditReadout \/ Escape \/ commitTyped \/ \E text \in Typed \cup {Nothing} : Type(text)
    \/ \E p \in posts, ok \in BOOLEAN : Answered(p, ok)
    \/ \E t \in timers : Timeout(t)
    \/ Remount
(* Timers fire. *)
Fairness == WF_vars(\E t \in timers : Timeout(t))
Spec == Init /\ [][Next]_vars /\ Fairness

-----------------------------------------------------------------------------
TypeOK ==
    /\ remote \in Reports \cup {Nothing} /\ dragging \in Positions \cup {Nothing}
    /\ pending \in (range.min..range.max) \cup {Nothing}
    /\ typed = <<>> \/ typed[1] \in Typed \cup Reports \cup (range.min..range.max) \cup {Nothing}
    /\ timeoutRef \in {None, 1, 2} /\ timers \subseteq {1, 2} /\ history \in {"asked", "done"}
    /\ focused \in BOOLEAN /\ unconfirmed \in BOOLEAN /\ error \in BOOLEAN

(* A value waits with one timer, the one the panel knows, however quickly  *)
(* another followed it; with none waiting none is running, and no verdict  *)
(* on an older value stands while one waits.                               *)
OneTimer ==
    /\ timers = IF pending = Nothing THEN {} ELSE {timeoutRef}
    /\ pending # Nothing => ~unconfirmed /\ ~error

(* Whatever is dragged or typed, what is published lies in the range, and  *)
(* is its high end or a step counted from the low end; a low end with more *)
(* decimals than the step has is rounded away, and moves what is published *)
(* off the step by half a unit of the step's last decimal at most.         *)
Steps == {v \in range.min..(range.max + range.step) : (v - range.min) % range.step = 0}
Slack == IF range.min % Grain(range.step) = 0 THEN 0 ELSE Grain(range.step)
OnGrid ==
    \A p \in posts : /\ p.value \in range.min..range.max
                     /\ p.value = range.max \/ \E v \in Steps : 2 * Apart(p.value, v) <= Slack

(* One adjustment is one message: a drag, a press or an entry publishes    *)
(* once at most, and a handle that lost the focus follows the device.      *)
OncePerGesture == gestures.sent <= gestures.made /\ (~focused => dragging = Nothing)

(* A value that ends its wait with no complaint was reported back to one   *)
(* step.                                                                   *)
EndsWell ==
    pending # Nothing /\ pending' = Nothing /\ ~unconfirmed' /\ ~error' /\ steps'.remounts = steps.remounts =>
        Apart(remote', pending) <= range.step

(* A value does not wait for ever once the user leaves the slider alone.   *)
AtRest == pending = Nothing
================================================================================
