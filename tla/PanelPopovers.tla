----------------------------- MODULE PanelPopovers -----------------------------
(***************************************************************************)
(* What a panel's header shows while the pointer is on it                  *)
(* (components/PanelWrapper.tsx): a line with the broker and the topics,   *)
(* opened from the status dot and kept open by a pin, and from that line a *)
(* popover with all topics and one with the payload.  Each closes a moment *)
(* after the pointer has left, unless it comes back.                       *)
(***************************************************************************)
EXTENDS Naturals

CONSTANTS IsVisual,      \* panels without a line
          TopicDetail,   \* there is more than one topic
          HasPayload, MaxMoves

Parts == {"meta", "topic", "payload"}
Places == {"out", "dot", "line", "topic", "payload", "topicPopover", "payloadPopover"}

VARIABLES pointer,   \* where the pointer is
          hovered,   \* the parts whose flag is set
          leaving,   \* the parts with a timer that will clear it
          isPinned, moves
vars == <<pointer, hovered, leaving, isPinned, moves>>

showMetaPopover == ~IsVisual /\ (isPinned \/ hovered # {})
(* What there is for the pointer to go to. *)
Offered(p) ==
    CASE p = "out" -> TRUE
      [] p = "dot" -> ~IsVisual
      [] p = "line" -> showMetaPopover
      [] p = "topic" -> showMetaPopover /\ TopicDetail
      [] p = "payload" -> showMetaPopover /\ HasPayload
      [] p = "topicPopover" -> "topic" \in hovered
      [] p = "payloadPopover" -> "payload" \in hovered
(* The anchors are in the line; the popovers are not. *)
Region(p) == IF p \in {"dot", "line", "topic", "payload"} THEN {"meta"} ELSE {}
Held(p) ==
    Region(p) \cup (IF p \in {"topic", "topicPopover"} THEN {"topic"} ELSE {})
              \cup (IF p \in {"payload", "payloadPopover"} THEN {"payload"} ELSE {})

Init == /\ pointer = "out" /\ hovered = {} /\ leaving = {}
        /\ isPinned \in {b \in BOOLEAN : IsVisual => ~b} /\ moves = 0

(* Entering a part stops its timer, and a popover only that: it is there   *)
(* because its flag is set.  Leaving one starts its timer.                 *)
Sets(p) == Held(p) \ (IF p \in {"topicPopover", "payloadPopover"} THEN Parts ELSE {})
Left(p) == Held(pointer) \ Held(p)
Move(p) ==
    /\ moves < MaxMoves /\ moves' = moves + 1
    /\ p # pointer /\ Offered(p)
    /\ pointer' = p
    /\ hovered' = hovered \cup Sets(p)
    /\ leaving' = (leaving \ Held(p)) \cup Left(p)
    /\ UNCHANGED isPinned
(* 180 ms for the line, 150 ms for the popovers. *)
Leave(part) ==
    /\ part \in leaving /\ leaving' = leaving \ {part}
    /\ hovered' = hovered \ {part} /\ UNCHANGED <<pointer, isPinned, moves>>
(* The popover goes from under the pointer with its flag. *)
Pin == /\ pointer \in {"line", "topic", "payload"} /\ moves < MaxMoves /\ moves' = moves + 1
       /\ isPinned' = ~isPinned /\ UNCHANGED <<pointer, hovered, leaving>>

Next == (\E p \in Places : Move(p)) \/ (\E part \in Parts : Leave(part)) \/ Pin
Spec == Init /\ [][Next]_vars /\ \A part \in Parts : WF_vars(Leave(part))

-----------------------------------------------------------------------------
TypeOK == pointer \in Places /\ hovered \subseteq Parts /\ leaving \subseteq hovered /\ isPinned \in BOOLEAN

(* Nothing closes under the pointer: where it rests, on the line or on a   *)
(* popover, stays open, whatever timers were started on the way there.     *)
StaysUnderPointer == Held(pointer) \subseteq hovered \ leaving

(* Once the pointer has gone for good, all that is not pinned closes. *)
NoneLeft == pointer = "out" => hovered = {}
================================================================================
