------------------------------ MODULE Explorer ------------------------------
(***************************************************************************)
(* The explorer (pages/ExplorerPage.tsx) with its tree of topics           *)
(* (components/explorer/TopicTree.tsx), the filter over it and the publish *)
(* panel below it; a panel's dialog also opens it, to have a topic picked. *)
(*                                                                         *)
(* A topic is its sequence of levels, a wildcard a level of its own.  The  *)
(* page and the log inside it subscribe through one socket, over which     *)
(* frames keep their order.  What a message leaves in the history, where   *)
(* the tree is read from, is written by a worker some time later.          *)
(* Left out: the graph, the lines of the log, the marks of the filter's    *)
(* hits, the pruning of the history, and brokers that are not loaded yet.  *)
(***************************************************************************)
EXTENDS FiniteSets, Lists

CONSTANTS BrokerList,     \* the brokers, in their order
          Topics, commonSysTopics,
          Outbounds,      \* what the picker may be opened with
          Urls,           \* and what the page's address may ask for
          Queries,        \* filters typed over the tree
          InitialStatus, InitialStores, InitialQueues,
          MaxPublish, MaxActs

Brokers == ToSet(BrokerList)
NoBroker == "nobroker"
NoTopic == <<>>
AllTopics == <<"#">>
SysTree == <<"$SYS", "#">>
NoServed == [broker |-> NoBroker, filters |-> {}]
Plain == [topic |-> NoTopic, broker |-> NoBroker]

(* What the page is given: some broker, topics of one level or more, the   *)
(* stores of those brokers, and a picker and an address that name them.    *)
Levels == {"#", "$SYS"} \union
          UNION {ToSet(t) : t \in Topics \union commonSysTopics \union {u.topic : u \in Urls}
                                  \union UNION {ToSet(o.topics) : o \in Outbounds}}
ExplorerFit ==
    /\ BrokerList \in Seq(Brokers) /\ BrokerList # <<>> /\ NoBroker \notin Brokers
    /\ Topics \union commonSysTopics \subseteq Seq(Levels) \ {<<>>}
    /\ InitialStores \subseteq [Brokers -> SUBSET Topics]
    /\ InitialQueues \subseteq SUBSET (Brokers \X Topics)
    /\ \A o \in Outbounds : o.broker \in Brokers \union {NoBroker} /\ o.topics \in Seq(Seq(Levels))
    /\ \A u \in Urls : u.broker \in Brokers \union {NoBroker} /\ u.topic \in Seq(Levels)

VARIABLES status,         \* of each broker: "connected", "enabled" or "disabled"
          store,          \* topics the server has stored of each broker
          queue,          \* <<broker, topic>> of those it has yet to store
          served,         \* the hub's subscription under the page's panel id
          frames,
          pickerCtx,      \* <<>>, or the broker and topics the dialog sent
          url, selectedBrokerId, pickerSelectedTopic, pickerInitialized,
          topics, selectedTopic,
          live,           \* <<topic>> of the last live message
          flash,          \* the rows lit by it, and whether they will go out
          showSysTopic, showExactTopicOnly,
          filterText, defaultExpanded,
          overrides,      \* rows folded or unfolded by hand
          requests,       \* for the tree: broker, answer, cancelled
          returned,       \* what is handed back to the dialog
          published,      \* of each broker, all that were ever queued or sent
          unheard,        \* topics published on the broker shown, to no frame
          late,           \* and those that were queued when its tree was read
          overtaken,      \* the tree's answer has dropped a live topic, or failed
          noticeDismissed, steps

history == <<store, queue, published>>
server == <<status, history>>
wire == <<served, frames, requests>>
tree == <<topics, live, flash>>
view == <<filterText, defaultExpanded, overrides>>
picking == <<pickerCtx, url, pickerSelectedTopic, pickerInitialized, returned>>
switches == <<showSysTopic, showExactTopicOnly>>
ghosts == <<unheard, late, overtaken>>
vars == <<server, wire, picking, selectedBrokerId, tree, selectedTopic, switches, view,
          ghosts, noticeDismissed, steps>>

-----------------------------------------------------------------------------
(* Topics and filters. *)
Sys(t) == t[1] = "$SYS"
Subtree(t) == Len(t) > 1 /\ Last(t) = "#"
Base(t) == IF Subtree(t) THEN Front(t) ELSE t
Hears(f, t) == f = t \/ (Last(f) = "#" /\ IsPrefix(Front(f), t) /\ (Sys(t) => Sys(f)))

(* topicMatchesFilter: part of the topic, or all of it with "+" for one    *)
(* level and "#" or "*" for any rest; a trailing "/#" also for none.       *)
Same(f, t) == Len(f) = Len(t) /\ \A i \in DOMAIN f : f[i] \in {"+", t[i]}
topicMatchesFilter(t, q) ==
    \/ \E i \in 1..Len(t) : IsPrefix(q, SubSeq(t, i, Len(t)))
    \/ Same(q, t)
    \/ \E i \in DOMAIN q, j \in 0..Len(t) :
          /\ q[i] \in {"#", "*"}
          /\ Len(t) >= Len(q) - (IF i = Len(q) /\ i > 1 /\ q[i] = "#" THEN 1 ELSE 0)
          /\ Same(SubSeq(q, 1, i - 1), SubSeq(t, 1, i - 1))
          /\ Same(SubSeq(q, i + 1, Len(q)), SubSeq(t, j + 1, Len(t)))

AutoSelected(st) ==
    LET Pick(S) == CHOOSE i \in S : \A j \in S : i <= j
        With(ss) == {i \in DOMAIN BrokerList : st[BrokerList[i]] \in ss}
    IN BrokerList[IF With({"connected"}) # {} THEN Pick(With({"connected"}))
                  ELSE IF With({"enabled"}) # {} THEN Pick(With({"enabled"})) ELSE 1]
effectiveBrokerId == IF selectedBrokerId # NoBroker THEN selectedBrokerId ELSE AutoSelected(status)

Displayed(ts, sys) == IF sys THEN ts \union commonSysTopics ELSE {t \in ts : ~Sys(t)}
displayedTopics == Displayed(topics, showSysTopic)
filteredTopics == {t \in displayedTopics : topicMatchesFilter(t, filterText)}
isParent(t, ts) == ~Subtree(t) /\ \E u \in ts : IsStrictPrefix(t, u)
(* A parent is selected with all below it, unless only exact topics are.   *)
Effective(t, ts, exact) == IF ~exact /\ isParent(t, ts) THEN Append(t, "#") ELSE t

-----------------------------------------------------------------------------
(* The tree: a row for every topic and every level above one. *)
Rows == UNION {{SubSeq(t, 1, n) : n \in DOMAIN t} : t \in filteredTopics}
Somewhere(sel) == sel \notin {NoTopic, AllTopics}
isSelected(row, sel) == Somewhere(sel) /\ row \in {sel, Base(sel)}
shouldAutoExpand(row, sel) ==
    /\ Somewhere(sel)
    /\ IsStrictPrefix(row, Base(sel)) \/ (Subtree(sel) /\ row = Base(sel))
(* What was done by hand holds for the selection it was done under. *)
Open(row, os, sel, wide_) ==
    LET byHand == {o \in os : o.row = row /\ o.topic = sel}
    IN IF byHand # {} THEN \E o \in byHand : o.open ELSE wide_ \/ shouldAutoExpand(row, sel)
Visible(row, os, rows, sel, wide_) ==
    row \in rows /\ \A n \in 1..(Len(row) - 1) : Open(SubSeq(row, 1, n), os, sel, wide_)
wide == filterText # <<>> \/ defaultExpanded
Drawn(row) == Visible(row, overrides, Rows, selectedTopic, wide)
(* A row that is no longer drawn forgets that it was folded. *)
Refold(os) == overrides' = {o \in os : Visible(o.row, os, Rows', selectedTopic', wide')}

-----------------------------------------------------------------------------
Queued(b) == {t \in Topics : <<b, t>> \in queue}

(* The page opens, for a dialog or at an address. *)
Mount(ctx, at) ==
    /\ pickerCtx = ctx /\ url = at
    /\ selectedBrokerId = IF ctx # <<>> THEN ctx[1].broker ELSE at.broker
    /\ pickerSelectedTopic = IF ctx # <<>> THEN ctx[1].topics ELSE IF at.topic = NoTopic THEN <<>> ELSE <<at.topic>>
    /\ selectedTopic = IF ctx # <<>> THEN IF ctx[1].topics = <<>> THEN NoTopic ELSE Head(ctx[1].topics)
                       ELSE IF at.topic # NoTopic THEN at.topic ELSE AllTopics
    /\ requests = <<[broker |-> effectiveBrokerId, found |-> <<>>, cancelled |-> FALSE]>>
    /\ served = [broker |-> effectiveBrokerId, filters |-> {AllTopics}]

Init ==
    /\ status = InitialStatus
    /\ \/ \E o \in Outbounds : Mount(<<o>>, Plain)
       \/ \E u \in Urls : Mount(<<>>, u)
    /\ store \in InitialStores /\ queue \in InitialQueues
    /\ published = [b \in Brokers |-> store[b] \union Queued(b)]
    /\ frames = <<>> /\ topics = {} /\ live = <<>> /\ flash = [rows |-> {}, timer |-> FALSE]
    /\ showSysTopic = FALSE /\ showExactTopicOnly = FALSE /\ pickerInitialized = FALSE
    /\ filterText = <<>> /\ defaultExpanded = FALSE /\ overrides = {}
    /\ returned = <<>> /\ unheard = {} /\ late = {} /\ overtaken = FALSE
    /\ noticeDismissed = FALSE /\ steps = [published |-> 0, acts |-> 0]

Staying == returned = <<>>
(* The user's next act. *)
Act == Staying /\ steps.acts < MaxActs /\ steps' = [steps EXCEPT !.acts = @ + 1]

(* What the page does of itself once something it shows has changed: it    *)
(* selects the topic it was opened for as soon as the tree has it, ...     *)
Settle(selected) ==
    LET target == IF pickerSelectedTopic' # <<>> THEN Head(pickerSelectedTopic') ELSE url'.topic
        there == \E t \in displayedTopics' : t = target \/ (Subtree(target) /\ IsStrictPrefix(Base(target), t))
    IN /\ IF target \in {NoTopic, AllTopics}
          THEN selectedTopic' = selected /\ UNCHANGED pickerInitialized
          ELSE IF there
          THEN /\ pickerInitialized' = TRUE
               /\ selectedTopic' = IF pickerInitialized THEN selected
                                   ELSE Effective(target, displayedTopics', showExactTopicOnly')
          ELSE /\ selectedTopic' = selected
               /\ pickerInitialized' = (pickerInitialized /\ (pickerCtx' # <<>> \/ url'.topic # NoTopic))
(* ... and asks for another tree, and subscribes again: first the log, to  *)
(* the topic it shows, then the page, if the broker or "$SYS" is another.  *)
Cancelled(rs) == [i \in DOMAIN rs |-> [rs[i] EXCEPT !.cancelled = TRUE]]
Refetch ==
    requests' = IF effectiveBrokerId' = effectiveBrokerId THEN requests
                ELSE Append(Cancelled(requests),
                            [broker |-> effectiveBrokerId', found |-> <<>>, cancelled |-> FALSE])
Subscribe ==
    served' = IF effectiveBrokerId' # effectiveBrokerId \/ showSysTopic' # showSysTopic
              THEN [broker |-> effectiveBrokerId', filters |-> {AllTopics} \union (IF showSysTopic' THEN {SysTree} ELSE {})]
              ELSE IF selectedTopic' = selectedTopic THEN served
              ELSE IF selectedTopic' = NoTopic THEN NoServed
              ELSE [broker |-> effectiveBrokerId', filters |-> {selectedTopic'}]
(* What follows on a change of the page: the new selection, the requests.  *)
Render(selected, os) == Settle(selected) /\ Refetch /\ Subscribe /\ Refold(os)

-----------------------------------------------------------------------------
(* writeHistory: a message is sent on at once, and queued to be stored; a   *)
(* full queue drops it, and so do the settings, if it is one of "$SYS".    *)
Publish(b, t) ==
    /\ steps.published < MaxPublish /\ steps' = [steps EXCEPT !.published = @ + 1]
    /\ queue' \in {queue, queue \union {<<b, t>>}}
    /\ published' = [published EXCEPT ![b] = @ \union {t}]
    /\ LET heard == served.broker = b /\ \E f \in served.filters : Hears(f, t) IN
       /\ frames' = IF heard THEN Append(frames, <<b, t>>) ELSE frames
       /\ unheard' = IF ~heard /\ b = effectiveBrokerId /\ ~Sys(t) THEN unheard \union {t} ELSE unheard
    /\ UNCHANGED <<status, store, served, requests, picking, selectedBrokerId, tree, selectedTopic, switches, view,
                   late, overtaken, noticeDismissed>>
(* insertHistoryRecord: an error is only logged. *)
Write(m) ==
    /\ queue' = queue \ {m}
    /\ store' \in {store, [store EXCEPT ![m[1]] = @ \union {m[2]}]}
    /\ UNCHANGED <<status, published, wire, picking, selectedBrokerId, tree, selectedTopic, switches, view,
                   ghosts, noticeDismissed, steps>>

(* The panel below the tree publishes to a topic, not to a filter; Topics  *)
(* are those that anyone publishes to.                                     *)
PublishOffered == selectedTopic # NoTopic /\ \A i \in DOMAIN selectedTopic : selectedTopic[i] \notin {"+", "#"}
NoticeShown == selectedTopic # NoTopic /\ ~PublishOffered /\ ~noticeDismissed
Send == Staying /\ PublishOffered /\ selectedTopic \in Topics /\ Publish(effectiveBrokerId, selectedTopic)
DismissNotice ==
    /\ Act /\ NoticeShown /\ noticeDismissed' = TRUE
    /\ UNCHANGED <<server, wire, picking, selectedBrokerId, tree, selectedTopic, switches, view, ghosts>>

(* The page's poll of the brokers. *)
StatusChanges(b, s) ==
    /\ Act /\ status[b] # s /\ status' = [status EXCEPT ![b] = s]
    /\ UNCHANGED <<history, frames, pickerCtx, url, pickerSelectedTopic, returned, selectedBrokerId, tree, switches,
                   filterText, defaultExpanded, noticeDismissed>>
    /\ Render(selectedTopic, overrides)
    /\ IF effectiveBrokerId' = effectiveBrokerId THEN UNCHANGED ghosts ELSE unheard' = {} /\ late' = {} /\ overtaken' = TRUE

Lit(t) == [rows |-> {SubSeq(t, 1, n) : n \in DOMAIN t}, timer |-> TRUE]
(* onMessage: the hook drops the frames of another broker, and those of no *)
(* filter of the page.                                                     *)
Frame ==
    /\ Staying /\ frames # <<>> /\ frames' = Tail(frames)
    /\ LET b == Head(frames)[1]  t == Head(frames)[2] IN
       IF b = effectiveBrokerId /\ (Sys(t) => showSysTopic)
       THEN topics' = topics \union {t} /\ live' = <<t>> /\ flash' = Lit(t)
       ELSE UNCHANGED tree
    /\ UNCHANGED <<server, pickerCtx, url, pickerSelectedTopic, returned, selectedBrokerId, switches, filterText,
                   defaultExpanded, ghosts, noticeDismissed, steps>>
    /\ Render(selectedTopic, overrides)
FlashTimer ==
    /\ flash.timer /\ flash' = [rows |-> {}, timer |-> FALSE]
    /\ UNCHANGED <<server, wire, picking, selectedBrokerId, topics, live, selectedTopic, switches, view, ghosts,
                   noticeDismissed, steps>>

(* The request for the tree is served, and answered some time later; what  *)
(* the answer does not have goes, but for the topics of "$SYS".            *)
ServeTree(i) ==
    /\ i \in DOMAIN requests /\ requests[i].found = <<>>
    /\ requests' = [requests EXCEPT ![i].found = <<store[requests[i].broker]>>]
    /\ late' = IF requests[i].cancelled THEN late
               ELSE late \union (Queued(requests[i].broker) \ store[requests[i].broker])
    /\ UNCHANGED <<server, served, frames, picking, selectedBrokerId, tree, selectedTopic, switches, view,
                   unheard, overtaken, noticeDismissed, steps>>
Merged(found) == found \union {t \in topics : Sys(t)}
Ignored(request) == request.cancelled
TreeAnswered(i, failed) ==
    /\ Staying /\ i \in DOMAIN requests /\ requests[i].found # <<>>
    /\ topics' = IF Ignored(requests[i]) \/ failed THEN topics ELSE Merged(requests[i].found[1])
    /\ overtaken' = (overtaken \/ (~requests[i].cancelled /\ (failed \/ ~(topics \subseteq topics'))))
    /\ UNCHANGED <<server, frames, pickerCtx, url, pickerSelectedTopic, returned, selectedBrokerId, live, flash,
                   switches, filterText, defaultExpanded, unheard, late, noticeDismissed, steps>>
    /\ Settle(selectedTopic) /\ requests' = RemoveAt(requests, i) /\ Subscribe /\ Refold(overrides)

-----------------------------------------------------------------------------
(* The user.  In picker mode a selection is also what the bar offers.      *)
Picks(t) == IF pickerCtx = <<>> THEN pickerSelectedTopic ELSE <<t>>
Select(t, pick) ==
    /\ pickerSelectedTopic' = pick
    /\ UNCHANGED <<server, frames, pickerCtx, url, returned, selectedBrokerId, tree, showSysTopic, filterText,
                   defaultExpanded, ghosts, noticeDismissed>>
    /\ Render(t, overrides)
handleTopicSelect(t) ==
    LET chosen == Effective(t, displayedTopics, showExactTopicOnly)
    IN Act /\ UNCHANGED showExactTopicOnly /\ Select(chosen, Picks(chosen))
ClickRow(row) == row \in Rows /\ Drawn(row) /\ handleTopicSelect(row)
ClickAll == filterText = <<>> /\ displayedTopics # {} /\ handleTopicSelect(AllTopics)
Crumb(n) == n \in DOMAIN selectedTopic /\ handleTopicSelect(SubSeq(selectedTopic, 1, n))
ClickArrow(row) ==
    /\ Act /\ Drawn(row) /\ isParent(row, filteredTopics)
    /\ UNCHANGED <<server, wire, picking, selectedBrokerId, tree, selectedTopic, switches, filterText,
                   defaultExpanded, ghosts, noticeDismissed>>
    /\ Refold({o \in overrides : o.row # row} \union
              {[row |-> row, topic |-> selectedTopic, open |-> ~Open(row, overrides, selectedTopic, wide)]})

handleToggleExactTopicOnly ==
    LET exact == ~showExactTopicOnly
        base == Base(selectedTopic)
        chosen == IF ~Somewhere(selectedTopic) THEN selectedTopic
                  ELSE IF exact THEN base
                  ELSE IF isParent(base, displayedTopics) THEN Append(base, "#") ELSE selectedTopic
    IN /\ Act /\ showExactTopicOnly' = exact
       /\ Select(chosen, IF chosen = selectedTopic THEN pickerSelectedTopic ELSE Picks(chosen))

ToggleSys ==
    /\ Act /\ showSysTopic' = ~showSysTopic
    /\ UNCHANGED <<server, frames, pickerCtx, url, pickerSelectedTopic, returned, selectedBrokerId, tree,
                   showExactTopicOnly, filterText, defaultExpanded, ghosts, noticeDismissed>>
    /\ Render(selectedTopic, overrides)
(* A filter, or all rows opened or closed, makes the rows anew. *)
View(query, expanded) ==
    /\ Act /\ filterText' = query /\ defaultExpanded' = expanded /\ overrides' = {}
    /\ UNCHANGED <<server, wire, picking, selectedBrokerId, tree, selectedTopic, switches, ghosts, noticeDismissed>>
ClearFilter == filterText # <<>> /\ View(<<>>, defaultExpanded)

(* Another broker empties the tree; a light that was on has lost its timer. *)
ChooseBroker(b) ==
    /\ Act /\ b # effectiveBrokerId /\ selectedBrokerId' = b
    /\ topics' = {} /\ live' = <<>> /\ flash' = [flash EXCEPT !.timer = FALSE]
    /\ unheard' = {} /\ late' = {} /\ overtaken' = FALSE
    /\ UNCHANGED <<server, frames, pickerCtx, url, pickerSelectedTopic, returned, switches, filterText,
                   defaultExpanded, noticeDismissed>>
    /\ Render(IF pickerCtx # <<>> THEN NoTopic ELSE AllTopics, overrides)

(* The address changes below the page: the menu's link leads to no topic.  *)
FollowLink ==
    /\ Act /\ pickerCtx = <<>> /\ url # Plain /\ url' = Plain
    /\ selectedBrokerId' = IF url.broker # NoBroker THEN NoBroker ELSE selectedBrokerId
    /\ pickerSelectedTopic' = IF url.topic # NoTopic THEN <<>> ELSE pickerSelectedTopic
    /\ UNCHANGED <<server, frames, pickerCtx, returned, tree, switches, filterText, defaultExpanded, noticeDismissed>>
    /\ Render(IF url.topic # NoTopic THEN AllTopics ELSE selectedTopic, overrides)
    /\ IF effectiveBrokerId' = effectiveBrokerId THEN UNCHANGED ghosts ELSE unheard' = {} /\ late' = {} /\ overtaken' = TRUE

handlePickerCancel ==
    /\ Act /\ pickerCtx # <<>> /\ pickerCtx' = <<>>
    /\ UNCHANGED <<server, frames, url, pickerSelectedTopic, returned, selectedBrokerId, tree, switches, filterText,
                   defaultExpanded, ghosts, noticeDismissed>>
    /\ Render(selectedTopic, overrides)
Return(ts) ==
    /\ pickerCtx # <<>> /\ returned' = <<[broker |-> effectiveBrokerId, topics |-> ts]>>
    /\ UNCHANGED <<server, wire, pickerCtx, url, pickerSelectedTopic, pickerInitialized, selectedBrokerId, tree,
                   selectedTopic, switches, view, ghosts, noticeDismissed, steps>>
handlePickerConfirm == Staying /\ Return(pickerSelectedTopic)
(* The two clicks have selected the row before. *)
handlePickerDoubleClick(row) == Staying /\ Drawn(row) /\ isSelected(row, selectedTopic) /\ Return(<<row>>)

Next ==
    \/ \E b \in Brokers, t \in Topics : Publish(b, t)
    \/ \E m \in queue : Write(m)
    \/ Send \/ DismissNotice
    \/ \E b \in Brokers, s \in {"connected", "enabled", "disabled"} : StatusChanges(b, s)
    \/ Frame \/ FlashTimer
    \/ \E i \in DOMAIN requests : ServeTree(i) \/ TreeAnswered(i, FALSE) \/ TreeAnswered(i, TRUE)
    \/ \E row \in Rows : ClickRow(row) \/ ClickArrow(row) \/ handlePickerDoubleClick(row)
    \/ ClickAll \/ \E n \in 1..3 : Crumb(n)
    \/ handleToggleExactTopicOnly \/ ToggleSys
    \/ \E q \in Queries : View(q, defaultExpanded)
    \/ \E e \in BOOLEAN : View(filterText, e)
    \/ ClearFilter
    \/ \E b \in Brokers : ChooseBroker(b)
    \/ FollowLink \/ handlePickerCancel \/ handlePickerConfirm

Fairness == WF_vars(FlashTimer) /\ WF_vars(Frame)
Spec == Init /\ [][Next]_vars /\ Fairness

-----------------------------------------------------------------------------
(* The shapes of the page's state. *)
TypeOK ==
    /\ store \in [Brokers -> SUBSET Topics] /\ topics \subseteq Topics
    /\ queue \subseteq Brokers \X Topics
    /\ served.broker \in Brokers \union {NoBroker} /\ effectiveBrokerId \in Brokers
    /\ \A i \in DOMAIN requests : requests[i].broker \in Brokers /\ Len(requests[i].found) <= 1
    /\ Cardinality({i \in DOMAIN requests : ~requests[i].cancelled}) <= 1

(* While a topic is picked, the topic the page shows is the one the bar    *)
(* offers to confirm, with or without the topics below it.                 *)
PickShown ==
    (pickerCtx # <<>> /\ pickerSelectedTopic # <<>> /\ selectedTopic # NoTopic) =>
        Base(Head(pickerSelectedTopic)) = Base(selectedTopic)

(* When the tree is loaded and all frames have come, it has every topic    *)
(* the server has stored of the broker shown, but for those no frame was   *)
(* sent of or that waited to be stored when the tree was read, unless the  *)
(* request failed or its answer was older than what had been heard         *)
(* meanwhile.                                                              *)
TreeComplete ==
    (requests = <<>> /\ frames = <<>> /\ ~overtaken /\ Staying) =>
        {t \in store[effectiveBrokerId] : ~Sys(t)} \subseteq topics \union unheard \union late

(* After the tree was loaded for a broker the user chose, every row is of  *)
(* a topic of that broker.                                                 *)
TreeOfBroker ==
    ~overtaken => {t \in topics : ~Sys(t)} \subseteq published[effectiveBrokerId]

(* The row of the selected topic can be seen, unless a row above it was    *)
(* folded under that selection.                                            *)
SelectedVisible ==
    \A row \in Rows :
        isSelected(row, selectedTopic) =>
            Drawn(row) \/ \E o \in overrides : o.topic = selectedTopic /\ ~o.open

(* A row that a message has lit goes dark again, while its broker is shown. *)
Flashing == flash.rows # {} /\ live # <<>>

(* "Subscribe to # on selected broker": every message of the broker shown  *)
(* is sent to the page.                                                    *)
HearsAll == unheard = {}
=============================================================================
