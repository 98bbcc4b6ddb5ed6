----------------------------- MODULE WebPagesProofs -----------------------------
(***************************************************************************)
(* What the pages of the settings promise for every value of their         *)
(* constants - proofs about GeneralSettings and BrokerSettings - and what  *)
(* all pages together do: proofs about WebPages, from those about each     *)
(* page here and in PageProofs.                                            *)
(***************************************************************************)
EXTENDS PageProofs


-----------------------------------------------------------------------------
(***************************************************************************)
(* The general tab of the settings (GeneralSettings).  RetentionShown      *)
(* needs to know of each answer under way what it was read or written from *)
(* (AsServed, SavedShown), and that nothing is saved before the settings   *)
(* have come (LoadedFirst).                                                *)
(***************************************************************************)
(* Its runs, with no fairness assumed. *)
GeneralRuns == General!Init /\ [][General!Next]_(General!vars)

(* A call is of one of five kinds; a button has one under way at most, and *)
(* the settings are asked for once.                                        *)
Rows == [hours : Nat, sys : BOOLEAN, mcp : BOOLEAN]
Shapes == [kind : {"settings", "size", "clear", "retention", "mcp"}, stage : {"sent", "served", "refused"},
           values : Rows, found : BOOLEAN]
GeneralShaped ==
    /\ settings \in Rows /\ history \in BOOLEAN
    /\ retentionValue \in Nat /\ retentionUnit \in {"hours", "days"} /\ showSysTopics \in BOOLEAN
    /\ historySize \in {"unknown", "some", "none"}
    /\ mcpEnabled \in BOOLEAN /\ copiedMcpKey \in General!CopyKeys \union {General!NoKey} /\ copyTimers \in Seq(General!CopyKeys)
    /\ calls \in Seq(Shapes)
    /\ loaded \in BOOLEAN /\ unsaved \in BOOLEAN /\ early \in BOOLEAN /\ astray \in BOOLEAN
GeneralSingle == \A i, j \in DOMAIN calls :
    calls[i].kind = calls[j].kind /\ calls[i].kind \in {"settings", "retention", "mcp"} => i = j
Waits(k) == \E i \in DOMAIN calls : calls[i].kind = k
SavingIsCall == retentionSaving = Waits("retention")
SwitchIsCall == mcpSaving = Waits("mcp")
LongEnough == \A i \in DOMAIN calls :
    calls[i].stage # "refused" /\ (calls[i].kind = "retention" => calls[i].values.hours >= General!Day)
(* Before the settings have come nothing is saved, after that they are not *)
(* on their way.                                                           *)
LoadedFirst == /\ ~loaded /\ ~early => ~Waits("retention") /\ ~Waits("mcp")
               /\ loaded => ~Waits("settings")
AsServed == ~early => \A i \in DOMAIN calls : calls[i].kind = "settings" /\ calls[i].stage = "served" =>
                          calls[i].values.hours = settings.hours /\ calls[i].values.sys = settings.sys
(* What is shown, and not edited since, is what is being saved, or what    *)
(* the server holds.                                                       *)
Matches(v) == v.hours = General!Hours(retentionValue, retentionUnit) /\ v.sys = showSysTopics
SavingShown == ~unsaved /\ ~early => \A i \in DOMAIN calls : calls[i].kind = "retention" => Matches(calls[i].values)
SavedShown ==
    loaded /\ ~unsaved /\ ~early /\ ~astray =>
        (\E i \in DOMAIN calls : calls[i].kind = "retention" /\ calls[i].stage = "sent") \/ Matches(settings)
GeneralInv ==
    /\ GeneralShaped /\ GeneralSingle /\ SavingIsCall /\ SwitchIsCall /\ LongEnough /\ LoadedFirst /\ AsServed
    /\ SavingShown /\ SavedShown

-----------------------------------------------------------------------------
(* Hours shown as days or hours are the same hours.                        *)
LEMMA HoursShown ==
  ASSUME NEW h \in Nat
  PROVE  General!Value(h) \in Nat /\ General!Unit(h) \in {"hours", "days"} /\ General!Hours(General!Value(h), General!Unit(h)) = h
<1>1. CASE h % General!Day = 0
  <2>1. h % 24 = 0 BY <1>1 DEF General!Day
  <2>2. h = 24 * (h \div 24) + (h % 24) OBVIOUS
  <2>3. h \div 24 \in Nat OBVIOUS
  <2>4. General!Value(h) = h \div 24 /\ General!Unit(h) = "days" BY <1>1 DEF General!Value, General!Unit, General!Day
  <2>5. General!Hours(General!Value(h), General!Unit(h)) = (h \div 24) * 24 BY <2>4 DEF General!Hours, General!Day
  <2> QED BY <2>1, <2>2, <2>3, <2>4, <2>5
<1>2. CASE h % General!Day # 0 BY <1>2 DEF General!Value, General!Unit, General!Hours
<1> QED BY <1>1, <1>2

LEMMA GoneCall ==
  ASSUME calls \in Seq(Shapes), NEW i \in DOMAIN calls
  PROVE  LET rest == General!RemoveAt(calls, i) IN
         /\ rest \in Seq(Shapes)
         /\ \A k \in DOMAIN rest : \E j \in DOMAIN calls \ {i} : rest[k] = calls[j] /\ j = (IF k < i THEN k ELSE k + 1)
         /\ \A j \in DOMAIN calls \ {i} : \E k \in DOMAIN rest : rest[k] = calls[j]
<1>1. PICK t : t = General!RemoveAt(calls, i) OBVIOUS
<1>2. t = SubSeq(calls, 1, i - 1) \o SubSeq(calls, i + 1, Len(calls)) BY <1>1 DEF General!RemoveAt
<1>3. t \in Seq(Shapes) /\ IsCut(t, calls, i) BY <1>2, Cut
<1> QED BY <1>1, <1>3, CutFrom

LEMMA GeneralInit == ASSUME General!SettingsFit, General!Init PROVE GeneralInv
<1>1. General!Call("settings") \in Shapes /\ General!Call("size") \in Shapes BY DEF General!Call, Shapes, Rows
<1>2. /\ calls \in Seq(Shapes) /\ DOMAIN calls = {1, 2} /\ calls[1].kind = "settings" /\ calls[2].kind = "size"
      /\ calls[1].stage = "sent" /\ calls[2].stage = "sent"
  BY <1>1 DEF General!Init, General!Call
<1>3. settings \in Rows /\ history \in BOOLEAN BY DEF General!Init, Rows, General!SettingsFit
<1>4. copyTimers \in Seq(General!CopyKeys) /\ copiedMcpKey \in General!CopyKeys \union {General!NoKey} BY DEF General!Init
<1>5. /\ retentionValue \in Nat /\ retentionUnit \in {"hours", "days"} /\ showSysTopics \in BOOLEAN
      /\ historySize \in {"unknown", "some", "none"} /\ mcpEnabled \in BOOLEAN
      /\ loaded \in BOOLEAN /\ unsaved \in BOOLEAN /\ early \in BOOLEAN /\ astray \in BOOLEAN
  BY DEF General!Init, General!Day
<1>6. GeneralShaped BY <1>2, <1>3, <1>4, <1>5 DEF GeneralShaped
<1> QED BY ZenonT(40), <1>2, <1>6 DEF General!Init, GeneralInv, GeneralSingle, SavingIsCall, SwitchIsCall, Waits, LongEnough, LoadedFirst, AsServed,
           SavingShown, SavedShown

(* A call is carried out.                                                  *)
LEMMA ServeShape ==
  ASSUME GeneralInv, NEW i \in DOMAIN calls, General!Serve(i)
  PROVE  /\ GeneralShaped' /\ DOMAIN calls' = DOMAIN calls
         /\ \A j \in DOMAIN calls : calls'[j].kind = calls[j].kind /\ (j # i => calls'[j] = calls[j])
         /\ calls[i].stage = "sent" /\ calls'[i].stage = "served"
         /\ calls'[i].values = IF calls[i].kind = "settings" THEN settings ELSE calls[i].values
         /\ UNCHANGED <<retentionValue, retentionUnit, showSysTopics, retentionSaving, mcpSaving, loaded, unsaved, early>>
         /\ calls[i].kind # "mcp" => UNCHANGED astray
         /\ calls[i].kind = "mcp" /\ ~astray' => ~astray
         /\ calls[i].kind # "retention" /\ (calls[i].kind = "mcp" => ~astray') =>
               settings'.hours = settings.hours /\ settings'.sys = settings.sys
         /\ calls[i].kind = "retention" =>
               settings'.hours = calls[i].values.hours /\ settings'.sys = calls[i].values.sys
<1>1. PICK c : c = calls[i] OBVIOUS
<1>0. calls \in Seq(Shapes) /\ settings \in Rows /\ history \in BOOLEAN BY DEF GeneralInv, GeneralShaped
<1>c. c \in Shapes BY <1>0, <1>1
<1>2. /\ c \in Shapes /\ c.kind \in {"settings", "size", "clear", "retention", "mcp"} /\ c.values \in Rows
      /\ calls \in Seq(Shapes) /\ settings \in Rows /\ history \in BOOLEAN
  BY <1>0, <1>c DEF Shapes
<1>3. c.kind = "retention" => ~General!Refused(c.values)
  BY <1>1, <1>2 DEF GeneralInv, LongEnough, General!Refused, Rows, General!Day
<1>4. PICK v : v = IF c.kind = "settings" THEN settings ELSE c.values OBVIOUS
<1>5. PICK d : d = [[[c EXCEPT !.stage = "served"] EXCEPT !.values = v] EXCEPT !.found = history] OBVIOUS
<1>6. calls' = [calls EXCEPT ![i] = d] /\ c.stage = "sent"
  BY <1>1, <1>2, <1>3, <1>4, <1>5 DEF General!Serve, General!Saved, Shapes
<1>7. d \in Shapes /\ d.kind = c.kind /\ d.stage = "served" /\ d.values = v
  BY <1>2, <1>4, <1>5 DEF Shapes
<1>8. calls' \in Seq(Shapes) /\ DOMAIN calls' = DOMAIN calls /\ \A j \in DOMAIN calls : calls'[j] = IF j = i THEN d ELSE calls[j]
  BY <1>2, <1>6, <1>7
<1>9. /\ c.kind = "retention" =>
           settings' = [hours |-> c.values.hours, sys |-> c.values.sys, mcp |-> c.values.mcp] /\ UNCHANGED astray
      /\ c.kind = "mcp" => \/ settings' = [settings EXCEPT !.mcp = c.values.mcp] /\ UNCHANGED astray
                           \/ settings' = [hours |-> 24, sys |-> FALSE, mcp |-> c.values.mcp] /\ astray' = TRUE
      /\ c.kind \notin {"retention", "mcp"} => UNCHANGED <<settings, astray>>
  BY <1>1, <1>2, <1>3 DEF General!Serve, General!UpdateSettings, General!PatchSettings, General!Day
<1>10. /\ settings' \in Rows
       /\ c.kind # "retention" /\ (c.kind = "mcp" => ~astray') =>
             settings'.hours = settings.hours /\ settings'.sys = settings.sys
       /\ c.kind = "retention" => settings'.hours = c.values.hours /\ settings'.sys = c.values.sys
       /\ astray' \in BOOLEAN /\ (c.kind # "mcp" => UNCHANGED astray) /\ (c.kind = "mcp" /\ ~astray' => ~astray)
  <2>0. astray \in BOOLEAN BY DEF GeneralInv, GeneralShaped
  <2>1. CASE c.kind = "retention" BY <1>2, <1>9, <2>0, <2>1 DEF Rows
  <2>2. CASE c.kind = "mcp" /\ settings' = [settings EXCEPT !.mcp = c.values.mcp] /\ UNCHANGED astray
    BY <1>2, <2>0, <2>2 DEF Rows
  <2>3. CASE c.kind = "mcp" /\ settings' = [hours |-> 24, sys |-> FALSE, mcp |-> c.values.mcp] /\ astray' = TRUE
    BY <1>2, <2>3 DEF Rows
  <2>4. CASE c.kind \notin {"retention", "mcp"} BY <1>2, <1>9, <2>0, <2>4
  <2> QED BY <1>9, <2>1, <2>2, <2>3, <2>4
<1>11. /\ UNCHANGED <<General!retention, General!storage, General!mcp, General!copying, loaded, unsaved, early, acts>>
       /\ history' \in BOOLEAN
  BY <1>2 DEF General!Serve
<1>b. UNCHANGED <<retentionValue, retentionUnit, showSysTopics, retentionSaving, mcpSaving, loaded, unsaved, early>>
  BY <1>11 DEF General!retention, General!mcp
<1>12. GeneralShaped' BY <1>8, <1>10, <1>11 DEF GeneralInv, GeneralShaped, General!retention, General!storage, General!mcp, General!copying
<1> QED BY <1>1, <1>4, <1>6, <1>7, <1>8, <1>10, <1>12, <1>b

LEMMA GeneralServeStep == ASSUME GeneralInv, NEW i \in DOMAIN calls, General!Serve(i) PROVE GeneralInv'
<1>2. /\ UNCHANGED <<retentionValue, retentionUnit, showSysTopics, retentionSaving, mcpSaving>>
      /\ UNCHANGED <<loaded, unsaved, early>>
  BY ServeShape
<1>3. /\ DOMAIN calls' = DOMAIN calls
      /\ \A j \in DOMAIN calls : calls'[j].kind = calls[j].kind /\ (j # i => calls'[j] = calls[j])
      /\ calls[i].stage = "sent" /\ calls'[i].stage = "served"
      /\ calls'[i].values = IF calls[i].kind = "settings" THEN settings ELSE calls[i].values
      /\ calls[i].kind # "mcp" => UNCHANGED astray
      /\ calls[i].kind = "mcp" /\ ~astray' => ~astray
      /\ calls[i].kind # "retention" /\ (calls[i].kind = "mcp" => ~astray') =>
            settings'.hours = settings.hours /\ settings'.sys = settings.sys
      /\ calls[i].kind = "retention" => settings'.hours = calls[i].values.hours /\ settings'.sys = calls[i].values.sys
  BY ServeShape
<1>4. GeneralSingle' BY <1>3 DEF GeneralInv, GeneralSingle
<1>5. \A k : Waits(k)' = Waits(k) BY <1>3 DEF Waits
<1>6. SavingIsCall' /\ SwitchIsCall' /\ LoadedFirst'
  BY <1>2, <1>5 DEF GeneralInv, SavingIsCall, SwitchIsCall, LoadedFirst
<1>7. LongEnough' BY <1>3 DEF GeneralInv, LongEnough
<1>8. AsServed'
  <2> SUFFICES ASSUME ~early, NEW j \in DOMAIN calls, calls'[j].kind = "settings", calls'[j].stage = "served"
               PROVE  calls'[j].values.hours = settings'.hours /\ calls'[j].values.sys = settings'.sys
    BY <1>2, <1>3 DEF AsServed
  <2>1. calls[j].kind = "settings" BY <1>3
  <2>2. calls[i].kind \notin {"retention", "mcp"} BY <1>2, <2>1 DEF GeneralInv, LoadedFirst, Waits
  <2>3. CASE j = i BY <1>3, <2>1, <2>2, <2>3
  <2>4. CASE j # i BY <1>3, <2>1, <2>2, <2>4 DEF GeneralInv, AsServed
  <2> QED BY <2>3, <2>4
<1>9. SavingShown'
  <2> SUFFICES ASSUME ~unsaved, ~early, NEW j \in DOMAIN calls, calls'[j].kind = "retention"
               PROVE  Matches(calls[j].values) /\ calls'[j].values = calls[j].values
    BY <1>2, <1>3 DEF SavingShown, Matches
  <2>1. calls[j].kind = "retention" BY <1>3
  <2>2. calls'[j].values = calls[j].values BY <1>3, <2>1
  <2> QED BY <2>1, <2>2 DEF GeneralInv, SavingShown
<1>10. SavedShown'
  <2> SUFFICES ASSUME loaded, ~unsaved, ~early, ~astray, ~astray'
               PROVE  (\E j \in DOMAIN calls : calls'[j].kind = "retention" /\ calls'[j].stage = "sent") \/ Matches(settings')
    BY <1>2, <1>3 DEF SavedShown, Matches
  <2>1. CASE calls[i].kind = "retention"
    <3>1. Matches(calls[i].values) BY <2>1 DEF GeneralInv, SavingShown
    <3> QED BY <1>3, <2>1, <3>1 DEF Matches
  <2>2. CASE calls[i].kind # "retention" /\ Matches(settings)
    BY <1>3, <2>2 DEF Matches
  <2>3. CASE calls[i].kind # "retention" /\ ~Matches(settings)
    <3>1. PICK j \in DOMAIN calls : calls[j].kind = "retention" /\ calls[j].stage = "sent"
      BY <2>3 DEF GeneralInv, SavedShown
    <3> QED BY <1>3, <2>3, <3>1
  <2> QED BY <2>1, <2>2, <2>3
<1> QED BY ServeShape, <1>4, <1>6, <1>7, <1>8, <1>9, <1>10 DEF GeneralInv

(* A call is over.                                                         *)
LEMMA OverCall ==
  ASSUME GeneralInv, NEW i \in DOMAIN calls, calls' = General!RemoveAt(calls, i)
  PROVE  /\ calls' \in Seq(Shapes)
         /\ \A k \in DOMAIN calls' : \E j \in DOMAIN calls \ {i} : calls'[k] = calls[j]
         /\ \A j \in DOMAIN calls \ {i} : \E k \in DOMAIN calls' : calls'[k] = calls[j]
         /\ GeneralSingle' /\ LongEnough'
         /\ \A k : Waits(k)' <=> \E j \in DOMAIN calls \ {i} : calls[j].kind = k
         /\ \A k \in {"settings", "retention", "mcp"} : Waits(k)' <=> Waits(k) /\ k # calls[i].kind
<1>0. PICK rest : rest = General!RemoveAt(calls, i) OBVIOUS
<1>1. /\ rest \in Seq(Shapes)
      /\ \A k \in DOMAIN rest : \E j \in DOMAIN calls \ {i} : rest[k] = calls[j] /\ j = (IF k < i THEN k ELSE k + 1)
      /\ \A j \in DOMAIN calls \ {i} : \E k \in DOMAIN rest : rest[k] = calls[j]
  BY <1>0, GoneCall DEF GeneralInv, GeneralShaped
<1>2. calls' = rest BY <1>0
<1>3. ASSUME NEW a \in DOMAIN rest, NEW b \in DOMAIN rest, rest[a].kind = rest[b].kind,
             rest[a].kind \in {"settings", "retention", "mcp"}
      PROVE  a = b
  <2>1. PICK j \in DOMAIN calls : rest[a] = calls[j] /\ j = (IF a < i THEN a ELSE a + 1) BY <1>1
  <2>2. PICK k \in DOMAIN calls : rest[b] = calls[k] /\ k = (IF b < i THEN b ELSE b + 1) BY <1>1
  <2>3. j = k BY <1>3, <2>1, <2>2 DEF GeneralInv, GeneralSingle
  <2>4. calls \in Seq(Shapes) BY DEF GeneralInv, GeneralShaped
  <2>5. DOMAIN calls = 1..Len(calls) /\ Len(calls) \in Nat /\ DOMAIN rest = 1..Len(rest) /\ Len(rest) \in Nat
    BY ONLY <1>1, <2>4, LenProperties
  <2>6. a \in Nat /\ b \in Nat /\ i \in Nat BY <2>5
  <2> QED BY <2>1, <2>2, <2>3, <2>6
<1>4. GeneralSingle' BY <1>2, <1>3 DEF GeneralSingle
<1>5. LongEnough' BY <1>1, <1>2 DEF GeneralInv, LongEnough
<1>6. ASSUME NEW k PROVE Waits(k)' <=> \E j \in DOMAIN calls \ {i} : calls[j].kind = k
  BY <1>1, <1>2 DEF Waits
<1>7. ASSUME NEW k \in {"settings", "retention", "mcp"} PROVE Waits(k)' <=> Waits(k) /\ k # calls[i].kind
  BY <1>6 DEF Waits, GeneralInv, GeneralSingle
<1> QED BY <1>1, <1>2, <1>4, <1>5, <1>6, <1>7

LEMMA GeneralAnsweredStep == ASSUME GeneralInv, NEW i \in DOMAIN calls, General!Answered(i) PROVE GeneralInv'
<1>1. PICK c : c = calls[i] OBVIOUS
<1>2. calls \in Seq(Shapes) BY DEF GeneralInv, GeneralShaped
<1>3. c \in Shapes BY <1>1, <1>2
<1>4. c.kind \in {"settings", "size", "clear", "retention", "mcp"} /\ c.values \in Rows /\ c.stage = "served"
  BY <1>1, <1>3 DEF Shapes, General!Answered
<1>5. /\ calls' = General!RemoveAt(calls, i) /\ UNCHANGED <<settings, history, copiedMcpKey, copyTimers, early, astray, acts>>
  BY DEF General!Answered, General!server, General!copying
<1>6. /\ calls' \in Seq(Shapes)
      /\ \A k \in DOMAIN calls' : \E j \in DOMAIN calls \ {i} : calls'[k] = calls[j]
      /\ \A j \in DOMAIN calls \ {i} : \E k \in DOMAIN calls' : calls'[k] = calls[j]
      /\ GeneralSingle' /\ LongEnough'
      /\ \A k \in {"settings", "retention", "mcp"} : Waits(k)' <=> Waits(k) /\ k # c.kind
  BY <1>1, <1>5, OverCall
<1>7. Waits(c.kind) BY <1>1 DEF Waits
<1>8. AsServed' BY <1>5, <1>6 DEF GeneralInv, AsServed
<1>16. /\ Waits("retention")' = (retentionSaving /\ c.kind # "retention")
       /\ Waits("mcp")' = (mcpSaving /\ c.kind # "mcp")
       /\ retentionSaving \in BOOLEAN /\ mcpSaving \in BOOLEAN
  <2>1. retentionSaving = Waits("retention") /\ mcpSaving = Waits("mcp") BY DEF GeneralInv, SavingIsCall, SwitchIsCall
  <2>2. /\ Waits("retention") \in BOOLEAN /\ Waits("mcp") \in BOOLEAN
        /\ Waits("retention")' \in BOOLEAN /\ Waits("mcp")' \in BOOLEAN
    BY DEF Waits
  <2>3. Waits("retention")' <=> Waits("retention") /\ "retention" # c.kind BY <1>6
  <2>4. Waits("mcp")' <=> Waits("mcp") /\ "mcp" # c.kind BY <1>6
  <2> QED BY <2>1, <2>2, <2>3, <2>4
<1>9. CASE c.kind = "settings"
  <2>1. General!OnSettings(c.values) BY <1>1, <1>9 DEF General!Answered
  <2>2. c.values.hours \in Nat /\ c.values.sys \in BOOLEAN /\ c.values.mcp \in BOOLEAN BY <1>4 DEF Rows
  <2>3. ~loaded BY <1>7, <1>9 DEF GeneralInv, LoadedFirst
  <2>4. /\ retentionValue' \in Nat /\ retentionUnit' \in {"hours", "days"} /\ showSysTopics' = c.values.sys
        /\ General!Hours(retentionValue', retentionUnit') = c.values.hours
    BY <2>1, <2>2, HoursShown DEF General!OnSettings
  <2>5. loaded' /\ ~unsaved' /\ mcpEnabled' = c.values.mcp /\ UNCHANGED <<retentionSaving, General!storage, mcpSaving>>
    BY <2>1 DEF General!OnSettings
  <2>6. GeneralShaped' BY <1>5, <1>6, <2>2, <2>4, <2>5, <2>1 DEF GeneralInv, GeneralShaped, General!storage, General!OnSettings
  <2>7. SavingIsCall' BY <1>9, <1>16, <2>5 DEF SavingIsCall
  <2>8. SwitchIsCall' BY <1>9, <1>16, <2>5 DEF SwitchIsCall
  <2>9. LoadedFirst' BY <1>6, <1>9, <2>5 DEF LoadedFirst
  <2>10. ~early => ~Waits("retention") BY <2>3 DEF GeneralInv, LoadedFirst
  <2>11. SavingShown' BY <1>5, <1>6, <2>10 DEF SavingShown, Waits
  <2>12. ~early => Matches(settings)'
    <3>1. ~early => c.values.hours = settings.hours /\ c.values.sys = settings.sys
      BY <1>1, <1>4, <1>9 DEF GeneralInv, AsServed
    <3> QED BY <1>5, <2>4, <3>1 DEF Matches
  <2>13. SavedShown' BY <1>5, <2>12 DEF SavedShown
  <2> QED BY <1>6, <1>8, <2>6, <2>7, <2>8, <2>9, <2>11, <2>13 DEF GeneralInv
<1>10. ASSUME c.kind # "settings",
              UNCHANGED <<retentionValue, retentionUnit, showSysTopics, loaded, unsaved>>,
              retentionSaving' = (retentionSaving /\ c.kind # "retention"),
              mcpSaving' = (mcpSaving /\ c.kind # "mcp"),
              mcpEnabled' \in BOOLEAN, historySize' \in {"unknown", "some", "none"}
       PROVE  GeneralInv'
  <2>1. GeneralShaped' BY <1>5, <1>6, <1>10 DEF GeneralInv, GeneralShaped
  <2>2. SavingIsCall' BY <1>10, <1>16 DEF SavingIsCall
  <2>3. SwitchIsCall' BY <1>10, <1>16 DEF SwitchIsCall
  <2>4. LoadedFirst' BY <1>5, <1>6, <1>10 DEF GeneralInv, LoadedFirst
  <2>5. SavingShown'
    <3> SUFFICES ASSUME ~unsaved, ~early, NEW k \in DOMAIN calls', calls'[k].kind = "retention"
                 PROVE  (Matches(calls[k].values))'
      BY <1>5, <1>10 DEF SavingShown
    <3>1. PICK j \in DOMAIN calls : calls'[k] = calls[j] BY <1>6
    <3>2. Matches(calls[j].values) BY <3>1 DEF GeneralInv, SavingShown
    <3> QED BY <1>10, <3>1, <3>2 DEF Matches
  <2>6. SavedShown'
    <3> SUFFICES ASSUME loaded, ~unsaved, ~early, ~astray
                 PROVE  (\E k \in DOMAIN calls' : calls'[k].kind = "retention" /\ calls'[k].stage = "sent") \/ Matches(settings)'
      BY <1>5, <1>10 DEF SavedShown
    <3>1. CASE Matches(settings) BY <1>5, <1>10, <3>1 DEF Matches
    <3>2. CASE ~Matches(settings)
      <4>1. PICK j \in DOMAIN calls : calls[j].kind = "retention" /\ calls[j].stage = "sent"
        BY <3>2 DEF GeneralInv, SavedShown
      <4>2. j # i BY <1>1, <1>4, <4>1
      <4> QED BY <1>6, <4>1, <4>2
    <3> QED BY <3>1, <3>2
  <2> QED BY <1>6, <1>8, <2>1, <2>2, <2>3, <2>4, <2>5, <2>6 DEF GeneralInv
<1>11. /\ retentionSaving \in BOOLEAN /\ mcpSaving \in BOOLEAN /\ mcpEnabled \in BOOLEAN
       /\ historySize \in {"unknown", "some", "none"}
  BY <1>16 DEF GeneralInv, GeneralShaped
<1>12. CASE c.kind = "size"
  <2>1. General!OnSize(c.found) BY <1>1, <1>12 DEF General!Answered
  <2> QED BY <1>10, <1>11, <1>12, <2>1 DEF General!OnSize, General!retention, General!mcp
<1>13. CASE c.kind = "clear"
  <2>1. General!OnCleared BY <1>1, <1>13 DEF General!Answered
  <2> QED BY <1>10, <1>11, <1>13, <2>1 DEF General!OnCleared, General!retention, General!mcp
<1>14. CASE c.kind = "retention"
  <2>1. General!OnRetention BY <1>1, <1>14 DEF General!Answered
  <2> QED BY <1>10, <1>11, <1>14, <2>1 DEF General!OnRetention, General!storage, General!mcp
<1>15. CASE c.kind = "mcp"
  <2>1. General!OnMcp(c.values.mcp) BY <1>1, <1>15 DEF General!Answered
  <2>2. c.values.mcp \in BOOLEAN BY <1>4 DEF Rows
  <2> QED BY <1>10, <1>11, <1>15, <2>1, <2>2 DEF General!OnMcp, General!retention, General!storage
<1> QED BY <1>4, <1>9, <1>12, <1>13, <1>14, <1>15

LEMMA FailedStep == ASSUME GeneralInv, NEW i \in DOMAIN calls, General!Failed(i) PROVE GeneralInv'
<1>1. PICK k : k = calls[i].kind OBVIOUS
<1>2. /\ calls' = General!RemoveAt(calls, i) /\ astray' = TRUE
      /\ retentionSaving' = (retentionSaving /\ k # "retention") /\ mcpSaving' = (mcpSaving /\ k # "mcp")
      /\ UNCHANGED <<settings, history, retentionValue, retentionUnit, showSysTopics, historySize, mcpEnabled>>
      /\ UNCHANGED <<copiedMcpKey, copyTimers, loaded, unsaved, early>>
  BY <1>1 DEF General!Failed, General!Saved, General!server, General!copying
<1>3. /\ calls' \in Seq(Shapes)
      /\ \A n \in DOMAIN calls' : \E j \in DOMAIN calls \ {i} : calls'[n] = calls[j]
      /\ GeneralSingle' /\ LongEnough'
      /\ \A n \in {"settings", "retention", "mcp"} : Waits(n)' <=> Waits(n) /\ n # k
  BY <1>1, <1>2, OverCall
<1>4. retentionSaving = Waits("retention") /\ mcpSaving = Waits("mcp") BY DEF GeneralInv, SavingIsCall, SwitchIsCall
<1>5. /\ Waits("retention") \in BOOLEAN /\ Waits("mcp") \in BOOLEAN
      /\ Waits("retention")' \in BOOLEAN /\ Waits("mcp")' \in BOOLEAN
  BY DEF Waits
<1>6. /\ Waits("retention")' <=> Waits("retention") /\ "retention" # k
      /\ Waits("mcp")' <=> Waits("mcp") /\ "mcp" # k
  BY <1>3
<1>7. SavingIsCall' /\ SwitchIsCall' BY <1>2, <1>4, <1>5, <1>6 DEF SavingIsCall, SwitchIsCall
<1>8. GeneralShaped' BY <1>2, <1>3 DEF GeneralInv, GeneralShaped
<1>9. LoadedFirst' BY <1>2, <1>3 DEF GeneralInv, LoadedFirst
<1>10. AsServed' BY <1>2, <1>3 DEF GeneralInv, AsServed
<1>11. SavingShown'
  <2> SUFFICES ASSUME ~unsaved, ~early, NEW n \in DOMAIN calls', calls'[n].kind = "retention"
               PROVE  (Matches(calls[n].values))'
    BY <1>2 DEF SavingShown
  <2>1. PICK j \in DOMAIN calls : calls'[n] = calls[j] BY <1>3
  <2>2. Matches(calls[j].values) BY <2>1 DEF GeneralInv, SavingShown
  <2> QED BY <1>2, <2>1, <2>2 DEF Matches
<1>12. SavedShown' BY <1>2 DEF SavedShown
<1> QED BY <1>3, <1>7, <1>8, <1>9, <1>10, <1>11, <1>12 DEF GeneralInv

-----------------------------------------------------------------------------
(* The user edits.                                                         *)
LEMMA EditStep ==
  ASSUME GeneralInv, General!Edit, retentionValue' \in Nat, retentionUnit' \in {"hours", "days"}, showSysTopics' \in BOOLEAN
  PROVE  GeneralInv'
<1>1. unsaved' /\ UNCHANGED <<settings, history, retentionSaving, historySize, mcpEnabled, mcpSaving, copiedMcpKey, copyTimers,
                              calls, loaded, early, astray>>
  BY DEF General!Edit, General!server, General!storage, General!mcp, General!copying
<1>2. GeneralShaped' BY <1>1 DEF GeneralInv, GeneralShaped, General!Edit
<1>3. GeneralSingle' /\ LongEnough' /\ LoadedFirst' /\ AsServed'
  BY <1>1 DEF GeneralInv, GeneralSingle, LongEnough, LoadedFirst, AsServed, Waits
<1>4. SavingIsCall' /\ SwitchIsCall' BY <1>1 DEF GeneralInv, SavingIsCall, SwitchIsCall, Waits
<1>5. SavingShown' /\ SavedShown' BY <1>1 DEF SavingShown, SavedShown
<1> QED BY <1>2, <1>3, <1>4, <1>5 DEF GeneralInv

(* The user sends a call of a new kind.                                    *)
LEMMA NewCall ==
  ASSUME GeneralInv, NEW c \in Shapes, calls' = Append(calls, c), c.stage = "sent",
         c.kind = "retention" => c.values.hours >= General!Day
  PROVE  /\ calls' \in Seq(Shapes) /\ calls' # <<>>
         /\ \A j \in DOMAIN calls' : calls'[j] = c \/ \E k \in DOMAIN calls : j = k /\ calls'[j] = calls[k]
         /\ \A j \in DOMAIN calls : j \in DOMAIN calls' /\ calls'[j] = calls[j]
         /\ \E j \in DOMAIN calls' : calls'[j] = c
         /\ LongEnough'
         /\ \A k : Waits(k)' <=> Waits(k) \/ k = c.kind
         /\ (c.kind \in {"settings", "retention", "mcp"} => ~Waits(c.kind)) => GeneralSingle'
<1>1. PICK n \in Nat : n = Len(calls) /\ DOMAIN calls = 1..n
  BY LenProperties DEF GeneralInv, GeneralShaped
<1>2. /\ calls' \in Seq(Shapes) /\ Len(calls') = n + 1 /\ calls'[n + 1] = c /\ \A j \in 1..n : calls'[j] = calls[j]
      /\ DOMAIN calls' = 1..(n + 1)
  BY <1>1 DEF GeneralInv, GeneralShaped
<1>3. \A j \in DOMAIN calls' : (j = n + 1 /\ calls'[j] = c) \/ (j \in DOMAIN calls /\ calls'[j] = calls[j])
  BY <1>1, <1>2
<1>4. \A j \in DOMAIN calls : j \in DOMAIN calls' /\ calls'[j] = calls[j] BY <1>1, <1>2
<1>5. n + 1 \in DOMAIN calls' /\ calls'[n + 1] = c BY <1>2
<1>6. LongEnough' BY <1>3 DEF GeneralInv, LongEnough
<1>7. ASSUME NEW k PROVE Waits(k)' <=> Waits(k) \/ k = c.kind BY <1>3, <1>4, <1>5 DEF Waits
<1>8. ASSUME c.kind \in {"settings", "retention", "mcp"} => ~Waits(c.kind) PROVE GeneralSingle'
  <2> SUFFICES ASSUME NEW a \in DOMAIN calls', NEW b \in DOMAIN calls', calls'[a].kind = calls'[b].kind,
                      calls'[a].kind \in {"settings", "retention", "mcp"}
               PROVE  a = b
    BY DEF GeneralSingle
  <2> QED BY <1>3, <1>8 DEF GeneralInv, GeneralSingle, Waits
<1> QED BY <1>2, <1>3, <1>4, <1>5, <1>6, <1>7, <1>8

LEMMA GeneralSaveStep == ASSUME GeneralInv, General!handleSaveRetention PROVE GeneralInv'
<1>1. PICK v : v = [hours |-> General!Hours(retentionValue, retentionUnit), sys |-> showSysTopics, mcp |-> FALSE] OBVIOUS
<1>2. PICK c : c = [General!Call("retention") EXCEPT !.values = v] OBVIOUS
<1>3. /\ retentionValue \in Nat /\ retentionUnit \in {"hours", "days"} /\ showSysTopics \in BOOLEAN
      /\ loaded \in BOOLEAN /\ early \in BOOLEAN
  BY DEF GeneralInv, GeneralShaped
<1>4. v \in Rows /\ Matches(v) /\ v.hours >= General!Day
  <2>1. General!Hours(retentionValue, retentionUnit) \in Nat BY <1>3 DEF General!Hours, General!Day
  <2>2. ~(General!Hours(retentionValue, retentionUnit) < General!Day) BY DEF General!handleSaveRetention, General!SaveOffered, General!TooShort
  <2> QED BY <1>1, <1>3, <2>1, <2>2 DEF Rows, Matches, General!Day
<1>5. c \in Shapes /\ c.kind = "retention" /\ c.stage = "sent" /\ c.values = v
  BY <1>2, <1>4 DEF General!Call, Shapes, Rows
<1>6. calls' = Append(calls, c) BY <1>1, <1>2 DEF General!handleSaveRetention
<1>7. /\ retentionSaving' = TRUE /\ unsaved' = FALSE /\ early' = (early \/ ~loaded) /\ ~retentionSaving
      /\ UNCHANGED <<settings, history, retentionValue, retentionUnit, showSysTopics, historySize, mcpEnabled, mcpSaving>>
      /\ UNCHANGED <<copiedMcpKey, copyTimers, loaded, astray>>
  BY DEF General!handleSaveRetention, General!SaveOffered, General!server, General!storage, General!mcp, General!copying
<1>8. /\ calls' \in Seq(Shapes) /\ LongEnough'
      /\ \A j \in DOMAIN calls' : calls'[j] = c \/ \E k \in DOMAIN calls : j = k /\ calls'[j] = calls[k]
      /\ \E j \in DOMAIN calls' : calls'[j] = c
      /\ \A k : Waits(k)' <=> Waits(k) \/ k = "retention"
      /\ ~Waits("retention") => GeneralSingle'
  BY <1>4, <1>5, <1>6, NewCall
<1>9. ~Waits("retention") BY <1>7 DEF GeneralInv, SavingIsCall
<1>10. GeneralShaped' BY <1>3, <1>7, <1>8 DEF GeneralInv, GeneralShaped
<1>11. Waits("retention")' BY <1>8
<1>12. Waits("mcp")' <=> Waits("mcp") BY <1>8
<1>13. SavingIsCall'
  <2>1. Waits("retention")' \in BOOLEAN BY DEF Waits
  <2> QED BY <1>7, <1>11, <2>1 DEF SavingIsCall
<1>14. SwitchIsCall'
  <2>1. Waits("mcp")' \in BOOLEAN /\ Waits("mcp") \in BOOLEAN BY DEF Waits
  <2> QED BY <1>7, <1>12, <2>1 DEF GeneralInv, SwitchIsCall
<1>15. LoadedFirst'
  <2>1. Waits("settings")' <=> Waits("settings") BY <1>8
  <2> QED BY <1>3, <1>7, <2>1 DEF GeneralInv, LoadedFirst
<1>16. AsServed' BY <1>5, <1>7, <1>8 DEF GeneralInv, AsServed
<1>17. SavingShown'
  <2> SUFFICES ASSUME NEW j \in DOMAIN calls', calls'[j].kind = "retention" PROVE (Matches(calls[j].values))'
    BY DEF SavingShown
  <2>1. calls'[j] = c BY <1>8, <1>9 DEF Waits
  <2> QED BY <1>4, <1>5, <1>7, <2>1 DEF Matches
<1>18. SavedShown' BY <1>5, <1>8 DEF SavedShown
<1> QED BY <1>8, <1>9, <1>10, <1>13, <1>14, <1>15, <1>16, <1>17, <1>18 DEF GeneralInv

(* Of the other two buttons, one sends a change of the switch, the other   *)
(* the order to clear.                                                     *)
LEMMA OtherCall ==
  ASSUME GeneralInv, NEW c \in Shapes, calls' = Append(calls, c), c.stage = "sent", c.kind \in {"mcp", "clear"},
         c.kind = "mcp" => ~mcpSaving /\ mcpSaving' = TRUE /\ early' = (early \/ ~loaded),
         c.kind = "clear" => UNCHANGED <<mcpSaving, early>>,
         UNCHANGED <<settings, history, General!retention, historySize, mcpEnabled, General!copying, loaded, unsaved, astray>>
  PROVE  GeneralInv'
<1>1. /\ UNCHANGED <<settings, history, retentionValue, retentionUnit, showSysTopics, retentionSaving, historySize, mcpEnabled>>
      /\ UNCHANGED <<copiedMcpKey, copyTimers, loaded, unsaved, astray>>
  BY DEF General!retention, General!copying
<1>2. /\ calls' \in Seq(Shapes) /\ LongEnough'
      /\ \A j \in DOMAIN calls' : calls'[j] = c \/ \E k \in DOMAIN calls : j = k /\ calls'[j] = calls[k]
      /\ \A j \in DOMAIN calls : j \in DOMAIN calls' /\ calls'[j] = calls[j]
      /\ \A k : Waits(k)' <=> Waits(k) \/ k = c.kind
      /\ (c.kind \in {"settings", "retention", "mcp"} => ~Waits(c.kind)) => GeneralSingle'
  BY NewCall
<1>3. retentionSaving = Waits("retention") /\ mcpSaving = Waits("mcp") BY DEF GeneralInv, SavingIsCall, SwitchIsCall
<1>4. GeneralSingle' BY <1>2, <1>3
<1>5. early \in BOOLEAN /\ loaded \in BOOLEAN BY DEF GeneralInv, GeneralShaped
<1>6. early' \in BOOLEAN /\ (early => early') /\ (c.kind = "mcp" /\ ~loaded => early') BY <1>5
<1>7. GeneralShaped' BY <1>1, <1>2, <1>6 DEF GeneralInv, GeneralShaped
<1>8. /\ Waits("retention") \in BOOLEAN /\ Waits("mcp") \in BOOLEAN
      /\ Waits("retention")' \in BOOLEAN /\ Waits("mcp")' \in BOOLEAN
  BY DEF Waits
<1>9. /\ Waits("retention")' <=> Waits("retention")
      /\ Waits("mcp")' <=> Waits("mcp") \/ "mcp" = c.kind
      /\ Waits("settings")' <=> Waits("settings")
  BY <1>2
<1>10. SavingIsCall' BY <1>1, <1>3, <1>8, <1>9 DEF SavingIsCall
<1>11. SwitchIsCall'
  <2>1. CASE c.kind = "mcp" BY <1>8, <1>9, <2>1 DEF SwitchIsCall
  <2>2. CASE c.kind = "clear" BY <1>3, <1>8, <1>9, <2>2 DEF SwitchIsCall
  <2> QED BY <2>1, <2>2
<1>12. LoadedFirst' BY <1>1, <1>6, <1>9 DEF GeneralInv, LoadedFirst
<1>13. AsServed' BY <1>1, <1>2, <1>6 DEF GeneralInv, AsServed
<1>14. SavingShown'
  <2> SUFFICES ASSUME ~unsaved, ~early, NEW j \in DOMAIN calls', calls'[j].kind = "retention"
               PROVE  (Matches(calls[j].values))'
    BY <1>1, <1>6 DEF SavingShown
  <2>1. PICK k \in DOMAIN calls : calls'[j] = calls[k] BY <1>2
  <2>2. Matches(calls[k].values) BY <2>1 DEF GeneralInv, SavingShown
  <2> QED BY <1>1, <2>1, <2>2 DEF Matches
<1>15. SavedShown'
  <2> SUFFICES ASSUME loaded, ~unsaved, ~early, ~astray
               PROVE  (\E k \in DOMAIN calls' : calls'[k].kind = "retention" /\ calls'[k].stage = "sent") \/ Matches(settings)'
    BY <1>1, <1>6 DEF SavedShown
  <2>1. CASE Matches(settings) BY <1>1, <2>1 DEF Matches
  <2>2. CASE ~Matches(settings)
    <3>1. PICK j \in DOMAIN calls : calls[j].kind = "retention" /\ calls[j].stage = "sent"
      BY <2>2 DEF GeneralInv, SavedShown
    <3> QED BY <1>2, <3>1
  <2> QED BY <2>1, <2>2
<1> QED BY <1>2, <1>4, <1>7, <1>10, <1>11, <1>12, <1>13, <1>14, <1>15 DEF GeneralInv

LEMMA GeneralToggleStep == ASSUME GeneralInv, General!handleToggleMCP PROVE GeneralInv'
<1>1. PICK c : c = [General!Call("mcp") EXCEPT !.values.mcp = ~mcpEnabled] OBVIOUS
<1>2. c \in Shapes /\ c.kind = "mcp" /\ c.stage = "sent" BY <1>1 DEF General!Call, Shapes, Rows
<1> QED BY <1>1, <1>2, OtherCall DEF General!handleToggleMCP, General!server, General!storage

LEMMA ClearStep == ASSUME GeneralInv, General!handleClearHistory PROVE GeneralInv'
<1>1. PICK c : c = General!Call("clear") OBVIOUS
<1>2. c \in Shapes /\ c.kind = "clear" /\ c.stage = "sent" BY <1>1 DEF General!Call, Shapes, Rows
<1> QED BY <1>1, <1>2, OtherCall DEF General!handleClearHistory, General!server, General!mcp, General!ghosts

(* What else changes is not of the calls, the settings or what is shown of them. *)
LEMMA OtherStep ==
  ASSUME GeneralInv, UNCHANGED <<settings, General!retention, General!mcp, calls, General!ghosts>>,
         history' \in BOOLEAN, historySize' = historySize, copiedMcpKey' \in General!CopyKeys \union {General!NoKey}, copyTimers' \in Seq(General!CopyKeys)
  PROVE  GeneralInv'
<1>1. /\ UNCHANGED <<settings, retentionValue, retentionUnit, showSysTopics, retentionSaving, mcpEnabled, mcpSaving, calls>>
      /\ UNCHANGED <<loaded, unsaved, early, astray>>
  BY DEF General!retention, General!mcp, General!ghosts
<1>2. GeneralShaped' BY <1>1 DEF GeneralInv, GeneralShaped
<1>3. GeneralSingle' /\ SavingIsCall' /\ SwitchIsCall' /\ LongEnough' /\ LoadedFirst'
  BY <1>1 DEF GeneralInv, GeneralSingle, SavingIsCall, SwitchIsCall, LongEnough, LoadedFirst, Waits
<1>4. AsServed' /\ SavingShown' /\ SavedShown'
  BY <1>1 DEF GeneralInv, AsServed, SavingShown, SavedShown, Matches
<1> QED BY <1>2, <1>3, <1>4 DEF GeneralInv

LEMMA GeneralKept == ASSUME General!SettingsFit PROVE GeneralRuns => []GeneralInv
<1>1. General!Init => GeneralInv BY GeneralInit
<1>2. ASSUME GeneralInv, [General!Next]_(General!vars) PROVE GeneralInv'
  <2>0. /\ history \in BOOLEAN /\ copiedMcpKey \in General!CopyKeys \union {General!NoKey} /\ copyTimers \in Seq(General!CopyKeys)
        /\ retentionValue \in Nat /\ retentionUnit \in {"hours", "days"} /\ showSysTopics \in BOOLEAN
    BY <1>2 DEF GeneralInv, GeneralShaped
  <2>1. CASE General!MessageStored BY <1>2, <2>0, <2>1, OtherStep DEF General!MessageStored, General!storage, General!copying
  <2>2. ASSUME NEW n \in Values, General!TypeValue(n) PROVE GeneralInv'
    BY <1>2, <2>0, <2>2, EditStep DEF General!TypeValue, General!SettingsFit
  <2>3. ASSUME NEW u \in {"hours", "days"}, General!ChooseUnit(u) PROVE GeneralInv'
    BY <1>2, <2>0, <2>3, EditStep DEF General!ChooseUnit
  <2>4. CASE General!ToggleSys BY <1>2, <2>0, <2>4, EditStep DEF General!ToggleSys
  <2>5. ASSUME NEW b \in BOOLEAN, General!Confirm(b) PROVE GeneralInv'
    BY <1>2, <2>0, <2>5, OtherStep DEF General!Confirm, General!server, General!copying
  <2>6. ASSUME NEW k \in General!CopyKeys, General!handleCopyMcpText(k) PROVE GeneralInv'
    <3>1. copyTimers' \in Seq(General!CopyKeys) BY <2>0, <2>6 DEF General!handleCopyMcpText
    <3> QED BY <1>2, <2>0, <2>6, <3>1, OtherStep DEF General!handleCopyMcpText, General!server, General!storage
  <2>7. CASE General!CopyTimer
    <3>1. copyTimers' \in Seq(General!CopyKeys) /\ copiedMcpKey' \in General!CopyKeys \union {General!NoKey}
      BY <2>0, <2>7 DEF General!CopyTimer, General!Unmark
    <3> QED BY <1>2, <2>0, <2>7, <3>1, OtherStep DEF General!CopyTimer, General!server, General!storage
  <2>8. CASE UNCHANGED General!vars BY <1>2, <2>0, <2>8, OtherStep DEF General!vars, General!server, General!storage, General!copying
  <2> QED BY <1>2, <2>1, <2>2, <2>3, <2>4, <2>5, <2>6, <2>7, <2>8, GeneralServeStep, GeneralAnsweredStep, FailedStep, GeneralSaveStep, GeneralToggleStep, ClearStep
          DEF General!Next
<1> QED BY <1>1, <1>2, PTL DEF GeneralRuns

(* Whatever the user types, saves and switches and in which order the      *)
(* server answers, the general tab's values keep their types, a button     *)
(* that waits has its one call under way, and so has the switch            *)
(* (ConfigPage.tsx).                                                       *)
THEOREM GeneralTyped == ASSUME General!SettingsFit PROVE GeneralRuns => []General!TypeOK
<1>1. GeneralInv => General!TypeOK
  <2> SUFFICES ASSUME GeneralInv PROVE General!TypeOK OBVIOUS
  <2>1. settings.hours \in Nat /\ settings.sys \in BOOLEAN /\ settings.mcp \in BOOLEAN
    <3>1. settings \in Rows BY DEF GeneralInv, GeneralShaped
    <3> QED BY <3>1 DEF Rows
  <2> QED BY <2>1 DEF GeneralInv, GeneralShaped, SavingIsCall, SwitchIsCall, Waits, General!TypeOK
<1> QED BY <1>1, GeneralKept, PTL

(* Once the settings were loaded, and as long as nothing typed is unsaved, *)
(* the retention that is shown is what the server holds or is about to     *)
(* hold (ConfigPage.tsx, the loading of the settings and the save of the   *)
(* retention).                                                             *)
THEOREM RetentionIsShown == ASSUME General!SettingsFit PROVE GeneralRuns => []General!RetentionShown
<1>1. GeneralInv => General!RetentionShown
  <2> SUFFICES ASSUME GeneralInv, calls = <<>>, loaded, ~unsaved, ~early, ~astray PROVE Matches(settings)
    BY DEF General!RetentionShown, Matches
  <2>1. DOMAIN calls = {} OBVIOUS
  <2> QED BY <2>1 DEF GeneralInv, SavedShown
<1> QED BY <1>1, GeneralKept, PTL

(* The server refuses no retention that the tab lets the user save         *)
(* (ConfigPage.tsx, the lower bound of the field against the one of the    *)
(* handler).                                                               *)
THEOREM NoSaveRefused == ASSUME General!SettingsFit PROVE GeneralRuns => []General!SavesAccepted
<1>1. GeneralInv => General!SavesAccepted BY DEF GeneralInv, LongEnough, General!SavesAccepted
<1> QED BY <1>1, GeneralKept, PTL


-----------------------------------------------------------------------------
(***************************************************************************)
(* The brokers' settings (BrokerSettings).  What a form holds was read     *)
(* from its own broker or typed into it (Owned), and so is what a call     *)
(* carries; the list follows from the one call that is about to bring it   *)
(* (Settled).                                                              *)
(***************************************************************************)
(* What is known of Kept, of the one that the page of the brokers uses. *)
LEMMA SettingsKept == \A s, S : Settings!Kept(s, S) = Kept(s, S)
BY DEF Settings!Kept, Kept

LEMMA SettingsKeptForm ==
  ASSUME NEW T, NEW s \in Seq(T), NEW S
  PROVE  Settings!Kept(s, S) \in Seq(T) /\ IsKept(Settings!Kept(s, S), s, S, Len(s))
BY KeptForm, SettingsKept

LEMMA SettingsKeptSet ==
  ASSUME NEW T, NEW s \in Seq(T), NEW S
  PROVE  /\ \A a \in DOMAIN Settings!Kept(s, S) : Settings!Kept(s, S)[a] \in S /\ \E i \in DOMAIN s : Settings!Kept(s, S)[a] = s[i]
         /\ \A i \in DOMAIN s : s[i] \in S => \E a \in DOMAIN Settings!Kept(s, S) : Settings!Kept(s, S)[a] = s[i]
BY KeptSet, SettingsKept

LEMMA SettingsKeptAll ==
  ASSUME NEW T, NEW s \in Seq(T), NEW S, \A i \in 1..Len(s) : s[i] \in S
  PROVE  Settings!Kept(s, S) = s
BY KeptAll, SettingsKept

LEMMA SettingsKeptNone ==
  ASSUME NEW T, NEW s \in Seq(T), NEW S, \A i \in 1..Len(s) : s[i] \notin S
  PROVE  Settings!Kept(s, S) = <<>>
BY KeptNone, SettingsKept

LEMMA SettingsKeptMap ==
  ASSUME NEW T, NEW s \in Seq(T), NEW U, NEW u \in Seq(U), NEW S, NEW R, NEW f,
         Len(u) = Len(s), \A i \in 1..Len(s) : u[i] = f[s[i]] /\ (u[i] \in R <=> s[i] \in S)
  PROVE  /\ Len(Settings!Kept(u, R)) = Len(Settings!Kept(s, S))
         /\ \A a \in 1..Len(Settings!Kept(s, S)) : Settings!Kept(u, R)[a] = f[Settings!Kept(s, S)[a]]
BY SMTT(40), KeptMap, SettingsKept

(* Its runs, with no fairness assumed. *)
BrokerRuns == Settings!Init /\ [][Settings!Next]_(Settings!vars)

-----------------------------------------------------------------------------
(* Lists of brokers.                                                       *)
Unique(list) == \A i, j \in DOMAIN list : list[i].id = list[j].id => i = j
(* t has entries of s, each once.                                          *)
Within(t, s) ==
    \E m \in [DOMAIN t -> DOMAIN s] :
        /\ \A a \in DOMAIN t : t[a] = s[m[a]]
        /\ \A a, b \in DOMAIN t : m[a] = m[b] => a = b

LEMMA RowIs ==
  ASSUME NEW list, NEW id, Settings!Has(list, id)
  PROVE  \E i \in DOMAIN list : Settings!Row(list, id) = list[i] /\ list[i].id = id
<1>1. \E i \in DOMAIN list : list[i].id = id BY DEF Settings!Has
<1>2. PICK i \in DOMAIN list : list[i].id = id /\ i = CHOOSE k \in DOMAIN list : list[k].id = id BY <1>1
<1> QED BY <1>2 DEF Settings!Row

LEMMA RowAt ==
  ASSUME NEW list, Unique(list), NEW i \in DOMAIN list
  PROVE  Settings!Row(list, list[i].id) = list[i] /\ Settings!Has(list, list[i].id)
<1>1. Settings!Has(list, list[i].id) BY DEF Settings!Has
<1>2. PICK k \in DOMAIN list : Settings!Row(list, list[i].id) = list[k] /\ list[k].id = list[i].id BY <1>1, RowIs
<1>3. k = i BY <1>2 DEF Unique
<1> QED BY <1>1, <1>2, <1>3

LEMMA WithinKeeps ==
  ASSUME NEW t, NEW s, Within(t, s)
  PROVE  /\ Unique(s) => Unique(t)
         /\ \A a \in DOMAIN t : \E i \in DOMAIN s : t[a] = s[i]
         /\ \A id : Settings!Has(t, id) => Settings!Has(s, id)
<1>1. PICK m \in [DOMAIN t -> DOMAIN s] :
        /\ \A a \in DOMAIN t : t[a] = s[m[a]]
        /\ \A a, b \in DOMAIN t : m[a] = m[b] => a = b
  BY DEF Within
<1>2. \A a \in DOMAIN t : m[a] \in DOMAIN s BY <1>1
<1>3. Unique(s) => Unique(t) BY <1>1, <1>2 DEF Unique
<1>4. \A id : Settings!Has(t, id) => Settings!Has(s, id) BY <1>1, <1>2 DEF Settings!Has
<1> QED BY <1>1, <1>2, <1>3, <1>4

LEMMA KeptWithin ==
  ASSUME NEW T, NEW s \in Seq(T), NEW D
  PROVE  Settings!Kept(s, D) \in Seq(T) /\ Within(Settings!Kept(s, D), s)
<1>1. PICK t : t = Settings!Kept(s, D) OBVIOUS
<1>2. t \in Seq(T) /\ IsKept(t, s, D, Len(s)) BY <1>1, SettingsKeptForm
<1>3. DOMAIN t = 1..Len(t) /\ DOMAIN s = 1..Len(s) /\ Len(t) \in Nat /\ Len(s) \in Nat BY <1>2
<1>4. PICK m \in [1..Len(t) -> 1..Len(s)] :
          /\ \A a \in 1..Len(t) : t[a] = s[m[a]] /\ s[m[a]] \in D
          /\ \A a, b \in 1..Len(t) : a < b => m[a] < m[b]
  BY <1>2 DEF IsKept
<1>5. \A a, b \in 1..Len(t) : m[a] = m[b] => a = b
  <2> SUFFICES ASSUME NEW a \in 1..Len(t), NEW b \in 1..Len(t), m[a] = m[b], a # b PROVE FALSE OBVIOUS
  <2>1. m[a] \in Int /\ m[b] \in Int BY <1>3, <1>4
  <2>2. a < b \/ b < a BY <1>3
  <2> QED BY <1>4, <2>1, <2>2
<1>6. Within(t, s) BY <1>3, <1>4, <1>5 DEF Within
<1> QED BY <1>1, <1>2, <1>6

LEMMA WithoutIs ==
  ASSUME NEW T, NEW s \in Seq(T), NEW id
  PROVE  /\ Settings!Without(s, id) \in Seq(T) /\ Within(Settings!Without(s, id), s)
         /\ ~Settings!Has(Settings!Without(s, id), id)
         /\ \A i \in DOMAIN s : s[i].id # id => Settings!Has(Settings!Without(s, id), s[i].id)
<1>1. PICK D : D = {r \in Settings!ToSet(s) : r.id # id} OBVIOUS
<1>2. PICK t : t = Settings!Kept(s, D) /\ t = Settings!Without(s, id) BY <1>1 DEF Settings!Without
<1>3. t \in Seq(T) /\ Within(t, s) BY ONLY <1>2, s \in Seq(T), KeptWithin
<1>4. /\ \A a \in DOMAIN t : t[a] \in D /\ \E i \in DOMAIN s : t[a] = s[i]
      /\ \A i \in DOMAIN s : s[i] \in D => \E a \in DOMAIN t : t[a] = s[i]
  <2>1. t = Settings!Kept(s, D) BY <1>2
  <2>2. /\ \A a \in DOMAIN Settings!Kept(s, D) : Settings!Kept(s, D)[a] \in D /\ \E i \in DOMAIN s : Settings!Kept(s, D)[a] = s[i]
        /\ \A i \in DOMAIN s : s[i] \in D => \E a \in DOMAIN Settings!Kept(s, D) : Settings!Kept(s, D)[a] = s[i]
    BY ONLY s \in Seq(T), SettingsKeptSet
  <2> QED BY ONLY <2>1, <2>2
<1>5. ~Settings!Has(t, id) BY <1>1, <1>4 DEF Settings!Has
<1>6. \A i \in DOMAIN s : s[i].id # id => s[i] \in D BY <1>1 DEF Settings!ToSet
<1>7. \A i \in DOMAIN s : s[i].id # id => Settings!Has(t, s[i].id) BY <1>4, <1>6 DEF Settings!Has
<1> QED BY <1>2, <1>3, <1>5, <1>7

LEMMA ReplaceIs ==
  ASSUME NEW T, NEW s \in Seq(T), NEW row \in T
  PROVE  /\ Settings!Replace(s, row) \in Seq(T) /\ DOMAIN Settings!Replace(s, row) = DOMAIN s /\ Len(Settings!Replace(s, row)) = Len(s)
         /\ \A i \in DOMAIN s : Settings!Replace(s, row)[i] = IF s[i].id = row.id THEN row ELSE s[i]
         /\ \A i \in DOMAIN s : Settings!Replace(s, row)[i].id = s[i].id
         /\ \A id : Settings!Has(Settings!Replace(s, row), id) <=> Settings!Has(s, id)
         /\ Unique(s) => Unique(Settings!Replace(s, row))
<1>1. PICK n \in Nat : n = Len(s) /\ DOMAIN s = 1..n /\ \A i \in 1..n : s[i] \in T BY LenProperties, ElementOfSeq
<1>2. PICK t : t = Settings!Replace(s, row) OBVIOUS
<1>3. t = [i \in 1..n |-> IF s[i].id = row.id THEN row ELSE s[i]] BY <1>1, <1>2 DEF Settings!Replace
<1>4. \A i \in 1..n : t[i] = (IF s[i].id = row.id THEN row ELSE s[i]) /\ t[i].id = s[i].id /\ t[i] \in T BY <1>1, <1>3
<1>5. t \in Seq(T) /\ Len(t) = n /\ DOMAIN t = 1..n BY <1>3, <1>4
<1>6. \A id : Settings!Has(t, id) <=> Settings!Has(s, id) BY <1>1, <1>4, <1>5 DEF Settings!Has
<1>7. Unique(s) => Unique(t) BY <1>1, <1>4, <1>5 DEF Unique
<1> QED BY <1>1, <1>2, <1>4, <1>5, <1>6, <1>7

LEMMA FirstIs ==
  ASSUME NEW T, NEW s \in Seq(T), s # <<>>
  PROVE  \E i \in DOMAIN s : Settings!First(s) = s[i]
<1>1. PICK D : D = {r \in Settings!ToSet(s) : r.enabled} OBVIOUS
<1>2. PICK t : t = Settings!Kept(s, D) /\ t = Settings!Enabled(s) BY <1>1 DEF Settings!Enabled
<1>3. t \in Seq(T) /\ Within(t, s) BY ONLY <1>2, s \in Seq(T), KeptWithin
<1>4. \A a \in DOMAIN t : \E i \in DOMAIN s : t[a] = s[i] BY <1>3, WithinKeeps
<1>5. CASE t # <<>>
  <2>1. 1 \in DOMAIN t /\ Head(t) = t[1] BY <1>3, <1>5
  <2> QED BY <1>2, <1>4, <1>5, <2>1 DEF Settings!First
<1>6. CASE t = <<>>
  <2>1. 1 \in DOMAIN s /\ Head(s) = s[1] OBVIOUS
  <2> QED BY <1>2, <1>6, <2>1 DEF Settings!First
<1> QED BY <1>5, <1>6

(* An entry put into a list (InsertAt). *)
LEMMA PutIs ==
  ASSUME NEW S, NEW s \in Seq(S), NEW i \in Nat, 1 <= i, i <= Len(s) + 1, NEW e \in S
  PROVE  /\ Settings!InsertAt(s, i, e) \in Seq(S) /\ Len(Settings!InsertAt(s, i, e)) = Len(s) + 1
         /\ \A k \in 1..(Len(s) + 1) :
              Settings!InsertAt(s, i, e)[k] = IF k < i THEN s[k] ELSE IF k = i THEN e ELSE s[k - 1]
<1>0. PICK t : t = Settings!InsertAt(s, i, e) /\ t = SubSeq(s, 1, i - 1) \o <<e>> \o SubSeq(s, i, Len(s)) BY DEF Settings!InsertAt
<1>1. PICK n \in Nat : n = Len(s) /\ \A k \in 1..n : s[k] \in S BY LenProperties, ElementOfSeq
<1>a. i \in Int /\ 1 <= i /\ i <= n + 1 BY <1>1
<1>2. i - 1 \in Int /\ i \in Int /\ (\A k \in 1..(i - 1) : s[k] \in S) /\ \A k \in i..n : s[k] \in S
  BY <1>1, <1>a
<1>3. PICK a : a = SubSeq(s, 1, i - 1) OBVIOUS
<1>4. PICK b : b = SubSeq(s, i, n) OBVIOUS
<1>5. a \in Seq(S) /\ Len(a) = i - 1 /\ \A k \in 1..(i - 1) : a[k] = s[k]
  <2>1. /\ a \in Seq(S) /\ Len(a) = (IF 1 <= i - 1 THEN (i - 1) - 1 + 1 ELSE 0)
        /\ \A k \in 1..((i - 1) - 1 + 1) : a[k] = s[1 + k - 1]
    BY ONLY <1>2, <1>3, SubSeqProperties
  <2> QED BY <1>1, <2>1
<1>6. b \in Seq(S) /\ Len(b) = n - i + 1 /\ \A k \in 1..(n - i + 1) : b[k] = s[i + k - 1]
  <2>1. /\ b \in Seq(S) /\ Len(b) = (IF i <= n THEN n - i + 1 ELSE 0)
        /\ \A k \in 1..(n - i + 1) : b[k] = s[i + k - 1]
    BY ONLY <1>1, <1>2, <1>4, SubSeqProperties
  <2>2. Len(b) = n - i + 1 BY <1>1, <2>1
  <2> QED BY ONLY <2>1, <2>2
<1>7. PICK c : c = Append(a, e) OBVIOUS
<1>8. c \in Seq(S) /\ Len(c) = i /\ (\A k \in 1..(i - 1) : c[k] = s[k]) /\ c[i] = e
  <2>1. c \in Seq(S) /\ Len(c) = Len(a) + 1 /\ (\A k \in 1..Len(a) : c[k] = a[k]) /\ c[Len(a) + 1] = e
    BY ONLY <1>5, <1>7, e \in S, AppendProperties
  <2>2. Len(a) + 1 = i BY <1>1, <1>5
  <2> QED BY <1>5, <2>1, <2>2
<1>9. a \o <<e>> = c BY <1>5, <1>7
<1>10. t = c \o b BY <1>0, <1>1, <1>3, <1>4, <1>9
<1>11. /\ t \in Seq(S) /\ Len(t) = Len(c) + Len(b)
       /\ \A k \in 1..(Len(c) + Len(b)) : t[k] = IF k <= Len(c) THEN c[k] ELSE b[k - Len(c)]
  <2>1. c \in Seq(S) BY <1>8
  <2>2. b \in Seq(S) BY <1>6
  <2>3. /\ c \o b \in Seq(S) /\ Len(c \o b) = Len(c) + Len(b)
        /\ \A k \in 1..(Len(c) + Len(b)) : (c \o b)[k] = IF k <= Len(c) THEN c[k] ELSE b[k - Len(c)]
    BY ONLY <2>1, <2>2, ConcatProperties
  <2> QED BY ONLY <1>10, <2>3
<1>12. Len(t) = n + 1 BY ONLY <1>1, <1>a, <1>6, <1>8, <1>11
<1>13. ASSUME NEW k \in 1..(n + 1) PROVE t[k] = IF k < i THEN s[k] ELSE IF k = i THEN e ELSE s[k - 1]
  <2>0. t[k] = IF k <= i THEN c[k] ELSE b[k - i]
    <3>1. Len(c) = i /\ Len(c) + Len(b) = n + 1 BY ONLY <1>1, <1>a, <1>6, <1>8
    <3> QED BY ONLY <1>11, <1>13, <3>1
  <2>1. CASE k < i
    <3>1. k \in 1..(i - 1) /\ k <= i BY <1>1, <2>1
    <3> QED BY <1>8, <2>0, <2>1, <3>1
  <2>2. CASE k = i
    <3>1. k <= i /\ ~(k < i) BY ONLY <1>a, <2>2
    <3> QED BY ONLY <1>8, <2>0, <2>2, <3>1
  <2>3. CASE k > i
    <3>1. k - i \in 1..(n - i + 1) /\ ~(k <= i) /\ i + (k - i) - 1 = k - 1 /\ ~(k < i) /\ k # i BY <1>1, <1>13, <2>3
    <3>2. b[k - i] = s[i + (k - i) - 1] BY <1>6, <3>1
    <3> QED BY <2>0, <3>1, <3>2
  <2>4. k < i \/ k = i \/ k > i BY ONLY <1>1, <1>a, <1>13
  <2> QED BY <2>1, <2>2, <2>3, <2>4
<1>14. Len(s) = n BY <1>1
<1> QED BY ONLY <1>0, <1>11, <1>12, <1>13, <1>14

(* A moved entry: the list has the same entries, each once. *)
LEMMA MoveIs ==
  ASSUME NEW S, NEW s \in Seq(S), NEW from \in DOMAIN s, NEW to \in DOMAIN s
  PROVE  /\ Settings!arrayMove(s, from, to) \in Seq(S)
         /\ Within(Settings!arrayMove(s, from, to), s)
         /\ \A i \in DOMAIN s : \E k \in DOMAIN Settings!arrayMove(s, from, to) : Settings!arrayMove(s, from, to)[k] = s[i]
<1>1. PICK n \in Nat : n = Len(s) /\ DOMAIN s = 1..n /\ \A k \in 1..n : s[k] \in S BY LenProperties, ElementOfSeq
<1>2. PICK u : u = Settings!RemoveAt(s, from) OBVIOUS
<1>3. u \in Seq(S) /\ IsCut(u, s, from) BY <1>2, Cut DEF Settings!RemoveAt
<1>4. Len(u) = n - 1 /\ \A k \in 1..(n - 1) : u[k] = s[IF k < from THEN k ELSE k + 1] BY <1>1, <1>3 DEF IsCut
<1>5. PICK t : t = Settings!InsertAt(u, to, s[from]) /\ t = Settings!arrayMove(s, from, to) BY <1>2 DEF Settings!arrayMove
<1>6. s[from] \in S /\ to \in 1..(Len(u) + 1) BY <1>1, <1>4
<1>8. /\ t \in Seq(S) /\ Len(t) = Len(u) + 1
      /\ \A k \in 1..(Len(u) + 1) : t[k] = IF k < to THEN u[k] ELSE IF k = to THEN s[from] ELSE u[k - 1]
  <2>1. u \in Seq(S) BY <1>3
  <2>2. PICK e : e = s[from] OBVIOUS
  <2>3. e \in S BY <1>6, <2>2
  <2>4. PICK m : m = to OBVIOUS
  <2>5. m \in Nat BY <1>1, <2>4
  <2>6. 1 <= m /\ m <= Len(u) + 1 BY <1>1, <1>4, <2>4
  <2>7. Settings!InsertAt(u, m, e) \in Seq(S) /\ Len(Settings!InsertAt(u, m, e)) = Len(u) + 1 BY ONLY <2>1, <2>3, <2>5, <2>6, PutIs
  <2>8. \A k \in 1..(Len(u) + 1) :
           Settings!InsertAt(u, m, e)[k] = IF k < m THEN u[k] ELSE IF k = m THEN e ELSE u[k - 1]
    BY ONLY <2>1, <2>3, <2>5, <2>6, PutIs
  <2>9. t = Settings!InsertAt(u, m, e) BY <1>5, <2>2, <2>4
  <2> QED BY ONLY <2>2, <2>4, <2>7, <2>8, <2>9
<1>9. Len(t) = n /\ DOMAIN t = 1..n BY <1>1, <1>4, <1>8
<1>10. PICK m : m = [k \in 1..n |-> IF k < to THEN (IF k < from THEN k ELSE k + 1)
                                    ELSE IF k = to THEN from
                                    ELSE IF k - 1 < from THEN k - 1 ELSE k]
  OBVIOUS
<1>11. m \in [1..n -> 1..n] BY <1>1, <1>10
<1>12. ASSUME NEW k \in 1..n PROVE t[k] = s[m[k]]
  <2>1. CASE k < to
    <3>1. k \in 1..(n - 1) /\ t[k] = u[k] BY <1>1, <1>8, <1>9, <2>1
    <3> QED BY <1>4, <1>10, <2>1, <3>1
  <2>2. CASE k = to BY <1>1, <1>8, <1>9, <1>10, <2>2
  <2>3. CASE k > to
    <3>1. k - 1 \in 1..(n - 1) /\ t[k] = u[k - 1] /\ (k - 1) + 1 = k BY <1>1, <1>8, <1>9, <2>3
    <3>2. u[k - 1] = s[IF k - 1 < from THEN k - 1 ELSE k] BY <1>4, <3>1
    <3>3. ~(k < to) /\ k # to BY <1>1, <2>3
    <3>4. m[k] = IF k - 1 < from THEN k - 1 ELSE k BY <1>10, <3>3
    <3> QED BY <3>1, <3>2, <3>4
  <2> QED BY <1>1, <2>1, <2>2, <2>3
<1>13. \A a, b \in 1..n : m[a] = m[b] => a = b BY <1>1, <1>10
<1>14. Within(t, s) BY <1>1, <1>9, <1>11, <1>12, <1>13 DEF Within
<1>15. ASSUME NEW i \in 1..n PROVE \E k \in 1..n : m[k] = i
  <2>1. CASE i = from BY <1>1, <1>10, <2>1
  <2>2. CASE i < from
    <3>1. CASE i < to BY <1>1, <1>10, <2>2, <3>1
    <3>2. CASE ~(i < to)
      <4>1. i + 1 \in 1..n /\ ~(i + 1 < to) /\ i + 1 # to /\ (i + 1) - 1 = i BY <1>1, <2>2, <3>2
      <4>2. m[i + 1] = i BY <1>10, <2>2, <4>1
      <4> QED BY <4>1, <4>2
    <3> QED BY <3>1, <3>2
  <2>3. CASE i > from
    <3>1. CASE i - 1 < to
      <4>1. i - 1 \in 1..n /\ ~(i - 1 < from) /\ (i - 1) + 1 = i BY <1>1, <2>3
      <4>2. m[i - 1] = i BY <1>10, <3>1, <4>1
      <4> QED BY <4>1, <4>2
    <3>2. CASE ~(i - 1 < to)
      <4>1. ~(i < to) /\ i # to /\ ~(i - 1 < from) BY <1>1, <2>3, <3>2
      <4>2. m[i] = i BY <1>10, <4>1
      <4> QED BY <4>2
    <3> QED BY <3>1, <3>2
  <2> QED BY <1>1, <2>1, <2>2, <2>3
<1>16. \A i \in DOMAIN s : \E k \in DOMAIN t : t[k] = s[i] BY <1>1, <1>9, <1>12, <1>15
<1> QED BY <1>5, <1>8, <1>14, <1>16
-----------------------------------------------------------------------------
(* The shapes.                                                             *)
Known == {Settings!NoId} \union Settings!ToSet(Ids)
Worded == {Settings!None, "new"} \union FormTexts \union {Initial[i].text : i \in DOMAIN Initial}
            \union {Initial[i].secret : i \in DOMAIN Initial}
Ports == {"1883", "8883"} \union {Initial[i].port : i \in DOMAIN Initial}
Auths == {"none", "password", "certificate"}
RowShapes == [id : Settings!ToSet(Ids), text : Worded, port : Ports, enabled : BOOLEAN, tls : BOOLEAN, auth : Auths,
              secret : Worded]
SettingsListed == {r \in RowShapes : r.auth = "certificate" => r.tls}
FormShapes == [text : Worded, port : Ports, enabled : BOOLEAN, tls : BOOLEAN, auth : Auths, secret : Worded]
Forms == {f \in FormShapes : f.auth = "certificate" => f.tls}
Kinds == {"load", "reload", "create", "toggle", "save", "delete", "reorder"}
Asks == [kind : Kinds, id : Known, form : Forms, list : Seq(SettingsListed), stage : {"sent", "served", "refused"},
         found : Seq(SettingsListed), open : Known, cancelled : BOOLEAN]

LEMMA RowParts ==
  ASSUME NEW r \in SettingsListed
  PROVE  /\ r.id \in Settings!ToSet(Ids) /\ r.text \in Worded /\ r.port \in Ports /\ r.auth \in Auths /\ r.secret \in Worded
         /\ r.enabled \in BOOLEAN /\ r.tls \in BOOLEAN
         /\ r.auth = "certificate" => r.tls
<1>1. r \in RowShapes /\ (r.auth = "certificate" => r.tls) BY DEF SettingsListed
<1>2. r.id \in Settings!ToSet(Ids) /\ r.text \in Worded /\ r.port \in Ports /\ r.auth \in Auths /\ r.secret \in Worded
  BY ONLY <1>1 DEF RowShapes
<1>3. r.enabled \in BOOLEAN /\ r.tls \in BOOLEAN BY ONLY <1>1 DEF RowShapes
<1> QED BY ONLY <1>1, <1>2, <1>3

LEMMA FormParts ==
  ASSUME NEW f \in Forms
  PROVE  /\ f.text \in Worded /\ f.port \in Ports /\ f.auth \in Auths /\ f.secret \in Worded
         /\ f.enabled \in BOOLEAN /\ f.tls \in BOOLEAN
         /\ f.auth = "certificate" => f.tls
<1>1. f \in FormShapes /\ (f.auth = "certificate" => f.tls) BY DEF Forms
<1>2. f.text \in Worded /\ f.port \in Ports /\ f.auth \in Auths /\ f.secret \in Worded BY ONLY <1>1 DEF FormShapes
<1>3. f.enabled \in BOOLEAN /\ f.tls \in BOOLEAN BY ONLY <1>1 DEF FormShapes
<1> QED BY ONLY <1>1, <1>2, <1>3

LEMMA RowBuilt ==
  ASSUME NEW i \in Settings!ToSet(Ids), NEW t \in Worded, NEW p \in Ports, NEW e \in BOOLEAN, NEW l \in BOOLEAN,
         NEW a \in Auths, NEW x \in Worded, a = "certificate" => l,
         NEW r, r = [text |-> t, port |-> p, enabled |-> e, tls |-> l, auth |-> a, secret |-> x, id |-> i]
  PROVE  r \in SettingsListed /\ r.id = i /\ r.text = t /\ r.secret = x
<1>1. r.id = i /\ r.text = t /\ r.secret = x /\ r.auth = a OBVIOUS
<1>2. r.tls = l OBVIOUS
<1>3. r \in RowShapes BY DEF RowShapes
<1>4. r.auth = "certificate" => r.tls BY ONLY <1>1, <1>2, a = "certificate" => l
<1> QED BY <1>1, <1>3, <1>4 DEF SettingsListed

LEMMA FormBuilt ==
  ASSUME NEW t \in Worded, NEW p \in Ports, NEW e \in BOOLEAN, NEW l \in BOOLEAN,
         NEW a \in Auths, NEW x \in Worded, a = "certificate" => l,
         NEW f, f = [text |-> t, port |-> p, enabled |-> e, tls |-> l, auth |-> a, secret |-> x]
  PROVE  f \in Forms /\ f.text = t /\ f.secret = x
<1>1. f.text = t /\ f.secret = x /\ f.auth = a OBVIOUS
<1>2. f.tls = l OBVIOUS
<1>3. f \in FormShapes BY DEF FormShapes
<1>4. f.auth = "certificate" => f.tls BY ONLY <1>1, <1>2, a = "certificate" => l
<1> QED BY <1>1, <1>3, <1>4 DEF Forms

LEMMA SomeWords ==
  /\ Settings!None \in Worded /\ "new" \in Worded /\ FormTexts \subseteq Worded /\ "1883" \in Ports /\ "8883" \in Ports
  /\ "none" \in Auths /\ "password" \in Auths /\ "certificate" \in Auths
BY DEF Worded, Ports, Auths

LEMMA ToFormIs ==
  ASSUME NEW r \in SettingsListed
  PROVE  Settings!toForm(r) \in Forms /\ Settings!toForm(r).text = r.text /\ Settings!toForm(r).secret = Settings!None
<1>1. /\ r.text \in Worded /\ r.port \in Ports /\ r.auth \in Auths
      /\ r.enabled \in BOOLEAN /\ r.tls \in BOOLEAN
      /\ r.auth = "certificate" => r.tls
  BY RowParts
<1>2. Settings!None \in Worded BY SomeWords
<1>3. PICK t, p, e, l, a : t = r.text /\ p = r.port /\ e = r.enabled /\ l = r.tls /\ a = r.auth OBVIOUS
<1>4. t \in Worded /\ p \in Ports /\ a \in Auths BY <1>1, <1>3
<1>5. e \in BOOLEAN /\ l \in BOOLEAN /\ (a = "certificate" => l) BY ONLY <1>1, <1>3
<1>6. PICK f : f = [text |-> t, port |-> p, enabled |-> e, tls |-> l, auth |-> a, secret |-> Settings!None] OBVIOUS
<1>7. f \in Forms /\ f.text = t /\ f.secret = Settings!None BY ONLY <1>2, <1>4, <1>5, <1>6, FormBuilt
<1>8. f = Settings!toForm(r) BY <1>3, <1>6 DEF Settings!toForm
<1> QED BY <1>3, <1>7, <1>8

LEMMA PublicIs ==
  ASSUME NEW r \in SettingsListed
  PROVE  Settings!Public(r) \in SettingsListed /\ Settings!Public(r).id = r.id /\ Settings!Public(r).text = r.text /\ Settings!Public(r).secret = Settings!None
<1>1. r \in RowShapes /\ (r.auth = "certificate" => r.tls) BY DEF SettingsListed
<1>2. PICK q : q = [r EXCEPT !.secret = Settings!None] OBVIOUS
<1>3. q \in RowShapes BY <1>1, <1>2, SomeWords DEF RowShapes
<1>4. q.id = r.id /\ q.text = r.text /\ q.secret = Settings!None /\ q.auth = r.auth BY ONLY <1>1, <1>2 DEF RowShapes
<1>5. q.tls = r.tls BY ONLY <1>1, <1>2 DEF RowShapes
<1>6. q \in SettingsListed BY <1>1, <1>3, <1>4, <1>5 DEF SettingsListed
<1> QED BY <1>2, <1>4, <1>6 DEF Settings!Public

LEMMA NewIs == ASSUME NEW id \in Settings!ToSet(Ids) PROVE Settings!New(id) \in SettingsListed /\ Settings!New(id).id = id
<1>1. PICK r : r = [text |-> "new", port |-> "1883", enabled |-> FALSE, tls |-> FALSE, auth |-> "none", secret |-> Settings!None,
                    id |-> id]
  OBVIOUS
<1>2. r \in RowShapes BY <1>1, SomeWords DEF RowShapes
<1>3. r.id = id /\ r.auth # "certificate" BY ONLY <1>1
<1>4. r \in SettingsListed BY <1>2, <1>3 DEF SettingsListed
<1> QED BY <1>1, <1>3, <1>4 DEF Settings!New

LEMMA BareIs == Settings!Bare \in Forms
<1>1. PICK f : f = [text |-> Settings!None, port |-> "1883", enabled |-> TRUE, tls |-> FALSE, auth |-> "none", secret |-> Settings!None] OBVIOUS
<1>2. f \in FormShapes BY <1>1, SomeWords DEF FormShapes
<1>3. f.auth # "certificate" BY ONLY <1>1
<1>4. f \in Forms BY <1>2, <1>3 DEF Forms
<1> QED BY <1>1, <1>4 DEF Settings!Bare

LEMMA SwitchedIs ==
  ASSUME NEW r \in SettingsListed, NEW b \in BOOLEAN
  PROVE  /\ [r EXCEPT !.enabled = b] \in SettingsListed
         /\ [r EXCEPT !.enabled = b].id = r.id
         /\ [r EXCEPT !.enabled = b].text = r.text
         /\ [r EXCEPT !.enabled = b].secret = r.secret
<1>1. r \in RowShapes /\ (r.auth = "certificate" => r.tls) BY DEF SettingsListed
<1>2. PICK q : q = [r EXCEPT !.enabled = b] OBVIOUS
<1>3. q \in RowShapes BY <1>1, <1>2 DEF RowShapes
<1>4. q.id = r.id /\ q.text = r.text /\ q.secret = r.secret /\ q.auth = r.auth BY ONLY <1>1, <1>2 DEF RowShapes
<1>5. q.tls = r.tls BY ONLY <1>1, <1>2 DEF RowShapes
<1>6. q \in SettingsListed BY <1>1, <1>3, <1>4, <1>5 DEF SettingsListed
<1> QED BY <1>2, <1>4, <1>6

(* What a request to save makes of a row. *)
SavedRow(f, r) ==
    [text |-> f.text, port |-> f.port, enabled |-> f.enabled, tls |-> f.tls, auth |-> f.auth,
     secret |-> IF f.secret = Settings!None THEN r.secret ELSE f.secret, id |-> r.id]

LEMMA SavedIs ==
  ASSUME NEW r \in SettingsListed, NEW f \in Forms
  PROVE  /\ SavedRow(f, r) \in SettingsListed /\ SavedRow(f, r).id = r.id /\ SavedRow(f, r).text = f.text
         /\ SavedRow(f, r).secret = IF f.secret = Settings!None THEN r.secret ELSE f.secret
<1>1. f.text \in Worded /\ f.port \in Ports /\ f.auth \in Auths /\ f.secret \in Worded BY FormParts
<1>2. f.enabled \in BOOLEAN /\ f.tls \in BOOLEAN /\ (f.auth = "certificate" => f.tls) BY FormParts
<1>3. r.id \in Settings!ToSet(Ids) /\ r.secret \in Worded BY RowParts
<1>4. PICK t, p, e, l, a, x, i :
         t = f.text /\ p = f.port /\ e = f.enabled /\ l = f.tls /\ a = f.auth /\ i = r.id
         /\ x = IF f.secret = Settings!None THEN r.secret ELSE f.secret
  OBVIOUS
<1>5. t \in Worded /\ p \in Ports /\ a \in Auths /\ i \in Settings!ToSet(Ids) /\ x \in Worded BY <1>1, <1>3, <1>4
<1>6. e \in BOOLEAN /\ l \in BOOLEAN /\ (a = "certificate" => l) BY ONLY <1>2, <1>4
<1>7. PICK q : q = [text |-> t, port |-> p, enabled |-> e, tls |-> l, auth |-> a, secret |-> x, id |-> i] OBVIOUS
<1>8. q \in SettingsListed /\ q.id = i /\ q.text = t /\ q.secret = x BY ONLY <1>5, <1>6, <1>7, RowBuilt
<1>9. q = SavedRow(f, r) BY <1>4, <1>7 DEF SavedRow
<1> QED BY <1>4, <1>8, <1>9

LEMMA SentIs ==
  ASSUME NEW s \in Seq(SettingsListed)
  PROVE  /\ Settings!Sent(s) \in Seq(SettingsListed) /\ DOMAIN Settings!Sent(s) = DOMAIN s /\ Len(Settings!Sent(s)) = Len(s)
         /\ \A i \in DOMAIN s : Settings!Sent(s)[i] = Settings!Public(s[i]) /\ Settings!Sent(s)[i].id = s[i].id /\ Settings!Sent(s)[i].text = s[i].text
         /\ \A id : Settings!Has(Settings!Sent(s), id) <=> Settings!Has(s, id)
         /\ Unique(s) => Unique(Settings!Sent(s))
<1>1. PICK n \in Nat : n = Len(s) /\ DOMAIN s = 1..n /\ \A i \in 1..n : s[i] \in SettingsListed BY LenProperties, ElementOfSeq
<1>2. PICK t : t = Settings!Sent(s) OBVIOUS
<1>3. t = [i \in 1..n |-> Settings!Public(s[i])] BY <1>1, <1>2 DEF Settings!Sent
<1>4. \A i \in 1..n : Settings!Public(s[i]) \in SettingsListed /\ Settings!Public(s[i]).id = s[i].id /\ Settings!Public(s[i]).text = s[i].text
  BY <1>1, PublicIs
<1>5. \A i \in 1..n : t[i] = Settings!Public(s[i]) /\ t[i].id = s[i].id /\ t[i].text = s[i].text /\ t[i] \in SettingsListed BY <1>3, <1>4
<1>6. t \in Seq(SettingsListed) /\ Len(t) = n /\ DOMAIN t = 1..n BY <1>3, <1>5
<1>7. \A id : Settings!Has(t, id) <=> Settings!Has(s, id) BY <1>1, <1>5, <1>6 DEF Settings!Has
<1>8. Unique(s) => Unique(t) BY <1>1, <1>5, <1>6 DEF Unique
<1> QED BY <1>1, <1>2, <1>5, <1>6, <1>7, <1>8

LEMMA FitSays ==
  ASSUME Settings!BrokersFit
  PROVE  /\ Ids \in Seq(Settings!ToSet(Ids)) /\ Settings!NoId \notin Settings!ToSet(Ids)
         /\ \A i, j \in DOMAIN Ids : Ids[i] = Ids[j] => i = j
         /\ Initial \in Seq(SettingsListed) /\ Len(Initial) <= Len(Ids)
         /\ \A i \in DOMAIN Initial : Initial[i].id = Ids[i]
         /\ Unique(Initial)
         /\ Requested \subseteq Known
         /\ MaxCalls \in Nat
<1>1. /\ Ids \in Seq(Settings!ToSet(Ids)) /\ Settings!NoId \notin Settings!ToSet(Ids)
      /\ \A i, j \in DOMAIN Ids : Ids[i] = Ids[j] => i = j
      /\ Initial \in Seq(Settings!ToSet(Initial)) /\ Len(Initial) <= Len(Ids)
      /\ Requested \subseteq Settings!ToSet(Ids) \union {Settings!NoId}
      /\ MaxCalls \in Nat
  BY DEF Settings!BrokersFit
<1>2. DOMAIN Initial = 1..Len(Initial) /\ DOMAIN Ids = 1..Len(Ids) /\ Len(Initial) \in Nat /\ Len(Ids) \in Nat BY <1>1
<1>3. ASSUME NEW i \in DOMAIN Initial PROVE Initial[i] \in SettingsListed /\ Initial[i].id = Ids[i]
  <2>1. PICK r : r = Initial[i] OBVIOUS
  <2>2. /\ r \in [id : {Ids[i]}, text : {r.text}, port : {r.port}, enabled : BOOLEAN, tls : BOOLEAN,
                  auth : {"none", "password", "certificate"}, secret : {r.secret}]
        /\ r.auth = "certificate" => r.tls
    BY <1>3, <2>1 DEF Settings!BrokersFit
  <2>3. Ids[i] \in Settings!ToSet(Ids) BY <1>1, <1>2 DEF Settings!ToSet
  <2>4. r.text \in Worded /\ r.secret \in Worded /\ r.port \in Ports BY <2>1 DEF Worded, Ports
  <2>5. PICK ids, ts, ps, xs, as : ids = {Ids[i]} /\ ts = {r.text} /\ ps = {r.port} /\ xs = {r.secret} /\ as = Auths
    OBVIOUS
  <2>6. r \in [id : ids, text : ts, port : ps, enabled : BOOLEAN, tls : BOOLEAN, auth : as, secret : xs]
    BY ONLY <2>2, <2>5 DEF Auths
  <2>7. /\ ids \subseteq Settings!ToSet(Ids) /\ ts \subseteq Worded /\ ps \subseteq Ports /\ as = Auths /\ xs \subseteq Worded
    BY ONLY <2>3, <2>4, <2>5
  <2>8. r \in RowShapes BY ONLY <2>6, <2>7 DEF RowShapes
  <2>9. r.id \in ids BY ONLY <2>6
  <2>10. r.id = Ids[i] BY ONLY <2>5, <2>9
  <2> QED BY <2>1, <2>2, <2>8, <2>10 DEF SettingsListed
<1>4. Initial \in Seq(SettingsListed)
  <2>1. Initial = [i \in 1..Len(Initial) |-> Initial[i]] BY <1>1, <1>2
  <2>2. \A i \in 1..Len(Initial) : Initial[i] \in SettingsListed BY <1>2, <1>3
  <2> QED BY ONLY <1>2, <2>1, <2>2
<1>5. Unique(Initial)
  <2> SUFFICES ASSUME NEW i \in DOMAIN Initial, NEW j \in DOMAIN Initial, Initial[i].id = Initial[j].id PROVE i = j
    BY DEF Unique
  <2>1. Ids[i] = Ids[j] BY <1>3
  <2>2. i \in DOMAIN Ids /\ j \in DOMAIN Ids BY <1>1, <1>2
  <2> QED BY <1>1, <2>1, <2>2
<1>6. Requested \subseteq Known BY <1>1 DEF Known
<1> QED BY <1>1, <1>3, <1>4, <1>5, <1>6

-----------------------------------------------------------------------------
(* What the handlers make of the rows.                                     *)
LEMMA PlacesAre ==
  ASSUME NEW T, NEW list \in Seq(T)
  PROVE  /\ Settings!Places(list) \in Seq(Nat)
         /\ \A k \in DOMAIN Settings!Places(list) : LET i == Settings!Places(list)[k] IN
              /\ i \in DOMAIN list /\ Settings!Has(rows, list[i].id)
              /\ \A j \in DOMAIN list : j > i => list[j].id # list[i].id
         /\ \A a, b \in DOMAIN Settings!Places(list) : Settings!Places(list)[a] = Settings!Places(list)[b] => a = b
<1>1. PICK J : J = [i \in DOMAIN list |-> i] OBVIOUS
<1>2. PICK D : D = {i \in DOMAIN list : Settings!Has(rows, list[i].id) /\ \A j \in DOMAIN list : j > i => list[j].id # list[i].id}
  OBVIOUS
<1>3. PICK P : P = Settings!Kept(J, D) /\ P = Settings!Places(list) BY <1>1, <1>2 DEF Settings!Places
<1>4. J \in Seq(Nat) /\ DOMAIN J = DOMAIN list /\ \A i \in DOMAIN J : J[i] = i
  <2>1. DOMAIN list = 1..Len(list) /\ Len(list) \in Nat OBVIOUS
  <2> QED BY ONLY <1>1, <2>1
<1>5. P \in Seq(Nat) /\ Within(P, J) BY ONLY <1>3, <1>4, KeptWithin
<1>6. \A a \in DOMAIN P : P[a] \in D
  <2>1. \A a \in DOMAIN Settings!Kept(J, D) : Settings!Kept(J, D)[a] \in D /\ \E i \in DOMAIN J : Settings!Kept(J, D)[a] = J[i]
    BY ONLY <1>4, SettingsKeptSet
  <2> QED BY ONLY <1>3, <2>1
<1>7. PICK m \in [DOMAIN P -> DOMAIN J] :
        /\ \A a \in DOMAIN P : P[a] = J[m[a]]
        /\ \A a, b \in DOMAIN P : m[a] = m[b] => a = b
  BY <1>5 DEF Within
<1>8. \A a, b \in DOMAIN P : P[a] = P[b] => a = b BY <1>4, <1>7
<1> QED BY <1>2, <1>3, <1>5, <1>6, <1>8

LEMMA ReorderIs ==
  ASSUME rows \in Seq(SettingsListed), Unique(rows), NEW T, NEW list \in Seq(T), Settings!ReorderBrokers(list)
  PROVE  /\ rows' \in Seq(SettingsListed) /\ Unique(rows')
         /\ \A a \in DOMAIN rows' : \E i \in DOMAIN rows : rows'[a] = rows[i]
<1>1. PICK P : P = Settings!Places(list) OBVIOUS
<1>2. /\ P \in Seq(Nat)
      /\ \A k \in DOMAIN P :
           /\ P[k] \in DOMAIN list /\ Settings!Has(rows, list[P[k]].id)
           /\ \A j \in DOMAIN list : j > P[k] => list[j].id # list[P[k]].id
      /\ \A a, b \in DOMAIN P : P[a] = P[b] => a = b
  BY <1>1, PlacesAre
<1>3. PICK E : E = {r \in Settings!ToSet(rows) : ~Settings!Has(list, r.id)} OBVIOUS
<1>4. PICK t : t = Settings!Kept(rows, E) OBVIOUS
<1>5. t \in Seq(SettingsListed) /\ Within(t, rows) BY ONLY <1>4, rows \in Seq(SettingsListed), KeptWithin
<1>6. \A a \in DOMAIN t : t[a] \in E
  <2>1. \A a \in DOMAIN Settings!Kept(rows, E) : Settings!Kept(rows, E)[a] \in E /\ \E i \in DOMAIN rows : Settings!Kept(rows, E)[a] = rows[i]
    BY ONLY rows \in Seq(SettingsListed), SettingsKeptSet
  <2> QED BY ONLY <1>4, <2>1
<1>7. PICK p \in Nat : p = Len(P) /\ DOMAIN P = 1..p /\ \A k \in 1..p : P[k] \in Nat BY <1>2, LenProperties, ElementOfSeq
<1>8. PICK h : h = [k \in 1..p |-> Settings!Row(rows, list[P[k]].id)] OBVIOUS
<1>9. \A k \in 1..p : \E i \in DOMAIN rows : h[k] = rows[i] /\ rows[i].id = list[P[k]].id
  <2> SUFFICES ASSUME NEW k \in 1..p PROVE \E i \in DOMAIN rows : h[k] = rows[i] /\ rows[i].id = list[P[k]].id
    OBVIOUS
  <2>1. PICK id : id = list[P[k]].id OBVIOUS
  <2>2. Settings!Has(rows, id) BY <1>2, <1>7, <2>1
  <2>3. h[k] = Settings!Row(rows, id) BY <1>8, <2>1
  <2> QED BY <2>1, <2>2, <2>3, RowIs
<1>10. \A k \in 1..p : h[k] \in SettingsListed /\ h[k].id = list[P[k]].id BY <1>9
<1>11. h \in Seq(SettingsListed) /\ Len(h) = p BY <1>8, <1>10
<1>12. PICK n \in Nat : n = Len(t) /\ DOMAIN t = 1..n BY <1>5, LenProperties
<1>13. PICK u : u = rows' OBVIOUS
<1>14. u = h \o t BY <1>1, <1>3, <1>4, <1>7, <1>8, <1>13 DEF Settings!ReorderBrokers
<1>15. /\ u \in Seq(SettingsListed) /\ Len(u) = p + n
       /\ \A k \in 1..(p + n) : u[k] = IF k <= p THEN h[k] ELSE t[k - p]
  <2>1. h \in Seq(SettingsListed) BY <1>11
  <2>2. t \in Seq(SettingsListed) BY <1>5
  <2>3. /\ h \o t \in Seq(SettingsListed) /\ Len(h \o t) = Len(h) + Len(t)
        /\ \A k \in 1..(Len(h) + Len(t)) : (h \o t)[k] = IF k <= Len(h) THEN h[k] ELSE t[k - Len(h)]
    BY ONLY <2>1, <2>2, ConcatProperties
  <2>4. Len(h) = p /\ Len(t) = n BY <1>11, <1>12
  <2> QED BY ONLY <1>14, <2>3, <2>4
<1>16. DOMAIN u = 1..(p + n) BY <1>15
<1>17. \A k \in 1..(p + n) : (k \in 1..p /\ u[k] = h[k]) \/ (k - p \in 1..n /\ ~(k <= p) /\ u[k] = t[k - p])
  <2> SUFFICES ASSUME NEW k \in 1..(p + n)
               PROVE  (k \in 1..p /\ u[k] = h[k]) \/ (k - p \in 1..n /\ ~(k <= p) /\ u[k] = t[k - p])
    OBVIOUS
  <2>0. p \in Nat /\ n \in Nat /\ k \in Nat /\ 1 <= k /\ k <= p + n BY <1>7, <1>12
  <2>1. u[k] = IF k <= p THEN h[k] ELSE t[k - p] BY ONLY <1>15, k \in 1..(p + n)
  <2>2. CASE k <= p
    <3>1. k \in 1..p BY ONLY <2>0, <2>2
    <3> QED BY ONLY <2>1, <2>2, <3>1
  <2>3. CASE ~(k <= p)
    <3>1. k - p \in 1..n BY ONLY <2>0, <2>3
    <3> QED BY ONLY <2>1, <2>3, <3>1
  <2> QED BY ONLY <2>2, <2>3
<1>18. \A a \in 1..n : ~Settings!Has(list, t[a].id) BY <1>3, <1>6, <1>12
<1>19. \A k \in 1..p : Settings!Has(list, h[k].id) BY <1>2, <1>7, <1>10 DEF Settings!Has
<1>20. Unique(t) BY <1>5, WithinKeeps
<1>21. \A a \in 1..n : \E i \in DOMAIN rows : t[a] = rows[i] BY <1>5, <1>12, WithinKeeps
<1>22. \A k \in 1..(p + n) : \E i \in DOMAIN rows : u[k] = rows[i]
  <2> SUFFICES ASSUME NEW k \in 1..(p + n) PROVE \E i \in DOMAIN rows : u[k] = rows[i] OBVIOUS
  <2>1. CASE k \in 1..p /\ u[k] = h[k]
    <3>1. PICK i \in DOMAIN rows : h[k] = rows[i] BY ONLY <1>9, <2>1
    <3> QED BY ONLY <2>1, <3>1
  <2>2. CASE k - p \in 1..n /\ u[k] = t[k - p]
    <3>1. PICK i \in DOMAIN rows : t[k - p] = rows[i] BY ONLY <1>21, <2>2
    <3> QED BY ONLY <2>2, <3>1
  <2> QED BY <1>17, <2>1, <2>2
<1>23. ASSUME NEW a \in 1..(p + n), NEW b \in 1..(p + n), u[a].id = u[b].id PROVE a = b
  <2>1. CASE a \in 1..p /\ u[a] = h[a]
    <3>1. b \in 1..p /\ u[b] = h[b] BY <1>17, <1>18, <1>19, <1>23, <2>1
    <3>2. list[P[a]].id = list[P[b]].id BY <1>10, <1>23, <2>1, <3>1
    <3>3. P[a] \in Nat /\ P[b] \in Nat /\ P[a] \in DOMAIN list /\ P[b] \in DOMAIN list 
      BY <1>2, <1>7, <2>1, <3>1
    <3>4. ~(P[a] > P[b]) /\ ~(P[b] > P[a]) BY <1>2, <1>7, <2>1, <3>1, <3>2, <3>3
    <3>5. P[a] = P[b] BY <3>3, <3>4
    <3> QED BY <1>2, <1>7, <2>1, <3>1, <3>5
  <2>2. CASE a - p \in 1..n /\ ~(a <= p) /\ u[a] = t[a - p]
    <3>1. b - p \in 1..n /\ u[b] = t[b - p] BY <1>17, <1>18, <1>19, <1>23, <2>2
    <3>2. a - p = b - p BY <1>12, <1>20, <1>23, <2>2, <3>1 DEF Unique
    <3> QED BY <1>7, <3>2
  <2> QED BY <1>17, <2>1, <2>2
<1>24. Unique(u) BY <1>16, <1>23 DEF Unique
<1> QED BY <1>13, <1>15, <1>16, <1>22, <1>24

(* A new order of all of them. *)
LEMMA ReorderSame ==
  ASSUME rows \in Seq(SettingsListed), Unique(rows), NEW list \in Seq(SettingsListed), Unique(list), Settings!ReorderBrokers(list),
         \A i \in DOMAIN list : \E k \in DOMAIN rows : list[i] = Settings!Public(rows[k]),
         \A k \in DOMAIN rows : \E i \in DOMAIN list : list[i] = Settings!Public(rows[k])
  PROVE  Settings!Sent(rows') = list
<1>1. PICK n \in Nat : n = Len(list) /\ DOMAIN list = 1..n BY LenProperties
<1>2. PICK J : J = [i \in DOMAIN list |-> i] OBVIOUS
<1>3. PICK D : D = {i \in DOMAIN list : Settings!Has(rows, list[i].id) /\ \A j \in DOMAIN list : j > i => list[j].id # list[i].id}
  OBVIOUS
<1>4. Settings!Places(list) = Settings!Kept(J, D) BY <1>2, <1>3 DEF Settings!Places
<1>5. \A k \in DOMAIN rows : rows[k] \in SettingsListed /\ Settings!Public(rows[k]).id = rows[k].id BY PublicIs
<1>6. J \in Seq(Nat) /\ Len(J) = n /\ \A i \in 1..n : J[i] = i BY <1>1, <1>2
<1>7. ASSUME NEW i \in 1..n PROVE i \in D
  <2>1. Settings!Has(rows, list[i].id) BY <1>1, <1>5 DEF Settings!Has
  <2>2. \A j \in DOMAIN list : j > i => list[j].id # list[i].id BY <1>1 DEF Unique
  <2> QED BY <1>1, <1>3, <2>1, <2>2
<1>8. \A i \in 1..Len(J) : J[i] \in D BY <1>6, <1>7
<1>9. Settings!Places(list) = J BY ONLY <1>4, <1>6, <1>8, SettingsKeptAll
<1>10. PICK h : h = [k \in 1..n |-> Settings!Row(rows, list[k].id)] OBVIOUS
<1>11. PICK E : E = {r \in Settings!ToSet(rows) : ~Settings!Has(list, r.id)} OBVIOUS
<1>12. \A k \in 1..Len(rows) : rows[k] \notin E
  <2> SUFFICES ASSUME NEW k \in 1..Len(rows) PROVE Settings!Has(list, rows[k].id) BY <1>11
  <2>1. k \in DOMAIN rows OBVIOUS
  <2> QED BY <1>5, <2>1 DEF Settings!Has
<1>13. Settings!Kept(rows, E) = <<>> BY ONLY <1>12, rows \in Seq(SettingsListed), SettingsKeptNone
<1>14. DOMAIN J = 1..n /\ \A k \in 1..n : J[k] = k BY <1>1, <1>2
<1>15. PICK g : g = [k \in DOMAIN J |-> Settings!Row(rows, list[J[k]].id)] OBVIOUS
<1>16. g = h BY <1>10, <1>14, <1>15
<1>17. rows' = g \o Settings!Kept(rows, E) BY <1>9, <1>11, <1>15 DEF Settings!ReorderBrokers
<1>18. \A k \in 1..n : \E i \in DOMAIN rows : h[k] = rows[i] /\ list[k] = Settings!Public(rows[i])
  <2> SUFFICES ASSUME NEW k \in 1..n PROVE \E i \in DOMAIN rows : h[k] = rows[i] /\ list[k] = Settings!Public(rows[i]) OBVIOUS
  <2>1. PICK i \in DOMAIN rows : list[k] = Settings!Public(rows[i]) BY <1>1
  <2>2. list[k].id = rows[i].id BY <1>5, <2>1
  <2>3. h[k] = rows[i] BY <1>10, <2>2, RowAt
  <2> QED BY <2>1, <2>3
<1>19. \A k \in 1..n : h[k] \in SettingsListed BY <1>5, <1>18
<1>20. h \in Seq(SettingsListed) /\ Len(h) = n BY <1>10, <1>19
<1>21. rows' = h BY <1>13, <1>16, <1>17, <1>20
<1>22. Settings!Sent(h) \in Seq(SettingsListed) /\ Len(Settings!Sent(h)) = n /\ \A k \in 1..n : Settings!Sent(h)[k] = Settings!Public(h[k]) BY <1>20, SentIs
<1>23. \A k \in 1..n : Settings!Sent(h)[k] = list[k] BY <1>18, <1>22
<1>24. Settings!Sent(h) = list BY ONLY <1>1, <1>22, <1>23, list \in Seq(SettingsListed), SameSeq
<1> QED BY <1>21, <1>24 DEF Settings!Sent

-----------------------------------------------------------------------------
(* The invariants.  First the shapes of the rows, the page and the calls.  *)
RowsShaped ==
    /\ rows \in Seq(SettingsListed) /\ Unique(rows)
    /\ created \in Nat /\ created <= Len(Ids) /\ Len(Initial) <= created
PageShaped ==
    /\ requested \in Known
    /\ brokers \in Seq(SettingsListed) /\ selectedId \in Known /\ form \in Forms
    /\ reading # <<>> => reading \in (Known \X Worded)
Answerable(c) ==
    /\ c.kind \in {"create", "toggle", "save", "delete"} => c.id \in Settings!ToSet(Ids)
    /\ (c.stage = "served" /\ c.kind \in {"create", "toggle", "save"}) => Len(c.found) = 1 /\ c.found[1].id = c.id
    /\ (c.stage = "served" /\ c.kind \in {"load", "reload"}) => Unique(c.found)
CallsShaped ==
    /\ calls \in Seq(Asks) /\ Len(calls) <= MaxCalls + 1
    /\ \A i \in DOMAIN calls : Answerable(calls[i])
SettingsShaped == RowsShaped /\ PageShaped /\ CallsShaped

LEMMA AskParts ==
  ASSUME NEW c \in Asks
  PROVE  /\ c.kind \in Kinds /\ c.id \in Known /\ c.form \in Forms /\ c.list \in Seq(SettingsListed)
         /\ c.stage \in {"sent", "served", "refused"} /\ c.found \in Seq(SettingsListed) /\ c.open \in Known
         /\ c.cancelled \in BOOLEAN
<1>1. /\ c.kind \in Kinds /\ c.id \in Known /\ c.form \in Forms /\ c.list \in Seq(SettingsListed)
      /\ c.stage \in {"sent", "served", "refused"} /\ c.found \in Seq(SettingsListed) /\ c.open \in Known
  BY DEF Asks
<1>2. c.cancelled \in BOOLEAN BY DEF Asks
<1> QED BY ONLY <1>1, <1>2

(* A call as it is sent. *)
LEMMA CallIs ==
  ASSUME selectedId \in Known, NEW kind \in Kinds, NEW id \in Known
  PROVE  /\ Settings!Call(kind, id) \in Asks /\ Settings!Call(kind, id).kind = kind /\ Settings!Call(kind, id).id = id
         /\ Settings!Call(kind, id).stage = "sent" /\ Settings!Call(kind, id).list = <<>> /\ Settings!Call(kind, id).found = <<>>
         /\ Settings!Call(kind, id).form = Settings!Bare /\ ~Settings!Call(kind, id).cancelled
<1>1. Settings!Bare \in Forms BY BareIs
<1>2. PICK c : c = [kind |-> kind, id |-> id, form |-> Settings!Bare, list |-> <<>>, stage |-> "sent",
                    found |-> <<>>, open |-> selectedId, cancelled |-> FALSE]
  OBVIOUS
<1>3. <<>> \in Seq(SettingsListed) /\ "sent" \in {"sent", "served", "refused"} OBVIOUS
<1>4. c \in Asks BY <1>1, <1>2, <1>3 DEF Asks
<1>5. c.kind = kind /\ c.id = id /\ c.stage = "sent" /\ c.list = <<>> /\ c.found = <<>> /\ c.form = Settings!Bare
  BY ONLY <1>2
<1>6. ~c.cancelled BY ONLY <1>2
<1>7. c = Settings!Call(kind, id) BY <1>2 DEF Settings!Call
<1> QED BY <1>4, <1>5, <1>6, <1>7

LEMMA CallWithForm ==
  ASSUME NEW c \in Asks, NEW f \in Forms
  PROVE  /\ [c EXCEPT !.form = f] \in Asks
         /\ [c EXCEPT !.form = f].form = f
         /\ \A x \in {"kind", "id", "list", "stage", "found", "open"} : [c EXCEPT !.form = f][x] = c[x]
         /\ [c EXCEPT !.form = f].cancelled = c.cancelled
<1>1. PICK d : d = [c EXCEPT !.form = f] OBVIOUS
<1>2. d \in Asks BY <1>1 DEF Asks
<1>3. d.form = f /\ \A x \in {"kind", "id", "list", "stage", "found", "open"} : d[x] = c[x] BY <1>1 DEF Asks
<1>4. d.cancelled = c.cancelled BY <1>1 DEF Asks
<1> QED BY <1>1, <1>2, <1>3, <1>4

LEMMA CallWithList ==
  ASSUME NEW c \in Asks, NEW l \in Seq(SettingsListed)
  PROVE  /\ [c EXCEPT !.list = l] \in Asks
         /\ [c EXCEPT !.list = l].list = l
         /\ \A x \in {"kind", "id", "form", "stage", "found", "open"} : [c EXCEPT !.list = l][x] = c[x]
         /\ [c EXCEPT !.list = l].cancelled = c.cancelled
<1>1. PICK d : d = [c EXCEPT !.list = l] OBVIOUS
<1>2. d \in Asks BY <1>1 DEF Asks
<1>3. d.list = l /\ \A x \in {"kind", "id", "form", "stage", "found", "open"} : d[x] = c[x] BY <1>1 DEF Asks
<1>4. d.cancelled = c.cancelled BY <1>1 DEF Asks
<1> QED BY <1>1, <1>2, <1>3, <1>4

(* A call that was carried out, or refused. *)
Became(d, c, st, fo) == d = [c EXCEPT !.stage = st, !.found = fo]
LEMMA BecameIs ==
  ASSUME NEW c \in Asks, NEW st \in {"sent", "served", "refused"}, NEW fo \in Seq(SettingsListed), NEW d, Became(d, c, st, fo)
  PROVE  /\ d \in Asks /\ d.stage = st /\ d.found = fo
         /\ d.kind = c.kind /\ d.id = c.id /\ d.form = c.form /\ d.list = c.list /\ d.open = c.open
         /\ d.cancelled = c.cancelled
<1>1. PICK e : e = [c EXCEPT !.stage = st] OBVIOUS
<1>2. e \in Asks BY <1>1 DEF Asks
<1>3. e.stage = st /\ e.kind = c.kind /\ e.id = c.id /\ e.form = c.form /\ e.list = c.list /\ e.open = c.open
  BY <1>1 DEF Asks
<1>4. e.cancelled = c.cancelled BY <1>1 DEF Asks
<1>5. d = [e EXCEPT !.found = fo] BY <1>1 DEF Became
<1>6. d \in Asks BY <1>2, <1>5 DEF Asks
<1>7. d.found = fo /\ d.stage = e.stage /\ d.kind = e.kind /\ d.id = e.id /\ d.form = e.form /\ d.list = e.list /\ d.open = e.open
  BY <1>2, <1>5 DEF Asks
<1>8. d.cancelled = e.cancelled BY <1>2, <1>5 DEF Asks
<1> QED BY <1>3, <1>4, <1>6, <1>7, <1>8

(* What a call is carried out as: the rows then, its stage and its answer. *)
ServeWay(c, st, fo) ==
    \/ /\ c.kind \in {"toggle", "save", "delete"} /\ ~Settings!Has(rows, c.id)
       /\ rows' = rows /\ st = "refused" /\ fo = <<>>
    \/ c.kind \in {"load", "reload"} /\ rows' = rows /\ st = "served" /\ fo = Settings!Sent(rows)
    \/ /\ c.kind = "create" /\ rows' = Append(rows, Settings!New(c.id)) /\ st = "served"
       /\ fo = <<Settings!Public(Settings!Row(rows', c.id))>>
    \/ /\ c.kind = "toggle" /\ Settings!Has(rows, c.id) /\ st = "served" /\ fo = <<Settings!Public(Settings!Row(rows', c.id))>>
       /\ rows' = Settings!Replace(rows, [Settings!Row(rows, c.id) EXCEPT !.enabled = c.form.enabled])
    \/ /\ c.kind = "save" /\ Settings!Has(rows, c.id) /\ st = "served" /\ fo = <<Settings!Public(Settings!Row(rows', c.id))>>
       /\ rows' = Settings!Replace(rows, SavedRow(c.form, Settings!Row(rows, c.id)))
    \/ /\ c.kind = "delete" /\ Settings!Has(rows, c.id) /\ st = "served" /\ fo = <<>>
       /\ rows' = Settings!Without(rows, c.id)
    \/ c.kind = "reorder" /\ Settings!ReorderBrokers(c.list) /\ st = "served" /\ fo = <<>>

LEMMA SettingsServeWays ==
  ASSUME calls \in Seq(Asks), NEW i \in DOMAIN calls, Settings!Serve(i)
  PROVE  /\ calls[i] \in Asks /\ calls[i].stage = "sent"
         /\ \E st, fo, d : /\ ServeWay(calls[i], st, fo) /\ Became(d, calls[i], st, fo)
                           /\ calls' = [calls EXCEPT ![i] = d]
         /\ UNCHANGED <<created, Settings!page, Settings!ghosts, acts>>
<1>1. PICK c : c = calls[i] /\ c \in Asks
  <2>1. i \in 1..Len(calls) OBVIOUS
  <2> QED BY <2>1, ElementOfSeq
<1>2. PICK st : st = IF Settings!Gone(c) THEN "refused" ELSE "served" OBVIOUS
<1>3. PICK fo : fo = IF Settings!Gone(c) \/ c.kind \in {"delete", "reorder"} THEN <<>>
                     ELSE IF c.kind \in {"load", "reload"} THEN Settings!Sent(rows)
                     ELSE <<Settings!Public(Settings!Row(rows', c.id))>>
  OBVIOUS
<1>4. c.stage = "sent" /\ UNCHANGED <<created, Settings!page, Settings!ghosts, acts>> BY <1>1 DEF Settings!Serve
<1>5. calls' = [calls EXCEPT ![i].stage = st, ![i].found = fo] BY <1>1, <1>2, <1>3 DEF Settings!Serve
<1>6. PICK d : d = [c EXCEPT !.stage = st, !.found = fo] OBVIOUS
<1>7. calls' = [calls EXCEPT ![i] = d] BY <1>1, <1>5, <1>6
<1>8. IF Settings!Gone(c) THEN UNCHANGED rows ELSE
       CASE c.kind \in {"load", "reload"} -> UNCHANGED rows
         [] c.kind = "create" -> rows' = Append(rows, Settings!New(c.id))
         [] c.kind \in {"toggle", "save"} -> Settings!UpdateBroker(c)
         [] c.kind = "delete" -> rows' = Settings!Without(rows, c.id)
         [] c.kind = "reorder" -> Settings!ReorderBrokers(c.list)
  BY <1>1 DEF Settings!Serve
<1>9. c.kind \in Kinds BY <1>1, AskParts
<1>10. ServeWay(c, st, fo)
  <2>1. CASE Settings!Gone(c) BY <1>2, <1>3, <1>8, <2>1 DEF Settings!Gone, ServeWay
  <2>2. CASE ~Settings!Gone(c) /\ c.kind \in {"load", "reload"} BY <1>2, <1>3, <1>8, <2>2 DEF ServeWay
  <2>3. CASE ~Settings!Gone(c) /\ c.kind = "create" BY <1>2, <1>3, <1>8, <2>3 DEF ServeWay
  <2>4. CASE ~Settings!Gone(c) /\ c.kind = "toggle"
    <3>1. Settings!Has(rows, c.id) /\ Settings!UpdateBroker(c) BY <1>8, <2>4 DEF Settings!Gone
    <3>2. rows' = Settings!Replace(rows, [Settings!Row(rows, c.id) EXCEPT !.enabled = c.form.enabled]) BY <2>4, <3>1 DEF Settings!UpdateBroker
    <3> QED BY <1>2, <1>3, <2>4, <3>1, <3>2 DEF ServeWay
  <2>5. CASE ~Settings!Gone(c) /\ c.kind = "save"
    <3>1. Settings!Has(rows, c.id) /\ Settings!UpdateBroker(c) BY <1>8, <2>5 DEF Settings!Gone
    <3>2. rows' = Settings!Replace(rows, SavedRow(c.form, Settings!Row(rows, c.id))) BY <2>5, <3>1 DEF Settings!UpdateBroker, SavedRow
    <3> QED BY <1>2, <1>3, <2>5, <3>1, <3>2 DEF ServeWay
  <2>6. CASE ~Settings!Gone(c) /\ c.kind = "delete"
    <3>1. Settings!Has(rows, c.id) BY <2>6 DEF Settings!Gone
    <3> QED BY <1>2, <1>3, <1>8, <2>6, <3>1 DEF ServeWay
  <2>7. CASE ~Settings!Gone(c) /\ c.kind = "reorder" BY <1>2, <1>3, <1>8, <2>7 DEF ServeWay
  <2> QED BY <1>9, <2>1, <2>2, <2>3, <2>4, <2>5, <2>6, <2>7 DEF Kinds
<1> QED BY <1>1, <1>4, <1>6, <1>7, <1>10 DEF Became

(* Where a row comes from that was there or that c made.                   *)
RowFrom(r, c) ==
    \/ \E k \in DOMAIN rows : r.id = rows[k].id /\ r.text = rows[k].text /\ r.secret = rows[k].secret
    \/ c.kind = "create" /\ r = Settings!New(c.id)
    \/ /\ c.kind = "save" /\ r.id = c.id /\ r.text = c.form.text
       /\ \E k \in DOMAIN rows :
            rows[k].id = c.id /\ (r.secret = rows[k].secret \/ (r.secret = c.form.secret /\ c.form.secret # Settings!None))
SettingsAnswers(fo, list) == \A a \in DOMAIN fo : \E k \in DOMAIN list : fo[a].id = list[k].id /\ fo[a].text = list[k].text

LEMMA OneAnswer ==
  ASSUME NEW list \in Seq(SettingsListed), Unique(list), NEW id, Settings!Has(list, id), NEW fo, fo = <<Settings!Public(Settings!Row(list, id))>>
  PROVE  fo \in Seq(SettingsListed) /\ Len(fo) = 1 /\ fo[1].id = id /\ SettingsAnswers(fo, list)
<1>1. PICK k \in DOMAIN list : Settings!Row(list, id) = list[k] /\ list[k].id = id BY RowIs
<1>2. PICK r : r = list[k] /\ r \in SettingsListed
  <2>1. k \in 1..Len(list) OBVIOUS
  <2> QED BY <2>1, ElementOfSeq
<1>3. PICK q : q = Settings!Public(r) OBVIOUS
<1>4. q \in SettingsListed /\ q.id = r.id /\ q.text = r.text BY <1>2, <1>3, PublicIs
<1>5. fo = <<q>> BY <1>1, <1>2, <1>3
<1>6. fo \in Seq(SettingsListed) /\ Len(fo) = 1 /\ fo[1] = q /\ DOMAIN fo = 1..1 BY <1>4, <1>5
<1>7. SettingsAnswers(fo, list)
  <2>1. \A a \in DOMAIN fo : fo[a] = q BY <1>5
  <2> QED BY <1>2, <1>4, <2>1 DEF SettingsAnswers
<1> QED BY <1>1, <1>2, <1>4, <1>6, <1>7

LEMMA ServeMakes ==
  ASSUME RowsShaped, NEW c \in Asks, Answerable(c), c.kind = "create" => ~Settings!Has(rows, c.id),
         NEW st, NEW fo, ServeWay(c, st, fo)
  PROVE  /\ rows' \in Seq(SettingsListed) /\ Unique(rows')
         /\ st \in {"served", "refused"} /\ fo \in Seq(SettingsListed)
         /\ (st = "served" /\ c.kind \in {"create", "toggle", "save"}) => Len(fo) = 1 /\ fo[1].id = c.id
         /\ (st = "served" /\ c.kind \in {"load", "reload"}) => Unique(fo)
         /\ \A a \in DOMAIN rows' : RowFrom(rows'[a], c)
         /\ SettingsAnswers(fo, rows')
<1>0. /\ rows \in Seq(SettingsListed) /\ Unique(rows) /\ c.kind \in Kinds /\ c.form \in Forms /\ c.list \in Seq(SettingsListed)
      /\ c.kind \in {"create", "toggle", "save", "delete"} => c.id \in Settings!ToSet(Ids)
  BY AskParts DEF RowsShaped, Answerable
<1>1. \A k \in DOMAIN rows : rows[k] \in SettingsListed BY <1>0
<1>2. /\ <<>> \in Seq(SettingsListed) /\ SettingsAnswers(<<>>, rows')
  <2>1. DOMAIN <<>> = {} OBVIOUS
  <2> QED BY <2>1 DEF SettingsAnswers
<1>3. \A k \in DOMAIN rows : RowFrom(rows[k], c) BY DEF RowFrom
<1>4. CASE c.kind \in {"toggle", "save", "delete"} /\ rows' = rows /\ st = "refused" /\ fo = <<>>
  BY <1>0, <1>2, <1>3, <1>4
<1>5. CASE c.kind \in {"load", "reload"} /\ rows' = rows /\ st = "served" /\ fo = Settings!Sent(rows)
  <2>1. /\ Settings!Sent(rows) \in Seq(SettingsListed) /\ DOMAIN Settings!Sent(rows) = DOMAIN rows /\ Unique(Settings!Sent(rows))
        /\ \A k \in DOMAIN rows : Settings!Sent(rows)[k].id = rows[k].id /\ Settings!Sent(rows)[k].text = rows[k].text
    BY <1>0, SentIs
  <2>2. SettingsAnswers(fo, rows') BY <1>5, <2>1 DEF SettingsAnswers
  <2>3. fo \in Seq(SettingsListed) /\ Unique(fo) BY <1>5, <2>1
  <2> QED BY <1>0, <1>3, <1>5, <2>2, <2>3
<1>6. CASE c.kind = "create" /\ rows' = Append(rows, Settings!New(c.id)) /\ st = "served" /\ fo = <<Settings!Public(Settings!Row(rows', c.id))>>
  <2>1. PICK q : q = Settings!New(c.id) /\ q \in SettingsListed /\ q.id = c.id BY <1>0, <1>6, NewIs
  <2>2. PICK n \in Nat : n = Len(rows) /\ DOMAIN rows = 1..n BY <1>0, LenProperties
  <2>3. PICK u : u = rows' OBVIOUS
  <2>4. u \in Seq(SettingsListed) /\ Len(u) = n + 1 /\ u[n + 1] = q /\ \A k \in 1..n : u[k] = rows[k]
    BY <1>0, <1>6, <2>1, <2>2, <2>3, AppendProperties
  <2>5. DOMAIN u = 1..(n + 1) /\ n + 1 \in 1..(n + 1) /\ \A k \in 1..(n + 1) : k \in 1..n \/ k = n + 1 BY <2>4
  <2>6. \A k \in 1..n : rows[k].id # c.id BY <1>6, <2>2 DEF Settings!Has
  <2>7. Unique(u)
    <3> SUFFICES ASSUME NEW a \in 1..(n + 1), NEW b \in 1..(n + 1), u[a].id = u[b].id PROVE a = b BY <2>5 DEF Unique
    <3>1. CASE a \in 1..n /\ b \in 1..n BY <1>0, <2>2, <2>4, <3>1 DEF Unique
    <3>2. CASE a \in 1..n /\ b = n + 1 BY <2>1, <2>4, <2>6, <3>2
    <3>3. CASE a = n + 1 /\ b \in 1..n BY <2>1, <2>4, <2>6, <3>3
    <3> QED BY <2>5, <3>1, <3>2, <3>3
  <2>8. Settings!Has(u, c.id) BY <2>1, <2>4, <2>5 DEF Settings!Has
  <2>9. fo \in Seq(SettingsListed) /\ Len(fo) = 1 /\ fo[1].id = c.id /\ SettingsAnswers(fo, u)
    <3>1. fo = <<Settings!Public(Settings!Row(u, c.id))>> BY <1>6, <2>3
    <3> QED BY <2>4, <2>7, <2>8, <3>1, OneAnswer
  <2>10. \A a \in DOMAIN u : RowFrom(u[a], c)
    <3>1. RowFrom(q, c) BY <1>6, <2>1 DEF RowFrom
    <3>2. \A k \in 1..n : RowFrom(u[k], c) BY <1>3, <2>2, <2>4
    <3> QED BY <2>4, <2>5, <3>1, <3>2
  <2> QED BY <1>6, <2>3, <2>4, <2>7, <2>9, <2>10
<1>7. ASSUME NEW q \in SettingsListed, q.id = c.id, Settings!Has(rows, c.id), rows' = Settings!Replace(rows, q),
             fo = <<Settings!Public(Settings!Row(rows', c.id))>>, c.kind \in {"toggle", "save"}, st = "served", RowFrom(q, c)
      PROVE  /\ rows' \in Seq(SettingsListed) /\ Unique(rows')
             /\ st \in {"served", "refused"} /\ fo \in Seq(SettingsListed)
             /\ Len(fo) = 1 /\ fo[1].id = c.id
             /\ \A a \in DOMAIN rows' : RowFrom(rows'[a], c)
             /\ SettingsAnswers(fo, rows')
  <2>1. PICK u : u = rows' /\ u = Settings!Replace(rows, q) BY <1>7
  <2>2. /\ u \in Seq(SettingsListed) /\ DOMAIN u = DOMAIN rows /\ Unique(u) /\ Settings!Has(u, c.id)
        /\ \A i \in DOMAIN rows : u[i] = IF rows[i].id = q.id THEN q ELSE rows[i]
    <3>1. PICK v : v = Settings!Replace(rows, q) OBVIOUS
    <3>2. /\ v \in Seq(SettingsListed) /\ DOMAIN v = DOMAIN rows /\ (Unique(rows) => Unique(v))
          /\ (\A id : Settings!Has(v, id) <=> Settings!Has(rows, id))
          /\ \A i \in DOMAIN rows : v[i] = IF rows[i].id = q.id THEN q ELSE rows[i]
      BY ONLY <1>0, q \in SettingsListed, <3>1, ReplaceIs
    <3> QED BY <1>0, <1>7, <2>1, <3>1, <3>2
  <2>3. fo \in Seq(SettingsListed) /\ Len(fo) = 1 /\ fo[1].id = c.id /\ SettingsAnswers(fo, u)
    <3>1. fo = <<Settings!Public(Settings!Row(u, c.id))>> BY <1>7, <2>1
    <3> QED BY <2>2, <3>1, OneAnswer
  <2>4. \A a \in DOMAIN u : RowFrom(u[a], c) BY <1>3, <1>7, <2>2
  <2> QED BY <1>7, <2>1, <2>2, <2>3, <2>4
<1>8. CASE /\ c.kind = "toggle" /\ Settings!Has(rows, c.id) /\ st = "served" /\ fo = <<Settings!Public(Settings!Row(rows', c.id))>>
           /\ rows' = Settings!Replace(rows, [Settings!Row(rows, c.id) EXCEPT !.enabled = c.form.enabled])
  <2>1. PICK k \in DOMAIN rows : Settings!Row(rows, c.id) = rows[k] /\ rows[k].id = c.id BY <1>8, RowIs
  <2>2. PICK b : b = c.form.enabled OBVIOUS
  <2>3. b \in BOOLEAN BY <1>0, <2>2, FormParts
  <2>4. PICK r \in SettingsListed : r = rows[k] BY <1>1
  <2>5. PICK q : q = [r EXCEPT !.enabled = b] OBVIOUS
  <2>6. q \in SettingsListed /\ q.id = r.id /\ q.text = r.text /\ q.secret = r.secret BY ONLY <2>3, <2>5, r \in SettingsListed, SwitchedIs
  <2>7. RowFrom(q, c) BY <2>4, <2>6 DEF RowFrom
  <2>8. rows' = Settings!Replace(rows, q) BY <1>8, <2>1, <2>2, <2>4, <2>5
  <2> QED BY <1>7, <1>8, <2>1, <2>4, <2>6, <2>7, <2>8
<1>9. CASE /\ c.kind = "save" /\ Settings!Has(rows, c.id) /\ st = "served" /\ fo = <<Settings!Public(Settings!Row(rows', c.id))>>
           /\ rows' = Settings!Replace(rows, SavedRow(c.form, Settings!Row(rows, c.id)))
  <2>1. PICK k \in DOMAIN rows : Settings!Row(rows, c.id) = rows[k] /\ rows[k].id = c.id BY <1>9, RowIs
  <2>2. PICK r \in SettingsListed : r = rows[k] BY <1>1
  <2>3. PICK q : q = SavedRow(c.form, r) OBVIOUS
  <2>4. /\ q \in SettingsListed /\ q.id = r.id /\ q.text = c.form.text
        /\ q.secret = IF c.form.secret = Settings!None THEN r.secret ELSE c.form.secret
    BY <1>0, <2>3, SavedIs
  <2>5. RowFrom(q, c) BY <1>9, <2>1, <2>2, <2>4 DEF RowFrom
  <2>6. rows' = Settings!Replace(rows, q) BY <1>9, <2>1, <2>2, <2>3
  <2> QED BY <1>7, <1>9, <2>1, <2>2, <2>4, <2>5, <2>6
<1>10. CASE c.kind = "delete" /\ Settings!Has(rows, c.id) /\ st = "served" /\ fo = <<>> /\ rows' = Settings!Without(rows, c.id)
  <2>1. PICK u : u = rows' /\ u = Settings!Without(rows, c.id) BY <1>10
  <2>2. u \in Seq(SettingsListed) /\ Within(u, rows) BY <1>0, <2>1, WithoutIs
  <2>3. Unique(u) /\ \A a \in DOMAIN u : \E k \in DOMAIN rows : u[a] = rows[k] BY <1>0, <2>2, WithinKeeps
  <2>4. \A a \in DOMAIN u : RowFrom(u[a], c) BY <1>3, <2>3
  <2> QED BY <1>2, <1>10, <2>1, <2>2, <2>3, <2>4
<1>11. CASE c.kind = "reorder" /\ Settings!ReorderBrokers(c.list) /\ st = "served" /\ fo = <<>>
  <2>1. rows' \in Seq(SettingsListed) /\ Unique(rows') /\ \A a \in DOMAIN rows' : \E k \in DOMAIN rows : rows'[a] = rows[k]
    BY <1>0, <1>11, ReorderIs
  <2>2. \A a \in DOMAIN rows' : RowFrom(rows'[a], c) BY <1>3, <2>1
  <2> QED BY <1>2, <1>11, <2>1, <2>2
<1> QED BY <1>4, <1>5, <1>6, <1>8, <1>9, <1>10, <1>11 DEF ServeWay

-----------------------------------------------------------------------------
(* How the calls under way change, but for the server: they stay, one      *)
(* goes, or one of W comes last.                                           *)
Alike(d, c) ==
    /\ d.kind = c.kind /\ d.id = c.id /\ d.form = c.form /\ d.list = c.list /\ d.stage = c.stage
    /\ d.found = c.found /\ d.open = c.open
CallsFrom(W) ==
    /\ calls' \in Seq(Asks)
    /\ \E m \in [DOMAIN calls' -> {0} \union DOMAIN calls] :
         /\ \A a \in DOMAIN calls' : IF m[a] = 0 THEN a = Len(calls') /\ calls'[a] \in W
                                     ELSE Alike(calls'[a], calls[m[a]])
         /\ \A a, b \in DOMAIN calls' : m[a] = m[b] => a = b

LEMMA FromSame == ASSUME calls \in Seq(Asks), calls' = calls PROVE CallsFrom({})
<1>1. PICK u : u = calls' /\ u = calls OBVIOUS
<1>2. u \in Seq(Asks) /\ DOMAIN u = 1..Len(u) BY <1>1
<1>3. PICK m : m = [a \in DOMAIN u |-> a] OBVIOUS
<1>4. m \in [DOMAIN u -> {0} \union DOMAIN calls] BY <1>1, <1>3
<1>5. \A a \in DOMAIN u : m[a] = a /\ a # 0 BY <1>2, <1>3
<1>6. \A a \in DOMAIN u : Alike(u[a], calls[m[a]]) BY <1>1, <1>5 DEF Alike
<1>7. \A a \in DOMAIN u : IF m[a] = 0 THEN a = Len(u) /\ u[a] \in {} ELSE Alike(u[a], calls[m[a]]) BY <1>5, <1>6
<1>8. \A a, b \in DOMAIN u : m[a] = m[b] => a = b BY <1>5
<1> QED BY <1>1, <1>2, <1>4, <1>7, <1>8 DEF CallsFrom

LEMMA FromCut ==
  ASSUME calls \in Seq(Asks), NEW i \in DOMAIN calls, calls' = Settings!RemoveAt(calls, i)
  PROVE  CallsFrom({}) /\ Len(calls') = Len(calls) - 1
<1>1. PICK u : u = calls' OBVIOUS
<1>2. PICK n \in Nat : n = Len(calls) /\ DOMAIN calls = 1..n BY LenProperties
<1>3. u = SubSeq(calls, 1, i - 1) \o SubSeq(calls, i + 1, Len(calls)) BY <1>1 DEF Settings!RemoveAt
<1>4. u \in Seq(Asks) /\ IsCut(u, calls, i) BY ONLY <1>3, calls \in Seq(Asks), i \in DOMAIN calls, Cut
<1>5. Len(u) = n - 1 /\ DOMAIN u = 1..(n - 1) /\ \A k \in 1..(n - 1) : u[k] = calls[IF k < i THEN k ELSE k + 1]
  BY <1>2, <1>4 DEF IsCut
<1>6. PICK m : m = [k \in DOMAIN u |-> IF k < i THEN k ELSE k + 1] OBVIOUS
<1>7. m \in [DOMAIN u -> {0} \union DOMAIN calls] BY <1>2, <1>5, <1>6
<1>8. \A a \in DOMAIN u : m[a] # 0 /\ u[a] = calls[m[a]] BY <1>2, <1>5, <1>6
<1>9. \A a \in DOMAIN u : Alike(u[a], calls[m[a]]) BY <1>8 DEF Alike
<1>10. \A a, b \in DOMAIN u : m[a] = m[b] => a = b BY <1>2, <1>5, <1>6
<1>11. \A a \in DOMAIN u : IF m[a] = 0 THEN a = Len(u) /\ u[a] \in {} ELSE Alike(u[a], calls[m[a]]) BY <1>8, <1>9
<1> QED BY SMTT(40), <1>1, <1>2, <1>4, <1>5, <1>7, <1>10, <1>11 DEF CallsFrom

LEMMA FromRetry ==
  ASSUME calls \in Seq(Asks), NEW i \in DOMAIN calls, NEW c \in Asks, calls' = Settings!RemoveAt(calls, i) \o <<c>>
  PROVE  CallsFrom({c}) /\ Len(calls') = Len(calls)
<1>1. PICK u : u = calls' OBVIOUS
<1>2. PICK n \in Nat : n = Len(calls) /\ DOMAIN calls = 1..n BY LenProperties
<1>3. PICK t : t = Settings!RemoveAt(calls, i) OBVIOUS
<1>a. t = SubSeq(calls, 1, i - 1) \o SubSeq(calls, i + 1, Len(calls)) BY <1>3 DEF Settings!RemoveAt
<1>4. t \in Seq(Asks) /\ IsCut(t, calls, i) BY ONLY <1>a, calls \in Seq(Asks), i \in DOMAIN calls, Cut
<1>5. Len(t) = n - 1 /\ \A k \in 1..(n - 1) : t[k] = calls[IF k < i THEN k ELSE k + 1]
  BY <1>2, <1>4 DEF IsCut
<1>6. u = Append(t, c) BY <1>1, <1>3, <1>4
<1>7. u \in Seq(Asks) /\ Len(u) = Len(t) + 1 /\ (\A k \in 1..Len(t) : u[k] = t[k]) /\ u[Len(t) + 1] = c
  BY ONLY <1>4, <1>6, c \in Asks, AppendProperties
<1>8. n \in 1..n /\ Len(u) = n /\ DOMAIN u = 1..n /\ (\A k \in 1..(n - 1) : u[k] = calls[IF k < i THEN k ELSE k + 1]) /\ u[n] = c
  BY <1>2, <1>5, <1>7
<1>9. PICK m : m = [k \in 1..n |-> IF k = n THEN 0 ELSE IF k < i THEN k ELSE k + 1] OBVIOUS
<1>10. m \in [DOMAIN u -> {0} \union DOMAIN calls] BY <1>2, <1>8, <1>9
<1>11. \A a \in 1..n : (m[a] = 0 => a = n) /\ (m[a] # 0 => a \in 1..(n - 1) /\ m[a] = IF a < i THEN a ELSE a + 1)
  BY <1>2, <1>9
<1>12. \A a \in 1..n : m[a] # 0 => Alike(u[a], calls[m[a]])
  <2> SUFFICES ASSUME NEW a \in 1..n, m[a] # 0 PROVE Alike(u[a], calls[m[a]]) OBVIOUS
  <2>1. u[a] = calls[m[a]] BY <1>8, <1>11
  <2> QED BY <2>1 DEF Alike
<1>13. \A a, b \in 1..n : m[a] = m[b] => a = b BY <1>2, <1>9
<1>14. \A a \in DOMAIN u : IF m[a] = 0 THEN a = Len(u) /\ u[a] \in {c} ELSE Alike(u[a], calls[m[a]])
  BY <1>8, <1>11, <1>12
<1>15. u \in Seq(Asks) /\ Len(u) = Len(calls) /\ \A a, b \in DOMAIN u : m[a] = m[b] => a = b BY <1>2, <1>7, <1>8, <1>13
<1> QED BY ONLY <1>1, <1>10, <1>14, <1>15 DEF CallsFrom

(* A call comes, the others stay but may be cancelled. *)
LEMMA FromMore ==
  ASSUME calls \in Seq(Asks), NEW c \in Asks, NEW t \in Seq(Asks), Len(t) = Len(calls),
         \A k \in 1..Len(calls) : Alike(t[k], calls[k]), calls' = Append(t, c)
  PROVE  CallsFrom({c}) /\ Len(calls') = Len(calls) + 1
<1>1. PICK u : u = calls' OBVIOUS
<1>2. PICK n \in Nat : n = Len(calls) /\ DOMAIN calls = 1..n BY LenProperties
<1>3. u \in Seq(Asks) /\ Len(u) = Len(t) + 1 /\ (\A k \in 1..Len(t) : u[k] = t[k]) /\ u[Len(t) + 1] = c
  <2>1. u = Append(t, c) BY <1>1
  <2> QED BY ONLY <2>1, c \in Asks, t \in Seq(Asks), AppendProperties
<1>4. Len(u) = n + 1 /\ DOMAIN u = 1..(n + 1) /\ (\A k \in 1..n : u[k] = t[k]) /\ u[n + 1] = c BY <1>2, <1>3
<1>5. PICK m : m = [k \in 1..(n + 1) |-> IF k = n + 1 THEN 0 ELSE k] OBVIOUS
<1>6. m \in [DOMAIN u -> {0} \union DOMAIN calls] BY <1>2, <1>4, <1>5
<1>7. \A a \in 1..(n + 1) : (m[a] = 0 => a = n + 1) /\ (m[a] # 0 => a \in 1..n /\ m[a] = a) BY <1>2, <1>5
<1>8. \A a \in DOMAIN u : IF m[a] = 0 THEN a = Len(u) /\ u[a] \in {c} ELSE Alike(u[a], calls[m[a]])
  <2>1. \A a \in DOMAIN u : m[a] = 0 => a = Len(u) /\ u[a] \in {c} BY <1>4, <1>7
  <2>2. \A a \in DOMAIN u : m[a] # 0 => Alike(u[a], calls[m[a]]) BY <1>2, <1>4, <1>7
  <2> QED BY <2>1, <2>2
<1>9. \A a, b \in 1..(n + 1) : m[a] = m[b] => a = b BY <1>2, <1>5
<1> QED BY <1>1, <1>2, <1>3, <1>4, <1>6, <1>8, <1>9 DEF CallsFrom

LEMMA FromAppend ==
  ASSUME calls \in Seq(Asks), NEW c \in Asks, calls' = Append(calls, c)
  PROVE  CallsFrom({c}) /\ Len(calls') = Len(calls) + 1
<1>1. \A k \in 1..Len(calls) : Alike(calls[k], calls[k]) BY DEF Alike
<1> QED BY <1>1, FromMore

LEMMA FromRefetch ==
  ASSUME calls \in Seq(Asks), selectedId \in Known, NEW id \in Known, Settings!Refetch(id)
  PROVE  CallsFrom({Settings!Call("load", id)}) /\ Len(calls') = Len(calls) + 1
<1>1. PICK n \in Nat : n = Len(calls) /\ DOMAIN calls = 1..n /\ \A k \in 1..n : calls[k] \in Asks
  BY LenProperties, ElementOfSeq
<1>2. PICK t : t = [i \in DOMAIN calls |-> [calls[i] EXCEPT !.cancelled = (@ \/ calls[i].kind = "load")]] OBVIOUS
<1>3. PICK c \in Asks : c = Settings!Call("load", id) BY CallIs DEF Kinds
<1>4. ASSUME NEW k \in 1..n PROVE t[k] \in Asks /\ Alike(t[k], calls[k])
  <2>1. PICK e : e = calls[k] /\ e \in Asks BY <1>1
  <2>2. PICK b : b = (e.cancelled \/ e.kind = "load") OBVIOUS
  <2>3. e.cancelled \in BOOLEAN BY <2>1, AskParts
  <2>4. b \in BOOLEAN BY ONLY <2>2, <2>3
  <2>5. PICK d : d = [e EXCEPT !.cancelled = b] OBVIOUS
  <2>6. d \in Asks BY <2>1, <2>4, <2>5 DEF Asks
  <2>7. Alike(d, e) BY <2>1, <2>5 DEF Asks, Alike
  <2>8. t[k] = d BY <1>1, <1>2, <2>1, <2>2, <2>5
  <2> QED BY <2>1, <2>6, <2>7, <2>8
<1>5. t = [k \in 1..n |-> t[k]] BY <1>1, <1>2
<1>6. t \in Seq(Asks) /\ Len(t) = Len(calls)
  <2>1. DOMAIN t = 1..n BY <1>5
  <2>2. t \in [1..n -> Asks] BY <1>4, <1>5
  <2>3. t \in Seq(Asks) BY <1>1, <2>2
  <2> QED BY <1>1, <2>1, <2>3
<1>7. \A k \in 1..Len(calls) : Alike(t[k], calls[k]) BY <1>1, <1>4
<1>8. calls' = Append(t, c) BY <1>2, <1>3 DEF Settings!Refetch
<1>9. CallsFrom({c}) /\ Len(calls') = Len(calls) + 1 BY ONLY calls \in Seq(Asks), c \in Asks, <1>6, <1>7, <1>8, FromMore
<1> QED BY <1>3, <1>9

-----------------------------------------------------------------------------
(* What an answer makes of the page.                                       *)
SettingsShows(c) ==
    \/ selectedId' = selectedId /\ form' = form
    \/ selectedId' = Settings!NoId /\ form' = form
    \/ \E k \in DOMAIN brokers' : selectedId' = brokers'[k].id /\ form' = Settings!toForm(brokers'[k])
    \/ c.kind = "toggle" /\ selectedId' = selectedId /\ form' = [form EXCEPT !.enabled = c.found[1].enabled]
    \/ c.kind = "save" /\ selectedId' = selectedId /\ form' = Settings!toForm(c.found[1])
ListsFrom(c) ==
    \A a \in DOMAIN brokers' :
        \/ \E k \in DOMAIN brokers : brokers'[a] = brokers[k]
        \/ \E k \in DOMAIN c.found : brokers'[a] = c.found[k]
        \/ \E k \in DOMAIN c.list : brokers'[a] = c.list[k]

LEMMA AnswerEffects ==
  ASSUME PageShaped, CallsShaped, NEW i \in DOMAIN calls, Settings!Answered(i)
  PROVE  /\ calls[i] \in Asks /\ calls[i].stage = "served" /\ Answerable(calls[i])
         /\ brokers' \in Seq(SettingsListed) /\ ListsFrom(calls[i]) /\ SettingsShows(calls[i])
         /\ calls' = Settings!RemoveAt(calls, i) /\ crossed' = (crossed \/ Settings!Left(calls[i]))
         /\ UNCHANGED <<Settings!server, requested, tab, reading, typed, overlapped, astray, acts>>
<1>1. PICK c : c = calls[i] /\ c \in Asks
  <2>1. i \in 1..Len(calls) BY DEF CallsShaped
  <2> QED BY <2>1, ElementOfSeq DEF CallsShaped
<1>2. c.stage = "served" /\ Answerable(c) BY <1>1 DEF Settings!Answered, CallsShaped
<1>3. /\ calls' = Settings!RemoveAt(calls, i) /\ crossed' = (crossed \/ Settings!Left(c))
      /\ UNCHANGED <<Settings!server, requested, tab, reading, typed, overlapped, astray, acts>>
  BY <1>1 DEF Settings!Answered
<1>4. (CASE c.kind \in {"load", "reload"} -> Settings!OnLoad(c) [] c.kind = "create" -> Settings!OnCreated(c)
          [] c.kind = "toggle" -> Settings!OnToggled(c) [] c.kind = "save" -> Settings!OnSaved(c)
          [] c.kind = "delete" -> Settings!OnDeleted(c) [] c.kind = "reorder" -> UNCHANGED <<brokers, selectedId, form>>)
  BY <1>1 DEF Settings!Answered
<1>5. c.kind \in Kinds /\ c.found \in Seq(SettingsListed) /\ c.list \in Seq(SettingsListed) BY <1>1, AskParts
<1>6. brokers \in Seq(SettingsListed) BY DEF PageShaped
<1>7. /\ brokers' \in Seq(SettingsListed) /\ ListsFrom(c) /\ SettingsShows(c)
  <2>1. CASE UNCHANGED <<brokers, selectedId, form>> BY <1>6, <2>1 DEF ListsFrom, SettingsShows
  <2>2. CASE c.kind \in {"load", "reload"} /\ ~c.cancelled
    <3>1. Settings!OnLoad(c) BY <1>4, <2>2
    <3>2. brokers' = c.found BY <2>2, <3>1 DEF Settings!OnLoad
    <3>3. ListsFrom(c) BY <3>2 DEF ListsFrom
    <3>4. SettingsShows(c)
      <4>1. CASE c.kind = "reload" BY <2>2, <3>1, <4>1 DEF Settings!OnLoad, SettingsShows
      <4>2. CASE c.kind = "load" /\ c.found = <<>> BY <2>2, <3>1, <4>2 DEF Settings!OnLoad, SettingsShows
      <4>3. CASE c.kind = "load" /\ c.found # <<>>
        <5>1. PICK r : r = IF Settings!Has(c.found, c.id) THEN Settings!Row(c.found, c.id) ELSE Settings!First(c.found) OBVIOUS
        <5>2. selectedId' = r.id /\ form' = Settings!toForm(r) BY <2>2, <3>1, <4>3, <5>1 DEF Settings!OnLoad, Settings!Show
        <5>3. \E k \in DOMAIN c.found : r = c.found[k]
          <6>1. CASE Settings!Has(c.found, c.id) BY <5>1, <6>1, RowIs
          <6>2. CASE ~Settings!Has(c.found, c.id) BY <1>5, <4>3, <5>1, <6>2, FirstIs
          <6> QED BY <6>1, <6>2
        <5> QED BY <3>2, <5>2, <5>3 DEF SettingsShows
      <4> QED BY <2>2, <4>1, <4>2, <4>3
    <3> QED BY <1>5, <3>2, <3>3, <3>4
  <2>3. CASE c.kind = "create"
    <3>1. Settings!OnCreated(c) BY <1>4, <2>3
    <3>2. Len(c.found) = 1 BY <1>2, <2>3 DEF Answerable
    <3>3. PICK q \in SettingsListed : q = c.found[1] /\ 1 \in DOMAIN c.found
      <4>1. 1 \in 1..Len(c.found) /\ 1 \in DOMAIN c.found BY <1>5, <3>2
      <4> QED BY <1>5, <4>1, ElementOfSeq
    <3>4. PICK n \in Nat : n = Len(brokers) /\ DOMAIN brokers = 1..n BY <1>6, LenProperties
    <3>5. PICK u : u = brokers' /\ u = Append(brokers, q) BY <3>1, <3>3 DEF Settings!OnCreated
    <3>6. u \in Seq(SettingsListed) /\ Len(u) = n + 1 /\ u[n + 1] = q /\ \A k \in 1..n : u[k] = brokers[k]
      BY <1>6, <3>4, <3>5, AppendProperties
    <3>7. DOMAIN u = 1..(n + 1) /\ n + 1 \in 1..(n + 1) /\ \A k \in 1..(n + 1) : k \in 1..n \/ k = n + 1 BY <3>6
    <3>8. ListsFrom(c) BY <3>3, <3>4, <3>5, <3>6, <3>7 DEF ListsFrom
    <3>9. selectedId' = q.id /\ form' = Settings!toForm(q) BY <3>1, <3>3 DEF Settings!OnCreated, Settings!Show
    <3>10. SettingsShows(c) BY <3>5, <3>6, <3>7, <3>9 DEF SettingsShows
    <3> QED BY <3>5, <3>6, <3>8, <3>10
  <2>4. CASE c.kind \in {"toggle", "save"}
    <3>1. Len(c.found) = 1 BY <1>2, <2>4 DEF Answerable
    <3>2. PICK q \in SettingsListed : q = c.found[1] /\ 1 \in DOMAIN c.found
      <4>1. 1 \in 1..Len(c.found) /\ 1 \in DOMAIN c.found BY <1>5, <3>1
      <4> QED BY <1>5, <4>1, ElementOfSeq
    <3>3. PICK u : u = brokers' /\ u = Settings!Replace(brokers, q) BY <1>4, <2>4, <3>2 DEF Settings!OnToggled, Settings!OnSaved
    <3>4. PICK v : v = Settings!Replace(brokers, q) OBVIOUS
    <3>5. /\ v \in Seq(SettingsListed) /\ DOMAIN v = DOMAIN brokers
          /\ \A k \in DOMAIN brokers : v[k] = IF brokers[k].id = q.id THEN q ELSE brokers[k]
      BY ONLY <1>6, <3>4, q \in SettingsListed, ReplaceIs
    <3>6. ListsFrom(c) BY <3>2, <3>3, <3>4, <3>5 DEF ListsFrom
    <3>7. SettingsShows(c)
      <4>1. CASE c.kind = "toggle"
        <5>1. Settings!OnToggled(c) BY <1>4, <4>1
        <5>2. selectedId' = selectedId /\ (form' = [form EXCEPT !.enabled = c.found[1].enabled] \/ form' = form)
          BY <5>1 DEF Settings!OnToggled
        <5> QED BY <4>1, <5>2 DEF SettingsShows
      <4>2. CASE c.kind = "save"
        <5>1. Settings!OnSaved(c) BY <1>4, <4>2
        <5> QED BY <4>2, <5>1 DEF Settings!OnSaved, SettingsShows
      <4> QED BY <2>4, <4>1, <4>2
    <3> QED BY <3>3, <3>4, <3>5, <3>6, <3>7
  <2>5. CASE c.kind = "delete"
    <3>1. Settings!OnDeleted(c) BY <1>4, <2>5
    <3>2. PICK u : u = Settings!Without(c.list, c.id) OBVIOUS
    <3>3. brokers' = u BY <3>1, <3>2 DEF Settings!OnDeleted
    <3>4. u \in Seq(SettingsListed) /\ Within(u, c.list) BY <1>5, <3>2, WithoutIs
    <3>5. \A a \in DOMAIN u : \E k \in DOMAIN c.list : u[a] = c.list[k] BY <3>4, WithinKeeps
    <3>6. ListsFrom(c) BY <3>3, <3>5 DEF ListsFrom
    <3>7. SettingsShows(c)
      <4>1. CASE u = <<>> BY <3>1, <3>2, <4>1 DEF Settings!OnDeleted, SettingsShows
      <4>2. CASE u # <<>>
        <5>1. selectedId' = Settings!First(u).id /\ form' = Settings!toForm(Settings!First(u)) BY <3>1, <3>2, <4>2 DEF Settings!OnDeleted, Settings!Show
        <5>2. \E k \in DOMAIN u : Settings!First(u) = u[k] BY <3>4, <4>2, FirstIs
        <5> QED BY <3>3, <5>1, <5>2 DEF SettingsShows
      <4> QED BY <4>1, <4>2
    <3> QED BY <3>3, <3>4, <3>6, <3>7
  <2>6. CASE c.kind = "reorder" BY <1>4, <2>1, <2>6
  <2>7. c.kind \in {"load", "reload"} /\ c.cancelled => UNCHANGED <<brokers, selectedId, form>> BY <1>4 DEF Settings!OnLoad
  <2> QED BY <1>5, <2>1, <2>2, <2>3, <2>4, <2>5, <2>6, <2>7 DEF Kinds
<1> QED BY <1>1, <1>2, <1>3, <1>7

(* The page's calls, as they are sent.                                     *)
SettingsAsked(c) ==
    /\ Len(calls) < MaxCalls /\ calls' = Append(calls, c) /\ overlapped' = (overlapped \/ calls # <<>>)
    /\ UNCHANGED <<rows, requested, tab, selectedId, form, reading, typed, crossed, astray>>
    /\ c.stage = "sent" /\ c.found = <<>> /\ ~c.cancelled
AskWay(c) ==
    \/ /\ c.kind = "create" /\ created < Len(Ids) /\ created' = created + 1 /\ c.id = Ids[created + 1]
       /\ c.list = <<>> /\ UNCHANGED brokers
    \/ /\ c.kind = "toggle" /\ c.id \in Settings!ToSet(Ids) /\ c.list = <<>> /\ UNCHANGED <<created, brokers>>
    \/ /\ c.kind = "save" /\ c.id = selectedId /\ c.id \in Settings!ToSet(Ids) /\ c.form = form /\ c.list = <<>>
       /\ UNCHANGED <<created, brokers>>
    \/ /\ c.kind = "delete" /\ c.id = selectedId /\ c.id \in Settings!ToSet(Ids) /\ c.list = brokers
       /\ UNCHANGED <<created, brokers>>
    \/ /\ c.kind = "reorder" /\ c.list = brokers' /\ UNCHANGED created
       /\ \E from, to \in DOMAIN brokers : brokers' = Settings!arrayMove(brokers, from, to)
Asking ==
    \/ Settings!handleAddNew \/ Settings!handleSave \/ Settings!handleDelete
    \/ \E i \in DOMAIN brokers : Settings!handleToggle(brokers[i])
    \/ \E i, j \in DOMAIN brokers : Settings!handleDragEnd(i, j)

LEMMA AskWays ==
  ASSUME Settings!BrokersFit, SettingsShaped, Asking
  PROVE  \E c \in Asks : SettingsAsked(c) /\ AskWay(c)
<1>0. selectedId \in Known /\ form \in Forms /\ brokers \in Seq(SettingsListed) /\ (created \in Nat /\ created <= Len(Ids))
  BY DEF SettingsShaped, PageShaped, RowsShaped
<1>a. "create" \in Kinds /\ "toggle" \in Kinds /\ "save" \in Kinds /\ "delete" \in Kinds /\ "reorder" \in Kinds
  BY DEF Kinds
<1>b. Settings!NoId \in Known /\ \A id \in Settings!ToSet(Ids) : id \in Known BY DEF Known
<1>c. \A k \in DOMAIN brokers : brokers[k] \in SettingsListed /\ brokers[k].id \in Settings!ToSet(Ids) BY <1>0, RowParts
<1>d. Settings!canShowForm => selectedId \in Settings!ToSet(Ids) BY <1>c DEF Settings!canShowForm, Settings!Has
<1>e. <<>> \in Seq(SettingsListed) OBVIOUS
<1>1. CASE Settings!handleAddNew
  <2>1. created < Len(Ids) /\ created' = created + 1 /\ UNCHANGED <<brokers, saving>> BY <1>1 DEF Settings!handleAddNew
  <2>2. Ids[created + 1] \in Settings!ToSet(Ids)
    <3>1. DOMAIN Ids = 1..Len(Ids) /\ Len(Ids) \in Nat
      <4>1. Ids \in Seq(Settings!ToSet(Ids)) BY FitSays
      <4> QED BY <4>1
    <3>2. created + 1 \in DOMAIN Ids BY <1>0, <2>1, <3>1
    <3> QED BY <3>2 DEF Settings!ToSet
  <2>3. PICK c : c = Settings!Call("create", Ids[created + 1]) OBVIOUS
  <2>4. /\ c \in Asks /\ c.kind = "create" /\ c.id = Ids[created + 1] /\ c.stage = "sent" /\ c.list = <<>>
        /\ c.found = <<>> /\ ~c.cancelled
    BY <1>0, <1>a, <1>b, <2>2, <2>3, CallIs
  <2>5. Settings!Ask(c) BY <1>1, <2>3 DEF Settings!handleAddNew
  <2>6. SettingsAsked(c) BY <2>4, <2>5 DEF Settings!Ask, SettingsAsked, Settings!Send
  <2>7. AskWay(c) BY <2>1, <2>4 DEF AskWay
  <2> QED BY <2>4, <2>6, <2>7
<1>2. ASSUME NEW i \in DOMAIN brokers, Settings!handleToggle(brokers[i]) PROVE \E c \in Asks : SettingsAsked(c) /\ AskWay(c)
  <2>1. PICK r : r = brokers[i] /\ r \in SettingsListed /\ r.id \in Settings!ToSet(Ids) BY <1>c
  <2>2. PICK b : b = ~r.enabled OBVIOUS
  <2>3. PICK f : f = [Settings!Bare EXCEPT !.enabled = b] OBVIOUS
  <2>4. f \in Forms
    <3>1. b \in BOOLEAN
      <4>1. r.enabled \in BOOLEAN BY <2>1, RowParts
      <4> QED BY ONLY <2>2, <4>1
    <3>2. Settings!Bare \in FormShapes /\ (Settings!Bare.auth = "certificate" => Settings!Bare.tls) BY BareIs DEF Forms
    <3>3. f \in FormShapes BY <2>3, <3>1, <3>2 DEF FormShapes
    <3>4. f.auth = Settings!Bare.auth BY <2>3, <3>2 DEF FormShapes
    <3>5. Settings!Bare.auth = "none" BY DEF Settings!Bare
    <3> QED BY <3>3, <3>4, <3>5 DEF Forms
  <2>5. PICK d : d = Settings!Call("toggle", r.id) OBVIOUS
  <2>6. /\ d \in Asks /\ d.kind = "toggle" /\ d.id = r.id /\ d.stage = "sent" /\ d.list = <<>>
        /\ d.found = <<>> /\ ~d.cancelled
    BY <1>0, <1>a, <1>b, <2>1, <2>5, CallIs
  <2>7. PICK c : c = [d EXCEPT !.form = f] OBVIOUS
  <2>8. /\ c \in Asks /\ c.kind = "toggle" /\ c.id = r.id /\ c.stage = "sent" /\ c.list = <<>>
        /\ c.found = <<>> /\ ~c.cancelled
    BY <2>4, <2>6, <2>7, CallWithForm
  <2>9. Settings!Ask(c) /\ UNCHANGED <<created, brokers, saving>> BY <1>2, <2>1, <2>2, <2>3, <2>5, <2>7 DEF Settings!handleToggle
  <2>10. SettingsAsked(c) BY <2>8, <2>9 DEF Settings!Ask, SettingsAsked, Settings!Send
  <2>11. AskWay(c) BY <2>1, <2>8, <2>9 DEF AskWay
  <2> QED BY <2>8, <2>10, <2>11
<1>3. CASE Settings!handleSave
  <2>1. selectedId \in Settings!ToSet(Ids) BY <1>3, <1>d DEF Settings!handleSave
  <2>2. PICK d : d = Settings!Call("save", selectedId) OBVIOUS
  <2>3. /\ d \in Asks /\ d.kind = "save" /\ d.id = selectedId /\ d.stage = "sent" /\ d.list = <<>>
        /\ d.found = <<>> /\ ~d.cancelled
    BY <1>0, <1>a, <2>2, CallIs
  <2>4. PICK c : c = [d EXCEPT !.form = form] OBVIOUS
  <2>5. /\ c \in Asks /\ c.kind = "save" /\ c.id = selectedId /\ c.stage = "sent" /\ c.list = <<>>
        /\ c.found = <<>> /\ ~c.cancelled /\ c.form = form
    BY <1>0, <2>3, <2>4, CallWithForm
  <2>6. Settings!Ask(c) /\ UNCHANGED <<created, brokers>> BY <1>3, <2>2, <2>4 DEF Settings!handleSave
  <2>7. SettingsAsked(c) BY <2>5, <2>6 DEF Settings!Ask, SettingsAsked, Settings!Send
  <2>8. AskWay(c) BY <2>1, <2>5, <2>6 DEF AskWay
  <2> QED BY <2>5, <2>7, <2>8
<1>4. CASE Settings!handleDelete
  <2>1. selectedId \in Settings!ToSet(Ids) BY <1>4, <1>d DEF Settings!handleDelete
  <2>2. PICK d : d = Settings!Call("delete", selectedId) OBVIOUS
  <2>3. /\ d \in Asks /\ d.kind = "delete" /\ d.id = selectedId /\ d.stage = "sent" /\ d.list = <<>>
        /\ d.found = <<>> /\ ~d.cancelled
    BY <1>0, <1>a, <2>2, CallIs
  <2>4. PICK c : c = [d EXCEPT !.list = brokers] OBVIOUS
  <2>5. /\ c \in Asks /\ c.kind = "delete" /\ c.id = selectedId /\ c.stage = "sent" /\ c.list = brokers
        /\ c.found = <<>> /\ ~c.cancelled
    BY <1>0, <2>3, <2>4, CallWithList
  <2>6. Settings!Ask(c) /\ UNCHANGED <<created, brokers, saving>> BY <1>4, <2>2, <2>4 DEF Settings!handleDelete
  <2>7. SettingsAsked(c) BY <2>5, <2>6 DEF Settings!Ask, SettingsAsked, Settings!Send
  <2>8. AskWay(c) BY <2>1, <2>5, <2>6 DEF AskWay
  <2> QED BY <2>5, <2>7, <2>8
<1>5. ASSUME NEW from \in DOMAIN brokers, NEW to \in DOMAIN brokers, Settings!handleDragEnd(from, to)
      PROVE  \E c \in Asks : SettingsAsked(c) /\ AskWay(c)
  <2>1. brokers' = Settings!arrayMove(brokers, from, to) BY <1>5 DEF Settings!handleDragEnd
  <2>2. brokers' \in Seq(SettingsListed) BY <1>0, <2>1, MoveIs
  <2>3. PICK d : d = Settings!Call("reorder", Settings!NoId) OBVIOUS
  <2>4. /\ d \in Asks /\ d.kind = "reorder" /\ d.stage = "sent" /\ d.found = <<>> /\ ~d.cancelled
    BY <1>0, <1>a, <1>b, <2>3, CallIs
  <2>5. PICK c : c = [d EXCEPT !.list = brokers'] OBVIOUS
  <2>6. /\ c \in Asks /\ c.kind = "reorder" /\ c.stage = "sent" /\ c.list = brokers'
        /\ c.found = <<>> /\ ~c.cancelled
    BY <2>2, <2>4, <2>5, CallWithList
  <2>7. Settings!Ask(c) /\ UNCHANGED <<created, saving>> BY <1>5, <2>3, <2>5 DEF Settings!handleDragEnd
  <2>8. SettingsAsked(c) BY <2>6, <2>7 DEF Settings!Ask, SettingsAsked, Settings!Send
  <2>9. AskWay(c) BY <2>1, <2>6, <2>7 DEF AskWay
  <2> QED BY <2>6, <2>8, <2>9
<1> QED BY <1>1, <1>2, <1>3, <1>4, <1>5 DEF Asking

(* The form's fields, as the user changes them.                            *)
Editing ==
    \/ \E v \in FormTexts : Settings!Type(v) \/ Settings!TypeSecret(v)
    \/ Settings!ToggleEnabled \/ Settings!ToggleTls
    \/ \E m \in {"none", "password", "certificate"} : Settings!ChooseAuth(m)

LEMMA EditMakes ==
  ASSUME Settings!BrokersFit, SettingsShaped, Editing
  PROVE  /\ form' \in Forms /\ selectedId \in Settings!ToSet(Ids)
         /\ \A x \in typed : x \in typed'
         /\ form'.text = form.text \/ <<selectedId, form'.text>> \in typed'
         /\ form'.secret = form.secret \/ <<selectedId, form'.secret>> \in typed'
         /\ Settings!Local /\ UNCHANGED <<selectedId, reading, crossed>>
<1>0. form \in Forms /\ brokers \in Seq(SettingsListed) BY DEF SettingsShaped, PageShaped
<1>a. form \in FormShapes /\ (form.auth = "certificate" => form.tls) BY <1>0 DEF Forms
<1>b. Settings!canShowForm /\ Settings!Local /\ UNCHANGED <<selectedId, reading, crossed>>
  BY DEF Editing, Settings!Type, Settings!TypeSecret, Settings!ToggleEnabled, Settings!ToggleTls, Settings!ChooseAuth, Settings!Edit
<1>c. selectedId \in Settings!ToSet(Ids)
  <2>1. \A k \in DOMAIN brokers : brokers[k].id \in Settings!ToSet(Ids) BY <1>0, RowParts
  <2> QED BY <1>b, <2>1 DEF Settings!canShowForm, Settings!Has
<1>d. form.auth \in Auths /\ form.port \in Ports BY <1>0, FormParts
<1>e. form.tls \in BOOLEAN /\ form.enabled \in BOOLEAN BY <1>0, FormParts
<1>1. ASSUME NEW v \in FormTexts, Settings!Type(v)
      PROVE  /\ form' \in Forms /\ (\A x \in typed : x \in typed') /\ form'.secret = form.secret
             /\ <<selectedId, form'.text>> \in typed'
  <2>1. PICK f : f = form' /\ f = [form EXCEPT !.text = v] BY <1>1 DEF Settings!Type, Settings!Edit
  <2>2. v \in Worded BY SomeWords
  <2>3. f \in FormShapes BY <1>a, <2>1, <2>2 DEF FormShapes
  <2>4. f.text = v /\ f.secret = form.secret /\ f.auth = form.auth BY <1>a, <2>1 DEF FormShapes
  <2>5. f.tls = form.tls BY <1>a, <2>1 DEF FormShapes
  <2>6. f \in Forms BY <1>a, <2>3, <2>4, <2>5 DEF Forms
  <2>7. typed' = typed \union {<<selectedId, v>>} BY <1>1 DEF Settings!Type
  <2> QED BY <2>1, <2>4, <2>6, <2>7
<1>2. ASSUME NEW v \in FormTexts, Settings!TypeSecret(v)
      PROVE  /\ form' \in Forms /\ (\A x \in typed : x \in typed') /\ form'.text = form.text
             /\ <<selectedId, form'.secret>> \in typed'
  <2>1. PICK f : f = form' /\ f = [form EXCEPT !.secret = v] BY <1>2 DEF Settings!TypeSecret, Settings!Edit
  <2>2. v \in Worded BY SomeWords
  <2>3. f \in FormShapes BY <1>a, <2>1, <2>2 DEF FormShapes
  <2>4. f.secret = v /\ f.text = form.text /\ f.auth = form.auth BY <1>a, <2>1 DEF FormShapes
  <2>5. f.tls = form.tls BY <1>a, <2>1 DEF FormShapes
  <2>6. f \in Forms BY <1>a, <2>3, <2>4, <2>5 DEF Forms
  <2>7. typed' = typed \union {<<selectedId, v>>} BY <1>2 DEF Settings!TypeSecret
  <2> QED BY <2>1, <2>4, <2>6, <2>7
<1>3. ASSUME Settings!ToggleEnabled PROVE form' \in Forms /\ typed' = typed /\ form'.text = form.text /\ form'.secret = form.secret
  <2>1. PICK b : b = ~form.enabled OBVIOUS
  <2>2. b \in BOOLEAN BY ONLY <2>1, <1>e
  <2>3. PICK f : f = form' /\ f = [form EXCEPT !.enabled = b] BY <1>3, <2>1 DEF Settings!ToggleEnabled, Settings!Edit
  <2>4. f \in FormShapes BY <1>a, <2>2, <2>3 DEF FormShapes
  <2>5. f.secret = form.secret /\ f.text = form.text /\ f.auth = form.auth BY <1>a, <2>3 DEF FormShapes
  <2>6. f.tls = form.tls BY <1>a, <2>3 DEF FormShapes
  <2>7. f \in Forms BY <1>a, <2>4, <2>5, <2>6 DEF Forms
  <2> QED BY <1>3, <2>3, <2>5, <2>7 DEF Settings!ToggleEnabled
<1>4. ASSUME Settings!ToggleTls PROVE form' \in Forms /\ typed' = typed /\ form'.text = form.text /\ form'.secret = form.secret
  <2>1. PICK on : on = ~form.tls OBVIOUS
  <2>2. on \in BOOLEAN BY ONLY <2>1, <1>e
  <2>3. PICK a : a = IF ~on /\ form.auth = "certificate" THEN "none" ELSE form.auth OBVIOUS
  <2>4. a \in Auths /\ (a = "certificate" => on) BY <1>d, <2>3, SomeWords
  <2>5. PICK p : p = IF on /\ form.port = "1883" THEN "8883" ELSE IF ~on /\ form.port = "8883" THEN "1883" ELSE form.port
    OBVIOUS
  <2>6. p \in Ports BY <1>d, <2>5, SomeWords
  <2>7. PICK f : f = [form EXCEPT !.tls = on, !.auth = a, !.port = p] OBVIOUS
  <2>8. form' = f
    <3>1. form' = [form EXCEPT !.tls = on, !.auth = Settings!AuthFor(on, @),
                     !.port = IF on /\ @ = "1883" THEN "8883" ELSE IF ~on /\ @ = "8883" THEN "1883" ELSE @]
      BY <1>4, <2>1 DEF Settings!ToggleTls, Settings!Edit
    <3>2. PICK g : g = [form EXCEPT !.tls = on] OBVIOUS
    <3>3. g.auth = form.auth /\ g.port = form.port /\ g \in FormShapes BY <1>a, <2>2, <3>2 DEF FormShapes
    <3>4. PICK h : h = [g EXCEPT !.auth = a] OBVIOUS
    <3>5. h.port = form.port BY <3>3, <3>4 DEF FormShapes
    <3>6. Settings!AuthFor(on, g.auth) = a BY <2>3, <3>3 DEF Settings!AuthFor
    <3> QED BY <2>5, <2>7, <3>1, <3>2, <3>3, <3>4, <3>5, <3>6
  <2>9. PICK g : g = [form EXCEPT !.tls = on] OBVIOUS
  <2>10. g \in FormShapes /\ g.text = form.text /\ g.secret = form.secret BY <1>a, <2>2, <2>9 DEF FormShapes
  <2>11. g.tls = on BY <1>a, <2>9 DEF FormShapes
  <2>12. PICK h : h = [g EXCEPT !.auth = a] OBVIOUS
  <2>13. h \in FormShapes /\ h.text = form.text /\ h.secret = form.secret /\ h.auth = a
    BY <2>4, <2>10, <2>12 DEF FormShapes
  <2>14. h.tls = on BY <2>10, <2>11, <2>12 DEF FormShapes
  <2>15. f = [h EXCEPT !.port = p] BY <2>7, <2>9, <2>12
  <2>16. f \in FormShapes /\ f.text = form.text /\ f.secret = form.secret /\ f.auth = a
    BY <2>6, <2>13, <2>15 DEF FormShapes
  <2>17. f.tls = on BY <2>13, <2>14, <2>15 DEF FormShapes
  <2>18. f \in Forms BY <2>4, <2>16, <2>17 DEF Forms
  <2> QED BY <1>4, <2>8, <2>16, <2>18 DEF Settings!ToggleTls
<1>5. ASSUME NEW m \in {"none", "password", "certificate"}, Settings!ChooseAuth(m)
      PROVE  form' \in Forms /\ typed' = typed /\ form'.text = form.text /\ form'.secret = form.secret
  <2>1. PICK f : f = form' /\ f = [form EXCEPT !.auth = m] BY <1>5 DEF Settings!ChooseAuth, Settings!Edit
  <2>2. m \in Auths BY DEF Auths
  <2>3. f \in FormShapes BY <1>a, <2>1, <2>2 DEF FormShapes
  <2>4. f.secret = form.secret /\ f.text = form.text /\ f.auth = m BY <1>a, <2>1 DEF FormShapes
  <2>5. f.tls = form.tls BY <1>a, <2>1 DEF FormShapes
  <2>6. m = "certificate" => form.tls BY <1>5 DEF Settings!ChooseAuth
  <2>7. f \in Forms BY <2>3, <2>4, <2>5, <2>6 DEF Forms
  <2> QED BY <1>5, <2>1, <2>4, <2>7 DEF Settings!ChooseAuth
<1> QED BY <1>b, <1>c, <1>1, <1>2, <1>3, <1>4, <1>5 DEF Editing

(* Every step of the module. *)
LEMMA Steps ==
  ASSUME Settings!BrokersFit, Settings!Next
  PROVE  \/ \E i \in DOMAIN calls : Settings!Serve(i)
         \/ \E i \in DOMAIN calls : Settings!Answered(i)
         \/ \E i \in DOMAIN calls : Settings!Failed(i)
         \/ \E id, t : (id = requested \/ id = Settings!NoId \/ id \in Requested) /\ Settings!Visit(id, t)
         \/ Asking
         \/ \E i \in DOMAIN brokers : Settings!handleSelect(brokers[i])
         \/ Editing
         \/ \E v \in FormTexts : Settings!ReadFile(v)
         \/ Settings!FileRead
<1>1. CASE \E t \in {"brokers", "general"} : Settings!handleTabChange(t)
  <2>1. PICK t \in {"brokers", "general"} : Settings!handleTabChange(t) BY <1>1
  <2>2. PICK id, u : id = (IF t = "brokers" THEN requested ELSE Settings!NoId) /\ u = (IF t = "brokers" THEN t ELSE Settings!None) OBVIOUS
  <2>3. Settings!Visit(id, u) BY <2>1, <2>2 DEF Settings!handleTabChange
  <2> QED BY <2>2, <2>3
<1>2. CASE \E id \in Requested : Settings!FollowLink(id)
  <2>1. PICK id \in Requested : Settings!Visit(id, tab) BY <1>2 DEF Settings!FollowLink
  <2> QED BY <2>1
<1> QED BY <1>1, <1>2 DEF Settings!Next, Asking, Editing

LEMMA VisitIs ==
  ASSUME Settings!BrokersFit, SettingsShaped, NEW id, NEW t, id = requested \/ id = Settings!NoId \/ id \in Requested, Settings!Visit(id, t)
  PROVE  /\ requested' \in Known
         /\ UNCHANGED <<rows, created, brokers, selectedId, form, saving, reading, typed, crossed, astray>>
         /\ \/ calls' = calls /\ overlapped' = overlapped
            \/ /\ id \in Known /\ Len(calls) < MaxCalls /\ Settings!Refetch(id)
               /\ overlapped' = (overlapped \/ calls # <<>>)
<1>1. id \in Known
  <2>1. requested \in Known /\ Settings!NoId \in Known BY DEF SettingsShaped, PageShaped, Known
  <2>2. Requested \subseteq Known BY FitSays
  <2> QED BY <2>1, <2>2
<1>2. requested' = id /\ UNCHANGED <<Settings!server, brokers, selectedId, form, saving, reading, typed, crossed, astray>>
  BY DEF Settings!Visit
<1>3. IF id = requested THEN UNCHANGED <<calls, overlapped>>
       ELSE Len(calls) < MaxCalls /\ Settings!Refetch(id) /\ overlapped' = (overlapped \/ calls # <<>>)
  BY DEF Settings!Visit
<1> QED BY <1>1, <1>2, <1>3 DEF Settings!server

(* A call that failed: it is gone, or the list is loaded again.            *)
LEMMA FailIs ==
  ASSUME Settings!BrokersFit, SettingsShaped, NEW i \in DOMAIN calls, Settings!Failed(i)
  PROVE  /\ calls[i] \in Asks
         /\ UNCHANGED <<Settings!server, requested, tab, brokers, selectedId, form, reading, typed, crossed, overlapped>>
         /\ astray' = (astray \/ calls[i].kind \in {"load", "reload"}
                              \/ (calls[i].stage = "served" /\ calls[i].kind # "reorder"))
         /\ IF calls[i].kind = "reorder" THEN calls' = Settings!RemoveAt(calls, i) \o <<Settings!Call("reload", Settings!NoId)>>
            ELSE calls' = Settings!RemoveAt(calls, i)
<1>1. PICK c : c = calls[i] /\ c \in Asks
  <2>1. i \in 1..Len(calls) BY DEF SettingsShaped, CallsShaped
  <2> QED BY <2>1, ElementOfSeq DEF SettingsShaped, CallsShaped
<1>2. UNCHANGED <<Settings!server, requested, tab, brokers, selectedId, form, reading, typed, crossed, overlapped>>
  BY DEF Settings!Failed
<1>3. astray' = (astray \/ c.kind \in {"load", "reload"} \/ (c.stage = "served" /\ c.kind # "reorder"))
  BY <1>1 DEF Settings!Failed
<1>4. calls' = Settings!RemoveAt(calls, i) \o Settings!Retry(c) BY <1>1 DEF Settings!Failed
<1>5. CASE c.kind = "reorder" BY <1>1, <1>2, <1>3, <1>4, <1>5 DEF Settings!Retry
<1>6. CASE c.kind # "reorder"
  <2>1. PICK t : t = Settings!RemoveAt(calls, i) OBVIOUS
  <2>2. t = SubSeq(calls, 1, i - 1) \o SubSeq(calls, i + 1, Len(calls)) BY <2>1 DEF Settings!RemoveAt
  <2>3. calls \in Seq(Asks) BY DEF SettingsShaped, CallsShaped
  <2>4. t \in Seq(Asks) BY ONLY <2>2, <2>3, i \in DOMAIN calls, Cut
  <2>5. calls' = t \o <<>> BY <1>4, <1>6, <2>1 DEF Settings!Retry
  <2>6. calls' = t BY <2>4, <2>5
  <2> QED BY <1>1, <1>2, <1>3, <1>6, <2>1, <2>6
<1> QED BY <1>5, <1>6

-----------------------------------------------------------------------------
(* The shapes stay.                                                        *)
LEMMA AskedShaped ==
  ASSUME CallsShaped, NEW W, CallsFrom(W), Len(calls') <= MaxCalls + 1,
         \A c \in W : c.stage = "sent" /\ (c.kind \in {"create", "toggle", "save", "delete"} => c.id \in Settings!ToSet(Ids))
  PROVE  CallsShaped'
<1>1. PICK u : u = calls' OBVIOUS
<1>2. u \in Seq(Asks) BY <1>1 DEF CallsFrom
<1>3. PICK m \in [DOMAIN u -> {0} \union DOMAIN calls] :
        \A a \in DOMAIN u : IF m[a] = 0 THEN a = Len(u) /\ u[a] \in W ELSE Alike(u[a], calls[m[a]])
  BY <1>1 DEF CallsFrom
<1>4. ASSUME NEW a \in DOMAIN u PROVE Answerable(u[a])
  <2>1. CASE m[a] = 0
    <3>1. u[a] \in W BY <1>3, <2>1
    <3>2. u[a].stage = "sent" /\ (u[a].kind \in {"create", "toggle", "save", "delete"} => u[a].id \in Settings!ToSet(Ids)) BY <3>1
    <3> QED BY <3>2 DEF Answerable
  <2>2. CASE m[a] # 0
    <3>1. PICK c : c = calls[m[a]] /\ Alike(u[a], c) BY <1>3, <2>2
    <3>2. Answerable(c) BY <1>3, <2>2, <3>1 DEF CallsShaped
    <3> QED BY <3>1, <3>2 DEF Alike, Answerable
  <2> QED BY <2>1, <2>2
<1> QED BY <1>1, <1>2, <1>4 DEF CallsShaped

LEMMA StartShaped == ASSUME Settings!BrokersFit, Settings!Init PROVE SettingsShaped
<1>1. /\ Initial \in Seq(SettingsListed) /\ Unique(Initial) /\ Len(Initial) <= Len(Ids) /\ Requested \subseteq Known /\ MaxCalls \in Nat
  BY FitSays
<1>2. rows = Initial /\ created = Len(Initial) /\ requested \in Requested /\ brokers = <<>> /\ selectedId = Settings!NoId
      /\ form = Settings!Bare /\ reading = <<>> /\ calls = <<Settings!Call("load", requested)>>
  BY DEF Settings!Init
<1>3. RowsShaped
  <2>1. Len(Initial) \in Nat BY <1>1, LenProperties
  <2> QED BY <1>1, <1>2, <2>1 DEF RowsShaped
<1>4. PageShaped
  <2>1. Settings!NoId \in Known /\ requested \in Known BY <1>1, <1>2 DEF Known
  <2>2. <<>> \in Seq(SettingsListed) OBVIOUS
  <2> QED BY <1>2, <2>1, <2>2, BareIs DEF PageShaped
<1>5. CallsShaped
  <2>1. PICK c : c = Settings!Call("load", requested) OBVIOUS
  <2>2. selectedId \in Known /\ requested \in Known /\ "load" \in Kinds BY <1>1, <1>2 DEF Known, Kinds
  <2>3. c \in Asks /\ c.stage = "sent" /\ c.kind = "load" BY <2>1, <2>2, CallIs
  <2>4. calls = <<c>> BY <1>2, <2>1
  <2>5. calls \in Seq(Asks) /\ Len(calls) = 1 /\ \A k \in DOMAIN calls : calls[k] = c BY <2>3, <2>4
  <2>6. Answerable(c) BY <2>3 DEF Answerable
  <2> QED BY <1>1, <2>5, <2>6 DEF CallsShaped
<1> QED BY <1>3, <1>4, <1>5 DEF SettingsShaped

(* Every broker has an id that was given out; one that is to be created    *)
(* has one of its own, that no row has.                                    *)
Given == {Ids[k] : k \in 1..created}
Making(c) == c.kind = "create" /\ c.stage = "sent"
Fresh ==
    /\ \A i \in DOMAIN rows : rows[i].id \in Given
    /\ \A i \in DOMAIN calls : Making(calls[i]) =>
          calls[i].id \in Given /\ ~Settings!Has(Initial, calls[i].id) /\ ~Settings!Has(rows, calls[i].id)
    /\ \A i, j \in DOMAIN calls : Making(calls[i]) /\ Making(calls[j]) /\ calls[i].id = calls[j].id => i = j

(* Serving a call. *)
LEMMA ServeShaped ==
  ASSUME Settings!BrokersFit, SettingsShaped, Fresh, NEW i \in DOMAIN calls, Settings!Serve(i)
  PROVE  /\ SettingsShaped'
         /\ \E c, d \in Asks : \E st, fo :
              /\ c = calls[i] /\ c.stage = "sent" /\ ServeWay(c, st, fo) /\ Became(d, c, st, fo)
              /\ calls' = [calls EXCEPT ![i] = d] /\ DOMAIN calls' = DOMAIN calls
              /\ \A k \in DOMAIN calls : calls'[k] = IF k = i THEN d ELSE calls[k]
              /\ d.stage = st /\ d.found = fo /\ st # "sent"
              /\ d.kind = c.kind /\ d.id = c.id /\ d.form = c.form /\ d.list = c.list /\ d.open = c.open
              /\ (c.cancelled <=> d.cancelled)
              /\ \A a \in DOMAIN rows' : RowFrom(rows'[a], c)
              /\ SettingsAnswers(fo, rows')
         /\ UNCHANGED <<created, Settings!page, Settings!ghosts, acts>>
<1>0. calls \in Seq(Asks) /\ Len(calls) <= MaxCalls + 1 /\ \A k \in DOMAIN calls : Answerable(calls[k])
  BY DEF SettingsShaped, CallsShaped
<1>1. /\ calls[i] \in Asks /\ calls[i].stage = "sent"
      /\ \E st, fo, d : /\ ServeWay(calls[i], st, fo) /\ Became(d, calls[i], st, fo)
                        /\ calls' = [calls EXCEPT ![i] = d]
      /\ UNCHANGED <<created, Settings!page, Settings!ghosts, acts>>
  BY <1>0, SettingsServeWays
<1>2. PICK c \in Asks : c = calls[i] BY <1>1
<1>3. PICK st, fo, d : ServeWay(c, st, fo) /\ Became(d, c, st, fo) /\ calls' = [calls EXCEPT ![i] = d] BY <1>1, <1>2
<1>4. RowsShaped /\ Answerable(c) /\ (c.kind = "create" => ~Settings!Has(rows, c.id))
  <2>1. c.kind = "create" => Making(calls[i]) BY <1>1, <1>2 DEF Making
  <2> QED BY <1>0, <1>2, <2>1 DEF SettingsShaped, Fresh
<1>5. /\ rows' \in Seq(SettingsListed) /\ Unique(rows')
      /\ st \in {"served", "refused"} /\ fo \in Seq(SettingsListed)
      /\ (st = "served" /\ c.kind \in {"create", "toggle", "save"}) => Len(fo) = 1 /\ fo[1].id = c.id
      /\ (st = "served" /\ c.kind \in {"load", "reload"}) => Unique(fo)
      /\ \A a \in DOMAIN rows' : RowFrom(rows'[a], c)
      /\ SettingsAnswers(fo, rows')
  BY <1>3, <1>4, ServeMakes
<1>6. /\ d \in Asks /\ d.stage = st /\ d.found = fo
      /\ d.kind = c.kind /\ d.id = c.id /\ d.form = c.form /\ d.list = c.list /\ d.open = c.open
  BY <1>3, <1>5, BecameIs
<1>a. c.cancelled <=> d.cancelled
  <2>1. d.cancelled = c.cancelled BY <1>3, <1>5, BecameIs
  <2> QED BY ONLY <2>1
<1>7. PICK u : u = calls' OBVIOUS
<1>8. u \in Seq(Asks) /\ Len(u) = Len(calls) /\ DOMAIN u = DOMAIN calls /\ \A k \in DOMAIN calls : u[k] = IF k = i THEN d ELSE calls[k]
  BY <1>0, <1>3, <1>6, <1>7
<1>9. Answerable(d) BY <1>4, <1>5, <1>6 DEF Answerable
<1>10. \A k \in DOMAIN u : Answerable(u[k]) BY <1>0, <1>8, <1>9
<1>11. CallsShaped' BY <1>0, <1>7, <1>8, <1>10 DEF CallsShaped
<1>12. RowsShaped' BY <1>1, <1>5 DEF SettingsShaped, RowsShaped
<1>13. PageShaped' BY <1>1 DEF SettingsShaped, PageShaped, Settings!page
<1>14. SettingsShaped' BY <1>11, <1>12, <1>13 DEF SettingsShaped
<1> QED BY <1>1, <1>2, <1>3, <1>5, <1>6, <1>a, <1>7, <1>8, <1>14

(* The other steps, as far as the rows and the calls go. *)
LEMMA PageSteps ==
  ASSUME Settings!BrokersFit, SettingsShaped, Settings!Next, \A i \in DOMAIN calls : ~Settings!Serve(i)
  PROVE  /\ rows' = rows
         /\ \E W \in SUBSET Asks :
              /\ CallsFrom(W) /\ Len(calls') <= MaxCalls + 1
              /\ \A c \in W : c.stage = "sent" /\ (c.kind \in {"create", "toggle", "save", "delete"} => c.id \in Settings!ToSet(Ids))
              /\ \/ created' = created /\ \A c \in W : c.kind # "create"
                 \/ /\ created < Len(Ids) /\ created' = created + 1
                    /\ \A c \in W : c.kind = "create" /\ c.id = Ids[created + 1]
         /\ PageShaped'
<1>0. calls \in Seq(Asks) /\ Len(calls) <= MaxCalls + 1 /\ selectedId \in Known /\ MaxCalls \in Nat
  BY FitSays DEF SettingsShaped, CallsShaped, PageShaped
<1>a. Len(calls) \in Nat /\ \A i \in DOMAIN calls : calls[i] \in Asks BY <1>0
<1>b. /\ {} \in SUBSET Asks
      /\ \A c \in {} : c.stage = "sent" /\ (c.kind \in {"create", "toggle", "save", "delete"} => c.id \in Settings!ToSet(Ids))
      /\ \A c \in {} : c.kind # "create"
  OBVIOUS
<1>c. PageShaped BY DEF SettingsShaped
<1>1. ASSUME NEW i \in DOMAIN calls, Settings!Answered(i)
      PROVE  /\ rows' = rows /\ created' = created /\ CallsFrom({}) /\ Len(calls') <= MaxCalls + 1 /\ PageShaped'
  <2>1. PICK c \in Asks : c = calls[i] BY <1>a
  <2>2. /\ c.stage = "served" /\ Answerable(c)
        /\ brokers' \in Seq(SettingsListed) /\ SettingsShows(c) /\ calls' = Settings!RemoveAt(calls, i)
        /\ UNCHANGED <<Settings!server, requested, tab, reading, typed, overlapped, astray, acts>>
    BY <1>1, <2>1, AnswerEffects DEF SettingsShaped
  <2>3. CallsFrom({}) /\ Len(calls') = Len(calls) - 1 BY <1>0, <2>2, FromCut
  <2>4. \A k \in DOMAIN brokers' : brokers'[k] \in SettingsListed BY <2>2
  <2>5. selectedId' \in Known /\ form' \in Forms
    <3>1. form \in Forms BY DEF SettingsShaped, PageShaped
    <3>2. CASE selectedId' = selectedId /\ form' = form BY <1>0, <3>1, <3>2
    <3>3. CASE selectedId' = Settings!NoId /\ form' = form BY <3>1, <3>3 DEF Known
    <3>4. ASSUME NEW k \in DOMAIN brokers', selectedId' = brokers'[k].id, form' = Settings!toForm(brokers'[k])
          PROVE  selectedId' \in Known /\ form' \in Forms
      <4>1. PICK r \in SettingsListed : r = brokers'[k] BY <2>4
      <4> QED BY <3>4, <4>1, RowParts, ToFormIs DEF Known
    <3>5. ASSUME c.kind = "toggle" \/ c.kind = "save" PROVE c.found[1] \in SettingsListed
      <4>1. Len(c.found) = 1 /\ c.found \in Seq(SettingsListed) BY <2>2, <3>5, AskParts DEF Answerable
      <4>2. 1 \in 1..Len(c.found) BY <4>1
      <4> QED BY <4>1, <4>2, ElementOfSeq
    <3>6. CASE c.kind = "toggle" /\ selectedId' = selectedId /\ form' = [form EXCEPT !.enabled = c.found[1].enabled]
      <4>1. PICK r \in SettingsListed : r = c.found[1] BY <3>5, <3>6
      <4>2. PICK b : b = r.enabled OBVIOUS
      <4>3. b \in BOOLEAN BY <4>1, <4>2, RowParts
      <4>4. PICK f : f = [form EXCEPT !.enabled = b] OBVIOUS
      <4>5. form \in FormShapes /\ (form.auth = "certificate" => form.tls) BY <3>1 DEF Forms
      <4>6. f \in FormShapes BY <4>3, <4>4, <4>5 DEF FormShapes
      <4>7. f.auth = form.auth BY <4>4, <4>5 DEF FormShapes
      <4>8. f.tls = form.tls BY <4>4, <4>5 DEF FormShapes
      <4>9. f \in Forms BY <4>5, <4>6, <4>7, <4>8 DEF Forms
      <4> QED BY <1>0, <3>6, <4>1, <4>2, <4>4, <4>9
    <3>7. CASE c.kind = "save" /\ selectedId' = selectedId /\ form' = Settings!toForm(c.found[1])
      <4>1. PICK r \in SettingsListed : r = c.found[1] BY <3>5, <3>7
      <4> QED BY <1>0, <3>7, <4>1, ToFormIs
    <3> QED BY <2>2, <3>2, <3>3, <3>4, <3>6, <3>7 DEF SettingsShows
  <2>6. PageShaped' BY <2>2, <2>5, <1>c DEF PageShaped
  <2>7. Len(calls') <= MaxCalls + 1 BY <1>0, <1>a, <2>3
  <2> QED BY <2>2, <2>3, <2>6, <2>7 DEF Settings!server
<1>2. ASSUME NEW i \in DOMAIN calls, Settings!Failed(i)
      PROVE  /\ rows' = rows /\ created' = created /\ PageShaped'
             /\ \E W \in SUBSET Asks : CallsFrom(W) /\ Len(calls') <= MaxCalls + 1 /\ \A c \in W : c.stage = "sent" /\ c.kind = "reload"
  <2>1. PICK k : k = calls[i].kind OBVIOUS
  <2>2. /\ UNCHANGED <<Settings!server, requested, tab, brokers, selectedId, form, reading, typed, crossed, overlapped>>
        /\ IF k = "reorder" THEN calls' = Settings!RemoveAt(calls, i) \o <<Settings!Call("reload", Settings!NoId)>>
           ELSE calls' = Settings!RemoveAt(calls, i)
    BY <1>2, <2>1, FailIs
  <2>3. PageShaped' BY <1>c, <2>2 DEF PageShaped
  <2>4. CASE k = "reorder"
    <3>1. PICK c : c = Settings!Call("reload", Settings!NoId) OBVIOUS
    <3>2. Settings!NoId \in Known /\ "reload" \in Kinds BY DEF Known, Kinds
    <3>3. c \in Asks /\ c.stage = "sent" /\ c.kind = "reload" BY <1>0, <3>1, <3>2, CallIs
    <3>4. CallsFrom({c}) /\ Len(calls') = Len(calls) BY <1>0, <2>2, <2>4, <3>1, <3>3, FromRetry
    <3>5. {c} \in SUBSET Asks BY <3>3
    <3>6. \A x \in {c} : x.stage = "sent" /\ x.kind = "reload" BY <3>3
    <3> QED BY <1>0, <2>2, <2>3, <3>4, <3>5, <3>6 DEF Settings!server
  <2>5. CASE k # "reorder"
    <3>1. CallsFrom({}) /\ Len(calls') = Len(calls) - 1 BY <1>0, <2>2, <2>5, FromCut
    <3>2. Len(calls') <= MaxCalls + 1 BY <1>0, <1>a, <3>1
    <3>3. {} \in SUBSET Asks /\ \A x \in {} : x.stage = "sent" /\ x.kind = "reload" OBVIOUS
    <3> QED BY <2>2, <2>3, <3>1, <3>2, <3>3 DEF Settings!server
  <2> QED BY <2>4, <2>5
<1>3. ASSUME NEW id, NEW t, id = requested \/ id = Settings!NoId \/ id \in Requested, Settings!Visit(id, t)
      PROVE  /\ rows' = rows /\ created' = created /\ PageShaped'
             /\ \E W \in SUBSET Asks : CallsFrom(W) /\ Len(calls') <= MaxCalls + 1 /\ \A c \in W : c.stage = "sent" /\ c.kind = "load"
  <2>1. /\ requested' \in Known
        /\ UNCHANGED <<rows, created, brokers, selectedId, form, saving, reading, typed, crossed, astray>>
        /\ \/ calls' = calls /\ overlapped' = overlapped
           \/ /\ id \in Known /\ Len(calls) < MaxCalls /\ Settings!Refetch(id)
              /\ overlapped' = (overlapped \/ calls # <<>>)
    BY <1>3, VisitIs
  <2>2. PageShaped' BY <1>c, <2>1 DEF PageShaped
  <2>3. CASE calls' = calls
    <3>1. CallsFrom({}) BY <1>0, <2>3, FromSame
    <3>2. {} \in SUBSET Asks /\ \A x \in {} : x.stage = "sent" /\ x.kind = "load" OBVIOUS
    <3> QED BY <1>0, <2>1, <2>2, <2>3, <3>1, <3>2
  <2>4. CASE id \in Known /\ Len(calls) < MaxCalls /\ Settings!Refetch(id)
    <3>1. PICK c : c = Settings!Call("load", id) OBVIOUS
    <3>2. c \in Asks /\ c.stage = "sent" /\ c.kind = "load"
      <4>1. "load" \in Kinds BY DEF Kinds
      <4> QED BY <1>0, <2>4, <3>1, <4>1, CallIs
    <3>3. CallsFrom({c}) /\ Len(calls') = Len(calls) + 1 BY <1>0, <2>4, <3>1, FromRefetch
    <3>4. {c} \in SUBSET Asks /\ \A x \in {c} : x.stage = "sent" /\ x.kind = "load" BY <3>2
    <3>5. Len(calls') <= MaxCalls + 1 BY <1>0, <1>a, <2>4, <3>3
    <3> QED BY <2>1, <2>2, <3>3, <3>4, <3>5
  <2> QED BY <2>1, <2>3, <2>4
<1>4. ASSUME NEW c \in Asks, SettingsAsked(c), AskWay(c)
      PROVE  /\ rows' = rows /\ PageShaped'
             /\ CallsFrom({c}) /\ Len(calls') <= MaxCalls + 1 /\ c.stage = "sent"
             /\ c.kind \in {"create", "toggle", "save", "delete"} => c.id \in Settings!ToSet(Ids)
             /\ \/ created' = created /\ c.kind # "create"
                \/ created < Len(Ids) /\ created' = created + 1 /\ c.kind = "create" /\ c.id = Ids[created + 1]
  <2>1. /\ Len(calls) < MaxCalls /\ calls' = Append(calls, c) /\ c.stage = "sent"
        /\ UNCHANGED <<rows, requested, tab, selectedId, form, reading, typed, crossed, astray>>
    BY <1>4 DEF SettingsAsked
  <2>2. CallsFrom({c}) /\ Len(calls') = Len(calls) + 1 BY <1>0, <2>1, FromAppend
  <2>3. Len(calls') <= MaxCalls + 1 BY <1>0, <1>a, <2>1, <2>2
  <2>4. brokers \in Seq(SettingsListed) BY <1>c DEF PageShaped
  <2>5. brokers' \in Seq(SettingsListed)
    <3>1. CASE brokers' = brokers BY <2>4, <3>1
    <3>2. CASE \E from, to \in DOMAIN brokers : brokers' = Settings!arrayMove(brokers, from, to) BY <2>4, <3>2, MoveIs
    <3> QED BY <1>4, <3>1, <3>2 DEF AskWay
  <2>6. PageShaped' BY <1>c, <2>1, <2>5 DEF PageShaped
  <2>7. \/ created' = created /\ c.kind # "create"
        \/ created < Len(Ids) /\ created' = created + 1 /\ c.kind = "create" /\ c.id = Ids[created + 1]
    BY <1>4 DEF AskWay
  <2>8. c.kind \in {"create", "toggle", "save", "delete"} => c.id \in Settings!ToSet(Ids)
    <3>1. CASE c.kind = "create"
      <4>1. created < Len(Ids) /\ c.id = Ids[created + 1] BY <2>7, <3>1
      <4>2. created \in Nat BY DEF SettingsShaped, RowsShaped
      <4>3. Ids \in Seq(Settings!ToSet(Ids)) BY FitSays
      <4>4. created + 1 \in 1..Len(Ids) BY <4>1, <4>2, <4>3
      <4> QED BY <4>1, <4>3, <4>4, ElementOfSeq
    <3>2. CASE c.kind # "create" BY <1>4, <3>2 DEF AskWay
    <3> QED BY <3>1, <3>2
  <2> QED BY <2>1, <2>2, <2>3, <2>6, <2>7, <2>8
<1>5. ASSUME Settings!Local, PageShaped'
      PROVE  rows' = rows /\ created' = created /\ CallsFrom({}) /\ Len(calls') <= MaxCalls + 1 /\ PageShaped'
  <2>1. rows' = rows /\ created' = created /\ calls' = calls BY <1>5 DEF Settings!Local, Settings!server
  <2> QED BY <1>0, <1>5, <2>1, FromSame
<1>6. ASSUME NEW i \in DOMAIN brokers, Settings!handleSelect(brokers[i]) PROVE Settings!Local /\ PageShaped'
  <2>1. Settings!Local /\ UNCHANGED <<reading, typed, crossed>> /\ selectedId' = brokers[i].id /\ form' = Settings!toForm(brokers[i])
    BY <1>6 DEF Settings!handleSelect, Settings!Show
  <2>2. PICK r \in SettingsListed : r = brokers[i] BY <1>c DEF PageShaped
  <2>3. selectedId' \in Known /\ form' \in Forms BY <2>1, <2>2, RowParts, ToFormIs DEF Known
  <2> QED BY <1>c, <2>1, <2>3 DEF Settings!Local, PageShaped
<1>7. ASSUME Editing PROVE Settings!Local /\ PageShaped'
  <2>1. form' \in Forms /\ Settings!Local /\ UNCHANGED <<selectedId, reading, crossed>> BY <1>7, EditMakes
  <2> QED BY <1>c, <2>1 DEF Settings!Local, PageShaped
<1>8. ASSUME NEW v \in FormTexts, Settings!ReadFile(v) PROVE Settings!Local /\ PageShaped'
  <2>1. Settings!Local /\ UNCHANGED <<selectedId, form, crossed>> /\ reading' = <<selectedId, v>> BY <1>8 DEF Settings!ReadFile
  <2>2. v \in Worded BY SomeWords
  <2>3. reading' \in (Known \X Worded) BY <1>0, <2>1, <2>2
  <2> QED BY <1>c, <2>1, <2>3 DEF Settings!Local, PageShaped
<1>9. ASSUME Settings!FileRead PROVE Settings!Local /\ PageShaped'
  <2>1. Settings!Local /\ UNCHANGED <<selectedId, typed>> /\ reading # <<>> /\ reading' = <<>> BY <1>9 DEF Settings!FileRead
  <2>2. PICK v : v = reading[2] OBVIOUS
  <2>3. v \in Worded BY <1>c, <2>1, <2>2 DEF PageShaped
  <2>4. PICK f : f = form' /\ f = [form EXCEPT !.secret = v] BY <1>9, <2>2 DEF Settings!FileRead
  <2>5. form \in FormShapes /\ (form.auth = "certificate" => form.tls) BY <1>c DEF PageShaped, Forms
  <2>6. f \in FormShapes BY <2>3, <2>4, <2>5 DEF FormShapes
  <2>7. f.auth = form.auth BY <2>4, <2>5 DEF FormShapes
  <2>8. f.tls = form.tls BY <2>4, <2>5 DEF FormShapes
  <2>9. f \in Forms BY <2>5, <2>6, <2>7, <2>8 DEF Forms
  <2> QED BY <1>c, <2>1, <2>4, <2>9 DEF Settings!Local, PageShaped
<1>10. CASE Settings!Local /\ PageShaped' BY <1>5, <1>10, <1>b
<1>11. CASE Asking
  <2>1. PICK c \in Asks : SettingsAsked(c) /\ AskWay(c) BY <1>11, AskWays
  <2>2. {c} \in SUBSET Asks BY <2>1
  <2>3. /\ rows' = rows /\ PageShaped'
        /\ CallsFrom({c}) /\ Len(calls') <= MaxCalls + 1 /\ c.stage = "sent"
        /\ c.kind \in {"create", "toggle", "save", "delete"} => c.id \in Settings!ToSet(Ids)
        /\ \/ created' = created /\ c.kind # "create"
           \/ created < Len(Ids) /\ created' = created + 1 /\ c.kind = "create" /\ c.id = Ids[created + 1]
    BY <1>4, <2>1
  <2>4. \A x \in {c} : x = c OBVIOUS
  <2> QED BY <2>2, <2>3, <2>4
<1>12. CASE \E i \in DOMAIN calls : Settings!Answered(i) BY <1>1, <1>b, <1>12
<1>13. CASE \E i \in DOMAIN calls : Settings!Failed(i)
  <2>1. /\ rows' = rows /\ created' = created /\ PageShaped'
        /\ \E W \in SUBSET Asks : CallsFrom(W) /\ Len(calls') <= MaxCalls + 1 /\ \A c \in W : c.stage = "sent" /\ c.kind = "reload"
    BY <1>2, <1>13
  <2>2. PICK W \in SUBSET Asks : CallsFrom(W) /\ Len(calls') <= MaxCalls + 1 /\ \A c \in W : c.stage = "sent" /\ c.kind = "reload"
    BY <2>1
  <2>3. \A c \in W : c.kind # "create" /\ (c.kind \in {"create", "toggle", "save", "delete"} => c.id \in Settings!ToSet(Ids))
    BY <2>2
  <2> QED BY <2>1, <2>2, <2>3
<1>14. CASE \E id, t : (id = requested \/ id = Settings!NoId \/ id \in Requested) /\ Settings!Visit(id, t)
  <2>1. /\ rows' = rows /\ created' = created /\ PageShaped'
        /\ \E W \in SUBSET Asks : CallsFrom(W) /\ Len(calls') <= MaxCalls + 1 /\ \A c \in W : c.stage = "sent" /\ c.kind = "load"
    BY <1>3, <1>14
  <2>2. PICK W \in SUBSET Asks : CallsFrom(W) /\ Len(calls') <= MaxCalls + 1 /\ \A c \in W : c.stage = "sent" /\ c.kind = "load"
    BY <2>1
  <2>3. \A c \in W : c.kind # "create" /\ (c.kind \in {"create", "toggle", "save", "delete"} => c.id \in Settings!ToSet(Ids))
    BY <2>2
  <2> QED BY <2>1, <2>2, <2>3
<1> QED BY <1>6, <1>7, <1>8, <1>9, <1>10, <1>11, <1>12, <1>13, <1>14, Steps

LEMMA StartFresh == ASSUME Settings!BrokersFit, Settings!Init PROVE Fresh
<1>1. /\ Ids \in Seq(Settings!ToSet(Ids)) /\ Initial \in Seq(SettingsListed) /\ Len(Initial) <= Len(Ids)
      /\ \A i \in DOMAIN Initial : Initial[i].id = Ids[i]
  BY FitSays
<1>2. rows = Initial /\ created = Len(Initial) /\ calls = <<Settings!Call("load", requested)>> BY DEF Settings!Init
<1>3. DOMAIN Initial = 1..Len(Initial) BY <1>1
<1>4. \A i \in DOMAIN rows : rows[i].id \in Given BY <1>1, <1>2, <1>3 DEF Given
<1>5. \A i \in DOMAIN calls : ~Making(calls[i])
  <2>1. PICK c : c = Settings!Call("load", requested) OBVIOUS
  <2>2. c.kind = "load" BY <2>1 DEF Settings!Call
  <2>3. \A i \in DOMAIN calls : calls[i] = c BY <1>2, <2>1
  <2> QED BY <2>2, <2>3 DEF Making
<1> QED BY <1>4, <1>5 DEF Fresh

(* The next id is nobody's yet. *)
LEMMA NextId ==
  ASSUME Settings!BrokersFit, SettingsShaped, Fresh, created < Len(Ids), NEW id, id = Ids[created + 1]
  PROVE  id \notin Given /\ ~Settings!Has(Initial, id) /\ ~Settings!Has(rows, id)
<1>1. /\ Ids \in Seq(Settings!ToSet(Ids)) /\ Initial \in Seq(SettingsListed) /\ Len(Initial) <= Len(Ids)
      /\ \A i \in DOMAIN Initial : Initial[i].id = Ids[i]
      /\ \A i, j \in DOMAIN Ids : Ids[i] = Ids[j] => i = j
  BY FitSays
<1>2. created \in Nat /\ Len(Initial) <= created BY DEF SettingsShaped, RowsShaped
<1>3. Len(Ids) \in Nat /\ DOMAIN Ids = 1..Len(Ids) /\ Len(Initial) \in Nat /\ DOMAIN Initial = 1..Len(Initial) BY <1>1
<1>4. created + 1 \in DOMAIN Ids BY <1>2, <1>3
<1>5. ASSUME NEW k \in 1..created PROVE Ids[k] # id
  <2>1. k \in DOMAIN Ids /\ k # created + 1 BY <1>2, <1>3
  <2> QED BY <1>1, <1>4, <2>1
<1>6. id \notin Given BY <1>5 DEF Given
<1>7. ~Settings!Has(Initial, id)
  <2> SUFFICES ASSUME NEW i \in DOMAIN Initial PROVE Initial[i].id # id BY DEF Settings!Has
  <2>1. i \in 1..created BY <1>2, <1>3
  <2> QED BY <1>1, <1>5, <2>1
<1>8. ~Settings!Has(rows, id) BY <1>6 DEF Fresh, Settings!Has
<1> QED BY <1>6, <1>7, <1>8

LEMMA ServeFresh == ASSUME Settings!BrokersFit, SettingsShaped, Fresh, NEW i \in DOMAIN calls, Settings!Serve(i) PROVE SettingsShaped' /\ Fresh'
<1>1. PICK c, d, st, fo :
              /\ c \in Asks /\ d \in Asks
              /\ c = calls[i] /\ c.stage = "sent" /\ DOMAIN calls' = DOMAIN calls
              /\ \A k \in DOMAIN calls : calls'[k] = IF k = i THEN d ELSE calls[k]
              /\ d.stage = st /\ st # "sent"
              /\ \A a \in DOMAIN rows' : RowFrom(rows'[a], c)
  BY ServeShaped
<1>2. SettingsShaped' /\ created' = created BY ServeShaped
<1>3. \A id \in Settings!ToSet(Ids) : Settings!New(id).id = id BY NewIs
<1>4. c.kind = "create" => Making(calls[i]) /\ Settings!New(c.id).id = c.id
  <2>1. c.kind = "create" => c.id \in Settings!ToSet(Ids) BY <1>1 DEF SettingsShaped, CallsShaped, Answerable
  <2> QED BY <1>1, <1>3, <2>1 DEF Making
<1>5. \A a \in DOMAIN rows' : (\E k \in DOMAIN rows : rows'[a].id = rows[k].id) \/ (Making(calls[i]) /\ rows'[a].id = calls[i].id)
  <2> SUFFICES ASSUME NEW a \in DOMAIN rows'
               PROVE  (\E k \in DOMAIN rows : rows'[a].id = rows[k].id) \/ (Making(calls[i]) /\ rows'[a].id = calls[i].id)
    OBVIOUS
  <2>1. RowFrom(rows'[a], c) BY <1>1
  <2> QED BY <1>1, <1>4, <2>1 DEF RowFrom
<1>6. Given' = Given BY <1>2 DEF Given
<1>7. \A a \in DOMAIN rows' : rows'[a].id \in Given' BY <1>5, <1>6 DEF Fresh
<1>8. \A k \in DOMAIN calls' : Making(calls'[k]) => k # i /\ calls'[k] = calls[k] /\ Making(calls[k])
  BY <1>1 DEF Making
<1>9. ASSUME NEW k \in DOMAIN calls', Making(calls'[k])
      PROVE  calls'[k].id \in Given' /\ ~Settings!Has(Initial, calls'[k].id) /\ ~Settings!Has(rows', calls'[k].id)
  <2>1. k # i /\ calls'[k] = calls[k] /\ Making(calls[k]) /\ k \in DOMAIN calls BY <1>1, <1>8, <1>9
  <2>2. ~Settings!Has(rows, calls[k].id) /\ (Making(calls[i]) => calls[k].id # calls[i].id) BY <2>1 DEF Fresh
  <2>3. ~Settings!Has(rows', calls[k].id) BY <1>5, <2>2 DEF Settings!Has
  <2> QED BY <1>6, <2>1, <2>3 DEF Fresh
<1>10. \A j, k \in DOMAIN calls' : Making(calls'[j]) /\ Making(calls'[k]) /\ calls'[j].id = calls'[k].id => j = k
  BY <1>1, <1>8 DEF Fresh
<1> QED BY <1>2, <1>7, <1>9, <1>10 DEF Fresh

LEMMA PageFresh ==
  ASSUME Settings!BrokersFit, SettingsShaped, Fresh, Settings!Next, \A i \in DOMAIN calls : ~Settings!Serve(i)
  PROVE  SettingsShaped' /\ Fresh'
<1>1. rows' = rows /\ PageShaped' BY PageSteps
<1>2. PICK W \in SUBSET Asks :
              /\ CallsFrom(W) /\ Len(calls') <= MaxCalls + 1
              /\ \A c \in W : c.stage = "sent" /\ (c.kind \in {"create", "toggle", "save", "delete"} => c.id \in Settings!ToSet(Ids))
              /\ \/ created' = created /\ \A c \in W : c.kind # "create"
                 \/ /\ created < Len(Ids) /\ created' = created + 1
                    /\ \A c \in W : c.kind = "create" /\ c.id = Ids[created + 1]
  BY PageSteps
<1>3. CallsShaped' BY <1>2, AskedShaped DEF SettingsShaped
<1>4. created \in Nat /\ Len(Initial) <= created /\ created <= Len(Ids) /\ Len(Initial) \in Nat /\ Len(Ids) \in Nat
  <2>1. Ids \in Seq(Settings!ToSet(Ids)) /\ Initial \in Seq(SettingsListed) BY FitSays
  <2> QED BY <2>1 DEF SettingsShaped, RowsShaped
<1>5. RowsShaped' BY <1>1, <1>2, <1>4 DEF SettingsShaped, RowsShaped
<1>6. SettingsShaped' BY <1>1, <1>3, <1>5 DEF SettingsShaped
<1>7. \A id \in Given : id \in Given' BY <1>2, <1>4 DEF Given
<1>8. \A i \in DOMAIN rows' : rows'[i].id \in Given' BY <1>1, <1>7 DEF Fresh
<1>9. PICK u : u = calls' OBVIOUS
<1>10. PICK m \in [DOMAIN u -> {0} \union DOMAIN calls] :
         /\ \A a \in DOMAIN u : IF m[a] = 0 THEN a = Len(u) /\ u[a] \in W ELSE Alike(u[a], calls[m[a]])
         /\ \A a, b \in DOMAIN u : m[a] = m[b] => a = b
  BY <1>2, <1>9 DEF CallsFrom
<1>11. \A a \in DOMAIN u : Making(u[a]) =>
          \/ m[a] = 0 /\ created < Len(Ids) /\ u[a].id = Ids[created + 1] /\ created' = created + 1
          \/ m[a] \in DOMAIN calls /\ Making(calls[m[a]]) /\ u[a].id = calls[m[a]].id
  <2> SUFFICES ASSUME NEW a \in DOMAIN u, Making(u[a])
               PROVE  \/ m[a] = 0 /\ created < Len(Ids) /\ u[a].id = Ids[created + 1] /\ created' = created + 1
                      \/ m[a] \in DOMAIN calls /\ Making(calls[m[a]]) /\ u[a].id = calls[m[a]].id
    OBVIOUS
  <2>1. CASE m[a] = 0
    <3>1. u[a] \in W /\ u[a].kind = "create" BY <1>10, <2>1 DEF Making
    <3> QED BY <1>2, <2>1, <3>1
  <2>2. CASE m[a] # 0
    <3>1. m[a] \in DOMAIN calls /\ Alike(u[a], calls[m[a]]) BY <1>10, <2>2
    <3> QED BY <3>1 DEF Making, Alike
  <2> QED BY <2>1, <2>2
<1>12. created < Len(Ids) =>
         Ids[created + 1] \notin Given /\ ~Settings!Has(Initial, Ids[created + 1]) /\ ~Settings!Has(rows, Ids[created + 1])
  BY NextId
<1>13. created' = created + 1 => Ids[created + 1] \in Given' BY <1>4 DEF Given
<1>14. \A i \in DOMAIN calls : Making(calls[i]) => calls[i].id \in Given BY DEF Fresh
<1>15. \A a \in DOMAIN u : Making(u[a]) => u[a].id \in Given' /\ ~Settings!Has(Initial, u[a].id) /\ ~Settings!Has(rows', u[a].id)
  <2> SUFFICES ASSUME NEW a \in DOMAIN u, Making(u[a])
               PROVE  u[a].id \in Given' /\ ~Settings!Has(Initial, u[a].id) /\ ~Settings!Has(rows', u[a].id)
    OBVIOUS
  <2>1. CASE m[a] = 0 /\ created < Len(Ids) /\ u[a].id = Ids[created + 1] /\ created' = created + 1
    BY <1>1, <1>12, <1>13, <2>1
  <2>2. CASE m[a] \in DOMAIN calls /\ Making(calls[m[a]]) /\ u[a].id = calls[m[a]].id
    BY <1>1, <1>7, <2>2 DEF Fresh
  <2> QED BY <1>11, <2>1, <2>2
<1>16. ASSUME NEW a \in DOMAIN u, NEW b \in DOMAIN u, Making(u[a]), Making(u[b]), u[a].id = u[b].id PROVE a = b
  <2>1. \A x \in {a, b} :
          \/ m[x] = 0 /\ u[x].id \notin Given
          \/ m[x] \in DOMAIN calls /\ Making(calls[m[x]]) /\ u[x].id = calls[m[x]].id /\ u[x].id \in Given
    BY <1>11, <1>12, <1>14, <1>16
  <2>2. m[a] = m[b] BY <1>16, <2>1 DEF Fresh
  <2> QED BY <1>10, <2>2
<1>17. Fresh' BY <1>8, <1>9, <1>15, <1>16 DEF Fresh
<1> QED BY <1>6, <1>17

LEMMA StillShaped ==
  ASSUME Settings!BrokersFit, SettingsShaped, Fresh, UNCHANGED Settings!vars
  PROVE  SettingsShaped' /\ Fresh'
<1>1. SettingsShaped' BY DEF SettingsShaped, RowsShaped, PageShaped, CallsShaped, Answerable, Settings!vars, Settings!server, Settings!page
<1>2. Fresh' BY DEF Fresh, Given, Making, Settings!Has, Settings!vars, Settings!server, Settings!page
<1> QED BY <1>1, <1>2

(* The lists, the form and the calls of the brokers' settings keep their   *)
(* shapes, and ids are used once (ConfigPage.tsx).                         *)
THEOREM BrokersShaped == ASSUME Settings!BrokersFit PROVE BrokerRuns => [](SettingsShaped /\ Fresh)
<1>1. Settings!Init => SettingsShaped /\ Fresh BY StartShaped, StartFresh
<1>2. SettingsShaped /\ Fresh /\ [Settings!Next]_(Settings!vars) => (SettingsShaped /\ Fresh)'
  <2> SUFFICES ASSUME SettingsShaped, Fresh, [Settings!Next]_(Settings!vars) PROVE SettingsShaped' /\ Fresh' OBVIOUS
  <2>1. CASE \E i \in DOMAIN calls : Settings!Serve(i) BY <2>1, ServeFresh
  <2>2. CASE Settings!Next /\ \A i \in DOMAIN calls : ~Settings!Serve(i) BY <2>2, PageFresh
  <2>3. CASE UNCHANGED Settings!vars BY <2>3, StillShaped
  <2> QED BY <2>1, <2>2, <2>3
<1> QED BY <1>1, <1>2, PTL DEF BrokerRuns

(* A certificate is only asked for under TLS, and no more calls are under  *)
(* way than the page may make (ConfigPage.tsx).                            *)
THEOREM BrokersTyped == ASSUME Settings!BrokersFit PROVE BrokerRuns => []Settings!TypeOK
<1>1. SettingsShaped => Settings!TypeOK
  <2> SUFFICES ASSUME SettingsShaped PROVE Settings!TypeOK OBVIOUS
  <2>1. Len(calls) <= MaxCalls + 1 /\ created <= Len(Ids) BY DEF SettingsShaped, CallsShaped, RowsShaped
  <2>2. selectedId \in {Settings!NoId} \union Settings!ToSet(Ids) BY DEF SettingsShaped, PageShaped, Known
  <2>3. form.auth = "certificate" => form.tls BY FormParts DEF SettingsShaped, PageShaped
  <2>4. \A i \in DOMAIN rows : rows[i].auth = "certificate" => rows[i].tls
    <3>1. \A i \in DOMAIN rows : rows[i] \in SettingsListed BY DEF SettingsShaped, RowsShaped
    <3> QED BY <3>1, RowParts
  <2> QED BY <2>1, <2>2, <2>3, <2>4 DEF Settings!TypeOK
<1> QED BY <1>1, BrokersShaped, PTL

-----------------------------------------------------------------------------
(* What was entered for a broker: t are the pairs typed so far.            *)
TextOwn(t, id, v) == v = Settings!Original(id).text \/ <<id, v>> \in t
SecretOwn(t, id, v) == v = Settings!Original(id).secret \/ <<id, v>> \in t
ListOwn(t, list) == \A i \in DOMAIN list : TextOwn(t, list[i].id, list[i].text)
FormOwn(t, id, f) == TextOwn(t, id, f.text) /\ (f.secret = Settings!None \/ <<id, f.secret>> \in t)
CallOwn(t, c) ==
    /\ ListOwn(t, c.list) /\ ListOwn(t, c.found)
    /\ c.kind = "save" => FormOwn(t, c.id, c.form)
(* So are the server's rows, the page's list and its form, the file that   *)
(* is read, and what the calls carry.                                      *)
Owned ==
    /\ ListOwn(typed, rows) /\ \A i \in DOMAIN rows : SecretOwn(typed, rows[i].id, rows[i].secret)
    /\ ListOwn(typed, brokers)
    /\ selectedId # Settings!NoId => FormOwn(typed, selectedId, form)
    /\ reading # <<>> => reading \in typed
    /\ \A i \in DOMAIN calls : CallOwn(typed, calls[i])

LEMMA OwnGrows ==
  ASSUME NEW t, NEW u, \A x \in t : x \in u
  PROVE  /\ \A id, v : SecretOwn(t, id, v) => SecretOwn(u, id, v)
         /\ \A l : ListOwn(t, l) => ListOwn(u, l)
         /\ \A id, f : FormOwn(t, id, f) => FormOwn(u, id, f)
         /\ \A c : CallOwn(t, c) => CallOwn(u, c)
<1>1. \A id, v : SecretOwn(t, id, v) => SecretOwn(u, id, v) BY DEF SecretOwn
<1>2. \A id, v : TextOwn(t, id, v) => TextOwn(u, id, v) BY DEF TextOwn
<1>3. \A l : ListOwn(t, l) => ListOwn(u, l) BY <1>2 DEF ListOwn
<1>4. \A id, f : FormOwn(t, id, f) => FormOwn(u, id, f) BY <1>2 DEF FormOwn
<1>5. \A c : CallOwn(t, c) => CallOwn(u, c) BY <1>3, <1>4 DEF CallOwn
<1> QED BY <1>1, <1>3, <1>4, <1>5

LEMMA NothingOwn == \A t : ListOwn(t, <<>>)
<1>1. DOMAIN <<>> = {} OBVIOUS
<1> QED BY <1>1 DEF ListOwn

(* A step of the page alone. *)
LEMMA OwnBy ==
  ASSUME Owned, rows' = rows, \A x \in typed : x \in typed',
         NEW W, CallsFrom(W), \A c \in W : CallOwn(typed', c),
         ListOwn(typed', brokers'), selectedId' # Settings!NoId => FormOwn(typed', selectedId', form'),
         reading' # <<>> => reading' \in typed'
  PROVE  Owned'
<1>1. PICK t : t = typed' OBVIOUS
<1>2. \A x \in typed : x \in t BY <1>1
<1>3. PICK s : s = typed OBVIOUS
<1>4. /\ \A id, v : SecretOwn(s, id, v) => SecretOwn(t, id, v)
      /\ \A l : ListOwn(s, l) => ListOwn(t, l)
      /\ \A c : CallOwn(s, c) => CallOwn(t, c)
  BY <1>2, <1>3, OwnGrows
<1>5. PICK u : u = calls' OBVIOUS
<1>6. PICK m \in [DOMAIN u -> {0} \union DOMAIN calls] :
        \A a \in DOMAIN u : IF m[a] = 0 THEN a = Len(u) /\ u[a] \in W ELSE Alike(u[a], calls[m[a]])
  BY <1>5 DEF CallsFrom
<1>7. ASSUME NEW a \in DOMAIN u PROVE CallOwn(t, u[a])
  <2>1. CASE m[a] = 0 BY <1>1, <1>6, <2>1
  <2>2. CASE m[a] # 0
    <3>1. m[a] \in DOMAIN calls /\ Alike(u[a], calls[m[a]]) BY <1>6, <2>2
    <3>2. CallOwn(t, calls[m[a]]) BY <1>3, <1>4, <3>1 DEF Owned
    <3> QED BY <3>1, <3>2 DEF CallOwn, Alike
  <2> QED BY <2>1, <2>2
<1>8. ListOwn(t, rows) /\ \A i \in DOMAIN rows : SecretOwn(t, rows[i].id, rows[i].secret) BY <1>3, <1>4 DEF Owned
<1> QED BY <1>1, <1>5, <1>7, <1>8 DEF Owned

LEMMA ServeOwn == ASSUME Settings!BrokersFit, SettingsShaped, Fresh, Owned, NEW i \in DOMAIN calls, Settings!Serve(i) PROVE Owned'
<1>1. PICK c, d, st, fo :
              /\ c \in Asks /\ d \in Asks
              /\ c = calls[i] /\ c.stage = "sent" /\ DOMAIN calls' = DOMAIN calls
              /\ \A k \in DOMAIN calls : calls'[k] = IF k = i THEN d ELSE calls[k]
              /\ d.found = fo
              /\ d.kind = c.kind /\ d.id = c.id /\ d.form = c.form /\ d.list = c.list
              /\ \A a \in DOMAIN rows' : RowFrom(rows'[a], c)
              /\ SettingsAnswers(fo, rows')
  BY ServeShaped
<1>2. UNCHANGED <<Settings!page, Settings!ghosts>> BY ServeShaped
<1>3. typed' = typed /\ brokers' = brokers /\ selectedId' = selectedId /\ form' = form /\ reading' = reading
  BY <1>2 DEF Settings!page, Settings!ghosts
<1>4. c.kind = "create" => c.id \in Settings!ToSet(Ids) /\ Settings!New(c.id).id = c.id /\ Settings!Original(c.id) = Settings!New(c.id)
  <2>1. c.kind = "create" => Making(calls[i]) BY <1>1 DEF Making
  <2>2. c.kind = "create" => ~Settings!Has(Initial, c.id) BY <1>1, <2>1 DEF Fresh
  <2>3. c.kind = "create" => c.id \in Settings!ToSet(Ids) BY <1>1 DEF SettingsShaped, CallsShaped, Answerable
  <2> QED BY <2>2, <2>3, NewIs DEF Settings!Original
<1>5. CallOwn(typed, c) BY <1>1 DEF Owned
<1>6. ASSUME NEW a \in DOMAIN rows'
      PROVE  TextOwn(typed, rows'[a].id, rows'[a].text) /\ SecretOwn(typed, rows'[a].id, rows'[a].secret)
  <2>1. PICK r : r = rows'[a] /\ RowFrom(r, c) BY <1>1
  <2>2. ASSUME NEW k \in DOMAIN rows
        PROVE  TextOwn(typed, rows[k].id, rows[k].text) /\ SecretOwn(typed, rows[k].id, rows[k].secret)
    BY DEF Owned, ListOwn
  <2>3. ASSUME NEW k \in DOMAIN rows, r.id = rows[k].id /\ r.text = rows[k].text /\ r.secret = rows[k].secret
        PROVE  TextOwn(typed, r.id, r.text) /\ SecretOwn(typed, r.id, r.secret)
    BY <2>2, <2>3
  <2>4. ASSUME c.kind = "create" /\ r = Settings!New(c.id)
        PROVE  TextOwn(typed, r.id, r.text) /\ SecretOwn(typed, r.id, r.secret)
    <3>1. r.id = c.id /\ Settings!Original(c.id) = r BY <1>4, <2>4
    <3>2. Settings!Original(r.id) = r BY <3>1
    <3>3. r.text = Settings!Original(r.id).text /\ r.secret = Settings!Original(r.id).secret BY ONLY <3>2
    <3> QED BY ONLY <3>3 DEF TextOwn, SecretOwn
  <2>5. ASSUME c.kind = "save" /\ r.id = c.id /\ r.text = c.form.text, NEW k \in DOMAIN rows, rows[k].id = c.id,
               r.secret = rows[k].secret \/ (r.secret = c.form.secret /\ c.form.secret # Settings!None)
        PROVE  TextOwn(typed, r.id, r.text) /\ SecretOwn(typed, r.id, r.secret)
    <3>1. FormOwn(typed, c.id, c.form) BY <1>5, <2>5 DEF CallOwn
    <3>2. TextOwn(typed, r.id, r.text) BY <2>5, <3>1 DEF FormOwn
    <3>3. CASE r.secret = rows[k].secret BY <2>2, <2>5, <3>2, <3>3
    <3>4. CASE r.secret = c.form.secret /\ c.form.secret # Settings!None
      <4>1. <<c.id, c.form.secret>> \in typed BY <3>1, <3>4 DEF FormOwn
      <4> QED BY <2>5, <3>2, <3>4, <4>1 DEF SecretOwn
    <3> QED BY <2>5, <3>3, <3>4
  <2>6. ASSUME \E k \in DOMAIN rows : r.id = rows[k].id /\ r.text = rows[k].text /\ r.secret = rows[k].secret
        PROVE  TextOwn(typed, r.id, r.text) /\ SecretOwn(typed, r.id, r.secret)
    <3>1. PICK k \in DOMAIN rows : r.id = rows[k].id /\ r.text = rows[k].text /\ r.secret = rows[k].secret BY <2>6
    <3> QED BY <2>3, <3>1
  <2>7. ASSUME c.kind = "save" /\ r.id = c.id /\ r.text = c.form.text,
               \E k \in DOMAIN rows :
                  rows[k].id = c.id /\ (r.secret = rows[k].secret \/ (r.secret = c.form.secret /\ c.form.secret # Settings!None))
        PROVE  TextOwn(typed, r.id, r.text) /\ SecretOwn(typed, r.id, r.secret)
    <3>1. PICK k \in DOMAIN rows :
            rows[k].id = c.id /\ (r.secret = rows[k].secret \/ (r.secret = c.form.secret /\ c.form.secret # Settings!None))
      BY <2>7
    <3> QED BY ONLY <2>5, <2>7, <3>1
  <2>8. TextOwn(typed, r.id, r.text) /\ SecretOwn(typed, r.id, r.secret)
    BY ONLY <2>1, <2>4, <2>6, <2>7 DEF RowFrom
  <2> QED BY ONLY <2>1, <2>8
<1>7. ListOwn(typed, rows') BY <1>6 DEF ListOwn
<1>8. ListOwn(typed, fo) BY <1>1, <1>7 DEF SettingsAnswers, ListOwn
<1>9. CallOwn(typed, d) BY <1>1, <1>5, <1>8 DEF CallOwn
<1>10. \A k \in DOMAIN calls' : CallOwn(typed, calls'[k]) BY <1>1, <1>9 DEF Owned
<1> QED BY <1>3, <1>6, <1>7, <1>10 DEF Owned

LEMMA AnswerOwn ==
  ASSUME Settings!BrokersFit, SettingsShaped, Owned, NEW i \in DOMAIN calls, Settings!Answered(i), ~crossed'
  PROVE  Owned'
<1>1. PICK c \in Asks : c = calls[i] BY AnswerEffects DEF SettingsShaped
<1>2. /\ c.stage = "served" /\ Answerable(c)
      /\ brokers' \in Seq(SettingsListed) /\ ListsFrom(c) /\ SettingsShows(c)
      /\ calls' = Settings!RemoveAt(calls, i) /\ crossed' = (crossed \/ Settings!Left(c))
      /\ UNCHANGED <<Settings!server, reading, typed>>
  BY <1>1, AnswerEffects DEF SettingsShaped
<1>3. CallsFrom({}) BY <1>2, FromCut DEF SettingsShaped, CallsShaped
<1>4. CallOwn(typed, c) BY <1>1 DEF Owned
<1>5. ListOwn(typed, brokers') BY <1>2, <1>4 DEF ListsFrom, ListOwn, CallOwn, Owned
<1>6. ASSUME selectedId' # Settings!NoId PROVE FormOwn(typed, selectedId', form')
  <2>0. form \in Forms BY DEF SettingsShaped, PageShaped
  <2>1. CASE selectedId' = selectedId /\ form' = form BY <1>6, <2>1 DEF Owned
  <2>2. ASSUME NEW k \in DOMAIN brokers', selectedId' = brokers'[k].id, form' = Settings!toForm(brokers'[k])
        PROVE  FormOwn(typed, selectedId', form')
    <3>1. PICK r \in SettingsListed : r = brokers'[k] BY <1>2
    <3>2. Settings!toForm(r).text = r.text /\ Settings!toForm(r).secret = Settings!None BY ToFormIs
    <3>3. TextOwn(typed, r.id, r.text) BY <1>5, <3>1 DEF ListOwn
    <3> QED BY <2>2, <3>1, <3>2, <3>3 DEF FormOwn
  <2>3. CASE selectedId' = selectedId /\ form' = [form EXCEPT !.enabled = c.found[1].enabled]
    <3>1. form'.text = form.text /\ form'.secret = form.secret BY <2>0, <2>3 DEF Forms, FormShapes
    <3>2. FormOwn(typed, selectedId, form) BY <1>6, <2>3 DEF Owned
    <3> QED BY <2>3, <3>1, <3>2 DEF FormOwn
  <2>4. CASE c.kind = "save" /\ selectedId' = selectedId /\ form' = Settings!toForm(c.found[1])
    <3>1. CASE form' = form BY <2>1, <2>4, <3>1
    <3>2. CASE c.id = selectedId
      <4>1. Len(c.found) = 1 /\ c.found[1].id = c.id /\ c.found \in Seq(SettingsListed) BY <1>2, <2>4, AskParts DEF Answerable
      <4>2. PICK r \in SettingsListed : r = c.found[1] /\ 1 \in DOMAIN c.found
        <5>1. 1 \in 1..Len(c.found) /\ 1 \in DOMAIN c.found BY <4>1
        <5> QED BY <4>1, <5>1, ElementOfSeq
      <4>3. Settings!toForm(r).text = r.text /\ Settings!toForm(r).secret = Settings!None BY ToFormIs
      <4>4. TextOwn(typed, r.id, r.text) BY <1>4, <4>2 DEF CallOwn, ListOwn
      <4> QED BY <2>4, <3>2, <4>1, <4>2, <4>3, <4>4 DEF FormOwn
    <3> QED BY <1>2, <2>4, <3>1, <3>2 DEF Settings!Left
  <2> QED BY <1>2, <1>6, <2>1, <2>2, <2>3, <2>4 DEF SettingsShows
<1>7. PICK t : t = typed' /\ t = typed BY <1>2
<1>8. reading' # <<>> => reading' \in typed' BY <1>2 DEF Owned
<1> QED BY <1>2, <1>3, <1>5, <1>6, <1>8, OwnBy DEF Settings!server

LEMMA FailOwn ==
  ASSUME Settings!BrokersFit, SettingsShaped, Owned, NEW i \in DOMAIN calls, Settings!Failed(i)
  PROVE  Owned' /\ crossed' = crossed
<1>0. calls \in Seq(Asks) /\ selectedId \in Known BY DEF SettingsShaped, CallsShaped, PageShaped
<1>1. PICK k : k = calls[i].kind OBVIOUS
<1>2. /\ UNCHANGED <<Settings!server, brokers, selectedId, form, reading, typed, crossed>>
      /\ IF k = "reorder" THEN calls' = Settings!RemoveAt(calls, i) \o <<Settings!Call("reload", Settings!NoId)>>
         ELSE calls' = Settings!RemoveAt(calls, i)
  BY <1>1, FailIs
<1>3. /\ ListOwn(typed', brokers') /\ (selectedId' # Settings!NoId => FormOwn(typed', selectedId', form'))
      /\ (reading' # <<>> => reading' \in typed')
  BY <1>2 DEF Owned
<1>4. rows' = rows /\ \A x \in typed : x \in typed' BY <1>2 DEF Settings!server
<1>5. CASE k = "reorder"
  <2>1. PICK c : c = Settings!Call("reload", Settings!NoId) OBVIOUS
  <2>2. Settings!NoId \in Known /\ "reload" \in Kinds BY DEF Known, Kinds
  <2>3. c \in Asks /\ c.kind = "reload" /\ c.list = <<>> /\ c.found = <<>> BY <1>0, <2>1, <2>2, CallIs
  <2>4. CallsFrom({c}) BY <1>0, <1>2, <1>5, <2>1, <2>3, FromRetry
  <2>5. CallOwn(typed', c) BY <2>3, NothingOwn DEF CallOwn
  <2>6. \A x \in {c} : CallOwn(typed', x) BY <2>5
  <2>7. Owned' BY ONLY Owned, <1>3, <1>4, <2>4, <2>6, OwnBy
  <2> QED BY <1>2, <2>7
<1>6. CASE k # "reorder"
  <2>1. CallsFrom({}) BY <1>0, <1>2, <1>6, FromCut
  <2>2. \A x \in {} : CallOwn(typed', x) OBVIOUS
  <2>3. Owned' BY ONLY Owned, <1>3, <1>4, <2>1, <2>2, OwnBy
  <2> QED BY <1>2, <2>3
<1> QED BY <1>5, <1>6

LEMMA VisitOwn ==
  ASSUME Settings!BrokersFit, SettingsShaped, Owned, NEW id, NEW t, id = requested \/ id = Settings!NoId \/ id \in Requested, Settings!Visit(id, t)
  PROVE  Owned' /\ crossed' = crossed
<1>0. calls \in Seq(Asks) /\ selectedId \in Known BY DEF SettingsShaped, CallsShaped, PageShaped
<1>1. /\ UNCHANGED <<rows, created, brokers, selectedId, form, saving, reading, typed, crossed, astray>>
      /\ \/ calls' = calls
         \/ id \in Known /\ Len(calls) < MaxCalls /\ Settings!Refetch(id)
  BY VisitIs
<1>2. /\ ListOwn(typed', brokers') /\ (selectedId' # Settings!NoId => FormOwn(typed', selectedId', form'))
      /\ (reading' # <<>> => reading' \in typed')
  BY <1>1 DEF Owned
<1>3. rows' = rows /\ \A x \in typed : x \in typed' BY <1>1
<1>4. CASE calls' = calls
  <2>1. CallsFrom({}) BY <1>0, <1>4, FromSame
  <2>2. \A x \in {} : CallOwn(typed', x) OBVIOUS
  <2>3. Owned' BY ONLY Owned, <1>2, <1>3, <2>1, <2>2, OwnBy
  <2> QED BY <1>1, <2>3
<1>5. CASE id \in Known /\ Settings!Refetch(id)
  <2>1. PICK c : c = Settings!Call("load", id) OBVIOUS
  <2>2. "load" \in Kinds BY DEF Kinds
  <2>3. c \in Asks /\ c.kind = "load" /\ c.list = <<>> /\ c.found = <<>> BY <1>0, <1>5, <2>1, <2>2, CallIs
  <2>4. CallsFrom({c}) BY <1>0, <1>5, <2>1, FromRefetch
  <2>5. CallOwn(typed', c) BY <2>3, NothingOwn DEF CallOwn
  <2>6. \A x \in {c} : CallOwn(typed', x) BY <2>5
  <2>7. Owned' BY ONLY Owned, <1>2, <1>3, <2>4, <2>6, OwnBy
  <2> QED BY <1>1, <2>7
<1> QED BY <1>1, <1>4, <1>5

LEMMA AskOwn ==
  ASSUME Settings!BrokersFit, SettingsShaped, Owned, Asking
  PROVE  Owned' /\ crossed' = crossed
<1>0. calls \in Seq(Asks) /\ brokers \in Seq(SettingsListed) BY DEF SettingsShaped, CallsShaped, PageShaped
<1>1. PICK c \in Asks : SettingsAsked(c) /\ AskWay(c) BY AskWays
<1>2. /\ calls' = Append(calls, c) /\ c.found = <<>>
      /\ UNCHANGED <<rows, selectedId, form, reading, typed, crossed>>
  BY <1>1 DEF SettingsAsked
<1>3. CallsFrom({c}) BY <1>0, <1>2, FromAppend
<1>4. ListOwn(typed, brokers) BY DEF Owned
<1>5. ListOwn(typed, brokers')
  <2>1. CASE brokers' = brokers BY <1>4, <2>1
  <2>2. ASSUME NEW from \in DOMAIN brokers, NEW to \in DOMAIN brokers, brokers' = Settings!arrayMove(brokers, from, to)
        PROVE  ListOwn(typed, brokers')
    <3>1. Within(brokers', brokers) BY <1>0, <2>2, MoveIs
    <3>2. \A a \in DOMAIN brokers' : \E k \in DOMAIN brokers : brokers'[a] = brokers[k] BY <3>1, WithinKeeps
    <3> QED BY <1>4, <3>2 DEF ListOwn
  <2> QED BY <1>1, <2>1, <2>2 DEF AskWay
<1>6. ListOwn(typed, c.list) /\ ListOwn(typed, c.found)
  <2>1. c.list = <<>> \/ c.list = brokers \/ c.list = brokers' BY <1>1 DEF AskWay
  <2> QED BY <1>2, <1>4, <1>5, <2>1, NothingOwn
<1>7. c.kind = "save" => FormOwn(typed, c.id, c.form)
  <2>1. c.kind = "save" => c.id = selectedId /\ c.id \in Settings!ToSet(Ids) /\ c.form = form BY <1>1 DEF AskWay
  <2>2. Settings!NoId \notin Settings!ToSet(Ids) BY FitSays
  <2> QED BY <2>1, <2>2 DEF Owned
<1>8. CallOwn(typed, c) BY <1>6, <1>7 DEF CallOwn
<1>9. \A x \in {c} : CallOwn(typed', x) BY <1>2, <1>8
<1>10. /\ ListOwn(typed', brokers') /\ (selectedId' # Settings!NoId => FormOwn(typed', selectedId', form'))
       /\ (reading' # <<>> => reading' \in typed')
  BY <1>2, <1>5 DEF Owned
<1>11. rows' = rows /\ \A x \in typed : x \in typed' BY <1>2
<1>12. Owned' BY ONLY Owned, <1>3, <1>9, <1>10, <1>11, OwnBy
<1> QED BY <1>2, <1>12

LEMMA LocalOwn ==
  ASSUME Settings!BrokersFit, SettingsShaped, Owned, Settings!Local, \A x \in typed : x \in typed',
         selectedId' # Settings!NoId => FormOwn(typed', selectedId', form'), reading' # <<>> => reading' \in typed'
  PROVE  Owned'
<1>1. rows' = rows /\ brokers' = brokers /\ calls' = calls BY DEF Settings!Local, Settings!server
<1>2. calls \in Seq(Asks) BY DEF SettingsShaped, CallsShaped
<1>3. CallsFrom({}) BY <1>1, <1>2, FromSame
<1>4. PICK s, t : s = typed /\ t = typed' OBVIOUS
<1>5. \A x \in s : x \in t BY <1>4
<1>6. ListOwn(s, brokers) => ListOwn(t, brokers) BY <1>5, OwnGrows
<1>7. ListOwn(typed', brokers') BY <1>1, <1>4, <1>6 DEF Owned
<1>8. \A x \in {} : CallOwn(typed', x) OBVIOUS
<1> QED BY <1>1, <1>3, <1>7, <1>8, OwnBy

LEMMA HereOwn ==
  ASSUME Settings!BrokersFit, SettingsShaped, Owned, ~crossed',
         \/ \E i \in DOMAIN brokers : Settings!handleSelect(brokers[i])
         \/ Editing
         \/ \E v \in FormTexts : Settings!ReadFile(v)
         \/ Settings!FileRead
  PROVE  Owned'
<1>0. brokers \in Seq(SettingsListed) /\ selectedId \in Known /\ form \in Forms /\ (reading # <<>> => reading \in (Known \X Worded))
  BY DEF SettingsShaped, PageShaped
<1>1. ASSUME NEW i \in DOMAIN brokers, Settings!handleSelect(brokers[i]) PROVE Owned'
  <2>1. Settings!Local /\ UNCHANGED <<reading, typed>> /\ selectedId' = brokers[i].id /\ form' = Settings!toForm(brokers[i])
    BY <1>1 DEF Settings!handleSelect, Settings!Show
  <2>2. PICK r \in SettingsListed : r = brokers[i] BY <1>0
  <2>3. Settings!toForm(r).text = r.text /\ Settings!toForm(r).secret = Settings!None BY ToFormIs
  <2>4. TextOwn(typed, r.id, r.text) BY <2>2 DEF Owned, ListOwn
  <2>5. FormOwn(typed', selectedId', form') BY <2>1, <2>2, <2>3, <2>4 DEF FormOwn
  <2>6. (reading' # <<>> => reading' \in typed') /\ \A x \in typed : x \in typed' BY <2>1 DEF Owned
  <2> QED BY <2>1, <2>5, <2>6, LocalOwn
<1>2. CASE Editing
  <2>1. /\ selectedId \in Settings!ToSet(Ids)
        /\ \A x \in typed : x \in typed'
        /\ form'.text = form.text \/ <<selectedId, form'.text>> \in typed'
        /\ form'.secret = form.secret \/ <<selectedId, form'.secret>> \in typed'
        /\ Settings!Local /\ UNCHANGED <<selectedId, reading, crossed>>
    BY <1>2, EditMakes
  <2>2. selectedId # Settings!NoId BY <2>1, FitSays
  <2>3. PICK f, g, s, t : f = form /\ g = form' /\ s = typed /\ t = typed' OBVIOUS
  <2>4. FormOwn(s, selectedId, f) /\ \A x \in s : x \in t BY <2>1, <2>2, <2>3 DEF Owned
  <2>5. FormOwn(t, selectedId, f) BY <2>4, OwnGrows
  <2>6. TextOwn(t, selectedId, g.text)
    <3>1. CASE g.text = f.text BY <2>5, <3>1 DEF FormOwn
    <3>2. CASE <<selectedId, g.text>> \in t BY <3>2 DEF TextOwn
    <3> QED BY <2>1, <2>3, <3>1, <3>2
  <2>7. g.secret = Settings!None \/ <<selectedId, g.secret>> \in t
    <3>1. CASE g.secret = f.secret BY <2>5, <3>1 DEF FormOwn
    <3> QED BY <2>1, <2>3, <3>1
  <2>8. FormOwn(t, selectedId, g) BY <2>6, <2>7 DEF FormOwn
  <2>9. FormOwn(typed', selectedId', form') BY <2>1, <2>3, <2>8
  <2>10. reading' # <<>> => reading' \in typed' BY <2>1 DEF Owned
  <2> QED BY <2>1, <2>9, <2>10, LocalOwn
<1>3. ASSUME NEW v \in FormTexts, Settings!ReadFile(v) PROVE Owned'
  <2>1. Settings!Local /\ UNCHANGED <<selectedId, form, crossed>> /\ reading' = <<selectedId, v>>
        /\ typed' = typed \union {<<selectedId, v>>}
    BY <1>3 DEF Settings!ReadFile
  <2>2. PICK s, t : s = typed /\ t = typed' OBVIOUS
  <2>3. \A x \in s : x \in t BY <2>1, <2>2
  <2>4. FormOwn(s, selectedId, form) => FormOwn(t, selectedId, form) BY <2>3, OwnGrows
  <2>5. selectedId' # Settings!NoId => FormOwn(typed', selectedId', form') BY <2>1, <2>2, <2>4 DEF Owned
  <2>6. \A x \in typed : x \in typed' BY <2>1
  <2>7. reading' # <<>> => reading' \in typed' BY <2>1
  <2> QED BY <2>1, <2>5, <2>6, <2>7, LocalOwn
<1>4. CASE Settings!FileRead
  <2>1. Settings!Local /\ UNCHANGED <<selectedId, typed>> /\ reading # <<>> /\ reading' = <<>>
        /\ crossed' = (crossed \/ reading[1] # selectedId)
    BY <1>4 DEF Settings!FileRead
  <2>2. PICK v : v = reading[2] OBVIOUS
  <2>a. reading[1] = selectedId BY <2>1
  <2>b. PICK r : r = reading /\ r \in (Known \X Worded) BY <1>0, <2>1
  <2>c. r = <<r[1], r[2]>> BY ONLY <2>b
  <2>3. reading = <<selectedId, v>> BY ONLY <2>a, <2>b, <2>c, <2>2
  <2>4. <<selectedId, v>> \in typed BY <2>1, <2>3 DEF Owned
  <2>5. PICK f : f = form' /\ f = [form EXCEPT !.secret = v] BY <1>4, <2>2 DEF Settings!FileRead
  <2>6. f.text = form.text /\ f.secret = v BY <1>0, <2>5 DEF Forms, FormShapes
  <2>7. selectedId # Settings!NoId => FormOwn(typed, selectedId, f) BY <2>4, <2>6 DEF Owned, FormOwn
  <2>8. selectedId' # Settings!NoId => FormOwn(typed', selectedId', form') BY <2>1, <2>5, <2>7
  <2>9. (reading' # <<>> => reading' \in typed') /\ \A x \in typed : x \in typed' BY <2>1
  <2> QED BY <2>1, <2>8, <2>9, LocalOwn
<1> QED BY <1>1, <1>2, <1>3, <1>4

(* Nothing forgets that a broker was left before its answer came. *)
LEMMA CrossedStays == ASSUME Settings!BrokersFit, SettingsShaped, Fresh, Settings!Next, ~crossed' PROVE ~crossed
<1>1. CASE \E i \in DOMAIN calls : Settings!Serve(i)
  <2>1. UNCHANGED <<created, Settings!page, Settings!ghosts, acts>> BY <1>1, ServeShaped
  <2> QED BY <2>1 DEF Settings!ghosts
<1>2. CASE \E i \in DOMAIN calls : Settings!Answered(i) BY <1>2 DEF Settings!Answered
<1>3. CASE \E i \in DOMAIN calls : Settings!Failed(i) BY <1>3 DEF Settings!Failed
<1>4. CASE \E id, t : (id = requested \/ id = Settings!NoId \/ id \in Requested) /\ Settings!Visit(id, t) BY <1>4 DEF Settings!Visit
<1>5. CASE Asking
  <2>1. PICK c \in Asks : SettingsAsked(c) /\ AskWay(c) BY <1>5, AskWays
  <2> QED BY <2>1 DEF SettingsAsked
<1>6. CASE \E i \in DOMAIN brokers : Settings!handleSelect(brokers[i]) BY <1>6 DEF Settings!handleSelect
<1>7. CASE Editing BY <1>7, EditMakes
<1>8. CASE \E v \in FormTexts : Settings!ReadFile(v) BY <1>8 DEF Settings!ReadFile
<1>9. CASE Settings!FileRead BY <1>9 DEF Settings!FileRead
<1> QED BY <1>1, <1>2, <1>3, <1>4, <1>5, <1>6, <1>7, <1>8, <1>9, Steps

LEMMA StartOwn == ASSUME Settings!BrokersFit, Settings!Init PROVE Owned
<1>1. rows = Initial /\ brokers = <<>> /\ selectedId = Settings!NoId /\ reading = <<>> /\ calls = <<Settings!Call("load", requested)>>
  BY DEF Settings!Init
<1>2. Unique(Initial) BY FitSays
<1>3. \A i \in DOMAIN Initial : Settings!Original(Initial[i].id) = Initial[i] BY <1>2, RowAt DEF Settings!Original
<1>4. ListOwn(typed, rows) /\ \A i \in DOMAIN rows : SecretOwn(typed, rows[i].id, rows[i].secret)
  BY <1>1, <1>3 DEF ListOwn, TextOwn, SecretOwn
<1>5. PICK c : c = Settings!Call("load", requested) OBVIOUS
<1>6. c.list = <<>> /\ c.found = <<>> /\ c.kind = "load" BY <1>5 DEF Settings!Call
<1>7. CallOwn(typed, c) BY <1>6, NothingOwn DEF CallOwn
<1>8. \A i \in DOMAIN calls : calls[i] = c BY <1>1, <1>5
<1>9. \A i \in DOMAIN calls : CallOwn(typed, calls[i]) BY <1>7, <1>8
<1>10. ListOwn(typed, brokers) BY <1>1, NothingOwn
<1> QED BY <1>1, <1>4, <1>9, <1>10 DEF Owned

LEMMA OwnStep == ASSUME Settings!BrokersFit, SettingsShaped, Fresh, Owned, [Settings!Next]_(Settings!vars), ~crossed' PROVE Owned'
<1>1. CASE UNCHANGED Settings!vars BY <1>1 DEF Settings!vars, Settings!server, Settings!page, Settings!ghosts, Owned
<1>2. CASE \E i \in DOMAIN calls : Settings!Serve(i) BY <1>2, ServeOwn
<1>3. CASE \E i \in DOMAIN calls : Settings!Answered(i) BY <1>3, AnswerOwn
<1>4. CASE \E i \in DOMAIN calls : Settings!Failed(i) BY <1>4, FailOwn
<1>5. CASE \E id, t : (id = requested \/ id = Settings!NoId \/ id \in Requested) /\ Settings!Visit(id, t) BY <1>5, VisitOwn
<1>6. CASE Asking BY <1>6, AskOwn
<1>7. CASE \/ \E i \in DOMAIN brokers : Settings!handleSelect(brokers[i])
           \/ Editing
           \/ \E v \in FormTexts : Settings!ReadFile(v)
           \/ Settings!FileRead
  BY <1>7, HereOwn
<1> QED BY <1>1, <1>2, <1>3, <1>4, <1>5, <1>6, <1>7, Steps

(* What the server holds of a broker was there at first or was entered     *)
(* while that broker was open, unless an answer came to another one's form *)
(* (ConfigPage.tsx, the form that is kept over answers, selections and     *)
(* reorders).                                                              *)
THEOREM BrokersKeepTheirOwn == ASSUME Settings!BrokersFit PROVE BrokerRuns => []Settings!OwnSettings
<1>1. Settings!Init => (~crossed => Owned) BY StartOwn
<1>2. (SettingsShaped /\ Fresh) /\ (~crossed => Owned) /\ [Settings!Next]_(Settings!vars) => (~crossed => Owned)'
  <2> SUFFICES ASSUME SettingsShaped, Fresh, ~crossed => Owned, [Settings!Next]_(Settings!vars), ~crossed' PROVE Owned' OBVIOUS
  <2>1. CASE Settings!Next
    <3>1. ~crossed BY <2>1, CrossedStays
    <3> QED BY <3>1, OwnStep
  <2>2. CASE UNCHANGED Settings!vars
    <3>1. ~crossed BY <2>2 DEF Settings!vars, Settings!ghosts
    <3> QED BY <3>1, OwnStep
  <2> QED BY <2>1, <2>2
<1>3. (~crossed => Owned) => Settings!OwnSettings
  <2> SUFFICES ASSUME Owned PROVE Settings!OwnSettings BY DEF Settings!OwnSettings
  <2> QED BY DEF Owned, ListOwn, TextOwn, SecretOwn, Settings!OwnSettings
<1> QED BY <1>1, <1>2, <1>3, BrokersShaped, PTL DEF BrokerRuns

-----------------------------------------------------------------------------
(* What the answers make of a list is what the server makes of its rows.   *)
LEMMA SentAppend ==
  ASSUME NEW s \in Seq(SettingsListed), NEW q \in SettingsListed
  PROVE  Append(Settings!Sent(s), Settings!Public(q)) = Settings!Sent(Append(s, q))
<1>1. PICK n \in Nat : n = Len(s) /\ DOMAIN s = 1..n BY LenProperties
<1>2. PICK u : u = Append(s, q) OBVIOUS
<1>3. u \in Seq(SettingsListed) /\ Len(u) = n + 1 /\ (\A k \in 1..n : u[k] = s[k]) /\ u[n + 1] = q BY <1>1, <1>2, AppendProperties
<1>4. PICK v : v = Settings!Sent(u) OBVIOUS
<1>5. v \in Seq(SettingsListed) /\ Len(v) = n + 1 /\ \A k \in 1..(n + 1) : v[k] = Settings!Public(u[k]) BY <1>3, <1>4, SentIs
<1>6. PICK a : a = Settings!Sent(s) OBVIOUS
<1>7. a \in Seq(SettingsListed) /\ Len(a) = n /\ \A k \in 1..n : a[k] = Settings!Public(s[k]) BY <1>1, <1>6, SentIs
<1>8. PICK p \in SettingsListed : p = Settings!Public(q) BY PublicIs
<1>9. PICK b : b = Append(a, p) OBVIOUS
<1>10. b \in Seq(SettingsListed) /\ Len(b) = n + 1 /\ (\A k \in 1..n : b[k] = a[k]) /\ b[n + 1] = p BY <1>7, <1>9, AppendProperties
<1>11. \A k \in 1..(n + 1) : k \in 1..n \/ k = n + 1 OBVIOUS
<1>12. \A k \in 1..(n + 1) : b[k] = v[k]
  <2>1. \A k \in 1..n : b[k] = v[k]
    <3>1. \A k \in 1..n : k \in 1..(n + 1) OBVIOUS
    <3> QED BY <1>3, <1>5, <1>7, <1>10, <3>1
  <2>2. n + 1 \in 1..(n + 1) OBVIOUS
  <2>3. b[n + 1] = v[n + 1] BY <1>3, <1>5, <1>8, <1>10, <2>2
  <2> QED BY <1>11, <2>1, <2>3
<1>13. b = v BY ONLY <1>5, <1>10, <1>12, SameSeq
<1> QED BY <1>2, <1>4, <1>6, <1>8, <1>9, <1>13

LEMMA SentReplace ==
  ASSUME NEW s \in Seq(SettingsListed), NEW q \in SettingsListed
  PROVE  Settings!Replace(Settings!Sent(s), Settings!Public(q)) = Settings!Sent(Settings!Replace(s, q))
<1>1. PICK n \in Nat : n = Len(s) /\ DOMAIN s = 1..n /\ \A i \in 1..n : s[i] \in SettingsListed BY LenProperties, ElementOfSeq
<1>2. PICK u : u = Settings!Replace(s, q) OBVIOUS
<1>3. u \in Seq(SettingsListed) /\ Len(u) = n /\ DOMAIN u = 1..n /\ \A k \in 1..n : u[k] = IF s[k].id = q.id THEN q ELSE s[k]
  <2>1. PICK w : w = Settings!Replace(s, q) OBVIOUS
  <2>2. /\ w \in Seq(SettingsListed) /\ DOMAIN w = DOMAIN s /\ Len(w) = Len(s)
        /\ \A i \in DOMAIN s : w[i] = IF s[i].id = q.id THEN q ELSE s[i]
    BY ONLY <2>1, s \in Seq(SettingsListed), q \in SettingsListed, ReplaceIs
  <2> QED BY <1>1, <1>2, <2>1, <2>2
<1>4. PICK v : v = Settings!Sent(u) OBVIOUS
<1>5. v \in Seq(SettingsListed) /\ Len(v) = n /\ \A k \in 1..n : v[k] = Settings!Public(u[k]) BY <1>3, <1>4, SentIs
<1>6. PICK a : a = Settings!Sent(s) OBVIOUS
<1>7. a \in Seq(SettingsListed) /\ Len(a) = n /\ DOMAIN a = 1..n /\ \A k \in 1..n : a[k] = Settings!Public(s[k]) /\ a[k].id = s[k].id
  BY <1>1, <1>6, SentIs
<1>8. PICK p \in SettingsListed : p = Settings!Public(q) /\ p.id = q.id BY PublicIs
<1>9. PICK b : b = Settings!Replace(a, p) OBVIOUS
<1>10. b \in Seq(SettingsListed) /\ Len(b) = n /\ \A k \in 1..n : b[k] = IF a[k].id = p.id THEN p ELSE a[k]
  <2>a. a \in Seq(SettingsListed) BY <1>7
  <2>1. PICK w : w = Settings!Replace(a, p) OBVIOUS
  <2>2. /\ w \in Seq(SettingsListed) /\ DOMAIN w = DOMAIN a /\ Len(w) = Len(a)
        /\ \A i \in DOMAIN a : w[i] = IF a[i].id = p.id THEN p ELSE a[i]
    BY ONLY <2>1, <2>a, p \in SettingsListed, ReplaceIs
  <2> QED BY <1>7, <1>9, <2>1, <2>2
<1>11. \A k \in 1..n : b[k] = v[k] BY <1>3, <1>5, <1>7, <1>8, <1>10
<1>12. b = v BY ONLY <1>5, <1>10, <1>11, SameSeq
<1> QED BY <1>2, <1>4, <1>6, <1>8, <1>9, <1>12

LEMMA SentWithout ==
  ASSUME NEW s \in Seq(SettingsListed), NEW id
  PROVE  Settings!Without(Settings!Sent(s), id) = Settings!Sent(Settings!Without(s, id))
<1>1. PICK n \in Nat : n = Len(s) /\ DOMAIN s = 1..n /\ \A i \in 1..n : s[i] \in SettingsListed BY LenProperties, ElementOfSeq
<1>2. PICK u : u = Settings!Sent(s) OBVIOUS
<1>3. u \in Seq(SettingsListed) /\ Len(u) = n /\ DOMAIN u = 1..n /\ \A k \in 1..n : u[k] = Settings!Public(s[k]) /\ u[k].id = s[k].id
  BY <1>1, <1>2, SentIs
<1>4. PICK S : S = {r \in Settings!ToSet(s) : r.id # id} OBVIOUS
<1>5. PICK R : R = {r \in Settings!ToSet(u) : r.id # id} OBVIOUS
<1>6. PICK f : f = [r \in SettingsListed |-> Settings!Public(r)] OBVIOUS
<1>7. \A i \in 1..n : u[i] = f[s[i]] BY <1>1, <1>3, <1>6
<1>8. \A i \in 1..n : u[i] \in R <=> s[i] \in S
  <2>1. \A i \in 1..n : s[i] \in Settings!ToSet(s) /\ u[i] \in Settings!ToSet(u) BY <1>1, <1>3 DEF Settings!ToSet
  <2> QED BY <1>3, <1>4, <1>5, <2>1
<1>9. PICK a : a = Settings!Kept(s, S) /\ a = Settings!Without(s, id) BY <1>4 DEF Settings!Without
<1>10. PICK b : b = Settings!Kept(u, R) /\ b = Settings!Without(u, id) BY <1>5 DEF Settings!Without
<1>11. a \in Seq(SettingsListed) /\ b \in Seq(SettingsListed)
  <2>1. a \in Seq(SettingsListed) BY ONLY <1>9, s \in Seq(SettingsListed), KeptWithin
  <2>2. b \in Seq(SettingsListed)
    <3>1. u \in Seq(SettingsListed) BY <1>3
    <3> QED BY ONLY <1>10, <3>1, KeptWithin
  <2> QED BY <2>1, <2>2
<1>12. Len(b) = Len(a) /\ \A k \in 1..Len(a) : b[k] = f[a[k]]
  <2>a. u \in Seq(SettingsListed) BY <1>3
  <2>1. Len(u) = Len(s) /\ \A i \in 1..Len(s) : u[i] = f[s[i]] /\ (u[i] \in R <=> s[i] \in S) BY <1>1, <1>3, <1>7, <1>8
  <2>2. /\ Len(Settings!Kept(u, R)) = Len(Settings!Kept(s, S))
        /\ \A k \in 1..Len(Settings!Kept(s, S)) : Settings!Kept(u, R)[k] = f[Settings!Kept(s, S)[k]]
    <3>1. Len(u) = Len(s) BY <2>1
    <3>2. \A i \in 1..Len(s) : u[i] = f[s[i]] /\ (u[i] \in R <=> s[i] \in S) BY <2>1
    <3> QED BY ONLY SMTT(40), <3>1, <3>2, <2>a, s \in Seq(SettingsListed), SettingsKeptMap
  <2>3. Settings!Kept(s, S) = a /\ Settings!Kept(u, R) = b BY <1>9, <1>10
  <2> QED BY ONLY <2>2, <2>3
<1>13. PICK v : v = Settings!Sent(a) OBVIOUS
<1>14. v \in Seq(SettingsListed) /\ Len(v) = Len(a) /\ \A k \in 1..Len(a) : v[k] = Settings!Public(a[k]) BY <1>11, <1>13, SentIs
<1>15. \A k \in 1..Len(a) : a[k] \in SettingsListed BY <1>11, ElementOfSeq
<1>16. \A k \in 1..Len(b) : b[k] = v[k] BY <1>6, <1>12, <1>14, <1>15
<1>17. b = v BY ONLY <1>11, <1>12, <1>14, <1>16, SameSeq
<1> QED BY <1>2, <1>9, <1>10, <1>13, <1>17

-----------------------------------------------------------------------------
(* The page's list and the server's rows, with one call under way at most: *)
(* what each call makes of the one when it is answered is what it made of  *)
(* the other.                                                              *)
SameRows(list) ==
    /\ \A i \in DOMAIN list : \E k \in DOMAIN rows : list[i] = Settings!Public(rows[k])
    /\ \A k \in DOMAIN rows : \E i \in DOMAIN list : list[i] = Settings!Public(rows[k])
WillShow(c) ==
    \/ c.kind \in {"load", "reload"} /\ c.found = Settings!Sent(rows)
    \/ c.kind = "create" /\ Append(brokers, c.found[1]) = Settings!Sent(rows)
    \/ c.kind \in {"toggle", "save"} /\ Settings!Replace(brokers, c.found[1]) = Settings!Sent(rows)
    \/ c.kind = "delete" /\ Settings!Without(c.list, c.id) = Settings!Sent(rows)
    \/ c.kind = "reorder" /\ brokers = Settings!Sent(rows)
CallStep(c) ==
    /\ ~c.cancelled
    /\ c.stage = "refused" => c.kind \in {"toggle", "save", "delete"}
    /\ c.stage # "served" /\ c.kind \in {"create", "toggle", "save", "delete"} => brokers = Settings!Sent(rows)
    /\ c.kind = "delete" => c.list = brokers
    /\ c.stage = "sent" /\ c.kind = "reorder" => c.list = brokers /\ Unique(brokers) /\ SameRows(brokers)
    /\ c.kind = "reload" => \A id : Settings!Has(brokers, id) <=> Settings!Has(rows, id)
    /\ c.stage = "served" => WillShow(c)
SettingsSingle == ~overlapped => Len(calls) <= 1
Settled ==
    /\ calls = <<>> => brokers = Settings!Sent(rows)
    /\ \A i \in DOMAIN calls : CallStep(calls[i])
    /\ selectedId # Settings!NoId => Settings!Has(brokers, selectedId)
Clear == ~overlapped /\ ~astray

LEMMA OnlyCall ==
  ASSUME calls \in Seq(Asks), Len(calls) <= 1, NEW i \in DOMAIN calls
  PROVE  i = 1 /\ Len(calls) = 1 /\ DOMAIN calls = {1}
<1>1. PICK n \in Nat : n = Len(calls) /\ DOMAIN calls = 1..n BY LenProperties
<1>2. n = 1 BY <1>1
<1> QED BY <1>1, <1>2

LEMMA CutOne ==
  ASSUME calls \in Seq(Asks), Len(calls) = 1
  PROVE  Settings!RemoveAt(calls, 1) = <<>>
<1>1. PICK t : t = Settings!RemoveAt(calls, 1) OBVIOUS
<1>2. 1 \in DOMAIN calls OBVIOUS
<1>3. t = SubSeq(calls, 1, 1 - 1) \o SubSeq(calls, 1 + 1, Len(calls)) BY <1>1 DEF Settings!RemoveAt
<1>4. t \in Seq(Asks) /\ IsCut(t, calls, 1) BY ONLY <1>2, <1>3, calls \in Seq(Asks), Cut
<1>5. Len(t) = 0 BY <1>4 DEF IsCut
<1> QED BY <1>1, <1>4, <1>5

LEMMA SentSame ==
  ASSUME rows \in Seq(SettingsListed), Unique(rows), brokers = Settings!Sent(rows)
  PROVE  brokers \in Seq(SettingsListed) /\ Unique(brokers) /\ SameRows(brokers) /\ \A id : Settings!Has(brokers, id) <=> Settings!Has(rows, id)
<1>1. /\ Settings!Sent(rows) \in Seq(SettingsListed) /\ DOMAIN Settings!Sent(rows) = DOMAIN rows
      /\ (\A i \in DOMAIN rows : Settings!Sent(rows)[i] = Settings!Public(rows[i]))
      /\ (\A id : Settings!Has(Settings!Sent(rows), id) <=> Settings!Has(rows, id))
      /\ Unique(Settings!Sent(rows))
  BY SentIs
<1>2. SameRows(brokers) BY <1>1 DEF SameRows
<1> QED BY <1>1, <1>2

LEMMA ServeSettled ==
  ASSUME Settings!BrokersFit, SettingsShaped, Fresh, Settled, Len(calls) <= 1, NEW i \in DOMAIN calls, Settings!Serve(i)
  PROVE  Settled' /\ Len(calls') <= 1
<1>1. PICK c, d, st, fo :
              /\ c \in Asks /\ d \in Asks
              /\ c = calls[i] /\ c.stage = "sent" /\ ServeWay(c, st, fo)
              /\ calls' = [calls EXCEPT ![i] = d] /\ DOMAIN calls' = DOMAIN calls
              /\ \A k \in DOMAIN calls : calls'[k] = IF k = i THEN d ELSE calls[k]
              /\ d.stage = st /\ d.found = fo /\ st # "sent"
              /\ d.kind = c.kind /\ d.id = c.id /\ d.list = c.list
              /\ (c.cancelled <=> d.cancelled)
  BY ServeShaped
<1>2. /\ UNCHANGED Settings!page /\ rows' \in Seq(SettingsListed) /\ Unique(rows')
  BY ServeShaped DEF SettingsShaped, RowsShaped
<1>z. c \in Asks BY <1>1
<1>3. brokers' = brokers /\ selectedId' = selectedId BY <1>2 DEF Settings!page
<1>4. rows \in Seq(SettingsListed) /\ Unique(rows) /\ calls \in Seq(Asks) /\ brokers \in Seq(SettingsListed)
      /\ Answerable(c)
  BY <1>1 DEF SettingsShaped, RowsShaped, CallsShaped, PageShaped
<1>5. i = 1 /\ Len(calls) = 1 /\ DOMAIN calls = {1} BY <1>4, OnlyCall
<1>6. CallStep(c) BY <1>1 DEF Settled
<1>7. PICK v : v = rows' OBVIOUS
<1>a. v \in Seq(SettingsListed) /\ Unique(v) BY <1>2, <1>7
<1>b. c.kind \in {"create", "toggle", "save", "delete"} => brokers = Settings!Sent(rows) BY <1>1, <1>6 DEF CallStep
<1>c. (c.kind = "delete" => c.list = brokers) /\ ~c.cancelled
  <2>1. c.kind = "delete" => c.list = brokers BY <1>6 DEF CallStep
  <2>2. ~c.cancelled BY <1>6 DEF CallStep
  <2> QED BY <2>1, <2>2
<1>8. /\ st = "refused" => c.kind \in {"toggle", "save", "delete"} /\ brokers = Settings!Sent(v)
      /\ st = "served" => \/ c.kind \in {"load", "reload"} /\ fo = Settings!Sent(v)
                          \/ c.kind = "create" /\ Append(brokers, fo[1]) = Settings!Sent(v)
                          \/ c.kind \in {"toggle", "save"} /\ Settings!Replace(brokers, fo[1]) = Settings!Sent(v)
                          \/ c.kind = "delete" /\ Settings!Without(c.list, c.id) = Settings!Sent(v)
                          \/ c.kind = "reorder" /\ brokers = Settings!Sent(v)
      /\ st \in {"refused", "served"}
      /\ c.kind \in {"load", "reload"} => v = rows
  <2>1. CASE /\ c.kind \in {"toggle", "save", "delete"}
             /\ rows' = rows /\ st = "refused" /\ fo = <<>>
    BY <1>7, <1>b, <2>1
  <2>2. CASE c.kind \in {"load", "reload"} /\ rows' = rows /\ st = "served" /\ fo = Settings!Sent(rows) BY <1>7, <2>2
  <2>3. CASE /\ c.kind = "create" /\ rows' = Append(rows, Settings!New(c.id)) /\ st = "served"
             /\ fo = <<Settings!Public(Settings!Row(rows', c.id))>>
    <3>1. c.id \in Settings!ToSet(Ids) BY <1>4, <2>3 DEF Answerable
    <3>2. PICK q \in SettingsListed : q = Settings!New(c.id) /\ q.id = c.id BY <3>1, NewIs
    <3>3. v = Append(rows, q) BY <1>7, <2>3, <3>2
    <3>4. PICK n \in Nat : n = Len(rows) BY <1>4, LenProperties
    <3>5. Len(v) = n + 1 /\ v[n + 1] = q BY <1>4, <3>3, <3>4, AppendProperties
    <3>6. n + 1 \in DOMAIN v BY <1>a, <3>5
    <3>7. Settings!Row(v, q.id) = q BY <1>a, <3>5, <3>6, RowAt
    <3>8. fo = <<Settings!Public(q)>> BY <1>7, <2>3, <3>2, <3>7
    <3>9. fo[1] = Settings!Public(q) BY <3>8
    <3>10. Append(Settings!Sent(rows), Settings!Public(q)) = Settings!Sent(v) BY <1>4, <3>3, SentAppend
    <3> QED BY <1>b, <2>3, <3>9, <3>10
  <2>4. ASSUME NEW q \in SettingsListed, q.id = c.id, Settings!Has(rows, c.id), v = Settings!Replace(rows, q), fo = <<Settings!Public(Settings!Row(v, c.id))>>,
               brokers = Settings!Sent(rows)
        PROVE  Settings!Replace(brokers, fo[1]) = Settings!Sent(v)
    <3>1. PICK w : w = Settings!Replace(rows, q) OBVIOUS
    <3>2. /\ DOMAIN w = DOMAIN rows
          /\ \A k \in DOMAIN rows : w[k] = IF rows[k].id = q.id THEN q ELSE rows[k]
      BY ONLY <1>4, q \in SettingsListed, <3>1, ReplaceIs
    <3>3. PICK k \in DOMAIN rows : rows[k].id = c.id BY <2>4 DEF Settings!Has
    <3>4. v[k] = q /\ k \in DOMAIN v BY <2>4, <3>1, <3>2, <3>3
    <3>5. Settings!Row(v, q.id) = q BY <1>a, <3>4, RowAt
    <3>6. fo[1] = Settings!Public(q) BY <2>4, <3>5
    <3>7. Settings!Replace(Settings!Sent(rows), Settings!Public(q)) = Settings!Sent(v) BY <1>4, <2>4, SentReplace
    <3> QED BY <2>4, <3>6, <3>7
  <2>5. CASE /\ c.kind = "toggle" /\ Settings!Has(rows, c.id) /\ st = "served" /\ fo = <<Settings!Public(Settings!Row(rows', c.id))>>
             /\ rows' = Settings!Replace(rows, [Settings!Row(rows, c.id) EXCEPT !.enabled = c.form.enabled])
    <3>1. PICK k \in DOMAIN rows : Settings!Row(rows, c.id) = rows[k] /\ rows[k].id = c.id BY <2>5, RowIs
    <3>2. PICK r \in SettingsListed : r = rows[k] BY <1>4
    <3>3. PICK b : b = c.form.enabled OBVIOUS
    <3>4. c.form \in Forms BY <1>z, AskParts
    <3>5. b \in BOOLEAN BY <3>3, <3>4, FormParts
    <3>6. PICK q : q = [r EXCEPT !.enabled = b] OBVIOUS
    <3>7. q \in SettingsListed /\ q.id = r.id BY ONLY <3>5, <3>6, r \in SettingsListed, SwitchedIs
    <3>8. v = Settings!Replace(rows, q) /\ fo = <<Settings!Public(Settings!Row(v, c.id))>> BY <1>7, <2>5, <3>1, <3>2, <3>3, <3>6
    <3>9. Settings!Replace(brokers, fo[1]) = Settings!Sent(v) BY <1>b, <2>4, <2>5, <3>1, <3>2, <3>7, <3>8
    <3> QED BY <2>5, <3>9
  <2>6. CASE /\ c.kind = "save" /\ Settings!Has(rows, c.id) /\ st = "served" /\ fo = <<Settings!Public(Settings!Row(rows', c.id))>>
             /\ rows' = Settings!Replace(rows, SavedRow(c.form, Settings!Row(rows, c.id)))
    <3>1. PICK k \in DOMAIN rows : Settings!Row(rows, c.id) = rows[k] /\ rows[k].id = c.id BY <2>6, RowIs
    <3>2. PICK r \in SettingsListed : r = rows[k] BY <1>4
    <3>4. PICK f \in Forms : f = c.form BY <1>z, AskParts
    <3>6. PICK q : q = SavedRow(f, r) OBVIOUS
    <3>7. q \in SettingsListed /\ q.id = r.id BY <3>6, SavedIs
    <3>8. v = Settings!Replace(rows, q) /\ fo = <<Settings!Public(Settings!Row(v, c.id))>> BY <1>7, <2>6, <3>1, <3>2, <3>4, <3>6
    <3>9. Settings!Replace(brokers, fo[1]) = Settings!Sent(v) BY <1>b, <2>4, <2>6, <3>1, <3>2, <3>7, <3>8
    <3> QED BY <2>6, <3>9
  <2>7. CASE /\ c.kind = "delete" /\ Settings!Has(rows, c.id) /\ st = "served" /\ fo = <<>>
             /\ rows' = Settings!Without(rows, c.id)
    <3>1. PICK x : x = c.id OBVIOUS
    <3>2. Settings!Without(Settings!Sent(rows), x) = Settings!Sent(Settings!Without(rows, x)) BY <1>4, SentWithout
    <3>3. c.list = Settings!Sent(rows) BY <1>b, <1>c, <2>7
    <3> QED BY <1>7, <2>7, <3>1, <3>2, <3>3
  <2>8. CASE c.kind = "reorder" /\ Settings!ReorderBrokers(c.list) /\ st = "served" /\ fo = <<>>
    <3>1. c.list = brokers /\ Unique(brokers) /\ SameRows(brokers) BY <1>1, <1>6, <2>8 DEF CallStep
    <3>2. Settings!ReorderBrokers(brokers) BY <2>8, <3>1
    <3>3. Settings!Sent(rows') = brokers BY <1>4, <3>1, <3>2, ReorderSame DEF SameRows
    <3> QED BY <1>7, <2>8, <3>3
  <2> QED BY <1>1, <2>1, <2>2, <2>3, <2>5, <2>6, <2>7, <2>8 DEF ServeWay
<1>9. c.kind = "reload" => \A id : Settings!Has(brokers, id) <=> Settings!Has(v, id) BY <1>6, <1>8 DEF CallStep
<1>10. ~d.cancelled BY <1>1, <1>c
<1>11. CallStep(d)'
  <2>1. d.stage = "served" => WillShow(d)'
    <3>1. st = "served" => \/ c.kind \in {"load", "reload"} /\ fo = Settings!Sent(rows')
                           \/ c.kind = "create" /\ Append(brokers', fo[1]) = Settings!Sent(rows')
                           \/ c.kind \in {"toggle", "save"} /\ Settings!Replace(brokers', fo[1]) = Settings!Sent(rows')
                           \/ c.kind = "delete" /\ Settings!Without(c.list, c.id) = Settings!Sent(rows')
                           \/ c.kind = "reorder" /\ brokers' = Settings!Sent(rows')
      BY <1>3, <1>7, <1>8
    <3>2. WillShow(d)' <=> \/ c.kind \in {"load", "reload"} /\ fo = Settings!Sent(rows')
                           \/ c.kind = "create" /\ Append(brokers', fo[1]) = Settings!Sent(rows')
                           \/ c.kind \in {"toggle", "save"} /\ Settings!Replace(brokers', fo[1]) = Settings!Sent(rows')
                           \/ c.kind = "delete" /\ Settings!Without(c.list, c.id) = Settings!Sent(rows')
                           \/ c.kind = "reorder" /\ brokers' = Settings!Sent(rows')
      BY <1>1 DEF WillShow
    <3> QED BY <1>1, <3>1, <3>2
  <2>2. d.stage = "refused" => d.kind \in {"toggle", "save", "delete"} /\ brokers' = Settings!Sent(rows') BY <1>1, <1>3, <1>7, <1>8
  <2>3. d.stage # "sent" /\ (d.stage = "refused" \/ d.stage = "served") BY <1>1, <1>8
  <2>4. d.kind = "delete" => d.list = brokers' BY <1>1, <1>3, <1>c
  <2>5. d.kind = "reload" => \A id : Settings!Has(brokers', id) <=> Settings!Has(rows', id) BY <1>1, <1>3, <1>7, <1>9
  <2> QED BY <1>10, <2>1, <2>2, <2>3, <2>4, <2>5 DEF CallStep
<1>12. PICK u : u = calls' OBVIOUS
<1>13. u = [calls EXCEPT ![1] = d] /\ u[1] = d /\ DOMAIN u = {1} BY <1>1, <1>5, <1>12
<1>14. Len(u) = 1 BY <1>4, <1>5, <1>13
<1>15. u # <<>> BY <1>13
<1>16. (\A k \in DOMAIN calls : CallStep(calls[k]))'
  <2>1. \A k \in DOMAIN u : u[k] = d BY <1>13
  <2>2. \A k \in DOMAIN calls' : calls'[k] = d BY <1>12, <2>1
  <2> QED BY <1>11, <2>2
<1>17. (selectedId # Settings!NoId => Settings!Has(brokers, selectedId))' BY <1>3 DEF Settled, Settings!Has
<1> QED BY <1>12, <1>14, <1>15, <1>16, <1>17 DEF Settled

LEMMA AnswerSettled ==
  ASSUME Settings!BrokersFit, SettingsShaped, Settled, Len(calls) <= 1, NEW i \in DOMAIN calls, Settings!Answered(i)
  PROVE  Settled' /\ Len(calls') <= 1
<1>0. rows \in Seq(SettingsListed) /\ Unique(rows) /\ calls \in Seq(Asks) /\ brokers \in Seq(SettingsListed)
  BY DEF SettingsShaped, RowsShaped, CallsShaped, PageShaped
<1>1. i = 1 /\ Len(calls) = 1 /\ DOMAIN calls = {1} BY <1>0, OnlyCall
<1>2. PICK c \in Asks : c = calls[i] BY AnswerEffects DEF SettingsShaped
<1>3. /\ c.stage = "served" /\ Answerable(c) /\ calls' = Settings!RemoveAt(calls, i) /\ UNCHANGED Settings!server
      /\ brokers' \in Seq(SettingsListed) /\ CallStep(c)
  BY <1>2, AnswerEffects DEF SettingsShaped, Settled
<1>4. calls' = <<>> BY <1>0, <1>1, <1>3, CutOne
<1>5. (CASE c.kind \in {"load", "reload"} -> Settings!OnLoad(c) [] c.kind = "create" -> Settings!OnCreated(c)
          [] c.kind = "toggle" -> Settings!OnToggled(c) [] c.kind = "save" -> Settings!OnSaved(c)
          [] c.kind = "delete" -> Settings!OnDeleted(c) [] c.kind = "reorder" -> UNCHANGED <<brokers, selectedId, form>>)
  BY <1>2 DEF Settings!Answered
<1>6. c.kind \in Kinds /\ c.found \in Seq(SettingsListed) /\ c.list \in Seq(SettingsListed) BY AskParts
<1>7. WillShow(c) BY <1>3 DEF CallStep
<1>8. PICK l : l = brokers' OBVIOUS
<1>9. l = Settings!Sent(rows) /\ (selectedId' # Settings!NoId => Settings!Has(l, selectedId'))
  <2>1. CASE c.kind \in {"load", "reload"}
    <3>1. Settings!OnLoad(c) /\ ~c.cancelled
      <4>1. Settings!OnLoad(c) BY <1>5, <2>1
      <4>2. ~c.cancelled BY <1>3 DEF CallStep
      <4> QED BY <4>1, <4>2
    <3>2. l = c.found BY <1>8, <3>1 DEF Settings!OnLoad
    <3>3. c.found = Settings!Sent(rows) BY <1>7, <2>1 DEF WillShow
    <3>4. \A id : Settings!Has(Settings!Sent(rows), id) <=> Settings!Has(rows, id) BY <1>0, SentIs
    <3>5. CASE c.kind = "reload"
      <4>1. selectedId' = selectedId BY <3>1, <3>5 DEF Settings!OnLoad
      <4>2. \A id : Settings!Has(brokers, id) <=> Settings!Has(rows, id) BY <1>3, <3>5 DEF CallStep
      <4> QED BY <3>2, <3>3, <3>4, <4>1, <4>2 DEF Settled
    <3>6. CASE c.kind = "load" /\ c.found = <<>>
      <4>1. selectedId' = Settings!NoId BY <3>1, <3>6 DEF Settings!OnLoad
      <4> QED BY <3>2, <3>3, <4>1
    <3>7. CASE c.kind = "load" /\ c.found # <<>>
      <4>1. PICK r : r = IF Settings!Has(c.found, c.id) THEN Settings!Row(c.found, c.id) ELSE Settings!First(c.found) OBVIOUS
      <4>2. selectedId' = r.id BY <3>1, <3>7, <4>1 DEF Settings!OnLoad, Settings!Show
      <4>3. \E k \in DOMAIN c.found : r = c.found[k]
        <5>1. CASE Settings!Has(c.found, c.id) BY <4>1, <5>1, RowIs
        <5>2. CASE ~Settings!Has(c.found, c.id) BY <1>6, <3>7, <4>1, <5>2, FirstIs
        <5> QED BY <5>1, <5>2
      <4>4. Settings!Has(c.found, selectedId') BY <4>2, <4>3 DEF Settings!Has
      <4> QED BY <3>2, <3>3, <4>4
    <3> QED BY <2>1, <3>5, <3>6, <3>7
  <2>2. CASE c.kind = "create"
    <3>1. l = Append(brokers, c.found[1]) /\ selectedId' = c.found[1].id BY <1>5, <1>8, <2>2 DEF Settings!OnCreated, Settings!Show
    <3>2. Append(brokers, c.found[1]) = Settings!Sent(rows) BY <1>7, <2>2 DEF WillShow
    <3>3. Len(c.found) = 1 BY <1>3, <2>2 DEF Answerable
    <3>4. PICK q \in SettingsListed : q = c.found[1]
      <4>1. 1 \in 1..Len(c.found) BY <1>6, <3>3
      <4> QED BY <1>6, <4>1, ElementOfSeq
    <3>5. PICK n \in Nat : n = Len(brokers) BY <1>0, LenProperties
    <3>6. l \in Seq(SettingsListed) /\ Len(l) = n + 1 /\ l[n + 1] = q BY <1>0, <3>1, <3>4, <3>5, AppendProperties
    <3>7. n + 1 \in DOMAIN l BY <3>6
    <3>8. Settings!Has(l, q.id) BY <3>6, <3>7 DEF Settings!Has
    <3> QED BY <3>1, <3>2, <3>4, <3>8
  <2>3. CASE c.kind \in {"toggle", "save"}
    <3>1. l = Settings!Replace(brokers, c.found[1]) /\ selectedId' = selectedId BY <1>5, <1>8, <2>3 DEF Settings!OnToggled, Settings!OnSaved
    <3>2. Settings!Replace(brokers, c.found[1]) = Settings!Sent(rows) BY <1>7, <2>3 DEF WillShow
    <3>3. Len(c.found) = 1 BY <1>3, <2>3 DEF Answerable
    <3>4. PICK q \in SettingsListed : q = c.found[1]
      <4>1. 1 \in 1..Len(c.found) BY <1>6, <3>3
      <4> QED BY <1>6, <4>1, ElementOfSeq
    <3>5. PICK w : w = Settings!Replace(brokers, q) OBVIOUS
    <3>6. \A id : Settings!Has(w, id) <=> Settings!Has(brokers, id) BY ONLY <1>0, q \in SettingsListed, <3>5, ReplaceIs
    <3> QED BY <3>1, <3>2, <3>4, <3>5, <3>6 DEF Settled
  <2>4. CASE c.kind = "delete"
    <3>1. PICK u : u = Settings!Without(c.list, c.id) OBVIOUS
    <3>2. Settings!OnDeleted(c) BY <1>5, <2>4
    <3>3. l = u BY <1>8, <3>1, <3>2 DEF Settings!OnDeleted
    <3>4. u = Settings!Sent(rows) BY <1>7, <2>4, <3>1 DEF WillShow
    <3>5. u \in Seq(SettingsListed) BY <1>6, <3>1, WithoutIs
    <3>6. CASE u = <<>>
      <4>1. selectedId' = Settings!NoId BY <3>1, <3>2, <3>6 DEF Settings!OnDeleted
      <4> QED BY <3>3, <3>4, <4>1
    <3>7. CASE u # <<>>
      <4>1. selectedId' = Settings!First(u).id BY <3>1, <3>2, <3>7 DEF Settings!OnDeleted, Settings!Show
      <4>2. PICK k \in DOMAIN u : Settings!First(u) = u[k] BY <3>5, <3>7, FirstIs
      <4>3. Settings!Has(u, selectedId') BY <4>1, <4>2 DEF Settings!Has
      <4> QED BY <3>3, <3>4, <4>3
    <3> QED BY <3>6, <3>7
  <2>5. CASE c.kind = "reorder"
    <3>1. brokers' = brokers /\ selectedId' = selectedId BY <1>5, <2>5
    <3>2. brokers = Settings!Sent(rows) BY <1>7, <2>5 DEF WillShow
    <3> QED BY <1>8, <3>1, <3>2 DEF Settled
  <2> QED BY <1>6, <2>1, <2>2, <2>3, <2>4, <2>5 DEF Kinds
<1>10. rows' = rows BY <1>3 DEF Settings!server
<1>11. (calls = <<>> => brokers = Settings!Sent(rows))' BY <1>8, <1>9, <1>10
<1>12. (\A k \in DOMAIN calls : CallStep(calls[k]))' BY <1>4
<1>13. (selectedId # Settings!NoId => Settings!Has(brokers, selectedId))' BY <1>8, <1>9
<1>14. Len(calls') <= 1 BY <1>4
<1> QED BY <1>11, <1>12, <1>13, <1>14 DEF Settled

(* The list and the rows stay; the one call, if any, is c. *)
LEMMA OneSettled ==
  ASSUME NEW c, calls' = <<c>>, CallStep(c)', selectedId' # Settings!NoId => Settings!Has(brokers', selectedId')
  PROVE  Settled' /\ Len(calls') <= 1
<1>1. PICK u : u = calls' /\ u = <<c>> OBVIOUS
<1>2. u # <<>> /\ Len(u) = 1 /\ \A k \in DOMAIN u : u[k] = c BY <1>1
<1>3. (\A k \in DOMAIN calls : CallStep(calls[k]))'
  <2>1. \A k \in DOMAIN calls' : calls'[k] = c BY <1>1, <1>2
  <2> QED BY <2>1
<1>4. (calls = <<>> => brokers = Settings!Sent(rows))' BY <1>1, <1>2
<1>5. (selectedId # Settings!NoId => Settings!Has(brokers, selectedId))' OBVIOUS
<1> QED BY <1>1, <1>2, <1>3, <1>4, <1>5 DEF Settled

LEMMA FailSettled ==
  ASSUME Settings!BrokersFit, SettingsShaped, Settled, Len(calls) <= 1, NEW i \in DOMAIN calls, Settings!Failed(i), ~astray'
  PROVE  Settled' /\ Len(calls') <= 1
<1>0. rows \in Seq(SettingsListed) /\ Unique(rows) /\ calls \in Seq(Asks) /\ selectedId \in Known
  BY DEF SettingsShaped, RowsShaped, CallsShaped, PageShaped
<1>1. i = 1 /\ Len(calls) = 1 /\ DOMAIN calls = {1} BY <1>0, OnlyCall
<1>2. PICK c \in Asks : c = calls[i] BY FailIs
<1>3. /\ UNCHANGED <<Settings!server, brokers, selectedId>> /\ CallStep(c)
      /\ c.kind \notin {"load", "reload"} /\ ~(c.stage = "served" /\ c.kind # "reorder")
      /\ IF c.kind = "reorder" THEN calls' = Settings!RemoveAt(calls, i) \o <<Settings!Call("reload", Settings!NoId)>>
         ELSE calls' = Settings!RemoveAt(calls, i)
  BY <1>2, FailIs DEF Settled
<1>4. Settings!RemoveAt(calls, i) = <<>> BY <1>0, <1>1, CutOne
<1>5. rows' = rows BY <1>3 DEF Settings!server
<1>6. c.kind \in Kinds /\ c.stage \in {"sent", "served", "refused"} BY AskParts
<1>7. CASE c.kind = "reorder"
  <2>1. PICK d : d = Settings!Call("reload", Settings!NoId) OBVIOUS
  <2>2. Settings!NoId \in Known /\ "reload" \in Kinds BY DEF Known, Kinds
  <2>3. d \in Asks /\ d.kind = "reload" /\ d.stage = "sent" BY <1>0, <2>1, <2>2, CallIs
  <2>4. ~d.cancelled BY <1>0, <2>1, <2>2, CallIs
  <2>5. calls' = <<d>> BY <1>3, <1>4, <1>7, <2>1
  <2>6. \A id : Settings!Has(brokers, id) <=> Settings!Has(rows, id)
    <3>1. CASE c.stage = "served"
      <4>1. brokers = Settings!Sent(rows) BY <1>3, <1>7, <3>1 DEF CallStep, WillShow
      <4> QED BY <1>0, <4>1, SentSame
    <3>2. CASE c.stage = "sent"
      <4>1. SameRows(brokers) BY <1>3, <1>7, <3>2 DEF CallStep
      <4>2. \A k \in DOMAIN rows : rows[k] \in SettingsListed /\ Settings!Public(rows[k]).id = rows[k].id BY <1>0, PublicIs
      <4> QED BY <4>1, <4>2 DEF SameRows, Settings!Has
    <3>3. c.stage # "refused" BY <1>3, <1>7 DEF CallStep
    <3> QED BY <1>6, <3>1, <3>2, <3>3
  <2>7. CallStep(d)'
    <3>1. \A id : Settings!Has(brokers', id) <=> Settings!Has(rows', id) BY <1>3, <1>5, <2>6
    <3> QED BY <2>3, <2>4, <3>1 DEF CallStep
  <2>8. selectedId' # Settings!NoId => Settings!Has(brokers', selectedId') BY <1>3 DEF Settled
  <2> QED BY <2>5, <2>7, <2>8, OneSettled
<1>8. CASE c.kind # "reorder"
  <2>1. calls' = <<>> BY <1>3, <1>4, <1>8
  <2>2. c.stage # "served" /\ c.kind \in {"create", "toggle", "save", "delete"} BY <1>3, <1>6, <1>8 DEF Kinds
  <2>3. brokers = Settings!Sent(rows) BY <1>3, <2>2 DEF CallStep
  <2>4. (calls = <<>> => brokers = Settings!Sent(rows))' BY <1>3, <1>5, <2>3
  <2>5. (\A k \in DOMAIN calls : CallStep(calls[k]))' BY <2>1
  <2>6. (selectedId # Settings!NoId => Settings!Has(brokers, selectedId))' BY <1>3 DEF Settled
  <2>7. Len(calls') <= 1 BY <2>1
  <2> QED BY <2>4, <2>5, <2>6, <2>7 DEF Settled
<1> QED BY <1>7, <1>8

LEMMA VisitSettled ==
  ASSUME Settings!BrokersFit, SettingsShaped, Settled, Len(calls) <= 1, NEW id, NEW t,
         id = requested \/ id = Settings!NoId \/ id \in Requested, Settings!Visit(id, t), ~overlapped'
  PROVE  Settled' /\ Len(calls') <= 1
<1>0. calls \in Seq(Asks) /\ selectedId \in Known BY DEF SettingsShaped, CallsShaped, PageShaped
<1>1. /\ UNCHANGED <<rows, brokers, selectedId>>
      /\ \/ calls' = calls
         \/ id \in Known /\ Settings!Refetch(id) /\ calls = <<>>
  BY VisitIs
<1>2. CASE calls' = calls
  <2>1. \A k \in DOMAIN calls : CallStep(calls[k])' BY <1>1 DEF CallStep, SameRows, WillShow, Settled, Settings!Has
  <2>2. (\A k \in DOMAIN calls : CallStep(calls[k]))' BY <1>2, <2>1
  <2>3. (calls = <<>> => brokers = Settings!Sent(rows))' BY <1>1, <1>2 DEF Settled
  <2>4. (selectedId # Settings!NoId => Settings!Has(brokers, selectedId))' BY <1>1 DEF Settled
  <2> QED BY <1>2, <2>2, <2>3, <2>4 DEF Settled
<1>3. CASE id \in Known /\ Settings!Refetch(id) /\ calls = <<>>
  <2>1. PICK c : c = Settings!Call("load", id) OBVIOUS
  <2>2. "load" \in Kinds BY DEF Kinds
  <2>3. c \in Asks /\ c.kind = "load" /\ c.stage = "sent" BY <1>0, <1>3, <2>1, <2>2, CallIs
  <2>4. ~c.cancelled BY <1>0, <1>3, <2>1, <2>2, CallIs
  <2>5. calls' = <<c>>
    <3>1. PICK u : u = calls' OBVIOUS
    <3>2. CallsFrom({c}) /\ Len(u) = Len(calls) + 1 BY <1>0, <1>3, <2>1, <3>1, FromRefetch
    <3>3. u \in Seq(Asks) /\ Len(u) = 1 BY <1>3, <3>1, <3>2 DEF CallsFrom
    <3>4. DOMAIN calls = {} /\ 1 \in DOMAIN u BY <1>3, <3>3
    <3>5. PICK m \in [DOMAIN u -> {0} \union DOMAIN calls] :
            \A a \in DOMAIN u : IF m[a] = 0 THEN a = Len(u) /\ u[a] \in {c} ELSE Alike(u[a], calls[m[a]])
      BY <3>1, <3>2 DEF CallsFrom
    <3>6. m[1] = 0 BY <3>4, <3>5
    <3>7. u[1] = c BY <3>4, <3>5, <3>6
    <3>8. u = <<c>> BY <3>3, <3>7
    <3> QED BY <3>1, <3>8
  <2>6. CallStep(c)' BY <2>3, <2>4 DEF CallStep
  <2>7. selectedId' # Settings!NoId => Settings!Has(brokers', selectedId') BY <1>1 DEF Settled
  <2> QED BY <2>5, <2>6, <2>7, OneSettled
<1> QED BY <1>1, <1>2, <1>3

LEMMA AskSettled ==
  ASSUME Settings!BrokersFit, SettingsShaped, Settled, Asking, ~overlapped'
  PROVE  Settled' /\ Len(calls') <= 1
<1>0. rows \in Seq(SettingsListed) /\ Unique(rows) /\ calls \in Seq(Asks) BY DEF SettingsShaped, RowsShaped, CallsShaped
<1>1. PICK c \in Asks : SettingsAsked(c) /\ AskWay(c) BY AskWays
<1>2. /\ calls' = Append(calls, c) /\ calls = <<>> /\ c.stage = "sent" /\ rows' = rows /\ selectedId' = selectedId
  BY <1>1 DEF SettingsAsked
<1>a. ~c.cancelled BY <1>1 DEF SettingsAsked
<1>3. calls' = <<c>> BY <1>2
<1>4. brokers = Settings!Sent(rows) BY <1>2 DEF Settled
<1>5. brokers \in Seq(SettingsListed) /\ Unique(brokers) /\ SameRows(brokers) BY <1>0, <1>4, SentSame
<1>6. CASE c.kind # "reorder"
  <2>1. brokers' = brokers /\ (c.kind = "delete" => c.list = brokers) /\ c.kind # "reload" BY <1>1, <1>6 DEF AskWay
  <2>2. CallStep(c)' BY <1>2, <1>a, <1>4, <1>6, <2>1 DEF CallStep
  <2>3. selectedId' # Settings!NoId => Settings!Has(brokers', selectedId') BY <1>2, <2>1 DEF Settled
  <2> QED BY <1>3, <2>2, <2>3, OneSettled
<1>7. CASE c.kind = "reorder"
  <2>1. PICK from, to \in DOMAIN brokers : brokers' = Settings!arrayMove(brokers, from, to) BY <1>1, <1>7 DEF AskWay
  <2>2. PICK l : l = brokers' OBVIOUS
  <2>3. /\ Within(l, brokers) /\ \A i \in DOMAIN brokers : \E k \in DOMAIN l : l[k] = brokers[i]
    BY <1>5, <2>1, <2>2, MoveIs
  <2>4. Unique(l) /\ \A a \in DOMAIN l : \E i \in DOMAIN brokers : l[a] = brokers[i] BY <1>5, <2>3, WithinKeeps
  <2>5. SameRows(l)
    <3>1. \A i \in DOMAIN l : \E k \in DOMAIN rows : l[i] = Settings!Public(rows[k])
      <4> SUFFICES ASSUME NEW i \in DOMAIN l PROVE \E k \in DOMAIN rows : l[i] = Settings!Public(rows[k]) OBVIOUS
      <4>1. PICK j \in DOMAIN brokers : l[i] = brokers[j] BY <2>4
      <4>2. PICK k \in DOMAIN rows : brokers[j] = Settings!Public(rows[k]) BY <1>5 DEF SameRows
      <4> QED BY <4>1, <4>2
    <3>2. \A k \in DOMAIN rows : \E i \in DOMAIN l : l[i] = Settings!Public(rows[k])
      <4> SUFFICES ASSUME NEW k \in DOMAIN rows PROVE \E i \in DOMAIN l : l[i] = Settings!Public(rows[k]) OBVIOUS
      <4>1. PICK j \in DOMAIN brokers : brokers[j] = Settings!Public(rows[k]) BY <1>5 DEF SameRows
      <4>2. PICK i \in DOMAIN l : l[i] = brokers[j] BY <2>3
      <4> QED BY <4>1, <4>2
    <3> QED BY <3>1, <3>2 DEF SameRows
  <2>6. c.list = l BY <1>1, <1>7, <2>2 DEF AskWay
  <2>7. SameRows(brokers)' BY <1>2, <2>2, <2>5 DEF SameRows
  <2>8. CallStep(c)' BY <1>2, <1>a, <1>7, <2>2, <2>4, <2>6, <2>7 DEF CallStep
  <2>9. selectedId' # Settings!NoId => Settings!Has(brokers', selectedId')
    <3>1. selectedId # Settings!NoId => Settings!Has(brokers, selectedId) BY DEF Settled
    <3>2. Settings!Has(brokers, selectedId) => Settings!Has(l, selectedId)
      <4> SUFFICES ASSUME NEW j \in DOMAIN brokers, brokers[j].id = selectedId PROVE Settings!Has(l, selectedId) BY DEF Settings!Has
      <4>1. PICK i \in DOMAIN l : l[i] = brokers[j] BY <2>3
      <4> QED BY <4>1 DEF Settings!Has
    <3> QED BY <1>2, <2>2, <3>1, <3>2
  <2> QED BY <1>3, <2>8, <2>9, OneSettled
<1> QED BY <1>6, <1>7

LEMMA HereSettled ==
  ASSUME Settings!BrokersFit, SettingsShaped, Settled, Len(calls) <= 1,
         \/ UNCHANGED Settings!vars
         \/ \E i \in DOMAIN brokers : Settings!handleSelect(brokers[i])
         \/ Editing
         \/ \E v \in FormTexts : Settings!ReadFile(v)
         \/ Settings!FileRead
  PROVE  Settled' /\ Len(calls') <= 1
<1>1. Editing => Settings!Local /\ selectedId' = selectedId BY EditMakes
<1>2. rows' = rows /\ brokers' = brokers /\ calls' = calls
  <2>1. Settings!Local => rows' = rows /\ brokers' = brokers /\ calls' = calls BY DEF Settings!Local, Settings!server
  <2> QED BY <1>1, <2>1 DEF Settings!handleSelect, Settings!ReadFile, Settings!FileRead, Settings!vars, Settings!server, Settings!page
<1>3. selectedId' = selectedId \/ \E i \in DOMAIN brokers : selectedId' = brokers[i].id
  BY <1>1 DEF Settings!handleSelect, Settings!Show, Settings!ReadFile, Settings!FileRead, Settings!vars, Settings!page
<1>4. selectedId' # Settings!NoId => Settings!Has(brokers', selectedId') BY <1>2, <1>3 DEF Settled, Settings!Has
<1>5. \A k \in DOMAIN calls : CallStep(calls[k])' BY <1>2 DEF CallStep, SameRows, WillShow, Settled, Settings!Has
<1>6. (\A k \in DOMAIN calls : CallStep(calls[k]))' BY <1>2, <1>5
<1>7. (calls = <<>> => brokers = Settings!Sent(rows))' BY <1>2 DEF Settled
<1> QED BY <1>2, <1>4, <1>6, <1>7 DEF Settled

(* Calls that crossed, or that were lost, are not forgotten. *)
LEMMA ClearBefore ==
  ASSUME Settings!BrokersFit, SettingsShaped, Fresh, [Settings!Next]_(Settings!vars)
  PROVE  (~overlapped' => ~overlapped) /\ (~astray' => ~astray)
<1>1. CASE \E i \in DOMAIN calls : Settings!Serve(i)
  <2>1. UNCHANGED <<created, Settings!page, Settings!ghosts, acts>> BY <1>1, ServeShaped
  <2> QED BY <2>1 DEF Settings!ghosts
<1>2. CASE \E i \in DOMAIN calls : Settings!Answered(i) BY <1>2 DEF Settings!Answered
<1>3. CASE \E i \in DOMAIN calls : Settings!Failed(i)
  <2>1. PICK i \in DOMAIN calls : Settings!Failed(i) BY <1>3
  <2>2. overlapped' = overlapped BY <2>1, FailIs
  <2>3. PICK p : p = (calls[i].kind \in {"load", "reload"} \/ (calls[i].stage = "served" /\ calls[i].kind # "reorder"))
    OBVIOUS
  <2>4. astray' = (astray \/ p) BY <2>1, <2>3, FailIs
  <2>5. ~astray' => ~astray BY ONLY <2>4
  <2>6. ~overlapped' => ~overlapped BY ONLY <2>2
  <2> QED BY ONLY <2>5, <2>6
<1>4. CASE \E id, t : (id = requested \/ id = Settings!NoId \/ id \in Requested) /\ Settings!Visit(id, t)
  <2>1. PICK id, t : (id = requested \/ id = Settings!NoId \/ id \in Requested) /\ Settings!Visit(id, t) BY <1>4
  <2>2. UNCHANGED astray BY <2>1, VisitIs
  <2>3. overlapped' = overlapped \/ overlapped' = (overlapped \/ calls # <<>>) BY <2>1, VisitIs
  <2>4. ~overlapped' => ~overlapped BY ONLY <2>3
  <2>5. ~astray' => ~astray BY ONLY <2>2
  <2> QED BY ONLY <2>4, <2>5
<1>5. CASE Asking
  <2>1. PICK c \in Asks : SettingsAsked(c) /\ AskWay(c) BY <1>5, AskWays
  <2> QED BY <2>1 DEF SettingsAsked
<1>6. CASE \E i \in DOMAIN brokers : Settings!handleSelect(brokers[i]) BY <1>6 DEF Settings!handleSelect, Settings!Local
<1>7. CASE Editing
  <2>1. Settings!Local BY <1>7, EditMakes
  <2> QED BY <2>1 DEF Settings!Local
<1>8. CASE \E v \in FormTexts : Settings!ReadFile(v) BY <1>8 DEF Settings!ReadFile, Settings!Local
<1>9. CASE Settings!FileRead BY <1>9 DEF Settings!FileRead, Settings!Local
<1>10. CASE UNCHANGED Settings!vars BY <1>10 DEF Settings!vars, Settings!ghosts
<1> QED BY <1>1, <1>2, <1>3, <1>4, <1>5, <1>6, <1>7, <1>8, <1>9, <1>10, Steps

(* A call that is sent while another is under way marks that. *)
LEMMA SingleStays ==
  ASSUME Settings!BrokersFit, SettingsShaped, Fresh, SettingsSingle, [Settings!Next]_(Settings!vars)
  PROVE  SettingsSingle'
<1> SUFFICES ASSUME ~overlapped' PROVE Len(calls') <= 1 BY DEF SettingsSingle
<1>1. ~overlapped BY ClearBefore
<1>0. calls \in Seq(Asks) /\ selectedId \in Known /\ Len(calls) <= 1
  BY <1>1 DEF SettingsShaped, CallsShaped, PageShaped, SettingsSingle
<1>2. ASSUME NEW i \in DOMAIN calls, Settings!Serve(i) PROVE Len(calls') <= 1
  <2>1. PICK d \in Asks : calls' = [calls EXCEPT ![i] = d] BY <1>2, ServeShaped
  <2>2. Len(calls') = Len(calls) BY <1>0, <2>1
  <2> QED BY <1>0, <2>2
<1>3. ASSUME NEW i \in DOMAIN calls, Settings!Answered(i) PROVE Len(calls') <= 1
  <2>1. calls' = Settings!RemoveAt(calls, i) BY <1>3 DEF Settings!Answered
  <2>2. Len(calls') = Len(calls) - 1 BY <1>0, <2>1, FromCut
  <2>3. Len(calls) \in Nat BY <1>0
  <2> QED BY <1>0, <2>2, <2>3
<1>4. ASSUME NEW i \in DOMAIN calls, Settings!Failed(i) PROVE Len(calls') <= 1
  <2>1. IF calls[i].kind = "reorder" THEN calls' = Settings!RemoveAt(calls, i) \o <<Settings!Call("reload", Settings!NoId)>>
        ELSE calls' = Settings!RemoveAt(calls, i)
    BY <1>4, FailIs
  <2>2. CASE calls' = Settings!RemoveAt(calls, i) \o <<Settings!Call("reload", Settings!NoId)>>
    <3>1. Settings!NoId \in Known /\ "reload" \in Kinds BY DEF Known, Kinds
    <3>2. PICK c \in Asks : c = Settings!Call("reload", Settings!NoId) BY <1>0, <3>1, CallIs
    <3>3. Len(calls') = Len(calls) BY <1>0, <2>2, <3>2, FromRetry
    <3> QED BY <1>0, <3>3
  <2>3. CASE calls' = Settings!RemoveAt(calls, i)
    <3>1. Len(calls') = Len(calls) - 1 BY <1>0, <2>3, FromCut
    <3>2. Len(calls) \in Nat BY <1>0
    <3> QED BY <1>0, <3>1, <3>2
  <2> QED BY <2>1, <2>2, <2>3
<1>5. ASSUME NEW id, NEW t, id = requested \/ id = Settings!NoId \/ id \in Requested, Settings!Visit(id, t) PROVE Len(calls') <= 1
  <2>1. calls' = calls \/ (id \in Known /\ Settings!Refetch(id) /\ calls = <<>>) BY <1>5, VisitIs
  <2>2. CASE id \in Known /\ Settings!Refetch(id) /\ calls = <<>>
    <3>1. Len(calls') = Len(calls) + 1 BY <1>0, <2>2, FromRefetch
    <3> QED BY <2>2, <3>1
  <2> QED BY <1>0, <2>1, <2>2
<1>6. CASE Asking
  <2>1. PICK c \in Asks : SettingsAsked(c) /\ AskWay(c) BY <1>6, AskWays
  <2>2. calls = <<>> /\ calls' = Append(calls, c) BY <2>1 DEF SettingsAsked
  <2> QED BY <2>2
<1>7. CASE \/ UNCHANGED Settings!vars
           \/ \E i \in DOMAIN brokers : Settings!handleSelect(brokers[i])
           \/ Editing
           \/ \E v \in FormTexts : Settings!ReadFile(v)
           \/ Settings!FileRead
  <2>1. Editing => Settings!Local BY EditMakes
  <2>2. calls' = calls BY <1>7, <2>1 DEF Settings!Local, Settings!handleSelect, Settings!ReadFile, Settings!FileRead, Settings!vars
  <2> QED BY <1>0, <2>2
<1> QED BY <1>2, <1>3, <1>4, <1>5, <1>6, <1>7, Steps

LEMMA SettledStays ==
  ASSUME Settings!BrokersFit, SettingsShaped, Fresh, SettingsSingle, Clear => Settled, [Settings!Next]_(Settings!vars)
  PROVE  (Clear => Settled)'
<1> SUFFICES ASSUME ~overlapped', ~astray' PROVE Settled' BY DEF Clear
<1>1. Settled /\ Len(calls) <= 1 BY ClearBefore DEF Clear, SettingsSingle
<1>2. CASE \E i \in DOMAIN calls : Settings!Serve(i) BY <1>1, <1>2, ServeSettled
<1>3. CASE \E i \in DOMAIN calls : Settings!Answered(i) BY <1>1, <1>3, AnswerSettled
<1>4. CASE \E i \in DOMAIN calls : Settings!Failed(i) BY <1>1, <1>4, FailSettled
<1>5. CASE \E id, t : (id = requested \/ id = Settings!NoId \/ id \in Requested) /\ Settings!Visit(id, t) BY <1>1, <1>5, VisitSettled
<1>6. CASE Asking BY <1>1, <1>6, AskSettled
<1>7. CASE \/ UNCHANGED Settings!vars
           \/ \E i \in DOMAIN brokers : Settings!handleSelect(brokers[i])
           \/ Editing
           \/ \E v \in FormTexts : Settings!ReadFile(v)
           \/ Settings!FileRead
  BY <1>1, <1>7, HereSettled
<1> QED BY <1>2, <1>3, <1>4, <1>5, <1>6, <1>7, Steps

LEMMA StartSettled == ASSUME Settings!BrokersFit, Settings!Init PROVE SettingsSingle /\ Settled
<1>1. selectedId = Settings!NoId /\ calls = <<Settings!Call("load", requested)>> /\ requested \in Requested BY DEF Settings!Init
<1>2. PICK c : c = Settings!Call("load", requested) OBVIOUS
<1>3. c.kind = "load" /\ c.stage = "sent" BY <1>2 DEF Settings!Call
<1>4. ~c.cancelled BY <1>2 DEF Settings!Call
<1>5. CallStep(c) BY <1>3, <1>4 DEF CallStep
<1>6. calls = <<c>> BY <1>1, <1>2
<1>7. Len(calls) = 1 /\ calls # <<>> /\ \A k \in DOMAIN calls : calls[k] = c BY <1>6
<1> QED BY <1>1, <1>5, <1>7 DEF SettingsSingle, Settled

LEMMA SettledAlways == ASSUME Settings!BrokersFit PROVE BrokerRuns => [](SettingsSingle /\ (Clear => Settled))
<1>1. Settings!Init => SettingsSingle /\ (Clear => Settled) BY StartSettled
<1>2. (SettingsShaped /\ Fresh) /\ (SettingsSingle /\ (Clear => Settled)) /\ [Settings!Next]_(Settings!vars) => (SettingsSingle /\ (Clear => Settled))'
  <2> SUFFICES ASSUME SettingsShaped, Fresh, SettingsSingle, Clear => Settled, [Settings!Next]_(Settings!vars) PROVE SettingsSingle' /\ (Clear => Settled)'
    OBVIOUS
  <2> QED BY SingleStays, SettledStays
<1> QED BY <1>1, <1>2, BrokersShaped, PTL DEF BrokerRuns

(* When no call is under way, and none was lost or crossed another, the    *)
(* page lists the server's brokers in the server's order (ConfigPage.tsx). *)
THEOREM BrokersInStep == ASSUME Settings!BrokersFit PROVE BrokerRuns => []Settings!ListInStep
<1>1. (SettingsSingle /\ (Clear => Settled)) => Settings!ListInStep BY DEF Clear, Settled, Settings!ListInStep
<1> QED BY <1>1, SettledAlways, PTL

(* The open broker is one of the list, or one that is being made           *)
(* (ConfigPage.tsx, selectedId).                                           *)
THEOREM OpenIsListed == ASSUME Settings!BrokersFit PROVE BrokerRuns => []Settings!OpenListed
<1>1. (SettingsSingle /\ (Clear => Settled)) => Settings!OpenListed BY DEF Clear, Settled, Settings!OpenListed
<1> QED BY <1>1, SettledAlways, PTL


-----------------------------------------------------------------------------
(***************************************************************************)
(* The pages, one at a time (WebPages).  Either the scene is a page's,     *)
(* and the page runs as it would alone, or it never is; what was proved of *)
(* the page's runs is then so of the whole.                                *)
(***************************************************************************)
In(s) == scene = s

LEMMA SceneStays == ASSUME NEW s PROVE [Next]_vars => In(s)' = In(s)
BY DEF Next, ShellNext, JobsNext, TreeNext, SettingsNext, GeneralNext,
       CardNext, PopoversNext, vars, In

LEMMA ShellAlone == Spec => ShellRuns \/ []~In("shell")
<1>1. Init /\ In("shell") => Shell!Init BY DEF Init, In
<1>2. In("shell") /\ [Next]_vars => In("shell")' /\ [Shell!Next]_(Shell!vars)
  <2>1. In("shell") /\ Next => Shell!Next
    BY DEF Next, ShellNext, JobsNext, TreeNext, SettingsNext, GeneralNext,
           CardNext, PopoversNext, In
  <2>2. UNCHANGED vars => UNCHANGED Shell!vars
    BY DEF vars, dashboardShellVars, automationsVars, explorerVars,
           brokerSettingsVars, generalSettingsVars, panelCardVars, panelPopoversVars,
           shared, Shell!vars, Shell!server, Shell!layout, Shell!modes, Shell!page,
           Shell!races
  <2> QED BY <2>1, <2>2, SceneStays
<1>3. ~In("shell") /\ [Next]_vars => ~In("shell")' BY SceneStays
<1> QED BY <1>1, <1>2, <1>3, PTL DEF Spec, ShellRuns

LEMMA JobsAlone == Spec => JobRuns \/ []~In("jobs")
<1>1. Init /\ In("jobs") => Jobs!Init BY DEF Init, In
<1>2. In("jobs") /\ [Next]_vars => In("jobs")' /\ [Jobs!Next]_(Jobs!vars)
  <2>1. In("jobs") /\ Next => Jobs!Next
    BY DEF Next, ShellNext, JobsNext, TreeNext, SettingsNext, GeneralNext,
           CardNext, PopoversNext, In
  <2>2. UNCHANGED vars => UNCHANGED Jobs!vars
    BY DEF vars, dashboardShellVars, automationsVars, explorerVars,
           brokerSettingsVars, generalSettingsVars, panelCardVars, panelPopoversVars,
           shared, Jobs!vars, Jobs!view
  <2> QED BY <2>1, <2>2, SceneStays
<1>3. ~In("jobs") /\ [Next]_vars => ~In("jobs")' BY SceneStays
<1> QED BY <1>1, <1>2, <1>3, PTL DEF Spec, JobRuns

LEMMA TreeAlone == Spec => TreeRuns \/ []~In("explorer")
<1>1. Init /\ In("explorer") => Tree!Init BY DEF Init, In
<1>2. In("explorer") /\ [Next]_vars => In("explorer")' /\ [Tree!Next]_(Tree!vars)
  <2>1. In("explorer") /\ Next => Tree!Next
    BY DEF Next, ShellNext, JobsNext, TreeNext, SettingsNext, GeneralNext,
           CardNext, PopoversNext, In
  <2>2. UNCHANGED vars => UNCHANGED Tree!vars
    BY DEF vars, dashboardShellVars, automationsVars, explorerVars,
           brokerSettingsVars, generalSettingsVars, panelCardVars, panelPopoversVars,
           shared, Tree!vars, Tree!server, Tree!history, Tree!wire, Tree!picking, Tree!tree,
           Tree!switches, Tree!view, Tree!ghosts
  <2> QED BY <2>1, <2>2, SceneStays
<1>3. ~In("explorer") /\ [Next]_vars => ~In("explorer")' BY SceneStays
<1> QED BY <1>1, <1>2, <1>3, PTL DEF Spec, TreeRuns

LEMMA SettingsAlone == Spec => BrokerRuns \/ []~In("brokers")
<1>1. Init /\ In("brokers") => Settings!Init BY DEF Init, In
<1>2. In("brokers") /\ [Next]_vars => In("brokers")' /\ [Settings!Next]_(Settings!vars)
  <2>1. In("brokers") /\ Next => Settings!Next
    BY DEF Next, ShellNext, JobsNext, TreeNext, SettingsNext, GeneralNext,
           CardNext, PopoversNext, In
  <2>2. UNCHANGED vars => UNCHANGED Settings!vars
    BY DEF vars, dashboardShellVars, automationsVars, explorerVars,
           brokerSettingsVars, generalSettingsVars, panelCardVars, panelPopoversVars,
           shared, Settings!vars, Settings!server, Settings!page, Settings!ghosts
  <2> QED BY <2>1, <2>2, SceneStays
<1>3. ~In("brokers") /\ [Next]_vars => ~In("brokers")' BY SceneStays
<1> QED BY <1>1, <1>2, <1>3, PTL DEF Spec, BrokerRuns

LEMMA GeneralAlone == Spec => GeneralRuns \/ []~In("general")
<1>1. Init /\ In("general") => General!Init BY DEF Init, In
<1>2. In("general") /\ [Next]_vars => In("general")' /\ [General!Next]_(General!vars)
  <2>1. In("general") /\ Next => General!Next
    BY DEF Next, ShellNext, JobsNext, TreeNext, SettingsNext, GeneralNext,
           CardNext, PopoversNext, In
  <2>2. UNCHANGED vars => UNCHANGED General!vars
    BY DEF vars, dashboardShellVars, automationsVars, explorerVars,
           brokerSettingsVars, generalSettingsVars, panelCardVars, panelPopoversVars,
           shared, General!vars, General!server, General!retention, General!storage,
           General!mcp, General!copying, General!ghosts
  <2> QED BY <2>1, <2>2, SceneStays
<1>3. ~In("general") /\ [Next]_vars => ~In("general")' BY SceneStays
<1> QED BY <1>1, <1>2, <1>3, PTL DEF Spec, GeneralRuns

LEMMA CardAlone == Spec => CardRuns \/ []~In("card")
<1>1. Init /\ In("card") => Card!Init BY DEF Init, In
<1>2. In("card") /\ [Next]_vars => In("card")' /\ [Card!Next]_(Card!vars)
  <2>1. In("card") /\ Next => Card!Next
    BY DEF Next, ShellNext, JobsNext, TreeNext, SettingsNext, GeneralNext,
           CardNext, PopoversNext, In
  <2>2. UNCHANGED vars => UNCHANGED Card!vars
    BY DEF vars, dashboardShellVars, automationsVars, explorerVars,
           brokerSettingsVars, generalSettingsVars, panelCardVars, panelPopoversVars,
           shared, Card!vars, Card!window, Card!copying, Card!ghosts
  <2> QED BY <2>1, <2>2, SceneStays
<1>3. ~In("card") /\ [Next]_vars => ~In("card")' BY SceneStays
<1> QED BY <1>1, <1>2, <1>3, PTL DEF Spec, CardRuns

LEMMA PopoversAlone == Spec => PopoverRuns \/ []~In("popovers")
<1>1. Init /\ In("popovers") => Popovers!Init BY DEF Init, In
<1>2. In("popovers") /\ [Next]_vars => In("popovers")' /\ [Popovers!Next]_(Popovers!vars)
  <2>1. In("popovers") /\ Next => Popovers!Next
    BY DEF Next, ShellNext, JobsNext, TreeNext, SettingsNext, GeneralNext,
           CardNext, PopoversNext, In
  <2>2. UNCHANGED vars => UNCHANGED Popovers!vars
    BY DEF vars, dashboardShellVars, automationsVars, explorerVars,
           brokerSettingsVars, generalSettingsVars, panelCardVars, panelPopoversVars,
           shared, Popovers!vars
  <2> QED BY <2>1, <2>2, SceneStays
<1>3. ~In("popovers") /\ [Next]_vars => ~In("popovers")' BY SceneStays
<1> QED BY <1>1, <1>2, <1>3, PTL DEF Spec, PopoverRuns

LEMMA CardWhole == ASSUME In("card"), Next, UNCHANGED Card!vars PROVE UNCHANGED vars
<1>1. CardNext
  BY DEF Next, ShellNext, JobsNext, TreeNext, SettingsNext, GeneralNext,
         CardNext, PopoversNext, In
<1> QED BY <1>1 DEF CardNext, Card!vars, Card!window, Card!copying, Card!ghosts, vars,
                dashboardShellVars, automationsVars, explorerVars,
                brokerSettingsVars, generalSettingsVars, panelCardVars,
                panelPopoversVars, shared

-----------------------------------------------------------------------------
(* Every page keeps values of their types, a dialog or a button that waits *)
(* has one call under way, and what is open may be open, for any           *)
(* dashboards, panels, automations, brokers, topics and bounds that fit    *)
(* together (DashboardPage.tsx, AutomationsPage.tsx, ExplorerPage.tsx,     *)
(* ConfigPage.tsx, PanelWrapper.tsx).                                      *)
THEOREM PagesKeepTypes == Spec => []TypeOK
<1>1. Spec => [](In("shell") => Shell!TypeOK)
  <2>1. ShellRuns => []Shell!TypeOK BY ShellIsTyped, PagesAssumption DEF PagesFit
  <2> QED BY <2>1, ShellAlone, PTL
<1>2. Spec => [](In("jobs") => Jobs!TypeOK)
  <2>1. JobRuns => []Jobs!TypeOK BY JobsTyped, PagesAssumption DEF PagesFit
  <2> QED BY <2>1, JobsAlone, PTL
<1>3. Spec => [](In("explorer") => Tree!TypeOK)
  <2>1. TreeRuns => []Tree!TypeOK BY TreeTyped, PagesAssumption DEF PagesFit
  <2> QED BY <2>1, TreeAlone, PTL
<1>4. Spec => [](In("brokers") => Settings!TypeOK)
  <2>1. BrokerRuns => []Settings!TypeOK BY BrokersTyped, PagesAssumption DEF PagesFit
  <2> QED BY <2>1, SettingsAlone, PTL
<1>5. Spec => [](In("general") => General!TypeOK)
  <2>1. GeneralRuns => []General!TypeOK BY GeneralTyped, PagesAssumption DEF PagesFit
  <2> QED BY <2>1, GeneralAlone, PTL
<1>6. Spec => [](In("card") => Card!TypeOK)
  <2>1. CardRuns => []Card!TypeOK BY CardIsTyped, PagesAssumption DEF PagesFit
  <2> QED BY <2>1, CardAlone, PTL
<1>7. Spec => [](In("popovers") => Popovers!TypeOK)
  <2>1. PopoverRuns => []Popovers!TypeOK BY PopoversTyped, PagesAssumption DEF PagesFit
  <2> QED BY <2>1, PopoversAlone, PTL
<1>8. /\ (In("shell") => Shell!TypeOK)
      /\ (In("jobs") => Jobs!TypeOK)
      /\ (In("explorer") => Tree!TypeOK)
      /\ (In("brokers") => Settings!TypeOK)
      /\ (In("general") => General!TypeOK)
      /\ (In("card") => Card!TypeOK)
      /\ (In("popovers") => Popovers!TypeOK)
    => TypeOK
  BY DEF In, TypeOK
<1> QED BY <1>1, <1>2, <1>3, <1>4, <1>5, <1>6, <1>7, <1>8, PTL

(* At rest each page shows what the server holds, in the server's order,   *)
(* unless two requests crossed, one failed, or an answer came after the    *)
(* user had turned elsewhere; what the automations page hides it says it   *)
(* hides, and the explorer's tree has the topics captured of the broker    *)
(* shown and of no other (Layout.tsx, DashboardPage.tsx,                   *)
(* AutomationsPage.tsx, ConfigPage.tsx, PanelWrapper.tsx,                  *)
(* ExplorerPage.tsx).                                                      *)
THEOREM PagesAreInStep == Spec => []InStep
<1>1. Spec => [](In("shell") => (Shell!ActiveKnown /\ Shell!ListInStep /\ Shell!PageInStep))
  <2>1. ShellRuns => []Shell!ActiveKnown BY SelectionIsKnown, PagesAssumption DEF PagesFit
  <2>2. ShellRuns => []Shell!ListInStep BY ListIsServers, PagesAssumption DEF PagesFit
  <2>3. ShellRuns => []Shell!PageInStep BY PanelsAreServers, PagesAssumption DEF PagesFit
  <2> QED BY <2>1, <2>2, <2>3, ShellAlone, PTL
<1>2. Spec => [](In("jobs") => (Jobs!SwitchesInStep /\ Jobs!SwitchHeld /\ Jobs!HiddenExplained))
  <2>1. JobRuns => []Jobs!SwitchesInStep BY SwitchesAreInStep, PagesAssumption DEF PagesFit
  <2>2. JobRuns => []Jobs!SwitchHeld BY SwitchIsHeld, PagesAssumption DEF PagesFit
  <2>3. JobRuns => []Jobs!HiddenExplained BY HidingExplained, PagesAssumption DEF PagesFit
  <2> QED BY <2>1, <2>2, <2>3, JobsAlone, PTL
<1>3. Spec => [](In("brokers") => (Settings!ListInStep /\ Settings!OpenListed))
  <2>1. BrokerRuns => []Settings!ListInStep BY BrokersInStep, PagesAssumption DEF PagesFit
  <2>2. BrokerRuns => []Settings!OpenListed BY OpenIsListed, PagesAssumption DEF PagesFit
  <2> QED BY <2>1, <2>2, SettingsAlone, PTL
<1>4. Spec => [](In("general") => General!RetentionShown)
  <2>1. GeneralRuns => []General!RetentionShown BY RetentionIsShown, PagesAssumption DEF PagesFit
  <2> QED BY <2>1, GeneralAlone, PTL
<1>5. Spec => [](In("card") => Card!RowInStep)
  <2>1. CardRuns => []Card!RowInStep BY RowStaysInStep, PagesAssumption DEF PagesFit
  <2> QED BY <2>1, CardAlone, PTL
<1>6. Spec => [](In("explorer") => (Tree!TreeComplete /\ Tree!TreeOfBroker /\ Tree!SelectedVisible /\ Tree!PickShown))
  <2>1. TreeRuns => []Tree!TreeComplete BY TreeIsComplete, PagesAssumption DEF PagesFit
  <2>2. TreeRuns => []Tree!TreeOfBroker BY TreeIsOfBroker, PagesAssumption DEF PagesFit
  <2>3. TreeRuns => []Tree!SelectedVisible BY SelectedIsVisible, PagesAssumption DEF PagesFit
  <2>4. TreeRuns => []Tree!PickShown BY PickIsShown, PagesAssumption DEF PagesFit
  <2> QED BY <2>1, <2>2, <2>3, <2>4, TreeAlone, PTL
<1>7. /\ (In("shell") => Shell!ActiveKnown /\ Shell!ListInStep /\ Shell!PageInStep)
      /\ (In("jobs") => Jobs!SwitchesInStep /\ Jobs!SwitchHeld /\ Jobs!HiddenExplained)
      /\ (In("brokers") => Settings!ListInStep /\ Settings!OpenListed)
      /\ (In("general") => General!RetentionShown)
      /\ (In("card") => Card!RowInStep)
      /\ (In("explorer") => Tree!TreeComplete /\ Tree!TreeOfBroker /\ Tree!SelectedVisible /\ Tree!PickShown)
    => InStep
  BY DEF In, InStep
<1> QED BY <1>1, <1>2, <1>3, <1>4, <1>5, <1>6, <1>7, PTL

(* A settings window gets what was picked for it and nothing else, the     *)
(* dashboard knows the windows that are open, one copy is asked for at a   *)
(* time, no popover closes under the pointer, the server keeps of a broker *)
(* what was entered for it, and it refuses no retention the page lets the  *)
(* user save (PanelWrapper.tsx, DashboardPage.tsx, ConfigPage.tsx).        *)
THEOREM WindowsAreTheirOwn == Spec => []OwnWindow
<1>1. Spec => [](In("card") => (Card!PickForOneWindow /\ Card!WindowKnown /\ Card!OneCopy))
  <2>1. CardRuns => []Card!PickForOneWindow BY PicksAreForOneWindow, PagesAssumption DEF PagesFit
  <2>2. CardRuns => []Card!WindowKnown BY WindowIsKnown, PagesAssumption DEF PagesFit
  <2>3. CardRuns => []Card!OneCopy BY OneCopyAsked, PagesAssumption DEF PagesFit
  <2> QED BY <2>1, <2>2, <2>3, CardAlone, PTL
<1>2. Spec => [](In("popovers") => Popovers!StaysUnderPointer)
  <2>1. PopoverRuns => []Popovers!StaysUnderPointer
    BY NothingClosesUnderPointer, PagesAssumption DEF PagesFit
  <2> QED BY <2>1, PopoversAlone, PTL
<1>3. Spec => [](In("brokers") => Settings!OwnSettings)
  <2>1. BrokerRuns => []Settings!OwnSettings BY BrokersKeepTheirOwn, PagesAssumption DEF PagesFit
  <2> QED BY <2>1, SettingsAlone, PTL
<1>4. Spec => [](In("general") => General!SavesAccepted)
  <2>1. GeneralRuns => []General!SavesAccepted BY NoSaveRefused, PagesAssumption DEF PagesFit
  <2> QED BY <2>1, GeneralAlone, PTL
<1>5. /\ (In("card") => Card!PickForOneWindow /\ Card!WindowKnown /\ Card!OneCopy)
      /\ (In("popovers") => Popovers!StaysUnderPointer)
      /\ (In("brokers") => Settings!OwnSettings)
      /\ (In("general") => General!SavesAccepted)
    => OwnWindow
  BY DEF In, OwnWindow
<1> QED BY <1>1, <1>2, <1>3, <1>4, <1>5, PTL

(* A title, a save of the settings or a pin moves no more of the panel's   *)
(* row than it is about, unless two changes overlapped or one failed       *)
(* (PanelWrapper.tsx, handlers/layout.go).                                 *)
THEOREM EachChangeIsOne == Spec => OneChange
<1>1. Spec => [][In("card") => Card!MovesOwnKeys]_vars
  <2>1. CardRuns => [][Card!MovesOwnKeys]_(Card!vars)
    BY ChangesMoveTheirOwn, PagesAssumption DEF PagesFit
  <2>2. [Card!MovesOwnKeys]_(Card!vars) /\ [Next]_vars => [In("card") => Card!MovesOwnKeys]_vars
    BY CardWhole
  <2>3. ~In("card") => [In("card") => Card!MovesOwnKeys]_vars OBVIOUS
  <2> QED BY <2>1, <2>2, <2>3, CardAlone, PTL DEF Spec
<1>2. [In("card") => Card!MovesOwnKeys]_vars
    => [scene = "card" => Card!MovesOwnKeys]_vars
  BY DEF In
<1> QED BY <1>1, <1>2, PTL DEF OneChange

=============================================================================
