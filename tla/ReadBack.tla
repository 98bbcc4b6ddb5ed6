-------------------------------- MODULE ReadBack --------------------------------
(***************************************************************************)
(* What the panels that send commands and read them back share (TogglePanel*)
(* and SliderPanel in components/panels): which topic and which shape they *)
(* read, how a toggle tells its two states apart (toggleUtils.ts) and how  *)
(* a slider snaps a value onto its range (sliderUtils.ts).                 *)
(*                                                                         *)
(* A typed topic is the sequence of the topics between its commas.  A      *)
(* message is a value, alone or inside an object of one shape; a template  *)
(* is one of these two with the chip in it, "blank", or bytes with no chip *)
(* ("plain").  The bytes of either, and JSON, are left out.  The numbers of *)
(* a slider have two decimals at most, and are counted in hundredths.      *)
(***************************************************************************)
EXTENDS Integers, Sequences

CONSTANTS Wildcards,   \* the topics with + or # in them
          Lower,       \* function: a value in lower case
          Truth        \* function: the words every panel takes for on or off

States == {"on", "off"}
NoState == "none"
Templates == {"value", "object", "blank", "plain"}

hasToken(template) == template \in {"value", "object"}
renderPayload(template, value) ==
    [shape |-> IF template = "object" THEN "object" ELSE "value", value |-> value]

(* What a panel reads: its own topic, broker and shape if it has them, and *)
(* those it publishes with if it has not.                                  *)
commandTopic(c) == IF c.topic = <<>> THEN <<>> ELSE <<Head(c.topic)>>
hasWildcard(c) == commandTopic(c) # <<>> /\ Head(commandTopic(c)) \in Wildcards
stateTopic(c) == IF c.separateRead /\ c.stateTopic # <<>> THEN c.stateTopic ELSE commandTopic(c)
stateBroker(c) == IF c.separateRead /\ c.stateBroker # "" THEN c.stateBroker ELSE c.broker
effectiveReadTemplate_Own(c) == c.payloadTemplate
effectiveReadTemplate(c) == IF c.separateRead /\ c.readTemplate # "none" THEN c.readTemplate ELSE c.payloadTemplate

-----------------------------------------------------------------------------
(* The toggle.  A message that does not have the shape is taken whole.     *)
toggleWritePayload(value, template) ==
    renderPayload(IF hasToken(template) THEN template ELSE "value", value)
extractPayloadValue(m, template) ==
    IF template = "object" /\ m.shape = "object" THEN renderPayload("value", m.value) ELSE m
InLower(m) == [m EXCEPT !.value = Lower[m.value]]
configured(c, s) == IF s = "on" THEN c.on ELSE c.off
stateReferences(c, s) ==
    LET bare == renderPayload("value", configured(c, s)) IN
    {InLower(m) : m \in {bare, extractPayloadValue(bare, effectiveReadTemplate(c)),
                         toggleWritePayload(configured(c, s), c.payloadTemplate)}}
parseToggleState(c, m) ==
    LET value == InLower(extractPayloadValue(m, effectiveReadTemplate(c))) IN
    IF value = renderPayload("value", "") THEN NoState
    ELSE IF value \in stateReferences(c, "on") THEN "on"
    ELSE IF value \in stateReferences(c, "off") THEN "off"
    ELSE IF value.shape = "value" /\ value.value \in DOMAIN Truth THEN Truth[value.value] ELSE NoState

-----------------------------------------------------------------------------
(* The rules of the configuration windows (useConfigValidation.ts): one    *)
(* topic, not a wildcard one to publish to; a chip in what is published,   *)
(* and in the shape that is read, which some panels may leave blank.       *)
TopicOk(topic, allowWildcards) ==
    Len(topic) = 1 /\ (allowWildcards \/ \A i \in DOMAIN topic : topic[i] \notin Wildcards)
WriteOk(template) == hasToken(template)
ReadOk(template, allowEmpty) == hasToken(template) \/ (allowEmpty /\ template = "blank")

-----------------------------------------------------------------------------
(* The slider: a range that cannot be dragged is mended, and a value is    *)
(* snapped to the steps counted from the low end, the high end included,   *)
(* and rounded to the decimals of the step, which the low end may have     *)
(* more of.                                                                *)
One == 100
normalizeRange(low, high, step) ==
    [min |-> low, max |-> IF high > low THEN high ELSE low + One, step |-> IF step > 0 THEN step ELSE One]
(* Math.round, of n / d. *)
Rounded(n, d) == (2 * n + d) \div (2 * d)
(* The unit of the last decimal of a step, and toFixed to that decimal,    *)
(* which rounds a half away from zero.                                     *)
Grain(step) == IF step % One = 0 THEN One ELSE IF step % 10 = 0 THEN 10 ELSE 1
Fixed(x, unit) == IF x >= 0 THEN Rounded(x, unit) * unit ELSE -(Rounded(-x, unit) * unit)
clampToRange(value, r) ==
    IF value <= r.min THEN r.min
    ELSE IF value >= r.max THEN r.max
    ELSE LET rounded == Fixed(r.min + Rounded(value - r.min, r.step) * r.step, Grain(r.step))
         IN IF rounded < r.min THEN r.min ELSE IF rounded > r.max THEN r.max ELSE rounded
=============================================================================
