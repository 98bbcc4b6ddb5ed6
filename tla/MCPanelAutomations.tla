------------------------- MODULE MCPanelAutomations -------------------------
(* Instances of PanelAutomations for TLC.                                   *)
EXTENDS PanelAutomations, TLC

Symmetry == Permutations(Panels) \cup Permutations(Workers)

\* Bound: requests that overlap on a panel are explored while it is alone.
OverlapAlone == excused = {} \/ ~(Panels \subseteq used)
=============================================================================
