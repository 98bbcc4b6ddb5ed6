--------------------------------- MODULE Lists ---------------------------------
(***************************************************************************)
(* Lists, as the pages and the server handle them.  What SequencesExt has  *)
(* too is as it is there; the pages take it from here, since each of them  *)
(* is instantiated in WebPages, and with it all that it extends.           *)
(***************************************************************************)
EXTENDS Naturals, Sequences

ToSet(list) == {list[i] : i \in DOMAIN list}
RemoveAt(list, i) == SubSeq(list, 1, i - 1) \o SubSeq(list, i + 1, Len(list))
InsertAt(list, i, entry) == SubSeq(list, 1, i - 1) \o <<entry>> \o SubSeq(list, i, Len(list))
Front(list) == SubSeq(list, 1, Len(list) - 1)
Last(list) == list[Len(list)]
IsPrefix(list, longer) ==
    Len(list) <= Len(longer) /\ SubSeq(list, 1, Len(list)) = SubSeq(longer, 1, Len(list))
IsStrictPrefix(list, longer) == IsPrefix(list, longer) /\ list # longer

(* The entries of the list that are in S, in their order. *)
Kept(list, S) ==
    LET kept[n \in 0..Len(list)] ==
            IF n = 0 THEN <<>>
            ELSE IF list[n] \in S THEN Append(kept[n - 1], list[n]) ELSE kept[n - 1]
    IN kept[Len(list)]
=============================================================================
