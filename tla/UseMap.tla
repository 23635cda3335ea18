------------------------------- MODULE UseMap -------------------------------
(***************************************************************************)
(* What the partial-use table promises its users (UdState::AddUses and     *)
(* ResolveUse): a finite map from use index to range in which a set        *)
(* overwrites and a lookup returns the last value set, or nothing.         *)
(***************************************************************************)
CONSTANTS Keys, Vals

VARIABLE map

Init == map = [k \in {} |-> CHOOSE v \in Vals : TRUE]

Set(k, v) == map' = [x \in DOMAIN map \cup {k} |-> IF x = k THEN v ELSE map[x]]

Next == \E k \in Keys, v \in Vals : Set(k, v)

Spec == Init /\ [][Next]_map
=============================================================================
