----------------------------- MODULE MC_UdState -----------------------------
(***************************************************************************)
(* Drives one UdState with the AddUses/AddDefs calls Ud makes for LOAD,    *)
(* STORE, GET_REG and PUT_REG records.  A rejected AddDefs ends the build  *)
(* (Ud.tla models the abort); here it is a step that changes nothing.     *)
(***************************************************************************)
EXTENDS UdState

CONSTANTS
  Sizes,        \* access sizes the tracer emits
  AccessLimit,  \* accesses lie within [0, AccessLimit)
  MaxDefs,      \* bound on Len(defs), the catch-all included
  MaxReads      \* bound on the number of AddUses calls

ASSUME Sizes \subseteq Nat /\ AccessLimit \in Nat

Accesses == {<<a, s>> \in Addr \X Sizes : a + s <= AccessLimit}

(* LOAD / GET_REG records *)
Read ==
  /\ Len(reads) < MaxReads
  /\ \E acc \in Accesses : AddUses(acc[1], acc[2])

(* STORE / PUT_REG records *)
Write ==
  /\ Len(defs) < MaxDefs
  /\ \E acc \in Accesses : AddDefs(acc[1], acc[2])

(* a store AddDefs rejects: the state is untouched and Ud aborts the build *)
Overflow == \E acc \in Accesses : AddDefsTooMany(acc[1], acc[2])

(* end of the record stream *)
StreamEnd == UNCHANGED vars

MCNext == Read \/ Write \/ Overflow \/ StreamEnd

MCSpec == Init /\ [][MCNext]_vars
=============================================================================
