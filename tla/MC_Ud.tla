-------------------------------- MODULE MC_Ud --------------------------------
(***************************************************************************)
(* Ud over short record streams.  Every record that changes the state      *)
(* grows one of the tables (an INSN grows code_, a new insnSeq trace_, a   *)
(* load or store uses_ or defs_; a failure or Complete ends the stream),   *)
(* so bounding their total size bounds the stream.                         *)
(***************************************************************************)
EXTENDS Ud

CONSTANT MaxRows   \* bound on the rows added to trace_, code_, uses_, defs_

(* accesses of load/store records: a read can span two live intervals *)
MCAccesses == {<<0, 1>>, <<1, 1>>, <<0, 2>>}

StreamBound ==
  Len(trace) + Len(code) + Len(regUses) + Len(memUses) + Len(regDefs) + Len(memDefs)
    <= MaxRows + 4
=============================================================================
