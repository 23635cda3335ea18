---------------------------- MODULE MC_TraceIter ----------------------------
(***************************************************************************)
(* Trace files for TraceIter: every file of up to MaxRecs records drawn    *)
(* from a record profile, for each magic, header length and truncation.    *)
(***************************************************************************)
EXTENDS TraceIter

CONSTANTS
  Magics,       \* first two bytes of the file
  HdrLens,      \* header TLV length fields
  Cuts,         \* bytes missing at the end of the file
  MaxRecs,      \* records per file
  RecordsOf(_)  \* the records a file of word size w is made of

(* A record of the given tag, extra bytes past its decoder's fixed fields *)
Rec(tag, extra, s, w) ==
  [tag |-> tag, length |-> FixedLength(Kind(tag), w) + extra, seq |-> s]

Unknown == [tag |-> "BAD", length |-> TlvFixedLength, seq |-> 0]

(* Records as the tracer writes them: loads and INSN_EXECs of two         *)
(* instructions (insnSeqs count from 1, code index 0 being Ud's catch-all), *)
(* a padded INSN and MMAP the seek skips, and a record of an unknown tag.   *)
WellFormed(w) ==
  {Rec("LOAD", 0, s, w) : s \in {1, 2}} \cup {Rec("INSN_EXEC", 0, s, w) : s \in {1, 2}}
    \cup {Rec("INSN", 1, 0, w), Rec("MMAP", 1, 0, w), Unknown}

(* ... and a record whose length field is 0 *)
WithZeroLength(w) == WellFormed(w) \cup {[tag |-> "LOAD", length |-> 0, seq |-> 0]}

(* ... and records shorter than their decoders' fixed fields *)
WithShortFields(w) ==
  WellFormed(w) \cup {Rec("LOAD", -w, 0, w), Rec("INSN_EXEC", -4, 0, w)}

(* The record sequences a file of magic m can hold *)
RecSeqs(m) ==
  IF WordSize(m) = 0 THEN {<< >>}
  ELSE UNION {[1 .. n -> RecordsOf(WordSize(m))] : n \in 0 .. MaxRecs}

MCFiles ==
  UNION {{[magic |-> m, hdrLen |-> h, recs |-> rs, cut |-> c] : rs \in RecSeqs(m)} :
           m \in Magics, h \in HdrLens, c \in Cuts}
=============================================================================
