--------------------------------- MODULE Ud ---------------------------------
(***************************************************************************)
(* The ud-graph builder: class Ud<W> of memtrace_ext.cpp driven by         *)
(* TraceMm::Visit, one action per record kind.  It owns the trace and      *)
(* code tables and two UdState instances, Reg and Mem.  insnSeq values,    *)
(* pcs and addresses are small sets; opcode bytes, text_ and disasm_ are   *)
(* left out (only dumpers and queries read them).                          *)
(*                                                                         *)
(* regDefBy/memDefBy and regUseBy/memUseBy are history variables: the     *)
(* index of the trace entry that was open when a def or use was appended. *)
(***************************************************************************)
EXTENDS Integers, Sequences, SequencesExt

CONSTANTS
  AddrBits, MaxAffectedCount,  \* as in UdState
  Pcs,                         \* instruction addresses of INSN records
  InsnSeqs,                    \* insnSeq values INSN records carry
  AheadRecords,                \* whether records may precede their INSN record
  Accesses                     \* <<addr, size>> of load/store records

VARIABLES
  trace,          \* trace_: Seq of InsnInTrace
  code,           \* code_: Seq of pcs (InsnInCode without its text)
  status,         \* "running", "complete" (Complete returned 0), "failed"
  regAddressSpace, regUses, regDefs, regPartialUses, regReads,
  memAddressSpace, memUses, memDefs, memPartialUses, memReads,
  regDefBy, memDefBy, regUseBy, memUseBy

Reg == INSTANCE UdState WITH addressSpace <- regAddressSpace, uses <- regUses,
         defs <- regDefs, partialUses <- regPartialUses, reads <- regReads
Mem == INSTANCE UdState WITH addressSpace <- memAddressSpace, uses <- memUses,
         defs <- memDefs, partialUses <- memPartialUses, reads <- memReads

regVars == <<regAddressSpace, regUses, regDefs, regPartialUses, regReads>>
memVars == <<memAddressSpace, memUses, memDefs, memPartialUses, memReads>>
history == <<regDefBy, memDefBy, regUseBy, memUseBy>>
vars == <<trace, code, status, regVars, memVars, history>>

Spaces == {"reg", "mem"}

(* InsnInTrace as AddTrace emplaces it: end indices value-initialised *)
NewTrace(codeIndex) ==
  [codeIndex |-> codeIndex,
   regUseStartIndex |-> Len(regUses), regUseEndIndex |-> 0,
   memUseStartIndex |-> Len(memUses), memUseEndIndex |-> 0,
   regDefStartIndex |-> Len(regDefs), regDefEndIndex |-> 0,
   memDefStartIndex |-> Len(memDefs), memDefEndIndex |-> 0]

(* Ud::Flush on the table t: close trace_.back() at the current counts *)
Flush(t) ==
  [t EXCEPT ![Len(t)] = [@ EXCEPT !.regUseEndIndex = Len(regUses),
                                  !.memUseEndIndex = Len(memUses),
                                  !.regDefEndIndex = Len(regDefs),
                                  !.memDefEndIndex = Len(memDefs)]]

(* Ud::AddTrace *)
AddTrace(t, codeIndex) == Append(t, NewTrace(codeIndex))

(* mutant: a new entry is opened without flushing the previous one *)
HandleInsnSeqNoFlush(insnSeq) ==
  IF trace[Len(trace)].codeIndex = insnSeq THEN trace
  ELSE AddTrace(trace, insnSeq)

(* Ud::HandleInsnSeq: a record of another insnSeq than the open entry     *)
(* closes it and opens a new one                                          *)
HandleInsnSeq(insnSeq) ==
  IF trace[Len(trace)].codeIndex = insnSeq THEN trace
  ELSE AddTrace(Flush(trace), insnSeq)

(* mutant: trace entry 0 opened after the catch-all defs were added *)
InitSeedAfterDefs ==
  /\ code = << 0 >>
  /\ trace = << [codeIndex |-> 0,
                 regUseStartIndex |-> 0, regUseEndIndex |-> 0,
                 memUseStartIndex |-> 0, memUseEndIndex |-> 0,
                 regDefStartIndex |-> 1, regDefEndIndex |-> 0,
                 memDefStartIndex |-> 1, memDefEndIndex |-> 0] >>
  /\ Reg!Init /\ Mem!Init
  /\ status = "running"
  /\ regDefBy = << 0 >> /\ memDefBy = << 0 >>
  /\ regUseBy = << >> /\ memUseBy = << >>

(* Ud::Init in CreateTemporary/CreatePersistent mode: the <unknown> code  *)
(* entry, trace entry 0 opened on it, then the catch-all defs.            *)
Init ==
  /\ code = << 0 >>
  /\ trace = << [codeIndex |-> 0,
                 regUseStartIndex |-> 0, regUseEndIndex |-> 0,
                 memUseStartIndex |-> 0, memUseEndIndex |-> 0,
                 regDefStartIndex |-> 0, regDefEndIndex |-> 0,
                 memDefStartIndex |-> 0, memDefEndIndex |-> 0] >>
  /\ Reg!Init /\ Mem!Init
  /\ status = "running"
  /\ regDefBy = << 0 >> /\ memDefBy = << 0 >>
  /\ regUseBy = << >> /\ memUseBy = << >>

Running == status = "running"

(* Tag the uses a step appended with the open trace entry t *)
ByOpen(by, n, t) == by \o [i \in 1 .. n |-> Len(t) - 1]

(* LOAD, GET_REG, GET_REG_NX: HandleInsnSeq, then AddUses *)
UseRecord(space, insnSeq, a, s) ==
  LET t == HandleInsnSeq(insnSeq) IN
  /\ Running
  /\ trace' = t
  /\ IF space = "reg"
       THEN /\ Reg!AddUses(a, s)
            /\ regUseBy' = ByOpen(regUseBy, Len(regUses') - Len(regUses), t)
            /\ UNCHANGED <<memVars, memUseBy>>
       ELSE /\ Mem!AddUses(a, s)
            /\ memUseBy' = ByOpen(memUseBy, Len(memUses') - Len(memUses), t)
            /\ UNCHANGED <<regVars, regUseBy>>
  /\ UNCHANGED <<code, status, regDefBy, memDefBy>>

(* STORE, PUT_REG, PUT_REG_NX: HandleInsnSeq, then AddDefs returning 0 *)
DefRecord(space, insnSeq, a, s) ==
  LET t == HandleInsnSeq(insnSeq) IN
  /\ Running
  /\ trace' = t
  /\ IF space = "reg"
       THEN /\ Reg!AddDefs(a, s)
            /\ regDefBy' = ByOpen(regDefBy, 1, t)
            /\ UNCHANGED <<memVars, memDefBy>>
       ELSE /\ Mem!AddDefs(a, s)
            /\ memDefBy' = ByOpen(memDefBy, 1, t)
            /\ UNCHANGED <<regVars, regDefBy>>
  /\ UNCHANGED <<code, status, regUseBy, memUseBy>>

(* The same records when AddDefs returns -EINVAL: the visit aborts after  *)
(* HandleInsnSeq has already flushed and opened an entry                  *)
DefRecordTooMany(space, insnSeq, a, s) ==
  /\ Running
  /\ IF space = "reg" THEN Reg!AddDefsTooMany(a, s) ELSE Mem!AddDefsTooMany(a, s)
  /\ trace' = HandleInsnSeq(insnSeq)
  /\ status' = "failed"
  /\ UNCHANGED <<code, regVars, memVars, history>>

(* MT_REG (a value snapshot) and INSN_EXEC: only HandleInsnSeq *)
RegRecord(insnSeq) ==
  /\ Running
  /\ trace' = HandleInsnSeq(insnSeq)
  /\ UNCHANGED <<code, status, regVars, memVars, history>>

InsnExec(insnSeq) ==
  /\ Running
  /\ trace' = HandleInsnSeq(insnSeq)
  /\ UNCHANGED <<code, status, regVars, memVars, history>>

(* mutant: the code entry records the insnSeq where the pc belongs *)
InsnWrongField(insnSeq, pc) ==
  /\ Running
  /\ insnSeq = Len(code)
  /\ code' = Append(code, insnSeq)
  /\ UNCHANGED <<trace, status, regVars, memVars, history>>

(* INSN: a new static instruction must carry insnSeq = code_.size() *)
Insn(insnSeq, pc) ==
  /\ Running
  /\ insnSeq = Len(code)
  /\ code' = Append(code, pc)
  /\ UNCHANGED <<trace, status, regVars, memVars, history>>

InsnMalformed(insnSeq) ==
  /\ Running
  /\ insnSeq # Len(code)
  /\ status' = "failed"
  /\ UNCHANGED <<trace, code, regVars, memVars, history>>

(* Ud::Complete at the end of the stream: Flush; the dumps write files only *)
Complete ==
  /\ Running
  /\ trace' = Flush(trace)
  /\ status' = "complete"
  /\ UNCHANGED <<code, regVars, memVars, history>>

(* The terminal state: the visit has returned *)
Done == status # "running" /\ UNCHANGED vars

(* The insnSeqs a load, store, register or INSN_EXEC record may carry.    *)
(* HandleInsnSeq does not check them against code_: with AheadRecords a   *)
(* record may come before its INSN record (the spec's end-to-end stream  *)
(* does so) or without one; without it only introduced insnSeqs occur.    *)
RecordSeqs == IF AheadRecords THEN InsnSeqs ELSE 1 .. Len(code) - 1

(* One record of the stream, dispatched by TraceMm::VisitOne, or its end *)
Next ==
  \/ \E sp \in Spaces, q \in RecordSeqs, acc \in Accesses : UseRecord(sp, q, acc[1], acc[2])
  \/ \E sp \in Spaces, q \in RecordSeqs, acc \in Accesses : DefRecord(sp, q, acc[1], acc[2])
  \/ \E sp \in Spaces, q \in RecordSeqs, acc \in Accesses :
       DefRecordTooMany(sp, q, acc[1], acc[2])
  \/ \E q \in RecordSeqs : RegRecord(q)
  \/ \E q \in RecordSeqs : InsnExec(q)
  \/ \E q \in InsnSeqs, pc \in Pcs : Insn(q, pc)
  \/ \E q \in InsnSeqs : InsnMalformed(q)
  \/ Complete
  \/ Done

Spec == Init /\ [][Next]_vars

-----------------------------------------------------------------------------
TraceAt(t) == trace[t + 1]

(* ResolveUse's search: std::upper_bound over trace_ on the startDefIndex  *)
(* field, then --it                                                        *)
ResolveTrace(d, field) ==
  LET later == {t \in 0 .. Len(trace) - 1 : d < TraceAt(t)[field]}
  IN (IF later = {} THEN Len(trace) ELSE Min(later)) - 1

TypeOK ==
  /\ Reg!TypeOK /\ Mem!TypeOK
  /\ status \in {"running", "complete", "failed"}
  /\ code \in Seq(Pcs \cup {0})
  /\ trace \in Seq([codeIndex : InsnSeqs \cup {0},
                   regUseStartIndex : Nat, regUseEndIndex : Nat,
                   memUseStartIndex : Nat, memUseEndIndex : Nat,
                   regDefStartIndex : Nat, regDefEndIndex : Nat,
                   memDefStartIndex : Nat, memDefEndIndex : Nat])
  /\ Len(regDefBy) = Len(regDefs) /\ Len(memDefBy) = Len(memDefs)
  /\ Len(regUseBy) = Len(regUses) /\ Len(memUseBy) = Len(memUses)

(***************************************************************************)
(* GetTraceForRegUse/GetTraceForMemUse are right: for every def, the       *)
(* upper_bound search over the start indices that AddTrace recorded finds  *)
(* the trace entry that was open when AddDefs appended it, the catch-all   *)
(* of Ud::Init included.                                                   *)
(***************************************************************************)
ResolveUseCorrect ==
  /\ \A d \in 0 .. Len(regDefs) - 1 :
       ResolveTrace(d, "regDefStartIndex") = regDefBy[d + 1]
  /\ \A d \in 0 .. Len(memDefs) - 1 :
       ResolveTrace(d, "memDefStartIndex") = memDefBy[d + 1]

(* The queries' and dumpers' ranges: GetRegUsesForTrace and               *)
(* GetMemUsesForTrace iterate [start, end) of an entry's use indices, and *)
(* DumpDefs/DumpDefsHtml the same of its def indices                       *)
Span(lo, hi) == lo .. hi - 1
GetRegUsesForTrace(t) == Span(TraceAt(t).regUseStartIndex, TraceAt(t).regUseEndIndex)
GetMemUsesForTrace(t) == Span(TraceAt(t).memUseStartIndex, TraceAt(t).memUseEndIndex)
DefsForTrace(t, field) ==
  CASE field = "reg" -> Span(TraceAt(t).regDefStartIndex, TraceAt(t).regDefEndIndex)
    [] field = "mem" -> Span(TraceAt(t).memDefStartIndex, TraceAt(t).memDefEndIndex)

(* The entries Flush has closed: all but the open one, all once Complete  *)
(* has run                                                                 *)
ClosedEntries ==
  {t \in 0 .. Len(trace) - 1 : t < Len(trace) - 1 \/ status = "complete"}

(***************************************************************************)
(* Every closed trace entry (all of them once Complete has flushed the     *)
(* last) holds exactly the uses and defs appended while it was open, in    *)
(* each address space: what GetRegUsesForTrace, GetMemUsesForTrace and the *)
(* dumpers read back.                                                      *)
(***************************************************************************)
Owned(by, t) == {i \in 0 .. Len(by) - 1 : by[i + 1] = t}

TraceRangesExact ==
  \A t \in ClosedEntries :
    /\ Owned(regUseBy, t) = GetRegUsesForTrace(t)
    /\ Owned(memUseBy, t) = GetMemUsesForTrace(t)
    /\ Owned(regDefBy, t) = DefsForTrace(t, "reg")
    /\ Owned(memDefBy, t) = DefsForTrace(t, "mem")

(***************************************************************************)
(* The spec's temporal monotonicity (section 8, invariant 4): every use    *)
(* resolves to a trace entry strictly before the one that made the use.   *)
(***************************************************************************)
SpecTemporalMonotonicity ==
  /\ \A u \in 0 .. Len(regUses) - 1 :
       ResolveTrace(regUses[u + 1], "regDefStartIndex") < regUseBy[u + 1]
  /\ \A u \in 0 .. Len(memUses) - 1 :
       ResolveTrace(memUses[u + 1], "memDefStartIndex") < memUseBy[u + 1]

(***************************************************************************)
(* Every code_ entry the builder reads exists: a verbose Flush reads       *)
(* code_[codeIndex] of the entry it closes, and Complete's DumpDot and     *)
(* DumpHtml read code_[codeIndex], text_ through it and                    *)
(* disasm_[codeIndex] for every entry, none of them bounds-checked.       *)
(***************************************************************************)
CodeIndicesInBounds ==
  \A t \in ClosedEntries : TraceAt(t).codeIndex < Len(code)
=============================================================================
