------------------------------ MODULE TraceIter ------------------------------
(***************************************************************************)
(* The Python Trace object: a TraceMm<E, W> that Trace.load returned, and  *)
(* the calls __next__ (TraceMm::Next) and seek_insn (TraceMm::SeekInsn).   *)
(* SeekInsn's loop is one step per VisitOne, so its termination is a       *)
(* property; a call runs to its end before Python makes the next one.     *)
(*                                                                         *)
(* entryIndex_ is a size_t shrunk to EntryBits bits.  Seek::insnIndex     *)
(* starts at SIZE_MAX, which no uint32 target equals; it is NoIndex here. *)
(***************************************************************************)
EXTENDS TraceFile

CONSTANTS
  Files,      \* trace files Trace.load is given
  Targets,    \* instruction indices seek_insn is called with
  EntryBits   \* width of size_t

EntryMod == 2^EntryBits
NoIndex == -1   \* SIZE_MAX before the first instruction

VARIABLES
  file,         \* the mapped file (fixed once loaded)
  cur,          \* cur_ as an offset
  entryIndex,   \* entryIndex_
  op,           \* "none" (load failed), "idle", "seek" (inside SeekInsn)
  target,       \* SeekInsn's index argument
  insnIndex,    \* Seek::insnIndex
  prevInsnSeq,  \* Seek::prevInsnSeq
  result,       \* how the last call ended
  handed        \* history: the record last handed to a visitor, 0 if none

vars == <<file, cur, entryIndex, op, target, insnIndex, prevInsnSeq, result, handed>>

Inc(i) == (i + 1) % EntryMod

(* TraceMmBase::Load; a file that fails to load leaves no Trace object *)
Init ==
  /\ file \in Files
  /\ op = IF LoadOk(file) THEN "idle" ELSE "none"
  /\ cur = IF LoadOk(file) THEN HdrEnd(file) ELSE 0
  /\ entryIndex = 0
  /\ target = 0 /\ insnIndex = NoIndex /\ prevInsnSeq = MaxSeq
  /\ result = "none"
  /\ handed = 0

AtEnd == cur = FileLength(file)

(* VisitOne would return -EINVAL: truncated TLV or unknown tag *)
Malformed == ~TlvOk(file, cur) \/ Kind(file.recs[RecAt(file, cur)].tag) = "Unknown"

(* __next__ at end_: StopIteration *)
NextStop ==
  /\ op = "idle" /\ AtEnd
  /\ result' = "stop"
  /\ UNCHANGED <<file, cur, entryIndex, op, target, insnIndex, prevInsnSeq, handed>>

(* __next__: VisitOne hands the record to TraceEntry2Py and advances *)
NextEntry ==
  /\ op = "idle" /\ ~AtEnd /\ ~Malformed
  /\ handed' = RecAt(file, cur)
  /\ cur' = NextCur(file, cur)
  /\ entryIndex' = Inc(entryIndex)
  /\ result' = "entry"
  /\ UNCHANGED <<file, op, target, insnIndex, prevInsnSeq>>

(* __next__ on a malformed record: runtime_error, the cursor stays *)
NextError ==
  /\ op = "idle" /\ ~AtEnd /\ Malformed
  /\ result' = "error"
  /\ UNCHANGED <<file, cur, entryIndex, op, target, insnIndex, prevInsnSeq, handed>>

(* SeekInsn: rewind past the header with a fresh Seek visitor *)
SeekInsn(k) ==
  /\ op = "idle"
  /\ op' = "seek" /\ target' = k
  /\ cur' = HdrEnd(file) /\ entryIndex' = 0
  /\ insnIndex' = NoIndex /\ prevInsnSeq' = MaxSeq
  /\ result' = "pending"
  /\ UNCHANGED <<file, handed>>

(* mutant: the Seek visitor's INSN overload calls HandleInsnSeq too *)
SeekIndexInsnToo(s) ==
  IF (CarriesSeq(file.recs[RecAt(file, cur)].tag) \/ file.recs[RecAt(file, cur)].tag = "INSN")
     /\ s # prevInsnSeq
    THEN insnIndex + 1 ELSE insnIndex

(* Seek::HandleInsnSeq for the record at the cursor, given the seq read *)
SeekIndex(s) ==
  IF CarriesSeq(file.recs[RecAt(file, cur)].tag) /\ s # prevInsnSeq
    THEN insnIndex + 1 ELSE insnIndex

SeekPrev(s) ==
  IF CarriesSeq(file.recs[RecAt(file, cur)].tag) THEN s ELSE prevInsnSeq

(* mutant: cur_ = prev restored on every iteration, not only on a match *)
SeekStepRestored ==
  /\ op = "seek" /\ ~AtEnd /\ ~Malformed
  /\ \E s \in SeqRead(file, RecAt(file, cur)) :
       /\ SeekIndex(s) # target
       /\ insnIndex' = SeekIndex(s) /\ prevInsnSeq' = SeekPrev(s)
  /\ handed' = RecAt(file, cur)
  /\ entryIndex' = Inc(entryIndex)
  /\ UNCHANGED <<file, cur, op, target, result>>

(* One VisitOne of the loop that does not reach the target *)
SeekStep ==
  /\ op = "seek" /\ ~AtEnd /\ ~Malformed
  /\ \E s \in SeqRead(file, RecAt(file, cur)) :
       /\ SeekIndex(s) # target
       /\ insnIndex' = SeekIndex(s) /\ prevInsnSeq' = SeekPrev(s)
  /\ handed' = RecAt(file, cur)
  /\ cur' = NextCur(file, cur) /\ entryIndex' = Inc(entryIndex)
  /\ UNCHANGED <<file, op, target, result>>

(* mutant: the match restores cur_ but not entryIndex_ *)
SeekFoundNoDecrement ==
  /\ op = "seek" /\ ~AtEnd /\ ~Malformed
  /\ \E s \in SeqRead(file, RecAt(file, cur)) :
       /\ SeekIndex(s) = target
       /\ insnIndex' = SeekIndex(s) /\ prevInsnSeq' = SeekPrev(s)
  /\ handed' = RecAt(file, cur)
  /\ entryIndex' = Inc(entryIndex)
  /\ op' = "idle" /\ result' = "found"
  /\ UNCHANGED <<file, cur, target>>

(* The VisitOne that reaches it: cur_ = prev and entryIndex_-- undo the   *)
(* advance                                                                 *)
SeekFound ==
  /\ op = "seek" /\ ~AtEnd /\ ~Malformed
  /\ \E s \in SeqRead(file, RecAt(file, cur)) :
       /\ SeekIndex(s) = target
       /\ insnIndex' = SeekIndex(s) /\ prevInsnSeq' = SeekPrev(s)
  /\ handed' = RecAt(file, cur)
  /\ op' = "idle" /\ result' = "found"
  /\ UNCHANGED <<file, cur, entryIndex, target>>

(* cur_ == end_: invalid_argument("No such insn") *)
SeekNotFound ==
  /\ op = "seek" /\ AtEnd
  /\ op' = "idle" /\ result' = "notfound"
  /\ UNCHANGED <<file, cur, entryIndex, target, insnIndex, prevInsnSeq, handed>>

(* VisitOne failed: runtime_error, the cursor left at the bad record *)
SeekError ==
  /\ op = "seek" /\ ~AtEnd /\ Malformed
  /\ op' = "idle" /\ result' = "error"
  /\ UNCHANGED <<file, cur, entryIndex, target, insnIndex, prevInsnSeq, handed>>

(* Trace.load returned None: there is nothing to call *)
NoTrace == op = "none" /\ UNCHANGED vars

SeekLoop == SeekStep \/ SeekFound \/ SeekNotFound \/ SeekError

Next ==
  \/ NextStop \/ NextEntry \/ NextError
  \/ \E k \in Targets : SeekInsn(k)
  \/ SeekLoop
  \/ NoTrace

Spec == Init /\ [][Next]_vars

(* SeekInsn's loop runs on: nothing else runs while Python waits for it *)
FairSpec == Spec /\ WF_vars(SeekLoop)

-----------------------------------------------------------------------------
TypeOK ==
  /\ op \in {"none", "idle", "seek"}
  /\ result \in {"none", "pending", "entry", "stop", "error", "found", "notfound"}
  /\ entryIndex \in 0 .. EntryMod - 1
  /\ insnIndex \in {NoIndex} \cup Nat /\ prevInsnSeq \in Seqs
  /\ handed \in 0 .. Len(file.recs)
  /\ op # "none" => cur \in HdrEnd(file) .. FileLength(file)

(***************************************************************************)
(* entryIndex_ counts the records before the cursor: after any sequence   *)
(* of __next__ and seek_insn calls, errors and StopIteration included,    *)
(* the cursor is at record entryIndex_ (0-based), so the index Python sees *)
(* on an entry is the record's position in the file.  SeekInsn's rewind    *)
(* and its cur_ = prev / entryIndex_-- undo keep the two together.         *)
(***************************************************************************)
CursorAtEntry ==
  op # "none" => cur = RecStart(file, entryIndex + 1)

(* The spec's instruction starts (section 4.2): records carrying an       *)
(* insnSeq different from the previous such record's                    *)
SeqCarrying(f) == {i \in 1 .. Len(f.recs) : CarriesSeq(f.recs[i].tag)}
IsInsnStart(f, i) ==
  /\ i \in SeqCarrying(f)
  /\ LET before == {j \in SeqCarrying(f) : j < i}
     IN before = {} \/ f.recs[Max(before)].seq # f.recs[i].seq
InsnStarts(f) == SetToSortSeq({i \in 1 .. Len(f.recs) : IsInsnStart(f, i)}, <)

(***************************************************************************)
(* seek_insn(k) leaves the cursor at the first record of instruction k,   *)
(* so the next __next__ yields it (the spec's seek consistency), and says *)
(* "No such insn" only when the stream has no instruction k.              *)
(***************************************************************************)
SeekLandsOnInsn ==
  /\ result = "found" =>
       /\ target < Len(InsnStarts(file))
       /\ RecAt(file, cur) = InsnStarts(file)[target + 1]
  /\ result = "notfound" => target >= Len(InsnStarts(file))

(***************************************************************************)
(* Every seek_insn call returns: the VisitOne loop of SeekInsn reaches     *)
(* the target, end_ or a malformed record.                                 *)
(***************************************************************************)
SeekReturns == op = "seek" ~> op = "idle"

(***************************************************************************)
(* The spec (section 7): a truncated TLV is a format error.  No record    *)
(* shorter than its decoder's fixed fields reaches a visitor, so no field  *)
(* is read past the record and GetSize never wraps.                       *)
(***************************************************************************)
DecodedRecordWellFormed ==
  handed # 0 =>
    file.recs[handed].length >= FixedLength(Kind(file.recs[handed].tag), Word(file))

(***************************************************************************)
(* TraceFile's abstraction is sound on either host: for the file the      *)
(* tracer wrote in its byte order (the magic as the HEADER's uint16 tag,   *)
(* then each record's tag, length and insnSeq), the byte switch of        *)
(* TraceMmBase::Visit recovers the magic, and RawInt<E, T> through         *)
(* IntConversions reads every field back as the value the model gives it, *)
(* whether kHostEndianness is little or big.                               *)
(***************************************************************************)
ReadBack(e, host, n, k) == Num(GetValue(e, host, Encoded(UInt(n, k), e)))

FieldsDecode ==
  LET e == Endianness(file.magic) IN
  e # "None" =>
    /\ MagicName(Encoded(UInt(HeaderTag(Word(file)), 2), e)) = file.magic
    /\ \A host \in ByteOrders :
         /\ ReadBack(e, host, file.hdrLen, 2) = file.hdrLen
         /\ \A r \in ToSet(file.recs) :
              /\ ReadBack(e, host, TagCode(r.tag), 2) = TagCode(r.tag)
              /\ ReadBack(e, host, r.length, 2) = r.length
              /\ CarriesSeq(r.tag) => ReadBack(e, host, r.seq, 4) = r.seq

(* mutant: the INSN_EXEC overload does not call HandleInsnSeq *)
UdHandlesSeqNoExec(tag) == Kind(tag) \in {"LdSt", "LdStNx"}

(* The records whose Ud::operator() overload calls HandleInsnSeq *)
UdHandlesSeq(tag) == Kind(tag) \in {"LdSt", "InsnExec", "LdStNx"}

(* The records of f at which a Ud visiting it opens trace entries 1, 2,   *)
(* ...: HandleInsnSeq compares each insnSeq with trace_.back().codeIndex,  *)
(* which is 0 for the catch-all entry Ud::Init opens                       *)
UdOpens(f) ==
  LET step(acc, i) ==
        IF UdHandlesSeq(f.recs[i].tag) /\ f.recs[i].seq # acc.back
          THEN [back |-> f.recs[i].seq, opened |-> Append(acc.opened, i)]
          ELSE acc
  IN FoldLeft(step, [back |-> 0, opened |-> << >>], [i \in 1 .. Len(f.recs) |-> i]).opened

(***************************************************************************)
(* The trace's and the ud graph's numberings agree: after seek_insn(k)    *)
(* finds its instruction, the record at the cursor is the one at which a  *)
(* Ud built from the same file opens trace entry k + 1 (entry 0 being the *)
(* catch-all), though Seek starts from prevInsnSeq UINT32_MAX and Ud from  *)
(* codeIndex 0, and each has its own visitor overloads.                   *)
(***************************************************************************)
SeekMatchesUdTrace ==
  result = "found" =>
    /\ target < Len(UdOpens(file))
    /\ RecAt(file, cur) = UdOpens(file)[target + 1]
=============================================================================
