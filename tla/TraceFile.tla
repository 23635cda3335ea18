------------------------------ MODULE TraceFile ------------------------------
(***************************************************************************)
(* The trace file as memtrace_ext.cpp reads it: a HEADER TLV whose tag is  *)
(* the magic, then TLV records, each padded to its aligned length.  The    *)
(* byte codec is abstracted away: a record is given by the values its      *)
(* fields decode to, [tag, length, seq], where length is the 16-bit TLV    *)
(* length field and seq the insnSeq field.  A file is                      *)
(*   [magic, hdrLen, recs, cut]                                            *)
(* laid out back to back at the aligned lengths its own length fields      *)
(* give, the last cut bytes missing (a truncated file).  Offsets are byte  *)
(* offsets from the start of the mapping; records are numbered from 1.    *)
(***************************************************************************)
EXTENDS Integers, Sequences, SequencesExt, Codec

CONSTANT MaxSeq   \* UINT32_MAX at the width insnSeq is shrunk to

Seqs == 0 .. MaxSeq

LdStTags == {"LOAD", "STORE", "REG", "GET_REG", "PUT_REG"}
NxTags == {"GET_REG_NX", "PUT_REG_NX"}

(* The visitor overload TraceMm::VisitOne's switch picks for a tag *)
Kind(tag) ==
  CASE tag \in LdStTags -> "LdSt"
    [] tag \in NxTags -> "LdStNx"
    [] tag = "INSN" -> "Insn"
    [] tag = "INSN_EXEC" -> "InsnExec"
    [] tag = "MMAP" -> "Mmap"
    [] OTHER -> "Unknown"

(* The records whose insnSeq a visitor's HandleInsnSeq looks at *)
CarriesSeq(tag) == Kind(tag) \in {"LdSt", "InsnExec", "LdStNx"}

(* TraceMmBase::Visit's switch on the first two bytes: sizeof(W) *)
WordSize(magic) ==
  CASE magic \in {"M4", "4M"} -> 4
    [] magic \in {"M8", "8M"} -> 8
    [] OTHER -> 0

(* TraceMmBase::Visit's switch on data[0] << 8 | data[1]: the magic the   *)
(* first two bytes of the mapping spell, "XX" for any other pair          *)
MagicName(b) ==
  CASE b = << 77, 52 >> -> "M4"   \* 'M' << 8 | '4'
    [] b = << 77, 56 >> -> "M8"
    [] b = << 52, 77 >> -> "4M"
    [] b = << 56, 77 >> -> "8M"
    [] OTHER -> "XX"

(* ... and the byte order E of the TraceMm<E, W> it creates *)
Endianness(magic) ==
  CASE magic \in {"M4", "M8"} -> "Big"
    [] magic \in {"4M", "8M"} -> "Little"
    [] OTHER -> "None"

(* The Tag enumerators' values; any other tag is one none of them has *)
TagCode(tag) ==
  CASE tag = "LOAD" -> 19532         \* 0x4c4c
    [] tag = "STORE" -> 21331        \* 0x5353
    [] tag = "REG" -> 21074          \* 0x5252
    [] tag = "INSN" -> 18761         \* 0x4949
    [] tag = "GET_REG" -> 18247      \* 0x4747
    [] tag = "PUT_REG" -> 20560      \* 0x5050
    [] tag = "INSN_EXEC" -> 22616    \* 0x5858
    [] tag = "GET_REG_NX" -> 26471   \* 0x6767
    [] tag = "PUT_REG_NX" -> 28784   \* 0x7070
    [] tag = "MMAP" -> 19789         \* 0x4d4d
    [] OTHER -> 16961                \* 0x4241

(* The spec (4.2): the HEADER TLV's tag is the magic, the uint16           *)
(* 'M' << 8 | '0' + sizeof(W) written in the file's byte order             *)
HeaderTag(w) == 77 * 256 + 48 + w

TlvFixedLength == 4      \* Tlv::kFixedLength: tag and length
HeaderFixedLength == 6   \* HeaderEntry::kFixedLength: and the machine type

(* Tlv::GetAlignedLength: the length rounded up to a multiple of w *)
AlignedLength(len, w) == ((len + w - 1) \div w) * w

(***************************************************************************)
(* The bytes each decoder reads from the start of its record: its fixed    *)
(* fields, where GetValue starts and GetSize subtracts.                    *)
(***************************************************************************)
FixedLength(kind, w) ==
  CASE kind = "LdSt" -> TlvFixedLength + 4 + w          \* insnSeq, addr
    [] kind = "Insn" -> TlvFixedLength + 4 + w          \* insnSeq, pc
    [] kind = "InsnExec" -> TlvFixedLength + 4          \* insnSeq
    [] kind = "LdStNx" -> TlvFixedLength + 4 + 2 * w    \* insnSeq, addr, size
    [] kind = "Mmap" -> 4 * w                           \* start, end, flags
    [] OTHER -> TlvFixedLength

Word(f) == WordSize(f.magic)
HdrEnd(f) == AlignedLength(f.hdrLen, Word(f))

(* Offset of record i; of the end of the last record for i = Len + 1 *)
RecStart(f, i) ==
  FoldLeft(LAMBDA acc, r : acc + AlignedLength(r.length, Word(f)),
           HdrEnd(f), SubSeq(f.recs, 1, i - 1))

(* length_: the size of the mapping *)
FileLength(f) == RecStart(f, Len(f.recs) + 1) - f.cut

(* The record whose tag the cursor c reads: a zero-length record and the   *)
(* one after it start at the same offset, and the cursor reads the first.  *)
RecAt(f, c) == Min({i \in 1 .. Len(f.recs) : RecStart(f, i) = c})

(* TraceMm::Have at cursor c *)
Have(f, c, n) == c + n <= FileLength(f)

(* mutant: only the TLV header is checked before dispatch *)
TlvOkHeaderOnly(f, c) == Have(f, c, TlvFixedLength)

(* VisitOne's two checks before it dispatches: a whole TLV header, and    *)
(* the whole aligned record, lie before end_                              *)
TlvOk(f, c) ==
  /\ Have(f, c, TlvFixedLength)
  /\ Have(f, c, AlignedLength(f.recs[RecAt(f, c)].length, Word(f)))

(* Where Advance(GetAlignedLength()) leaves the cursor *)
NextCur(f, c) == c + AlignedLength(f.recs[RecAt(f, c)].length, Word(f))

(* GetInsnSeq reads 4 bytes at offset 4: beyond a shorter record it reads  *)
(* whatever follows, any value                                             *)
SeqRead(f, i) ==
  IF f.recs[i].length >= TlvFixedLength + 4 THEN {f.recs[i].seq} ELSE Seqs

(***************************************************************************)
(* TraceMmBase::Load: MmapFile with minSize 2, the magic switch, then      *)
(* TraceMm::Init: Have(HeaderEntry::kFixedLength) and Advance past the     *)
(* header's aligned length.                                                *)
(***************************************************************************)
LoadOk(f) ==
  /\ WordSize(f.magic) # 0
  /\ FileLength(f) >= 2
  /\ Have(f, 0, HeaderFixedLength)
  /\ Have(f, 0, HdrEnd(f))
=============================================================================
