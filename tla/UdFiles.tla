------------------------------ MODULE UdFiles ------------------------------
(***************************************************************************)
(* The persisted ud graph at one path template: the MmVector files a Ud    *)
(* built with a binary path writes, the header file DumpBinary writes last, *)
(* and UdBase::Load, which reopens them.  Builds and loads run one after   *)
(* another; any build may fail (its destructors run) or its process may    *)
(* die (nothing more happens to the files).                                *)
(*                                                                         *)
(* Three files stand for the ten: trace (InsnInTrace, 36 bytes), uses      *)
(* (uint32) and defs (Def<W>, 2W bytes); code, text and the mem- files are *)
(* created, grown and truncated the same way, and partial-uses lives in    *)
(* PartialUses.tla.  A trace row keeps only its use and def ranges; a use  *)
(* row is its def index; a def row is D.                                   *)
(***************************************************************************)
EXTENDS MmVector, SequencesExt

Dis == INSTANCE Disasm

CONSTANTS
  Words,      \* sizeof(W) of the traces built
  Expected,   \* expectedInsnCount values Ud::Init is given
  Machines,   \* machine types of the traces built
  HostEndianness,  \* kHostEndianness of the analyzer
  MaxRows,    \* entries a build appends to one file
  MaxBuilds   \* builds run on the path

Files == << "trace", "uses", "defs" >>   \* the order Ud::Init opens them
FileSet == ToSet(Files)

ElemSize(f, w) ==
  CASE f = "trace" -> 36
    [] f = "uses" -> 4
    [] f = "defs" -> 2 * w

NoHeader == [file |-> "absent"]    \* no header file
EmptyHeader == [file |-> "empty"]  \* fopen("wb") truncated it, fwrite has not happened

(* DumpBinary's magic: the uint16 ('M' << 8) | ('0' + sizeof(W)) stored  *)
(* in host byte order, as its two bytes                                   *)
Magic(w) ==
  IF HostEndianness = "Little" THEN << ToString(w), "M" >> ELSE << "M", ToString(w) >>

(* mutant: the cases' host checks swapped *)
LoadWordSwapped(magic) ==
  CASE magic = << "M", "4" >> /\ HostEndianness = "Little" -> 4
    [] magic = << "M", "8" >> /\ HostEndianness = "Little" -> 8
    [] magic = << "4", "M" >> /\ HostEndianness = "Big" -> 4
    [] magic = << "8", "M" >> /\ HostEndianness = "Big" -> 8
    [] OTHER -> 0

(* UdBase::Load's switch on magic[0] << 8 | magic[1]: the sizeof(W) of   *)
(* the Ud it creates, 0 for none                                          *)
LoadWord(magic) ==
  CASE magic = << "M", "4" >> /\ HostEndianness = "Big" -> 4
    [] magic = << "M", "8" >> /\ HostEndianness = "Big" -> 8
    [] magic = << "4", "M" >> /\ HostEndianness = "Little" -> 4
    [] magic = << "8", "M" >> /\ HostEndianness = "Little" -> 8
    [] OTHER -> 0

Written(h) == h \notin {NoHeader, EmptyHeader}

VARIABLES
  disk,        \* file name -> file
  header,      \* the header file: NoHeader, EmptyHeader or a BinaryHeader
  pc,          \* the running call: "idle", Ud::Init ("open", "map",
               \* "reserve"), the visit ("run"), DumpBinary ("header"),
               \* or a graph Load returned ("loaded")
  bw,          \* sizeof(W) of the running build
  exp,         \* its expectedInsnCount
  bm,          \* its machineType_ and endianness_ (of the traced program)
  fi,          \* index in Files of the vector Ud::Init is at
  cap,         \* capacity_ of the process's vectors
  loadW,       \* the W the loaded graph was instantiated with
  builds,      \* builds started
  lastBuild,   \* history: how the last build ended
  built        \* history: the rows of the last completed build

vars == <<disk, header, pc, bw, exp, bm, fi, cap, loadW, builds, lastBuild, built>>

D == "D"
TraceRow(us, ue, ds, de) == [us |-> us, ue |-> ue, ds |-> ds, de |-> de]

Init ==
  /\ disk = [f \in FileSet |-> NoFile]
  /\ header = NoHeader
  /\ pc = "idle" /\ bw = 0 /\ exp = 0 /\ bm = <<"none", "none">> /\ fi = 1
  /\ cap = [f \in FileSet |-> 0]
  /\ loadW = 0 /\ builds = 0
  /\ lastBuild = "none"
  /\ built = [f \in FileSet |-> << >>]

(* The vectors whose storage_ is set, so whose destructor truncates *)
Mapped ==
  IF pc \in {"open", "map"} THEN {Files[i] : i \in 1 .. fi - 1} ELSE FileSet

(* The destructors of the vectors in fs, for a graph of word size w *)
CloseAll(fs, w) ==
  [f \in FileSet |-> IF f \in fs THEN Closed(disk[f], ElemSize(f, w)) ELSE disk[f]]

(* One push_back on file f of the map d with capacities c, as a pair *)
Push(d, c, f, v) ==
  << [d EXCEPT ![f] = PushBackFile(d[f], c[f], v, ElemSize(f, bw))],
     [c EXCEPT ![f] = PushBackCap(d[f], c[f])] >>

(* One reserve(n) on file f, as a pair *)
Reserve(d, c, f, n) ==
  << [d EXCEPT ![f] = ReserveFile(d[f], c[f], n, ElemSize(f, bw))],
     [c EXCEPT ![f] = ReserveCap(c[f], n)] >>

(* ud_file(..., binary): TraceMm::Visit constructs the Ud visitor *)
StartBuild(w, e, m, en) ==
  /\ pc = "idle" /\ builds < MaxBuilds
  /\ pc' = "open" /\ bw' = w /\ exp' = e /\ bm' = <<m, en>> /\ fi' = 1
  /\ cap' = [f \in FileSet |-> 0]
  /\ builds' = builds + 1 /\ lastBuild' = "running"
  /\ UNCHANGED <<disk, header, loadW, built>>

(* MmVector::Init(CreatePersistent) of the next file: open with O_TRUNC *)
OpenFile ==
  /\ pc = "open"
  /\ disk' = [disk EXCEPT ![Files[fi]] = Truncated(bw)]
  /\ pc' = "map"
  /\ UNCHANGED <<header, bw, exp, bm, fi, cap, loadW, builds, lastBuild, built>>

(* InitCreated of that file; after the last, on to the reserves *)
MapFile ==
  /\ pc = "map"
  /\ disk' = [disk EXCEPT ![Files[fi]] = Created(@)]
  /\ IF fi < Len(Files) THEN pc' = "open" /\ fi' = fi + 1
                        ELSE pc' = "reserve" /\ fi' = fi
  /\ UNCHANGED <<header, bw, exp, bm, cap, loadW, builds, lastBuild, built>>

(* The rest of Ud::Init: UdState::Init's reserves, the catch-all          *)
(* (trace_.reserve, AddTrace of entry 0, AddDef(0, max)), and last         *)
(* disasmEngine_.Init: if it fails, Init returns the error and the         *)
(* vectors' destructors run                                                *)
InitRest ==
  LET r1 == Reserve(disk, cap, "uses", (exp * 7) \div 4)
      r2 == Reserve(r1[1], r1[2], "defs", (exp * 5) \div 3)
      r3 == Reserve(r2[1], r2[2], "trace", exp)
      r4 == Push(r3[1], r3[2], "trace", TraceRow(0, 0, 0, 0))
      r5 == Push(r4[1], r4[2], "defs", D)
  IN /\ pc = "reserve"
     /\ cap' = r5[2]
     /\ \E r \in Dis!DisasmInit(bm[1], bm[2], bw) :
          IF r = 0 THEN disk' = r5[1] /\ pc' = "run" /\ UNCHANGED lastBuild
          ELSE /\ disk' = [f \in FileSet |-> Closed(r5[1][f], ElemSize(f, bw))]
               /\ pc' = "idle" /\ lastBuild' = "failed"
     /\ UNCHANGED <<header, bw, exp, bm, fi, loadW, builds, built>>

Count(f) == Len(disk[f].rows)

(* AddUses appending a use of a live def *)
UseRecord ==
  /\ pc = "run" /\ Count("uses") < MaxRows
  /\ \E d \in 0 .. Count("defs") - 1 :
       LET r == Push(disk, cap, "uses", d) IN disk' = r[1] /\ cap' = r[2]
  /\ UNCHANGED <<header, pc, bw, exp, bm, fi, loadW, builds, lastBuild, built>>

(* AddDefs appending a def *)
DefRecord ==
  /\ pc = "run" /\ Count("defs") < MaxRows
  /\ LET r == Push(disk, cap, "defs", D) IN disk' = r[1] /\ cap' = r[2]
  /\ UNCHANGED <<header, pc, bw, exp, bm, fi, loadW, builds, lastBuild, built>>

(* Flush: the end indices of trace_.back() *)
Flush(d) ==
  LET t == d["trace"].rows
  IN [d EXCEPT !["trace"].rows =
        [t EXCEPT ![Len(t)].ue = Len(d["uses"].rows),
                  ![Len(t)].de = Len(d["defs"].rows)]]

(* HandleInsnSeq on a new instruction: Flush, then AddTrace *)
InsnRecord ==
  /\ pc = "run" /\ Count("trace") < MaxRows
  /\ LET r == Push(Flush(disk), cap, "trace",
                   TraceRow(Count("uses"), 0, Count("defs"), 0))
     IN disk' = r[1] /\ cap' = r[2]
  /\ UNCHANGED <<header, pc, bw, exp, bm, fi, loadW, builds, lastBuild, built>>

(* mutant: Complete goes straight to the dumps *)
CompleteNoFlush ==
  /\ pc = "run"
  /\ header' = EmptyHeader /\ pc' = "header"
  /\ UNCHANGED <<disk, bw, exp, bm, fi, cap, loadW, builds, lastBuild, built>>

(* Complete: Flush, the text dumps, then DumpBinary's fopen("wb") *)
Complete ==
  /\ pc = "run"
  /\ disk' = Flush(disk)
  /\ header' = EmptyHeader /\ pc' = "header"
  /\ UNCHANGED <<bw, exp, bm, fi, cap, loadW, builds, lastBuild, built>>

(* fwrite and fclose of the header; Visit returns and the vectors' *)
(* destructors truncate the files                                  *)
HeaderWritten ==
  /\ pc = "header"
  /\ header' = [magic |-> Magic(bw), machineType |-> bm[1], endianness |-> bm[2]]
  /\ disk' = CloseAll(FileSet, bw)
  /\ pc' = "idle" /\ lastBuild' = "complete"
  /\ built' = [f \in FileSet |-> disk[f].rows]
  /\ UNCHANGED <<bw, exp, bm, fi, cap, loadW, builds>>

(* An error return (open, ftruncate or mmap failing, a malformed record,   *)
(* TooManyOverlaps, bad_alloc from reserve): the destructors of the       *)
(* vectors mapped so far run, and no header is written                     *)
BuildFails ==
  /\ pc \in {"open", "map", "reserve", "run"}
  /\ disk' = CloseAll(Mapped, bw)
  /\ pc' = "idle" /\ lastBuild' = "failed"
  /\ UNCHANGED <<header, bw, exp, bm, fi, cap, loadW, builds, built>>

(* The process dies: no destructor runs *)
Crash ==
  /\ pc \notin {"idle", "loaded"}
  /\ pc' = "idle" /\ lastBuild' = "crashed"
  /\ UNCHANGED <<disk, header, bw, exp, bm, fi, cap, loadW, builds, built>>

(***************************************************************************)
(* UdBase::Load: read the header, pick Ud<W> by its magic, Ud::Init in     *)
(* OpenExisting mode, which opens the files in order and then initialises *)
(* the disassembler for the header's machine.  If a file cannot be        *)
(* opened or the disassembler fails, Init fails, the Ud is deleted and    *)
(* the vectors opened so far are truncated to their size at that W.       *)
(***************************************************************************)
FirstUnopenable == {i \in 1 .. Len(Files) : ~Openable(disk[Files[i]])}

Load ==
  LET w == LoadWord(header.magic) IN
  /\ pc = "idle" /\ Written(header) /\ w # 0
  /\ IF FirstUnopenable = {}
       THEN \E r \in Dis!DisasmInit(header.machineType, header.endianness, w) :
              IF r = 0 THEN /\ pc' = "loaded" /\ loadW' = w
                            /\ cap' = [f \in FileSet |-> Count(f)]
                            /\ UNCHANGED disk
              ELSE /\ disk' = CloseAll(FileSet, w)
                   /\ UNCHANGED <<pc, loadW, cap>>
       ELSE /\ disk' = CloseAll({Files[i] : i \in 1 .. Min(FirstUnopenable) - 1}, w)
            /\ UNCHANGED <<pc, loadW, cap>>
  /\ UNCHANGED <<header, bw, exp, bm, fi, builds, lastBuild, built>>

(* The Python object is dropped: ~Ud truncates every file at loadW *)
Unload ==
  /\ pc = "loaded"
  /\ disk' = CloseAll(FileSet, loadW)
  /\ pc' = "idle"
  /\ UNCHANGED <<header, bw, exp, bm, fi, cap, loadW, builds, lastBuild, built>>

(* No more builds: only loads remain, or nothing at all *)
Idle == pc = "idle" /\ builds = MaxBuilds /\ UNCHANGED vars

Next ==
  \/ \E w \in Words, e \in Expected, m \in Machines, en \in Dis!Endiannesses :
       StartBuild(w, e, m, en)
  \/ OpenFile \/ MapFile \/ InitRest
  \/ UseRecord \/ DefRecord \/ InsnRecord
  \/ Complete \/ HeaderWritten
  \/ BuildFails \/ Crash
  \/ Load \/ Unload
  \/ Idle

Spec == Init /\ [][Next]_vars

-----------------------------------------------------------------------------
TypeOK ==
  /\ header \in {NoHeader, EmptyHeader} \cup
       [magic : {Magic(w) : w \in Words}, machineType : Machines,
        endianness : Dis!Endiannesses]
  /\ pc \in {"idle", "open", "map", "reserve", "run", "header", "loaded"}
  /\ \A f \in FileSet : disk[f].bytes \in Nat /\ cap[f] \in Nat
  /\ builds \in 0 .. MaxBuilds
  /\ lastBuild \in {"none", "running", "complete", "failed", "crashed"}

(***************************************************************************)
(* Every vector a build has mapped is backed by its file: size <=         *)
(* capacity_, and the file is at least kOverhead + capacity_ slots long,   *)
(* through reserve, Grow and push_back, so no store of the build faults.  *)
(***************************************************************************)
CapacityBacked ==
  pc \in {"open", "map", "reserve", "run", "header"} =>
    \A f \in Mapped :
      /\ Count(f) <= cap[f]
      /\ Overhead + cap[f] * ElemSize(f, bw) <= disk[f].bytes

(* What queries on a loaded graph dereference: every file was written by  *)
(* a Ud<W> of the loaded W and every mapped byte is in it, trace_ is       *)
(* non-empty (ResolveUse decrements upper_bound's result), each trace      *)
(* entry's ranges lie within uses_ and defs_, and each use names a def.   *)
GraphSafe ==
  /\ \A f \in FileSet : disk[f].w = loadW
  /\ \A f \in FileSet : MappedBytes(disk[f], ElemSize(f, loadW)) <= disk[f].bytes
  /\ Count("trace") >= 1
  /\ \A t \in ToSet(disk["trace"].rows) :
       t.ue <= Count("uses") /\ t.ds <= Count("defs") /\ t.de <= Count("defs")
  /\ \A u \in ToSet(disk["uses"].rows) : u < Count("defs")

(* Each trace entry owns the uses and defs appended while it was open: the *)
(* ranges tile uses_ and defs_, the last entry ending at their sizes.      *)
TraceTiles ==
  LET t == disk["trace"].rows
      n == Len(t)
  IN /\ \A i \in 1 .. n - 1 : t[i].ue = t[i + 1].us /\ t[i].de = t[i + 1].ds
     /\ t[n].ue = Count("uses") /\ t[n].de = Count("defs")

(***************************************************************************)
(* Round trip (the spec's 8.5): a Load after a build that completed --     *)
(* whatever failed or crashed builds came before it, whatever W they used *)
(* -- maps files written at the header's W, every byte of them in the     *)
(* file, holding exactly the rows that build wrote, every trace entry      *)
(* closed by Flush.                                                        *)
(***************************************************************************)
RoundTrip ==
  pc = "loaded" /\ lastBuild = "complete" =>
    /\ \A f \in FileSet : disk[f].rows = built[f]
    /\ GraphSafe
    /\ TraceTiles

(***************************************************************************)
(* The spec (7): the graph-open path never returns a partial handle, and   *)
(* a failed build leaves the output "undefined but not unsafe": every      *)
(* graph Load returns is safe to query.                                    *)
(***************************************************************************)
LoadedGraphSafe == pc = "loaded" => GraphSafe

(***************************************************************************)
(* Reopen (the spec's 8.5 and 4.8): while the last build's graph is on    *)
(* disk -- loads that failed on cs_open or were unloaded since included,  *)
(* each truncating the files in their destructors -- a Load on this host  *)
(* succeeds: DumpBinary's host-order magic decodes to a Ud<W> of the      *)
(* build's W, every file opens, and the disassembler accepts the header's *)
(* machine, endianness and W.                                             *)
(***************************************************************************)
GraphReopens ==
  pc = "idle" /\ lastBuild = "complete" =>
    /\ Written(header)
    /\ LoadWord(header.magic) = bw
    /\ FirstUnopenable = {}
    /\ 0 \in Dis!DisasmInit(header.machineType, header.endianness, bw)
=============================================================================
