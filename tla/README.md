# TLA+ models of memtrace's ud-graph builder

These modules model `src/memtrace/python/memtrace_ext/memtrace_ext.cpp`, the
C++ extension that reads a memtrace trace file and builds the use-def
("ud") graph of the traced program.

## The system

The extension has these parts:

| Part | Code | What it does |
|---|---|---|
| Endian codec | `BSwap`, `IntConversions`, `RawInt` | reads fixed-width integers in the trace's byte order |
| TLV framing, decoders | `Tlv`, `*Entry` | tag/length records aligned to the word size; accessors for each record kind |
| Trace iterator | `TraceMm`, `TraceMmBase::Visit`, `Seek` | walks the mmapped file (`Visit`, `VisitOne`, `Next`, `SeekInsn`) and hands each record to a visitor |
| Dumper, `TraceEntry2Py` | visitors | print records, or convert them to Python objects |
| `MmVector` | | a vector backed by an mmapped file (temporary or persistent) |
| Prime search | `GetFirstPrimeGreaterThanOrEqualTo` | sizes the partial-use hash table |
| Partial-use table | `PartialUses` | open-addressed, linearly probed hash table from use index to the byte range actually used |
| `UdState` | | one address space (registers or memory): the live-writer map `addressSpace_` (end address → start, def index), `uses_`, `defs_`, `partialUses_` |
| `Ud` builder | `Ud` | a visitor. It owns `trace_` (one entry per executed instruction), `code_` (one entry per static instruction), and two `UdState`s. It dispatches every record to them. |
| Queries | `GetTraceFor*Use`, `Get*UsesForTrace`, ... | read the built tables; `ResolveUse` finds a def's trace entry by `upper_bound` |
| Persistence | `DumpBinary`, `UdBase::Load`, `PathWithPlaceholder` | write a header next to the persistent vectors; reopen them |
| Disassembler | `Disasm` | `Init` picks the capstone arch and mode for (machine, endianness, word size); `DisasmStr` decodes instruction text |
| Dumpers, Python bindings | | text and glue only |

How the parts interact:

- `TraceMm::Visit` feeds every record to `Ud`.
- For each record, `Ud` calls `HandleInsnSeq`. When the record's `insnSeq` differs from the open trace entry's, this flushes the open entry (sets its end indices) and opens a new one.
- Then `Ud` calls `AddUses` for loads and register reads, and `AddDefs` for stores and register writes.
- `AddUses` reads the live-writer map. It records one use per live interval it overlaps, and records a partial use when the overlap is smaller than the def.
- `AddDefs` cuts the overlapped intervals back to their residues and adds the new def. It rejects a store that overlaps more than `kMaxAffectedCount` intervals, and the whole build then fails.
- `Complete` flushes the last entry and writes the dumps.
- With a binary path, every table is an `MmVector` on its own file: `Ud::Init` truncates and maps them one by one, and only then checks the disassembler for the trace's machine; `Complete`'s `DumpBinary` writes the small header file last, and the destructors truncate each file to its size. `UdBase::Load` reads the header, picks `Ud<W>` by its magic (written in host byte order, and accepted only by a host of that byte order), maps the files again and checks the disassembler again.

The code is single-threaded, so there is no interleaving of threads to model. What makes it hard is:

- long sequences of legal calls (overlapping stores);
- numeric edges: wrapping `W` sums, sizes 0, the prime search's small arguments;
- the rehash that happens in the middle of an insertion;
- failures part-way through a record.
- a build that fails or whose process dies between truncating the files and writing the header.

## Modules

| Module | Models | State ↔ code |
|---|---|---|
| `UdState` | `UdState<W>`: `Init` with `Ud::Init`'s catch-all def, `AddUses`, `AddDefs` (the four overlap cases as `Reinsert`; the rejection as `AddDefsTooMany`), `AddDef` | `addressSpace` is the `std::map`, `uses`/`defs` the vectors (0-based through `UseAt`/`DefAt`), `partialUses` the table seen as a map. `reads` is a history variable, one record per `AddUses` call. `W` has `AddrBits` bits and every sum wraps (`WAdd`). |
| `MC_UdState` | drives one `UdState` with loads and stores | `Read`, `Write` and `Overflow` are `AddUses`, `AddDefs` and a rejected `AddDefs` on any access from `Accesses`. `StreamEnd` is the end of the stream. |
| `Ud` | `Ud<W>` as a visitor, with two `UdState` instances `Reg` and `Mem` | `trace`, `code` and `status`. `regDefBy` etc. are history variables: the trace entry open when a def or use was appended. Each record kind is one action (`UseRecord`, `DefRecord`, `DefRecordTooMany`, `RegRecord`, `InsnExec`, `Insn`, `InsnMalformed`), plus `Complete` and the terminal `Done`. `ResolveTrace` is `ResolveUse`'s `upper_bound` search; `GetRegUsesForTrace`, `GetMemUsesForTrace` and `DefsForTrace` are the query and dump ranges. `HandleInsnSeq` never checks a record's `insnSeq` against `code_`: with the constant `AheadRecords` a record may name an instruction whose INSN record has not come (the spec's §8 stream does this); without it, only introduced ones. |
| `MC_Ud` | bounds `Ud`'s record stream | every state-changing record adds a row to some table, so `StreamBound` (a state constraint on the total rows) bounds the stream |
| `PartialUses` | `PartialUses<W>` and `FindPartialUse` | `entries` is the slot vector, `load`/`maxLoad` the counters. `Init` is `PartialUses::Init` followed by `UdState::Init`'s `reserve`. `operator[]` is split into `SetExisting`, `SetNew` and `SetNewRehash`. `Reserve` is `reserve`: the old slots go through `insert` into a temporary `MmVector` and are re-inserted from that copy. `cap` and `bytes` are `entries_`'s `capacity_` and file length, changed by `Init`'s `resize(11)` and each rehash's `resize` (`ResizedCap`, `ResizedBytes`). |
| `UseMap` | what the table promises: a map in which a set overwrites | abstract spec that `PartialUses` refines (`Stored` is the refinement mapping, read through `find`) |
| `Primes` | `GetFirstPrimeGreaterThanOrEqualTo` | `RECURSIVE` operators: `GrowCache` is the cache growth, `FirstPrimeFrom` the odd-stepping search. `LeastPrimeAtLeast` is the reference; `PartialUses`' `PrimeSearchCorrect` compares them. |
| `TraceFile` | the trace file layout: `Tlv`, `HeaderEntry`, the fixed fields of each decoder, `TraceMmBase::Visit`'s magic switch, `Have`, `Advance`, `TraceMm::Init` | a file is `[magic, hdrLen, recs, cut]`: each record is `[tag, length, seq]` (the values its fields decode to), laid out at its aligned length, and the last `cut` bytes are missing. Offsets are byte offsets. `SeqRead` is what `GetInsnSeq` returns: any value when the record is too short to hold it. `MagicName` and `Endianness` are `TraceMmBase::Visit`'s switch on the two magic bytes, `TagCode` the `Tag` enumerators. |
| `TraceIter` | the Python `Trace` object: `Trace.load`, `__next__` (`TraceMm::Next`) and `seek_insn` (`TraceMm::SeekInsn` with the `Seek` visitor) | `cur` is `cur_`; `entryIndex` is `entryIndex_` at `EntryBits` bits; `insnIndex` and `prevInsnSeq` are `Seek`'s fields (`SIZE_MAX` is `NoIndex` = -1, and `+1` from it gives 0 as the wrap does); `op` says whether `SeekInsn`'s loop is running. Each iteration of that loop is one step (`SeekStep`, `SeekFound`, `SeekNotFound`, `SeekError`). `result` and `handed` are history: how the last call ended and which record last reached a visitor. `UdHandlesSeq` and `UdOpens` are the records `Ud` passes to `HandleInsnSeq` and the ones that open a trace entry, folded over the file with `FoldLeft`. |
| `MmVector` | `MmVector<T>` on one file: `Init` (`CreatePersistent`, `CreateTemporary` as `Temporary`, `OpenExisting`), `InitCreated`, `InitOpened` with `ReadN`, `reserve`, `push_back`/`emplace_back` with `Grow`, `insert` and `resize` (growing by `GetAligned` bytes, `GrowCap`), `~MmVector` | operators over a file `[exists, bytes, rows, w]`: its length, the entries under its size prefix, and (history) the word size of the build that wrote it. `capacity_` is passed in. |
| `UdFiles` | the persisted graph at one path template: a build (`TraceMm::Visit` with `Ud`: `Ud::Init`, the records, `Complete`, `DumpBinary`) and `UdBase::Load` | `disk` holds the `trace`, `uses` and `defs` files, `header` the header file, `cap` the running process's `capacity_`s. `pc` is the step: `Ud::Init` opening (`OpenFile`) and mapping (`MapFile`) each file in order, then `InitRest` (the reserves and the catch-all), the records (`UseRecord` and `DefRecord` are only the row appends of `AddUses`' `uses_.push_back` and `AddDef`'s `defs_.emplace_back`, the interval logic being `UdState`'s; `InsnRecord`), `Complete` (`Flush`, then `fopen("wb")` of the header), `HeaderWritten` (`fwrite`, and the destructors' truncation). `BuildFails` is any error return: the vectors mapped so far are truncated and no header is written. `Crash` is the process dying: nothing more happens to the files. `InitRest` ends with `Disasm::Init`, whose failure truncates every file. `header` is the `BinaryHeader` (`Magic` is the host-order magic); `Load` is `UdBase::Load`: `LoadWord` is its switch, and on a file it cannot open, or a disassembler that fails, the vectors opened so far are truncated at the magic's W; `Unload` drops the handle. `lastBuild` and `built` are history. |
| `Codec` | `BSwap`, `IntConversions<E, T>::ConvertToHost`, `RawInt<E, T>::GetValue` | operators over byte strings, lowest address first: `UInt(n, k)` is a value's k bytes, least significant first, and `Num` reads it back (TLC's integers stop at 2^31, short of `uint32_t`); `HostLoad` is the host's native load, `ConvertToHost` the swap-unless-host specialization, `Encoded` the writer's layout. |
| `Disasm` | `Disasm::Init` | `Accepted` is its switch as a table from machine type to the (endianness, word size) pairs that pass; `DisasmInit` is the set of values it may return, `cs_open` failing or not. |
| `MC_TraceIter` | the files `Trace.load` is given | every file of up to `MaxRecs` records drawn from a record profile (`RecordsOf`), for each magic, header length and truncation |

The data is abstracted as follows:

- Record payloads, opcode bytes, disassembly and pcs are reduced to small sets.
- Register and memory addresses are numbers in `0 .. 2^AddrBits - 1`.
- The ranges stored in the partial-use table are model values.

## Runs

| Run | Checks | Result |
|---|---|---|
| `udstate` (`MC_UdState.cfg`) | `TypeOK`; `LiveMapPartition` (live intervals are non-empty, disjoint, cover `[0, max)`); `LiveWriterIsLatest` (each live byte names the most recent def that wrote it); `ReadsResolved` (a read's uses tile exactly the bytes read, each attributed to its latest writer) | pass |
| `udstate_top` | `ReadsResolved` with accesses up to the top address | violation: a read ending at the top records no use |
| `udstate_empty` | `LiveMapPartition` with size-0 stores | violation: an empty interval enters the map |
| `ud` (`MC_Ud.cfg`) | `TypeOK`; `ResolveUseCorrect` (`GetTraceFor*Use`'s search finds the entry open when the def was made, catch-all included); `TraceRangesExact` (each closed trace entry owns exactly the uses/defs appended while it was open) | pass |
| `ud_monotonic` | the spec's strict temporal monotonicity | violation: a def and a use of one instruction share a trace entry |
| `ud_code` (`MC_Ud_code.cfg`) | `CodeIndicesInBounds` (every closed trace entry's `codeIndex` is inside `code_`, which verbose `Flush` and `DumpDot`/`DumpHtml` read unchecked), with `AheadRecords` | violation: a GET_REG before its INSN record opens an entry past `code_` |
| `partial_uses` | `SlotsBacked` (through `resize(11)` and every rehash's `resize`, the table's size stays within `capacity_` and the file holds `capacity_` slots); `LoadAccounting` (load = occupied slots < size, keys unique); `RefinesUseMap` (the table implements `UseMap`); `PrimeSearchCorrect` (the rehash's prime search is the least prime at or above each argument from 3 to 130) | pass |
| `traceiter` (`MC_TraceIter.cfg`) | `TypeOK`; `CursorAtEntry` (after any sequence of calls, errors included, the cursor is at record `entryIndex_`, so Python sees true indices); `SeekLandsOnInsn` (`seek_insn(k)` leaves the cursor on the first record of the k-th instruction, as the spec's instruction starts define it, and says "No such insn" only when there is none); `SeekReturns` (every `seek_insn` returns, under `FairSpec`); `FieldsDecode` (on either host byte order, the magic, header length, every tag, length and `insnSeq` the writer encoded in the file's order decode through `RawInt::GetValue` to their values); `SeekMatchesUdTrace` (`seek_insn(k)` lands on the record that opens `Ud`'s trace entry k, so `Trace` indices and ud-graph trace indices agree) | pass |
| `traceiter_zero` | `SeekReturns` with a record whose length field is 0 | violation: `Advance(0)` never moves, and `seek_insn` loops forever |
| `udfiles` (`UdFiles.cfg`) | `TypeOK`; `CapacityBacked` (while a build runs, each mapped vector has size ≤ `capacity_` and its file holds `capacity_` slots); `RoundTrip` (the spec's 8.5: a load after a completed build, whatever failed or crashed builds came before, maps exactly the rows that build wrote, all within the files, each trace entry's ranges tiling `uses_` and `defs_`); `GraphReopens` (while the last build's graph is on disk, through failed loads and unloads, a `Load` on the same host succeeds: the magic decodes to its W, every file opens, the disassembler accepts its machine) | pass |
| `udfiles_unsafe` | `LoadedGraphSafe` (every graph `Load` returns is safe to query) | violation: a rebuild fails after truncating `trace`, and `Load` returns a handle over an empty trace under the old header |
| `traceiter_short` | `DecodedRecordWellFormed` with records shorter than their fixed fields | violation: the record reaches the visitor and `GetSize` wraps |

Bounds, and why they are enough:

- **`udstate`:** 3-bit addresses; sizes 1–3; accesses below 6; up to 3 stores and 1 read; `MaxAffectedCount` 2 instead of 32.
  - These bounds reach every overlap case, including an inner overlap followed by a store over a residue and the inner def. A store over both residues and the inner def overlaps 3 intervals and is rejected.
  - They also reach a rejected store, and a read spanning several intervals.
  - The catch-all interval `[0, 7)` stays live beyond the accessed range.
- **`ud`:** 2-bit addresses; two instruction seqs; accesses that span two intervals; up to 7 rows added; records name only introduced instructions. `ud_code` lets them name any of the two, with 4 rows.
  - This is enough for two trace entries with defs and uses in both spaces, and for a use after a def of an earlier instruction.
  - It also reaches a rejected store and a malformed INSN.
- **`partial_uses`:**
  - Keys 0, 1, 5, 7, 12 and 14 collide modulo the small table sizes and wrap around the probe.
  - The initial sizes (reserve of 0, 1, 3) give tables of 1, 3 and 7 slots.
  - So rehashes happen on the first or a later insertion.
  - `sizeof(PartialUse<uint32_t>)` is 12 and `GrowRows` 4, so a `Grow` adds 48 bytes, rounded as the code rounds to `kGrowAmount`: `resize(11)` gives 12 slots, and rehashes grow them to 16 (5 → 13 slots), 20 (7 → 17) and 32 (3 → 11 → 29).
- **`traceiter`:** 4- and 8-byte words and a bad magic; files whole or missing 4 bytes; up to 3 records.
  - The records are loads and INSN_EXECs of two instructions, a padded INSN and MMAP that the seek skips, and a record with an unknown tag.
  - So there are two instructions split by skipped records, a repeated `insnSeq`, truncated last records and headers, and targets 0 and 1 (found, not found, found after an earlier seek).
  - `MaxSeq` is 3. The records use `insnSeq` 1 and 2: code index 0 is `Ud`'s catch-all, and a valid trace's INSN records number from `code_.size()`. With 0 in the profile, `SeekMatchesUdTrace` is violated (the first record does not open an entry in `Ud`, whose entry 0 already has `insnSeq` 0, while `Seek` counts it).
  - `PrimeSearchCorrect` covers the cache growth past 3, 5 and 7, and every argument a rehash of these tables passes.
- **`udfiles`:** word sizes 4 and 8; `expectedInsnCount` 0 and 1; up to 2 rows appended per file; 2 builds; `GrowRows` 2; machines `EM_X86_64` (little, 8 only), `EM_S390` (big only) and `EM_PPC` (never), traces of either byte order, a little-endian host.
  - So the disassembler check passes for some builds and fails for others of the same word size, and a rebuild over a complete graph can fail at that check.
  - `expectedInsnCount` 0 leaves the reserves empty, so the catch-all's push_back already grows; 1 reserves 1 slot, so the second append grows.
  - Two builds are needed for a build over an earlier one: a failure or crash at each step of the second, with the same or the other word size, and loads before, between and after.
  - One more build or row per file takes the state space past what TLC finishes in minutes.

Every property of a passing run is broken by a mutant of the code it talks
about (see `mutants` in `PROJECT.json`):

- an off-by-one def index;
- a dropped residue;
- a partial-use test against the live interval;
- trace entry 0 opened after the catch-all defs;
- a missing flush;
- a stale `maxLoad_`;
- writing through the slot reference taken before the rehash;
- a dropped `value |= 1`;
- `VisitOne` checking only the TLV header;
- a match that does not decrement `entryIndex_`;
- the `Seek` visitor counting INSN records;
- `cur_ = prev` restored on every iteration;
- `push_back` growing only once size exceeds `capacity_`;
- a destructor truncating one entry short;
- `Complete` without its `Flush`;
- `Load`'s magic cases with their host checks swapped;
- `ConvertToHost` swapping on the host's own order;
- `Ud` leaving INSN_EXEC records out of `HandleInsnSeq`;
- `resize` passing `Grow` the missing slots as a byte count.

## Fairness

`SeekReturns` is checked under `FairSpec == Spec /\ WF_vars(SeekLoop)`. The code justifies this: `SeekInsn` is a single-threaded `while (true)` loop that Python waits on, so while it is running its next iteration is always the next step. `__next__` and `seek_insn` themselves are left unfair, because Python may stop calling at any time. The builder's `Visit` loop is the same loop over `VisitOne`, so the zero-length finding applies to it too.

## Findings

See `findings` in `PROJECT.json`:

1. The catch-all def excludes the top address, and wrapped end addresses make such reads record no uses.
2. Size-0 stores put empty intervals into the live map.
3. Defs and uses of one instruction share a trace entry, so the spec's strict monotonicity does not hold.
4. A record with length field 0 is accepted, and `seek_insn` (and `Visit`) then never returns.
5. A record shorter than its decoder's fixed fields is handed to the visitor, and its `GetSize` wraps.
6. A rebuild that fails or dies after `Ud::Init` truncated the trace file leaves the previous header in place, and `UdBase::Load` returns a handle over an empty or partial trace, or over files of the other word size, though the spec says a failed build is "undefined but not unsafe" and no partial handle is returned.
7. `HandleInsnSeq` opens a trace entry at `codeIndex = insnSeq` without checking it against `code_`: the spec's own §8 stream (a GET_REG whose INSN record never comes) gives an entry past `code_`, which a verbose `Flush` and the dumpers then index out of bounds.

Three observations are not runs of their own. First, `Seek` starts `prevInsnSeq` at `UINT32_MAX`, so a trace whose first instruction has that `insnSeq` is miscounted by `seek_insn`; a valid trace cannot start so, since its first INSN record has `insnSeq` 0 or 1, and `Ud` starts from `insnSeq` 0 instead, which is why the profile leaves 0 out (above). Second, a use index is `static_cast<uint32_t>(uses_.size())`, so the 2^32-1-th use has the partial-use table's empty marker as its key: with that key among `Keys`, `RefinesUseMap` fails in the initial state, because an empty table already "finds" it. The run's keys stop below it, as no trace of a checkable size has 2^32 uses. Third, `UdState::Init` calls `partialUses_.reserve(expectedInsnCount / 10)`, which is 0 for traces under 1280 bytes, so the table shrinks to one slot with `maxLoad_` 0, against the spec's "a prime of at least 11". The `partial_uses` initial states include that table, and `LoadAccounting` and `RefinesUseMap` hold from it, so lookups stay correct.

## Not modelled, and the plan

The next modules, in order:

1. **Composing `TraceIter` with `Ud`:** `SeekMatchesUdTrace` already relates the two numberings over one file; the builder's state itself is not yet driven by `Visit` (`Ud` lets its records name undeclared instructions, with `AheadRecords`). `Visit`'s `[start, end)` range, used by the dumper, is not modelled: outside the range, unknown tags are skipped rather than rejected.
2. **More files in `UdFiles`:** `MmVector`'s `insert` and `resize` are modelled, and `PartialUses` uses them, but `UdFiles` keeps three of the ten files: `code`, `text` and the `mem-` files are opened, grown and truncated the same way, and `partial-uses` is `PartialUses`.

`BuildFails` folds two variants together: a failure after `Complete`'s `Flush`, which would leave the last trace entry flushed, and an `mmap` failing after `InitCreated`'s `ftruncate`, which would leave an 8-byte file rather than an empty one. Under an older header the second matters: the 8-byte file passes `InitOpened`'s `ReadN` and opens as an empty vector, where the model's empty file makes `Load` fail. That only adds more unsafe handles to the ones `udfiles_unsafe` already finds. `UdFiles` does not model a machine crash, which could lose pages of the shared mappings, nor a builder and a loader running at once on one path. Both would add outcomes, not remove the ones found. `PathWithPlaceholder` only splices strings. One host byte order is checked at a time; a graph written on a host of the other order is rejected by `Load`, as its data files are in that order too.

The disassembler's text (`DoDisasm`, `DisasmStr`), the dumpers' output, `TraceEntry2Py` and the Python bindings only produce text or glue, and stay unmodelled.
