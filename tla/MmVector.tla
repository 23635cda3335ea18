------------------------------ MODULE MmVector ------------------------------
(***************************************************************************)
(* MmVector<T>: a vector whose storage is a MAP_SHARED mapping of its own  *)
(* file, laid out as a size_t size prefix (kOverhead bytes) followed by    *)
(* capacity_ slots of sizeof(T) bytes.  Because the mapping is shared, a   *)
(* store into it is a store into the file: a process that dies leaves the  *)
(* entries and the size prefix it wrote.  (A machine crash, which could    *)
(* lose pages, is not modelled.)                                           *)
(*                                                                         *)
(* A file is [exists, bytes, rows, w]: its length in bytes, the entries    *)
(* under its size prefix (Len(rows) is the prefix), and, as history, the   *)
(* word size of the build that created it.  capacity_ is process state,   *)
(* passed in as cap; es is sizeof(T).                                      *)
(***************************************************************************)
EXTENDS Integers, Sequences

CONSTANT GrowRows   \* kGrowAmount / sizeof(T): the slots one Grow() adds

Overhead == 8       \* kOverhead: the size_t prefix

NoFile == [exists |-> FALSE, bytes |-> 0, rows |-> << >>, w |-> 0]

(* Init(CreatePersistent): open(O_RDWR | O_CREAT | O_TRUNC) *)
Truncated(w) == [exists |-> TRUE, bytes |-> 0, rows |-> << >>, w |-> w]

(* InitCreated: ftruncate(kOverhead), map it, size = 0 *)
Created(file) == [file EXCEPT !.bytes = Overhead, !.rows = << >>]

(* reserve(n): nothing when n <= capacity_, else ftruncate the file to    *)
(* n slots and remap                                                      *)
ReserveFile(file, cap, n, es) ==
  IF n <= cap THEN file ELSE [file EXCEPT !.bytes = Overhead + n * es]
ReserveCap(cap, n) == IF n <= cap THEN cap ELSE n

(* mutant: push_back grows only once size exceeds capacity_ *)
NeedsGrowLate(file, cap) == Len(file.rows) > cap

(* push_back / emplace_back: Grow() = reserve(capacity_ + GrowRows) when  *)
(* the vector is full, then store the entry and bump the size prefix      *)
NeedsGrow(file, cap) == Len(file.rows) + 1 > cap

PushBackFile(file, cap, v, es) ==
  LET grown == IF NeedsGrow(file, cap)
                 THEN ReserveFile(file, cap, cap + GrowRows, es) ELSE file
  IN [grown EXCEPT !.rows = Append(@, v)]
PushBackCap(file, cap) ==
  IF NeedsGrow(file, cap) THEN ReserveCap(cap, cap + GrowRows) ELSE cap

(* Init(CreateTemporary): mkstemp on path + "XXXXXX", unlink, then        *)
(* InitCreated: a file no path names, gone when the vector is destroyed   *)
Temporary == Created([exists |-> FALSE, bytes |-> 0, rows |-> << >>, w |-> 0])

(* GetAligned(pos, n): pos rounded up to a multiple of n, which the code  *)
(* computes as (pos + n - 1) & ~(n - 1) for n a power of two              *)
GetAligned(pos, n) == ((pos + n - 1) \div n) * n

(* Grow(bytes) = reserve(capacity_ + bytes / sizeof(T)), kGrowAmount      *)
(* being GrowRows slots                                                    *)
GrowCap(cap, bytes, es) == ReserveCap(cap, cap + bytes \div es)

(* mutant: resize passes Grow the missing slots as if they were bytes *)
ResizeCapRows(cap, n, es) ==
  IF n > cap THEN GrowCap(cap, GetAligned(n - cap, GrowRows * es), es) ELSE cap

(* resize(n, val): when n > capacity_, Grow by the missing bytes rounded  *)
(* up to kGrowAmount; construct val in slots [size, n); size = n          *)
ResizeCap(cap, n, es) ==
  IF n > cap THEN GrowCap(cap, GetAligned((n - cap) * es, GrowRows * es), es)
  ELSE cap

ResizeFile(file, cap, n, val, es) ==
  LET grown == ReserveFile(file, cap, ResizeCap(cap, n, es), es)
  IN [grown EXCEPT !.rows = [j \in 1 .. n |->
                               IF j <= Len(file.rows) THEN file.rows[j] ELSE val]]

(* insert(begin() + i, first, last) with i <= size: Grow as resize does   *)
(* when i + n > capacity_, assign over the entries from i, construct past *)
(* the end, size = max(size, i + n)                                       *)
InsertCap(cap, i, n, es) ==
  IF i + n > cap THEN GrowCap(cap, GetAligned((i + n - cap) * es, GrowRows * es), es)
  ELSE cap

InsertFile(file, cap, i, vs, es) ==
  LET grown == ReserveFile(file, cap, InsertCap(cap, i, Len(vs), es), es)
      size  == IF Len(file.rows) >= i + Len(vs) THEN Len(file.rows) ELSE i + Len(vs)
  IN [grown EXCEPT !.rows = [j \in 1 .. size |->
                               IF j > i /\ j <= i + Len(vs) THEN vs[j - i]
                               ELSE file.rows[j]]]

(* mutant: the destructor drops the last entry's bytes *)
ClosedShort(file, es) == [file EXCEPT !.bytes = Overhead + (Len(file.rows) - 1) * es]

(* ~MmVector: ftruncate(kOverhead + size * sizeof(T)), munmap, close *)
Closed(file, es) == [file EXCEPT !.bytes = Overhead + Len(file.rows) * es]

(* Init(OpenExisting): open(O_RDWR) and InitOpened's ReadN of the size    *)
(* prefix, which fails with EINVAL on a file shorter than it              *)
Openable(file) == file.exists /\ file.bytes >= Overhead

(* InitOpened then maps kOverhead + size * sizeof(T) bytes, capacity_ =   *)
(* size; the pages past the end of the file fault when touched            *)
MappedBytes(file, es) == Overhead + Len(file.rows) * es
=============================================================================
