----------------------------- MODULE PartialUses -----------------------------
(***************************************************************************)
(* The partial-use table: class PartialUses<W> of memtrace_ext.cpp, an     *)
(* open-addressed, linearly probed hash table over the MmVector entries_,  *)
(* slot i holding a PartialUse {first: use index, second: range}, first =  *)
(* static_cast<uint32_t>(-1) marking an empty slot.  Slot indices are     *)
(* 0-based: Slot(t, i) is entries_[i].  Ranges are members of Vals; the    *)
(* range left in an empty slot is never read and is modelled as NoVal.    *)
(***************************************************************************)
EXTENDS Integers, Sequences, SequencesExt

CONSTANTS
  Keys,            \* use indices passed to operator[]
  Vals,            \* ranges stored
  ExpectedCounts,  \* expectedPartialUseCount values UdState::Init reserves
  NoVal,           \* the range of an empty slot
  SlotBytes,       \* sizeof(PartialUse<W>)
  GrowRows         \* kGrowAmount / sizeof(PartialUse<W>)

ASSUME Keys \subseteq Nat /\ ExpectedCounts \subseteq Nat /\ NoVal \notin Vals
ASSUME SlotBytes \in Nat \ {0} /\ GrowRows \in Nat \ {0}

P == INSTANCE Primes
V == INSTANCE MmVector

Empty == -1                 \* static_cast<std::uint32_t>(-1)

(* entries is entries_'s contents, cap its capacity_, bytes the length  *)
(* of its file                                                          *)
VARIABLES entries, load, maxLoad, cap, bytes

vars == <<entries, load, maxLoad, cap, bytes>>

EmptySlot == [first |-> Empty, second |-> NoVal]
Slot(t, i) == t[i + 1]

(***************************************************************************)
(* FindPartialUse: scan entries [k % n, n) and then [0, k % n) for the     *)
(* first slot holding k or empty; -1 when there is none (the assert).     *)
(***************************************************************************)
FindPartialUse(t, k) ==
  LET n == Len(t)
      At(j) == ((k % n) + j) % n         \* the j-th slot probed
      hits == {j \in 0 .. n - 1 : Slot(t, At(j)).first \in {k, Empty}}
  IN IF hits = {} THEN -1 ELSE At(Min(hits))

(***************************************************************************)
(* reserve(n): insert the entries into a CreateTemporary MmVector,        *)
(* resize entries_ to the first prime >= 2n, mark every slot empty, and   *)
(* re-insert the oldSize copied entries in slot order.  ResizedCap and    *)
(* ResizedBytes are what the resize does to capacity_ and the file.       *)
(***************************************************************************)
NewSize(n) == P!GetFirstPrimeGreaterThanOrEqualTo(n * 2)

Reserve(t, n) ==
  LET old == V!InsertFile(V!Temporary, 0, 0, t, SlotBytes).rows
      fresh == [i \in 1 .. NewSize(n) |-> EmptySlot]
      Reinsert(u, e) ==
        IF e.first = Empty THEN u
        ELSE [u EXCEPT ![FindPartialUse(u, e.first) + 1] = e]
  IN FoldLeft(Reinsert, fresh, SubSeq(old, 1, Len(t)))

ResizedCap(c, size) == V!ResizeCap(c, size, SlotBytes)
ResizedBytes(c, b, size) ==
  V!ResizeFile([bytes |-> b, rows |-> << >>], c, size, EmptySlot, SlotBytes).bytes

(* mutant: maxLoad_ left as computed for the 11 slots, before reserve *)
InitStaleMaxLoad ==
  \E n \in ExpectedCounts :
    LET cap11 == ResizedCap(0, 11) IN
    /\ entries = Reserve([i \in 1 .. 11 |-> EmptySlot], n)
    /\ load = 0
    /\ maxLoad = 11 \div 2
    /\ cap = ResizedCap(cap11, NewSize(n))
    /\ bytes = ResizedBytes(cap11, ResizedBytes(0, V!Overhead, 11), NewSize(n))

(* Init in a create mode (InitCreated's empty vector of kOverhead bytes, *)
(* resize(11), 11 empty slots), then UdState::Init's reserve              *)
Init ==
  \E n \in ExpectedCounts :
    LET cap11 == ResizedCap(0, 11) IN
    /\ entries = Reserve([i \in 1 .. 11 |-> EmptySlot], n)
    /\ load = 0
    /\ maxLoad = Len(entries) \div 2
    /\ cap = ResizedCap(cap11, NewSize(n))
    /\ bytes = ResizedBytes(cap11, ResizedBytes(0, V!Overhead, 11), NewSize(n))

(* operator[] on a use index already present: the caller overwrites it *)
SetExisting(k, v) ==
  LET i == FindPartialUse(entries, k) IN
  /\ Slot(entries, i).first = k
  /\ entries' = [entries EXCEPT ![i + 1].second = v]
  /\ UNCHANGED <<load, maxLoad, cap, bytes>>

(* operator[] claiming an empty slot while load_ stays within maxLoad_ *)
SetNew(k, v) ==
  LET i == FindPartialUse(entries, k) IN
  /\ Slot(entries, i).first = Empty
  /\ load + 1 <= maxLoad
  /\ entries' = [entries EXCEPT ![i + 1] = [first |-> k, second |-> v]]
  /\ load' = load + 1
  /\ UNCHANGED <<maxLoad, cap, bytes>>

(* mutant: the range written through the slot found before the rehash *)
SetNewRehashStaleSlot(k, v) ==
  LET i == FindPartialUse(entries, k)
      claimed == [entries EXCEPT ![i + 1].first = k]
      grown == Reserve(claimed, (load + 1) * 2)
  IN /\ Slot(entries, i).first = Empty
     /\ load + 1 > maxLoad
     /\ entries' = [grown EXCEPT ![i + 1].second = v]
     /\ load' = load + 1
     /\ maxLoad' = Len(grown) \div 2
     /\ cap' = ResizedCap(cap, Len(grown))
     /\ bytes' = ResizedBytes(cap, bytes, Len(grown))

(* operator[] claiming a slot that pushes load_ over maxLoad_: reserve(2 *)
(* load_) with the claimed slot in the table, then find k again          *)
SetNewRehash(k, v) ==
  LET i == FindPartialUse(entries, k)
      claimed == [entries EXCEPT ![i + 1].first = k]
      grown == Reserve(claimed, (load + 1) * 2)
  IN /\ Slot(entries, i).first = Empty
     /\ load + 1 > maxLoad
     /\ entries' = [grown EXCEPT ![FindPartialUse(grown, k) + 1].second = v]
     /\ load' = load + 1
     /\ maxLoad' = Len(grown) \div 2
     /\ cap' = ResizedCap(cap, Len(grown))
     /\ bytes' = ResizedBytes(cap, bytes, Len(grown))

Next == \E k \in Keys, v \in Vals :
          SetExisting(k, v) \/ SetNew(k, v) \/ SetNewRehash(k, v)

Spec == Init /\ [][Next]_vars

-----------------------------------------------------------------------------
(* find(k): the keys a lookup finds and the range it returns *)
Found(k) == LET i == FindPartialUse(entries, k) IN i >= 0 /\ Slot(entries, i).first = k
Stored == [k \in {k \in Keys : Found(k)} |-> Slot(entries, FindPartialUse(entries, k)).second]

TypeOK ==
  /\ entries \in Seq([first : Keys \cup {Empty}, second : Vals \cup {NoVal}])
  /\ load \in Nat /\ maxLoad \in Nat /\ cap \in Nat /\ bytes \in Nat

(***************************************************************************)
(* load_ counts the occupied slots and stays below the table size, so      *)
(* every probe meets an empty slot and FindPartialUse's assert holds, and  *)
(* no use index occupies two slots.                                        *)
(***************************************************************************)
LoadAccounting ==
  LET occupied == {i \in 0 .. Len(entries) - 1 : Slot(entries, i).first # Empty}
  IN /\ load = Cardinality(occupied)
     /\ load <= maxLoad /\ maxLoad < Len(entries)
     /\ \A i, j \in occupied : i # j => Slot(entries, i).first # Slot(entries, j).first

(***************************************************************************)
(* The table implements UseMap: seen through find(), every operator[]      *)
(* assignment, rehashes included, is a Set of the abstract map (the        *)
(* spec's rehash idempotence: a lookup returns the last value set).       *)
(***************************************************************************)
Abstract == INSTANCE UseMap WITH map <- Stored
RefinesUseMap == Abstract!Spec

(***************************************************************************)
(* entries_'s mapping backs every slot FindPartialUse may probe: through  *)
(* resize(11) and every rehash's resize, whose Grow rounds the missing   *)
(* bytes up to kGrowAmount, size stays within capacity_ and the file      *)
(* holds kOverhead + capacity_ slots, so no probe touches a page past the *)
(* end of the MAP_SHARED file.                                            *)
(***************************************************************************)
SlotsBacked ==
  /\ Len(entries) <= cap
  /\ bytes = V!Overhead + cap * SlotBytes

PrimeArgBound == 130   \* reserve(n) searches from 2n: tables up to 65 slots

(***************************************************************************)
(* The rehash's GetFirstPrimeGreaterThanOrEqualTo returns the least prime *)
(* at or above its argument, its cache of odd trial divisors and the      *)
(* odd-only stepping included, for every argument from 3 to               *)
(* PrimeArgBound (the cache grows past 3, 5 and 7 on the way) and to the  *)
(* 2n the next rehash of the current table passes.  0 and 2 come only     *)
(* from UdState::Init's reserve; see the README.                          *)
(***************************************************************************)
PrimeSearchCorrect ==
  \A v \in 3 .. Max({PrimeArgBound, 2 * Len(entries)}) :
    P!GetFirstPrimeGreaterThanOrEqualTo(v) = P!LeastPrimeAtLeast(v)
=============================================================================
