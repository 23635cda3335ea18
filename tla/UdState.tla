------------------------------ MODULE UdState ------------------------------
(***************************************************************************)
(* The live-writer index of one address space: class UdState<W> of        *)
(* memtrace_ext.cpp.  addressSpace is the in-core std::map keyed by the    *)
(* end address of each live interval; uses and defs are the MmVectors      *)
(* uses_ and defs_; partialUses is the partial-use table seen through its  *)
(* interface (PartialUses.tla shows that the hash table implements it).    *)
(* W is shrunk to AddrBits bits; every address sum wraps as W does.        *)
(*                                                                         *)
(* Indices of uses and defs are 0-based as in the code: UseAt(u) is        *)
(* uses_[u], DefAt(d) is defs_[d].                                         *)
(*                                                                         *)
(* reads is a history variable, not code state: one record per AddUses    *)
(* call, so properties can relate a use to the read that produced it.     *)
(***************************************************************************)
EXTENDS Integers, Sequences, SequencesExt

CONSTANTS
  AddrBits,          \* bit width of W
  MaxAffectedCount   \* kMaxAffectedCount: 32 in the code

ASSUME AddrBits \in Nat \ {0} /\ MaxAffectedCount \in Nat \ {0}

AddrSpace == 2^AddrBits
Addr == 0 .. AddrSpace - 1
WMax == AddrSpace - 1                  \* std::numeric_limits<W>::max()
WAdd(x, y) == (x + y) % AddrSpace      \* unsigned W addition
MaxW(x, y) == IF x >= y THEN x ELSE y  \* std::max
MinW(x, y) == IF x <= y THEN x ELSE y  \* std::min

VARIABLES addressSpace, uses, defs, partialUses, reads

vars == <<addressSpace, uses, defs, partialUses, reads>>

DefRec(s, e) == [startAddr |-> s, endAddr |-> e]     \* Def<W>
Entry(s, d) == [startAddr |-> s, defIndex |-> d]     \* EntryValue
UseAt(u) == uses[u + 1]
DefAt(d) == defs[d + 1]

\* addressSpace_[k] = v: insert or overwrite
Put(m, k, v) == (k :> v) @@ m

(***************************************************************************)
(* The entries an operation on [startAddr, endAddr) visits, in key order:  *)
(* it = lower_bound(startAddr + 1), then ++it while                        *)
(* it->second.startAddr < endAddr.                                         *)
(***************************************************************************)
Affected(m, startAddr, endAddr) ==
  LET from == WAdd(startAddr, 1)
      keys == {k \in DOMAIN m : k >= from}
  IN SetToSortSeq({k \in keys : \A j \in keys :
                      j <= k => m[j].startAddr < endAddr}, <)

(* UdState::Init over fresh files, then Ud::Init's catch-all AddDef(0, max) *)
Init ==
  /\ defs = << DefRec(0, WMax) >>
  /\ addressSpace = WMax :> Entry(0, 0)
  /\ uses = << >>
  /\ partialUses = [u \in {} |-> DefRec(0, 0)]
  /\ reads = << >>

(* mutant: the overlap compared with the live interval, not the whole def *)
AddUsesLiveCompare(startAddr, size) ==
  LET endAddr == WAdd(startAddr, size)
      aff == Affected(addressSpace, startAddr, endAddr)
      base == Len(uses)
      Overlap(k) == DefRec(MaxW(startAddr, addressSpace[k].startAddr),
                           MinW(endAddr, k))
      partial == {base + i - 1 : i \in
                    {i \in 1 .. Len(aff) :
                       DefRec(addressSpace[aff[i]].startAddr, aff[i]) # Overlap(aff[i])}}
  IN /\ uses' = uses \o [i \in 1 .. Len(aff) |-> addressSpace[aff[i]].defIndex]
     /\ partialUses' = [u \in partial |-> Overlap(aff[u - base + 1])] @@ partialUses
     /\ reads' = Append(reads, [startAddr |-> startAddr, size |-> size,
                                defCount |-> Len(defs), firstUse |-> base,
                                endUse |-> base + Len(aff)])
     /\ UNCHANGED <<addressSpace, defs>>

(* UdState::AddUses: one use per visited entry; a partial-use record when  *)
(* the overlap differs from the whole def.                                 *)
AddUses(startAddr, size) ==
  LET endAddr == WAdd(startAddr, size)
      aff == Affected(addressSpace, startAddr, endAddr)
      base == Len(uses)
      Overlap(k) == DefRec(MaxW(startAddr, addressSpace[k].startAddr),
                           MinW(endAddr, k))
      partial == {base + i - 1 : i \in
                    {i \in 1 .. Len(aff) :
                       DefAt(addressSpace[aff[i]].defIndex) # Overlap(aff[i])}}
  IN /\ uses' = uses \o [i \in 1 .. Len(aff) |-> addressSpace[aff[i]].defIndex]
     /\ partialUses' = [u \in partial |-> Overlap(aff[u - base + 1])] @@ partialUses
     /\ reads' = Append(reads, [startAddr |-> startAddr, size |-> size,
                                defCount |-> Len(defs), firstUse |-> base,
                                endUse |-> base + Len(aff)])
     /\ UNCHANGED <<addressSpace, defs>>

(* mutants: the new def's index taken one too high / one too low *)
AddDefPastEnd(m, startAddr, endAddr) ==
  /\ defs' = Append(defs, DefRec(startAddr, endAddr))
  /\ addressSpace' = Put(m, endAddr, Entry(startAddr, Len(defs) + 1))
AddDefPrevious(m, startAddr, endAddr) ==
  /\ defs' = Append(defs, DefRec(startAddr, endAddr))
  /\ addressSpace' = Put(m, endAddr, Entry(startAddr, Len(defs) - 1))

(* UdState::AddDef on the map m left by AddDefs *)
AddDef(m, startAddr, endAddr) ==
  /\ defs' = Append(defs, DefRec(startAddr, endAddr))
  /\ addressSpace' = Put(m, endAddr, Entry(startAddr, Len(defs)))

(* mutant: an inner overlap keeps only its left residue *)
ReinsertNoRightResidue(startAddr, endAddr, m, k) ==
    LET es == addressSpace[k].startAddr
        d == addressSpace[k].defIndex
    IN CASE startAddr <= es /\ endAddr < k -> Put(m, k, Entry(endAddr, d))
         [] startAddr <= es -> m
         [] OTHER -> Put(m, startAddr, Entry(es, d))

(* Re-insert what survives of the erased entry with key k *)
Reinsert(startAddr, endAddr, m, k) ==
    LET es == addressSpace[k].startAddr
        d == addressSpace[k].defIndex
    IN CASE startAddr <= es /\ endAddr < k -> Put(m, k, Entry(endAddr, d))  \* left
         [] startAddr <= es -> m                                           \* outer
         [] endAddr < k ->                                                  \* inner
              Put(Put(m, startAddr, Entry(es, d)), k, Entry(endAddr, d))
         [] OTHER -> Put(m, startAddr, Entry(es, d))                       \* right

(* UdState::AddDefs when at most kMaxAffectedCount entries overlap *)
AddDefs(startAddr, size) ==
  LET endAddr == WAdd(startAddr, size)
      aff == Affected(addressSpace, startAddr, endAddr)
      erased == [k \in DOMAIN addressSpace \ ToSet(aff) |-> addressSpace[k]]
  IN /\ Len(aff) <= MaxAffectedCount
     /\ AddDef(FoldLeft(LAMBDA m, k : Reinsert(startAddr, endAddr, m, k),
                        erased, aff),
               startAddr, endAddr)
     /\ UNCHANGED <<uses, partialUses, reads>>

(* UdState::AddDefs returning -EINVAL: nothing has been touched yet *)
AddDefsTooMany(startAddr, size) ==
  /\ Len(Affected(addressSpace, startAddr, WAdd(startAddr, size))) > MaxAffectedCount
  /\ UNCHANGED vars

-----------------------------------------------------------------------------
DefRange == [startAddr : Addr, endAddr : Addr]

TypeOK ==
  /\ DOMAIN addressSpace \subseteq Addr
  /\ \A k \in DOMAIN addressSpace :
       addressSpace[k] \in [startAddr : Addr, defIndex : 0 .. Len(defs) - 1]
  /\ defs \in Seq(DefRange)
  /\ uses \in Seq(0 .. Len(defs) - 1)
  /\ DOMAIN partialUses \subseteq 0 .. Len(uses) - 1
  /\ \A u \in DOMAIN partialUses : partialUses[u] \in DefRange

Bytes(lo, hi) == {b \in Addr : lo <= b /\ b < hi}
LiveBytes(k) == Bytes(addressSpace[k].startAddr, k)
DefBytes(d) == Bytes(DefAt(d).startAddr, DefAt(d).endAddr)

(* The most recent of defs 0..n-1 that wrote byte b (-1 if none) *)
LatestWriter(b, n) ==
  LET ws == {d \in 0 .. n - 1 : b \in DefBytes(d)}
  IN IF ws = {} THEN -1 ELSE Max(ws)

(***************************************************************************)
(* The live intervals of the map are non-empty and pairwise disjoint, and  *)
(* together cover [0, max) exactly, after any sequence of AddDefs (its    *)
(* four overlap cases and the residues they re-insert).                    *)
(***************************************************************************)
LiveMapPartition ==
  /\ \A k \in DOMAIN addressSpace : addressSpace[k].startAddr < k
  /\ \A k, j \in DOMAIN addressSpace : k # j => LiveBytes(k) \cap LiveBytes(j) = {}
  /\ UNION {LiveBytes(k) : k \in DOMAIN addressSpace} = Bytes(0, WMax)

(***************************************************************************)
(* Every byte's live entry names the most recent def that wrote it: the    *)
(* residues AddDefs re-inserts keep the old defIndex and the new interval  *)
(* gets the newest one.                                                    *)
(***************************************************************************)
LiveWriterIsLatest ==
  \A k \in DOMAIN addressSpace : \A b \in LiveBytes(k) :
    addressSpace[k].defIndex = LatestWriter(b, Len(defs))

(***************************************************************************)
(* The uses AddUses records for a read of [a, a+size) tile the bytes read: *)
(* each use's effective range (its partial-use record, else its whole def) *)
(* is non-empty, the ranges are disjoint and cover exactly the bytes read, *)
(* and each byte is attributed to the def that last wrote it before the   *)
(* read.                                                                   *)
(***************************************************************************)
EffectiveRange(u) ==
  IF u \in DOMAIN partialUses THEN partialUses[u] ELSE DefAt(UseAt(u))
EffBytes(u) == Bytes(EffectiveRange(u).startAddr, EffectiveRange(u).endAddr)
ReadBytes(r) == {WAdd(r.startAddr, i) : i \in 0 .. r.size - 1}

ReadsResolved ==
  \A i \in 1 .. Len(reads) :
    LET r == reads[i]
        us == r.firstUse .. r.endUse - 1
    IN /\ \A u \in us : EffBytes(u) # {}
       /\ \A u, v \in us : u # v => EffBytes(u) \cap EffBytes(v) = {}
       /\ UNION {EffBytes(u) : u \in us} = ReadBytes(r)
       /\ \A u \in us : \A b \in EffBytes(u) : UseAt(u) = LatestWriter(b, r.defCount)
=============================================================================
