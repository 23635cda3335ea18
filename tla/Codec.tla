------------------------------- MODULE Codec -------------------------------
(***************************************************************************)
(* The endian codec of memtrace_ext.cpp: BSwap, IntConversions<E, T> and   *)
(* RawInt<E, T>::GetValue, which loads a T from the mapped bytes in host   *)
(* order and swaps it when the file's order E is not kHostEndianness.     *)
(* Bytes are numbers in 0 .. 255.  A byte string is a sequence, lowest     *)
(* address first; an unsigned value of sizeof(T) = k bytes is the sequence *)
(* of its k bytes, least significant first (TLC's integers stop at 2^31,   *)
(* short of uint32 and uint64).                                            *)
(***************************************************************************)
EXTENDS Integers, SequencesExt

ByteOrders == {"Little", "Big"}

(* The k-byte value of a number below 2^31, and back *)
UInt(n, k) == [i \in 1 .. k |-> (n \div 2^(8 * (i - 1))) % 256]
Num(v) == FoldRight(LAMBDA b, acc : acc * 256 + b, v, 0)

(* *reinterpret_cast<const T*>(data_): the host's native load of b; a     *)
(* big-endian host takes the lowest address as the most significant byte *)
HostLoad(b, host) == IF host = "Little" THEN b ELSE Reverse(b)

(* __builtin_bswap16/32/64, and the identity for uint8_t *)
BSwap(v) == Reverse(v)

(* mutant: the kHostEndianness specialization taken for the other order *)
ConvertToHostInverted(e, host, v) == IF e = host THEN BSwap(v) ELSE v

(* IntConversions<E, T>::ConvertToHost: the primary template swaps, the   *)
(* specialization for E = kHostEndianness does not                        *)
ConvertToHost(e, host, v) == IF e = host THEN v ELSE BSwap(v)

(* RawInt<E, T>(data).GetValue() over the k bytes at data, on a host of    *)
(* byte order host                                                         *)
GetValue(e, host, b) == ConvertToHost(e, host, HostLoad(b, host))

(* The bytes a writer of byte order e lays out for the value v: its most   *)
(* significant byte first when e is big-endian                            *)
Encoded(v, e) == IF e = "Big" THEN Reverse(v) ELSE v
=============================================================================
