------------------------------- MODULE Primes -------------------------------
(***************************************************************************)
(* GetFirstPrimeGreaterThanOrEqualTo of memtrace_ext.cpp, which sizes the *)
(* partial-use hash table, and the reference it is checked against.      *)
(*                                                                         *)
(* The code keeps a static cache of odd primes, initially {3}, grown by    *)
(* calling itself on back() + 1 until back() exceeds sqrt(value).  The     *)
(* cache only ever grows and holds consecutive odd primes, so the divisors *)
(* a call tries are the cache entries up to sqrt(value) whatever calls    *)
(* came before; PrimeCache(r) rebuilds that prefix.                        *)
(***************************************************************************)
EXTENDS Integers, Sequences

(* static_cast<size_t>(std::sqrt(value)), exact for the values in reach *)
ISqrt(v) == CHOOSE r \in 0 .. v : r * r <= v /\ (r + 1) * (r + 1) > v

RECURSIVE GetFirstPrimeGreaterThanOrEqualTo(_), GrowCache(_, _), FirstPrimeFrom(_)

(* while (primes.back() <= valueSqrt) primes.push_back(...) *)
GrowCache(c, r) ==
  IF c[Len(c)] <= r
    THEN GrowCache(Append(c, GetFirstPrimeGreaterThanOrEqualTo(c[Len(c)] + 1)), r)
    ELSE c

PrimeCache(r) == GrowCache(<< 3 >>, r)

(* the while (true) loop from an odd value *)
FirstPrimeFrom(value) ==
  LET cache == PrimeCache(ISqrt(value))
      isPrime == \A i \in 1 .. Len(cache) :
                   cache[i] <= ISqrt(value) => value % cache[i] # 0
  IN IF isPrime THEN value ELSE FirstPrimeFrom(value + 2)

(* mutant: value |= 1 dropped *)
GetFirstPrimeNoOddStart(value) == FirstPrimeFrom(value)

GetFirstPrimeGreaterThanOrEqualTo(value) ==
  FirstPrimeFrom(IF value % 2 = 0 THEN value + 1 ELSE value)   \* value |= 1

(* Reference: the least prime that is at least v *)
IsPrime(n) == n >= 2 /\ \A d \in 2 .. n - 1 : n % d # 0
LeastPrimeAtLeast(v) == CHOOSE p \in v .. 2 * v + 2 :
                          IsPrime(p) /\ \A q \in v .. p - 1 : ~IsPrime(q)
=============================================================================
