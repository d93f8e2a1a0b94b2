------------------------------- MODULE Backoff -------------------------------
(***************************************************************************)
(* retry_delay (src/edge/connector/backoff.rs): the delay drawn after a    *)
(* failed attempt, in the integer widths of the code.  The connector's     *)
(* delay may take any time; this says which.                               *)
(***************************************************************************)
EXTENDS Naturals

CONSTANTS
  U64,          \* 2^64: how many values a nanosecond count has
  MaxExponent   \* 30, where the exponent stops growing

ASSUME BackoffConstants == U64 \in Nat /\ U64 >= 8 /\ MaxExponent \in Nat

AtMost(m, n) == IF m < n THEN m ELSE n

\* saturating_mul of u64.
SaturatingTimes(m, n) == AtMost(m * n, U64 - 1)

\* 1u64 << exponent.
Shifted[exponent \in 0..MaxExponent] ==
  IF exponent = 0 THEN 1 ELSE 2 * Shifted[exponent - 1]

\* The bound on the delay: base.as_nanos() as u64 drops the high bits, the
\* product saturates, and 1 << 62 caps it.
MaxDelay(retries, base) ==
  AtMost(SaturatingTimes(base % U64, Shifted[AtMost(retries, MaxExponent)]), U64 \div 4)

\* A random u64 modulo the bound; no bound, no delay.
RetryDelays(retries, base) ==
  IF MaxDelay(retries, base) = 0 THEN {0} ELSE 0..(MaxDelay(retries, base) - 1)

(***************************************************************************)
(* For every base that fits: "a random value in [0, base * 2^retries)",    *)
(* which reaches the end of that interval while the product is under the   *)
(* cap, never shrinks with the retries, and never becomes a loop without   *)
(* delay when the product overflows.                                       *)
(***************************************************************************)
DelayGrows(base, retries) ==
  LET limit == base * Shifted[AtMost(retries, MaxExponent)] IN
  /\ RetryDelays(retries, base) \subseteq 0..(limit - 1)
  /\ limit <= U64 \div 4 => RetryDelays(retries, base) = 0..(limit - 1)
  /\ RetryDelays(retries, base) \subseteq RetryDelays(retries + 1, base)
  /\ limit >= 2 => RetryDelays(retries, base) # {0}

\* TLC evaluates it for every base; ConnectorProofs proves it for every width,
\* without this assumption.
ASSUME DelaysGrow ==
  \A base \in 1..(U64 - 1), retries \in 0..(MaxExponent + 1) : DelayGrows(base, retries)
=============================================================================
