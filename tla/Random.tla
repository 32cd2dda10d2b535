------------------------------- MODULE Random -------------------------------
(***************************************************************************)
(* task_utils.cpp getRandom: the delay before the first expiry of a        *)
(* heartbeat timer.  int times uint32_t is computed in uint32_t, modulo    *)
(* 2 * (RAND_MAX + 1).                                                     *)
(***************************************************************************)
EXTENDS Integers

CONSTANT RAND_MAX    \* 2^31 - 1 on the machines this is built for

ASSUME RandMaxAssumption == RAND_MAX \in Nat \ {0, 1}

UINT_MOD == 2 * (RAND_MAX + 1)

\* The quotient, and what it would be if max were an int.
GetRandom_Signed(rand, max) ==
  LET x == (rand * max) % UINT_MOD IN
    IF x > RAND_MAX THEN UINT_MOD - (UINT_MOD - x) \div RAND_MAX ELSE x \div RAND_MAX
GetRandom(rand, max) == ((rand * max) % UINT_MOD) \div RAND_MAX

\* Although the product wraps, no delay is longer than the period asked for:
\* a thread's first heartbeat is not later than its second would be.
NeverLonger ==
  \A rand \in 0..RAND_MAX, max \in 0..(UINT_MOD - 1) : GetRandom(rand, max) \in 0..max
=============================================================================
