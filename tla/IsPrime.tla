------------------------------ MODULE IsPrime -------------------------------
(***************************************************************************)
(* The primality test of primefinder/prime.py, which the workers apply to  *)
(* every number of their chunk: trial division, then Miller-Rabin with     *)
(* fixed bases.                                                            *)
(***************************************************************************)
EXTENDS Naturals

example_primes == {2, 3, 5, 7, 11, 13, 17, 19, 23, 29, 31, 37}
test_base == {2, 325, 9375, 28178, 450775, 9780504, 1795265022}

\* pow(a, d, m)
pow(a, d, m) ==
  LET f[k \in 0..d] ==
        IF k = 0 THEN 1 % m
        ELSE IF k % 2 = 0 THEN (f[k \div 2]^2) % m
        ELSE (f[k - 1] * (a % m)) % m
  IN  f[d]

\* m - 1 = d * 2^s with d odd
Twos(m) == CHOOSE s \in 0..16 : (m - 1) % 2^s = 0 /\ ((m - 1) \div 2^s) % 2 = 1
OddPart(m) == (m - 1) \div 2^Twos(m)

\* One base lets m pass: a^d is 1 or -1, or one of its squares is -1.
Passes(a, m) ==
  \/ m % a = 0
  \/ pow(a, OddPart(m), m) = 1
  \/ \E r \in 0..Twos(m) - 1 : pow(a, OddPart(m) * 2^r, m) = m - 1

is_prime(m) ==
  /\ m >= 2
  /\ \/ m \in example_primes
     \/ /\ \A p \in example_primes : m % p # 0
        /\ \A a \in test_base : Passes(a, m)

\* What a prime is, and the bound up to which the test is compared with it.
Prime(m) == m > 1 /\ \A k \in 2..m - 1 : m % k # 0
MaxNumber == 400

\* The primes that divide a base: the code leaves out the bases that divide m
\* where it should leave out those that are multiples of m, so it finds 73, a
\* divisor of 28178, composite.
DividesBase(m) == m \notin example_primes /\ \E a \in test_base : a % m = 0

\* The test is right for every other number.
ASSUME PrimalityAssumption ==
  \A m \in 0..MaxNumber : is_prime(m) <=> Prime(m) /\ ~DividesBase(m)
=============================================================================
