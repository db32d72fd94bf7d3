-------------------------------- MODULE Words --------------------------------
(***************************************************************************)
(* Machine words of W bits in two's complement, and the operators that C   *)
(* gives them on the hosts the simulator is built for (int and unsigned    *)
(* int of 32 bits there).  A byte has W \div 4 bits and a half word two    *)
(* bytes.                                                                  *)
(***************************************************************************)
EXTENDS Integers, FiniteSetsExt

CONSTANT W

ASSUME WordAssumption == W \in Nat \ {0} /\ W % 4 = 0

Word == -(2^(W - 1)) .. 2^(W - 1) - 1
Byte == 0 .. 2^(W \div 4) - 1

\* The word with the low W bits of n, and the unsigned value of a word.
Wrap(n) == ((n + 2^(W - 1)) % 2^W) - 2^(W - 1)
Unsigned(w) == w % 2^W

Bit(w, k) == (Unsigned(w) \div 2^k) % 2
SignBit(w) == Bit(w, W - 1) = 1

\* The word whose bit k is set where B holds of the bits of x and y.
Bitwise2(B(_, _), x, y) ==
  Wrap(MapThenSumSet(LAMBDA k : IF B(Bit(x, k), Bit(y, k)) THEN 2^k ELSE 0, 0 .. W - 1))

BitAnd(x, y) == Bitwise2(LAMBDA a, b : a = 1 /\ b = 1, x, y)
BitOr(x, y)  == Bitwise2(LAMBDA a, b : a = 1 \/ b = 1, x, y)
BitXor(x, y) == Bitwise2(LAMBDA a, b : a # b, x, y)
BitNot(x)    == -x - 1

\* x << n and x >> n of C, the latter for a signed x.
ShiftLeft(x, n)  == Wrap(x * 2^n)
ShiftRight(x, n) == x \div 2^n

\* Number of bits of n bytes, and the mask that keeps them.
Bits(n) == n * (W \div 4)
Mask(n) == Wrap(2^Bits(n) - 1)
=============================================================================
