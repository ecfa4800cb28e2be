-------------------------------- MODULE Floats --------------------------------
(***************************************************************************)
(* The doubles the generated code takes apart, and the class               *)
(* floating_point, on narrower doubles: a sign, an exponent and a mantissa *)
(* with the encodings of IEEE 754, zeros, infinities and NaNs included.    *)
(* A number is a count of the smallest positive double, so that sums and   *)
(* differences are exact.                                                  *)
(***************************************************************************)
EXTENDS Integers

(* The widths, 11 and 52 in a double.                                      *)
ExponentBits == 3
MantissaBits == 2

Width    == 1 + ExponentBits + MantissaBits
Modulus  == 2^Width
SignBit  == 2^(Width - 1)
Infinity == (2^ExponentBits - 1) * 2^MantissaBits

Magnitude(p)  == p % SignBit
IsNegative(p) == p >= SignBit
IsNaN(p)      == Magnitude(p) > Infinity
IsInfinite(p) == Magnitude(p) = Infinity
IsZero(p)     == Magnitude(p) = 0

(* What the bits are as an integer with a sign.                            *)
Signed(p) == IF IsNegative(p) THEN p - Modulus ELSE p

(* std::numeric_limits<double>::min()                                      *)
SmallestNormal == 2^MantissaBits

(* 2.0 has the highest bit of the exponent alone.                          *)
Two == SmallestNormal * 2^(2^(ExponentBits - 1) - 1)

(* An infinity counts for more than any number.                            *)
Absolute(p) ==
    LET exponent == Magnitude(p) \div 2^MantissaBits
        mantissa == p % 2^MantissaBits
    IN  IF exponent = 0 THEN mantissa ELSE (2^MantissaBits + mantissa) * 2^(exponent - 1)

Number(p) == IF IsNegative(p) THEN -Absolute(p) ELSE Absolute(p)

Distance(p, q) == IF Number(p) > Number(q) THEN Number(p) - Number(q) ELSE Number(q) - Number(p)
-----------------------------------------------------------------------------
(* floating_point::compare()                                               *)
FloatCompare(p, q) ==
    CASE IsNaN(p) \/ IsNaN(q)  -> "undefined"
      [] Number(p) = Number(q) -> "0"
      [] Number(p) < Number(q) -> "-1"
      [] OTHER                 -> "1"

(* One over the epsilon, 100000 in the code.                               *)
Epsilon == 10

(* floating_point::nearly_equal().  A quotient of infinities is a NaN,     *)
(* which is below nothing.                                                 *)
NearlyEqual(p, q) ==
    /\ ~IsNaN(p) /\ ~IsNaN(q)
    /\ \/ Number(p) = Number(q)
       \/ /\ ~IsInfinite(p) /\ ~IsInfinite(q)
          /\ IF IsZero(p) \/ IsZero(q) \/ Distance(p, q) < SmallestNormal
             THEN Distance(p, q) * Epsilon < SmallestNormal
             ELSE Distance(p, q) * Epsilon < Absolute(p) + Absolute(q)

(* node::to_boolean()                                                      *)
IsTrue(p) == ~IsZero(p) /\ ~IsNaN(p)
-----------------------------------------------------------------------------
(* The AND of the bits, without the sign, which stands for "one is zero".  *)
ShareBits(p, q) == \E i \in 0..(Width - 2) : (p \div 2^i) % 2 = 1 /\ (q \div 2^i) % 2 = 1

(* The instructions of the almost equal operator.  When the quotient is a  *)
(* NaN, COMISD sets the carry and JNB does not leave.                      *)
AlmostEqualSequence(p, q) ==
    LET infinite == IsInfinite(p) \/ IsInfinite(q)
        below(limit) == ~infinite /\ Distance(p, q) < limit
    IN  /\ ~IsNaN(p) /\ ~IsNaN(q)
        /\ \/ Number(p) = Number(q)
           \/ IF ShareBits(p, q) /\ ~below(SmallestNormal)
              THEN infinite \/ Distance(p, q) * Epsilon < Absolute(p) + Absolute(q)
              ELSE ~infinite /\ Distance(p, q) * Epsilon < SmallestNormal

(* The bits of a difference, against zero: SUBSD keeps the sign of a NaN   *)
(* it is given, makes a negative one of two infinities, and -0.0 of -0.0   *)
(* and 0.0.                                                                *)
SignOfDifference(p, q) ==
    CASE IsNaN(p)                       -> IF IsNegative(p) THEN "-1" ELSE "1"
      [] IsNaN(q)                       -> IF IsNegative(q) THEN "-1" ELSE "1"
      [] IsInfinite(p) /\ p = q         -> "-1"
      [] p = SignBit /\ q = 0           -> "-1"
      [] OTHER                          -> FloatCompare(p, q)

(* The sign is shifted out by an addition; nan_exponent_x2.                *)
Doubled(p)    == (2 * p) % Modulus
NanExponentX2 == 2 * Infinity + 1
===============================================================================
