-------------------------------- MODULE IntTypes --------------------------------
(***************************************************************************)
(* The integer types of the IR and their constants (IR/type.hpp,           *)
(* IR/constant_instruction.hpp), and what integers of C++ do to them.      *)
(*                                                                         *)
(* Width gives each type its bits.  They may be scaled down, as long as    *)
(* they stay in order and the product of two i16 overflows an int and that *)
(* of two i8 does not: i32 has the width of int, i64 that of uintmax_t.    *)
(***************************************************************************)
EXTENDS FiniteSetsExt, Integers

CONSTANT Width

Types == {"i1", "i8", "i16", "i32", "i64"}

ASSUME IntTypesAssumption ==
    /\ Width \in [Types -> Nat \ {0}]
    /\ Width["i1"] = 1
    /\ 2 * Width["i8"] < Width["i32"] /\ 2 * Width["i16"] > Width["i32"] - 1
    /\ Width["i16"] + 1 < Width["i32"] /\ Width["i32"] < Width["i64"]

(* ConstInstruction::max_value *)
MaxValue(type) == 2 ^ Width[type] - 1

Values(type) == 0 .. MaxValue(type)

(* std::uintmax_t and std::intmax_t *)
ToUnsigned(z) == z % 2 ^ Width["i64"]

(* the two's-complement integer of a value of a type *)
Signed(type, x) == IF x >= 2 ^ (Width[type] - 1) THEN x - 2 ^ Width[type] ELSE x

ToSigned(x) == Signed("i64", x)

Bits(x) == {k \in 0 .. Width["i64"] - 1 : (x \div 2 ^ k) % 2 = 1}

FromBits(bits) == FoldSet(LAMBDA k, sum : sum + 2 ^ k, 0, bits)

BitAnd(x, y) == FromBits(Bits(x) \cap Bits(y))

BitOr(x, y) == FromBits(Bits(x) \cup Bits(y))

BitXor(x, y) == FromBits((Bits(x) \cup Bits(y)) \ (Bits(x) \cap Bits(y)))

(* / and % of C++ round towards zero *)
Quotient(z, w) ==
    LET q == (IF z < 0 THEN -z ELSE z) \div (IF w < 0 THEN -w ELSE w)
    IN  IF (z < 0) = (w < 0) THEN q ELSE -q

Remainder(z, w) == z - w * Quotient(z, w)
===============================================================================
