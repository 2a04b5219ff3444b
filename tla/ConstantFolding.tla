---------------------------- MODULE ConstantFolding ----------------------------
(***************************************************************************)
(* What lib/transforms/constant_folding.cpp makes of two constants: the    *)
(* operation is done by C++, on constants that were zero-extended to       *)
(* uintmax_t.  Module Passes walks the function with it.                   *)
(***************************************************************************)
EXTENDS IntTypes

(* integral promotion of uint8_t, uint16_t and bool *)
Promotes(type) == Width[type] < Width["i32"]

IntMax == 2 ^ (Width["i32"] - 1) - 1

(* division by zero, or a shift by the type's width or more *)
NotFolded(op, type, l, r) ==
    \/ op \in {"udiv", "sdiv", "urem", "srem"} /\ r = 0
    \/ op \in {"shl", "shra", "shrl"} /\ r >= Width[type]

(* The product of two uint16_t overflows the int that both promote to, and *)
(* the smallest intmax_t has no quotient by -1.                            *)
FoldUndefined(op, type, l, r) ==
    \/ op = "mul" /\ Promotes(type) /\ l * r > IntMax
    \/ op \in {"sdiv", "srem"} /\ ToSigned(l) = -(2 ^ (Width["i64"] - 1)) /\ ToSigned(r) = -1

(* apply_bin_op of a function object of <functional>: in int for narrow    *)
(* types, modulo the width for the others, then converted to uintmax_t     *)
StandardOp(type, z) == IF Promotes(type) THEN ToUnsigned(z) ELSE z % 2 ^ Width[type]

(* fold_binary_operator; the lambdas take their operands as uintmax_t *)
FoldBinaryOperator(op, type, l, r) ==
    CASE op = "add"  -> StandardOp(type, l + r)
      [] op = "sub"  -> StandardOp(type, l - r)
      [] op = "mul"  -> StandardOp(type, l * r)
      [] op = "udiv" -> l \div r
      [] op = "urem" -> l % r
      [] op = "sdiv" -> ToUnsigned(Quotient(ToSigned(l), ToSigned(r)))
      [] op = "srem" -> ToUnsigned(Remainder(ToSigned(l), ToSigned(r)))
      [] op = "shl"  -> ToUnsigned(l * 2 ^ r)
      [] op = "shra" -> ToUnsigned(ToSigned(l) \div 2 ^ r)
      [] op = "shrl" -> l \div 2 ^ r
      [] op = "and"  -> BitAnd(l, r)
      [] op = "or"   -> BitOr(l, r)
      [] op = "xor"  -> BitXor(l, r)

(* fold_icmp *)
FoldICmp(kind, l, r) ==
    CASE kind = "eq"  -> l = r
      [] kind = "ne"  -> l # r
      [] kind = "ugt" -> l > r
      [] kind = "uge" -> l >= r
      [] kind = "ult" -> l < r
      [] kind = "ule" -> l <= r
      [] kind = "sgt" -> ToSigned(l) > ToSigned(r)
      [] kind = "sge" -> ToSigned(l) >= ToSigned(r)
      [] kind = "slt" -> ToSigned(l) < ToSigned(r)
      [] kind = "sle" -> ToSigned(l) <= ToSigned(r)

(* the constructor of ConstInstruction throws ConstantOutOfRange *)
OutOfRange(type, value) == value > MaxValue(type)
===============================================================================
