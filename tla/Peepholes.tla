------------------------------- MODULE Peepholes -------------------------------
(***************************************************************************)
(* The rewriting of one instruction by lib/transforms/peepholes.cpp: what  *)
(* process_add, process_shrl, process_and, process_or, process_xor and     *)
(* bitwise_instr_chaining find, and what they do to the function.  Module  *)
(* Passes walks the function with it.                                      *)
(*                                                                         *)
(* process_xor asserts that the instruction is an or (line 290), so that   *)
(* a build with assertions stops at every xor, and chaining asserts that   *)
(* the instruction is not the first of its block (line 204), which it may  *)
(* well be.  This is a build without.                                      *)
(***************************************************************************)
EXTENDS IRCore, IntTypes

Nothing == 0    \* no instruction; instructions are numbered from 1

IsBin(ir, i, op) == Opcode(ir, i) = "bin" /\ ir.node[i].attr = op

IsConst(ir, i) == Opcode(ir, i) = "const"

ConstValue(ir, i) == ir.node[i].attr

Lhs(ir, i) == Operand(ir, i, "lhs")

Rhs(ir, i) == Operand(ir, i, "rhs")

(* The operand that an if over both looks at: lhs if it is a constant,     *)
(* else rhs if it is.  The functions look at the other one only then.      *)
ConstOperand(ir, i) ==
    IF IsConst(ir, Lhs(ir, i)) THEN Lhs(ir, i)
    ELSE IF IsConst(ir, Rhs(ir, i)) THEN Rhs(ir, i)
    ELSE Nothing

(* Mutant: the right operand is taken whichever is the constant *)
OtherOperandRight(ir, i) == Rhs(ir, i)

OtherOperand(ir, i) == IF IsConst(ir, Lhs(ir, i)) THEN Rhs(ir, i) ELSE Lhs(ir, i)

(* the operand that i is equal to and is replaced with, for op one of add, *)
(* shrl, and, or and xor: x + 0, 0 >> x, x >> 0, x & 0, x & 1..1, x & x,   *)
(* x | 0, x | 1..1, x | x, x ^ 0, and with the operands exchanged          *)
SameAs(ir, i) ==
    LET op == ir.node[i].attr
        c  == ConstOperand(ir, i)
        x  == OtherOperand(ir, i)
    IN  IF c = Nothing
        THEN IF op \in {"and", "or"} /\ Lhs(ir, i) = Rhs(ir, i) THEN Lhs(ir, i) ELSE Nothing
        ELSE IF ConstValue(ir, c) = 0
        THEN CASE op = "and"  -> c
               [] op = "shrl" -> Lhs(ir, i)
               [] OTHER       -> x
        ELSE IF op \in {"and", "or"} /\ ConstValue(ir, c) = MaxValue(ir.node[i].type)
        THEN IF op = "and" THEN x ELSE c
        ELSE Nothing

(* x + (0 - y), (0 - y) + x: the subtraction, and it is the left operand   *)
(* if both are subtractions                                                *)
Negation(ir, i) ==
    LET sub == IF IsBin(ir, Lhs(ir, i), "sub") THEN Lhs(ir, i)
               ELSE IF IsBin(ir, Rhs(ir, i), "sub") THEN Rhs(ir, i)
               ELSE Nothing
    IN  IF /\ IsBin(ir, i, "add") /\ ConstOperand(ir, i) = Nothing /\ sub # Nothing
           /\ IsConst(ir, Lhs(ir, sub)) /\ ConstValue(ir, Lhs(ir, sub)) = 0
        THEN sub ELSE Nothing

(* bitwise_instr_chaining: i has a constant and, whatever i is, an and     *)
(* that has another one                                                    *)
Chains(ir, i) ==
    LET x == OtherOperand(ir, i)
    IN  /\ ir.node[i].attr \in {"and", "or", "xor"} /\ ConstOperand(ir, i) # Nothing
        /\ SameAs(ir, i) = Nothing
        /\ IsBin(ir, x, "and") /\ ConstOperand(ir, x) # Nothing

(* the function object that is passed to it: process_xor passes bit_or *)
ChainedConst(ir, i) ==
    LET c == ConstValue(ir, ConstOperand(ir, i))
        d == ConstValue(ir, ConstOperand(ir, OtherOperand(ir, i)))
    IN  IF IsBin(ir, i, "and") THEN BitAnd(c, d) ELSE BitOr(c, d)

(* a new instruction n before i, which i is then replaced with *)
ReplacedWithNew(ir, i, n) ==
    LET b == BlockOf(ir, i)
        j == FreshInstr(ir)
    IN  InstructionReplaced(Emplaced(ir, b, SelectInSeq(ir.body[b], LAMBDA k : k = i), j, n), i, j)

(* lines 202-209: a new constant before i, then set_lhs and set_rhs *)
Chained(ir, i) ==
    LET b == BlockOf(ir, i)
        j == FreshInstr(ir)
        n == Const(ir.node[i].type, ChainedConst(ir, i))
        x == OtherOperand(ir, OtherOperand(ir, i))
        f == Emplaced(ir, b, SelectInSeq(ir.body[b], LAMBDA k : k = i), j, n)
    IN  OperandSet(OperandSet(f, i, "lhs", x), i, "rhs", j)

Cancels(ir, i) == IsBin(ir, i, "xor") /\ ConstOperand(ir, i) = Nothing /\ Lhs(ir, i) = Rhs(ir, i)

(* the instructions that process_instruction looks into *)
Processed(ir, i) == Opcode(ir, i) = "bin" /\ ir.node[i].attr \in {"add", "shrl", "and", "or", "xor"}

(* Instructions new to the function are returned and processed next; after *)
(* all other rewrites it is the instruction that came after i.             *)
YieldsNew(ir, i) == Processed(ir, i) /\ (Negation(ir, i) # Nothing \/ Cancels(ir, i))

(* process_instruction: the function after the rewriting of i *)
Rewritten(ir, i) ==
    LET type == ir.node[i].type
        sub  == Negation(ir, i)
    IN  IF ~Processed(ir, i) THEN ir
        ELSE IF SameAs(ir, i) # Nothing THEN InstructionReplaced(ir, i, SameAs(ir, i))
        ELSE IF sub # Nothing
        THEN ReplacedWithNew(ir, i,
                 Bin("sub", type, IF sub = Lhs(ir, i) THEN Rhs(ir, i) ELSE Lhs(ir, i), Rhs(ir, sub)))
        ELSE IF Cancels(ir, i) THEN ReplacedWithNew(ir, i, Const(type, 0))
        ELSE IF Chains(ir, i) THEN Chained(ir, i)
        ELSE ir
===============================================================================
