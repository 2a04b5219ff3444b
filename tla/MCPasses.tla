-------------------------------- MODULE MCPasses --------------------------------
(* Small functions, instruction by instruction, and the passes to run.     *)
EXTENDS Passes

MCWidth == [type \in Types |->
    CASE type = "i1" -> 1 [] type = "i8" -> 2 [] type = "i16" -> 3 [] type = "i32" -> 5 [] type = "i64" -> 6]

(* code lists the instructions, each with its block; numbers are operands *)
Built(code) ==
    FoldLeft(LAMBDA f, k : EmplacedBack(f, code[k][1], k, code[k][2]),
             EmptyFunction({code[k][1] : k \in DOMAIN code}),
             [k \in DOMAIN code |-> k])

Arg == Node("arg", "i8", 1, << >>, << >>)
C(value) == Const("i8", value)
Ret(v) == Node("ret", "void", "", [slot \in {"value"} |-> v], << >>)
Goto(b) == Br(<<b>>)
CondBr(v, b, c) == Node("br", "void", "", [slot \in {"condition"} |-> v], <<b, c>>)
Call(v) == Node("call", "i8", "callee", <<v>>, << >>)
Phi(records) == Node("phi", "i8", "", records, << >>)
ICmp(kind, lhs, rhs) == [Bin(kind, "i1", lhs, rhs) EXCEPT !.opcode = "icmp"]

BinOps == {"add", "sub", "mul", "udiv", "sdiv", "urem", "srem", "shl", "shra", "shrl", "and", "or", "xor"}
Kinds == {"eq", "ne", "ugt", "uge", "ult", "ule", "sgt", "sge", "slt", "sle"}

(* the numbers around 0, the width, and the middle and end of the range *)
Sample(type) ==
    CASE type \in {"i1", "i8", "i16"} -> Values(type)
      [] type = "i32" -> {0, 1, 4, 5, 15, 16, 31}
      [] type = "i64" -> {0, 1, 2, 31, 32, 63}

(* two constants of a type and one operation on them *)
OfConstantsOf(type) ==
    {[ir |-> Built(<<<<1, Const(type, x)>>, <<1, Const(type, y)>>, <<1, n>>, <<1, Ret(3)>>>>),
      plan |-> <<"fold">>] :
        x \in Sample(type), y \in Sample(type),
        n \in {Bin(op, type, 1, 2) : op \in BinOps} \cup {ICmp(kind, 1, 2) : kind \in Kinds}}

Plans == {<<"fold", "peephole">>, <<"peephole", "fold">>, <<"peephole", "dce">>, <<"dce", "peephole">>}

(* Two operations in blocks 3 and 2 on an argument, constants and, the     *)
(* second one, the first; the function returns it or a call's result.      *)
TwoOperations(inner) ==
    {[ir |-> Built(<<<<1, Arg>>, <<1, C(consts[1])>>, <<1, C(consts[2])>>, <<1, Goto(3)>>,
                     <<3, Bin(inner, "i8", xy[1], xy[2])>>, <<3, Goto(2)>>,
                     <<2, Bin(outer, "i8", zw[1], zw[2])>>>>
                   \o (IF call THEN <<<<2, Call(7)>>, <<2, Ret(8)>>>> ELSE <<<<2, Ret(7)>>>>)),
      plan |-> passes] :
        consts \in {<<1, 2>>, <<0, 3>>, <<3, 1>>},
        xy \in (1 .. 3) \X (1 .. 3),
        outer \in {"add", "shrl", "and", "or", "xor"},
        zw \in {<<5, 5>>} \cup ({5} \X (1 .. 3)) \cup ((1 .. 3) \X {5}),
        call \in BOOLEAN,
        passes \in Plans}

(* An if with an operation before it, and a PHI behind it that may have a  *)
(* record for a block that nothing leads to, for a value from that block   *)
(* or not.                                                                 *)
IfThenPhi(op) ==
    {[ir |-> Built(<<<<1, Arg>>, <<1, C(1)>>, <<1, C(0)>>,
                     <<1, Bin(op, "i8", xy[1], xy[2])>>, <<1, ICmp("ult", 1, 2)>>, <<1, CondBr(5, 2, 3)>>,
                     <<2, Goto(4)>>, <<3, Goto(4)>>>>
                   \o (IF dead = << >> THEN << >>
                       ELSE <<<<5, Bin("sub", "i8", 4, 4)>>, <<5, Goto(4)>>>>)
                   \o <<<<4, Phi((2 :> vw[1]) @@ (3 :> vw[2]) @@
                                 (IF dead = << >> THEN << >> ELSE 5 :> dead[1]))>>,
                        <<4, Ret(IF dead = << >> THEN 9 ELSE 11)>>>>),
      plan |-> passes] :
        xy \in (1 .. 3) \X (1 .. 3),
        vw \in {1, 4} \X {1, 4},
        dead \in {<< >>, <<4>>, <<9>>},
        passes \in Plans}

MCFamilies == Types \cup {"and", "sub"} \cup {"phi add", "phi xor"}

MCInputs(family) ==
    CASE family \in Types -> OfConstantsOf(family)
      [] family \in {"and", "sub"} -> TwoOperations(family)
      [] family = "phi add" -> IfThenPhi("add")
      [] family = "phi xor" -> IfThenPhi("xor")
===============================================================================
