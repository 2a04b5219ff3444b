-------------------------------- MODULE MCInline --------------------------------
(* Callees of up to three blocks and callers around one or two calls.      *)
EXTENDS Inline

MCWidth == [type \in Types |->
    CASE type = "i1" -> 1 [] type = "i8" -> 2 [] type = "i16" -> 3 [] type = "i32" -> 5 [] type = "i64" -> 6]

(* Code is a sequence of <<block, name, node>>; operands are names. *)
Built(code) ==
    LET lines == DOMAIN code
        blocks == {code[k][1] : k \in lines}
        Number(name) == SelectInSeq(code, LAMBDA line : line[2] = name)
        node == [k \in lines |->
                    [code[k][3] EXCEPT !.operands = [slot \in DOMAIN @ |-> Number(@[slot])]]
                        @@ [parent |-> code[k][1]]]
        Uses(u, v) == IF node[u].opcode \in Registers
                      THEN {slot \in DOMAIN node[u].operands : node[u].operands[slot] = v} ELSE {}
        body == [b \in blocks |-> SelectSeq([k \in lines |-> k], LAMBDA k : node[k].parent = b)]
        Rest(b) == SelectSeq(body[b], LAMBDA k : node[k].opcode # "phi")
    IN  [body |-> body, node |-> node,
         users |-> [v \in lines |-> [u \in {u \in lines : Uses(u, v) # {}} |-> Cardinality(Uses(u, v))]],
         first_non_phi |-> [b \in blocks |-> IF Rest(b) = << >> THEN End ELSE Head(Rest(b))],
         predecessors |-> [b \in blocks |-> {c \in blocks : b \in Range(node[Last(body[c])].paths)}],
         rets |-> {k \in lines : node[k].opcode = "ret"},
         callees |-> {node[k].attr : k \in {j \in lines : node[j].opcode = "call"}},
         undefined |-> FALSE]

Arg == Node("arg", "i8", 1, << >>, << >>)
Ret(operands) == Node("ret", "void", "", operands, << >>)
Value(v) == [slot \in {"value"} |-> v]
CondBr(v, paths) == Node("br", "void", "", [slot \in {"condition"} |-> v], paths)
Call(name, type, v) == Node("call", type, name, <<v>>, << >>)
Phi(records) == Node("phi", "i8", "", records, << >>)
ICmp(kind, lhs, rhs) == [Bin(kind, "i1", lhs, rhs) EXCEPT !.opcode = "icmp"]
Line(b, what, n) == <<b, <<b, what>>, n>>

(* Block b of a callee with graph succ: what its PHI or its predecessor    *)
(* has, or the parameter, combined with the parameter or a constant, and   *)
(* compared for the branch.                                                *)
BlockCode(succ, b, void, nested) ==
    LET preds == {p \in 1 .. NumBlocks : b \in Range(succ[p])}
        base  == IF b = 1 \/ preds = {} THEN <<1, "arg">>
                 ELSE IF Cardinality(preds) >= 2 THEN <<b, "phi">>
                 ELSE <<CHOOSE p \in preds : TRUE, "value">>
        start == IF b = 1
                 THEN <<Line(1, "arg", Arg), Line(1, "one", Const("i8", 1))>>
                      \o (CASE nested = "nothing" -> << >>
                            [] nested = "check" -> <<Line(1, "check", Node("check", "void", "", <<<<1, "arg">>>>, << >>))>>
                            [] OTHER -> <<Line(1, "call", Call(nested, "i8", <<1, "arg">>))>>)
                 ELSE IF Cardinality(preds) >= 2
                 THEN <<Line(b, "phi", Phi([p \in preds |-> <<p, "value">>]))>> ELSE << >>
        value == CASE b = 1 -> Bin("sub", "i8", <<1, IF nested \in {"nothing", "check"} THEN "one" ELSE "call">>, base)
                   [] b = 2 -> Bin("add", "i8", base, <<1, "arg">>)
                   [] b = 3 -> Bin("shrl", "i8", base, <<1, "one">>)
    IN  start
        \o <<Line(b, "value", value), Line(b, "less", ICmp("ult", <<b, "value">>, base)),
             Line(b, "end", CASE succ[b] = << >> -> Ret(IF void THEN << >> ELSE Value(<<b, "value">>))
                              [] Len(succ[b]) = 1 -> Br(succ[b])
                              [] Len(succ[b]) = 2 -> CondBr(<<b, "less">>, succ[b]))>>

Callee(succ, void, nested) ==
    Built(FlattenSeq([b \in 1 .. NumBlocks |-> BlockCode(succ, b, void, nested)]))

(* graphs whose entry nothing leads to; blocks may be dead *)
Graphs ==
    {succ \in [1 .. NumBlocks -> {<< >>} \cup {<<b>> : b \in 2 .. NumBlocks} \cup {<<2, 3>>}] :
        succ[1] # << >> \/ (succ[2] = << >> /\ succ[3] = << >>)}

(* callers: a block with two calls, or one; a call in a loop, before a     *)
(* PHI, and between them                                                   *)
TheCall(b, void, v) == Line(b, "call", Call("callee", IF void THEN "void" ELSE "i8", v))

Result(b, void) == IF void THEN <<1, "arg">> ELSE <<b, "call">>

Start == <<Line(1, "arg", Arg), Line(1, "one", Const("i8", 1))>>

Twice(void) ==
    Start \o <<Line(1, "call", Call("callee", IF void THEN "void" ELSE "i8", <<1, "one">>)),
               Line(1, "sum", Bin("sub", "i8", Result(1, void), <<1, "arg">>)),
               <<1, <<2, "call">>, Call("callee", IF void THEN "void" ELSE "i8", <<1, "sum">>)>>,
               Line(1, "value", Bin("sub", "i8", IF void THEN <<1, "sum">> ELSE <<2, "call">>, <<1, "sum">>)),
               Line(1, "end", Ret(Value(<<1, "value">>)))>>

(* 1 -> 2 or 3, 2 -> 3; block 3 returns a value of its own, or a PHI's *)
Branch(void, phi) ==
    Start \o <<Line(1, "less", ICmp("ule", <<1, "arg">>, <<1, "one">>)),
               Line(1, "end", CondBr(<<1, "less">>, <<2, 3>>)),
               TheCall(2, void, <<1, "arg">>),
               Line(2, "value", Bin("sub", "i8", Result(2, void), <<1, "one">>)),
               Line(2, "end", IF phi THEN Br(<<3>>) ELSE Ret(Value(<<2, "value">>)))>>
          \o (IF phi THEN <<Line(3, "phi", Phi((1 :> <<1, "arg">>) @@ (2 :> <<2, "value">>)))>> ELSE << >>)
          \o <<Line(3, "end", Ret(Value(IF phi THEN <<3, "phi">> ELSE <<1, "one">>)))>>

(* 1 -> 2 -> 3 -> 2 or 4 with the call in block 3 or 4, and a PHI in 2 *)
Loop(void, b) ==
    Start \o <<Line(1, "end", Br(<<2>>)),
               Line(2, "phi", Phi((1 :> <<1, "one">>) @@ (3 :> <<3, "value">>))),
               Line(2, "end", Br(<<3>>))>>
          \o (IF b = 3 THEN <<TheCall(3, void, <<2, "phi">>)>> ELSE << >>)
          \o <<Line(3, "value", Bin("shrl", "i8", IF b = 3 THEN Result(3, void) ELSE <<2, "phi">>, <<1, "one">>)),
               Line(3, "less", ICmp("ult", <<1, "one">>, <<3, "value">>)),
               Line(3, "end", CondBr(<<3, "less">>, <<2, 4>>))>>
          \o (IF b = 4 THEN <<TheCall(4, void, <<2, "phi">>)>> ELSE << >>)
          \o <<Line(4, "end", Ret(Value(IF b = 4 THEN Result(4, void) ELSE <<3, "value">>)))>>

Caller(what, void) ==
    CASE what \in {"first and second", "second and first"} -> Twice(void)
      [] what = "branch"          -> Branch(void, FALSE)
      [] what = "branch to a phi" -> Branch(void, TRUE)
      [] what = "loop"            -> Loop(void, 3)
      [] what = "after a loop"    -> Loop(void, 4)

Calls(what) ==
    CASE what = "first and second" -> <<1, 2>>
      [] what = "second and first" -> <<2, 1>>
      [] what \in {"branch", "branch to a phi"} -> <<2>>
      [] what = "loop"            -> <<3>>
      [] what = "after a loop"    -> <<4>>

MCFamilies ==
    {"first and second", "second and first", "branch", "branch to a phi", "loop", "after a loop"}
    \X BOOLEAN \X Graphs \X {"nothing", "check", "other", "callee"}

MCInputs(family) ==
    LET code  == Caller(family[1], family[2])
        names == Calls(family[1])
    IN  {[caller |-> Built(code),
          callee |-> Callee(family[3], family[2], family[4]),
          calls  |-> [k \in DOMAIN names |-> SelectInSeq(code, LAMBDA line : line[2] = <<names[k], "call">>)]]}
===============================================================================
