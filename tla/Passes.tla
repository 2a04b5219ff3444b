--------------------------------- MODULE Passes ---------------------------------
(***************************************************************************)
(* The passes ConstantFoldingPass, PeepholePass and DCE, run on a function *)
(* one after the other (lib/transforms/constant_folding.cpp,               *)
(* peepholes.cpp and dce.cpp).  A step looks at one instruction; removing  *)
(* the unreachable blocks is the first step of DCE.                        *)
(*                                                                         *)
(* plan names the passes to run, the first one being under way if blocks   *)
(* is not empty.                                                           *)
(***************************************************************************)
EXTENDS ConstantFolding, Peepholes, Execution

CONSTANTS NumBlocks, Families, Inputs(_)   \* what the passes are run on

Search == INSTANCE DFS

VARIABLES
    ir,
    plan,       \* the passes to run
    ran,        \* the passes that have been run, or have begun
    blocks,     \* the blocks left to the pass, the current one first
    it,         \* the instruction it is at
    thrown      \* ConstantOutOfRange has left the pass

vars == <<ir, plan, ran, blocks, it, thrown>>

-------------------------------------------------------------------------------

DFSOn(f) == Search!DFSOf(Search!GraphOf([b \in 1 .. NumBlocks |-> Successors(f, b)]), 1, {})

ReversePostOrder(f) == Reverse(DFSOn(f).post_order)

(* Mutant: the blocks as they are listed *)
WalkedInOrder(f, pass) == SetToSortSeq(DOMAIN f.body, <)

(* the blocks a pass goes through; DCE takes them as they are listed *)
Walked(f, pass) ==
    IF pass = "dce" THEN SetToSortSeq(DOMAIN f.body, <) ELSE ReversePostOrder(f)

(* remove_unreachable_blocks *)
ReachableOnly(f) ==
    FoldLeft(BlockErased, f, SetToSeq(DOMAIN f.body \ Range(DFSOn(f).post_order)))

(* the instruction after i, or Nothing at the end of its block *)
NextInstr(f, i) ==
    LET body == f.body[BlockOf(f, i)]
        p    == SelectInSeq(body, LAMBDA k : k = i)
    IN  IF p = Len(body) THEN Nothing ELSE body[p + 1]

(* The pass goes on at i, or at the next block.  Blocks have instructions. *)
GoOnAt(f, i) ==
    IF i # Nothing THEN it' = i /\ UNCHANGED <<blocks, plan>>
    ELSE /\ blocks' = Tail(blocks)
         /\ it' = IF Tail(blocks) = << >> THEN Nothing ELSE Head(f.body[blocks[2]])
         /\ plan' = IF Tail(blocks) = << >> THEN Tail(plan) ELSE plan

Init ==
    /\ \E family \in Families : \E input \in Inputs(family) :
           ir = input.ir /\ plan = input.plan
    /\ ran = {}
    /\ blocks = << >>
    /\ it = Nothing
    /\ thrown = FALSE

Start ==
    LET pass == Head(plan)
        f    == IF pass = "dce" THEN ReachableOnly(ir) ELSE ir
    IN  /\ blocks = << >> /\ plan # << >>
        /\ ir' = f
        /\ blocks' = Walked(f, pass)
        /\ it' = Head(f.body[Head(Walked(f, pass))])
        /\ ran' = ran \cup {pass}
        /\ UNCHANGED <<plan, thrown>>

Under(pass) == blocks # << >> /\ Head(plan) = pass

(* what the lambda of ConstantFoldingPass::run looks for *)
OfConstants(f, i) ==
    /\ Opcode(f, i) \in {"bin", "icmp"}
    /\ IsConst(f, Lhs(f, i)) /\ IsConst(f, Rhs(f, i))

Folds(f, i) ==
    /\ OfConstants(f, i)
    /\ Opcode(f, i) = "bin" =>
           ~NotFolded(f.node[i].attr, f.node[i].type, ConstValue(f, Lhs(f, i)), ConstValue(f, Rhs(f, i)))

FoldedUndefined(f, i) ==
    /\ Folds(f, i) /\ Opcode(f, i) = "bin"
    /\ FoldUndefined(f.node[i].attr, f.node[i].type, ConstValue(f, Lhs(f, i)), ConstValue(f, Rhs(f, i)))

FoldedValue(f, i) ==
    LET n == f.node[i]
        l == ConstValue(f, Lhs(f, i))
        r == ConstValue(f, Rhs(f, i))
    IN  IF n.opcode = "bin" THEN FoldBinaryOperator(n.attr, n.type, l, r)
        ELSE IF FoldICmp(n.attr, l, r) THEN 1 ELSE 0

(* ConstantFoldingPass: one turn of the inner loop *)
FoldConstant ==
    LET type == ir.node[it].type
        f    == ReplacedWithNew(ir, it, Const(type, FoldedValue(ir, it)))
    IN  /\ Under("fold")
        /\ CASE ~Folds(ir, it) ->
                    GoOnAt(ir, NextInstr(ir, it)) /\ UNCHANGED <<ir, thrown>>
             [] FoldedUndefined(ir, it) ->
                    ir' = Undefined(ir) /\ UNCHANGED <<plan, blocks, it, thrown>>
             [] OutOfRange(type, FoldedValue(ir, it)) ->
                    thrown' = TRUE /\ UNCHANGED <<ir, plan, blocks, it>>
             [] OTHER ->
                    /\ ir' = f
                    /\ GoOnAt(f, NextInstr(ir, it))
                    /\ UNCHANGED thrown
        /\ UNCHANGED ran

(* PeepholePass: one turn of the inner loop *)
Rewrite ==
    LET f == Rewritten(ir, it)
    IN  /\ Under("peephole")
        /\ ir' = f
        /\ IF f.undefined THEN UNCHANGED <<plan, blocks, it>>
           ELSE GoOnAt(f, IF YieldsNew(ir, it) THEN FreshInstr(ir) ELSE NextInstr(ir, it))
        /\ UNCHANGED <<ran, thrown>>

Unused(f, i) == ~IsVoid(f, i) /\ BagCardinality(f.users[i]) = 0

(* DCE, remove_unused_instructions: one turn of the inner loop *)
Sweep ==
    LET f == IF Unused(ir, it) THEN Erased(ir, it) ELSE ir
    IN  /\ Under("dce")
        /\ ir' = f
        /\ GoOnAt(f, NextInstr(ir, it))
        /\ UNCHANGED <<ran, thrown>>

Stopped == ir.undefined \/ thrown

Done == (Stopped \/ plan = << >>) /\ UNCHANGED vars

Next ==
    \/ ~Stopped /\ (Start \/ FoldConstant \/ Rewrite \/ Sweep)
    \/ Done

Spec == Init /\ [][Next]_vars

-------------------------------------------------------------------------------

(* what the function returns, where a call returns its argument *)
Outcome(f, args) == LET Call(callee, values) == values[1] IN Returned(f, 1, args, Call)

Arguments(f) ==
    LET arg == {i \in Exists(f) : Opcode(f, i) = "arg"}
    IN  IF arg = {} THEN {<< >>} ELSE {<<x>> : x \in Values(f.node[CHOOSE i \in arg : TRUE].type)}

Negative(f, v) == Signed(f.node[v].type, ConstValue(f, v)) < 0

(* constants of a type narrower than i64 are not sign-extended *)
FoldsUnextended(f, i) ==
    /\ Folds(f, i)
    /\ f.node[i].attr \in {"sdiv", "srem", "shra", "slt", "sle", "sgt", "sge"}
    /\ f.node[Lhs(f, i)].type # "i64"
    /\ Negative(f, Lhs(f, i)) \/ Negative(f, Rhs(f, i))

(* a use of i that i does not know of *)
UnknownUse(f, i) ==
    \E u \in Exists(f) : i \in Range(f.node[u].operands) /\ u \notin UsersOf(f, i)

(* constant_folding.cpp, lines 40-153, and peepholes.cpp, lines 20-337:    *)
(* every turn of every pass keeps what the function returns, unless it     *)
(* folds a signed operation on a negative number of less than 64 bits,     *)
(* merges the constant of an or or an xor into that of an and, or takes    *)
(* away an instruction with a use that is not in its users_.               *)
StepsKeepMeaning ==
    [][ir' # ir /\ ~ir'.undefined =>
          \A args \in Arguments(ir) :
              LET before == Outcome(ir, args)
              IN  before # Poison /\ Outcome(ir', args) # before =>
                      \/ FoldsUnextended(ir, it)
                      \/ Chains(ir, it) /\ ~IsBin(ir, it, "and")
                      \/ UnknownUse(ir, it)]_vars

(* the values with a user in users_ that is gone *)
WithDeadUser(f) == {v \in Exists(f) : ~(UsersOf(f, v) \subseteq Exists(f))}

(* a user that is not gone is entered once for every operand that is v *)
EntriesExact(f) ==
    \A v, u \in Exists(f) :
        Opcode(f, u) \in Registers => Entries(f, v, u) = Cardinality(SlotsOf(f, u, v))

(* i is x op c with x an and of two constants, the second of them c, too:  *)
(* set_lhs enters i once more in the users_ of c, and set_rhs, which gives *)
(* i the merged constant in the place of c, erases both entries            *)
ChainsAndKeeps(f, i) ==
    /\ Processed(f, i) /\ Chains(f, i)
    /\ ConstOperand(f, i) = Rhs(f, i)
    /\ OtherOperand(f, Lhs(f, i)) = Rhs(f, i)

(* the blocks of in that branch to b *)
Branching(f, in, b) == {c \in in : b \in Range(Successors(f, c))}

(* constant_folding.cpp, peepholes.cpp and dce.cpp, lines 12-37: no turn   *)
(* of any pass, those after DCE included, leaves a wrong entry of a user   *)
(* that is still there, but where the constant that chaining exchanges is  *)
(* the operand that it keeps (peepholes.cpp, lines 202-209).  An entry of  *)
(* a user that is gone appears only in the operands of what DCE erases.    *)
(* predecessors_ are the blocks that branch to a block and those that did  *)
(* when they were erased.                                                  *)
ListsStayKnown ==
    [][~ir'.undefined =>
          LET gone == DOMAIN ir.body \ DOMAIN ir'.body
          IN  /\ EntriesExact(ir) /\ ~(Under("peephole") /\ ChainsAndKeeps(ir, it)) =>
                     EntriesExact(ir')
              /\ \A v \in WithDeadUser(ir') \ WithDeadUser(ir) :
                     /\ Head(plan) = "dce"
                     /\ UsersOf(ir, v) \cap (Exists(ir) \ Exists(ir')) # {}
              /\ \A b \in DOMAIN ir'.body :
                     ir'.predecessors[b] = Branching(ir', DOMAIN ir'.body, b)
                                           \cup Branching(ir, gone, b)
                                           \cup (ir.predecessors[b] \ DOMAIN ir.body)]_vars

(* dce.cpp, line 28: an erased instruction stays in the users_ of its      *)
(* operands, and the next pass that replaces one of these goes through     *)
(* that pointer.  But for that the passes run into undefined behaviour     *)
(* only for a product of two i16, for the smallest i64 divided by -1, and  *)
(* for a value that a PHI takes on two paths.                              *)
GoesWrongOnly ==
    [][ir'.undefined =>
          \/ "dce" \in ran /\ it \in WithDeadUser(ir)
          \/ FoldedUndefined(ir, it)
          \/ \E phi \in Exists(ir) : Opcode(ir, phi) = "phi" /\ Cardinality(SlotsOf(ir, phi, it)) > 1]_vars

(* constant_folding.cpp, lines 158-194: one pass folds all that there is,  *)
(* uses of what it folded included, and gives up only for a result of add, *)
(* sub, mul or shl that a type narrower than i64 cannot hold.              *)
FoldsAll ==
    [][Under("fold") =>
          /\ plan' # plan =>
                 \A b \in Range(ReversePostOrder(ir')) : \A i \in Range(ir'.body[b]) : ~Folds(ir', i)
          /\ thrown' =>
                 ir.node[it].attr \in {"add", "sub", "mul", "shl"} /\ ir.node[it].type # "i64"]_vars
===============================================================================
