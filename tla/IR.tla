----------------------------------- MODULE IR -----------------------------------
(***************************************************************************)
(* Clients that build, rewire, replace and remove instructions of one      *)
(* function in any order, through the public operations of BasicBlock and  *)
(* of the instructions (module IRCore).                                    *)
(*                                                                         *)
(* "bin" stands for ICmpInstruction too, "const" for ArgumentInstruction.  *)
(* Types but void are left out: a mismatch throws before anything changes. *)
(* The model ends where the behaviour is undefined and where users_ first  *)
(* disagrees with the operands.                                            *)
(***************************************************************************)
EXTENDS IRCore

CONSTANTS Block, Instr, Callee, Opcodes

ASSUME IRAssumption ==
    /\ Block # {} /\ Instr \cap Block = {}
    /\ Opcodes \subseteq {"const", "bin", "ret", "br", "phi", "check", "load", "call"}
    /\ End \notin Instr /\ Freed \notin Instr

VARIABLE ir

-------------------------------------------------------------------------------

(* Operands have a type other than void: each constructor and setter wants *)
(* it equal to the type of another operand, of the function or to i1.      *)
Values == {v \in Exists(ir) : ~IsVoid(ir, v)}

TypeOf(opcode) == IF opcode \in {"ret", "br", "check"} THEN "void" ELSE "value"

(* What clients may give a new instruction: slots, paths and a callee. *)
SlotSets(opcode) ==
    CASE opcode = "bin"   -> {{"lhs", "rhs"}}
      [] opcode = "ret"   -> {{}, {"value"}}
      [] opcode = "br"    -> {{}, {"condition"}}
      [] opcode \in {"check", "load"} -> {{"input"}}
      [] opcode = "call"  -> {{"argument"}}
      [] OTHER            -> {{}}

(* A branch has two paths if it has a condition and one if not.  Where     *)
(* they lead decides predecessors_ alone: here, back to their own block b. *)
Paths(opcode, slots, b) ==
    IF opcode = "br" THEN [k \in 1 .. 1 + Cardinality(slots) |-> b] ELSE << >>

Nodes(opcode, b) ==
    UNION {[opcode   : {opcode},
            type     : {TypeOf(opcode)},
            attr     : IF opcode = "call" THEN Callee ELSE {""},
            operands : [slots -> Values],
            paths    : {Paths(opcode, slots, b)}] : slots \in SlotSets(opcode)}

(* emplace throws for a PHI after another instruction and for a branch     *)
(* before the end.  What it does not check and the passes and tests keep:  *)
(* nothing else comes before a PHI, a ret is last, a terminator once.      *)
Placeable(opcode, b, p) ==
    LET Before == Opcode(ir, ir.body[b][p - 1])
    IN  /\ opcode = "phi" /\ p > 1 => Before = "phi"
        /\ opcode # "phi" /\ p <= Len(ir.body[b]) => Opcode(ir, ir.body[b][p]) # "phi"
        /\ IsTerminator(opcode) => p = Len(ir.body[b]) + 1
        /\ p > 1 => ~IsTerminator(Before)

-------------------------------------------------------------------------------

Init == ir = EmptyFunction(Block)

Emplace ==
    \E opcode \in Opcodes, b \in Block, i \in Instr \ Exists(ir) :
        \E p \in 1 .. Len(ir.body[b]) + 1, n \in Nodes(opcode, b) :
            Placeable(opcode, b, p) /\ ir' = Emplaced(ir, b, p, i, n)

Phis == {phi \in Exists(ir) : Opcode(ir, phi) = "phi"}

AddPath ==
    \E phi \in Phis, v \in Values, b \in Block : ir' = PathAdded(ir, phi, b, v)

RemovePath ==
    \E phi \in Phis : \E b \in DOMAIN ir.node[phi].operands : ir' = PathRemoved(ir, phi, b)

(* set_ret_value and set_condition go through a null operand if there is   *)
(* none: clients set one that is there.                                    *)
SetOperand ==
    \E i \in Exists(ir), v \in Values :
        \E s \in DOMAIN ir.node[i].operands :
            Opcode(ir, i) \in {"bin", "br", "ret"} /\ ir' = OperandSet(ir, i, s, v)

(* a value replaced with itself dangles: no pass does it *)
ReplaceInstruction ==
    \E from, to \in Values : from # to /\ ir' = InstructionReplaced(ir, from, to)

(* it throws for anything but a void instruction *)
RemoveInstruction ==
    \E i \in Exists(ir) : IsVoid(ir, i) /\ ir' = InstructionRemoved(ir, i)

Next ==
    /\ ~ir.undefined /\ UsersKnown(ir)
    /\ \/ Emplace
       \/ AddPath
       \/ RemovePath
       \/ SetOperand
       \/ ReplaceInstruction
       \/ RemoveInstruction

Spec == Init /\ [][Next]_ir

-------------------------------------------------------------------------------

(* instruction.hpp, lines 94-95 and 124-128: users_ stays the multiset of  *)
(* uses, which DCE and replace_with count on, until one of two operands    *)
(* that have the same value is set or removed without the other, or        *)
(* add_path is given a block that the PHI has a record for.                *)
UsersWrongOnly ==
    [][~ir'.undefined /\ ~UsersKnown(ir') =>
          \E u \in Exists(ir) \cap Exists(ir') :
              \/ \E v \in Exists(ir) : Cardinality(SlotsOf(ir, u, v)) > 1 /\ SlotsOf(ir', u, v) # {}
              \/ Opcode(ir, u) = "phi" /\ ir'.node[u] = ir.node[u] /\ ir.node[u].operands # << >>]_ir

(* basic_block.hpp, lines 151-158: replacing and removing instructions     *)
(* leaves no operand behind that is gone, in instructions that register.   *)
OperandsExist ==
    ~ir.undefined =>
        \A u \in Exists(ir) :
            Opcode(ir, u) \in Registers => Range(ir.node[u].operands) \subseteq Exists(ir)

(* basic_block.hpp, lines 106-111, 127-129 and 160-174: first_non_phi_     *)
(* parts a block into phi_instructions() and non_phi_instructions().       *)
PhisBeforeFirstNonPhi ==
    \A b \in Block : \A p \in DOMAIN ir.body[b] :
        Opcode(ir, ir.body[b][p]) = "phi" <=>
            \/ ir.first_non_phi[b] = End
            \/ p < SelectInSeq(ir.body[b], LAMBDA i : i = ir.first_non_phi[b])

(* instruction.cpp, lines 30-85: walking users_ while the setters erase    *)
(* from it goes wrong only for a value that a PHI takes on two paths; and  *)
(* removing an instruction does only for one without operands or with one  *)
(* that is gone, which a check or a load does not register for.            *)
GoesWrongOnly ==
    [][ir'.undefined =>
          \E i \in Exists(ir) :
              \/ Opcode(ir, i) = "phi" /\ \E v \in Exists(ir) : Cardinality(SlotsOf(ir, i, v)) > 1
              \/ IsTerminator(Opcode(ir, i)) /\ ir.node[i].operands = << >>
              \/ Opcode(ir, i) \in {"check", "load"} /\ Freed \in Range(ir.node[i].operands)]_ir
===============================================================================
