--------------------------------- MODULE IRCore ---------------------------------
(***************************************************************************)
(* The instructions of a function in their basic blocks, and the def-use   *)
(* lists between them, as a value with operations (IR/instruction.hpp,     *)
(* instruction.cpp, the classes derived from Instruction, IR/basic_block,  *)
(* and of IR/function.hpp what the blocks report to it).  Modules IR,      *)
(* Passes and Inline are the clients.                                      *)
(*                                                                         *)
(* A function ir is a record of                                            *)
(*   body           the instructions of each block                         *)
(*   node           what every instruction that exists is: its opcode,     *)
(*                  type, attr (what the opcode does not say: a callee, a  *)
(*                  constant, a predicate), operands by slot, the paths of *)
(*                  a branch, true path first, and its parent_             *)
(*   users          users_ of every instruction, a multiset                *)
(*   first_non_phi, predecessors    of every block                         *)
(*   rets, callees                  of the function                        *)
(*   undefined      an iterator that was invalidated, a null or a dangling *)
(*                  pointer has been used                                  *)
(*                                                                         *)
(* Opcode "bin" is every BinaryOperator and "icmp" ICmpInstruction,        *)
(* "check" NullCheckInstruction and BoundsCheckInstruction.  A list of     *)
(* instructions is a sequence, which module IList shows it to be.  The     *)
(* order of the blocks decides nothing but which one is the entry.         *)
(***************************************************************************)
EXTENDS FiniteSets, Integers, Sequences, SequencesExt

CONSTANTS
    End,        \* the end() of a block
    Freed       \* a pointer to an instruction that was deleted

Exists(ir) == DOMAIN ir.node

Opcode(ir, i) == ir.node[i].opcode

(* the operand at a slot: a member of the class, or the block of a record *)
Operand(ir, i, s) == ir.node[i].operands[s]

SlotsOf(ir, i, v) == {s \in DOMAIN ir.node[i].operands : Operand(ir, i, s) = v}

(* Constructors that add the new instruction to the users of its operands. *)
(* Calls, loads and checks do not.                                         *)
Registers == {"bin", "icmp", "ret", "br", "phi"}

IsVoid(ir, i) == ir.node[i].type = "void"

IsTerminator(opcode) == opcode \in {"ret", "br"}

UsersOf(ir, v) == BagToSet(ir.users[v])

(* how often u is in users_ of v *)
Entries(ir, v, u) == IF u \in UsersOf(ir, v) THEN ir.users[v][u] ELSE 0

BlockOf(ir, i) == CHOOSE b \in DOMAIN ir.body : i \in Range(ir.body[b])

(* where the address of an instruction is its number: one that is free *)
FreshInstr(ir) ==
    CHOOSE i \in 1 .. Cardinality(Exists(ir)) + 1 :
        i \notin Exists(ir) /\ \A j \in 1 .. i - 1 : j \in Exists(ir)

Node(opcode, type, attr, operands, paths) ==
    [opcode |-> opcode, type |-> type, attr |-> attr, operands |-> operands, paths |-> paths]

Bin(attr, type, lhs, rhs) ==
    Node("bin", type, attr, [slot \in {"lhs", "rhs"} |-> IF slot = "lhs" THEN lhs ELSE rhs], << >>)

Const(type, value) == Node("const", type, value, << >>, << >>)

Br(paths) == Node("br", "void", "", << >>, paths)

InBlock(n, b) ==
    [opcode |-> n.opcode, type |-> n.type, attr |-> n.attr,
     operands |-> n.operands, paths |-> n.paths, parent |-> b]

(* a map with one more entry, unless the key is there (std::map::emplace) *)
Inserted(map, key, value) ==
    [k \in DOMAIN map \cup {key} |-> IF k \in DOMAIN map THEN map[k] ELSE value]

(* Function::emplace and the constructor of BasicBlock *)
WithBlock(ir, b) ==
    [ir EXCEPT !.body = Inserted(@, b, << >>),
               !.first_non_phi = Inserted(@, b, End),
               !.predecessors = Inserted(@, b, {})]

(* a function of empty blocks *)
EmptyFunction(blocks) ==
    [body |-> [b \in blocks |-> << >>], node |-> << >>, users |-> << >>,
     first_non_phi |-> [b \in blocks |-> End], predecessors |-> [b \in blocks |-> {}],
     rets |-> {}, callees |-> {}, undefined |-> FALSE]

(* BasicBlock::successors *)
Successors(ir, b) ==
    IF b \notin DOMAIN ir.body \/ ir.body[b] = << >> THEN << >>
    ELSE ir.node[Last(ir.body[b])].paths

(* users_ is exact for the operands of the classes that register: no       *)
(* reference is missing, too many or to an instruction that is gone.       *)
UsersKnown(ir) ==
    \A v \in Exists(ir) :
        /\ UsersOf(ir, v) \subseteq Exists(ir)
        /\ \A u \in Exists(ir) : Opcode(ir, u) \in Registers =>
               Entries(ir, v, u) = Cardinality(SlotsOf(ir, u, v))

Undefined(ir) == [ir EXCEPT !.undefined = TRUE]

-------------------------------------------------------------------------------

(* add_user and remove_user, which erases all entries of u *)
WithUser(users, v, u) == [users EXCEPT ![v] = @ (+) SetToBag({u})]

LosingUser(users, v, u) == [users EXCEPT ![v] = [w \in BagToSet(@) \ {u} |-> @[w]]]

(* add_user of the operand at every slot, and remove_user of every value   *)
WithUserOfAll(users, operands, u) ==
    FoldLeft(LAMBDA us, s : WithUser(us, operands[s], u), users, SetToSeq(DOMAIN operands))

LosingUserOfAll(users, values, u) ==
    FoldLeft(LAMBDA us, v : LosingUser(us, v, u), users, SetToSeq(values))

(* Mutant: only the start of the block counts *)
FirstAfterEmplaceAtBegin(ir, b, p, i, opcode) ==
    IF opcode # "phi" /\ p = 1 THEN i ELSE ir.first_non_phi[b]

(* basic_block.hpp, lines 106-111 *)
FirstAfterEmplace(ir, b, p, i, opcode) ==
    IF opcode # "phi" /\ (p = 1 \/ Opcode(ir, ir.body[b][p - 1]) = "phi")
    THEN i ELSE ir.first_non_phi[b]

(* emplace<T>(pos, ...) and the constructor of T: the new instruction i of *)
(* block b, at position p, becomes a user of each of its operands.         *)
Emplaced(ir, b, p, i, n) ==
    [ir EXCEPT
        !.body[b] = InsertAt(@, p, i),
        !.node = Inserted(@, i, InBlock(n, b)),
        !.users = LET known == Inserted(@, i, EmptyBag)
                  IN  IF n.opcode \in Registers THEN WithUserOfAll(known, n.operands, i) ELSE known,
        !.first_non_phi[b] = FirstAfterEmplace(ir, b, p, i, n.opcode),
        !.predecessors = [s \in DOMAIN @ |-> IF s \in Range(n.paths) THEN @[s] \cup {b} ELSE @[s]],
        !.rets = IF n.opcode = "ret" THEN @ \cup {i} ELSE @,
        !.callees = IF n.opcode = "call" THEN @ \cup {n.attr} ELSE @]

EmplacedBack(ir, b, i, n) == Emplaced(ir, b, Len(ir.body[b]) + 1, i, n)

(* PHIInstruction::add_path: a record that is there is kept, and the user  *)
(* is added all the same.                                                  *)
PathAdded(ir, phi, b, v) ==
    [ir EXCEPT !.node[phi].operands = Inserted(@, b, v), !.users = WithUser(@, v, phi)]

(* PHIInstruction::remove_path *)
PathRemoved(ir, phi, b) ==
    IF b \notin DOMAIN ir.node[phi].operands THEN ir
    ELSE [ir EXCEPT !.node[phi].operands = [c \in DOMAIN @ \ {b} |-> @[c]],
                    !.users = LosingUser(@, Operand(ir, phi, b), phi)]

(* Mutant: the new operand gets no user *)
OperandSetUnused(ir, i, s, v) ==
    [ir EXCEPT !.node[i].operands[s] = v, !.users = LosingUser(@, Operand(ir, i, s), i)]

(* set_lhs, set_rhs, set_condition and set_ret_value: remove_user of the   *)
(* old operand, then add_user of the new                                   *)
OperandSet(ir, i, s, v) ==
    [ir EXCEPT !.node[i].operands[s] = v,
               !.users = WithUser(LosingUser(@, Operand(ir, i, s), i), v, i)]

(* where an iterator to i points *)
PositionOf(ir, b, i) == SelectInSeq(ir.body[b], LAMBDA j : j = i)

(* basic_block.hpp, lines 127-129 *)
FirstAfterErase(ir, b, i) ==
    LET p == PositionOf(ir, b, i)
    IN  IF ir.first_non_phi[b] # i THEN ir.first_non_phi[b]
        ELSE IF p = Len(ir.body[b]) THEN End
        ELSE ir.body[b][p + 1]

(* the same where every pointer to an instruction of gone dangles *)
Dangling(ir, gone) ==
    LET Kept == Exists(ir) \ gone
        Alive(v) == IF v \in gone THEN Freed ELSE v
        AliveOperands(u) == [s \in DOMAIN ir.node[u].operands |-> Alive(Operand(ir, u, s))]
        AliveUsers(v) ==
            LET dead == UsersOf(ir, v) \cap (gone \cup {Freed})
            IN  IF dead = {} THEN ir.users[v]
                ELSE [u \in (UsersOf(ir, v) \ dead) \cup {Freed} |->
                          IF u = Freed THEN 1 ELSE ir.users[v][u]]
    IN  [ir EXCEPT
            !.node = [u \in Kept |-> [ir.node[u] EXCEPT !.operands = AliveOperands(u)]],
            !.users = [v \in Kept |-> AliveUsers(v)]]

(* BasicBlock::erase: the instruction is deleted and its own users_ with it *)
Erased(ir, i) ==
    LET b == BlockOf(ir, i)
    IN  Dangling([ir EXCEPT
                     !.body[b] = RemoveAt(@, PositionOf(ir, b, i)),
                     !.first_non_phi[b] = FirstAfterErase(ir, b, i),
                     !.rets = @ \ {i},
                     !.callees = IF Opcode(ir, i) = "call" THEN @ \ {ir.node[i].attr} ELSE @],
                 {i})

(* Function::erase: the destructor of a block deletes its instructions and *)
(* reports nothing to the function, the operands or the successors.        *)
BlockErased(ir, b) ==
    LET Without(f) == [c \in DOMAIN f \ {b} |-> f[c]]
    IN  Dangling([ir EXCEPT !.body = Without(@), !.first_non_phi = Without(@),
                            !.predecessors = Without(@)],
                 Range(ir.body[b]))

-------------------------------------------------------------------------------

(* Mutant: the case of a PHI is missing *)
RedirectedNoPhis(ir, u, from) ==
    IF IsTerminator(Opcode(ir, u)) THEN DOMAIN ir.node[u].operands
    ELSE IF Opcode(ir, u) = "phi" THEN {} ELSE SlotsOf(ir, u, from)

(* instruction.cpp, lines 32-82: the slots of a user that replace_with     *)
(* sets.  For a ret and a br it does not look what they hold.              *)
Redirected(ir, u, from) ==
    IF IsTerminator(Opcode(ir, u)) THEN DOMAIN ir.node[u].operands ELSE SlotsOf(ir, u, from)

(* Mutant: a user is entered once however many operands are replaced *)
ReplacedOnce(ir, from, to) ==
    FoldLeft(LAMBDA f, u :
                 LET slots == Redirected(ir, u, from)
                     once(us) == IF slots = {} THEN us ELSE WithUser(us, to, u)
                 IN  [f EXCEPT !.node[u].operands =
                                   [s \in DOMAIN @ |-> IF s \in slots THEN to ELSE @[s]],
                               !.users = once(LosingUser(@, from, u))],
             ir, SetToSeq(UsersOf(ir, from)))

(* the setters of one user, slot by slot *)
OperandsSet(ir, u, slots, to) ==
    FoldLeft(LAMBDA f, s : OperandSet(f, u, s, to), ir, SetToSeq(slots))

(* replace_with: the setters of every user *)
Replaced(ir, from, to) ==
    FoldLeft(LAMBDA f, u : OperandsSet(f, u, Redirected(ir, u, from), to),
             ir, SetToSeq(UsersOf(ir, from)))

(* Mutant: the iterator always moves on by one entry *)
IteratorsValidByOne(ir, from) ==
    \A u \in UsersOf(ir, from) :
        u # Freed /\ (Redirected(ir, u, from) = {} \/ ir.users[from][u] = 1)

(* Lines 30-85 walk users_ and call setters that erase every entry of the  *)
(* user from it.  Before that the iterator moves past one entry of a user, *)
(* past two if both operands of a bin are replaced.  A user may dangle.    *)
IteratorsValid(ir, from) ==
    \A u \in UsersOf(ir, from) :
        u # Freed /\ (Redirected(ir, u, from) # {} =>
            ir.users[from][u] =
                IF Opcode(ir, u) \in {"bin", "icmp"} THEN Cardinality(Redirected(ir, u, from)) ELSE 1)

(* The operands that remove_as_user goes through are there: a ret and a br *)
(* do not look whether they have one.                                      *)
CanRemoveAsUser(ir, i) ==
    /\ IsTerminator(Opcode(ir, i)) => ir.node[i].operands # << >>
    /\ Opcode(ir, i) # "call" => Freed \notin Range(ir.node[i].operands)

(* Mutant: the users of the operands stay as they are *)
RemovedAsUserNot(ir, i) == ir

(* remove_as_user: a call does nothing *)
RemovedAsUser(ir, i) ==
    IF Opcode(ir, i) = "call" THEN ir
    ELSE [ir EXCEPT !.users = LosingUserOfAll(@, Range(ir.node[i].operands), i)]

(* BasicBlock::replace_instruction: replace_with, remove_as_user, erase *)
InstructionReplaced(ir, from, to) ==
    IF IteratorsValid(ir, from) /\ CanRemoveAsUser(ir, from)
    THEN Erased(RemovedAsUser(Replaced(ir, from, to), from), from)
    ELSE Undefined(ir)

(* BasicBlock::remove_instruction of a void instruction *)
InstructionRemoved(ir, i) ==
    IF CanRemoveAsUser(ir, i) THEN Erased(RemovedAsUser(ir, i), i) ELSE Undefined(ir)
===============================================================================
