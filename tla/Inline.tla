--------------------------------- MODULE Inline ---------------------------------
(***************************************************************************)
(* Function::inline_at and split_bb_at with the class InlineHelper         *)
(* (lib/IR/function.cpp): calls of one function, callee, in another,       *)
(* caller, are inlined one after the other.  A step is a statement of      *)
(* inline_at; cloning is a step for each instruction.                      *)
(*                                                                         *)
(* The parameter of get_position() k is the call's operand k.  A call of   *)
(* another function than callee is just cloned.                            *)
(***************************************************************************)
EXTENDS Execution

CONSTANTS NumBlocks, Families, Inputs(_)    \* the functions, the calls to inline

Search == INSTANCE DFS

VARIABLES
    caller,
    callee,
    calls,      \* those to inline, the one that is being inlined first
    helper,     \* the InlineHelper, or NoHelper
    original,   \* what the caller was
    splits      \* the pairs of blocks that split_bb_at has made of one

vars == <<caller, callee, calls, helper, original, splits>>

NoHelper == << >>

Nothing == 0    \* a null pointer; instructions are numbered from 1

-------------------------------------------------------------------------------

(* split_bb_at: instructions change their list and nothing else.  The end  *)
(* of the range is that of the block which is the instruction's parent_.   *)
SplitAt(f, i, bb_1) ==
    LET bb_0 == f.node[i].parent
        p    == SelectInSeq(f.body[bb_0], LAMBDA j : j = i)
    IN  IF bb_0 # BlockOf(f, i) THEN Undefined(f)
        ELSE [WithBlock(f, bb_1) EXCEPT !.body[bb_0] = SubSeq(@, 1, p),
                                        !.body[bb_1] = SubSeq(f.body[bb_0], p + 1, Len(f.body[bb_0]))]

(* next_bb_id_ *)
NextBlock(f) == Max(DOMAIN f.body) + 1

(* try_create_ret_phi *)
NeedsRetPhi(call_type) == call_type # "void" /\ Cardinality(callee.rets) >= 2

WithRetPhi(f, after, call_type) ==
    IF NeedsRetPhi(call_type)
    THEN Emplaced(f, after, 1, FreshInstr(f), Node("phi", call_type, "", << >>, << >>))
    ELSE f

(* the blocks that transform() emplaces in the caller *)
BlockMap(f) ==
    LET blocks == SetToSortSeq(DOMAIN callee.body, <)
    IN  [b \in DOMAIN callee.body |-> NextBlock(f) + SelectInSeq(blocks, LAMBDA c : c = b) - 1]

(* Mutant: the order of post_order() *)
ReversePostOrderNot ==
    Search!DFSOf(Search!GraphOf([b \in 1 .. NumBlocks |-> Successors(callee, b)]), 1, {}).post_order

(* DFS<MutFunctionGraphTraits>(callee).post_order() reversed *)
ReversePostOrder ==
    Reverse(Search!DFSOf(Search!GraphOf([b \in 1 .. NumBlocks |-> Successors(callee, b)]), 1, {}).post_order)

Init ==
    /\ \E family \in Families : \E input \in Inputs(family) :
           caller = input.caller /\ callee = input.callee /\ calls = input.calls
    /\ original = caller
    /\ helper = NoHelper
    /\ splits = {}

Idle == helper = NoHelper

IsRecursive == "callee" \in callee.callees

(* inline_at throws before it changes anything *)
Throw ==
    /\ Idle /\ calls # << >> /\ IsRecursive
    /\ calls' = << >>
    /\ UNCHANGED <<caller, callee, helper, original, splits>>

(* split_bb_at and the constructor of InlineHelper *)
Begin ==
    LET call  == Head(calls)
        bb_0  == caller.node[call].parent
        type  == caller.node[call].type
        after == NextBlock(caller)
        split == SplitAt(caller, call, after)
        f     == WithRetPhi(split, after, type)
        bb    == BlockMap(f)
        g     == FoldLeft(WithBlock, f, SetToSeq(Range(bb)))
    IN  /\ Idle /\ calls # << >> /\ ~IsRecursive
        /\ IF split.undefined THEN caller' = split /\ UNCHANGED <<helper, splits>>
           ELSE /\ caller' = EmplacedBack(g, bb_0, FreshInstr(g), Br(<<bb[1]>>))
                /\ helper' = [bb_after_call |-> after,
                              ret_val |-> IF NeedsRetPhi(type) THEN FreshInstr(split) ELSE Nothing,
                              bb |-> bb, instr |-> << >>, param |-> << >>, phis |-> {},
                              todo |-> FlattenSeq([k \in DOMAIN ReversePostOrder |->
                                                      callee.body[ReversePostOrder[k]]])]
                /\ splits' = splits \cup {<<bb_0, after>>}
        /\ UNCHANGED <<callee, calls, original>>

(* get_caller_instr; its assertion is that i is known *)
Cloned(i) == i \in DOMAIN helper.param \cup DOMAIN helper.instr

CallerInstr(i) == IF i \in DOMAIN helper.param THEN helper.param[i] ELSE helper.instr[i]

Goes(f, changed) == caller' = f /\ helper' = [changed EXCEPT !.todo = Tail(@)]

(* a use of the parameter becomes a use of the argument *)
CloneParameter(i) ==
    LET argument == Operand(caller, Head(calls), callee.node[i].attr)
    IN  Goes(caller, [helper EXCEPT !.param = @ @@ (i :> argument)])

(* Mutant: the returned value is that of the last return *)
CloneReturnLast(i) ==
    LET b == helper.bb[callee.node[i].parent]
        f == EmplacedBack(caller, b, FreshInstr(caller), Br(<<helper.bb_after_call>>))
    IN  IF callee.node[i].operands = << >> THEN Goes(f, helper)
        ELSE Goes(f, [helper EXCEPT !.ret_val = CallerInstr(Operand(callee, i, "value"))])

(* lines 95-111 *)
CloneReturn(i) ==
    LET b     == helper.bb[callee.node[i].parent]
        value == CallerInstr(Operand(callee, i, "value"))
        Jump(f) == EmplacedBack(f, b, FreshInstr(f), Br(<<helper.bb_after_call>>))
    IN  IF callee.node[i].operands = << >> THEN Goes(Jump(caller), helper)
        ELSE IF Cardinality(callee.rets) < 2
        THEN Goes(Jump(caller), [helper EXCEPT !.ret_val = value])
        ELSE Goes(Jump(PathAdded(caller, helper.ret_val, b, value)), helper)

(* PHIs are cloned without records, all others with the callee's blocks    *)
(* and operands exchanged.                                                 *)
CloneOther(i) ==
    LET n     == callee.node[i]
        j     == FreshInstr(caller)
        clone == Node(n.opcode, n.type, n.attr,
                      IF n.opcode = "phi" THEN << >>
                      ELSE [slot \in DOMAIN n.operands |-> CallerInstr(n.operands[slot])],
                      [k \in DOMAIN n.paths |-> helper.bb[n.paths[k]]])
    IN  Goes(EmplacedBack(caller, helper.bb[n.parent], j, clone),
             [helper EXCEPT !.instr = @ @@ (i :> j),
                            !.phis = IF n.opcode = "phi" THEN @ \cup {i} ELSE @])

Clone ==
    LET i == Head(helper.todo)
        n == callee.node[i]
        possible == /\ n.opcode \notin {"load", "check"}
                    /\ n.opcode # "phi" => \A v \in Range(n.operands) : Cloned(v)
    IN  /\ ~Idle /\ helper.todo # << >>
        /\ CASE ~possible -> caller' = Undefined(caller) /\ UNCHANGED helper
             [] possible /\ n.opcode = "arg" -> CloneParameter(i)
             [] possible /\ n.opcode = "ret" -> CloneReturn(i)
             [] possible /\ n.opcode \notin {"arg", "ret"} -> CloneOther(i)
        /\ UNCHANGED <<callee, calls, original, splits>>

(* patch_phi_instructions *)
PhisPatched(f) ==
    FoldLeft(LAMBDA g, phi :
                 FoldLeft(LAMBDA h, b : PathAdded(h, CallerInstr(phi), helper.bb[b],
                                                  CallerInstr(Operand(callee, phi, b))),
                          g, SetToSeq(DOMAIN callee.node[phi].operands)),
             f, SetToSeq(helper.phis))

(* lines 225-232 *)
Finish ==
    LET call == Head(calls)
        known == \A phi \in helper.phis : \A v \in Range(callee.node[phi].operands) : Cloned(v)
        f == PhisPatched(caller)
    IN  /\ ~Idle /\ helper.todo = << >>
        /\ caller' = IF ~known THEN Undefined(caller)
                     ELSE IF helper.ret_val = Nothing THEN Erased(f, call)
                     ELSE InstructionReplaced(f, call, helper.ret_val)
        /\ helper' = NoHelper
        /\ calls' = Tail(calls)
        /\ UNCHANGED <<callee, original, splits>>

Ended == caller.undefined \/ (Idle /\ calls = << >>)

Next ==
    \/ ~caller.undefined /\ (Throw \/ Begin \/ Clone \/ Finish)
    \/ Ended /\ UNCHANGED vars

Spec == Init /\ [][Next]_vars
-------------------------------------------------------------------------------

(* the parameters have the type i8; another function adds 1 *)
Outcome(f, args) ==
    LET Other(name, values) == (values[1] + 1) % 2 ^ Width["i8"]
        Call(name, values) ==
            IF Poison \in Range(values) THEN Poison
            ELSE IF name = "callee" THEN Returned(callee, 1, values, Other) ELSE Other(name, values)
    IN  Returned(f, 1, args, Call)

(* a block behind one whose call has been inlined has PHIs *)
PhisBehind ==
    \E split \in splits : \E b \in Range(Successors(caller, split[2])) :
        \E i \in Range(caller.body[b]) : Opcode(caller, i) = "phi"

(* the callee has a PHI that takes a value of a block nothing leads to *)
TakesDeadValue ==
    LET live == UNION {Range(callee.body[b]) : b \in Range(ReversePostOrder)}
    IN  \E phi \in live : Opcode(callee, phi) = "phi" /\ ~(Range(callee.node[phi].operands) \subseteq live)

(* function.cpp, lines 210-233: the caller returns what it did before, for *)
(* every argument, unless PHIs behind the call's block still name it where *)
(* they should name its second half.                                       *)
KeepsMeaning ==
    Idle /\ ~caller.undefined /\ splits # {} =>
        \A x \in Values("i8") :
            LET before == Outcome(original, <<x>>)
            IN  before \notin {Poison, Running} /\ Outcome(caller, <<x>>) # before => PhisBehind

(* The clone has no case for a load and a check.                           *)
HasNoClone == \E i \in Exists(callee) : Opcode(callee, i) \in {"load", "check"}

(* function.cpp, lines 99-103, 127, 170 and 182: what the assertions say   *)
(* is looked up is there, unless the callee has a PHI that needs DCE, a    *)
(* load or a check, or the call is behind one that has been inlined and    *)
(* has a stale parent_.                                                    *)
GoesWrongOnly ==
    caller.undefined =>
        \/ TakesDeadValue \/ HasNoClone
        \/ \E split \in splits : Head(calls) \in Range(caller.body[split[2]])

ActualPredecessors(f, b) == {c \in DOMAIN f.body : b \in Range(Successors(f, c))}

NonPhis(f, b) == SelectSeq(f.body[b], LAMBDA i : Opcode(f, i) # "phi")

(* the callee returns nowhere that it gets to, so that there is no value   *)
(* and no PHI to replace a call with                                       *)
NeverReturns ==
    /\ Cardinality(callee.rets) < 2
    /\ \A ret \in callee.rets : callee.node[ret].parent \notin Range(ReversePostOrder)

(* function.cpp, lines 225-258: what is stale after split_bb_at is stale   *)
(* only there.  The instructions behind a call have the parent_ they had,  *)
(* their block's first_non_phi_ is its end, and its successors have the    *)
(* call's block among their predecessors_.  The function forgets a callee  *)
(* that it has another call of.  users_ is exact everywhere, and an        *)
(* operand is deleted only with a call that there is no value for.         *)
StaleOnlyBehind ==
    Idle /\ ~caller.undefined =>
        /\ \A b \in DOMAIN caller.body :
              LET halves == {split \in splits : split[2] = b}
              IN  /\ \A i \in Range(caller.body[b]) :
                        IF halves = {} \/ Opcode(caller, i) = "phi" THEN caller.node[i].parent = b
                        ELSE <<caller.node[i].parent, b>> \in splits
                  /\ caller.first_non_phi[b] = IF halves # {} \/ NonPhis(caller, b) = << >> THEN End
                                               ELSE Head(NonPhis(caller, b))
                  /\ caller.predecessors[b] # ActualPredecessors(caller, b) =>
                        \E split \in splits : b \in Range(Successors(caller, split[2]))
        /\ caller.rets = {i \in Exists(caller) : Opcode(caller, i) = "ret"}
        /\ LET called == {caller.node[i].attr : i \in {j \in Exists(caller) : Opcode(caller, j) = "call"}}
           IN  caller.callees = called \/ (splits # {} /\ caller.callees = called \ {"callee"})
        /\ UsersKnown(caller)
        /\ (\E i \in Exists(caller) : Freed \in Range(caller.node[i].operands)) => NeverReturns
===============================================================================
