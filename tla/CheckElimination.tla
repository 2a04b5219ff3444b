--------------------------- MODULE CheckElimination ---------------------------
(***************************************************************************)
(* CheckEliminationPass (lib/transforms/check_elimination.cpp) on a        *)
(* function of which only the checks matter.  A check is <<input, block,   *)
(* number>>, where the input is what an InputT tells apart: a pointer for  *)
(* one CheckHandler, an array and an index for the other.                  *)
(*                                                                         *)
(* The reference properties speak of paths alone.  An input has a new      *)
(* value whenever an execution passes the block that defines it, which may *)
(* be any that dominates the checks of it.                                 *)
(***************************************************************************)
EXTENDS DominatorTree

CONSTANTS Functions, Checks(_)  \* the graphs, and the checks of their blocks

ASSUME FunctionsAssumption == Functions \subseteq [Block -> Paths]

(* a check is an instruction, which stands at one place of one block *)
ASSUME ChecksAssumption ==
    \A succ \in Functions : \A code \in Checks(succ) :
        /\ DOMAIN code = Block
        /\ \A b \in Block :
              /\ code[b] \in Seq(Range(code[b]))
              /\ IsInjective(code[b])
              /\ \A check \in Range(code[b]) : check[2] = b

VARIABLES
    graph,
    original,       \* the checks that each block had
    body,           \* and those that it has
    dom_tree,
    todo,           \* the checks that the pass has yet to visit, in order
    input_to_check, \* of both handlers
    to_remove

vars == <<graph, original, body, dom_tree, todo, input_to_check, to_remove>>

Input(check) == check[1]

Parent(check) == check[2]

NotBuilt == << >>

Init ==
    /\ \E succ \in Functions :
          /\ graph = GraphOf(succ)
          /\ NoDeadPredecessor(graph)
          /\ original \in Checks(succ)
    /\ body = original
    /\ dom_tree = NotBuilt
    /\ todo = << >>
    /\ input_to_check = {}
    /\ to_remove = << >>

(* Mutant: the post-order is not reversed *)
WalkedPostOrder(d, code) == FoldLeft(LAMBDA walk, b : walk \o code[b], << >>, d.post_order)

(* lines 97-99 *)
Walked(d, code) ==
    FoldLeft(LAMBDA walk, b : walk \o code[b], << >>, Reverse(d.post_order))

(* lines 89-95 *)
Build ==
    LET dfs == DFSOf(graph, Entry, {})
    IN  /\ dom_tree = NotBuilt
        /\ dom_tree' = DominatorTreeOf(graph, dfs)
        /\ todo' = Walked(dfs, body)
        /\ UNCHANGED <<graph, original, body, input_to_check, to_remove>>

(* lines 66-70 *)
IsDominated(check) ==
    \E maybe \in {c \in input_to_check : Input(c) = Input(check)} :
        Parent(maybe) = Parent(check) \/ is_dominator_of(dom_tree, Parent(check), Parent(maybe))

(* CheckHandler::operator() *)
Visit ==
    LET check == Head(todo)
    IN  /\ todo # << >>
        /\ IF IsDominated(check)
           THEN to_remove' = Append(to_remove, check) /\ UNCHANGED input_to_check
           ELSE input_to_check' = input_to_check \cup {check} /\ UNCHANGED to_remove
        /\ todo' = Tail(todo)
        /\ UNCHANGED <<graph, original, body, dom_tree>>

(* lines 114-116 *)
RemoveCheck ==
    LET check == Head(to_remove)
    IN  /\ dom_tree # NotBuilt /\ todo = << >> /\ to_remove # << >>
        /\ body' = [body EXCEPT ![Parent(check)] = Filtered(@, Range(@) \ {check})]
        /\ to_remove' = Tail(to_remove)
        /\ UNCHANGED <<graph, original, dom_tree, todo, input_to_check>>

Finished == dom_tree # NotBuilt /\ todo = << >> /\ to_remove = << >>

Next == Build \/ Visit \/ RemoveCheck \/ (Finished /\ UNCHANGED vars)

Spec == Init /\ [][Next]_vars

-------------------------------------------------------------------------------

Stays(check) == check \in Range(body[Parent(check)]) \ Range(to_remove)

ChecksOf(input) == {c \in UNION {Range(original[b]) : b \in Block} : Input(c) = input}

Before(c, check) ==
    /\ Parent(c) = Parent(check)
    /\ \E i, j \in DOMAIN original[Parent(c)] :
          i < j /\ original[Parent(c)][i] = c /\ original[Parent(c)][j] = check

(* check_elimination.cpp, lines 66-75: whatever block defines the input,   *)
(* and however an execution comes from there to a check that the pass      *)
(* removes, around loops too, it passes a check of the input that stays.   *)
StillChecked ==
    \A b \in Block : \A check \in Range(original[b]) : ~Stays(check) =>
        LET equal == {c \in ChecksOf(Input(check)) : Stays(c)}
        IN  \/ \E c \in equal : Before(c, check)
            \/ \A definition \in Block :
                  (\A c \in ChecksOf(Input(check)) : Dominates(graph, definition, Parent(c)))
                  => b \notin Reach(graph, definition, {Parent(c) : c \in equal})

(* check_elimination.cpp, lines 97-112: one pass is enough.  No check      *)
(* stays that every path comes to from another one of the same input.      *)
NoneTooMany ==
    Finished =>
        \A b \in Reachable(graph) : \A check \in Range(body[b]) :
            ~\E c \in ChecksOf(Input(check)) \ {check} :
                /\ Stays(c) /\ Parent(c) \in Reachable(graph)
                /\ Before(c, check) \/ (Parent(c) # b /\ Dominates(graph, Parent(c), b))
===============================================================================
