# Bicycle JIT/AOT Compiler: verification project

TLA+ modules, TLC configurations and TLAPS proofs for the compiler library under
`src/`: a typed SSA intermediate representation, analyses of it, a register
allocator and a few optimisation passes, in C++23.

The library is single-threaded. There are no callbacks that run later, no
messages, no files and nothing that survives a crash, so no module here has
concurrency, and no hazard of that kind is claimed. What is hard in this code is
different: data structures whose invariants several operations share, orders of
blocks and instructions that a later analysis relies on without checking,
comparators that identify unequal things, arithmetic at the edge of a type,
pointers into objects that are gone, and `assert`s that state what a Release
build (the CI builds Debug and Release) goes on without.

## 1. Inventory

| component | state | operations | who uses it | what makes it correct |
|---|---|---|---|---|
| `Lifetime` (`analysis/lifetime.hpp`) | a `std::set` of segments under a comparator that calls touching segments equivalent | `add`, two `remove`s, `contains`, `intersects`, end points | LivenessAnalysis, RegAlloc | the segments never touch; add and remove act as on a set of points |
| `RegAlloc` (`reg_alloc.cpp`) | `active` (a map keyed by end points), `free_regs`, the result, the next slot | the constructor: one linear scan | clients | no two overlapping values in one register; spills only under pressure, and the longest value; the `assert` of line 90 |
| `LivenessAnalysis` (`liveness.cpp`) | numbers, `live_ins`, lifetimes | the constructor: one backward pass over a LinearOrder | RegAlloc | a value's lifetime is where it is needed, no less and no more |
| `LinearOrder` (`linear_order.hpp`) | colours, a queue, the order | the constructor | LivenessAnalysis | every block once, dominators first, loops together; the `assert` of line 73 |
| `LoopTree`, `Loop` | loops with their bodies and inner loops | the constructor | LinearOrder, LivenessAnalysis | bodies are natural loops, latch last; inner loops are inside |
| `DominatorTree` | idoms and children | semidominators and two passes; `is_dominator_of` | LoopTree, LinearOrder, CheckElimination | the tree is the dominator tree |
| `DFS` | times, predecessors, pre- and post-order | recursive search from a source, with vertices that are marked as visited beforehand | every analysis and pass | calls nest, so comparing times decides ancestry; edges go forward in reverse post-order |
| graph traits | none: views of a Function | successors, predecessors, the reverse graph | DFS and what is on it | the reverse graph has the same edges |
| `ilist`, `ilist_node` | links through a sentinel, a count | insert, erase, three splices, move | Function (blocks), BasicBlock (instructions) | the links are sequences that share no node |
| IR core: instructions | operands, `users_` (a multiset), PHI records | constructors, setters, `replace_with`, `remove_as_user` | passes | `users_` agrees with the operands |
| `BasicBlock` | the instructions, `first_non_phi_`, `predecessors_` | `emplace`, `erase`, `replace_instruction`, `remove_instruction`, `splice` | passes, Function | PHIs first; predecessors agree with branches |
| `Function` | blocks, `rets_`, `callees_`, ids | `emplace`, `erase`, `split_bb_at`, `inline_at` | clients | a split or inlined function computes what it did |
| `ConstantFolding`, `Peepholes`, `DCE` | none of their own | `run(Function &)` | clients | every turn keeps what the function returns and its use lists exact |
| `CheckElimination` | the checks seen for each input | `run(Function &)` | clients | every check that goes is behind one that stays on all paths, and none that could go stays |
| constants and types | a width; a value below the type's maximum | construction, which throws out of range | ConstantFolding, Peepholes | values stay in their type |
| printing, build, tests | - | - | - | not modelled: text and tooling |

Calls go one way. A pass or RegAlloc makes the analyses it needs from the
Function, in the chain

    Function -> DFS -> DominatorTree -> LoopTree -> LinearOrder -> LivenessAnalysis -> RegAlloc

and each analysis reads the results of those before it. Nothing is updated
incrementally; a pass that changes the IR leaves older analyses stale, and no
code keeps one over a change.

Where it is hard: `hazards` in `PROJECT.json` has the list with lines. The
themes are *equivalence* (comparators of `Lifetime` and of `active` identify
values that differ), *order* (LoopTree needs latches of inner loops first,
LivenessAnalysis needs successors later, CheckElimination needs dominators
first), *bookkeeping in two places* (`size_` and links, `users_` and operands,
`predecessors_` and branches, `callees_` and calls) and *partial failure* (an
emplace that does nothing because the key is there).

## 2. Modules

| module | models | state and actions |
|---|---|---|
| `LifetimePoints` | what a lifetime promises: a set of points | `points`; cover a segment, uncover a run |
| `LifetimeSegments` | the comparator, `equal_range` and `add` as operators on a set of segments; `size_t` wraps (`Next64`) | none |
| `Lifetime` | `bjac::Lifetime` | `lt_segments`; `Add`, `Erase`, `Remove` are the calls, the queries are operators |
| `LifetimeProofs` | proofs | |
| `StorageAssignment` | what a register allocation promises | `place`; a value gets a register or a slot, or evicts another to a slot |
| `RegAlloc` | the constructor of `RegAlloc` | the variables are the locals of the constructor; `Turn` is one turn of its loop, in one of three ways |
| `RegAllocProofs` | proofs | |
| `NodeSequences` | what the lists promise: sequences | `seqs` |
| `IList` | `ilist` and `ilist_node` at pointer level | `next_`, `prev_`, `size_`; one action per member function |
| `IListProofs` | proofs | |
| `IRCore` | instructions, `users_`, `BasicBlock`, and what blocks report to `Function`: a function as a record with operations | operators, among them `Emplaced`, `Erased`, `PathAdded`, `OperandSet`, `Replaced`; `undefined` records the use of an invalid pointer or iterator |
| `IR` | clients of that interface | `ir`; one action per public call, in any order |
| `IRProofs` | proofs | |
| `IntTypes` | widths, constants and C++ integer arithmetic | operators |
| `Execution` | the reference: what a function of the IR returns | operators |
| `ConstantFolding` | the folded value of two constants | operators |
| `Peepholes` | the rewriting of one instruction | operators |
| `Passes` | the walks of `ConstantFoldingPass`, `PeepholePass` and `DCE`, one after the other | `ir`, `plan` and the place the pass is at; `Start`, then `FoldConstant`, `Rewrite` or `Sweep` for one instruction |
| `CheckElimination` | the pass of that name | `todo`, `input_to_check`, `to_remove`; `Build` makes the dominator tree, `Visit` is one check, `RemoveCheck` one removal |
| `CheckEliminationProofs` | proofs | |
| `Inline` | `inline_at`, `split_bb_at`, `InlineHelper` | `caller`, `helper`, the calls left; `Throw` or `Begin`, one `Clone` an instruction, `Finish` |
| `FlowGraph` | graph traits: the graph of a Function | operators |
| `DFS` | one call or return of `do_dfs` as an operator on the search's state, and the whole search as their iteration | operators |
| `DFSWalk` | the constructor of `DFS` | `dfs` and what it was given; `Call`, `Return` |
| `DFSWalkProofs` | proofs | |
| `DominatorTree` | `compute_semidominators`, `compute_idoms`, `is_dominator_of` | operators |
| `LoopTree` | back edges, bodies, the table of outermost loops | operators |
| `GraphProofs` | proofs about the values that `FlowGraph`, `DFS`, `DominatorTree` and `LoopTree` define, shared by the proofs of what is built on them | |
| `LinearOrder` | the constructor, over the three analyses | `Build` makes the analyses, `Turn` is one turn of the loop |
| `LinearOrderProofs` | proofs | |
| `Liveness` | `LivenessAnalysis`, over a `LinearOrder` instance | `Order` (a step of LinearOrder), `Number`, then `BeginBlock`, `Instruction` and `EndBlock` follow the nested loops backwards |
| `MC*` | instances for TLC | |

Modules that compose others: `Liveness` runs `LinearOrder` as its first phase
and builds the lifetimes with the operators of `LifetimeSegments`; `LinearOrder`
runs on the results of `LoopTree`, `DominatorTree` and `DFS`; `CheckElimination`
extends `DominatorTree`. `IR`, `Passes` and `Inline` change functions with the
operators of `IRCore` and nothing else, `Passes` and `Inline` ask `DFS` for the
order of the blocks and `Execution` for the meaning of what they leave.
`RegAlloc` takes a lifetime as its start and end point, all the allocator reads,
and is checked with all of them rather than with what one function yields.

Modelling decisions worth knowing:

- An `assert` is a property and never a guard, and what a Release build does
  past it is modelled where the code determines it (`RegAlloc`: the index of the
  end iterator; `LinearOrder`: a black block is painted again).
- An exception that a constructor throws ends the model where the code leaves it
  (`Throw` of `Inline`, `CutThrows` and `StretchThrows` of `Liveness`).
- Unspecified orders are nondeterministic: equal start points after
  `std::ranges::sort` (`IsNext`). Memory that was freed is too: `RegAlloc` reads
  lifetimes through pointers into a destroyed analysis; with `HeapReused` the
  reads return anything, without it what was there.
- The analyses are deterministic computations over a graph, so each is a
  function and what TLC varies is the graph. Recursion is a recursive function
  or a fold; no module declares a `RECURSIVE` operator.
- Undefined behaviour in the IR sets the field `undefined` and stops the model,
  and properties say what must have led there; the passes' models go on until
  then.
- `Execution` computes on the values of the modelled widths in two's complement.
  A division by zero, a shift by the width or more and a value that was never
  computed give `Poison`, and no claim is made about a function that returns it.
- The reference notions that the algorithms are checked against (`Dominates`,
  `NaturalLoop`, `TrulyLive`, ...) are defined from the paths of the graph
  alone.

## 3. Runs

| run | question | size |
|---|---|---|
| `lifetime` | do any adds and removes keep segments apart and act on sets of points? | all segments of points 0..7 |
| `reg_alloc` | are overlapping values apart, spills needed and of the longest value, does every value get a place, and with distinct ends, does the assertion hold and the scan implement `StorageAssignment`? | 4 values, 2 registers, points 0..4 |
| `reg_alloc_ties` | *violation:* two values that end together | 3 values |
| `ilist` | are the linked lists sequences under every operation? | 2 lists, 4 nodes |
| `dfs` | do calls nest, times decide ancestry, edges go forward? | 3 blocks: every graph, source and visited set |
| `linear_order` | are the trees, loops and orders right? | 4 blocks |
| `linear_order_paint` | *violation:* an inner loop found after the outer one | 4 blocks |
| `liveness` | are lifetimes exact, and is the assertion right? | up to 4 blocks with one value followed |
| `ir` | where do use lists first leave the operands, and which calls go wrong? | 3 instructions of 7 classes, 2 blocks |
| `passes` | does every turn of folding, peepholes and DCE keep the function's result and its use lists? | all opcodes on constants; two operations in blocks out of order; an if with a PHI |
| `check_elimination` | is a removed check behind one that stays, and does none stay for nothing? | every graph of 4 blocks |
| `inline` | does the caller return what it did, and what is stale behind the call? | 6 callers, callees of 3 blocks over 49 graphs |

Why the bounds are enough to be of use:

- *lifetime*: merging with none, one or several segments on both sides, and
  touching by 0 or 1, needs three disjoint segments with gaps: 8 points.
- *reg_alloc*: with 2 registers the fourth value meets every combination of an
  expired, a spilled and a forgotten neighbour; 5 points give every order of
  starts and ends with ties. The theorems lift the bounds.
- *ilist*: the operations look at a position's two neighbours, at a range's two
  ends and at two lists; 4 nodes leave a range with nodes on both sides. The
  theorems lift the bounds.
- *ir*: a value, a user that has it twice and a third instruction that replaces
  it or uses both are enough for every branch of `replace_with`; two blocks give
  a PHI two records and `first_non_phi_` its end. `LoadInstruction`, whose
  `remove_as_user` is that of a check, is in the module and left out of the run
  for size. The theorems lift the bounds and cover loads.
- *dfs*: 3 blocks with up to two successors have all edge kinds (tree, back,
  forward, cross, double, self). The theorems lift the bound.
- *linear_order*: 4 blocks are the smallest functions with an irreducible loop
  beside a diamond, with two nested loops, with two loops of one header and with
  the dominator cases that need the second pass. Ids follow the pre-order there,
  because ids only decide the order of predecessors; all ids, double edges and a
  dead block are in the functions of 3 blocks beside them.
- *liveness*: each block has one value and one terminator and joins have a PHI;
  one value is followed, with one reader or PHI source in functions of 4 blocks
  and up to two readers and a source in functions of 3. The equations treat
  values independently, so one is enough; two readers are for lifetimes with two
  ends.
- *passes*: the widths of i1, i8, i16, i32 and i64 are scaled to 1, 2, 3, 5 and
  6 bits (`MCWidth`), which keeps what the code tells apart: which types are
  promoted to `int`, that a product of two i16 overflows it and that of two i8
  does not, and that `uintmax_t` is wider than all but i64
  (`IntTypesAssumption`). Folding is checked on every pair of values of the
  three narrow types and on the edges of the others. A peephole looks at an
  instruction and at the operation and constant below it: two operations in two
  blocks that are listed in the other order, of every opcode a rewrite knows,
  with every way to share their operands, and a call that uses the result
  without registering. The if has a PHI, a value it takes on two paths and a
  dead block that it has a record for.
- *check_elimination*: a check in a block of a diamond, a loop or a chain, and
  several in one block, for two inputs, where the order of the walk and a
  dominator that is not the immediate predecessor matter: 4 blocks.
- *inline*: callees with no, one, two and three returns, dead blocks, loops and
  joins, void or not, with a nested call, a call of themselves or a check;
  callers with the call in the entry, in a branch before a PHI or not, in a loop
  and behind it, and with two calls inlined in either order. `Fuel = 20` blocks
  are what an execution may enter; an execution that has run out is not
  compared.

Every run but `ir`, whose model stops where the behaviour is undefined or the
use lists are wrong, checks deadlock: an action is enabled in every state, and
the other runs reach a final state whose only step is `Done` (or a stutter).
Fairness is assumed in `RegAlloc` alone, as weak fairness of the next-state
relation: the loop of a constructor is not suspended. `AllPlaced` is the one
liveness property; the loops of this library run over containers that they do
not extend (`Peepholes` goes back to an instruction that it made, which no
rewrite applies to), so there is little else to ask of them.

### What the runs found

- `reg_alloc_ties`: `active` is keyed by the end point alone, so a second value
  that ends at the same instruction is not entered, its register is never freed,
  and a later value finds none: `assert(free_reg_it != free_regs.end())` fails
  although a register is free in fact. Both operands of an instruction that end
  there do it. Proved: with distinct ends the assertion holds; and even with
  ties no two overlapping values share a register. They may share the index of
  `free_regs.end()`, which is no register: of [0, 4], [1, 4], [2, 4] and [3, 4]
  with two registers the last two both get the index 2. `NoSharedRegister` is
  about registers and leaves that index out; the assertion fails for both
  values, and without it line 91 writes past the end of `free_regs`.
- `lifetime`: `intersects` holds for a segment that is only next to a covered
  point, although the comment at `lifetime.hpp:87` speaks of points that belong
  to the lifetime. `QueriesMeanPoints` says what both queries mean.
- `RegAlloc` reads the lifetimes through pointers into a `LivenessAnalysis` that
  is destroyed before. With `HeapReused = TRUE` the reads return anything and
  the assertion fails for distinct ends too.
- `linear_order_paint`: `LoopTree` makes loops in pre-order of their latches,
  which is not always inner loops first; then `assert(color == Color::white)`
  fails.
- `linear_order`: a loop can get lost. A second latch of a header makes a second
  loop, which takes over the inner loops and is then not entered in the map; the
  headers of these are in no loop of the table any more (1 -> 2, 2 -> 3, 3 -> 1
  or 4, 4 -> 4 or 1). `LoopsNest` says that it happens nowhere else. With nested
  loops a block can come before its immediate dominator; `DominatorsFirst` says
  that, if inner latches come first, both are then in the body of one outermost
  loop.
- `Liveness`: `LifetimesCover` and `LifetimesTight` have the hypothesis
  `WellOrdered`. It is needed. `LiveIntoHeaders` says why, for every order that
  has each block once: what `live_ins` misses is what is live only across an
  edge that goes back in the order. The comment in `dominator_tree.hpp` takes
  the BFS order of the dominator tree for a reverse post-order; with A -> B or
  C, B -> D, D -> C it lists C before D, and a lifetime ends too early. So it
  does with nested loops (A -> B -> C, C -> B or A, a value of A read in C: the
  stretch around the outer loop is added before the value is known to be live
  there). The value's register is then given away while it is needed.
  `SegmentFoundStartsHere` needs it as well, and no function of four blocks
  shows that. Take an outer loop around H -> B or L, B -> H or Y, Y -> L, where
  H is the header of the inner loop and L is the latch of the outer one: the
  order lists B before H and Y after it. For a value that H computes and only Y
  reads, `live_ins[B]` is still empty at H, so the segment found at the
  definition is that of Y, which begins after it, and the assertion of line 79
  fails; a build without it gives the value a lifetime without its definition.
- Nothing keeps segments the right way round in `Liveness`: when `LinearOrder`
  has listed a block twice (`linear_order_paint`), a loop's latch can have
  smaller numbers than its header, and the constructor of `Segment` throws at
  line 101 (`StretchThrows`, which functions of three blocks reach).
- `IList`: `splice(last, l, first, last)` within one list, where `std::list`
  changes nothing, cuts the range out of the list. Nothing in the library calls
  it so; `SpliceInPlace = FALSE` leaves it out of the run.
- `ir`: use lists are exact until an operand that is there twice is set or
  removed once (`remove_user` erases every entry), or `add_path` is given a
  block with a record. `replace_with` uses an invalidated iterator if a PHI has
  the value on two paths, `remove_as_user` a null pointer for a `ret` or `br`
  without operand and a dangling one for a check whose operand has gone, which
  the check never registered for. `GoesWrongOnly` says that these are all the
  ways.
- `passes`, by the exceptions that `StepsKeepMeaning`,
  `ListsStayKnown`, `GoesWrongOnly` and `FoldsAll` have to name:
  - signed division, shift and comparison of constants narrower than i64 are
    done on zero-extended operands, so negative ones give a wrong constant;
  - `process_or` and `process_xor` merge constants with `bit_or`, but
    `bitwise_instr_chaining` looks for an `and` below, whatever is above it:
    `(x & c) | d` becomes `x | (c | d)`. In a build with assertions
    `process_xor` stops at line 290 for every xor, which asserts an or, and
    the chaining at line 204 if the instruction is the first of its block, which
    nothing prevents and the run's functions of two blocks have; the model is of
    a build without;
  - sums, differences, products and left shifts of narrow types are not cut
    back to the width, and `ConstantOutOfRange` leaves the pass; a product of
    two i16 overflows `int`, and the smallest i64 over -1 is not excluded;
  - DCE erases what only calls, loads and checks use, which never register, and
    leaves erased users in `users_`: the next pass that replaces such an operand
    goes through a dangling pointer. `ListsStayKnown` and `GoesWrongOnly` hold
    of what runs after DCE, too: only operands of what DCE erased have such a
    user, and only replacing one of them goes wrong;
  - DCE leaves the blocks that it erases in the `predecessors_` of those that
    stay. `DominatorTree` looks all predecessors up in the DFS and throws, so
    DCE does not make a function with dead blocks fit for it;
  - below a chained operation can be an `and` of two constants, the second of
    which it has itself, as in `(d & c) & c`; `set_rhs` then erases the entry
    that `set_lhs` has made in the `users_` of `c`.
- `inline`, by the exceptions of its properties:
  - `split_bb_at` moves instructions and nothing else: their `parent_`, their
    block's `first_non_phi_`, and the successors' `predecessors_` and PHI
    records keep saying what they did. A PHI behind the call then takes the
    value of a block that no longer leads to it (`PhisBehind`), and inlining a
    second call behind the first one splits the wrong block;
  - a call of a function that gets to no `ret` has no value to be replaced with:
    it is erased, and what uses it keeps a dangling operand (`NeverReturns`);
  - `callees_` forgets a callee when one of two calls of it is erased;
  - a callee with a load or a check reaches `std::unreachable`, and one with a
    PHI that takes a value from a dead block looks up what was not cloned.

  But for these, the caller returns what it did for every argument.
- `check_elimination` found nothing: on functions without dead blocks the pass
  removes exactly the checks that it may.

## 4. Proofs

All with TLAPS, for every value of the constants.

- `LifetimeSeparated`, `LifetimeImplementsPoints`: *hypothesis* `NoWrap`
  (`MaxEnd < SizeMax`): no segment ends at the largest `size_t`, where `end + 1`
  wraps and the comparator is no order of touching segments. `Separated` is
  inductive by itself. The argument is `HullFacts`: of separated segments only
  one that the new one touches can start before it and only one can end after
  it, so the two ends that `add` takes from the equal range are the ends of the
  union. From it `AddCovers` and `EraseUncovers` give the refinement, step by
  step.
- `LifetimeQueries`, under the same hypothesis: from `Separated` a covered
  point next to a segment is in the segment (`NeighboursTogether`), so a stored
  segment is a maximal run and every maximal run is stored; and a stored segment
  is equivalent to the one that is asked for if and only if it has a point in it
  or next to it.
- `RegAllocSafe`: *hypothesis* `HeapKept`. `NoSharedRegister` is not inductive:
  it does not say why a register that is handed out is free. The strengthening
  `IInv` adds that an entry of `active` agrees with the result and that its
  register is not free (`ActiveHolds`), that entries have different registers
  (`ActiveApart`), and `Accounted`: a value in a register is in `active`, or all
  values to come start after its end, or its register is `Lost`, that is,
  occupied for ever because `active.emplace` did nothing. Ties are covered; the
  index past the registers that they can yield is not a register.
- `AssertionHoldsIfEndsDiffer`: with distinct ends no register is `Lost`
  (`NoneLost`), so an `active` that is not full leaves one free; a counting
  argument over finite sets.
- `RegAllocSpillsTheLast`, `RegAllocSpillsUnderPressure`: from `IInv`. For the
  second, the values in a full `active` are all live where the current value
  starts, by the order of the scan (`Sorted`) and expiry, and are different
  (`ActiveApart`): with the current one they are `NumRegs + 1`
  (`FullMeansPressure`). Later turns only add values to `LiveAt`
  (`PressureStays`). Ties are covered.
- `RegAllocImplementsAssignment`: with distinct ends each way of a turn is one
  of `StorageAssignment` (`TurnRefines`). `GetsRegister` is `NoSharedRegister`
  after the step, that there is a register at all is `NoneLost`, and a slot is
  fresh because those in the result are below `stack_loc` (`SlotsGiven`).
- `DFSTypeOK`, `DFSCallsNest`, `DFSPostOrderForward`: no hypothesis but the one
  on the number of blocks. The recursion of the code is a stack that the model
  keeps as `predecessor_` links; `Stack` says that the open calls are linked
  from `current` in decreasing order of their discovery, and `TimesDiffer` that
  a time is given once. With these nesting and the direction of edges are
  inductive.
- `DFSFindsReachable`: a second invariant, `Explored`, says that whatever a
  returned call leads to is known and that both orders list what was found by
  its times. When the constructor returns, the known vertices are closed under
  edges, and `ReachIsLeast` (`GraphProofs`) says that the reference `Reach`
  is the least such set. `Reach` is a fold of `NumBlocks` rounds; the fold is
  unfolded to the sequence of its partial results, which grow until a round adds
  nothing, and a set of blocks cannot grow more often than there are blocks
  (pigeonhole).
- `DFSAncestorsByTime`: a climb along `predecessor_` descends in discovery time,
  so it ends after at most `NumBlocks` steps and passes exactly the calls whose
  times enclose those of the vertex.
- `LinearOrderIDoms`: no hypothesis but that no dead block branches to a live
  one, without which the constructor throws. The invariant of the state is
  `Analysed`, that the trees are those of the graph; what the trees are is shown
  in `GraphProofs`, in the order of Lengauer and Tarjan's paper and with `Reach`
  in the place of its paths:
  - what `DFSOf` finds is a `SearchTree`: links lead to ancestors, times nest,
    and an edge does not lead to a later branch. A path between two vertices
    therefore passes a common ancestor of them;
  - the semidominator of a vertex is the least one in time from which a path
    reaches it around the vertices found before it. `compute_semidominators`
    goes backwards through the pre-order and finds it, because after every turn
    the map has the semidominators of all that was found later;
  - the first pass of `compute_idoms` gives a vertex the least semidominator on
    the tree path below its own; if that is its own semidominator it is the
    immediate dominator, else it has the same one as the vertex chosen, which
    the second pass, in pre-order, has already put right;
  - an immediate dominator is found before its vertex, so the chain that
    `is_dominator_of` follows ends, and it passes the strict dominators.
- `LinearOrderLoopsNatural`: the search backwards from a latch around the header
  stays in what the header dominates and finds the natural loop, and its source,
  the latch, is the last to finish. Every loop in the table is made so from one
  of the back edges to its header (`LoopsOfTable`), whichever are replaced or
  moved into others.
- `LinearOrderLoopsNest`: the disjointness under `InnerLatchesFirst`, in the
  property, the rest for any function. Two natural loops with different headers
  that meet have the header of one inside the other, and then all of it. When
  the inner loop is made first, the turn of the outer one takes it from the
  table, so those that are left stay apart (`TableNests`). Whatever the order, a
  turn takes a loop from the table only if its header is in the body of the loop
  that is being made, and that one is entered unless its header has an earlier
  latch: the invariant of the fold is that a header is in a loop of the table or
  in the body of such a loop (`TableKeeps`).
- `LinearOrderEveryBlockOnce`: the same hypothesis. The invariant is
  `TurnsListed`: `order` and `queue` share nothing, have nothing twice and have
  together what is black; the body of a loop whose header is still queued is
  white; and what a block in the order dominates immediately is black. The
  third part is why nothing is missed: when the queue is empty, the first block
  of the pre-order that is white would have an immediate dominator that is in
  the order. The second part is the assertion of line 73 in the form that a turn
  keeps.
- `LinearOrderDominatorsFirst`: *hypotheses* `Reducible` and `LoopsApart` for
  the first part, `InnerLatchesFirst` for the second, in the property. For the
  first the invariant `KeepsOrder` says that `order` followed by `queue`
  has immediate dominators first. A loop's body is queued in the order in which
  the search against the edges from the latch finishes. In a reducible graph the
  edges that are not back edges make no cycle (`NoForwardCycle`), so that search
  finishes the predecessors of a block before it (`PredecessorsFinish`), with
  them all that is above it in the tree of the search from the entry, and the
  immediate dominator among that (`BodyFollows`). For the second the
  invariant says the same of a block and its `Anchor`: the immediate dominator,
  or the header of the table's loop if both are in its body. What a turn queues
  is anchored at the block it takes, for the immediate dominator of a block in a
  body is in the body or the header (`IDomsInLoops`), and the loops of the table
  are apart. So the two parts are one argument (`KeepsOrder`) about two maps
  (`Ranked`), and a block can only be ahead of its immediate dominator if that
  is not its anchor.
- `CheckEliminationStillChecked`, `CheckEliminationNoneTooMany`: no hypothesis
  but that no dead block branches to a live one and that a check stands at one
  place of one block (`ChecksAssumption`). The invariant is `IInv`: the handlers
  have judged a first part of the walk (`Judged`), and what stays is all but the
  judged checks that are not in `input_to_check`. No two in `input_to_check`
  with the same input are such that one is ahead of the other, and a check that
  goes has one of the same input ahead of it there. Reverse post-order has every
  block after its strict dominators (`DominatorsWalkedFirst`), so a check that
  comes later in the walk is never ahead of an earlier one (`WalkedFacts`), and
  what was judged stays judged. For `StillChecked` a path from a definition that
  avoids the blocks of the equal checks that stay would, with the path from the
  entry to the definition, avoid the one that dominates (`FirstReachedAround`).
- `IListLinksInverse`, `IListSizeIsLength`, `IListEachNodeOwnedOnce`,
  `IListImplementsSequences`: *hypothesis* `~SpliceInPlace`: no caller splices a
  range to a place before its own end within one list, which cuts it out of the
  list (the hazard at `ilist.hpp:210`; nothing in the repository does it). The
  invariant is `Represents(Chains)`: there are sequences, one for each list
  constructed, whose nodes with the sentinel form rings that are inverse in
  `next_` and `prev_`, share nothing and contain every linked node, with `size_`
  the lengths. Every member function is a few `connect`s; `CutFacts`,
  `PasteFacts` and the lemmas that end in `Rings` say what it does to rings as
  cutting and pasting sequences, and `StepOnSequences` collects them. That the
  walk of `Chain` reads the sequence of its ring back (`ChainsAreTheSequences`)
  is shown for the least position where it would not. With it every step is one
  of `NodeSequences` (`AbstractStep`).
- `IRPhisBeforeFirstNonPhi`, `IROperandsExist`, `IRGoesWrongOnly`,
  `IRUsersWrongOnly`: no hypothesis on the constants but that an instruction is
  neither a block nor one of the two markers. The clients of the model place
  instructions as `Placeable` says, which is more than `basic_block.hpp` checks
  (lines 77-89): nothing but PHIs before a PHI, a terminator last and only one,
  the other instructions before it. The invariant is `Sound`: the type;
  `Accounted`, that what exists has `users_` and is at one place of one block;
  `Parted`, that `first_non_phi_` is the end or the first instruction of a block
  that is not a PHI; and `Registered`, that operands of what registers exist and
  are not void. `IROperandsExist` is inductive only because the model stops
  where `users_` is wrong: then the instructions that `replace_with` visits,
  those in `users_`, are all that have the deleted value as an operand. The walk
  over them, and the one over the records of a PHI, is a fold that is unfolded
  to its partial results; each of them is in `Setting`, where operands are what
  they were or the new value and nothing else has changed.
- `IRUsersWrongOnly` counts. `users_` is a multiset and the setters erase every
  entry of a user, so after the first slot that `replace_with` sets the old
  value has no entry of the user left, whatever other slots still hold it.
  `SetSoFar` says what the entries are for a set of slots done: none for the old
  value and one more for the new one per slot. All slots with the old value are
  set in the end (`UsersAreRedirected`), which makes `users_` exact again for
  each user in turn (`OperandsSetKnown`, `ReplacedKnown`); `remove_as_user`
  makes it exact for all but the instruction that `erase` then deletes
  (`KnownBut`).

Model-checked only:

- `Liveness` (`LifetimesCover`, `LifetimesTight`, `LiveIntoHeaders`,
  `SegmentFoundStartsHere`): what lifetimes are after a backward pass over
  nested loops, each block's a fold over its instructions and those of the PHIs
  behind it, on vertex numbers that another fold hands out. The invariant would
  relate a part of that nest to the live values of paths yet to be taken; it
  rests on the proofs of `LinearOrder` and is the next one to do;
- the passes and `Inline`, whose properties compare executions: `Execution` is a
  recursion on fuel, so what the passes keep of it needs induction over data;
- `AllPlaced`, which is liveness under fairness and out of the installed
  provers' reach. So is what a recursive definition computes for every input, by
  induction; the folds in the proofs above are reasoned about by unfolding them
  to a function of the number of elements and taking the least counterexample.

## 5. Not modelled

- `ilist` move assignment and swap (nothing instantiates them); `Loop`'s unused
  mutators; the iterators beyond the walk they do.
- Void returns in `Liveness`: `inputs()` is one null pointer, which trips the
  assertion of line 85 in every such function.
- Of the IR core: the exceptions for a type mismatch, which are thrown before
  anything changes; ids, which are for printing; `set_true_path` and
  `set_false_path`, which nothing calls and which leave `predecessors_` as they
  were.
- Of `Function`: `add_parameter` and numbering; of `Type`: all but widths and
  void.
- Builds with assertions in `Peepholes`: the first xor stops them, or the first
  operation with constants to merge that is the first of its block.
- Several functions at once, beyond a caller and its callee: no pass looks at
  two.
- Printing, build files, tests.

## 6. Plan

1. Done: `Lifetime`, `RegAlloc`, `IList`, the chain from `DFS` to
   `LivenessAnalysis`; proofs of Lifetime, RegAlloc, DFS.
2. Done: the core of the IR and `BasicBlock`; the passes `ConstantFolding`,
   `Peepholes`, `DCE` and `CheckElimination`; `Function::inline_at` and
   `split_bb_at`.
3. Done: proofs of what `RegAlloc` spills, of its refinement of
   `StorageAssignment`, of `QueriesMeanPoints`; of `IList` and its refinement
   of `NodeSequences`; of all that the `dfs` run checks; of `IR` and its use
   lists.
4. Done: proofs that the dominator tree is one, that loops are natural and nest,
   of what `LinearOrder` promises, and of `CheckElimination` from them.
5. Left, proofs: `Liveness`.
