---------------------------------- MODULE DFS ----------------------------------
(***************************************************************************)
(* bjac::DFS (include/bjac/graphs/dfs.hpp) as a value and the two things   *)
(* its recursion do_dfs does to it: a call is entered, a call returns.     *)
(*                                                                         *)
(* d.info is info_, d.time the time parameter, and d.current the vertex    *)
(* of the innermost call (NoBlock: the constructor has returned).  A call  *)
(* returns to the call for its predecessor_, so the links are the stack.   *)
(***************************************************************************)
EXTENDS FlowGraph

NoBlock == 0

InfoNode(predecessor, discovery_time, finished_time) ==
    [predecessor    |-> predecessor,
     discovery_time |-> discovery_time,
     finished_time  |-> finished_time]

Stored(info, v, node) ==
    [u \in DOMAIN info \cup {v} |-> IF u = v THEN node ELSE info[u]]

(* Mutant: the time of a call that begins is given out twice *)
EnterSameTime(d, v) ==
    [info       |-> Stored(d.info, v, InfoNode(d.current, d.time + 1, 0)),
     pre_order  |-> Append(d.pre_order, v),
     post_order |-> d.post_order,
     current    |-> v,
     time       |-> d.time]

(* Lines 143-146: the call for v begins *)
Enter(d, v) ==
    [info       |-> Stored(d.info, v, InfoNode(d.current, d.time + 1, 0)),
     pre_order  |-> Append(d.pre_order, v),
     post_order |-> d.post_order,
     current    |-> v,
     time       |-> d.time + 1]

(* Mutant: the times of a call that returns do not advance *)
LeaveSameTime(d) ==
    LET u == d.current
    IN  [info       |-> [d.info EXCEPT ![u].finished_time = d.time],
         pre_order  |-> d.pre_order,
         post_order |-> Append(d.post_order, u),
         current    |-> d.info[u].predecessor,
         time       |-> d.time]

(* Mutant: the post-order is filled from the front *)
LeaveToFront(d) ==
    LET u == d.current
    IN  [info       |-> [d.info EXCEPT ![u].finished_time = d.time + 1],
         pre_order  |-> d.pre_order,
         post_order |-> <<u>> \o d.post_order,
         current    |-> d.info[u].predecessor,
         time       |-> d.time + 1]

(* Lines 154-157: the call for current returns *)
Leave(d) ==
    LET u == d.current
    IN  [info       |-> [d.info EXCEPT ![u].finished_time = d.time + 1],
         pre_order  |-> d.pre_order,
         post_order |-> Append(d.post_order, u),
         current    |-> d.info[u].predecessor,
         time       |-> d.time + 1]

(* Mutant: only the first path of a branch is followed *)
FreshFirstOnly(g, d) ==
    {i \in DOMAIN g.succ[d.current] : i = 1 /\ g.succ[d.current][i] \notin DOMAIN d.info}

(* The paths that the loop of lines 148-152 has left to recurse into, by   *)
(* their indices.  Vertices only become known, so what was skipped once    *)
(* need not be looked at again.                                            *)
Fresh(g, d) ==
    {i \in DOMAIN g.succ[d.current] : g.succ[d.current][i] \notin DOMAIN d.info}

Child(g, d) == g.succ[d.current][Min(Fresh(g, d))]

(* Lines 89-96: the visited vertices are known, at time 0, and the call    *)
(* for the source begins.                                                  *)
Started(source, visited) ==
    Enter([info       |-> [v \in visited |-> InfoNode(NoBlock, 0, 0)],
           pre_order  |-> << >>,
           post_order |-> << >>,
           current    |-> NoBlock,
           time       |-> 0],
          source)

Step(g, d) == IF Fresh(g, d) = {} THEN Leave(d) ELSE Enter(d, Child(g, d))

(* the finished object: one entry and one return for every vertex found *)
DFSOf(g, source, visited) ==
    FoldLeft(LAMBDA d, n : IF d.current = NoBlock THEN d ELSE Step(g, d),
             Started(source, visited),
             Times(2 * NumBlocks))

(* Mutant: the second comparison is missing *)
is_ancestor_ofStart(d, v, u) == d.info[u].discovery_time <= d.info[v].discovery_time

(* u is an ancestor of v *)
is_ancestor_of(d, v, u) ==
    /\ d.info[u].discovery_time <= d.info[v].discovery_time
    /\ d.info[v].finished_time <= d.info[u].finished_time

(* the vertices an st_iterator meets from v to the root, in order *)
Ancestors(d, v) ==
    FoldLeft(LAMBDA path, n :
                 LET u == d.info[path[Len(path)]].predecessor
                 IN  IF u = NoBlock THEN path ELSE Append(path, u),
             <<v>>,
             Times(NumBlocks))
===============================================================================
