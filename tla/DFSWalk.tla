-------------------------------- MODULE DFSWalk --------------------------------
(***************************************************************************)
(* The construction of a DFS, call by call, over any graph, from any       *)
(* source and around any vertices that are passed as already visited       *)
(* (LoopTree passes the header of a loop).                                 *)
(***************************************************************************)
EXTENDS DFS

VARIABLES graph, visited, dfs

vars == <<graph, visited, dfs>>

Init ==
    /\ \E succ \in [Block -> Paths] : graph = GraphOf(succ)
    /\ \E source \in Block :
        /\ visited \in SUBSET (Block \ {source})
        /\ dfs = Started(source, visited)

(* do_dfs calls itself *)
Call ==
    /\ dfs.current # NoBlock
    /\ Fresh(graph, dfs) # {}
    /\ dfs' = Enter(dfs, Child(graph, dfs))
    /\ UNCHANGED <<graph, visited>>

Return ==
    /\ dfs.current # NoBlock
    /\ Fresh(graph, dfs) = {}
    /\ dfs' = Leave(dfs)
    /\ UNCHANGED <<graph, visited>>

Done == dfs.current = NoBlock /\ UNCHANGED vars

Next == Call \/ Return \/ Done

Spec == Init /\ [][Next]_vars

-------------------------------------------------------------------------------

source_ == dfs.pre_order[1]

Found == DOMAIN dfs.info \ visited

Discovered(v) == dfs.info[v].discovery_time

Finished(v) == dfs.info[v].finished_time

Open(v) == Finished(v) = 0

Node == [predecessor    : Found \cup {NoBlock},
         discovery_time : 0 .. dfs.time,
         finished_time  : 0 .. dfs.time]

TypeOK ==
    /\ graph.succ \in [Block -> Seq(Block)]
    /\ visited \subseteq DOMAIN dfs.info
    /\ DOMAIN dfs.info \subseteq Block
    /\ dfs \in [info       : [DOMAIN dfs.info -> Node],
                pre_order  : Seq(Found),
                post_order : Seq(Found),
                current    : Found \cup {NoBlock},
                time       : Nat]

(* Lines 145 and 154: two calls never overlap partly.  A call that begins  *)
(* within another one returns before the other does.                       *)
CallsNest ==
    \A u, v \in Found :
        /\ Discovered(u) < Discovered(v)
        /\ Finished(u) # 0
        => \/ Finished(u) < Discovered(v)
           \/ Finished(v) # 0 /\ Finished(v) < Finished(u)

(* Lines 128-134: when the search is over, comparing times is the same as  *)
(* following predecessor_ (what st_iterator does).                         *)
AncestorsByTime ==
    dfs.current = NoBlock =>
        \A u, v \in Found : is_ancestor_of(dfs, v, u) <=> u \in Range(Ancestors(dfs, v))

(* Line 155: an edge of a vertex whose call has returned leads to an       *)
(* ancestor, discovered before it and not returned before it, or to a      *)
(* vertex that is earlier in post_order.  So the passes that go over       *)
(* post_order in reverse see a block after its predecessors, back edges    *)
(* aside.                                                                  *)
PostOrderForward ==
    \A u \in Found : \A v \in Range(graph.succ[u]) \ visited :
        Finished(u) # 0 =>
            /\ v \in Found
            /\ \/ Discovered(v) <= Discovered(u) /\ (Open(v) \/ Finished(u) <= Finished(v))
               \/ ~Open(v) /\ Finished(v) < Finished(u)

(* The orders list the vertices that a path around the visited ones        *)
(* reaches, each once; pre_order by discovery and post_order by return.    *)
FindsReachable ==
    dfs.current = NoBlock =>
        /\ Found = Reach(graph, source_, visited)
        /\ Range(dfs.pre_order) = Found
        /\ \A i, j \in DOMAIN dfs.pre_order :
               i < j => Discovered(dfs.pre_order[i]) < Discovered(dfs.pre_order[j])
        /\ Range(dfs.post_order) = Found
        /\ \A i, j \in DOMAIN dfs.post_order :
               i < j => Finished(dfs.post_order[i]) < Finished(dfs.post_order[j])

===============================================================================
