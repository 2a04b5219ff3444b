-------------------------- MODULE StorageAssignment ---------------------------
(***************************************************************************)
(* What register allocation promises, whatever the algorithm: values get   *)
(* their places one at a time, two values whose lifetimes overlap never    *)
(* share a register, no two values ever share a stack slot, and a value    *)
(* that has a place keeps it unless it is moved to a fresh stack slot to   *)
(* make room for the value being placed.  Module RegAlloc implements this. *)
(***************************************************************************)
EXTENDS Naturals

CONSTANTS Instr, NumRegs

VARIABLES lifetime, place

vars == <<lifetime, place>>

Register == [kind : {"register"}, index : 0 .. NumRegs - 1]

StackSlot == [kind : {"stack"}, index : Nat]

Placed == DOMAIN place

Overlap(i, j) == /\ lifetime[i].start < lifetime[j].end
                 /\ lifetime[j].start < lifetime[i].end

(* i gets a place, and all others but the values in moved keep theirs *)
Extends(i, moved) ==
    /\ DOMAIN place' = Placed \cup {i}
    /\ \A j \in Placed \ moved : place'[j] = place[j]

(* the new place of i: a register none of its neighbours holds, or a slot  *)
(* nobody else has                                                         *)
GetsRegister(i) ==
    /\ place'[i] \in Register
    /\ \A j \in Placed : place'[j] = place'[i] => ~Overlap(i, j)

GetsSlot(i) ==
    /\ place'[i] \in StackSlot
    /\ \A j \in Placed \ {i} : place'[j] # place'[i]

ToRegister(i) == Extends(i, {}) /\ GetsRegister(i)

ToStack(i) == Extends(i, {}) /\ GetsSlot(i)

Evict(v, i) == /\ place[v] \in Register
               /\ Extends(i, {v})
               /\ GetsSlot(v)
               /\ GetsRegister(i)

Init == place = << >>

Next ==
    /\ \E i \in Instr \ Placed : \/ ToRegister(i)
                                 \/ ToStack(i)
                                 \/ \E v \in Placed : Evict(v, i)
    /\ UNCHANGED lifetime

Spec == Init /\ [][Next]_vars
===============================================================================
