------------------------------- MODULE Execution -------------------------------
(***************************************************************************)
(* What a function of the IR returns: the reference that the passes and    *)
(* inlining are checked against.  Nothing here is code of the library,     *)
(* which never executes its IR; the meaning of an instruction is that of   *)
(* its name, on values of its type's width in two's complement.            *)
(***************************************************************************)
EXTENDS IRCore, IntTypes

CONSTANT Fuel   \* the blocks that an execution may enter

Poison == -1    \* division by zero, a shift too far, a value that is not there
Void == -2      \* returned without a value
Running == -3   \* out of fuel, or in a call that is

NoValue(op, type, l, r) ==
    \/ op \in {"udiv", "sdiv", "urem", "srem"} /\ r = 0
    \/ op \in {"shl", "shra", "shrl"} /\ r >= Width[type]
    \/ /\ op \in {"sdiv", "srem"}
       /\ Signed(type, r) = -1 /\ Signed(type, l) = -(2 ^ (Width[type] - 1))

Computed(op, type, l, r) ==
    LET Wrapped(z) == z % 2 ^ Width[type]
        sl == Signed(type, l)
        sr == Signed(type, r)
    IN  IF NoValue(op, type, l, r) THEN Poison
        ELSE CASE op = "add" -> Wrapped(l + r)
               [] op = "sub" -> Wrapped(l - r)
               [] op = "mul" -> Wrapped(l * r)
               [] op = "udiv" -> l \div r
               [] op = "urem" -> l % r
               [] op = "sdiv" -> Wrapped(Quotient(sl, sr))
               [] op = "srem" -> Wrapped(Remainder(sl, sr))
               [] op = "shl"  -> Wrapped(l * 2 ^ r)
               [] op = "shra" -> Wrapped(sl \div 2 ^ r)
               [] op = "shrl" -> l \div 2 ^ r
               [] op = "and"  -> BitAnd(l, r)
               [] op = "or"   -> BitOr(l, r)
               [] op = "xor"  -> BitXor(l, r)

Compared(kind, type, l, r) ==
    LET sl == Signed(type, l)
        sr == Signed(type, r)
    IN  CASE kind = "eq"  -> l = r
          [] kind = "ne"  -> l # r
          [] kind = "ult" -> l < r
          [] kind = "ule" -> l <= r
          [] kind = "ugt" -> l > r
          [] kind = "uge" -> l >= r
          [] kind = "slt" -> sl < sr
          [] kind = "sle" -> sl <= sr
          [] kind = "sgt" -> sl > sr
          [] kind = "sge" -> sl >= sr

-------------------------------------------------------------------------------

(* An execution s is in block s.at, came from s.from, and s.env has the    *)
(* values that instructions have had.                                      *)
Got(env, i) == IF i \in DOMAIN env THEN env[i] ELSE Poison

(* The value of an instruction.  A PHI takes that of env, from before the  *)
(* block was entered, by the block that the execution came from.           *)
ValueOf(ir, i, s, env, args, Call(_, _)) ==
    LET n == ir.node[i]
        l == Got(env, n.operands["lhs"])
        r == Got(env, n.operands["rhs"])
    IN  CASE n.opcode = "const" -> n.attr
          [] n.opcode = "arg"   -> args[n.attr]
          [] n.opcode = "phi"   -> IF s.from \in DOMAIN n.operands
                                   THEN Got(s.env, n.operands[s.from]) ELSE Poison
          [] n.opcode = "call"  -> Call(n.attr, [k \in DOMAIN n.operands |-> Got(env, n.operands[k])])
          [] n.opcode \in {"bin", "icmp"} ->
                 IF {l, r} \cap {Poison, Running} # {} THEN Poison
                 ELSE IF n.opcode = "bin" THEN Computed(n.attr, n.type, l, r)
                 ELSE IF Compared(n.attr, ir.node[n.operands["lhs"]].type, l, r) THEN 1 ELSE 0

(* one block; the model's checks, loads and empty blocks return nothing *)
BlockRun(ir, s, args, Call(_, _)) ==
    LET env == FoldLeft(LAMBDA e, i :
                            IF ir.node[i].opcode \in {"ret", "br", "check"} THEN e
                            ELSE (i :> ValueOf(ir, i, s, e, args, Call)) @@ e,
                        s.env, ir.body[s.at])
        last == ir.node[Last(ir.body[s.at])]
        To(b) == [s EXCEPT !.at = b, !.from = s.at, !.env = env]
        Returns(x) == [s EXCEPT !.result = x]
    IN  IF ir.body[s.at] = << >> THEN Returns(Poison)
        ELSE IF \E i \in Range(ir.body[s.at]) : Got(env, i) = Running THEN Returns(Running)
        ELSE CASE last.opcode = "ret" /\ last.operands = << >> -> Returns(Void)
               [] last.opcode = "ret" -> Returns(Got(env, last.operands["value"]))
               [] last.opcode = "br" /\ last.operands = << >> -> To(last.paths[1])
               [] last.opcode = "br" ->
                      LET condition == Got(env, last.operands["condition"])
                      IN  IF condition = Poison THEN Returns(Poison)
                          ELSE To(last.paths[IF condition = 1 THEN 1 ELSE 2])
               [] OTHER -> Returns(Poison)

(* what ir returns for args, its blocks entered from the block entry *)
Returned(ir, entry, args, Call(_, _)) ==
    FoldLeft(LAMBDA s, k : IF s.result = Running THEN BlockRun(ir, s, args, Call) ELSE s,
             [at |-> entry, from |-> entry, env |-> << >>, result |-> Running],
             [k \in 1 .. Fuel |-> k]).result
===============================================================================
