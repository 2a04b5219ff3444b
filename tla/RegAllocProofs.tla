---------------------------- MODULE RegAllocProofs ----------------------------
(***************************************************************************)
(* Proofs about module RegAlloc, for every finite set of values, every     *)
(* number of registers and all lifetimes, and that with distinct end       *)
(* points it implements StorageAssignment.  They assume that the freed     *)
(* lifetimes keep their contents (HeapReused = FALSE).                     *)
(***************************************************************************)
EXTENDS RegAlloc, FiniteSetTheorems, WellFoundedInduction, TLAPS

-------------------------------------------------------------------------------
(* Natural numbers.                                                        *)

(* Min is the least element of a set of natural numbers, finite or not.    *)
LEMMA SmallestNat ==
    ASSUME NEW S \in SUBSET Nat, S # {}
    PROVE  Min(S) \in S /\ \A y \in S : Min(S) <= y
<1> DEFINE R == OpToRel(<, Nat)
<1>1. \A x, y \in Nat : x < y <=> <<x, y>> \in R
    BY DEF OpToRel
<1>2. \E x \in S : \A y \in S : ~ (<<y, x>> \in R)
    <2> HIDE DEF R
    <2>1. IsWellFoundedOn(R, Nat)
        BY NatLessThanWellFounded DEF R
    <2>2. QED
        BY <2>1, WFMin
<1> HIDE DEF R
<1>3. \E x \in S : \A y \in S : x <= y
    <2>1. PICK x \in S : \A y \in S : ~ (<<y, x>> \in R)
        BY <1>2
    <2>2. \A y \in S : x \in Nat /\ y \in Nat
        OBVIOUS
    <2>3. \A y \in S : ~ (y < x)
        BY <1>1, <2>1, <2>2
    <2>4. QED
        BY <2>2, <2>3
<1>4. QED
    BY <1>3 DEF Min


HeapKept == HeapReused = FALSE

-------------------------------------------------------------------------------
(* The inductive invariant.                                                *)

(* what active says of an instruction agrees with the result, and its      *)
(* register is not free                                                    *)
ActiveHolds ==
    \A a \in active : /\ a.instr \in Seen
                      /\ instr_to_reg_[a.instr] = Register(a.reg)
                      /\ a.reg \notin free_regs

(* two entries of active are of different values in different registers *)
ActiveApart ==
    \A a, b \in active :
        a.instr = b.instr \/ (a.reg = b.reg /\ a.reg \in Reg) => a = b

(* r is occupied but belongs to nobody: its interval was not emplaced      *)
(* because another one ended at the same point.  It stays so for ever.     *)
Lost(r) == r \notin free_regs /\ \A a \in active : a.reg # r

(* A value in register r is in active, or its register is lost, or no      *)
(* value to come starts before its end.                                    *)
Accounted ==
    \A j \in Seen, r \in Reg :
        instr_to_reg_[j] = Register(r) =>
            \/ \E a \in active : a.instr = j
            \/ Lost(r)
            \/ \A t \in todo : lifetime[j].end <= lifetime[t].start

IInv == /\ TypeOK
        /\ heap = lifetime
        /\ ActiveHolds
        /\ ActiveApart
        /\ Accounted
        /\ NoSharedRegister

-------------------------------------------------------------------------------

LEMMA RegisterIndex ==
    \A r, s : Register(r) = Register(s) => r = s
BY DEF Register

LEMMA PointFacts ==
    ASSUME TypeOK
    PROVE  \A i \in Instr : /\ lifetime[i].start \in Nat
                            /\ lifetime[i].end \in Nat
                            /\ lifetime[i].start <= lifetime[i].end
<1> SUFFICES ASSUME NEW i \in Instr
             PROVE  /\ lifetime[i].start \in Nat
                    /\ lifetime[i].end \in Nat
                    /\ lifetime[i].start <= lifetime[i].end
    OBVIOUS
<1>1. lifetime[i] \in Interval
    BY DEF TypeOK
<1>2. QED
    BY <1>1, RegAllocAssumption DEF Interval

(* After the intervals that end before i starts have been expired, the     *)
(* registers of those that remain are not free, and what Accounted says    *)
(* holds of the entries that remain.                                       *)
LEMMA AfterExpiry ==
    ASSUME IInv, NEW i \in Instr, IsNext(i)
    PROVE  LET live == StillActive(i)
               free == FreeAfterExpiry(i)
           IN  /\ live \subseteq active
               /\ free \subseteq Reg
               /\ free_regs \subseteq free
               /\ \A a \in live : a.reg \notin free
               /\ \A j \in Seen, r \in Reg :
                     instr_to_reg_[j] = Register(r) =>
                         \/ \E a \in live : a.instr = j
                         \/ r \notin free /\ \A a \in live : a.reg # r
                         \/ \A t \in todo : lifetime[j].end <= lifetime[t].start
<1> DEFINE live == StillActive(i)
           free == FreeAfterExpiry(i)
           gone == Expired(heap[i].start)
<1>1. /\ live = active \ gone
      /\ free = free_regs \cup ({a.reg : a \in gone} \cap Reg)
      /\ gone = {a \in active : lifetime[a.instr].end <= lifetime[i].start}
    BY DEF StillActive, FreeAfterExpiry, Expired, IInv
<1>2. active \subseteq Entry /\ todo \subseteq Instr /\ free_regs \subseteq Reg
    BY DEF IInv, TypeOK
<1>3. \A a \in active : a.instr \in Instr /\ a.reg \in Nat
    BY <1>2 DEF Entry
<1> HIDE DEF live, free, gone
<1>4. free \subseteq Reg /\ live \subseteq active /\ free_regs \subseteq free
    BY <1>1, <1>2
<1>5. \A a \in live : a.reg \notin free
    <2> SUFFICES ASSUME NEW a \in live, a.reg \in free
                 PROVE  FALSE
        OBVIOUS
    <2>1. a.reg \notin free_regs
        BY <1>1 DEF IInv, ActiveHolds
    <2>2. PICK b \in gone : b.reg = a.reg
        BY <1>1, <2>1
    <2>3. a = b
        BY <1>1, <1>4, <2>2 DEF IInv, ActiveApart
    <2>4. QED
        BY <1>1, <2>2, <2>3
<1>6. ASSUME NEW j \in Seen, NEW r \in Reg, instr_to_reg_[j] = Register(r)
      PROVE  \/ \E a \in live : a.instr = j
             \/ r \notin free /\ \A a \in live : a.reg # r
             \/ \A t \in todo : lifetime[j].end <= lifetime[t].start
    <2>1. CASE \E a \in active : a.instr = j
        <3>1. PICK a \in active : a.instr = j
            BY <2>1
        <3>2. CASE a \in live
            BY <3>1, <3>2
        <3>3. CASE a \notin live
            <4>1. lifetime[j].end <= lifetime[i].start
                BY <1>1, <3>1, <3>3
            <4>2. \A t \in todo : lifetime[i].start <= lifetime[t].start
                BY DEF IsNext
            <4>3. j \in Instr /\ i \in Instr
                BY <1>3, <3>1
            <4>4. TypeOK
                BY DEF IInv
            <4>5. QED
                BY <1>2, <4>1, <4>2, <4>3, <4>4, PointFacts
        <3>4. QED
            BY <3>2, <3>3
    <2>2. CASE Lost(r)
        BY <1>1, <2>2 DEF Lost
    <2>3. CASE \A t \in todo : lifetime[j].end <= lifetime[t].start
        BY <2>3
    <2>4. QED
        BY <1>6, <2>1, <2>2, <2>3 DEF IInv, Accounted
<1>7. QED
    BY <1>4, <1>5, <1>6 DEF live, free

LEMMA FirstFreeFacts ==
    ASSUME NEW regs \in SUBSET Reg
    PROVE  /\ FirstFree(regs) \in Nat
           /\ regs # {} => FirstFree(regs) \in regs
           /\ regs = {} => FirstFree(regs) \notin Reg
<1>1. NumRegs \in Nat
    BY RegAllocAssumption
<1>2. CASE regs = {}
    BY <1>1, <1>2 DEF FirstFree, Reg
<1>3. CASE regs # {}
    <2>1. regs \in SUBSET Nat
        BY <1>1 DEF Reg
    <2>2. Min(regs) \in regs
        BY <1>3, <2>1, SmallestNat
    <2>3. QED
        BY <1>1, <1>3, <2>1, <2>2 DEF FirstFree
<1>4. QED
    BY <1>2, <1>3

(* What the three ways of a turn have in common. *)
LEMMA TurnFacts ==
    ASSUME HeapKept, IInv, NEW i \in Instr, Turn(i)
    PROVE  /\ i \in todo /\ i \notin Seen /\ IsNext(i)
           /\ todo' = todo \ {i}
           /\ lifetime' = lifetime /\ heap' = lifetime'
<1>1. i \in todo /\ IsNext(i)
    BY DEF Turn, IsNext
<1>2. i \notin Seen
    BY <1>1 DEF IInv, TypeOK
<1>3. todo' = todo \ {i} /\ lifetime' = lifetime /\ heap' = heap
    BY DEF Turn, HeapStep, HeapKept
<1>4. QED
    BY <1>1, <1>2, <1>3 DEF IInv

LEMMA AssignRegisterKeepsInv ==
    ASSUME HeapKept, IInv, NEW i \in Instr, Turn(i), AssignRegister(i)
    PROVE  IInv'
<1> DEFINE live == StillActive(i)
           free == FreeAfterExpiry(i)
           reg == FirstFree(free)
           e == [instr |-> i, reg |-> reg]
<1>1. /\ i \in todo /\ i \notin Seen /\ IsNext(i) /\ todo' = todo \ {i}
      /\ lifetime' = lifetime /\ heap' = lifetime'
    BY TurnFacts
<1>2. /\ live \subseteq active /\ free \subseteq Reg
      /\ \A a \in live : a.reg \notin free
      /\ \A j \in Seen, r \in Reg :
            instr_to_reg_[j] = Register(r) =>
                \/ \E a \in live : a.instr = j
                \/ r \notin free /\ \A a \in live : a.reg # r
                \/ \A t \in todo : lifetime[j].end <= lifetime[t].start
    BY <1>1, AfterExpiry
<1>3. /\ reg \in Nat
      /\ reg \in Reg => reg \in free
    BY <1>2, FirstFreeFacts
<1>4. /\ free_regs' = free \ {reg}
      /\ active' = live \/ active' = live \cup {e}
      /\ stack_loc' = stack_loc
    BY DEF AssignRegister, Emplaced
<1>5. /\ Seen' = Seen \cup {i}
      /\ instr_to_reg_'[i] = Register(reg)
      /\ \A j \in Seen : instr_to_reg_'[j] = instr_to_reg_[j]
    <2>1. instr_to_reg_' = Assigned(instr_to_reg_, i, Register(reg))
        BY <1>1 DEF AssignRegister, TryEmplaced, Seen
    <2> HIDE DEF reg
    <2>2. /\ DOMAIN instr_to_reg_' = DOMAIN instr_to_reg_ \cup {i}
          /\ instr_to_reg_'[i] = Register(reg)
          /\ \A j \in DOMAIN instr_to_reg_ :
                j # i => instr_to_reg_'[j] = instr_to_reg_[j]
        BY <2>1 DEF Assigned
    <2>3. QED
        BY <1>1, <2>2 DEF Seen
<1>6. e.instr = i /\ e.reg = reg /\ e \in Entry
    BY <1>3 DEF Entry
<1>7. /\ TypeOK /\ ActiveHolds /\ ActiveApart /\ NoSharedRegister
    BY DEF IInv
<1> HIDE DEF live, free, reg, e
<1>8. TypeOK'
    <2>1. Register(reg) \in Storage
        BY <1>3 DEF Register, Storage
    <2>2. \A j \in Seen' : instr_to_reg_'[j] \in Storage
        BY <1>5, <1>7, <2>1 DEF TypeOK
    <2>3. Seen' = Instr \ todo'
        BY <1>1, <1>5, <1>7 DEF TypeOK
    <2>4. QED
        BY <1>1, <1>2, <1>4, <1>6, <1>7, <2>2, <2>3 DEF TypeOK
<1>9. ActiveHolds'
    <2> SUFFICES ASSUME NEW a \in active'
                 PROVE  /\ a.instr \in Seen'
                        /\ instr_to_reg_'[a.instr] = Register(a.reg)
                        /\ a.reg \notin free_regs'
        BY DEF ActiveHolds
    <2>1. CASE a \in live
        BY <1>2, <1>4, <1>5, <1>7, <2>1 DEF ActiveHolds
    <2>2. CASE a = e
        BY <1>4, <1>5, <1>6, <2>2
    <2>3. QED
        BY <1>4, <2>1, <2>2
<1>10. ActiveApart'
    <2>1. \A a \in live : a.reg \in Reg => a.reg # reg
        BY <1>2, <1>3
    <2>2. \A a \in live : a.instr # i
        BY <1>1, <1>2, <1>7 DEF ActiveHolds
    <2>3. QED
        BY <1>2, <1>4, <1>6, <1>7, <2>1, <2>2 DEF ActiveApart
<1>11. Accounted'
    <2> SUFFICES ASSUME NEW j \in Seen', NEW r \in Reg, instr_to_reg_'[j] = Register(r)
                 PROVE  \/ \E a \in active' : a.instr = j
                        \/ Lost(r)'
                        \/ \A t \in todo' : lifetime'[j].end <= lifetime'[t].start
        BY DEF Accounted
    <2>1. CASE j = i
        <3>1. r = reg
            BY <1>5, <2>1, RegisterIndex
        <3>2. \A a \in live : a.reg # reg
            BY <1>2, <1>3, <3>1
        <3>3. CASE active' = live
            BY <1>4, <3>1, <3>2, <3>3 DEF Lost
        <3>4. CASE active' = live \cup {e}
            BY <1>6, <2>1, <3>4
        <3>5. QED
            BY <1>4, <3>3, <3>4
    <2>2. CASE j \in Seen
        <3>1. instr_to_reg_[j] = Register(r)
            BY <1>5, <2>2
        <3>2. CASE \E a \in live : a.instr = j
            BY <1>4, <3>2
        <3>3. CASE r \notin free /\ \A a \in live : a.reg # r
            BY <1>3, <1>4, <1>6, <3>3 DEF Lost
        <3>4. CASE \A t \in todo : lifetime[j].end <= lifetime[t].start
            BY <1>1, <3>4
        <3>5. QED
            BY <1>2, <2>2, <3>1, <3>2, <3>3, <3>4
    <2>3. QED
        BY <1>5, <2>1, <2>2
<1>12. NoSharedRegister'
    <2>1. ASSUME NEW j \in Seen, NEW r \in Reg, instr_to_reg_[j] = Register(r), r = reg
          PROVE  ~Overlap(i, j) /\ ~Overlap(j, i)
        <3>1. r \in free
            BY <1>3, <2>1
        <3>2. CASE \E a \in live : a.instr = j
            <4>1. PICK a \in live : a.instr = j
                BY <3>2
            <4>2. a.reg = r
                BY <1>2, <1>7, <2>1, <4>1, RegisterIndex DEF ActiveHolds
            <4>3. QED
                BY <1>2, <3>1, <4>2
        <3>3. CASE \A t \in todo : lifetime[j].end <= lifetime[t].start
            <4>1. j \in Instr /\ lifetime[j].end <= lifetime[i].start
                BY <1>1, <1>7, <3>3 DEF TypeOK
            <4>2. QED
                BY <1>7, <4>1, PointFacts DEF Overlap
        <3>4. QED
            BY <1>2, <2>1, <3>1, <3>2, <3>3
    <2>2. \A j, k : Overlap(j, k)' <=> Overlap(j, k)
        BY <1>1 DEF Overlap
    <2> SUFFICES ASSUME NEW j \in Seen', NEW k \in Seen', j # k,
                        instr_to_reg_'[j] = instr_to_reg_'[k],
                        instr_to_reg_'[j].kind = "register",
                        instr_to_reg_'[j].index \in Reg
                 PROVE  ~Overlap(j, k)
        BY <2>2 DEF NoSharedRegister
    <2>3. CASE j \in Seen /\ k \in Seen
        BY <1>5, <1>7, <2>3 DEF NoSharedRegister
    <2>4. Register(reg).index = reg
        BY DEF Register
    <2>5. CASE j = i /\ k \in Seen
        <3>1. reg \in Reg /\ instr_to_reg_[k] = Register(reg)
            BY <1>1, <1>5, <2>4, <2>5
        <3>2. QED
            BY <2>1, <2>5, <3>1
    <2>6. CASE j \in Seen /\ k = i
        <3>1. reg \in Reg /\ instr_to_reg_[j] = Register(reg)
            BY <1>1, <1>5, <2>4, <2>6
        <3>2. QED
            BY <2>1, <2>6, <3>1
    <2>7. QED
        BY <1>5, <2>3, <2>5, <2>6
<1>13. QED
    BY <1>1, <1>8, <1>9, <1>10, <1>11, <1>12 DEF IInv

LEMMA SpillCurrentKeepsInv ==
    ASSUME HeapKept, IInv, NEW i \in Instr, Turn(i), SpillCurrent(i)
    PROVE  IInv'
<1> DEFINE live == StillActive(i)
           free == FreeAfterExpiry(i)
           slot == StackSlot(stack_loc)
<1>1. /\ i \in todo /\ i \notin Seen /\ IsNext(i) /\ todo' = todo \ {i}
      /\ lifetime' = lifetime /\ heap' = lifetime'
    BY TurnFacts
<1>2. /\ live \subseteq active /\ free \subseteq Reg
      /\ \A a \in live : a.reg \notin free
      /\ \A j \in Seen, r \in Reg :
            instr_to_reg_[j] = Register(r) =>
                \/ \E a \in live : a.instr = j
                \/ r \notin free /\ \A a \in live : a.reg # r
                \/ \A t \in todo : lifetime[j].end <= lifetime[t].start
    BY <1>1, AfterExpiry
<1>3. active' = live /\ free_regs' = free /\ stack_loc' = stack_loc + 1
    BY DEF SpillCurrent
<1>4. /\ Seen' = Seen \cup {i}
      /\ instr_to_reg_'[i] = slot
      /\ \A j \in Seen : instr_to_reg_'[j] = instr_to_reg_[j]
    <2>1. instr_to_reg_' = Assigned(instr_to_reg_, i, slot)
        BY DEF SpillCurrent
    <2> HIDE DEF slot
    <2>2. /\ DOMAIN instr_to_reg_' = DOMAIN instr_to_reg_ \cup {i}
          /\ instr_to_reg_'[i] = slot
          /\ \A j \in DOMAIN instr_to_reg_ :
                j # i => instr_to_reg_'[j] = instr_to_reg_[j]
        BY <2>1 DEF Assigned
    <2>3. QED
        BY <1>1, <2>2 DEF Seen
<1>5. slot.kind = "stack" /\ \A r : slot # Register(r)
    BY DEF StackSlot, Register
<1>6. slot \in Storage
    BY DEF StackSlot, Storage, IInv, TypeOK
<1>7. /\ TypeOK /\ ActiveHolds /\ ActiveApart /\ NoSharedRegister
    BY DEF IInv
<1> HIDE DEF live, free, slot
<1>8. TypeOK'
    <2>1. \A j \in Seen' : instr_to_reg_'[j] \in Storage
        BY <1>4, <1>6, <1>7 DEF TypeOK
    <2>2. Seen' = Instr \ todo'
        BY <1>1, <1>4, <1>7 DEF TypeOK
    <2>3. QED
        BY <1>1, <1>2, <1>3, <1>7, <2>1, <2>2 DEF TypeOK
<1>9. ActiveHolds'
    BY <1>2, <1>3, <1>4, <1>7 DEF ActiveHolds
<1>10. ActiveApart'
    BY <1>2, <1>3, <1>7 DEF ActiveApart
<1>11. Accounted'
    <2> SUFFICES ASSUME NEW j \in Seen', NEW r \in Reg, instr_to_reg_'[j] = Register(r)
                 PROVE  \/ \E a \in active' : a.instr = j
                        \/ Lost(r)'
                        \/ \A t \in todo' : lifetime'[j].end <= lifetime'[t].start
        BY DEF Accounted
    <2>1. j \in Seen /\ instr_to_reg_[j] = Register(r)
        BY <1>4, <1>5
    <2>2. QED
        BY <1>1, <1>2, <1>3, <2>1 DEF Lost
<1>12. NoSharedRegister'
    BY <1>1, <1>4, <1>5, <1>7 DEF NoSharedRegister, Overlap
<1>13. QED
    BY <1>1, <1>8, <1>9, <1>10, <1>11, <1>12 DEF IInv

LEMMA SpillActiveKeepsInv ==
    ASSUME HeapKept, IInv, NEW i \in Instr, Turn(i), SpillActive(i)
    PROVE  IInv'
<1> DEFINE live == StillActive(i)
           free == FreeAfterExpiry(i)
           slot == StackSlot(stack_loc)
<1>1. /\ i \in todo /\ i \notin Seen /\ IsNext(i) /\ todo' = todo \ {i}
      /\ lifetime' = lifetime /\ heap' = lifetime'
    BY TurnFacts
<1>2. /\ live \subseteq active /\ free \subseteq Reg
      /\ \A a \in live : a.reg \notin free
      /\ \A j \in Seen, r \in Reg :
            instr_to_reg_[j] = Register(r) =>
                \/ \E a \in live : a.instr = j
                \/ r \notin free /\ \A a \in live : a.reg # r
                \/ \A t \in todo : lifetime[j].end <= lifetime[t].start
    BY <1>1, AfterExpiry
<1>3. PICK last \in live :
        /\ active' = Emplaced(live \ {last}, [instr |-> i, reg |-> last.reg])
        /\ free_regs' = free
        /\ instr_to_reg_' = Assigned(TryEmplaced(instr_to_reg_, i, Register(last.reg)),
                                     last.instr, slot)
        /\ stack_loc' = stack_loc + 1
    BY DEF SpillActive
<1> DEFINE e == [instr |-> i, reg |-> last.reg]
           v == last.instr
           reg == last.reg
<1>4. \/ active' = live \ {last}
      \/ active' = (live \ {last}) \cup {e}
    BY <1>3 DEF Emplaced
<1>5. /\ TypeOK /\ ActiveHolds /\ ActiveApart /\ NoSharedRegister
    BY DEF IInv
<1>6. /\ v \in Seen /\ v # i /\ v \in Instr /\ reg \in Nat
      /\ instr_to_reg_[v] = Register(reg)
    BY <1>1, <1>2, <1>5 DEF ActiveHolds, TypeOK, Entry
<1>7. e.instr = i /\ e.reg = reg /\ e \in Entry
    BY <1>6 DEF Entry
<1> HIDE DEF live, free, slot, e, v, reg
<1>8. /\ Seen' = Seen \cup {i}
      /\ instr_to_reg_'[i] = Register(reg)
      /\ instr_to_reg_'[v] = slot
      /\ \A j \in Seen : j # v => instr_to_reg_'[j] = instr_to_reg_[j]
    <2>1. TryEmplaced(instr_to_reg_, i, Register(reg)) = Assigned(instr_to_reg_, i, Register(reg))
        BY <1>1 DEF TryEmplaced, Seen
    <2>2. instr_to_reg_' = Assigned(Assigned(instr_to_reg_, i, Register(reg)), v, slot)
        BY <1>3, <2>1 DEF v, reg
    <2>3. /\ DOMAIN instr_to_reg_' = DOMAIN instr_to_reg_ \cup {i} \cup {v}
          /\ instr_to_reg_'[v] = slot
          /\ instr_to_reg_'[i] = Register(reg)
          /\ \A j \in DOMAIN instr_to_reg_ :
                j # i /\ j # v => instr_to_reg_'[j] = instr_to_reg_[j]
        BY <1>6, <2>2 DEF Assigned
    <2>4. QED
        BY <1>1, <1>6, <2>3 DEF Seen
<1>9. slot.kind = "stack" /\ \A r : slot # Register(r)
    BY DEF StackSlot, Register, slot
<1>10. slot \in Storage /\ Register(reg) \in Storage
    BY <1>5, <1>6 DEF StackSlot, Register, Storage, TypeOK, slot
<1>11. TypeOK'
    <2>1. \A j \in Seen' : instr_to_reg_'[j] \in Storage
        BY <1>5, <1>8, <1>10 DEF TypeOK
    <2>2. Seen' = Instr \ todo'
        BY <1>1, <1>5, <1>8 DEF TypeOK
    <2>3. active' \subseteq Entry
        BY <1>2, <1>4, <1>5, <1>7 DEF TypeOK
    <2>4. free_regs' \subseteq Reg /\ stack_loc' \in Nat
        BY <1>2, <1>3, <1>5 DEF TypeOK
    <2>5. QED
        BY <1>1, <1>5, <2>1, <2>2, <2>3, <2>4 DEF TypeOK
<1>12. \A a \in live : a # last => a.instr # v /\ (a.reg \in Reg => a.reg # reg)
    BY <1>2, <1>5 DEF ActiveApart, v, reg
<1>13. ActiveHolds'
    <2> SUFFICES ASSUME NEW a \in active'
                 PROVE  /\ a.instr \in Seen'
                        /\ instr_to_reg_'[a.instr] = Register(a.reg)
                        /\ a.reg \notin free_regs'
        BY DEF ActiveHolds
    <2>1. CASE a \in live /\ a # last
        BY <1>2, <1>3, <1>5, <1>8, <1>12, <2>1 DEF ActiveHolds
    <2>2. CASE a = e
        BY <1>2, <1>3, <1>7, <1>8, <2>2 DEF reg
    <2>3. QED
        BY <1>4, <2>1, <2>2
<1>14. ActiveApart'
    <2>1. \A a \in live : a.instr # i
        BY <1>1, <1>2, <1>5 DEF ActiveHolds
    <2>2. QED
        BY <1>2, <1>4, <1>5, <1>7, <1>12, <2>1 DEF ActiveApart
<1>15. Accounted'
    <2> SUFFICES ASSUME NEW j \in Seen', NEW r \in Reg, instr_to_reg_'[j] = Register(r)
                 PROVE  \/ \E a \in active' : a.instr = j
                        \/ Lost(r)'
                        \/ \A t \in todo' : lifetime'[j].end <= lifetime'[t].start
        BY DEF Accounted
    <2>1. CASE j = i
        <3>1. r = reg
            BY <1>8, <2>1, RegisterIndex
        <3>2. reg \notin free
            BY <1>2 DEF reg
        <3>3. CASE active' = live \ {last}
            BY <1>3, <1>12, <3>1, <3>2, <3>3 DEF Lost
        <3>4. CASE active' = (live \ {last}) \cup {e}
            BY <1>7, <2>1, <3>4
        <3>5. QED
            BY <1>4, <3>3, <3>4
    <2>2. CASE j # i
        <3>1. j \in Seen /\ j # v /\ instr_to_reg_[j] = Register(r)
            BY <1>8, <1>9, <2>2
        <3>2. CASE \E a \in live : a.instr = j
            BY <1>4, <3>1, <3>2 DEF v
        <3>3. CASE r \notin free /\ \A a \in live : a.reg # r
            BY <1>3, <1>4, <1>7, <3>3 DEF Lost, reg
        <3>4. CASE \A t \in todo : lifetime[j].end <= lifetime[t].start
            BY <1>1, <3>4
        <3>5. QED
            BY <1>2, <3>1, <3>2, <3>3, <3>4
    <2>3. QED
        BY <2>1, <2>2
<1>16. NoSharedRegister'
    <2>1. ASSUME NEW j \in Seen, reg \in Reg, instr_to_reg_[j] = Register(reg), j # v
          PROVE  ~Overlap(i, j) /\ ~Overlap(j, i)
        <3>1. ~ \E a \in live : a.instr = j
            <4> SUFFICES ASSUME NEW a \in live, a.instr = j
                         PROVE  FALSE
                OBVIOUS
            <4>1. a # last
                BY <2>1 DEF v
            <4>2. a.reg = reg
                BY <1>2, <1>5, <2>1, RegisterIndex DEF ActiveHolds
            <4>3. QED
                BY <1>12, <2>1, <4>1, <4>2
        <3>2. ~ \A a \in live : a.reg # reg
            BY DEF reg
        <3>3. \A t \in todo : lifetime[j].end <= lifetime[t].start
            BY <1>2, <2>1, <3>1, <3>2
        <3>4. j \in Instr /\ lifetime[j].end <= lifetime[i].start
            BY <1>1, <1>5, <3>3 DEF TypeOK
        <3>5. QED
            BY <1>5, <3>4, PointFacts DEF Overlap
    <2>2. \A j, k : Overlap(j, k)' <=> Overlap(j, k)
        BY <1>1 DEF Overlap
    <2> SUFFICES ASSUME NEW j \in Seen', NEW k \in Seen', j # k,
                        instr_to_reg_'[j] = instr_to_reg_'[k],
                        instr_to_reg_'[j].kind = "register",
                        instr_to_reg_'[j].index \in Reg
                 PROVE  ~Overlap(j, k)
        BY <2>2 DEF NoSharedRegister
    <2>3. j # v /\ k # v
        <3>1. slot.kind # "register"
            BY <1>9
        <3>2. QED
            BY <1>8, <3>1
    <2>4. CASE j # i /\ k # i
        BY <1>5, <1>8, <2>3, <2>4 DEF NoSharedRegister
    <2>5. Register(reg).index = reg
        BY DEF Register
    <2>6. CASE j = i
        <3>1. k \in Seen /\ reg \in Reg /\ instr_to_reg_[k] = Register(reg)
            BY <1>8, <2>3, <2>5, <2>6
        <3>2. QED
            BY <2>1, <2>3, <2>6, <3>1
    <2>7. CASE k = i
        <3>1. j \in Seen /\ reg \in Reg /\ instr_to_reg_[j] = Register(reg)
            BY <1>8, <2>3, <2>5, <2>7
        <3>2. QED
            BY <2>1, <2>3, <2>7, <3>1
    <2>8. QED
        BY <2>4, <2>6, <2>7
<1>17. QED
    BY <1>1, <1>11, <1>13, <1>14, <1>15, <1>16 DEF IInv

LEMMA InitInv == Init => IInv
<1> SUFFICES ASSUME Init PROVE IInv
    OBVIOUS
<1>1. Seen = {}
    BY DEF Init, Seen
<1>2. TypeOK
    BY <1>1 DEF Init, TypeOK
<1>3. QED
    BY <1>1, <1>2 DEF Init, IInv, ActiveHolds, ActiveApart, Accounted, NoSharedRegister

LEMMA StepKeepsInv ==
    ASSUME HeapKept, IInv, [Next]_vars
    PROVE  IInv'
<1>1. ASSUME NEW i \in Instr, Turn(i)
      PROVE  IInv'
    <2>1. CASE AssignRegister(i)
        BY <1>1, <2>1, AssignRegisterKeepsInv
    <2>2. CASE SpillCurrent(i)
        BY <1>1, <2>2, SpillCurrentKeepsInv
    <2>3. CASE SpillActive(i)
        BY <1>1, <2>3, SpillActiveKeepsInv
    <2>4. QED
        BY <1>1, <2>1, <2>2, <2>3 DEF Turn
<1>2. CASE UNCHANGED vars
    BY <1>2 DEF vars, IInv, TypeOK, ActiveHolds, ActiveApart, Accounted, Lost,
                NoSharedRegister, Overlap, Seen
<1>3. QED
    BY <1>1, <1>2 DEF Next, Done

(* reg_alloc.cpp, lines 38-97: two values that are needed at the same time *)
(* are never left in the same register, however lifetimes begin and end    *)
(* together and whatever was spilled, as long as the freed lifetimes are   *)
(* intact.  The index past the registers, which lines 88-93 yield where    *)
(* the assertion of line 90 fails, is none of them.                        *)
THEOREM RegAllocSafe == HeapKept => (Spec => [](TypeOK /\ NoSharedRegister))
<1> SUFFICES ASSUME HeapKept PROVE Spec => [](TypeOK /\ NoSharedRegister)
    OBVIOUS
<1>1. Init => IInv
    BY InitInv
<1>2. IInv /\ [Next]_vars => IInv'
    BY StepKeepsInv
<1>3. IInv => TypeOK /\ NoSharedRegister
    BY DEF IInv
<1>4. QED
    BY <1>1, <1>2, <1>3, PTL DEF Spec

-------------------------------------------------------------------------------
(* Line 90.  When no two values end at the same point, emplace always      *)
(* succeeds, no register is lost, and a register is free whenever active   *)
(* is not full.                                                            *)

NoneLost ==
    DistinctEnds => /\ \A a \in active : a.reg \in Reg
                    /\ \A r \in Reg : r \in free_regs \/ \E a \in active : a.reg = r

LEMMA NoneLostByExpiry ==
    ASSUME IInv, NoneLost, DistinctEnds, NEW i \in Instr, IsNext(i)
    PROVE  /\ \A a \in StillActive(i) : a.reg \in Reg
           /\ \A r \in Reg : \/ r \in FreeAfterExpiry(i)
                            \/ \E a \in StillActive(i) : a.reg = r
BY DEF NoneLost, StillActive, FreeAfterExpiry

LEMMA EmplaceSucceeds ==
    ASSUME IInv, DistinctEnds, NEW i \in Instr, i \notin Seen, NEW r,
           NEW map \in SUBSET active
    PROVE  LET e == [instr |-> i, reg |-> r]
           IN  Emplaced(map, e) = map \cup {e}
<1> DEFINE e == [instr |-> i, reg |-> r]
<1>1. \A a \in map : a.instr \in Instr /\ a.instr # i
    BY DEF IInv, TypeOK, ActiveHolds, Entry
<1>2. heap = lifetime /\ e.instr = i
    BY DEF IInv
<1> HIDE DEF e
<1>3. \A a \in map : heap[a.instr].end # heap[e.instr].end
    BY <1>1, <1>2 DEF DistinctEnds
<1>4. Emplaced(map, e) = map \cup {e}
    BY <1>3 DEF Emplaced
<1>5. QED
    BY <1>4 DEF e

LEMMA NoneLostFree ==
    ASSUME IInv, NoneLost
    PROVE  FreeRegisterFoundIfEndsDiffer
<1> SUFFICES ASSUME DistinctEnds, NEW i \in todo, IsNext(i),
                    Cardinality(StillActive(i)) # NumRegs,
                    FreeAfterExpiry(i) = {}
             PROVE  FALSE
    BY DEF FreeRegisterFoundIfEndsDiffer, FreeRegisterFound
<1> DEFINE live == StillActive(i)
           f == [r \in Reg |-> CHOOSE a \in live : a.reg = r]
<1>1. i \in Instr
    BY DEF IInv, TypeOK
<1>2. /\ \A a \in live : a.reg \in Reg
      /\ \A r \in Reg : \E a \in live : a.reg = r
      /\ live \subseteq active
    BY <1>1, NoneLostByExpiry, AfterExpiry
<1>3. \A a, b \in live : a.reg = b.reg => a = b
    BY <1>2 DEF IInv, ActiveApart
<1> HIDE DEF live
<1>4. \A r \in Reg : f[r] \in live /\ f[r].reg = r
    BY <1>2
<1>5. f \in Bijection(Reg, live)
    <2>1. f \in [Reg -> live]
        BY <1>4
    <2>2. \A r, s \in Reg : f[r] = f[s] => r = s
        BY <1>4
    <2>3. \A a \in live : \E r \in Reg : f[r] = a
        BY <1>2, <1>3, <1>4
    <2> HIDE DEF f
    <2>4. QED
        BY <2>1, <2>2, <2>3 DEF Bijection, Injection, Surjection, IsInjective
<1>6. IsFiniteSet(Reg) /\ Cardinality(Reg) = NumRegs
    <2>1. NumRegs \in Nat /\ NumRegs # 0
        BY RegAllocAssumption
    <2>2. /\ IsFiniteSet(0 .. NumRegs - 1)
          /\ Cardinality(0 .. NumRegs - 1) = IF 0 > NumRegs - 1 THEN 0
                                             ELSE NumRegs - 1 - 0 + 1
        BY <2>1, FS_Interval
    <2>3. QED
        BY <2>1, <2>2 DEF Reg
<1>7. Cardinality(live) = NumRegs
    BY <1>5, <1>6, FS_Bijection DEF ExistsBijection
<1>8. QED
    BY <1>7 DEF live

LEMMA StepKeepsNoneLost ==
    ASSUME HeapKept, IInv, NoneLost, [Next]_vars
    PROVE  NoneLost'
<1>1. ASSUME NEW i \in Instr, Turn(i), DistinctEnds
      PROVE  /\ \A a \in active' : a.reg \in Reg
             /\ \A r \in Reg : r \in free_regs' \/ \E a \in active' : a.reg = r
    <2> DEFINE live == StillActive(i)
               free == FreeAfterExpiry(i)
    <2>1. i \in todo /\ i \notin Seen /\ IsNext(i)
        BY <1>1, TurnFacts
    <2>2. /\ \A a \in live : a.reg \in Reg
          /\ \A r \in Reg : r \in free \/ \E a \in live : a.reg = r
        BY <1>1, <2>1, NoneLostByExpiry
    <2>3. live \subseteq active /\ free \subseteq Reg
        BY <2>1, AfterExpiry
    <2>4. CASE AssignRegister(i)
        <3> DEFINE reg == FirstFree(free)
                   e == [instr |-> i, reg |-> reg]
        <3>1. free # {}
            BY <1>1, <2>1, <2>4, NoneLostFree
               DEF FreeRegisterFoundIfEndsDiffer, FreeRegisterFound, AssignRegister
        <3>2. reg \in free
            BY <2>3, <3>1, FirstFreeFacts
        <3>3. active' = live \cup {e} /\ free_regs' = free \ {reg}
            BY <1>1, <2>1, <2>3, <2>4, EmplaceSucceeds DEF AssignRegister
        <3>4. e.reg = reg
            OBVIOUS
        <3> HIDE DEF live, free, reg, e
        <3>5. QED
            BY <2>2, <2>3, <3>2, <3>3, <3>4
    <2>5. CASE SpillCurrent(i)
        BY <2>2, <2>5 DEF SpillCurrent
    <2>6. CASE SpillActive(i)
        <3>1. PICK last \in live :
                /\ active' = Emplaced(live \ {last}, [instr |-> i, reg |-> last.reg])
                /\ free_regs' = free
            BY <2>6 DEF SpillActive
        <3> DEFINE e == [instr |-> i, reg |-> last.reg]
        <3>2. active' = (live \ {last}) \cup {e}
            BY <1>1, <2>1, <2>3, <3>1, EmplaceSucceeds
        <3>3. e.reg = last.reg
            OBVIOUS
        <3> HIDE DEF live, free, e
        <3>4. QED
            BY <2>2, <3>1, <3>2, <3>3
    <2>7. QED
        BY <1>1, <2>4, <2>5, <2>6 DEF Turn
<1>2. ASSUME NEW i \in Instr, Turn(i)
      PROVE  NoneLost'
    <2>1. DistinctEnds' <=> DistinctEnds
        BY <1>2, TurnFacts DEF DistinctEnds
    <2>2. QED
        BY <1>1, <1>2, <2>1 DEF NoneLost
<1>3. CASE UNCHANGED vars
    BY <1>3 DEF vars, NoneLost, DistinctEnds
<1>4. QED
    BY <1>2, <1>3 DEF Next, Done

(* reg_alloc.cpp, line 90: assert(free_reg_it != free_regs.end()) holds of *)
(* every function no two values of which end at the same point.            *)
THEOREM AssertionHoldsIfEndsDiffer == HeapKept => (Spec => []FreeRegisterFoundIfEndsDiffer)
<1> SUFFICES ASSUME HeapKept PROVE Spec => []FreeRegisterFoundIfEndsDiffer
    OBVIOUS
<1>1. Init => IInv /\ NoneLost
    BY InitInv DEF Init, NoneLost
<1>2. (IInv /\ NoneLost) /\ [Next]_vars => (IInv /\ NoneLost)'
    BY StepKeepsInv, StepKeepsNoneLost
<1>3. IInv /\ NoneLost => FreeRegisterFoundIfEndsDiffer
    BY NoneLostFree
<1>4. QED
    BY <1>1, <1>2, <1>3, PTL DEF Spec

-------------------------------------------------------------------------------
(* What is spilled, and the abstract specification that is implemented.    *)

(* what is in the result goes to the stack only with a new slot *)
LEMMA Kinds ==
    /\ \A r : Register(r).kind = "register"
    /\ \A n : StackSlot(n).kind = "stack" /\ StackSlot(n).index = n
    /\ \A r : Register(r).index = r
BY DEF Register, StackSlot

(* The result after a turn. *)
LEMMA AssignRegisterResult ==
    ASSUME HeapKept, IInv, NEW i \in Instr, Turn(i), AssignRegister(i)
    PROVE  LET reg == FirstFree(FreeAfterExpiry(i))
           IN  /\ Seen' = Seen \cup {i}
               /\ instr_to_reg_'[i] = Register(reg)
               /\ \A j \in Seen : instr_to_reg_'[j] = instr_to_reg_[j]
               /\ UNCHANGED stack_loc
BY TurnFacts DEF AssignRegister, TryEmplaced, Assigned, Seen

LEMMA SpillCurrentResult ==
    ASSUME HeapKept, IInv, NEW i \in Instr, Turn(i), SpillCurrent(i)
    PROVE  /\ Seen' = Seen \cup {i}
           /\ instr_to_reg_'[i] = StackSlot(stack_loc)
           /\ \A j \in Seen : instr_to_reg_'[j] = instr_to_reg_[j]
           /\ stack_loc' = stack_loc + 1
           /\ Cardinality(StillActive(i)) = NumRegs
           /\ active' = StillActive(i)
           /\ \A a \in active' : lifetime[a.instr].end <= lifetime[i].end
<1>1. i \notin Seen /\ heap = lifetime
    BY TurnFacts DEF IInv
<1>2. QED
    BY <1>1 DEF SpillCurrent, Assigned, Seen

LEMMA SpillActiveResult ==
    ASSUME HeapKept, IInv, NEW i \in Instr, Turn(i), SpillActive(i)
    PROVE  \E last \in StillActive(i) :
               /\ last.instr \in Seen
               /\ instr_to_reg_[last.instr] = Register(last.reg)
               /\ Seen' = Seen \cup {i}
               /\ instr_to_reg_'[i] = Register(last.reg)
               /\ instr_to_reg_'[last.instr] = StackSlot(stack_loc)
               /\ \A j \in Seen \ {last.instr} : instr_to_reg_'[j] = instr_to_reg_[j]
               /\ stack_loc' = stack_loc + 1
               /\ Cardinality(StillActive(i)) = NumRegs
               /\ \A a \in active' : lifetime[a.instr].end <= lifetime[last.instr].end
<1> DEFINE live == StillActive(i)
<1>1. i \notin Seen /\ heap = lifetime /\ IsNext(i)
    BY TurnFacts DEF IInv
<1>2. live \subseteq active
    BY <1>1, AfterExpiry
<1>3. PICK last \in live :
        /\ Cardinality(live) = NumRegs
        /\ IsLast(last, live)
        /\ heap[last.instr].end > heap[i].end
        /\ active' = Emplaced(live \ {last}, [instr |-> i, reg |-> last.reg])
        /\ instr_to_reg_' = Assigned(TryEmplaced(instr_to_reg_, i, Register(last.reg)),
                                     last.instr, StackSlot(stack_loc))
        /\ stack_loc' = stack_loc + 1
    BY DEF SpillActive
<1>4. last.instr \in Seen /\ last.instr # i /\ instr_to_reg_[last.instr] = Register(last.reg)
    BY <1>1, <1>2 DEF IInv, ActiveHolds
<1>5. instr_to_reg_' = Assigned(Assigned(instr_to_reg_, i, Register(last.reg)),
                                last.instr, StackSlot(stack_loc))
    BY <1>1, <1>3 DEF TryEmplaced, Seen
<1>6. /\ Seen' = Seen \cup {i}
      /\ instr_to_reg_'[i] = Register(last.reg)
      /\ instr_to_reg_'[last.instr] = StackSlot(stack_loc)
      /\ \A j \in Seen \ {last.instr} : instr_to_reg_'[j] = instr_to_reg_[j]
    <2>1. /\ DOMAIN instr_to_reg_' = DOMAIN instr_to_reg_ \cup {i} \cup {last.instr}
          /\ instr_to_reg_'[last.instr] = StackSlot(stack_loc)
          /\ instr_to_reg_'[i] = Register(last.reg)
          /\ \A j \in DOMAIN instr_to_reg_ :
                j # i /\ j # last.instr => instr_to_reg_'[j] = instr_to_reg_[j]
        BY <1>4, <1>5 DEF Assigned
    <2>2. QED
        BY <1>1, <1>4, <2>1 DEF Seen
<1>7. \A a \in active' : lifetime[a.instr].end <= lifetime[last.instr].end
    <2>1. \A a \in active' : a \in live \/ a = [instr |-> i, reg |-> last.reg]
        BY <1>3 DEF Emplaced
    <2>2. \A a \in live : lifetime[a.instr].end <= lifetime[last.instr].end
        BY <1>1, <1>3 DEF IsLast
    <2>3. last.instr \in Instr
        BY <1>4 DEF IInv, TypeOK
    <2>4. lifetime[i].end <= lifetime[last.instr].end
        BY <1>1, <1>3, <2>3, PointFacts DEF IInv
    <2>5. QED
        BY <2>1, <2>2, <2>4
<1>8. QED
    BY <1>3, <1>4, <1>6, <1>7

LEMMA Invariant == HeapKept => (Spec => []IInv)
<1> SUFFICES ASSUME HeapKept PROVE Spec => []IInv
    OBVIOUS
<1>1. IInv /\ [Next]_vars => IInv'
    BY StepKeepsInv
<1>2. QED
    BY <1>1, InitInv, PTL DEF Spec

(* reg_alloc.cpp, lines 51-63: no value that stays in active ends after    *)
(* one that goes to the stack.                                             *)
THEOREM RegAllocSpillsTheLast == HeapKept => (Spec => SpillsTheLast)
<1> DEFINE Last == \A i \in DOMAIN instr_to_reg_' :
                       /\ instr_to_reg_'[i].kind = "stack"
                       /\ i \in Seen => instr_to_reg_[i].kind # "stack"
                       => \A a \in active' : lifetime[a.instr].end <= lifetime[i].end
<1> SUFFICES ASSUME HeapKept PROVE Spec => SpillsTheLast
    OBVIOUS
<1>1. ASSUME IInv, NEW i \in Instr, Turn(i)
      PROVE  Last
    <2>1. CASE AssignRegister(i)
        <3>1. /\ DOMAIN instr_to_reg_' = DOMAIN instr_to_reg_ \cup {i}
              /\ instr_to_reg_'[i] = Register(FirstFree(FreeAfterExpiry(i)))
              /\ \A j \in DOMAIN instr_to_reg_ : instr_to_reg_'[j] = instr_to_reg_[j]
            BY <1>1, <2>1, AssignRegisterResult DEF Seen
        <3>2. instr_to_reg_'[i].kind # "stack"
            BY <3>1, Kinds
        <3>3. QED
            BY <3>1, <3>2 DEF Seen
    <2>2. CASE SpillCurrent(i)
        BY <1>1, <2>2, SpillCurrentResult DEF Seen
    <2>3. CASE SpillActive(i)
        <3>1. PICK last \in StillActive(i) :
                /\ Seen' = Seen \cup {i}
                /\ instr_to_reg_'[i] = Register(last.reg)
                /\ \A j \in Seen \ {last.instr} : instr_to_reg_'[j] = instr_to_reg_[j]
                /\ \A a \in active' : lifetime[a.instr].end <= lifetime[last.instr].end
            BY <1>1, <2>3, SpillActiveResult
        <3>2. \A j \in Seen' : j = i \/ j = last.instr \/ j \in Seen \ {last.instr}
            BY <3>1
        <3>3. QED
            BY <3>1, <3>2, Kinds DEF Seen
    <2>4. QED
        BY <1>1, <2>1, <2>2, <2>3 DEF Turn
<1>2. IInv /\ [Next]_vars => [Last]_vars
    BY <1>1 DEF Next, Done
<1>3. QED
    BY <1>2, Invariant, PTL DEF SpillsTheLast, Spec
-------------------------------------------------------------------------------
(* Line 85.  When active is full, its values and the current one are all   *)
(* live where the current one starts: one more than there are registers.   *)

Sorted == \A j \in Seen : \A t \in todo : lifetime[j].start <= lifetime[t].start

LEMMA FullMeansPressure ==
    ASSUME HeapKept, IInv, Sorted, NEW i \in Instr, Turn(i),
           Seen' = Seen \cup {i}, Cardinality(StillActive(i)) = NumRegs,
           NEW p \in Nat, p = lifetime[i].start
    PROVE  /\ i \in LiveAt(p)'
           /\ \A a \in StillActive(i) : a.instr \in LiveAt(p)'
           /\ Cardinality(LiveAt(p)') > NumRegs
<1> DEFINE live == StillActive(i)
           held == {a.instr : a \in live}
           f == [a \in live |-> a.instr]
<1>1. /\ i \in todo /\ i \notin Seen /\ IsNext(i) /\ lifetime' = lifetime /\ heap = lifetime
      /\ TypeOK /\ NumRegs \in Nat /\ IsFiniteSet(Instr)
    BY TurnFacts, RegAllocAssumption DEF IInv
<1>2. live \subseteq active
    BY <1>1, AfterExpiry
<1>3. \A a \in live : a.instr \in Seen /\ a.instr \in Instr /\ a.instr # i
    BY <1>1, <1>2 DEF IInv, ActiveHolds, TypeOK
<1>4. \A a, b \in live : a.instr = b.instr => a = b
    BY <1>2 DEF IInv, ActiveApart
<1>5. \A a \in live : lifetime[a.instr].start <= p /\ p < lifetime[a.instr].end
    <2> SUFFICES ASSUME NEW a \in live
                 PROVE  lifetime[a.instr].start <= p /\ p < lifetime[a.instr].end
        OBVIOUS
    <2>1. ~(lifetime[a.instr].end <= p)
        BY <1>1, <1>2 DEF StillActive, Expired
    <2>2. QED
        BY <1>1, <1>3, <2>1, PointFacts DEF Sorted
<1>6. LiveAt(p)' = {k \in Seen \cup {i} :
                       /\ lifetime[k].start <= p
                       /\ p < lifetime[k].end \/ p = lifetime[k].start}
    BY <1>1 DEF LiveAt
<1>7. i \in LiveAt(p)' /\ \A a \in live : a.instr \in LiveAt(p)'
    BY <1>3, <1>5, <1>6
<1>8. IsFiniteSet(LiveAt(p)')
    <2>1. LiveAt(p)' \subseteq Instr
        BY <1>1, <1>6 DEF TypeOK
    <2>2. QED
        BY <1>1, <2>1, FS_Subset
<1> HIDE DEF live
<1>9. IsFiniteSet(held) /\ Cardinality(held) = NumRegs
    <2>1. f \in Injection(live, Instr)
        BY <1>3, <1>4 DEF Injection, IsInjective
    <2>2. IsFiniteSet(live)
        BY <1>1, <2>1, FS_Injection
    <2>3. f \in Bijection(live, held)
        BY <1>4 DEF Bijection, Injection, Surjection, IsInjective
    <2>4. Cardinality(live) = NumRegs
        BY DEF live
    <2> HIDE DEF f, held
    <2>5. QED
        BY <2>2, <2>3, <2>4, FS_Bijection DEF ExistsBijection
<1>10. i \notin held
    BY <1>3
<1>11. held \cup {i} \subseteq LiveAt(p)'
    BY <1>7
<1> HIDE DEF held
<1>12. IsFiniteSet(held \cup {i}) /\ Cardinality(held \cup {i}) = NumRegs + 1
    BY <1>9, <1>10, FS_AddElement
<1>13. /\ Cardinality(held \cup {i}) <= Cardinality(LiveAt(p)')
       /\ Cardinality(LiveAt(p)') \in Nat
    BY <1>8, <1>11, FS_Subset, FS_CardinalityType
<1>14. QED
    BY <1>1, <1>7, <1>12, <1>13 DEF live

(* Values seen stay seen, so that pressure does not go down. *)
LEMMA PressureStays ==
    ASSUME TypeOK, TypeOK', Seen \subseteq Seen', lifetime' = lifetime,
           NEW p \in Nat, Cardinality(LiveAt(p)) > NumRegs
    PROVE  LiveAt(p) \subseteq LiveAt(p)' /\ Cardinality(LiveAt(p)') > NumRegs
<1>1. LiveAt(p) \subseteq LiveAt(p)'
    BY DEF LiveAt
<1>2. LiveAt(p)' \subseteq Instr
    BY DEF LiveAt, TypeOK
<1>3. IsFiniteSet(Instr) /\ NumRegs \in Nat
    BY RegAllocAssumption
<1>4. IsFiniteSet(LiveAt(p)')
    BY <1>2, <1>3, FS_Subset
<1>5. /\ Cardinality(LiveAt(p)) <= Cardinality(LiveAt(p)')
      /\ IsFiniteSet(LiveAt(p))
    BY <1>1, <1>4, FS_Subset
<1>6. Cardinality(LiveAt(p)) \in Nat /\ Cardinality(LiveAt(p)') \in Nat
    BY <1>4, <1>5, FS_CardinalityType
<1>7. QED
    BY <1>1, <1>3, <1>5, <1>6

Pressed(j) == \E p \in lifetime[j].start .. lifetime[j].end :
                  j \in LiveAt(p) /\ Cardinality(LiveAt(p)) > NumRegs

LEMMA StepKeepsPressure ==
    ASSUME HeapKept, IInv, IInv', Sorted, SpillOnlyUnderPressure, NEW i \in Instr, Turn(i)
    PROVE  Sorted' /\ SpillOnlyUnderPressure'
<1>1. /\ i \in todo /\ i \notin Seen /\ IsNext(i) /\ todo' = todo \ {i}
      /\ lifetime' = lifetime
      /\ TypeOK /\ TypeOK'
    BY TurnFacts DEF IInv
<1>2. Seen' = Seen \cup {i}
    BY AssignRegisterResult, SpillCurrentResult, SpillActiveResult DEF Turn
<1>3. Sorted'
    BY <1>1, <1>2 DEF Sorted, IsNext
<1>4. ASSUME NEW j \in Seen, instr_to_reg_[j].kind = "stack"
      PROVE  Pressed(j)'
    <2>1. PICK p \in lifetime[j].start .. lifetime[j].end :
             j \in LiveAt(p) /\ Cardinality(LiveAt(p)) > NumRegs
        BY <1>4 DEF SpillOnlyUnderPressure
    <2>2. p \in Nat
        BY <1>1, <2>1, PointFacts DEF TypeOK
    <2>3. LiveAt(p) \subseteq LiveAt(p)' /\ Cardinality(LiveAt(p)') > NumRegs
        BY <1>1, <1>2, <2>1, <2>2, PressureStays
    <2>4. QED
        BY <1>1, <2>1, <2>3 DEF Pressed
<1>5. ASSUME Cardinality(StillActive(i)) = NumRegs,
             NEW j \in Instr, j = i \/ \E a \in StillActive(i) : j = a.instr
      PROVE  Pressed(j)'
    <2>1. PICK p \in Nat : p = lifetime[i].start
        BY <1>1, PointFacts
    <2>2. j \in LiveAt(p)' /\ Cardinality(LiveAt(p)') > NumRegs
        BY <1>2, <1>5, <2>1, FullMeansPressure
    <2>3. lifetime[j].start <= p /\ p <= lifetime[j].end
        BY <1>1, <2>2, PointFacts DEF LiveAt
    <2>4. p \in lifetime'[j].start .. lifetime'[j].end
        BY <1>1, <2>1, <2>3, PointFacts
    <2>5. QED
        BY <2>2, <2>4 DEF Pressed
<1>6. ASSUME NEW j \in Seen', instr_to_reg_'[j].kind = "stack"
      PROVE  Pressed(j)'
    <2>1. j \in Instr
        BY <1>1 DEF TypeOK
    <2>2. CASE AssignRegister(i)
        <3>1. j # i /\ j \in Seen /\ instr_to_reg_[j].kind = "stack"
            BY <1>2, <1>6, <2>2, AssignRegisterResult, Kinds
        <3>2. QED
            BY <1>4, <3>1
    <2>3. CASE SpillCurrent(i)
        <3>1. CASE j = i
            BY <1>5, <2>1, <2>3, <3>1, SpillCurrentResult
        <3>2. CASE j # i
            BY <1>2, <1>4, <1>6, <2>3, <3>2, SpillCurrentResult
        <3>3. QED
            BY <3>1, <3>2
    <2>4. CASE SpillActive(i)
        <3>1. PICK last \in StillActive(i) :
                /\ instr_to_reg_'[i] = Register(last.reg)
                /\ \A k \in Seen \ {last.instr} : instr_to_reg_'[k] = instr_to_reg_[k]
                /\ Cardinality(StillActive(i)) = NumRegs
            BY <2>4, SpillActiveResult
        <3>2. CASE j = last.instr
            BY <1>5, <2>1, <3>1, <3>2
        <3>3. CASE j # last.instr
            <4>1. j # i /\ j \in Seen /\ instr_to_reg_[j].kind = "stack"
                BY <1>2, <1>6, <3>1, <3>3, Kinds
            <4>2. QED
                BY <1>4, <4>1
        <3>4. QED
            BY <3>2, <3>3
    <2>5. QED
        BY <2>2, <2>3, <2>4 DEF Turn
<1>7. SpillOnlyUnderPressure'
    BY <1>6 DEF SpillOnlyUnderPressure, Pressed
<1>8. QED
    BY <1>3, <1>7

(* reg_alloc.cpp, line 85: a value is on the stack only if more values     *)
(* than there are registers are live somewhere in its lifetime, ties and   *)
(* lost registers notwithstanding.                                         *)
THEOREM RegAllocSpillsUnderPressure == HeapKept => (Spec => []SpillOnlyUnderPressure)
<1> SUFFICES ASSUME HeapKept PROVE Spec => []SpillOnlyUnderPressure
    OBVIOUS
<1> DEFINE PInv == IInv /\ Sorted /\ SpillOnlyUnderPressure
<1>1. Init => PInv
    <2> SUFFICES ASSUME Init PROVE PInv
        OBVIOUS
    <2>1. Seen = {}
        BY DEF Init, Seen
    <2>2. QED
        BY <2>1, InitInv DEF Sorted, SpillOnlyUnderPressure
<1>2. PInv /\ [Next]_vars => PInv'
    <2> SUFFICES ASSUME PInv, [Next]_vars PROVE PInv'
        OBVIOUS
    <2>1. IInv'
        BY StepKeepsInv
    <2>2. CASE \E i \in Instr : Turn(i)
        BY <2>1, <2>2, StepKeepsPressure
    <2>3. CASE UNCHANGED vars
        BY <2>1, <2>3 DEF vars, Sorted, SpillOnlyUnderPressure, LiveAt, Seen
    <2>4. QED
        BY <2>2, <2>3 DEF Next, Done
<1>3. PInv => SpillOnlyUnderPressure
    OBVIOUS
<1>4. QED
    BY <1>1, <1>2, <1>3, PTL DEF Spec
-------------------------------------------------------------------------------
(* The refinement of StorageAssignment.  A slot in the result is one that  *)
(* has been given out.                                                     *)

SlotsGiven == \A j \in Seen : instr_to_reg_[j].kind = "stack" => instr_to_reg_[j].index < stack_loc

LEMMA StepKeepsSlotsGiven ==
    ASSUME HeapKept, IInv, SlotsGiven, NEW i \in Instr, Turn(i)
    PROVE  SlotsGiven'
<1>1. stack_loc \in Nat /\ \A j \in Seen : instr_to_reg_[j] \in Storage
    BY DEF IInv, TypeOK
<1>2. \A j \in Seen : instr_to_reg_[j].index \in Nat
    BY <1>1 DEF Storage
<1>3. CASE AssignRegister(i)
    BY <1>3, AssignRegisterResult, Kinds DEF SlotsGiven
<1>4. CASE SpillCurrent(i)
    BY <1>1, <1>2, <1>4, SpillCurrentResult, Kinds DEF SlotsGiven
<1>5. CASE SpillActive(i)
    <2>1. PICK last \in StillActive(i) :
            /\ Seen' = Seen \cup {i}
            /\ instr_to_reg_'[i] = Register(last.reg)
            /\ instr_to_reg_'[last.instr] = StackSlot(stack_loc)
            /\ \A j \in Seen \ {last.instr} : instr_to_reg_'[j] = instr_to_reg_[j]
            /\ stack_loc' = stack_loc + 1
        BY <1>5, SpillActiveResult
    <2>2. \A j \in Seen' : j = i \/ j = last.instr \/ j \in Seen \ {last.instr}
        BY <2>1
    <2>3. QED
        BY <1>1, <1>2, <2>1, <2>2, Kinds DEF SlotsGiven
<1>6. QED
    BY <1>3, <1>4, <1>5 DEF Turn

(* The three ways of a turn are the three ways to get a place. *)
LEMMA TurnRefines ==
    ASSUME HeapKept, DistinctEnds, IInv, IInv', NoneLost, SlotsGiven,
           NEW i \in Instr, Turn(i)
    PROVE  Assignment!Next
<1> DEFINE live == StillActive(i)
           free == FreeAfterExpiry(i)
<1>1. /\ i \in todo /\ i \notin Seen /\ IsNext(i) /\ lifetime' = lifetime
      /\ DistinctEnds'
    BY TurnFacts DEF DistinctEnds
<1>2. /\ \A a \in live : a.reg \in Reg
      /\ live \subseteq active /\ free \subseteq Reg
    BY <1>1, NoneLostByExpiry, AfterExpiry
<1>3. Assignment!Placed = Seen
    BY DEF Assignment!Placed, Seen
<1>4. \A j : Assignment!Extends(i, {j}) <=>
                /\ Seen' = Seen \cup {i}
                /\ \A k \in Seen \ {j} : instr_to_reg_'[k] = instr_to_reg_[k]
    BY <1>1, <1>3 DEF Assignment!Extends, Seen
<1>5. Assignment!Extends(i, {}) <=>
                /\ Seen' = Seen \cup {i}
                /\ \A k \in Seen : instr_to_reg_'[k] = instr_to_reg_[k]
    BY <1>1, <1>3 DEF Assignment!Extends, Seen
<1>6. ASSUME NEW r \in Reg, instr_to_reg_'[i] = Register(r), Seen' = Seen \cup {i}
      PROVE  Assignment!GetsRegister(i)
    <2>1. Register(r) \in Assignment!Register
        BY DEF Register, Assignment!Register, Reg
    <2>2. ASSUME NEW j \in Seen, instr_to_reg_'[j] = instr_to_reg_'[i]
          PROVE  ~Assignment!Overlap(i, j)
        <3>1. i \in Seen' /\ j \in Seen' /\ i # j
            BY <1>1, <1>6
        <3>2. ~Overlap(i, j)'
            BY <1>6, <2>2, <3>1, Kinds DEF IInv, NoSharedRegister
        <3>3. QED
            BY <1>1, <3>2 DEF Overlap, Assignment!Overlap
    <2>3. QED
        BY <1>1, <1>3, <1>6, <2>1, <2>2 DEF Assignment!GetsRegister
<1>7. ASSUME NEW v, instr_to_reg_'[v] = StackSlot(stack_loc),
             \A j \in Seen \ {v} : instr_to_reg_'[j] = instr_to_reg_[j]
      PROVE  Assignment!GetsSlot(v)
    <2>1. StackSlot(stack_loc) \in Assignment!StackSlot
        BY DEF StackSlot, Assignment!StackSlot, IInv, TypeOK
    <2>2. \A j \in Seen : instr_to_reg_[j] # StackSlot(stack_loc)
        <3>1. stack_loc \in Nat
            BY DEF IInv, TypeOK
        <3>2. QED
            BY <3>1, Kinds DEF SlotsGiven
    <2>3. QED
        BY <1>1, <1>3, <1>7, <2>1, <2>2 DEF Assignment!GetsSlot
<1>8. CASE AssignRegister(i)
    <2>1. free # {}
        BY <1>1, <1>8, NoneLostFree
           DEF FreeRegisterFoundIfEndsDiffer, FreeRegisterFound, AssignRegister
    <2>2. FirstFree(free) \in Reg
        BY <1>2, <2>1, FirstFreeFacts
    <2>3. Assignment!ToRegister(i)
        BY <1>5, <1>6, <1>8, <2>2, AssignRegisterResult DEF Assignment!ToRegister
    <2>4. QED
        BY <1>1, <1>3, <2>3 DEF Assignment!Next
<1>9. CASE SpillCurrent(i)
    <2>1. Assignment!ToStack(i)
        BY <1>5, <1>7, <1>9, SpillCurrentResult DEF Assignment!ToStack
    <2>2. QED
        BY <1>1, <1>3, <2>1 DEF Assignment!Next
<1>10. CASE SpillActive(i)
    <2>1. PICK last \in live :
            /\ last.instr \in Seen
            /\ instr_to_reg_[last.instr] = Register(last.reg)
            /\ Seen' = Seen \cup {i}
            /\ instr_to_reg_'[i] = Register(last.reg)
            /\ instr_to_reg_'[last.instr] = StackSlot(stack_loc)
            /\ \A j \in Seen \ {last.instr} : instr_to_reg_'[j] = instr_to_reg_[j]
        BY <1>10, SpillActiveResult
    <2>2. last.reg \in Reg
        BY <1>2, <2>1
    <2>3. Register(last.reg) \in Assignment!Register
        BY <2>2 DEF Register, Assignment!Register, Reg
    <2>4. Assignment!Evict(last.instr, i)
        BY <1>4, <1>6, <1>7, <2>1, <2>2, <2>3 DEF Assignment!Evict
    <2>5. QED
        BY <1>1, <1>3, <2>1, <2>4 DEF Assignment!Next
<1>11. QED
    BY <1>8, <1>9, <1>10 DEF Turn

(* reg_alloc.cpp, lines 82-98: with distinct end points the scan gives     *)
(* every value a register that no neighbour holds or a slot of its own,    *)
(* and takes a place away only for the stack.                              *)
THEOREM RegAllocImplementsAssignment == HeapKept => (Spec => ImplementsAssignment)
<1> SUFFICES ASSUME HeapKept PROVE Spec => ImplementsAssignment
    OBVIOUS
<1> DEFINE RInv == IInv /\ NoneLost /\ SlotsGiven
<1>1. Init => RInv
    <2> SUFFICES ASSUME Init PROVE RInv
        OBVIOUS
    <2>1. Seen = {}
        BY DEF Init, Seen
    <2>2. QED
        BY <2>1, InitInv DEF Init, NoneLost, SlotsGiven
<1>2. RInv /\ [Next]_vars => RInv'
    <2> SUFFICES ASSUME RInv, [Next]_vars PROVE RInv'
        OBVIOUS
    <2>1. IInv' /\ NoneLost'
        BY StepKeepsInv, StepKeepsNoneLost
    <2>2. CASE \E i \in Instr : Turn(i)
        BY <2>1, <2>2, StepKeepsSlotsGiven
    <2>3. CASE UNCHANGED vars
        BY <2>1, <2>3 DEF vars, SlotsGiven, Seen
    <2>4. QED
        BY <2>2, <2>3 DEF Next, Done
<1>3. Init => Assignment!Init
    BY DEF Init, Assignment!Init
<1>4. RInv /\ RInv' /\ [Next]_vars => [Assignment!Next]_Assignment!vars
    <2> SUFFICES ASSUME RInv, RInv', [Next]_vars
                 PROVE  [Assignment!Next]_Assignment!vars
        OBVIOUS
    <2>1. CASE UNCHANGED vars
        BY <2>1 DEF vars, Assignment!vars, DistinctEnds
    <2>2. ASSUME NEW i \in Instr, Turn(i), DistinctEnds
          PROVE  Assignment!Next
        BY <2>2, TurnRefines
    <2>3. ASSUME NEW i \in Instr, Turn(i), ~DistinctEnds
          PROVE  UNCHANGED Assignment!vars
        BY <2>3, TurnFacts DEF DistinctEnds, Assignment!vars
    <2>4. QED
        BY <2>1, <2>2, <2>3 DEF Next, Done
<1>5. QED
    BY <1>1, <1>2, <1>3, <1>4, PTL DEF Spec, ImplementsAssignment, Assignment!Spec
===============================================================================
