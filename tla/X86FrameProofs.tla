--------------------------- MODULE X86FrameProofs ---------------------------
(***************************************************************************)
(* Proofs about X86Frame, for every program, every stack and every depth   *)
(* of calls.                                                               *)
(***************************************************************************)
EXTENDS X86Frame, FiniteSetTheorems, FunctionTheorems, SequenceTheorems,
        WellFoundedInduction, TLAPS

-----------------------------------------------------------------------------
(* The size of a frame.                                                    *)

(* A finite set of numbers has a greatest member.                          *)
LEMMA GreatestExists ==
  ASSUME NEW S \in SUBSET Nat, S # {}, IsFiniteSet(S)
  PROVE  \E n \in S : \A m \in S : m <= n
<1> DEFINE above(n) == {m \in S : m > n}
           T == {above(n) : n \in S}
<1>1. T \subseteq FiniteSubsetsOf(Nat) /\ T # {}
  <2>1. \A n \in S : above(n) \subseteq Nat /\ IsFiniteSet(above(n))
    BY FS_Subset
  <2>2. QED
    BY <2>1 DEF FiniteSubsetsOf
<1>2. PICK x \in T : \A y \in T : ~(<<y, x>> \in StrictSubsetOrdering(Nat))
  <2> HIDE DEF T
  <2>1. QED
    BY <1>1, FS_StrictSubsetOrderingWellFounded, WFMin
<1>3. PICK n \in S : x = above(n)
  OBVIOUS
<1>4. ASSUME NEW m \in S, n < m PROVE FALSE
  <2>1. above(m) \in T /\ above(m) \in SUBSET Nat /\ above(n) \in SUBSET Nat
    OBVIOUS
  <2>2. ~(<<above(m), above(n)>> \in StrictSubsetOrdering(Nat))
    <3> HIDE DEF T, above
    <3>1. QED
      BY <1>2, <1>3, <2>1
  <2>3. above(m) \subseteq above(n) /\ m \in above(n) /\ m \notin above(m)
    <3>1. n \in Nat /\ m \in Nat /\ \A k \in S : k \in Nat
      OBVIOUS
    <3>2. m > n /\ ~(m > m) /\ \A k \in S : k > m => k > n
      BY <1>4, <3>1
    <3> HIDE DEF T
    <3>3. QED
      BY <3>2
  <2>4. QED
    <3> HIDE DEF T, above
    <3>1. QED
      BY <2>1, <2>2, <2>3 DEF StrictSubsetOrdering
<1>5. \A m \in S : m \in Nat /\ ~(n < m)
  BY <1>4
<1>6. QED
  BY <1>5

(* The needs of the calls of a function are finitely many numbers.         *)
LEMMA CallNeedsFinite ==
  ASSUME NEW n \in Nat, NEW f \in Fns(n)
  PROVE  CallNeeds(f) \subseteq Nat /\ IsFiniteSet(CallNeeds(f))
<1> DEFINE S == 1..Len(f.calls)
           need == [s \in S |-> Shadow + f.calls[s].nargs]
<1>1. f.calls \in Seq(CallSites(n)) /\ DOMAIN f.calls = S /\ Len(f.calls) \in Nat
  BY LenProperties DEF Fns
<1>2. \A s \in S : f.calls[s] \in CallSites(n)
  BY <1>1
<1>3. CallNeeds(f) = {Shadow + f.calls[s].nargs : s \in S}
  BY <1>1 DEF CallNeeds
<1>4. CallNeeds(f) \subseteq Nat
  BY <1>2, <1>3 DEF CallSites, Shadow
<1>5. need \in Surjection(S, CallNeeds(f))
  BY <1>3 DEF Surjection
<1>6. IsFiniteSet(S)
  <2>1. Len(f.calls) \in Int /\ 1 \in Int
    BY <1>1
  <2>2. QED
    BY <2>1, FS_Interval
<1>7. QED
  BY <1>4, <1>5, <1>6, FS_Surjection

(* The outgoing area is as large as every call needs it.                   *)
LEMMA OutgoingCovers ==
  ASSUME NEW n \in Nat, NEW f \in Fns(n)
  PROVE  /\ Outgoing(f) \in Nat /\ Outgoing(f) >= 4
         /\ \A s \in DOMAIN f.calls : 4 + f.calls[s].nargs <= Outgoing(f)
         /\ f.heap => 5 <= Outgoing(f)
         /\ f.file => 7 <= Outgoing(f)
<1> DEFINE needs == {Shadow} \cup CallNeeds(f) \cup SysNeeds(f)
<1>1. SysNeeds(f) \subseteq {5, 7} /\ IsFiniteSet(SysNeeds(f))
  <2>1. SysNeeds(f) \subseteq 5..7
    BY DEF SysNeeds
  <2>2. IsFiniteSet(5..7)
    <3>1. 5 \in Int /\ 7 \in Int
      OBVIOUS
    <3>2. QED
      BY <3>1, FS_Interval
  <2>3. QED
    BY <2>1, <2>2, FS_Subset DEF SysNeeds
<1>2. needs \subseteq Nat /\ needs # {}
  BY <1>1, CallNeedsFinite DEF Shadow
<1>3. IsFiniteSet(needs)
  BY <1>1, CallNeedsFinite, FS_Singleton, FS_Union
<1>4. \E m \in needs : \A k \in needs : k <= m
  <2> HIDE DEF needs
  <2>1. QED
    BY <1>2, <1>3, GreatestExists
<1>5. Outgoing(f) \in needs /\ \A m \in needs : m <= Outgoing(f)
  BY <1>4 DEF Outgoing
<1>6. \A s \in DOMAIN f.calls : 4 + f.calls[s].nargs \in needs
  BY DEF CallNeeds, Shadow
<1>7. (f.heap => 5 \in needs) /\ (f.file => 7 \in needs) /\ 4 \in needs
  BY DEF SysNeeds, Shadow
<1>8. QED
  <2> HIDE DEF needs
  <2>1. QED
    BY <1>2, <1>5, <1>6, <1>7

(* A frame holds its data above the outgoing area, and together with the   *)
(* pushes and the return address it has an even number of slots.           *)
LEMMA FrameFacts ==
  ASSUME NEW n \in Nat, NEW f \in Fns(n)
  PROVE  /\ Data(f) \in Nat /\ f.pushes \in 0..7 /\ f.params \in Nat
         /\ FrameSize(f) \in Nat
         /\ Data(f) + Outgoing(f) <= FrameSize(f)
         /\ (FrameSize(f) + f.pushes + 1) % 2 = 0
<1>1. f.locals \in Nat /\ f.spills \in Nat /\ f.pushes \in 0..7 /\ f.params \in Nat
  BY DEF Fns
<1>2. Data(f) \in Nat
  BY <1>1 DEF Data
<1>3. Outgoing(f) \in Nat
  BY OutgoingCovers
<1>4. RoundUp(Outgoing(f)) \in Nat /\ RoundUp(Outgoing(f)) >= Outgoing(f)
  BY <1>3 DEF RoundUp
<1>5. PICK size \in Nat : size = Data(f) + RoundUp(Outgoing(f))
  BY <1>2, <1>4
<1>6. FrameSize(f) = IF (size + f.pushes + 1) % 2 # 0 THEN size + 1 ELSE size
  BY <1>5 DEF FrameSize
<1>7. QED
  BY <1>1, <1>2, <1>3, <1>4, <1>5, <1>6

-----------------------------------------------------------------------------
(* The frames tile the stack.                                              *)

(* The function of a frame is one of the program.                          *)
LEMMA FnFacts ==
  ASSUME StackInv
  PROVE  /\ Len(prog.fns) \in Nat /\ DOMAIN prog.fns = 1..Len(prog.fns)
         /\ {InitFn, Princeps} \subseteq DOMAIN prog.fns
         /\ \A g \in DOMAIN prog.fns : prog.fns[g] \in Fns(Len(prog.fns))
         /\ Depth \in Nat
         /\ \A d \in 1..Depth :
              /\ frames[d] \in FrameRecords
              /\ Fn(d) \in Fns(Len(prog.fns))
              /\ FrameSize(Fn(d)) \in Nat /\ Fn(d).pushes \in Nat
              /\ RetSlot(d) \in Nat /\ frames[d].base <= RetSlot(d)
<1>1. IsProgram(prog)
  BY ProgramsAssumption DEF StackInv
<1>2. /\ Len(prog.fns) \in Nat /\ DOMAIN prog.fns = 1..Len(prog.fns)
      /\ {InitFn, Princeps} \subseteq DOMAIN prog.fns
      /\ \A g \in DOMAIN prog.fns : prog.fns[g] \in Fns(Len(prog.fns))
  BY <1>1 DEF IsProgram, InitFn, Princeps
<1>3. Depth \in Nat
  BY DEF StackInv, Depth
<1>4. ASSUME NEW d \in 1..Depth
      PROVE  /\ frames[d] \in FrameRecords
             /\ Fn(d) \in Fns(Len(prog.fns))
             /\ FrameSize(Fn(d)) \in Nat /\ Fn(d).pushes \in Nat
             /\ RetSlot(d) \in Nat /\ frames[d].base <= RetSlot(d)
  <2>1. frames[d] \in FrameRecords /\ frames[d].base \in Nat
    <3>1. frames \in Seq(FrameRecords) /\ d \in 1..Len(frames)
      BY <1>4 DEF StackInv, Depth
    <3>2. frames[d] \in FrameRecords
      BY <3>1, ElementOfSeq
    <3>3. QED
      BY <3>2 DEF FrameRecords
  <2>2. Fn(d) \in Fns(Len(prog.fns))
    BY <1>2, <1>4 DEF StackInv, Fn
  <2>3. FrameSize(Fn(d)) \in Nat /\ Fn(d).pushes \in Nat
    <3>1. FrameSize(Fn(d)) \in Nat /\ Fn(d).pushes \in 0..7
      BY <1>2, <2>2, FrameFacts
    <3>2. QED
      BY <3>1
  <2>4. QED
    BY <2>1, <2>2, <2>3 DEF RetSlot
<1>5. QED
  BY <1>2, <1>3, <1>4

(* Where a frame lies depends on the program and on its record alone.      *)
LEMMA FrameStays ==
  ASSUME prog' = prog, NEW d \in Nat,
         frames'[d].fn = frames[d].fn, frames'[d].base = frames[d].base
  PROVE  /\ Fn(d)' = Fn(d) /\ RetSlot(d)' = RetSlot(d)
         /\ SavedSlots(d)' = SavedSlots(d)
         /\ \A j : DataSlot(d, j)' = DataSlot(d, j)
<1>1. Fn(d)' = Fn(d)
  BY DEF Fn
<1>2. QED
  BY <1>1 DEF RetSlot, SavedSlots, DataSlot

(* The frame below an even stack pointer starts at an even address.        *)
LEMMA EvenBelow ==
  ASSUME NEW r \in Nat, NEW size \in Nat, NEW p \in 0..7,
         r % 2 = 0, (size + p + 1) % 2 = 0, r - 1 - p >= size
  PROVE  r - 1 - p - size \in Nat /\ (r - 1 - p - size) % 2 = 0
<1> DEFINE n == size + p + 1
<1>1. n \in Nat /\ n <= r /\ n % 2 = 0 /\ r - 1 - p - size = r - n
  OBVIOUS
<1>2. (r - n) % 2 = 0 /\ r - n \in Nat
  <2> HIDE DEF n
  <2>1. QED
    BY <1>1
<1>3. QED
  BY <1>1, <1>2

(* A call or the stub pushes a frame below the stack pointer it is made    *)
(* with.                                                                   *)
LEMMA PushFrame ==
  ASSUME StackInv, NEW g \in DOMAIN prog.fns, NEW site \in Nat, NEW m,
         NEW r \in Nat, r % 2 = 0, NEW D, D = Depth + 1, NewFrame(g, site, m, r), prog' = prog,
         Top >= 5, r = CallerRsp(D), boot' \in {"init", "princeps"}
  PROVE  /\ StackInv'
         /\ Depth' = D
         /\ \A d \in 1..Depth : frames'[d] = frames[d]
         /\ frames'[D] = [fn |-> g, site |-> site, base |-> rsp',
                                  ready |-> FALSE, used |-> FALSE]
         /\ RetSlot(D)' = r - 1
<1> DEFINE f   == prog.fns[g]
           lo  == r - 1 - f.pushes
           new == [fn |-> g, site |-> site, base |-> lo - FrameSize(f),
                   ready |-> FALSE, used |-> FALSE]
<1>1. f \in Fns(Len(prog.fns)) /\ Len(prog.fns) \in Nat /\ Depth \in Nat
  BY FnFacts
<1>2. /\ FrameSize(f) \in Nat /\ f.pushes \in 0..7
      /\ (FrameSize(f) + f.pushes + 1) % 2 = 0
  BY <1>1, FrameFacts
<1>3. /\ lo >= FrameSize(f) /\ frames' = Append(frames, new) /\ rsp' = lo - FrameSize(f)
      /\ mem' = [a \in Addresses |->
                   IF a = r - 1 THEN Ret(D)
                   ELSE IF a \in lo..(r - 2) THEN Saved(D, a) ELSE m[a]]
  BY DEF NewFrame
<1>4. lo - FrameSize(f) \in Nat /\ (lo - FrameSize(f)) % 2 = 0
  <2>1. r - 1 - f.pushes >= FrameSize(f)
    BY <1>3
  <2>2. QED
    BY <1>2, <2>1, EvenBelow
<1>5. g \in Nat /\ new \in FrameRecords
  BY <1>4, FnFacts DEF FrameRecords
<1>6. /\ frames' \in Seq(FrameRecords) /\ Len(frames') = D
      /\ \A d \in 1..Depth : frames'[d] = frames[d]
      /\ frames'[D] = new
  BY <1>3, <1>5 DEF StackInv, Depth
<1>7. Depth' = D /\ frames' # <<>>
  BY <1>1, <1>6 DEF Depth
<1>8. RetSlot(D)' = r - 1
  <2>1. /\ frames'[D].base = r - 1 - f.pushes - FrameSize(f)
        /\ prog'.fns[frames'[D].fn] = f
    BY <1>6
  <2>2. QED
    BY <1>2, <2>1 DEF RetSlot, Fn
<1>9. D \in Nat /\ D - 1 = Depth /\ 1..D = 1..Depth \cup {D}
  BY <1>1
<1>10. r <= Top - 5
  <2>1. CASE D = 1
    BY <2>1, TopAssumption DEF CallerRsp
  <2>2. CASE D # 1
    <3>1. Depth \in 1..Depth /\ r = frames[Depth].base
      BY <1>1, <1>9, <2>2 DEF CallerRsp
    <3>2. RetSlot(Depth) < Top - 5 /\ frames[Depth].base <= RetSlot(Depth)
      BY <3>1, FnFacts DEF StackInv
    <3>3. RetSlot(Depth) \in Nat
      BY <3>1, FnFacts
    <3>4. QED
      BY <3>1, <3>2, <3>3, TopAssumption
  <2>3. QED
    BY <2>1, <2>2
<1>11. mem' = [a \in Addresses |-> mem'[a]]
  BY <1>3
<1>12. ASSUME NEW d \in 1..Depth
       PROVE  /\ frames'[d].fn \in DOMAIN prog'.fns
              /\ frames'[d].base % 2 = 0
              /\ RetSlot(d)' + 1 = CallerRsp(d)' /\ RetSlot(d)' < Top - 5
              /\ \A e \in 1..(d - 1) : RetSlot(d)' < frames'[e].base
  <2>1. d \in Nat /\ frames'[d] = frames[d] /\ (d # 1 => frames'[d - 1] = frames[d - 1])
    BY <1>1, <1>6
  <2>2. RetSlot(d)' = RetSlot(d)
    BY <2>1, FrameStays
  <2>3. CallerRsp(d)' = CallerRsp(d)
    BY <2>1 DEF CallerRsp
  <2>4. \A e \in 1..(d - 1) : e \in 1..Depth /\ frames'[e] = frames[e]
    BY <1>1, <1>6
  <2>5. QED
    BY <2>1, <2>2, <2>3, <2>4 DEF StackInv
<1>13. /\ frames'[D].fn \in DOMAIN prog'.fns
       /\ frames'[D].base % 2 = 0
       /\ RetSlot(D)' + 1 = CallerRsp(D)' /\ RetSlot(D)' < Top - 5
       /\ \A e \in 1..(D - 1) : RetSlot(D)' < frames'[e].base
  <2>1. CallerRsp(D)' = CallerRsp(D)
    BY <1>1, <1>6 DEF CallerRsp
  <2>2. ASSUME NEW e \in 1..Depth PROVE r <= frames[e].base
    <3>1. D # 1 /\ r = frames[Depth].base /\ Depth \in 1..Depth
      BY <1>1, <2>2 DEF CallerRsp
    <3>2. CASE e = Depth
      BY <3>1, <3>2, FnFacts DEF FrameRecords
    <3>3. CASE e # Depth
      <4>0. e \in 1..(Depth - 1)
        BY <1>1, <3>3
      <4>1. RetSlot(Depth) < frames[e].base /\ frames[Depth].base <= RetSlot(Depth)
        BY <3>1, <4>0, FnFacts DEF StackInv
      <4>2. RetSlot(Depth) \in Nat /\ frames[e].base \in Nat /\ frames[Depth].base \in Nat
        BY <3>1, FnFacts DEF FrameRecords
      <4>3. QED
        BY <3>1, <4>1, <4>2
    <3>4. QED
      BY <3>2, <3>3
  <2>3. \A e \in 1..(D - 1) : e \in 1..Depth /\ frames'[e] = frames[e] /\ frames[e].base \in Nat
    BY <1>6, <1>9, FnFacts DEF FrameRecords
  <2>4. frames'[D].fn \in DOMAIN prog'.fns /\ frames'[D].base % 2 = 0
    BY <1>4, <1>6
  <2>5. QED
    BY <1>10, <1>8, <1>9, <2>1, <2>2, <2>3, <2>4, TopAssumption
<1>14. rsp' = Running'.base
  BY <1>3, <1>6, <1>7 DEF Running
<1>15. StackInv'
  <2>1. \A d \in 1..D :
          /\ frames'[d].fn \in DOMAIN prog'.fns
          /\ frames'[d].base % 2 = 0
          /\ RetSlot(d)' + 1 = CallerRsp(d)' /\ RetSlot(d)' < Top - 5
          /\ \A e \in 1..(d - 1) : RetSlot(d)' < frames'[e].base
    BY <1>9, <1>12, <1>13
  <2>2. prog' \in Programs /\ boot' \in {"entry", "init", "princeps", "exit"} /\ Top >= 5
    BY DEF StackInv
  <2>3. QED
    BY <1>6, <1>7, <1>11, <1>14, <2>1, <2>2 DEF StackInv
<1>16. QED
  BY <1>3, <1>6, <1>7, <1>8, <1>15

(* A step that moves no frame.                                             *)
LEMMA SameFrames ==
  ASSUME StackInv, prog' = prog, rsp' = rsp, frames' \in Seq(FrameRecords),
         Len(frames') = Len(frames), mem' = [a \in Addresses |-> mem'[a]],
         \A d \in 1..Depth : frames'[d].fn = frames[d].fn /\ frames'[d].base = frames[d].base,
         boot' = boot \/ (frames = <<>> /\ boot # "entry" /\ boot' = "exit")
  PROVE  /\ StackInv' /\ Depth' = Depth
         /\ \A d \in 1..Depth : /\ Fn(d)' = Fn(d) /\ RetSlot(d)' = RetSlot(d)
                               /\ SavedSlots(d)' = SavedSlots(d)
                               /\ \A j : DataSlot(d, j)' = DataSlot(d, j)
<1>1. Depth' = Depth /\ Depth \in Nat /\ (frames' = <<>> <=> frames = <<>>)
  BY FnFacts DEF Depth, StackInv
<1>2. ASSUME NEW d \in 1..Depth
      PROVE  /\ Fn(d)' = Fn(d) /\ RetSlot(d)' = RetSlot(d)
             /\ SavedSlots(d)' = SavedSlots(d)
             /\ \A j : DataSlot(d, j)' = DataSlot(d, j)
             /\ CallerRsp(d)' = CallerRsp(d)
             /\ frames'[d].fn = frames[d].fn /\ frames'[d].base = frames[d].base
             /\ \A e \in 1..(d - 1) : frames'[e].base = frames[e].base
  <2>1. d \in Nat /\ frames'[d].fn = frames[d].fn /\ frames'[d].base = frames[d].base
    BY <1>1
  <2>2. d # 1 => d - 1 \in 1..Depth
    BY <1>1
  <2>3. CallerRsp(d)' = CallerRsp(d)
    BY <2>2 DEF CallerRsp
  <2>4. \A e \in 1..(d - 1) : frames'[e].base = frames[e].base
    BY <1>1
  <2>5. QED
    BY <2>1, <2>3, <2>4, FrameStays
<1>3. ASSUME NEW d \in 1..Depth
      PROVE  /\ frames'[d].fn \in DOMAIN prog'.fns
             /\ frames'[d].base % 2 = 0
             /\ RetSlot(d)' + 1 = CallerRsp(d)' /\ RetSlot(d)' < Top - 5
             /\ \A e \in 1..(d - 1) : RetSlot(d)' < frames'[e].base
  BY <1>2 DEF StackInv
<1>4. frames # <<>> => Running'.base = Running.base
  <2>1. frames # <<>> => Depth \in 1..Depth
    BY <1>1 DEF StackInv, Depth
  <2>2. QED
    BY <1>1, <2>1 DEF Running
<1>5. /\ prog' \in Programs /\ boot' \in {"entry", "init", "princeps", "exit"}
      /\ (boot' # "entry" => Top >= 5)
      /\ (frames' # <<>> => boot' \in {"init", "princeps"})
      /\ rsp' = IF frames' # <<>> THEN Running'.base
                ELSE IF boot' = "entry" THEN Top ELSE Top - 5
  BY <1>1, <1>4 DEF StackInv
<1>6. QED
  BY <1>1, <1>2, <1>3, <1>5 DEF StackInv

(* The epilogue and RET give the caller its stack pointer back.            *)
LEMMA PopFrame ==
  ASSUME StackInv, Return
  PROVE  /\ StackInv' /\ Depth \in Nat \ {0} /\ Depth' = Depth - 1
         /\ AfterReturn = RetSlot(Depth) + 1
         /\ \A d \in 1..(Depth - 1) :
              /\ frames'[d] = frames[d]
              /\ Fn(d)' = Fn(d) /\ RetSlot(d)' = RetSlot(d)
              /\ SavedSlots(d)' = SavedSlots(d)
              /\ \A j : DataSlot(d, j)' = DataSlot(d, j)
<1>1. frames # <<>> /\ Depth \in Nat \ {0} /\ Depth \in 1..Depth
  BY FnFacts DEF Return, Body, StackInv, Depth
<1>2. rsp = frames[Depth].base
  BY <1>1 DEF StackInv, Running
<1>3. AfterReturn = RetSlot(Depth) + 1
  BY <1>2 DEF AfterReturn, RetSlot
<1>4. /\ frames' = SubSeq(frames, 1, Depth - 1) /\ rsp' = AfterReturn
      /\ mem' = [a \in Addresses |-> IF a < AfterReturn THEN Junk ELSE mem[a]]
      /\ prog' = prog /\ boot' = boot
  BY DEF Return
<1>5. /\ frames' \in Seq(FrameRecords) /\ Len(frames') = Depth - 1
      /\ \A d \in 1..(Depth - 1) : frames'[d] = frames[d]
  <2>1. 1 \in Int /\ Depth - 1 \in Int /\ \A d \in 1..(Depth - 1) : frames[d] \in FrameRecords
    BY <1>1, FnFacts
  <2>2. \A d \in 1..(Depth - 1) : d \in 1..((Depth - 1) - 1 + 1) /\ 1 + d - 1 = d
    BY <1>1
  <2>3. /\ SubSeq(frames, 1, Depth - 1) \in Seq(FrameRecords)
        /\ Len(SubSeq(frames, 1, Depth - 1)) = IF 1 <= Depth - 1 THEN Depth - 1 - 1 + 1 ELSE 0
        /\ \A d \in 1..((Depth - 1) - 1 + 1) : SubSeq(frames, 1, Depth - 1)[d] = frames[1 + d - 1]
    BY <2>1, SubSeqProperties
  <2>4. QED
    BY <1>1, <1>4, <2>2, <2>3
<1>6. Depth' = Depth - 1 /\ (frames' = <<>> <=> Depth = 1)
  BY <1>1, <1>5 DEF Depth
<1>7. ASSUME NEW d \in 1..(Depth - 1)
      PROVE  /\ Fn(d)' = Fn(d) /\ RetSlot(d)' = RetSlot(d)
             /\ SavedSlots(d)' = SavedSlots(d)
             /\ \A j : DataSlot(d, j)' = DataSlot(d, j)
             /\ CallerRsp(d)' = CallerRsp(d)
             /\ \A e \in 1..(d - 1) : frames'[e].base = frames[e].base
  <2>1. d \in Nat /\ frames'[d].fn = frames[d].fn /\ frames'[d].base = frames[d].base
    BY <1>1, <1>5
  <2>2. CallerRsp(d)' = CallerRsp(d)
    BY <1>1, <1>5 DEF CallerRsp
  <2>3. QED
    BY <1>1, <1>4, <1>5, <2>1, <2>2, FrameStays
<1>8. \A d \in 1..(Depth - 1) :
        /\ frames'[d].fn \in DOMAIN prog'.fns
        /\ frames'[d].base % 2 = 0
        /\ RetSlot(d)' + 1 = CallerRsp(d)' /\ RetSlot(d)' < Top - 5
        /\ \A e \in 1..(d - 1) : RetSlot(d)' < frames'[e].base
  <2> SUFFICES ASSUME NEW d \in 1..(Depth - 1)
               PROVE  /\ frames'[d].fn \in DOMAIN prog'.fns
                      /\ frames'[d].base % 2 = 0
                      /\ RetSlot(d)' + 1 = CallerRsp(d)' /\ RetSlot(d)' < Top - 5
                      /\ \A e \in 1..(d - 1) : RetSlot(d)' < frames'[e].base
    OBVIOUS
  <2>1. d \in 1..Depth
    BY <1>1
  <2>2. /\ frames[d].fn \in DOMAIN prog.fns
        /\ frames[d].base % 2 = 0
        /\ RetSlot(d) + 1 = CallerRsp(d) /\ RetSlot(d) < Top - 5
        /\ \A e \in 1..(d - 1) : RetSlot(d) < frames[e].base
    BY <2>1 DEF StackInv
  <2>3. QED
    BY <1>4, <1>5, <1>7, <2>2
<1>9. rsp' = CallerRsp(Depth)
  <2>1. RetSlot(Depth) + 1 = CallerRsp(Depth)
    BY <1>1 DEF StackInv
  <2>2. QED
    BY <1>3, <1>4, <2>1
<1>10. rsp' = IF frames' # <<>> THEN Running'.base
             ELSE IF boot' = "entry" THEN Top ELSE Top - 5
  BY <1>1, <1>4, <1>5, <1>6, <1>9 DEF CallerRsp, Running, StackInv
<1>11. mem' = [a \in Addresses |-> mem'[a]]
  BY <1>4
<1>12. /\ prog' \in Programs /\ boot' \in {"entry", "init", "princeps", "exit"}
       /\ (boot' # "entry" => Top >= 5)
       /\ (frames' # <<>> => boot' \in {"init", "princeps"})
  BY <1>1, <1>4 DEF StackInv
<1>13. StackInv'
  BY <1>5, <1>6, <1>8, <1>10, <1>11, <1>12 DEF StackInv
<1>14. QED
  BY <1>1, <1>3, <1>5, <1>6, <1>7, <1>13

LEMMA InitStackInv == Init => StackInv
<1> SUFFICES ASSUME Init PROVE StackInv
  OBVIOUS
<1>1. frames = <<>> /\ frames \in Seq(FrameRecords) /\ Depth = 0
  BY DEF Init, Depth
<1>2. QED
  BY <1>1 DEF Init, StackInv

(* The steps that push a frame, as PushFrame wants them: with the frame's  *)
(* function, its call site, the memory and the stack pointer of the call.  *)
LEMMA BootInitPushes ==
  ASSUME StackInv, BootInit
  PROVE  /\ frames = <<>> /\ Depth = 0 /\ Top - 5 \in Nat /\ (Top - 5) % 2 = 0
         /\ NewFrame(InitFn, 0, Write(Write(mem, Top + 1, <<"argc">>), Top + 2, <<"argv">>), Top - 5)
         /\ prog' = prog /\ Top >= 5 /\ Top - 5 = CallerRsp(1) /\ boot' = "init"
<1>1. frames = <<>> /\ rsp = Top /\ prog' = prog /\ boot' = "init"
  BY DEF BootInit, StackInv
<1>2. NewFrame(InitFn, 0, Write(Write(mem, Top + 1, <<"argc">>), Top + 2, <<"argv">>), Top - 5)
  BY <1>1 DEF BootInit
<1>3. prog.fns[InitFn] \in Fns(Len(prog.fns)) /\ Len(prog.fns) \in Nat
  BY FnFacts
<1>4. Top - 5 - 1 - prog.fns[InitFn].pushes >= FrameSize(prog.fns[InitFn])
  BY <1>2 DEF NewFrame
<1>5. FrameSize(prog.fns[InitFn]) \in Nat /\ prog.fns[InitFn].pushes \in 0..7
  BY <1>3, FrameFacts
<1>6. Top >= 5
  BY <1>4, <1>5, TopAssumption
<1>7. Top - 5 \in Nat /\ (Top - 5) % 2 = 0
  BY <1>6, TopAssumption
<1>8. QED
  BY <1>1, <1>2, <1>6, <1>7 DEF Depth, CallerRsp

LEMMA BootPrincepsPushes ==
  ASSUME StackInv, BootPrinceps
  PROVE  /\ frames = <<>> /\ Depth = 0 /\ rsp = Top - 5 /\ rsp \in Nat /\ rsp % 2 = 0
         /\ NewFrame(Princeps, 0, mem, rsp)
         /\ prog' = prog /\ Top >= 5 /\ rsp = CallerRsp(1) /\ boot' = "princeps"
<1>1. /\ frames = <<>> /\ rsp = Top - 5 /\ Top >= 5 /\ prog' = prog /\ boot' = "princeps"
      /\ NewFrame(Princeps, 0, mem, rsp)
  BY DEF BootPrinceps, StackInv
<1>2. Top - 5 \in Nat /\ (Top - 5) % 2 = 0
  BY <1>1, TopAssumption
<1>3. QED
  BY <1>1, <1>2 DEF Depth, CallerRsp

LEMMA CallFnPushes ==
  ASSUME StackInv, NEW s \in 1..(IF frames = <<>> THEN 0 ELSE Len(Fn(Depth).calls)), CallFn(s)
  PROVE  /\ frames # <<>> /\ Depth \in Nat \ {0} /\ Depth \in 1..Depth
         /\ s \in DOMAIN Fn(Depth).calls
         /\ Fn(Depth).calls[s] \in CallSites(Len(prog.fns))
         /\ Fn(Depth).calls[s].callee \in DOMAIN prog.fns
         /\ rsp = Running.base /\ rsp \in Nat /\ rsp % 2 = 0
         /\ NewFrame(Fn(Depth).calls[s].callee, s, PassArgs(mem, rsp, s, Fn(Depth).calls[s]), rsp)
         /\ prog' = prog /\ boot' = boot /\ Top >= 5 /\ rsp = CallerRsp(Depth + 1)
<1>1. /\ frames # <<>> /\ prog' = prog /\ boot' = boot
      /\ Fn(Depth).calls[s].callee # Extern
      /\ NewFrame(Fn(Depth).calls[s].callee, s, PassArgs(mem, rsp, s, Fn(Depth).calls[s]), rsp)
  BY DEF CallFn, Body
<1>2. Depth \in Nat \ {0} /\ Depth \in 1..Depth
  BY <1>1, FnFacts DEF StackInv, Depth
<1>3. /\ Fn(Depth).calls \in Seq(CallSites(Len(prog.fns)))
      /\ s \in DOMAIN Fn(Depth).calls
  <2>1. Fn(Depth) \in Fns(Len(prog.fns))
    BY <1>2, FnFacts
  <2>2. Fn(Depth).calls \in Seq(CallSites(Len(prog.fns)))
    BY <2>1 DEF Fns
  <2>3. QED
    BY <1>1, <2>2
<1>4. Fn(Depth).calls[s] \in CallSites(Len(prog.fns))
  BY <1>3
<1>5. Fn(Depth).calls[s].callee \in DOMAIN prog.fns
  BY <1>1, <1>4, FnFacts DEF CallSites, Extern
<1>6. rsp = Running.base /\ rsp \in Nat /\ rsp % 2 = 0 /\ Top >= 5
  <2>1. frames[Depth] \in FrameRecords /\ frames[Depth].base % 2 = 0
    BY <1>2, FnFacts DEF StackInv
  <2>2. rsp = frames[Depth].base /\ Top >= 5
    BY <1>1 DEF StackInv, Running
  <2>3. QED
    BY <2>1, <2>2 DEF Running, FrameRecords
<1>7. rsp = CallerRsp(Depth + 1)
  BY <1>2, <1>6 DEF CallerRsp, Running
<1>8. QED
  BY <1>1, <1>2, <1>3, <1>4, <1>5, <1>6, <1>7

(* The other steps of a body move no frame.                                *)
InPlace == ReadParams \/ UseData \/ SysHeap \/ SysFile
           \/ \E s \in 1..(IF frames = <<>> THEN 0 ELSE Len(Fn(Depth).calls)) : CallExtern(s)

LEMMA InPlaceMovesNothing ==
  ASSUME StackInv, InPlace \/ Exit \/ UNCHANGED vars
  PROVE  /\ prog' = prog /\ rsp' = rsp /\ frames' \in Seq(FrameRecords)
         /\ Len(frames') = Len(frames) /\ mem' = [a \in Addresses |-> mem'[a]]
         /\ \A d \in 1..Depth : frames'[d].fn = frames[d].fn /\ frames'[d].base = frames[d].base
         /\ boot' = boot \/ (frames = <<>> /\ boot # "entry" /\ boot' = "exit")
<1>1. /\ frames \in Seq(FrameRecords) /\ mem = [a \in Addresses |-> mem[a]]
      /\ \A d \in 1..Depth : d \in 1..Len(frames) /\ frames[d] \in FrameRecords
  BY FnFacts DEF StackInv, Depth
<1>2. CASE ReadParams
  <2>1. frames' = [frames EXCEPT ![Depth].ready = TRUE] /\ UNCHANGED <<prog, boot, rsp, mem>>
    BY <1>2 DEF ReadParams
  <2>2. frames # <<>> /\ Depth \in 1..Len(frames)
    BY <1>1, <1>2 DEF ReadParams, Depth
  <2>3. [frames[Depth] EXCEPT !.ready = TRUE] \in FrameRecords
    BY <1>1, <2>2 DEF FrameRecords, Depth
  <2>4. QED
    BY <1>1, <2>1, <2>2, <2>3
<1>3. CASE UseData
  <2>1. /\ frames' = [frames EXCEPT ![Depth].used = TRUE] /\ UNCHANGED <<prog, boot, rsp>>
        /\ mem' = [a \in Addresses |-> mem'[a]]
    BY <1>3 DEF UseData
  <2>2. frames # <<>> /\ Depth \in 1..Len(frames)
    BY <1>1, <1>3 DEF UseData, Body, Depth
  <2>3. [frames[Depth] EXCEPT !.used = TRUE] \in FrameRecords
    BY <1>1, <2>2 DEF FrameRecords, Depth
  <2>4. QED
    BY <1>1, <2>1, <2>2, <2>3
<1>4. CASE SysHeap
  BY <1>1, <1>4 DEF SysHeap, AfterExtern
<1>5. CASE SysFile
  BY <1>1, <1>5 DEF SysFile, AfterExtern, Write
<1>6. CASE \E s \in 1..(IF frames = <<>> THEN 0 ELSE Len(Fn(Depth).calls)) : CallExtern(s)
  BY <1>1, <1>6 DEF CallExtern, AfterExtern
<1>7. CASE Exit
  BY <1>1, <1>7 DEF Exit
<1>8. CASE UNCHANGED vars
  BY <1>1, <1>8 DEF vars
<1>9. QED
  BY <1>2, <1>3, <1>4, <1>5, <1>6, <1>7, <1>8 DEF InPlace

LEMMA NextStackInv == StackInv /\ [Next]_vars => StackInv'
<1> SUFFICES ASSUME StackInv, [Next]_vars PROVE StackInv'
  OBVIOUS
<1>1. CASE BootInit
  <2>1. 1 = Depth + 1 /\ InitFn \in DOMAIN prog.fns /\ 0 \in Nat /\ boot' \in {"init", "princeps"}
    BY <1>1, BootInitPushes, FnFacts
  <2>2. QED
    BY <1>1, <2>1, BootInitPushes, PushFrame
<1>2. CASE BootPrinceps
  <2>1. 1 = Depth + 1 /\ Princeps \in DOMAIN prog.fns /\ 0 \in Nat /\ boot' \in {"init", "princeps"}
    BY <1>2, BootPrincepsPushes, FnFacts
  <2>2. QED
    BY <1>2, <2>1, BootPrincepsPushes, PushFrame
<1>3. ASSUME NEW s \in 1..(IF frames = <<>> THEN 0 ELSE Len(Fn(Depth).calls)), CallFn(s)
      PROVE  StackInv'
  <2>1. boot' \in {"init", "princeps"} /\ s \in Nat
    BY <1>3, CallFnPushes DEF StackInv
  <2>2. QED
    BY <1>3, <2>1, CallFnPushes, PushFrame
<1>4. CASE Return
  BY <1>4, PopFrame
<1>5. CASE InPlace \/ Exit \/ UNCHANGED vars
  BY <1>5, InPlaceMovesNothing, SameFrames
<1>6. QED
  BY <1>1, <1>2, <1>3, <1>4, <1>5 DEF Next, InPlace

(* The frames tile the stack: the layout x86_mir_build computes for each   *)
(* function alone fits together, whatever calls what.                      *)
THEOREM FramesTile == Spec => []StackInv
<1>1. StackInv /\ [Next]_vars => StackInv'
  BY NextStackInv
<1>2. QED
  BY InitStackInv, <1>1, PTL DEF Spec

(* Every call of every program is made with an aligned stack.              *)
THEOREM CallsAreAligned == Spec => []Aligned
<1>1. StackInv => Aligned
  <2>1. SUFFICES ASSUME StackInv, frames # <<>> PROVE rsp % 2 = 0
    BY DEF Aligned
  <2>2. Depth \in 1..Depth
    BY <2>1, FnFacts DEF StackInv, Depth
  <2>3. QED
    BY <2>1, <2>2 DEF StackInv, Running
<1>2. QED
  BY FramesTile, <1>1, PTL

-----------------------------------------------------------------------------
(* Frames stay intact.                                                     *)

(* Where the slots a frame owns lie.                                       *)
LEMMA OwnedBounds ==
  ASSUME StackInv, NEW d \in 1..Depth
  PROVE  /\ frames[d].base \in Nat /\ Outgoing(Fn(d)) \in Nat /\ Outgoing(Fn(d)) >= 4
         /\ RetSlot(d) \in Nat /\ RetSlot(d) < Top - 5
         /\ frames[d].base + Outgoing(Fn(d)) <= RetSlot(d)
         /\ \A a \in SavedSlots(d) :
              a \in Nat /\ frames[d].base + Outgoing(Fn(d)) <= a /\ a < RetSlot(d)
         /\ Data(Fn(d)) \in Nat
         /\ \A j \in 1..Data(Fn(d)) :
              /\ DataSlot(d, j) \in Nat /\ frames[d].base + Outgoing(Fn(d)) <= DataSlot(d, j)
              /\ DataSlot(d, j) < RetSlot(d) /\ DataSlot(d, j) \notin SavedSlots(d)
              /\ j = frames[d].base + FrameSize(Fn(d)) - DataSlot(d, j)
<1> DEFINE f == Fn(d)
           b == frames[d].base
<1>1. /\ b \in Nat /\ f \in Fns(Len(prog.fns)) /\ Len(prog.fns) \in Nat
      /\ RetSlot(d) \in Nat /\ RetSlot(d) < Top - 5
  BY FnFacts DEF FrameRecords, StackInv
<1>2. Outgoing(f) \in Nat /\ Outgoing(f) >= 4
  BY <1>1, OutgoingCovers
<1>3. /\ Data(f) \in Nat /\ f.pushes \in 0..7 /\ FrameSize(f) \in Nat
      /\ Data(f) + Outgoing(f) <= FrameSize(f)
  BY <1>1, FrameFacts
<1>4. RetSlot(d) = b + FrameSize(f) + f.pushes
  BY DEF RetSlot
<1>5. SavedSlots(d) = (b + FrameSize(f))..(b + FrameSize(f) + f.pushes - 1)
  BY DEF SavedSlots
<1>6. \A j : DataSlot(d, j) = b + FrameSize(f) - j
  BY DEF DataSlot
<1>7. /\ b + Outgoing(f) <= RetSlot(d)
      /\ \A a \in SavedSlots(d) : a \in Nat /\ b + Outgoing(f) <= a /\ a < RetSlot(d)
      /\ \A j \in 1..Data(f) :
           /\ DataSlot(d, j) \in Nat /\ b + Outgoing(f) <= DataSlot(d, j)
           /\ DataSlot(d, j) < RetSlot(d) /\ DataSlot(d, j) \notin SavedSlots(d)
           /\ j = b + FrameSize(f) - DataSlot(d, j)
  <2> DEFINE o  == Outgoing(f)
             n  == Data(f)
             sz == FrameSize(f)
             p  == f.pushes
  <2>1. /\ b \in Nat /\ o \in Nat /\ n \in Nat /\ p \in Nat /\ sz \in Nat /\ n + o <= sz
        /\ RetSlot(d) = b + sz + p
        /\ SavedSlots(d) = (b + sz)..(b + sz + p - 1)
        /\ \A j : DataSlot(d, j) = b + sz - j
    <3> HIDE DEF f, b
    <3>1. \A j : DataSlot(d, j) = b + sz - j
      BY <1>6
    <3>2. p \in Nat /\ n + o <= sz
      BY <1>3
    <3>3. QED
      BY <1>1, <1>2, <1>3, <1>4, <1>5, <3>1, <3>2
  <2> HIDE DEF f, b, o, n, sz, p
  <2>2. b + o <= RetSlot(d)
    BY <2>1
  <2>3. ASSUME NEW a \in SavedSlots(d) PROVE a \in Nat /\ b + o <= a /\ a < RetSlot(d)
    BY <2>1
  <2>4. ASSUME NEW j \in 1..n
        PROVE  /\ DataSlot(d, j) \in Nat /\ b + o <= DataSlot(d, j)
               /\ DataSlot(d, j) < RetSlot(d) /\ DataSlot(d, j) \notin SavedSlots(d)
               /\ j = b + sz - DataSlot(d, j)
    <3>1. DataSlot(d, j) = b + sz - j /\ j \in Nat /\ 1 <= j /\ j <= n
      BY <2>1
    <3>2. b \in Nat /\ o \in Nat /\ n \in Nat /\ p \in Nat /\ sz \in Nat /\ n + o <= sz
          /\ RetSlot(d) = b + sz + p
      BY <2>1
    <3>3. SavedSlots(d) = (b + sz)..(b + sz + p - 1)
      BY <2>1
    <3>4. /\ DataSlot(d, j) \in Nat /\ b + o <= DataSlot(d, j) /\ DataSlot(d, j) < b + sz
          /\ j = b + sz - DataSlot(d, j) /\ DataSlot(d, j) < RetSlot(d)
      BY <3>1, <3>2
    <3>5. DataSlot(d, j) \notin SavedSlots(d)
      BY <3>2, <3>3, <3>4
    <3>6. QED
      BY <3>4, <3>5
  <2>5. QED
    BY <2>2, <2>3, <2>4 DEF o, n, sz
<1>8. QED
  BY <1>1, <1>2, <1>3, <1>7

(* What all frames own lies above the outgoing area of the running one.    *)
LEMMA OwnedAbove ==
  ASSUME StackInv, frames # <<>>, NEW d \in 1..Depth, NEW a \in Nat,
         frames[d].base + Outgoing(Fn(d)) <= a, a <= RetSlot(d)
  PROVE  a \in Addresses /\ a >= rsp + Outgoing(Fn(Depth))
<1>1. Depth \in 1..Depth /\ Depth \in Nat /\ rsp = frames[Depth].base
  BY FnFacts DEF StackInv, Depth, Running
<1>2. a \in Addresses
  BY OwnedBounds, TopAssumption DEF Addresses
<1>3. CASE d = Depth
  BY <1>1, <1>2, <1>3
<1>4. CASE d # Depth
  <2>1. d \in 1..(Depth - 1)
    BY <1>1, <1>4
  <2>2. RetSlot(Depth) < frames[d].base
    BY <1>1, <2>1 DEF StackInv
  <2>3. /\ frames[Depth].base + Outgoing(Fn(Depth)) <= RetSlot(Depth) /\ RetSlot(Depth) \in Nat
        /\ Outgoing(Fn(Depth)) \in Nat /\ frames[Depth].base \in Nat
    BY <1>1, OwnedBounds
  <2>4. Outgoing(Fn(d)) \in Nat /\ frames[d].base \in Nat
    BY OwnedBounds
  <2> DEFINE inner == frames[Depth].base
             outer == frames[d].base
             o     == Outgoing(Fn(Depth))
             r     == RetSlot(Depth)
  <2>5. /\ inner + o <= r /\ r < outer /\ outer + Outgoing(Fn(d)) <= a
        /\ inner \in Nat /\ o \in Nat /\ r \in Nat /\ outer \in Nat /\ Outgoing(Fn(d)) \in Nat
    BY <2>2, <2>3, <2>4
  <2> HIDE DEF inner, outer, o, r
  <2>6. a >= inner + o
    BY <2>5
  <2>7. QED
    BY <1>1, <1>2, <2>6 DEF inner, o
<1>5. QED
  BY <1>3, <1>4

(* The frame at depth d is intact in memory m.                             *)
IntactIn(m, d) ==
  /\ m[RetSlot(d)] = Ret(d)
  /\ \A a \in SavedSlots(d) : m[a] = Saved(d, a)
  /\ frames[d].used => \A j \in 1..Data(Fn(d)) : m[DataSlot(d, j)] = Slot(d, j)

BootIntactIn(m) == boot = "init" => m[Top + 1] = <<"argc">> /\ m[Top + 2] = <<"argv">>

(* What the running body leaves alone above its outgoing area.             *)
LEMMA WritesBelow ==
  ASSUME StackInv, FramesIntact, frames # <<>>,
         \A a \in Addresses : a >= rsp + Outgoing(Fn(Depth)) => mem'[a] = mem[a]
  PROVE  (\A d \in 1..Depth : IntactIn(mem', d)) /\ BootIntactIn(mem')
<1>1. ASSUME NEW d \in 1..Depth PROVE IntactIn(mem', d)
  <2>1. \A a \in Nat : frames[d].base + Outgoing(Fn(d)) <= a /\ a <= RetSlot(d)
                       => mem'[a] = mem[a]
    BY OwnedAbove
  <2>2. mem'[RetSlot(d)] = mem[RetSlot(d)]
    BY <2>1, OwnedBounds
  <2>3. \A a \in SavedSlots(d) : mem'[a] = mem[a]
    BY <2>1, OwnedBounds
  <2>4. \A j \in 1..Data(Fn(d)) : mem'[DataSlot(d, j)] = mem[DataSlot(d, j)]
    BY <2>1, OwnedBounds
  <2>5. QED
    BY <2>2, <2>3, <2>4 DEF FramesIntact, IntactIn
<1>2. BootIntactIn(mem')
  <2>1. Depth \in 1..Depth /\ rsp = frames[Depth].base
    BY FnFacts DEF StackInv, Depth, Running
  <2>2. rsp + Outgoing(Fn(Depth)) < Top - 5 /\ rsp \in Nat /\ Outgoing(Fn(Depth)) \in Nat
    BY <2>1, OwnedBounds, TopAssumption
  <2>3. mem'[Top + 1] = mem[Top + 1] /\ mem'[Top + 2] = mem[Top + 2]
    BY <2>2, TopAssumption DEF Addresses
  <2>4. QED
    BY <2>3 DEF FramesIntact, BootIntactIn
<1>3. QED
  BY <1>1, <1>2

(* A body writes only below the end of its outgoing area, except to its    *)
(* own data.                                                               *)
LEMMA CallWritesBelow ==
  ASSUME StackInv, NEW s \in DOMAIN Fn(Depth).calls, frames # <<>>,
         NEW a \in Addresses, a >= rsp + Outgoing(Fn(Depth))
  PROVE  PassArgs(mem, rsp, s, Fn(Depth).calls[s])[a] = mem[a]
<1> DEFINE c      == Fn(Depth).calls[s]
           n      == c.nargs
           out    == Outgoing(Fn(Depth))
           regs   == MaxRegArgs(c.callee)
           off    == ArgSlot(c.callee, regs)
           stack  == IF n > regs THEN n - regs ELSE 0
           staged == IF n - stack >= 3 THEN n - stack ELSE 0
<1>1. /\ Depth \in 1..Depth /\ Fn(Depth) \in Fns(Len(prog.fns)) /\ Len(prog.fns) \in Nat
      /\ rsp \in Nat
  <2>1. Depth \in 1..Depth /\ rsp = frames[Depth].base
    BY FnFacts DEF StackInv, Depth, Running
  <2>2. QED
    BY <2>1, FnFacts DEF FrameRecords
<1>2. c \in CallSites(Len(prog.fns))
  BY <1>1 DEF Fns
<1>3. n \in Nat /\ 4 + n <= out /\ out \in Nat
  BY <1>1, <1>2, OutgoingCovers DEF CallSites
<1>4. /\ regs \in {4, 6} /\ off \in {0, 4}
      /\ \A k \in Int : ArgSlot(c.callee, k) = off + k - regs
  BY DEF MaxRegArgs, ArgSlot, Shadow
<1>5. a \in Nat /\ a >= rsp + out
  BY DEF Addresses
<1>6. PassArgs(mem, rsp, s, c)[a] =
         IF a \in {rsp + 4 + stack + k : k \in 0..(staged - 1)}
         THEN ArgOf(Depth, s, a - rsp - 4 - stack)
         ELSE IF a \in {rsp + ArgSlot(c.callee, k) : k \in regs..(n - 1)}
         THEN ArgOf(Depth, s, a - rsp - ArgSlot(c.callee, 0))
         ELSE mem[a]
  BY DEF PassArgs, Shadow
<1> HIDE DEF c, n, out, regs, off
<1>7. stack \in Nat /\ staged \in Nat /\ stack + staged <= n
  BY <1>3, <1>4
<1> HIDE DEF stack, staged
<1>8. ASSUME NEW k \in 0..(staged - 1) PROVE a # rsp + 4 + stack + k
  BY <1>1, <1>3, <1>5, <1>7
<1>9. ASSUME NEW k \in regs..(n - 1) PROVE a # rsp + ArgSlot(c.callee, k)
  <2>1. k \in Int /\ ArgSlot(c.callee, k) = off + k - regs
    BY <1>3, <1>4
  <2>2. off + k - regs < 4 + n
    BY <1>3, <1>4, <2>1
  <2>3. rsp + (off + k - regs) < a
    BY <1>1, <1>3, <1>4, <1>5, <2>1, <2>2
  <2>4. QED
    BY <1>1, <1>5, <2>1, <2>3
<1>10. PassArgs(mem, rsp, s, c)[a] = mem[a]
  BY <1>6, <1>8, <1>9
<1>11. QED
  BY <1>10 DEF c

LEMMA SystemWritesBelow ==
  ASSUME StackInv, frames # <<>>, SysHeap \/ SysFile,
         NEW a \in Addresses, a >= rsp + Outgoing(Fn(Depth))
  PROVE  mem'[a] = mem[a]
<1>1. Depth \in 1..Depth /\ Fn(Depth) \in Fns(Len(prog.fns)) /\ Len(prog.fns) \in Nat
  BY FnFacts DEF StackInv, Depth
<1>2. rsp \in Nat /\ a \in Nat /\ mem = [b \in Addresses |-> mem[b]]
  <2>1. rsp = frames[Depth].base /\ mem = [b \in Addresses |-> mem[b]]
    BY DEF StackInv, Running
  <2>2. QED
    BY <1>1, <2>1, FnFacts DEF FrameRecords, Addresses
<1>3. CASE SysHeap
  <2>1. Outgoing(Fn(Depth)) \in Nat /\ Outgoing(Fn(Depth)) >= 5
    BY <1>1, <1>3, OutgoingCovers DEF SysHeap
  <2>2. ~(a < rsp + Shadow) /\ a # rsp + 4
    BY <1>2, <2>1 DEF Shadow
  <2>3. QED
    BY <1>2, <1>3, <2>2 DEF SysHeap, AfterExtern, Write
<1>4. CASE SysFile
  <2>1. Outgoing(Fn(Depth)) \in Nat /\ Outgoing(Fn(Depth)) >= 7
    BY <1>1, <1>4, OutgoingCovers DEF SysFile
  <2>2. ~(a < rsp + Shadow) /\ a # rsp + 4 /\ a # rsp + 5 /\ a # rsp + 6
    BY <1>2, <2>1 DEF Shadow
  <2>3. QED
    BY <1>2, <1>4, <2>2 DEF SysFile, AfterExtern, Write
<1>5. QED
  BY <1>3, <1>4

(* The slots NewFrame writes: the return address and the saved registers   *)
(* of the new frame, all below the stack pointer of the call.              *)
LEMMA PushWrites ==
  ASSUME StackInv, NEW g \in DOMAIN prog.fns, NEW site \in Nat, NEW m,
         NEW r \in Nat, r % 2 = 0, NEW D, D = Depth + 1, NewFrame(g, site, m, r), prog' = prog,
         Top >= 5, r = CallerRsp(D), boot' \in {"init", "princeps"}
  PROVE  /\ \A a \in Addresses : a >= r => mem'[a] = m[a]
         /\ mem'[RetSlot(D)'] = Ret(D)
         /\ \A a \in SavedSlots(D)' : mem'[a] = Saved(D, a)
<1> DEFINE f  == prog.fns[g]
           lo == r - 1 - f.pushes
<1>1. f \in Fns(Len(prog.fns)) /\ Len(prog.fns) \in Nat
  BY FnFacts
<1>2. FrameSize(f) \in Nat /\ f.pushes \in 0..7
  BY <1>1, FrameFacts
<1>3. /\ lo >= FrameSize(f) /\ rsp' = lo - FrameSize(f)
      /\ mem' = [a \in Addresses |->
                   IF a = r - 1 THEN Ret(D)
                   ELSE IF a \in lo..(r - 2) THEN Saved(D, a) ELSE m[a]]
  BY DEF NewFrame
<1>4. /\ frames'[D] = [fn |-> g, site |-> site, base |-> rsp', ready |-> FALSE, used |-> FALSE]
      /\ RetSlot(D)' = r - 1 /\ StackInv' /\ Depth' = D
  BY PushFrame
<1>5. SavedSlots(D)' = lo..(r - 2)
  <2>1. frames'[D].base = lo - FrameSize(f) /\ Fn(D)' = f
    BY <1>3, <1>4 DEF Fn
  <2>2. SavedSlots(D)' = LET hi == frames'[D].base + FrameSize(f) IN hi..(hi + f.pushes - 1)
    BY <2>1 DEF SavedSlots
  <2> DEFINE p  == f.pushes
             sz == FrameSize(f)
  <2>3. p \in Nat /\ sz \in Nat
    BY <1>2
  <2> HIDE DEF p, sz
  <2>4. r - 1 - p - sz + sz = r - 1 - p /\ r - 1 - p + p - 1 = r - 2
    BY <2>3
  <2>5. QED
    BY <2>1, <2>2, <2>4 DEF p, sz
<1>6. lo \in Nat /\ r - 1 \in Nat /\ r <= Top + 2
  <2>1. lo \in Nat /\ r - 1 \in Nat
    BY <1>2, <1>3
  <2>2. RetSlot(D)' < Top - 5
    <3>1. Depth \in Nat
      BY FnFacts
    <3>2. D \in 1..Depth'
      BY <1>4, <3>1
    <3>3. QED
      BY <1>4, <3>2 DEF StackInv
  <2>3. QED
    BY <1>4, <2>1, <2>2, TopAssumption
<1>7. \A a \in lo..(r - 1) : a \in Addresses
  BY <1>6, TopAssumption DEF Addresses
<1>8. mem'[r - 1] = Ret(D)
  BY <1>2, <1>3, <1>6, <1>7
<1>9. \A a \in lo..(r - 2) : mem'[a] = Saved(D, a)
  <2> HIDE DEF lo
  <2>1. \A a \in lo..(r - 2) : a \in lo..(r - 1) /\ a # r - 1
    BY <1>6
  <2>2. QED
    BY <1>3, <1>7, <2>1
<1>10. \A a \in Addresses : a >= r => mem'[a] = m[a]
  <2> HIDE DEF lo
  <2>1. \A a \in Addresses : a >= r => a # r - 1 /\ a \notin lo..(r - 2)
    BY <1>6 DEF Addresses
  <2>2. QED
    BY <1>3, <2>1
<1>11. QED
  BY <1>4, <1>5, <1>8, <1>9, <1>10

(* A new frame, on top of frames that the call left intact.                *)
LEMMA PushIntact ==
  ASSUME StackInv, NEW g \in DOMAIN prog.fns, NEW site \in Nat, NEW m,
         NEW r \in Nat, r % 2 = 0, NEW D, D = Depth + 1, NewFrame(g, site, m, r), prog' = prog,
         Top >= 5, r = CallerRsp(D), boot' \in {"init", "princeps"},
         \A d \in 1..Depth : IntactIn(mem', d),
         boot' = "init" => mem'[Top + 1] = <<"argc">> /\ mem'[Top + 2] = <<"argv">>
  PROVE  FramesIntact'
<1>1. /\ Depth' = D /\ Depth \in Nat /\ \A d \in 1..Depth : frames'[d] = frames[d]
      /\ frames'[D].used = FALSE
  <2>1. /\ Depth' = D /\ \A d \in 1..Depth : frames'[d] = frames[d]
        /\ frames'[D] = [fn |-> g, site |-> site, base |-> rsp', ready |-> FALSE, used |-> FALSE]
    BY PushFrame
  <2>2. QED
    BY <2>1, FnFacts
<1>2. ASSUME NEW d \in 1..Depth
      PROVE  /\ mem'[RetSlot(d)'] = Ret(d)
             /\ \A a \in SavedSlots(d)' : mem'[a] = Saved(d, a)
             /\ frames'[d].used =>
                  \A j \in 1..Data(Fn(d)') : mem'[DataSlot(d, j)'] = Slot(d, j)
  <2>1. d \in Nat /\ frames'[d] = frames[d]
    BY <1>1
  <2>2. /\ Fn(d)' = Fn(d) /\ RetSlot(d)' = RetSlot(d) /\ SavedSlots(d)' = SavedSlots(d)
        /\ \A j : DataSlot(d, j)' = DataSlot(d, j)
    BY <2>1, FrameStays
  <2>3. IntactIn(mem', d)
    OBVIOUS
  <2>4. QED
    BY <2>1, <2>2, <2>3 DEF IntactIn
<1>3. mem'[RetSlot(D)'] = Ret(D) /\ \A a \in SavedSlots(D)' : mem'[a] = Saved(D, a)
  BY PushWrites
<1>4. 1..D = 1..Depth \cup {D}
  BY <1>1
<1>5. QED
  BY <1>1, <1>2, <1>3, <1>4 DEF FramesIntact, Ret, Saved, Slot, Data

LEMMA CallFnIntact ==
  ASSUME StackInv, FramesIntact,
         NEW s \in 1..(IF frames = <<>> THEN 0 ELSE Len(Fn(Depth).calls)), CallFn(s)
  PROVE  FramesIntact'
<1> DEFINE c == Fn(Depth).calls[s]
           m == PassArgs(mem, rsp, s, c)
<1>1. /\ frames # <<>> /\ s \in DOMAIN Fn(Depth).calls /\ s \in Nat
      /\ c.callee \in DOMAIN prog.fns /\ NewFrame(c.callee, s, m, rsp)
      /\ rsp \in Nat /\ rsp % 2 = 0 /\ prog' = prog /\ boot' = boot
      /\ Top >= 5 /\ rsp = CallerRsp(Depth + 1) /\ boot' \in {"init", "princeps"}
      /\ Depth \in 1..Depth
  BY CallFnPushes DEF StackInv
<1>2. \A a \in Addresses : a >= rsp => mem'[a] = m[a]
  <2> HIDE DEF m, c
  <2>1. QED
    BY <1>1, PushWrites
<1>3. \A a \in Addresses : a >= rsp + Outgoing(Fn(Depth)) => mem'[a] = mem[a]
  <2>1. Outgoing(Fn(Depth)) \in Nat
    BY <1>1, OwnedBounds
  <2>2. \A a \in Addresses : a >= rsp + Outgoing(Fn(Depth)) => m[a] = mem[a]
    BY <1>1, CallWritesBelow
  <2> HIDE DEF m, c
  <2>3. QED
    BY <1>1, <1>2, <2>1, <2>2 DEF Addresses
<1>4. (\A d \in 1..Depth : IntactIn(mem', d)) /\ BootIntactIn(mem')
  BY <1>1, <1>3, WritesBelow
<1>5. QED
  <2> HIDE DEF m, c
  <2>1. boot' = "init" => mem'[Top + 1] = <<"argc">> /\ mem'[Top + 2] = <<"argv">>
    BY <1>1, <1>4 DEF BootIntactIn
  <2>2. QED
    BY <1>1, <1>4, <2>1, PushIntact

LEMMA BootIntact == StackInv /\ FramesIntact /\ (BootInit \/ BootPrinceps) => FramesIntact'
<1> SUFFICES ASSUME StackInv, FramesIntact, BootInit \/ BootPrinceps PROVE FramesIntact'
  OBVIOUS
<1>1. CASE BootInit
  <2> DEFINE m == Write(Write(mem, Top + 1, <<"argc">>), Top + 2, <<"argv">>)
  <2>1. /\ InitFn \in DOMAIN prog.fns /\ 0 \in Nat /\ 1 = Depth + 1
        /\ NewFrame(InitFn, 0, m, Top - 5) /\ Top - 5 \in Nat /\ (Top - 5) % 2 = 0
        /\ prog' = prog /\ Top >= 5 /\ Top - 5 = CallerRsp(1) /\ boot' \in {"init", "princeps"}
    BY <1>1, BootInitPushes, FnFacts
  <2>2. m[Top + 1] = <<"argc">> /\ m[Top + 2] = <<"argv">>
    <3>1. mem = [a \in Addresses |-> mem[a]] /\ Top + 1 \in Addresses /\ Top + 2 \in Addresses
      BY TopAssumption DEF StackInv, Addresses
    <3>2. QED
      BY <3>1, TopAssumption DEF Write
  <2> HIDE DEF m
  <2>3. \A a \in Addresses : a >= Top - 5 => mem'[a] = m[a]
    BY <2>1, PushWrites
  <2>4. mem'[Top + 1] = <<"argc">> /\ mem'[Top + 2] = <<"argv">>
    BY <2>2, <2>3, TopAssumption DEF Addresses
  <2>5. \A d \in 1..Depth : IntactIn(mem', d)
    BY <1>1, BootInitPushes
  <2>6. QED
    BY <2>1, <2>4, <2>5, PushIntact
<1>2. CASE BootPrinceps
  <2>1. /\ Princeps \in DOMAIN prog.fns /\ 0 \in Nat /\ 1 = Depth + 1
        /\ NewFrame(Princeps, 0, mem, rsp) /\ rsp \in Nat /\ rsp % 2 = 0
        /\ prog' = prog /\ Top >= 5 /\ rsp = CallerRsp(1) /\ boot' \in {"init", "princeps"}
        /\ boot' # "init"
    BY <1>2, BootPrincepsPushes, FnFacts
  <2>2. \A d \in 1..Depth : IntactIn(mem', d)
    BY <1>2, BootPrincepsPushes
  <2>3. QED
    BY <2>1, <2>2, PushIntact
<1>3. QED
  BY <1>1, <1>2

LEMMA UseDataIntact == StackInv /\ FramesIntact /\ UseData => FramesIntact'
<1> SUFFICES ASSUME StackInv, FramesIntact, UseData PROVE FramesIntact'
  OBVIOUS
<1> DEFINE data == {DataSlot(Depth, j) : j \in 1..Data(Fn(Depth))}
<1>1. /\ Depth \in 1..Depth /\ Depth \in Nat /\ rsp = frames[Depth].base /\ frames # <<>>
      /\ mem = [a \in Addresses |-> mem[a]] /\ Depth \in 1..Len(frames)
  BY FnFacts DEF UseData, Body, StackInv, Depth, Running
<1>2. /\ prog' = prog /\ boot' = boot /\ Depth' = Depth
      /\ \A d \in 1..Depth :
           /\ Fn(d)' = Fn(d) /\ RetSlot(d)' = RetSlot(d) /\ SavedSlots(d)' = SavedSlots(d)
           /\ \A j : DataSlot(d, j)' = DataSlot(d, j)
  <2>1. boot' = boot
    BY DEF UseData
  <2>2. QED
    BY <2>1, InPlaceMovesNothing, SameFrames DEF InPlace
<1>3. /\ frames' = [frames EXCEPT ![Depth].used = TRUE]
      /\ mem' = [a \in Addresses |->
                   IF a \in data THEN Slot(Depth, rsp + FrameSize(Fn(Depth)) - a) ELSE mem[a]]
  BY DEF UseData
<1>4. \A d \in 1..(Depth - 1) : frames'[d].used = frames[d].used
  <2>1. frames \in Seq(FrameRecords) /\ Depth = Len(frames)
    BY DEF StackInv, Depth
  <2>2. \A d \in 1..(Depth - 1) : d # Depth /\ d \in 1..Len(frames)
    BY <1>1, <2>1
  <2>3. \A d \in 1..Len(frames) :
          frames'[d] = IF d = Depth THEN [frames[d] EXCEPT !.used = TRUE] ELSE frames[d]
    <3>1. frames' = [frames EXCEPT ![Depth].used = TRUE] /\ DOMAIN frames = 1..Len(frames)
      BY <1>3, <2>1
    <3> HIDE DEF data
    <3>2. QED
      BY <3>1
  <2>4. QED
    BY <2>2, <2>3
<1>5. \A a \in Addresses : a \notin data => mem'[a] = mem[a]
  BY <1>3
<1>6. BootIntactIn(mem')
  <2>1. \A a \in data : a < Top
    <3>1. \A j \in 1..Data(Fn(Depth)) : DataSlot(Depth, j) < Top
      BY <1>1, OwnedBounds, TopAssumption
    <3>2. QED
      BY <3>1
  <2>2. Top + 1 \in Addresses \ data /\ Top + 2 \in Addresses \ data
    <3> HIDE DEF data
    <3>1. QED
      BY <2>1, TopAssumption DEF Addresses
  <2>3. QED
    BY <1>5, <2>2 DEF FramesIntact, BootIntactIn
<1>7. ASSUME NEW d \in 1..(Depth - 1) PROVE IntactIn(mem', d)
  <2>1. d \in 1..Depth /\ RetSlot(Depth) < frames[d].base /\ RetSlot(Depth) \in Nat
    <3>1. Depth \in 1..Depth /\ Depth \in Nat
      BY <1>1
    <3>2. RetSlot(Depth) < frames[d].base
      BY <3>1 DEF StackInv
    <3>3. RetSlot(Depth) \in Nat
      BY <3>1, OwnedBounds
    <3>4. QED
      BY <3>1, <3>2, <3>3
  <2>2. \A a \in data : a \in Nat /\ a < RetSlot(Depth)
    <3>1. \A j \in 1..Data(Fn(Depth)) : DataSlot(Depth, j) \in Nat /\ DataSlot(Depth, j) < RetSlot(Depth)
      BY <1>1, OwnedBounds
    <3>2. QED
      BY <3>1
  <2> HIDE DEF data
  <2>3. frames[d].base \in Nat /\ Outgoing(Fn(d)) \in Nat
    BY <2>1, OwnedBounds
  <2>4. ASSUME NEW a \in Nat, frames[d].base + Outgoing(Fn(d)) <= a, a <= RetSlot(d)
        PROVE  mem'[a] = mem[a]
    <3>1. a \in Addresses
      BY <1>1, <2>1, <2>4, OwnedAbove
    <3>2. a \notin data
      BY <2>1, <2>2, <2>3, <2>4
    <3>3. QED
      BY <1>5, <3>1, <3>2
  <2>5. mem'[RetSlot(d)] = mem[RetSlot(d)]
    BY <2>1, <2>4, OwnedBounds
  <2>6. \A a \in SavedSlots(d) : mem'[a] = mem[a]
    BY <2>1, <2>4, OwnedBounds
  <2>7. \A j \in 1..Data(Fn(d)) : mem'[DataSlot(d, j)] = mem[DataSlot(d, j)]
    BY <2>1, <2>4, OwnedBounds
  <2>8. QED
    BY <2>1, <2>5, <2>6, <2>7 DEF FramesIntact, IntactIn
<1>8. /\ mem'[RetSlot(Depth)] = Ret(Depth)
      /\ \A a \in SavedSlots(Depth) : mem'[a] = Saved(Depth, a)
      /\ \A j \in 1..Data(Fn(Depth)) : mem'[DataSlot(Depth, j)] = Slot(Depth, j)
  <2>1. RetSlot(Depth) \notin data /\ SavedSlots(Depth) \cap data = {}
    <3>1. \A j \in 1..Data(Fn(Depth)) :
            /\ DataSlot(Depth, j) \in Nat /\ DataSlot(Depth, j) < RetSlot(Depth)
            /\ DataSlot(Depth, j) \notin SavedSlots(Depth)
      BY <1>1, OwnedBounds
    <3>2. RetSlot(Depth) \in Nat
      BY <1>1, OwnedBounds
    <3>3. QED
      BY <3>1, <3>2
  <2>2. \A a \in Nat : frames[Depth].base + Outgoing(Fn(Depth)) <= a /\ a <= RetSlot(Depth)
                     => a \in Addresses
    BY <1>1, OwnedAbove
  <2>3. RetSlot(Depth) \in Addresses /\ SavedSlots(Depth) \subseteq Addresses
    BY <1>1, <2>2, OwnedBounds
  <2>4. ASSUME NEW j \in 1..Data(Fn(Depth)) PROVE mem'[DataSlot(Depth, j)] = Slot(Depth, j)
    <3>1. DataSlot(Depth, j) \in data
      OBVIOUS
    <3>2. /\ DataSlot(Depth, j) \in Addresses
          /\ j = rsp + FrameSize(Fn(Depth)) - DataSlot(Depth, j)
      BY <1>1, <2>2, OwnedBounds
    <3> HIDE DEF data
    <3>3. QED
      BY <1>3, <3>1, <3>2
  <2> HIDE DEF data
  <2>5. QED
    BY <1>1, <1>5, <2>1, <2>3, <2>4 DEF FramesIntact
<1>9. ASSUME NEW d \in 1..Depth
      PROVE  /\ mem'[RetSlot(d)] = Ret(d)
             /\ \A a \in SavedSlots(d) : mem'[a] = Saved(d, a)
             /\ frames'[d].used => \A j \in 1..Data(Fn(d)) : mem'[DataSlot(d, j)] = Slot(d, j)
  <2>1. CASE d = Depth
    BY <1>8, <2>1
  <2>2. CASE d # Depth
    <3>1. d \in 1..(Depth - 1)
      BY <1>1, <2>2
    <3>2. QED
      BY <1>4, <1>7, <3>1 DEF IntactIn
  <2>3. QED
    BY <2>1, <2>2
<1>10. boot' = "init" => mem'[Top + 1] = <<"argc">> /\ mem'[Top + 2] = <<"argv">>
  BY <1>2, <1>6 DEF BootIntactIn
<1>11. QED
  <2> HIDE DEF data
  <2>1. QED
    BY <1>2, <1>9, <1>10 DEF FramesIntact, Ret, Saved, Slot, Data

LEMMA ReturnIntact == StackInv /\ FramesIntact /\ Return => FramesIntact'
<1> SUFFICES ASSUME StackInv, FramesIntact, Return PROVE FramesIntact'
  OBVIOUS
<1>1. /\ Depth' = Depth - 1 /\ Depth \in Nat \ {0} /\ Depth \in 1..Depth
      /\ boot' = boot /\ boot \in {"init", "princeps"} /\ mem = [a \in Addresses |-> mem[a]]
  BY PopFrame DEF Return, Body, StackInv
<1>2. /\ AfterReturn = RetSlot(Depth) + 1 /\ RetSlot(Depth) \in Nat /\ RetSlot(Depth) < Top - 5
  BY <1>1, PopFrame, OwnedBounds
<1>3. \A a \in Addresses : a > RetSlot(Depth) => mem'[a] = mem[a]
  BY <1>2 DEF Return, Addresses
<1>4. ASSUME NEW d \in 1..(Depth - 1)
      PROVE  /\ mem'[RetSlot(d)'] = Ret(d)
             /\ \A a \in SavedSlots(d)' : mem'[a] = Saved(d, a)
             /\ frames'[d].used =>
                  \A j \in 1..Data(Fn(d)') : mem'[DataSlot(d, j)'] = Slot(d, j)
  <2>1. d \in 1..Depth /\ RetSlot(Depth) < frames[d].base
    BY <1>1 DEF StackInv
  <2>2. frames[d].base \in Nat /\ Outgoing(Fn(d)) \in Nat /\ frames # <<>>
    BY <2>1, OwnedBounds DEF Return, Body
  <2>3. \A a \in Nat : frames[d].base + Outgoing(Fn(d)) <= a /\ a <= RetSlot(d)
                     => mem'[a] = mem[a]
    BY <1>2, <1>3, <2>1, <2>2, OwnedAbove
  <2>4. mem'[RetSlot(d)] = mem[RetSlot(d)]
    BY <2>1, <2>3, OwnedBounds
  <2>5. \A a \in SavedSlots(d) : mem'[a] = mem[a]
    BY <2>1, <2>3, OwnedBounds
  <2>6. \A j \in 1..Data(Fn(d)) : mem'[DataSlot(d, j)] = mem[DataSlot(d, j)]
    BY <2>1, <2>3, OwnedBounds
  <2>7. /\ frames'[d] = frames[d] /\ Fn(d)' = Fn(d) /\ RetSlot(d)' = RetSlot(d)
        /\ SavedSlots(d)' = SavedSlots(d) /\ \A j : DataSlot(d, j)' = DataSlot(d, j)
    BY PopFrame
  <2>8. QED
    BY <2>1, <2>4, <2>5, <2>6, <2>7 DEF FramesIntact
<1>5. boot' = "init" => mem'[Top + 1] = <<"argc">> /\ mem'[Top + 2] = <<"argv">>
  <2>1. /\ Top + 1 \in Addresses /\ Top + 2 \in Addresses
        /\ Top + 1 > RetSlot(Depth) /\ Top + 2 > RetSlot(Depth)
    BY <1>2, TopAssumption DEF Addresses
  <2>2. QED
    BY <1>1, <1>3, <2>1 DEF FramesIntact
<1>6. QED
  BY <1>1, <1>4, <1>5 DEF FramesIntact, Ret, Saved, Slot, Data

LEMMA InPlaceIntact ==
  ASSUME StackInv, FramesIntact, (InPlace /\ ~UseData) \/ Exit \/ UNCHANGED vars
  PROVE  FramesIntact'
<1>1. /\ Depth' = Depth /\ prog' = prog
      /\ (boot' = boot \/ boot' # "init")
      /\ \A d \in 1..Depth :
           /\ Fn(d)' = Fn(d) /\ RetSlot(d)' = RetSlot(d) /\ SavedSlots(d)' = SavedSlots(d)
           /\ \A j : DataSlot(d, j)' = DataSlot(d, j)
  BY InPlaceMovesNothing, SameFrames
<1>2. \A d \in 1..Depth : frames'[d].used = frames[d].used
  <2>1. CASE ReadParams
    <3>1. frames' = [frames EXCEPT ![Depth].ready = TRUE]
      BY <2>1 DEF ReadParams
    <3>2. \A d \in 1..Depth : d \in DOMAIN frames /\ frames[d] \in FrameRecords
      BY FnFacts DEF StackInv, Depth
    <3>3. \A d \in 1..Depth :
            frames'[d] = IF d = Depth THEN [frames[d] EXCEPT !.ready = TRUE] ELSE frames[d]
      BY <3>1, <3>2
    <3>4. QED
      BY <3>2, <3>3 DEF FrameRecords
  <2>2. CASE SysHeap \/ SysFile \/ Exit \/ UNCHANGED vars
    BY <2>2 DEF SysHeap, SysFile, Exit, vars
  <2>3. CASE \E s \in 1..(IF frames = <<>> THEN 0 ELSE Len(Fn(Depth).calls)) : CallExtern(s)
    BY <2>3 DEF CallExtern
  <2>4. QED
    BY <2>1, <2>2, <2>3 DEF InPlace
<1>3. \A d \in 1..Depth :
        /\ frames'[d].used = frames[d].used
        /\ Fn(d)' = Fn(d) /\ RetSlot(d)' = RetSlot(d) /\ SavedSlots(d)' = SavedSlots(d)
        /\ \A j : DataSlot(d, j)' = DataSlot(d, j)
  BY <1>1, <1>2
<1>4. ASSUME \A d \in 1..Depth : IntactIn(mem', d), BootIntactIn(mem')
      PROVE  FramesIntact'
  <2>1. ASSUME NEW d \in 1..Depth
        PROVE  /\ mem'[RetSlot(d)'] = Ret(d)
               /\ \A a \in SavedSlots(d)' : mem'[a] = Saved(d, a)
               /\ frames'[d].used =>
                    \A j \in 1..Data(Fn(d)') : mem'[DataSlot(d, j)'] = Slot(d, j)
    <3>1. IntactIn(mem', d)
      BY <1>4
    <3>2. QED
      BY <1>3, <3>1 DEF IntactIn
  <2>2. boot' = "init" => mem'[Top + 1] = <<"argc">> /\ mem'[Top + 2] = <<"argv">>
    BY <1>1, <1>4 DEF BootIntactIn
  <2>3. QED
    BY <1>1, <2>1, <2>2 DEF FramesIntact, Ret, Saved, Slot, Data
<1>5. CASE mem' = mem
  <2>1. \A d \in 1..Depth : IntactIn(mem', d)
    BY <1>5 DEF FramesIntact, IntactIn
  <2>2. BootIntactIn(mem')
    BY <1>5 DEF FramesIntact, BootIntactIn
  <2>3. QED
    BY <1>4, <2>1, <2>2
<1>6. ASSUME frames # <<>>, \A a \in Addresses : a >= rsp + Outgoing(Fn(Depth)) => mem'[a] = mem[a]
      PROVE  FramesIntact'
  BY <1>6, <1>4, WritesBelow
<1>7. CASE ReadParams \/ Exit \/ UNCHANGED vars
  BY <1>5, <1>7 DEF ReadParams, Exit, vars
<1>8. CASE SysHeap \/ SysFile
  <2>1. frames # <<>>
    BY <1>8 DEF SysHeap, SysFile, Body
  <2>2. QED
    BY <1>6, <1>8, <2>1, SystemWritesBelow
<1>9. ASSUME NEW s \in 1..(IF frames = <<>> THEN 0 ELSE Len(Fn(Depth).calls)), CallExtern(s)
      PROVE  FramesIntact'
  <2>1. frames # <<>> /\ Depth \in 1..Depth /\ rsp = frames[Depth].base
    BY <1>9, FnFacts DEF CallExtern, Body, StackInv, Depth, Running
  <2>2. s \in DOMAIN Fn(Depth).calls
    <3>1. Fn(Depth).calls \in Seq(CallSites(Len(prog.fns)))
      BY <2>1, FnFacts DEF Fns
    <3>2. QED
      BY <1>9, <2>1, <3>1
  <2>3. Outgoing(Fn(Depth)) \in Nat /\ Outgoing(Fn(Depth)) >= 4 /\ rsp \in Nat
    BY <2>1, OwnedBounds
  <2>4. \A a \in Addresses : a >= rsp + Outgoing(Fn(Depth)) =>
          mem'[a] = PassArgs(mem, rsp, s, Fn(Depth).calls[s])[a]
    <3> DEFINE m == PassArgs(mem, rsp, s, Fn(Depth).calls[s])
    <3>1. mem' = [a \in Addresses |-> IF a < rsp + Shadow THEN Junk ELSE m[a]]
      BY <1>9 DEF CallExtern, AfterExtern
    <3> HIDE DEF m
    <3>2. \A a \in Addresses : a >= rsp + Outgoing(Fn(Depth)) => mem'[a] = m[a]
      BY <2>3, <3>1 DEF Shadow, Addresses
    <3>3. QED
      BY <3>2 DEF m
  <2>5. QED
    BY <1>6, <2>1, <2>2, <2>4, CallWritesBelow
<1>10. QED
  BY <1>7, <1>8, <1>9 DEF InPlace

LEMMA NextFramesIntact == StackInv /\ FramesIntact /\ [Next]_vars => FramesIntact'
<1> SUFFICES ASSUME StackInv, FramesIntact, [Next]_vars PROVE FramesIntact'
  OBVIOUS
<1>1. CASE BootInit \/ BootPrinceps
  BY <1>1, BootIntact
<1>2. ASSUME NEW s \in 1..(IF frames = <<>> THEN 0 ELSE Len(Fn(Depth).calls)), CallFn(s)
      PROVE  FramesIntact'
  BY <1>2, CallFnIntact
<1>3. CASE UseData
  BY <1>3, UseDataIntact
<1>4. CASE Return
  BY <1>4, ReturnIntact
<1>5. CASE (InPlace /\ ~UseData) \/ Exit \/ UNCHANGED vars
  BY <1>5, InPlaceIntact
<1>6. QED
  BY <1>1, <1>2, <1>3, <1>4, <1>5 DEF Next, InPlace

(* Nobody ever writes into what an active frame owns, for every program    *)
(* and every depth of calls (the frame layout of x86_mir_build, the        *)
(* arguments of calls, the stub).                                          *)
THEOREM NobodyWritesAnothersFrame == Spec => []FramesIntact
<1>1. Init => FramesIntact
  <2>1. Init => Depth = 0 /\ boot = "entry"
    BY DEF Init, Depth
  <2>2. QED
    BY <2>1 DEF FramesIntact
<1>2. StackInv /\ FramesIntact /\ [Next]_vars => FramesIntact'
  BY NextFramesIntact
<1>3. QED
  BY FramesTile, <1>1, <1>2, PTL DEF Spec

-----------------------------------------------------------------------------
(* Readers find what was put there for them.                               *)

(* The outgoing area of the running body lies on the stack.                *)
LEMMA RoomAbove ==
  ASSUME StackInv, frames # <<>>
  PROVE  /\ Depth \in 1..Depth /\ rsp \in Nat /\ Top \in Nat
         /\ rsp + Outgoing(Fn(Depth)) < Top /\ rsp + 4 < Top - 5
<1>1. Depth \in 1..Depth /\ rsp = frames[Depth].base
  BY FnFacts DEF StackInv, Depth, Running
<1> DEFINE o == Outgoing(Fn(Depth))
           r == RetSlot(Depth)
<1>2. rsp \in Nat /\ o \in Nat /\ o >= 4 /\ r \in Nat /\ r < Top - 5 /\ rsp + o <= r
  BY <1>1, OwnedBounds
<1>3. Top \in Nat
  BY TopAssumption
<1> HIDE DEF o, r
<1>4. rsp + o < Top /\ rsp + 4 < Top - 5
  BY <1>2, <1>3
<1>5. QED
  BY <1>1, <1>2, <1>3, <1>4 DEF o

(* The callee looks for its stack arguments where the caller put them.     *)
LEMMA CallFnPassesArgs ==
  ASSUME StackInv, ArgsInv,
         NEW s \in 1..(IF frames = <<>> THEN 0 ELSE Len(Fn(Depth).calls)), CallFn(s)
  PROVE  ArgsInv'
<1> DEFINE c == Fn(Depth).calls[s]
           m == PassArgs(mem, rsp, s, c)
           regs == MaxRegArgs(c.callee)
           P == prog.fns[c.callee].params
           N == c.nargs
<1>1. /\ frames # <<>> /\ s \in DOMAIN Fn(Depth).calls /\ s \in Nat
      /\ c.callee \in DOMAIN prog.fns /\ NewFrame(c.callee, s, m, rsp)
      /\ rsp \in Nat /\ rsp % 2 = 0 /\ prog' = prog /\ boot' = boot
      /\ Top >= 5 /\ rsp = CallerRsp(Depth + 1) /\ boot' \in {"init", "princeps"}
      /\ Depth \in 1..Depth /\ Depth \in Nat /\ rsp = frames[Depth].base
      /\ Fn(Depth) \in Fns(Len(prog.fns)) /\ Len(prog.fns) \in Nat
  <2> HIDE DEF m
  <2>1. /\ frames # <<>> /\ Depth \in Nat /\ Depth \in 1..Depth /\ s \in DOMAIN Fn(Depth).calls
        /\ c.callee \in DOMAIN prog.fns /\ rsp = frames[Depth].base /\ rsp \in Nat /\ rsp % 2 = 0
        /\ prog' = prog /\ boot' = boot /\ Top >= 5 /\ rsp = CallerRsp(Depth + 1)
    BY CallFnPushes DEF Running
  <2>2. NewFrame(c.callee, s, m, rsp)
    BY CallFnPushes DEF m
  <2>3. boot \in {"init", "princeps"} /\ s \in Nat
    BY <2>1 DEF StackInv
  <2>4. Fn(Depth) \in Fns(Len(prog.fns)) /\ Len(prog.fns) \in Nat
    BY <2>1, FnFacts
  <2>5. QED
    BY <2>1, <2>2, <2>3, <2>4
<1>2. PICK D \in Nat : D = Depth + 1
  BY <1>1
<1>3. /\ Depth' = D /\ \A d \in 1..Depth : frames'[d] = frames[d]
      /\ frames'[D] = [fn |-> c.callee, site |-> s, base |-> rsp', ready |-> FALSE, used |-> FALSE]
      /\ RetSlot(D)' = rsp - 1
  <2> HIDE DEF m, c
  <2>1. QED
    BY <1>1, <1>2, PushFrame
<1>4. \A a \in Addresses : a >= rsp => mem'[a] = m[a]
  <2> HIDE DEF m, c
  <2>1. QED
    BY <1>1, <1>2, PushWrites
<1>5. \A d \in 1..(D - 1) : frames'[d].ready
  <2>1. Running.ready
    BY DEF CallFn, Body
  <2>2. frames[Depth].ready
    BY <2>1 DEF Running
  <2>3. \A d \in 1..(D - 1) : d \in 1..Depth /\ (d # Depth => d \in 1..(Depth - 1))
    BY <1>1, <1>2
  <2>4. QED
    BY <1>3, <2>2, <2>3 DEF ArgsInv
<1>6. /\ c.nargs \in Nat /\ 4 + c.nargs <= Outgoing(Fn(Depth)) /\ Outgoing(Fn(Depth)) \in Nat
  <2>1. c \in CallSites(Len(prog.fns))
    BY <1>1, CallFnPushes
  <2>2. QED
    BY <1>1, <2>1, OutgoingCovers DEF CallSites
<1>7. rsp \in Nat /\ Top \in Nat /\ N \in Nat /\ rsp + N < Top
  <2> DEFINE O == Outgoing(Fn(Depth))
  <2>1. rsp + O < Top /\ rsp \in Nat /\ Top \in Nat
    BY <1>1, RoomAbove
  <2>2. N \in Nat /\ 4 + N <= O /\ O \in Nat
    BY <1>6
  <2> HIDE DEF N, O
  <2>3. QED
    BY <2>1, <2>2
<1>8. c.callee # Extern
  BY DEF CallFn
<1>9. regs = (IF prog.opt < 2 THEN 4 ELSE 6) /\ P \in Nat
  BY <1>1, <1>8, FrameFacts, FnFacts DEF MaxRegArgs
<1>10. ASSUME Tame, NEW k \in regs..(P - 1)
       PROVE  mem'[rsp + k - regs] = ArgOf(Depth, s, k)
  <2>1. Fn(Depth) = prog.fns[frames[Depth].fn] /\ frames[Depth].fn \in DOMAIN prog.fns
    BY <1>1 DEF Fn, StackInv
  <2>2. P <= c.nargs
    BY <1>1, <1>8, <1>10, <2>1 DEF Tame
  <2>3. prog.opt >= 2 \/ P <= 4
    BY <1>1, <1>10 DEF Tame
  <2>4. prog.opt \in 0..3
    BY ProgramsAssumption DEF StackInv, IsProgram
  <2>5. regs = 6 /\ prog.opt >= 2
    <3> HIDE DEF P, regs, c, m
    <3>1. regs = IF prog.opt < 2 THEN 4 ELSE 6
      BY <1>9
    <3>2. regs <= P - 1 /\ P \in Nat
      BY <1>9, <1>10, <3>1
    <3>3. QED
      BY <2>3, <2>4, <3>1, <3>2
  <2>6. \A i : ArgSlot(c.callee, i) = 0 + i - 6
    BY <1>8, <2>4, <2>5 DEF ArgSlot, MaxRegArgs
  <2> DEFINE stack  == IF N > regs THEN N - regs ELSE 0
             staged == IF N - stack >= 3 THEN N - stack ELSE 0
             a      == rsp + k - regs
  <2>7. m[a] = IF a \in {rsp + Shadow + stack + i : i \in 0..(staged - 1)}
               THEN ArgOf(Depth, s, a - rsp - Shadow - stack)
               ELSE IF a \in {rsp + ArgSlot(c.callee, i) : i \in regs..(N - 1)}
               THEN ArgOf(Depth, s, a - rsp - ArgSlot(c.callee, 0))
               ELSE mem[a]
    <3>1. a \in Addresses
      <4> HIDE DEF c, N, P
      <4>1. k \in Nat /\ 6 <= k /\ k < N /\ N \in Nat
        BY <1>6, <1>9, <1>10, <2>2, <2>5 DEF N
      <4> HIDE DEF regs, m
      <4>2. QED
        BY <1>7, <2>5, <4>1 DEF Addresses
    <3>2. QED
      BY <3>1 DEF PassArgs
  <2> HIDE DEF c, N, P, regs, m
  <2>8. k \in Nat /\ 6 <= k /\ k < N /\ N \in Nat
    BY <1>6, <1>9, <1>10, <2>2, <2>5 DEF N
  <2>9. a = rsp + k - 6 /\ a \in Nat /\ a >= rsp /\ stack = N - 6 /\ a < rsp + stack
    BY <1>7, <2>5, <2>8
  <2>10. a \notin {rsp + Shadow + stack + i : i \in 0..(staged - 1)}
    <3> HIDE DEF stack, staged, a
    <3>1. stack \in Nat
      BY <2>8, <2>9 DEF stack
    <3>2. QED
      BY <1>7, <2>9, <3>1 DEF Shadow
  <2>11. a \in {rsp + ArgSlot(c.callee, i) : i \in regs..(N - 1)}
    <3>1. k \in regs..(N - 1)
      BY <2>5, <2>8
    <3>2. a = rsp + ArgSlot(c.callee, k)
      BY <1>7, <2>6, <2>8, <2>9
    <3> HIDE DEF a
    <3>3. QED
      BY <3>1, <3>2
  <2>12. a - rsp - ArgSlot(c.callee, 0) = k
    BY <1>7, <2>6, <2>8, <2>9
  <2>13. m[a] = ArgOf(Depth, s, k)
    <3> HIDE DEF a, stack, staged
    <3>1. QED
      BY <2>7, <2>10, <2>11, <2>12
  <2>14. a \in Addresses
    BY <1>7, <2>8, <2>9 DEF Addresses
  <2>15. QED
    BY <1>4, <2>9, <2>13, <2>14
<1>11. Tame' => Tame
  BY <1>1 DEF Tame
<1>12. PICK g \in DOMAIN prog.fns : g = c.callee
  BY <1>1
<1>13. /\ Running' = frames'[D] /\ Running'.fn = g /\ Running'.site = s
       /\ Fn(D)' = prog.fns[g] /\ MaxRegArgs(g)' = regs
  <2>1. Running' = frames'[D]
    BY <1>3 DEF Running
  <2>2. Fn(D)' = prog.fns[g]
    <3>1. frames'[D].fn = g
      <4> HIDE DEF c
      <4>1. QED
        BY <1>3, <1>12
    <3>2. prog' = prog
      BY <1>1
    <3> HIDE DEF c
    <3>3. QED
      BY <3>1, <3>2 DEF Fn
  <2>3. MaxRegArgs(g)' = regs
    BY <1>1, <1>12 DEF MaxRegArgs
  <2>4. QED
    BY <1>3, <1>12, <2>1, <2>2, <2>3
<1>14. ASSUME NEW k \in Int PROVE ParamSlot(D, k)' = rsp + k - regs
  <2> DEFINE f == prog.fns[g]
             b == frames'[D].base
  <2>1. f \in Fns(Len(prog.fns)) /\ Len(prog.fns) \in Nat
    BY <1>12, FnFacts
  <2>2. FrameSize(f) \in Nat /\ f.pushes \in 0..7
    BY <2>1, FrameFacts
  <2>3. rsp' = rsp - 1 - f.pushes - FrameSize(f) /\ b = rsp'
    <3> HIDE DEF c, m
    <3>1. NewFrame(g, s, m, rsp)
      BY <1>1, <1>12
    <3>2. rsp' = rsp - 1 - f.pushes - FrameSize(f)
      BY <3>1 DEF NewFrame
    <3>3. b = rsp'
      BY <1>3
    <3>4. QED
      BY <3>2, <3>3
  <2>4. ParamSlot(D, k)' = b + 1 + FrameSize(f) + f.pushes + k - regs
    <3>1. ParamSlot(D, k)' = b + 1 + FrameSize(Fn(D)') + Fn(D)'.pushes + k - MaxRegArgs(frames[D].fn)'
      BY DEF ParamSlot, FrameSize, Data, Outgoing, CallNeeds, SysNeeds
    <3>2. MaxRegArgs(frames[D].fn)' = regs
      BY <1>1, <1>3, <1>12 DEF MaxRegArgs
    <3>3. QED
      BY <1>13, <3>1, <3>2
  <2>5. regs \in Int
    BY <1>9
  <2> DEFINE p  == f.pushes
             sz == FrameSize(f)
  <2>6. p \in Nat /\ sz \in Nat /\ b = rsp - 1 - p - sz
    BY <2>2, <2>3
  <2>7. rsp \in Nat
    BY <1>1
  <2> HIDE DEF f, b, p, sz, regs, c, m
  <2>8. b + 1 + sz + p + k - regs = rsp + k - regs
    <3>1. b + 1 + sz + p = rsp
      BY <2>6, <2>7
    <3>2. QED
      BY <3>1
  <2>9. QED
    BY <2>4, <2>8 DEF p, sz
<1>15. ASSUME Tame', NEW k \in MaxRegArgs(Running.fn)'..(Fn(Depth)'.params - 1)
       PROVE  mem'[ParamSlot(Depth, k)'] = ArgOf(Depth - 1, Running.site, k)'
  <2>1. k \in regs..(P - 1) /\ k \in Int
    BY <1>3, <1>9, <1>12, <1>13, <1>15 DEF MaxRegArgs
  <2>2. mem'[rsp + k - regs] = ArgOf(Depth, s, k)
    BY <1>10, <1>11, <1>15, <2>1
  <2>3. ParamSlot(Depth, k)' = rsp + k - regs
    BY <1>3, <1>14, <2>1
  <2>4. (Depth - 1)' = Depth
    BY <1>1, <1>2, <1>3
  <2>5. QED
    BY <1>13, <2>2, <2>3, <2>4 DEF ArgOf
<1>16. QED
  BY <1>2, <1>3, <1>5, <1>15 DEF ArgsInv

(* Nothing is owed to a function that has read its parameters or that the  *)
(* stub called.                                                            *)
LEMMA NothingOwed ==
  ASSUME Depth' \in Nat, \A d \in 1..(Depth' - 1) : frames'[d].ready,
         Depth' > 0 => frames'[Depth'].ready \/ frames'[Depth'].site = 0
  PROVE  ArgsInv'
<1>1. CASE Depth' > 0
  <2>1. Running' = frames'[Depth']
    BY DEF Running
  <2>2. Running.ready' \/ Running.site' = 0
    BY <1>1, <2>1
  <2>3. QED
    BY <2>2 DEF ArgsInv
<1>2. CASE ~(Depth' > 0)
  <2>1. frames' = <<>> \/ frames' # <<>>
    OBVIOUS
  <2>2. QED
    BY <1>2 DEF ArgsInv, Depth
<1>3. QED
  BY <1>1, <1>2

LEMMA InitArgsInv == Init => ArgsInv
  BY DEF Init, ArgsInv, Depth

LEMMA NextArgsInv == StackInv /\ ArgsInv /\ [Next]_vars => ArgsInv'
<1> SUFFICES ASSUME StackInv, ArgsInv, [Next]_vars PROVE ArgsInv'
  OBVIOUS
<1>1. CASE BootInit
  <2>1. 1 = Depth + 1 /\ InitFn \in DOMAIN prog.fns /\ 0 \in Nat /\ boot' \in {"init", "princeps"}
    BY <1>1, BootInitPushes, FnFacts
  <2> DEFINE m == Write(Write(mem, Top + 1, <<"argc">>), Top + 2, <<"argv">>)
  <2>2. NewFrame(InitFn, 0, m, Top - 5)
    BY <1>1, BootInitPushes
  <2> HIDE DEF m
  <2>3. /\ Depth' = 1
        /\ frames'[1] = [fn |-> InitFn, site |-> 0, base |-> rsp', ready |-> FALSE, used |-> FALSE]
    BY <1>1, <2>1, <2>2, BootInitPushes, PushFrame
  <2>4. Depth' = 1 /\ frames'[1].site = 0 /\ 1..(1 - 1) = {} /\ frames'[Depth'].site = 0
    BY <2>3
  <2>5. QED
    BY <2>4, NothingOwed
<1>2. CASE BootPrinceps
  <2>1. 1 = Depth + 1 /\ Princeps \in DOMAIN prog.fns /\ 0 \in Nat /\ boot' \in {"init", "princeps"}
    BY <1>2, BootPrincepsPushes, FnFacts
  <2>2. /\ Depth' = 1
        /\ frames'[1] = [fn |-> Princeps, site |-> 0, base |-> rsp', ready |-> FALSE, used |-> FALSE]
    BY <1>2, <2>1, BootPrincepsPushes, PushFrame
  <2>3. Depth' = 1 /\ frames'[1].site = 0 /\ 1..(1 - 1) = {} /\ frames'[Depth'].site = 0
    BY <2>2
  <2>4. QED
    BY <2>3, NothingOwed
<1>3. ASSUME NEW s \in 1..(IF frames = <<>> THEN 0 ELSE Len(Fn(Depth).calls)), CallFn(s)
      PROVE  ArgsInv'
  BY <1>3, CallFnPassesArgs
<1>4. CASE Return
  <2>1. Depth \in Nat \ {0} /\ Depth' = Depth - 1
    BY <1>4, PopFrame
  <2>2. \A d \in 1..(Depth - 1) : frames'[d] = frames[d] /\ frames[d].ready
    BY <1>4, PopFrame DEF ArgsInv
  <2>3. \A d \in 1..Depth' : frames'[d].ready
    BY <2>1, <2>2
  <2>4. /\ Depth' \in Nat /\ \A d \in 1..(Depth' - 1) : d \in 1..Depth'
        /\ Depth' > 0 => Depth' \in 1..Depth'
    BY <2>1
  <2>5. QED
    BY <2>3, <2>4, NothingOwed
<1>5. CASE ReadParams
  <2>1. frames' = [frames EXCEPT ![Depth].ready = TRUE] /\ frames # <<>>
    BY <1>5 DEF ReadParams
  <2>2. Depth' = Depth /\ Depth \in Nat
    BY <1>5, FnFacts, InPlaceMovesNothing, SameFrames DEF InPlace
  <2>3. \A d \in 1..Depth : d \in DOMAIN frames /\ frames[d] \in FrameRecords
    BY FnFacts DEF StackInv, Depth
  <2>4. \A d \in 1..Depth : frames'[d] = IF d = Depth THEN [frames[d] EXCEPT !.ready = TRUE]
                                         ELSE frames[d]
    BY <2>1, <2>3
  <2>5. ASSUME NEW d \in 1..Depth PROVE frames'[d].ready
    <3>1. CASE d = Depth
      BY <2>3, <2>4, <3>1 DEF FrameRecords
    <3>2. CASE d # Depth
      <4>1. d \in 1..(Depth - 1)
        BY <2>2, <3>2
      <4>2. QED
        BY <2>4, <3>2, <4>1 DEF ArgsInv
    <3>3. QED
      BY <3>1, <3>2
  <2>6. \A d \in 1..(Depth - 1) : d \in 1..Depth
    BY <2>2
  <2>7. QED
    BY <2>2, <2>5, <2>6, NothingOwed
<1>6. CASE UseData
  <2>1. frames' = [frames EXCEPT ![Depth].used = TRUE] /\ frames # <<>> /\ Running.ready
    BY <1>6 DEF UseData, Body
  <2>2. Depth' = Depth /\ Depth \in Nat
    BY <1>6, FnFacts, InPlaceMovesNothing, SameFrames DEF InPlace
  <2>3. \A d \in 1..Depth : d \in DOMAIN frames /\ frames[d] \in FrameRecords
    BY FnFacts DEF StackInv, Depth
  <2>4. \A d \in 1..Depth : frames'[d] = IF d = Depth THEN [frames[d] EXCEPT !.used = TRUE]
                                         ELSE frames[d]
    BY <2>1, <2>3
  <2>5. \A d \in 1..Depth : frames'[d].ready
    BY <2>1, <2>2, <2>3, <2>4 DEF ArgsInv, FrameRecords, Running
  <2>6. QED
    BY <2>2, <2>5, NothingOwed
<1>7. CASE SysHeap \/ SysFile \/ \E s \in 1..(IF frames = <<>> THEN 0 ELSE Len(Fn(Depth).calls)) :
                                   CallExtern(s)
  <2>1. frames' = frames /\ Running.ready
    BY <1>7 DEF SysHeap, SysFile, CallExtern, Body
  <2>2. Depth' = Depth /\ Depth \in Nat /\ frames[Depth].ready
    BY <2>1, FnFacts DEF Depth, Running
  <2>3. QED
    BY <2>1, <2>2, NothingOwed DEF ArgsInv
<1>8. CASE Exit
  <2>1. Depth' = 0 /\ 1..(0 - 1) = {}
    BY <1>8 DEF Exit, Depth
  <2>2. QED
    BY <2>1, NothingOwed
<1>9. CASE UNCHANGED vars
  <2>1. frames' = frames /\ mem' = mem /\ prog' = prog
    BY <1>9 DEF vars
  <2>2. Depth' = Depth /\ Running' = Running
    BY <2>1 DEF Depth, Running
  <2>3. Fn(Depth)' = Fn(Depth) /\ (Tame' => Tame)
    BY <2>1 DEF Fn, Depth, Tame
  <2>4. MaxRegArgs(Running.fn)' = MaxRegArgs(Running.fn)
    BY <2>1 DEF MaxRegArgs, Running, Depth
  <2>5. \A k : ParamSlot(Depth, k)' = ParamSlot(Depth, k)
    BY <2>1 DEF ParamSlot, MaxRegArgs, Fn, Depth
  <2>6. \A k : ArgOf(Depth - 1, Running.site, k)' = ArgOf(Depth - 1, Running.site, k)
    BY <2>2 DEF ArgOf
  <2>7. QED
    BY <2>1, <2>2, <2>3, <2>4, <2>5, <2>6 DEF ArgsInv
<1>10. QED
  BY <1>1, <1>2, <1>3, <1>4, <1>5, <1>6, <1>7, <1>8, <1>9 DEF Next

(* A body's own system calls find their operands above the shadow space.   *)
LEMMA SystemFinds ==
  ASSUME StackInv, SysHeap \/ SysFile
  PROVE  got' = want'
<1>1. Depth \in 1..Depth /\ rsp \in Nat
  BY RoomAbove DEF SysHeap, SysFile, Body
<1>2. rsp + 4 < Top - 5 /\ Top \in Nat
  BY RoomAbove DEF SysHeap, SysFile, Body
<1>3. /\ rsp + 4 \in Addresses /\ rsp + 5 \in Addresses /\ rsp + 6 \in Addresses
      /\ ~(rsp + 4 < rsp + Shadow) /\ ~(rsp + 5 < rsp + Shadow) /\ ~(rsp + 6 < rsp + Shadow)
      /\ rsp + 4 # rsp + 5 /\ rsp + 4 # rsp + 6 /\ rsp + 5 # rsp + 6
  <2>1. rsp \in Nat /\ rsp + 4 < Top - 5 /\ Top \in Nat
    BY <1>1, <1>2
  <2>2. QED
    BY <2>1 DEF Addresses, Shadow
<1>4. CASE SysHeap
  <2> DEFINE m0 == Write(mem, rsp + 4, <<"operand">>)
             m1 == AfterExtern(m0, rsp)
  <2>1. m0[rsp + 4] = <<"operand">>
    BY <1>3 DEF Write, StackInv
  <2>2. m1[rsp + 4] = m0[rsp + 4]
    BY <1>3 DEF AfterExtern
  <2>3. got' = <<m1[rsp + 4]>> /\ want' = <<<<"operand">>>>
    BY <1>4 DEF SysHeap
  <2> HIDE DEF m0, m1
  <2>4. QED
    BY <2>1, <2>2, <2>3
<1>5. CASE SysFile
  <2> DEFINE m0 == Write(Write(mem, rsp + 4, <<"buffer">>), rsp + 5, <<"length">>)
             m1 == AfterExtern(m0, rsp)
             m2 == Write(Write(m1, rsp + 6, <<"zero">>), rsp + 4, <<"zero">>)
             m3 == Write(AfterExtern(m2, rsp), rsp + 6, <<"count">>)
  <2>1. m0[rsp + 4] = <<"buffer">> /\ m0[rsp + 5] = <<"length">>
    BY <1>3 DEF Write, StackInv
  <2>2. m1[rsp + 4] = m0[rsp + 4] /\ m1[rsp + 5] = m0[rsp + 5] /\ DOMAIN m1 = Addresses
        /\ m1 = [a \in Addresses |-> m1[a]]
    <3> HIDE DEF m0
    <3>1. QED
      BY <1>3 DEF AfterExtern
  <2>3. m2[rsp + 4] = <<"zero">>
    <3> HIDE DEF m1
    <3>1. QED
      BY <1>3, <2>2 DEF Write
  <2>4. m3[rsp + 6] = <<"count">>
    <3> HIDE DEF m2
    <3>1. AfterExtern(m2, rsp) = [a \in Addresses |-> IF a < rsp + Shadow THEN Junk ELSE m2[a]]
      BY DEF AfterExtern
    <3>2. QED
      BY <1>3, <3>1 DEF Write
  <2>5. /\ got' = <<m1[rsp + 4], m1[rsp + 5], m2[rsp + 4], m3[rsp + 6]>>
        /\ want' = <<<<"buffer">>, <<"length">>, <<"zero">>, <<"count">>>>
    BY <1>5 DEF SysFile
  <2> HIDE DEF m0, m1, m2, m3
  <2>6. QED
    BY <2>1, <2>2, <2>3, <2>4, <2>5
<1>6. QED
  BY <1>4, <1>5

(* An extern finds its fifth and later arguments above its shadow space.   *)
LEMMA ExternFinds ==
  ASSUME StackInv, NEW s \in 1..(IF frames = <<>> THEN 0 ELSE Len(Fn(Depth).calls)), CallExtern(s)
  PROVE  got' = want'
<1> DEFINE c == Fn(Depth).calls[s]
           m == PassArgs(mem, rsp, s, c)
           N == c.nargs
<1>1. frames # <<>> /\ Depth \in 1..Depth /\ rsp \in Nat
  BY RoomAbove DEF CallExtern, Body
<1>2. Fn(Depth).calls \in Seq(CallSites(Len(prog.fns))) /\ Len(prog.fns) \in Nat
      /\ Fn(Depth) \in Fns(Len(prog.fns))
  BY <1>1, FnFacts DEF Fns
<1>3. s \in DOMAIN Fn(Depth).calls /\ c \in CallSites(Len(prog.fns))
  BY <1>1, <1>2
<1>4. N \in Nat /\ 4 + N <= Outgoing(Fn(Depth)) /\ Outgoing(Fn(Depth)) \in Nat
  BY <1>2, <1>3, OutgoingCovers DEF CallSites
<1>5. rsp + N < Top /\ Top \in Nat
  <2> DEFINE O == Outgoing(Fn(Depth))
  <2>1. rsp \in Nat /\ rsp + O < Top /\ Top \in Nat /\ N \in Nat /\ 4 + N <= O /\ O \in Nat
    BY <1>1, <1>4, RoomAbove
  <2> HIDE DEF N, O
  <2>2. QED
    BY <2>1
<1>6. c.callee = Extern /\ got' = [k \in 4..(N - 1) |-> m[rsp + k]]
      /\ want' = [k \in 4..(N - 1) |-> ArgOf(Depth, s, k)]
  BY DEF CallExtern
<1>7. MaxRegArgs(c.callee) = 4 /\ \A k : ArgSlot(c.callee, k) = Shadow + k - 4
  BY <1>6 DEF MaxRegArgs, ArgSlot
<1>8. ASSUME NEW k \in 4..(N - 1) PROVE m[rsp + k] = ArgOf(Depth, s, k)
  <2> DEFINE stack  == IF N > 4 THEN N - 4 ELSE 0
             staged == IF N - stack >= 3 THEN N - stack ELSE 0
             a      == rsp + k
  <2>1. k \in Nat /\ 4 <= k /\ k < N /\ a \in Nat /\ a \in Addresses
    <3> HIDE DEF c, N, m
    <3>1. k \in Nat /\ 4 <= k /\ k < N /\ N \in Nat /\ rsp \in Nat
      BY <1>1, <1>4
    <3>2. QED
      BY <1>5, <3>1 DEF Addresses
  <2>2. m[a] = IF a \in {rsp + Shadow + stack + i : i \in 0..(staged - 1)}
               THEN ArgOf(Depth, s, a - rsp - Shadow - stack)
               ELSE IF a \in {rsp + ArgSlot(c.callee, i) : i \in 4..(N - 1)}
               THEN ArgOf(Depth, s, a - rsp - ArgSlot(c.callee, 0))
               ELSE mem[a]
    BY <1>7, <2>1 DEF PassArgs
  <2> HIDE DEF c, N, m
  <2>3. stack = N - 4 /\ a < rsp + Shadow + stack /\ stack \in Nat
    BY <1>1, <1>4, <2>1 DEF Shadow
  <2>4. a \notin {rsp + Shadow + stack + i : i \in 0..(staged - 1)}
    <3> HIDE DEF stack, staged, a
    <3>1. QED
      BY <1>1, <2>1, <2>3 DEF Shadow
  <2>5. a = rsp + ArgSlot(c.callee, k) /\ a - rsp - ArgSlot(c.callee, 0) = k
    BY <1>1, <1>7, <2>1 DEF Shadow
  <2>6. a \in {rsp + ArgSlot(c.callee, i) : i \in 4..(N - 1)}
    <3> HIDE DEF a
    <3>1. QED
      BY <2>5
  <2>7. QED
    <3> HIDE DEF a, stack, staged
    <3>1. m[a] = ArgOf(Depth, s, k)
      BY <2>2, <2>4, <2>5, <2>6
    <3>2. QED
      BY <3>1 DEF a
<1>9. QED
  <2> HIDE DEF c, N, m
  <2>1. QED
    BY <1>6, <1>8

LEMMA NextReaders ==
  StackInv /\ FramesIntact /\ ArgsInv /\ (Tame => ReadersFindTheirs) /\ [Next]_vars
    => (Tame => ReadersFindTheirs)'
<1> SUFFICES ASSUME StackInv, FramesIntact, ArgsInv, Tame => ReadersFindTheirs, [Next]_vars, Tame'
             PROVE  got' = want'
  BY DEF ReadersFindTheirs
<1>1. prog' = prog
  BY DEF Next, vars, BootInit, BootPrinceps, Exit, ReadParams, UseData, SysHeap, SysFile,
         Return, CallFn, CallExtern
<1>2. Tame /\ got = want
  BY <1>1 DEF Tame, ReadersFindTheirs
<1>3. CASE UNCHANGED <<got, want>>
  BY <1>2, <1>3
<1>4. CASE BootPrinceps
  <2>1. rsp = Top - 5 /\ Top >= 5 /\ boot = "init" /\ Top \in Nat
    BY <1>4, BootPrincepsPushes, TopAssumption DEF BootPrinceps
  <2>2. rsp + 6 = Top + 1 /\ rsp + 7 = Top + 2
    BY <2>1
  <2>3. mem[rsp + 6] = <<"argc">> /\ mem[rsp + 7] = <<"argv">>
    BY <2>1, <2>2 DEF FramesIntact
  <2>4. QED
    BY <1>4, <2>3 DEF BootPrinceps
<1>5. CASE ReadParams
  <2>1. CASE Running.site = 0
    BY <1>3, <1>5, <2>1 DEF ReadParams
  <2>2. CASE Running.site # 0
    <3> DEFINE stack == MaxRegArgs(Running.fn)..(Fn(Depth).params - 1)
    <3>1. \A k \in stack : mem[ParamSlot(Depth, k)] = ArgOf(Depth - 1, Running.site, k)
      BY <1>2, <1>5, <2>2 DEF ArgsInv, ReadParams
    <3>2. got' = [k \in stack |-> mem[ParamSlot(Depth, k)]]
          /\ want' = [k \in stack |-> ArgOf(Depth - 1, Running.site, k)]
      BY <1>5, <2>2 DEF ReadParams
    <3> HIDE DEF stack
    <3>3. QED
      BY <3>1, <3>2
  <2>3. QED
    BY <2>1, <2>2
<1>6. CASE Return
  <2> DEFINE owned == SavedSlots(Depth) \cup {RetSlot(Depth)}
  <2>1. Depth \in 1..Depth
    BY <1>6, PopFrame
  <2>2. mem[RetSlot(Depth)] = Ret(Depth) /\ \A a \in SavedSlots(Depth) : mem[a] = Saved(Depth, a)
    BY <2>1 DEF FramesIntact
  <2>3. /\ got' = [a \in owned |-> mem[a]]
        /\ want' = [a \in owned |-> IF a = RetSlot(Depth) THEN Ret(Depth) ELSE Saved(Depth, a)]
    BY <1>6 DEF Return
  <2>4. \A a \in owned : mem[a] = IF a = RetSlot(Depth) THEN Ret(Depth) ELSE Saved(Depth, a)
    BY <2>2
  <2> HIDE DEF owned
  <2>5. QED
    BY <2>3, <2>4
<1>7. CASE SysHeap \/ SysFile
  BY <1>7, SystemFinds
<1>8. ASSUME NEW s \in 1..(IF frames = <<>> THEN 0 ELSE Len(Fn(Depth).calls)), CallExtern(s)
      PROVE  got' = want'
  BY <1>8, ExternFinds
<1>9. CASE \/ BootInit \/ Exit \/ UseData \/ UNCHANGED vars
           \/ \E s \in 1..(IF frames = <<>> THEN 0 ELSE Len(Fn(Depth).calls)) : CallFn(s)
  BY <1>3, <1>9 DEF BootInit, Exit, UseData, vars, CallFn
<1>10. QED
  BY <1>4, <1>5, <1>6, <1>7, <1>8, <1>9 DEF Next

(* In every program compiled at -O2 or -O3, and in every program whose     *)
(* functions have no more than four parameters, whoever reads the stack    *)
(* finds what was put there for it (SIR_CALL, SIR_GET_PARAM, the system    *)
(* calls, the epilogue and the stub).                                      *)
THEOREM ArgumentsArrive == Spec => [](Tame => ReadersFindTheirs)
<1>1. Init => (Tame => ReadersFindTheirs)
  BY DEF Init, ReadersFindTheirs
<1> DEFINE R == Tame => ReadersFindTheirs
<1>2. StackInv /\ FramesIntact /\ ArgsInv /\ R /\ [Next]_vars => R'
  BY NextReaders
<1>3. StackInv /\ ArgsInv /\ [Next]_vars => ArgsInv'
  BY NextArgsInv
<1>4. Init => ArgsInv
  BY InitArgsInv
<1>5. QED
  BY FramesTile, NobodyWritesAnothersFrame, <1>1, <1>2, <1>3, <1>4, PTL DEF Spec
=============================================================================
