---------------------------- MODULE RALocal_proofs ----------------------------
(***************************************************************************)
(* Theorems about the local register allocator, for every architecture,    *)
(* every number of virtual registers and every program.                    *)
(***************************************************************************)
EXTENDS RALocal, NatSetTheorems

-------------------------------------------------------------------------------
(* Machines *)

\* A virtual register that is in no register
Away(x, w) == \A r \in DOMAIN x.at : x.at[r] # w

Injective(at) == \A r, q \in DOMAIN at : at[r] = at[q] => r = q \/ at[r] = None

Machines(R) ==
  [at : [R -> Works \cup {None}], dirty : SUBSET R, regs : [R -> Works \cup {None}],
   slots : SUBSET Works, ok : BOOLEAN]

\* The assignment and its inverse agree, and only what is assigned is dirty.
Sound(x, R) == x \in Machines(R) /\ x.dirty \subseteq Assigned(x) /\ Injective(x.at)

\* The values of alive are where the assignment says.
Kept(x, alive) ==
  /\ \A r \in DOMAIN x.at :
       x.at[r] \in alive => x.regs[r] = x.at[r] /\ (r \in x.dirty \/ x.at[r] \in x.slots)
  /\ \A w \in alive : Away(x, w) => w \in x.slots

\* Entry assignments
Targets(R) ==
  [at : [R -> Works \cup {None}], dirty : SUBSET R, live_in : SUBSET Works, read_only : BOOLEAN]

\* An assignment that a block may be entered with
IsTarget(t, R) == t \in Targets(R) /\ Injective(t.at) /\ t.dirty \subseteq Assigned(t)

\* All that it has in registers is needed there.
AllLive(t) == \A r \in DOMAIN t.at : t.at[r] \in t.live_in \cup {None}

\* Every table's shared assignment was made by a table, never by a branch to one of
\* its targets or by falling into it.
TablesApart == \A a \in Archs : \A f \in a.forms : f.flow # "shared"

\* No assertion failed, shared assignments that something else made set aside.
Fine(x) == TablesApart => x.ok = TRUE

-------------------------------------------------------------------------------
(* The instruction and its operands *)

Operands(R) ==
  [work : Works, use : BOOLEAN, write : BOOLEAN, out : BOOLEAN, rm : BOOLEAN,
   use_id : R \cup {None}, out_id : R \cup {None}, dup : SUBSET R, mask : SUBSET R,
   kill : BOOLEAN, done : BOOLEAN, mem : BOOLEAN]

\* An operand is what the instruction has there, and keeps fixed registers.
OperandOf(op, kind) ==
  /\ op.use = kind.use /\ op.write = kind.write /\ op.out = kind.out /\ op.rm = kind.rm
  /\ op.dup = kind.dup /\ op.mask = kind.mask
  /\ kind.use_id \in {None, op.use_id} /\ kind.out_id \in {None, op.out_id}

\* The operands of an instruction: different virtual registers, in different
\* registers, read if alive.
InstructionInv ==
  /\ form \in arch.forms
  /\ ops \in [DOMAIN form.ops -> Operands(Regs)]
  /\ \A i \in DOMAIN ops : OperandOf(ops[i], form.ops[i]) /\ (ops[i].use <=> ops[i].work \in live)
  /\ \A i, j \in DOMAIN ops : i # j =>
       /\ ops[i].work # ops[j].work
       /\ ops[i].use_id # None => ops[i].use_id \notin {ops[j].use_id} \cup ops[j].dup
  /\ target # None =>
       /\ IsTarget(target, Regs)
       /\ Indirect => LiveAfter \subseteq target.live_in
       /\ form.flow \notin Tables => target.live_in \subseteq LiveAfter
       /\ form.flow \in Tables => \A i \in DOMAIN ops : target.at[form.ops[i].use_id] = None
       /\ form.flow # "shared" => AllLive(target)

\* Before alloc_instruction() begins
FreshInv ==
  /\ InstructionInv
  /\ \A i \in DOMAIN ops :
       /\ ~ops[i].done /\ ~ops[i].mem
       /\ ops[i].use_id = form.ops[i].use_id /\ ops[i].out_id = form.ops[i].out_id

Masks(R) ==
  [use : SUBSET R, free : SUBSET R, out : SUBSET R, live : SUBSET R, room : SUBSET R, outs : SUBSET R]

\* Where operands that are read are, or are going: STEPs 3 to 5.
PlacingInv ==
  /\ InstructionInv
  /\ masks \in Masks(Regs) /\ masks.out = form.clobbered /\ masks.outs = {}
  /\ \A i \in DOMAIN ops :
       LET op == ops[i]
       IN  /\ op.done \/ op.use
           /\ op.mem => op.rm /\ op.done /\ Away(m, op.work)
           /\ op.out_id = form.ops[i].out_id
           /\ op.use_id # None => op.use_id \in masks.use
           /\ op.use /\ op.done /\ ~op.mem =>
                /\ op.use_id # None /\ m.at[op.use_id] = op.work
                /\ op.write => op.use_id \in m.dirty

\* What is wanted is, or will be, free; what is done stays.
WantedInv ==
  \A i \in DOMAIN ops :
    LET op == ops[i]
    IN  /\ op.use /\ op.done /\ ~op.mem => op.use_id \notin masks.free
        /\ ~op.done /\ op.use_id # None => op.use_id \in masks.free \/ m.at[op.use_id] = None

\* The instruction's own fixed registers, the operands that choose theirs, and
\* where they may
OwnFixed == Taken(form.ops, form.flow)
Choosing == {i \in DOMAIN ops : form.ops[i].use /\ form.ops[i].use_id = None}
FreeFor(i) == form.ops[i].mask \ OwnFixed

\* What cannot be chosen any more is fixed, was chosen, or was left by an operand
\* that could not stay there.
TakenInv ==
  \E left \in [DOMAIN ops -> Regs \cup {None}] :
    /\ \A i \in Choosing : left[i] \notin FreeFor(i)
    /\ \A r \in masks.free \cup masks.use :
         r \in OwnFixed \/ \E i \in Choosing : r \in {ops[i].use_id, left[i]}

DecideInv ==
  /\ PlacingInv /\ WantedInv /\ TakenInv
  /\ \A i \in DOMAIN ops :
       LET op == ops[i]
       IN  /\ i < next => op.done \/ op.use_id # None
           /\ ~op.done /\ op.use_id = None => \A r \in Regs : m.at[r] = op.work => r \in masks.free
  /\ Assigned(m) \subseteq masks.live \cup masks.free

FreeInv ==
  /\ PlacingInv /\ WantedInv
  /\ \A i \in DOMAIN ops : ops[i].done \/ ops[i].use_id # None
  /\ masks.room \cap (Assigned(m) \cup masks.free \cup masks.use) = {}

AllocInv ==
  /\ PlacingInv
  /\ \A i \in DOMAIN ops :
       ~ops[i].done => ops[i].use_id # None /\ m.at[ops[i].use_id] = None /\ i >= next

\* Outputs before next have their register, the others will find one: STEP 10.
OutInv ==
  /\ InstructionInv
  /\ masks \in Masks(Regs) /\ masks.live \subseteq Assigned(m)
  /\ masks.live \cap (masks.outs \cup form.clobbered) = {}
  /\ Assigned(m) \subseteq masks.live \cup masks.outs
  /\ \A i \in DOMAIN ops :
       LET op == ops[i]
       IN  /\ op.use /\ ~op.mem => op.use_id # None
           /\ op.kill \/ (op.mem /\ ~op.out) => Away(m, op.work)
           /\ op.out /\ i >= next =>
                /\ Away(m, op.work)
                /\ op.out_id = form.ops[i].out_id /\ op.out_id \notin masks.outs
           /\ op.out /\ i < next =>
                /\ op.out_id \in masks.outs
                /\ ~op.kill => m.at[op.out_id] = op.work /\ op.out_id \in m.dirty
                /\ op.kill => m.at[op.out_id] = None
  /\ \A i, j \in DOMAIN ops :
       ops[i].out /\ ops[j].out /\ i < next /\ j < next /\ i # j => ops[i].out_id # ops[j].out_id
  /\ \A r \in masks.outs : \E i \in DOMAIN ops : i < next /\ ops[i].out /\ ops[i].out_id = r

\* Before the instruction: every operand has its register, and what is clobbered
\* is an output's or in use no more.
ReadyInv ==
  /\ InstructionInv
  /\ \A r \in Regs : m.at[r] # None /\ r \in form.clobbered =>
       \E i \in DOMAIN ops : ops[i].out /\ ops[i].out_id = r
  /\ \A i \in DOMAIN ops :
       LET op == ops[i]
       IN  /\ op.use /\ ~op.mem => op.use_id # None
           /\ op.mem /\ ~op.out => Away(m, op.work)
           /\ op.out => /\ op.out_id \in Regs
                        /\ op.kill => m.at[op.out_id] = None
                        /\ ~op.kill => m.at[op.out_id] = op.work /\ op.out_id \in m.dirty

-------------------------------------------------------------------------------
(* The switch to another assignment *)

Switches(R) ==
  [try : BOOLEAN, dirty : SUBSET R, affected : SUBSET R, will_load : SUBSET R, run : Int]

\* x on its way to t, where dirty are to be dirty: the registers that are not
\* affected any more are as in t, or are to be loaded, or t has there what is in
\* no register and not needed.
Switching(x, t, dirty, affected, will_load, try) ==
  /\ dirty \subseteq Assigned(t)
  /\ affected \subseteq Assigned(t) /\ will_load \subseteq Assigned(t)
  /\ \A r \in will_load : Away(x, t.at[r]) /\ t.at[r] \in t.live_in
  /\ ~try =>
       /\ \A w \in Works : Away(t, w) \/ w \notin t.live_in => Away(x, w)
       /\ \A r \in Assigned(t) \ (affected \cup will_load) :
            t.at[r] \in t.live_in => x.at[r] = t.at[r] /\ (r \in x.dirty <=> r \in dirty)

\* After a round that did nothing, all that is left is in each other's way.
Stuck(x, t, affected) == \A r \in affected : x.at[r] \notin {None, t.at[r]}

SwitchInv ==
  /\ IsTarget(target, Regs) /\ sw \in Switches(Regs)
  /\ Switching(m, target, sw.dirty, sw.affected, sw.will_load, sw.try)
  /\ sw.run \in {-1, 0, 1}
  /\ ~sw.try => sw.run # 1 /\ (sw.run = 0 => Stuck(m, target, sw.affected))
  /\ form.flow # "shared" => AllLive(target)

\* The switch is over: m is what the target needs of its assignment.
Reached ==
  /\ IsTarget(target, Regs) /\ sw \in Switches(Regs) /\ sw.dirty \subseteq Assigned(target)
  /\ \A r \in Regs :
       /\ m.at[r] = IF target.at[r] \in target.live_in THEN target.at[r] ELSE None
       /\ r \in m.dirty <=> r \in sw.dirty /\ target.at[r] \in target.live_in

\* At a block's entry: its assignment is what it needs of m, and no less is dirty.
Entered ==
  /\ IsTarget(target, Regs) /\ sw.dirty \subseteq Assigned(target)
  /\ \A r \in Regs :
       /\ target.at[r] = IF m.at[r] \in target.live_in THEN m.at[r] ELSE None
       /\ r \in m.dirty /\ target.at[r] # None => r \in sw.dirty

-------------------------------------------------------------------------------
(* The inductive invariant: assignments *)

PhaseInv ==
  CASE pc = "idle" -> form = NoForm /\ ops = << >> /\ target = None
    [] pc = "switch" -> /\ SwitchInv
                        /\ sw.try => FreshInv /\ form.flow = "branch" /\ target.live_in \subseteq LiveAfter
                        /\ ~sw.try /\ Indirect => InstructionInv /\ target # None
    [] pc = "fit" -> FreshInv
    [] pc = "decide" -> DecideInv
    [] pc = "free" -> FreeInv
    [] pc = "alloc" -> AllocInv
    [] pc = "out" -> OutInv
    [] pc = "execute" -> IF Indirect THEN InstructionInv /\ (target # None => Reached)
                         ELSE ReadyInv
    [] pc = "arrived" -> Entered
    [] OTHER -> FALSE

IInv ==
  /\ arch \in Archs /\ live \subseteq Works /\ next \in Nat
  /\ Sound(m, Regs) /\ Fine(m)
  /\ PhaseInv

-------------------------------------------------------------------------------
(* Values *)

\* An operand that is updated in place, in an instruction that has outputs or
\* clobbers registers, is fixed and so are the outputs; in a branch, it is not in
\* a register that the branch's target keeps free.
UpdatesApart ==
  \A a \in Archs : \A f \in a.forms :
    LET kinds == DOMAIN f.ops
    IN  \A i \in kinds : f.ops[i].write /\ ~f.ops[i].out =>
          /\ f.clobbered # {} \/ (\E j \in kinds : f.ops[j].out) =>
               /\ f.ops[i].use_id # None /\ f.ops[i].use_id \notin f.clobbered
               /\ \A j \in kinds : f.ops[j].out => f.ops[j].out_id # None
          /\ f.scratch # {} => f.ops[i].use_id # None /\ f.ops[i].use_id \notin f.scratch

\* What the instruction neither ends nor writes anew
Spared == {w \in live : \A i \in DOMAIN ops : ops[i].out \/ ops[i].kill => ops[i].work # w}

\* Operands updated in a register keep it until the instruction.
UpdatedInv ==
  \A i \in DOMAIN ops :
    LET op == ops[i]
    IN  op.write /\ ~op.out /\ ~op.mem =>
          IF op.kill THEN m.at[op.use_id] = None
          ELSE m.at[op.use_id] = op.work /\ op.use_id \in m.dirty

\* What is needed where a jump may go: of what a table's targets share, what is
\* live there.
Needed == IF Indirect THEN LiveAfter ELSE target.live_in

ValueInv ==
  /\ pc \in {"idle", "fit", "decide", "free", "alloc"} => Kept(m, live)
  /\ pc = "switch" => Kept(m, IF sw.try THEN live ELSE Needed)
  /\ pc = "out" => Kept(m, Spared) /\ UpdatedInv
  /\ pc = "execute" => IF Indirect THEN Kept(m, LiveAfter) ELSE Kept(m, Spared) /\ UpdatedInv
  /\ pc = "arrived" => Kept(m, target.live_in)

-------------------------------------------------------------------------------
(* Operands *)

\* No jump through a register but to several targets, and that only where
\* registers can be exchanged.
JumpsExchange ==
  \A a \in Archs : \A f \in a.forms : f.flow # "single" /\ (f.flow \in Tables => a.has_swap)

InPlace(op) ==
  op.use => IF op.mem THEN op.work \in m.slots ELSE \A r \in op.dup \cup {op.use_id} : m.regs[r] = op.work

ReadInv ==
  /\ ~misread
  /\ pc \in {"out", "execute"} \/ (pc = "switch" /\ ~sw.try /\ Indirect) =>
       \A i \in DOMAIN ops : InPlace(ops[i])
  /\ pc = "switch" /\ ~sw.try /\ Indirect =>
       \A i \in DOMAIN ops : ops[i].mem => Away(m, ops[i].work)

-------------------------------------------------------------------------------
(* What the operations do to a machine *)

(* No register and no value is the mark "none", and the registers of an architecture are a
   finite, non-empty set of numbers. *)
LEMMA NoneApart ==
  ASSUME NEW a \in Archs
  PROVE  /\ None \notin Works /\ None \notin a.regs /\ a.regs \subseteq Nat
         /\ IsFiniteSet(a.regs) /\ a.regs # {} /\ a.has_swap \in BOOLEAN
BY NoneAssumption, ArchAssumption DEF ArchAssumption

(* What soundness of a machine gives: its shape, dirty registers hold something, and no value is
   held twice. *)
LEMMA SoundFacts ==
  ASSUME NEW R, NEW x, Sound(x, R)
  PROVE  /\ x \in Machines(R)
         /\ DOMAIN x.at = R /\ DOMAIN x.regs = R
         /\ x.at \in [R -> Works \cup {None}] /\ x.regs \in [R -> Works \cup {None}]
         /\ x.slots \subseteq Works /\ x.ok \in BOOLEAN
         /\ x.dirty \subseteq R /\ \A r \in x.dirty : x.at[r] # None
         /\ \A r, q \in R : x.at[r] = x.at[q] => r = q \/ x.at[r] = None
         /\ \A r : r \in Assigned(x) <=> r \in R /\ x.at[r] # None
BY DEF Sound, Machines, Assigned, Injective

(* A machine of the right shape whose dirty registers hold something and which holds no value
   twice is sound. *)
LEMMA IsSound ==
  ASSUME NEW R, NEW x, x \in Machines(R),
         \A r \in x.dirty : x.at[r] # None,
         \A r, q \in R : x.at[r] = x.at[q] => r = q \/ x.at[r] = None
  PROVE  Sound(x, R)
BY DEF Sound, Machines, Assigned, Injective

\* The register of a virtual register, if it has one
LEMMA RegOfIs ==
  ASSUME NEW R, None \notin R, NEW x, Sound(x, R), NEW w \in Works, None \notin Works
  PROVE  /\ RegOf(x, w) # None => RegOf(x, w) \in R /\ x.at[RegOf(x, w)] = w
         /\ RegOf(x, w) = None <=> Away(x, w)
         /\ \A r \in R : x.at[r] = w => RegOf(x, w) = r
<1>1. \A r : r \in Assigned(x) <=> r \in R /\ x.at[r] # None
  BY SoundFacts
<1>2. DOMAIN x.at = R /\ \A r, q \in R : x.at[r] = x.at[q] => r = q \/ x.at[r] = None
  BY SoundFacts
<1>3. CASE \E r \in Assigned(x) : x.at[r] = w
  <2>1. RegOf(x, w) \in Assigned(x) /\ x.at[RegOf(x, w)] = w
    BY <1>3 DEF RegOf
  <2> QED
    BY <2>1, <1>1, <1>2 DEF Away
<1>4. CASE ~\E r \in Assigned(x) : x.at[r] = w
  BY <1>4, <1>1, <1>2 DEF Away, RegOf
<1> QED
  BY <1>3, <1>4

(* The move of a value into a free register (on_move_reg): value, contents and dirtiness leave
   the source for the destination. *)
LEMMA MoveIs ==
  ASSUME NEW R, NEW x, Sound(x, R), NEW d \in R, NEW s \in R, x.at[d] = None, x.at[s] # None,
         NEW y, y = OnMove(x, x.at[s], d, s)
  PROVE  /\ Sound(y, R) /\ y.ok = x.ok /\ y.slots = x.slots
         /\ \A r \in R : y.at[r] = IF r = d THEN x.at[s] ELSE IF r = s THEN None ELSE x.at[r]
         /\ \A r \in R : y.regs[r] = IF r = d THEN x.regs[s] ELSE x.regs[r]
         /\ \A r \in R : r \in y.dirty <=> IF r = d THEN s \in x.dirty ELSE r # s /\ r \in x.dirty
<1> DEFINE at == [x.at EXCEPT ![s] = None, ![d] = x.at[s]]
           dirty == IF s \in x.dirty THEN (x.dirty \ {s}) \cup {d} ELSE x.dirty
           regs == [x.regs EXCEPT ![d] = x.regs[s]]
<1>0. /\ x \in Machines(R) /\ x.ok \in BOOLEAN /\ DOMAIN x.at = R
      /\ x.at \in [R -> Works \cup {None}] /\ x.regs \in [R -> Works \cup {None}]
      /\ x.slots \subseteq Works
      /\ x.dirty \subseteq R /\ \A r \in x.dirty : x.at[r] # None
      /\ \A r, q \in R : x.at[r] = x.at[q] => r = q \/ x.at[r] = None
      /\ \A r : r \in Assigned(x) <=> r \in R /\ x.at[r] # None
  BY SoundFacts
<1>1. y = [x EXCEPT !.ok = x.ok, !.at = at, !.dirty = dirty, !.regs = regs]
  BY <1>0 DEF OnMove
<1>2. at \in [R -> Works \cup {None}] /\ dirty \in SUBSET R /\ regs \in [R -> Works \cup {None}]
  BY <1>0
<1>3. /\ \A r \in R : at[r] = IF r = d THEN x.at[s] ELSE IF r = s THEN None ELSE x.at[r]
      /\ \A r \in R : regs[r] = IF r = d THEN x.regs[s] ELSE x.regs[r]
      /\ \A r \in R : r \in dirty <=> IF r = d THEN s \in x.dirty ELSE r # s /\ r \in x.dirty
  BY <1>0
<1> HIDE DEF at, dirty, regs
<1>4. /\ y \in Machines(R)
      /\ y.at = at /\ y.dirty = dirty /\ y.regs = regs /\ y.slots = x.slots /\ y.ok = x.ok
  BY <1>0, <1>1, <1>2 DEF Machines
<1>5. \A r \in y.dirty : y.at[r] # None
  BY <1>0, <1>2, <1>3, <1>4
<1>6. \A r, q \in R : y.at[r] = y.at[q] => r = q \/ y.at[r] = None
  BY <1>0, <1>3, <1>4
<1> QED
  BY <1>3, <1>4, <1>5, <1>6, IsSound

(* The exchange of two occupied registers (on_swap_reg): values, contents and dirtiness change
   places. *)
LEMMA SwapIs ==
  ASSUME NEW R, NEW x, Sound(x, R), NEW a \in R, NEW b \in R, a # b, x.at[a] # None, x.at[b] # None,
         NEW y, y = OnSwap(x, a, b)
  PROVE  /\ Sound(y, R) /\ y.ok = x.ok /\ y.slots = x.slots
         /\ \A r \in R : y.at[r] = IF r = a THEN x.at[b] ELSE IF r = b THEN x.at[a] ELSE x.at[r]
         /\ \A r \in R : y.regs[r] = IF r = a THEN x.regs[b] ELSE IF r = b THEN x.regs[a] ELSE x.regs[r]
         /\ \A r \in R : r \in y.dirty <=>
              IF r = a THEN b \in x.dirty ELSE IF r = b THEN a \in x.dirty ELSE r \in x.dirty
<1> DEFINE at == [x.at EXCEPT ![a] = x.at[b], ![b] = x.at[a]]
           dirty == (x.dirty \ {a, b}) \cup (IF a \in x.dirty THEN {b} ELSE {})
                                       \cup (IF b \in x.dirty THEN {a} ELSE {})
           regs == [x.regs EXCEPT ![a] = x.regs[b], ![b] = x.regs[a]]
<1>0. /\ x \in Machines(R) /\ x.ok \in BOOLEAN /\ DOMAIN x.at = R
      /\ x.at \in [R -> Works \cup {None}] /\ x.regs \in [R -> Works \cup {None}]
      /\ x.slots \subseteq Works
      /\ x.dirty \subseteq R /\ \A r \in x.dirty : x.at[r] # None
      /\ \A r, q \in R : x.at[r] = x.at[q] => r = q \/ x.at[r] = None
      /\ \A r : r \in Assigned(x) <=> r \in R /\ x.at[r] # None
  BY SoundFacts
<1>1. y = [x EXCEPT !.ok = x.ok, !.at = at, !.dirty = dirty, !.regs = regs]
  BY <1>0 DEF OnSwap
<1>2. at \in [R -> Works \cup {None}] /\ dirty \in SUBSET R /\ regs \in [R -> Works \cup {None}]
  BY <1>0
<1>3. /\ \A r \in R : at[r] = IF r = a THEN x.at[b] ELSE IF r = b THEN x.at[a] ELSE x.at[r]
      /\ \A r \in R : regs[r] = IF r = a THEN x.regs[b] ELSE IF r = b THEN x.regs[a] ELSE x.regs[r]
      /\ \A r \in R : r \in dirty <=>
           IF r = a THEN b \in x.dirty ELSE IF r = b THEN a \in x.dirty ELSE r \in x.dirty
  BY <1>0
<1> HIDE DEF at, dirty, regs
<1>4. /\ y \in Machines(R)
      /\ y.at = at /\ y.dirty = dirty /\ y.regs = regs /\ y.slots = x.slots /\ y.ok = x.ok
  BY <1>0, <1>1, <1>2 DEF Machines
<1>5. \A r \in y.dirty : y.at[r] # None
  BY <1>0, <1>2, <1>3, <1>4
<1>6. \A r, q \in R : y.at[r] = y.at[q] => r = q \/ y.at[r] = None
  BY <1>0, <1>3, <1>4
<1> QED
  BY <1>3, <1>4, <1>5, <1>6, IsSound

(* Forgetting a set of registers (unassign) changes neither contents nor stack slots. *)
LEMMA UnassignAllIs ==
  ASSUME NEW R, NEW x, Sound(x, R), NEW rs, rs \subseteq Assigned(x),
         NEW y, y = UnassignAll(x, rs)
  PROVE  /\ Sound(y, R) /\ y.ok = x.ok /\ y.slots = x.slots /\ y.regs = x.regs
         /\ y.dirty = x.dirty \ rs
         /\ \A r \in R : y.at[r] = IF r \in rs THEN None ELSE x.at[r]
<1> DEFINE at == [r \in R |-> IF r \in rs THEN None ELSE x.at[r]]
           dirty == x.dirty \ rs
<1>0. /\ x \in Machines(R) /\ x.ok \in BOOLEAN /\ DOMAIN x.at = R
      /\ x.at \in [R -> Works \cup {None}] /\ x.regs \in [R -> Works \cup {None}]
      /\ x.slots \subseteq Works
      /\ x.dirty \subseteq R /\ \A r \in x.dirty : x.at[r] # None
      /\ \A r, q \in R : x.at[r] = x.at[q] => r = q \/ x.at[r] = None
      /\ \A r : r \in Assigned(x) <=> r \in R /\ x.at[r] # None
  BY SoundFacts
<1>1. y = [x EXCEPT !.ok = x.ok, !.at = at, !.dirty = dirty]
  BY <1>0 DEF UnassignAll
<1>2. at \in [R -> Works \cup {None}] /\ dirty \in SUBSET R
  BY <1>0
<1>3. \A r \in R : at[r] = IF r \in rs THEN None ELSE x.at[r]
  BY <1>0
<1> HIDE DEF at
<1>4. /\ y \in Machines(R)
      /\ y.at = at /\ y.dirty = dirty /\ y.regs = x.regs /\ y.slots = x.slots /\ y.ok = x.ok
  BY <1>0, <1>1, <1>2 DEF Machines
<1>5. \A r \in y.dirty : y.at[r] # None
  BY <1>0, <1>2, <1>3, <1>4
<1>6. \A r, q \in R : y.at[r] = y.at[q] => r = q \/ y.at[r] = None
  BY <1>0, <1>3, <1>4
<1> QED
  BY <1>3, <1>4, <1>5, <1>6, IsSound

(* Saving a set of registers (on_save_reg on each) writes their contents to the slots of the
   values they are said to hold, and leaves them clean. *)
LEMMA SaveAllIs ==
  ASSUME NEW R, NEW x, Sound(x, R), NEW rs, rs \subseteq Assigned(x), None \notin Works,
         NEW y, y = SaveAll(x, rs)
  PROVE  /\ Sound(y, R) /\ y.ok = x.ok /\ y.at = x.at /\ y.regs = x.regs
         /\ y.dirty = x.dirty \ rs
         /\ \A w : w \in y.slots <=>
              IF \E r \in rs : x.at[r] = w THEN \E r \in rs : x.at[r] = w /\ x.regs[r] = w
              ELSE w \in x.slots
<1> DEFINE dirty == x.dirty \ rs
           slots == (x.slots \ {x.at[r] : r \in rs})
                      \cup {x.at[r] : r \in {q \in rs : x.regs[q] = x.at[q]}}
<1>0. /\ x \in Machines(R) /\ x.ok \in BOOLEAN /\ DOMAIN x.at = R
      /\ x.at \in [R -> Works \cup {None}] /\ x.regs \in [R -> Works \cup {None}]
      /\ x.slots \subseteq Works
      /\ x.dirty \subseteq R /\ \A r \in x.dirty : x.at[r] # None
      /\ \A r, q \in R : x.at[r] = x.at[q] => r = q \/ x.at[r] = None
      /\ \A r : r \in Assigned(x) <=> r \in R /\ x.at[r] # None
  BY SoundFacts
<1>1. y = [x EXCEPT !.dirty = dirty, !.slots = slots]
  BY <1>0 DEF SaveAll
<1>2. dirty \in SUBSET R /\ slots \in SUBSET Works
  <2>1. \A r \in rs : x.at[r] \in Works
    BY <1>0
  <2>2. {x.at[r] : r \in rs} \subseteq Works /\ {x.at[r] : r \in {q \in rs : x.regs[q] = x.at[q]}} \subseteq Works
    BY <2>1
  <2>3. slots \subseteq Works
    BY <1>0, <2>2
  <2> QED
    BY <1>0, <2>3
<1>3. \A w : w \in slots <=>
        IF \E r \in rs : x.at[r] = w THEN \E r \in rs : x.at[r] = w /\ x.regs[r] = w
        ELSE w \in x.slots
  BY <1>0
<1> HIDE DEF dirty, slots
<1>4. /\ y \in Machines(R)
      /\ y.at = x.at /\ y.dirty = dirty /\ y.regs = x.regs /\ y.slots = slots /\ y.ok = x.ok
  BY <1>0, <1>1, <1>2 DEF Machines
<1>5. \A r \in y.dirty : y.at[r] # None
  BY <1>0, <1>2, <1>4 DEF dirty
<1>6. \A r, q \in R : y.at[r] = y.at[q] => r = q \/ y.at[r] = None
  BY <1>0, <1>4
<1> QED
  BY <1>3, <1>4, <1>5, <1>6, IsSound DEF dirty

(* Spilling a set of registers (on_spill_reg on each) saves the dirty ones and frees them all. *)
LEMMA SpillAllIs ==
  ASSUME NEW R, NEW x, Sound(x, R), NEW rs, rs \subseteq Assigned(x), None \notin Works,
         NEW y, y = SpillAll(x, rs)
  PROVE  /\ Sound(y, R) /\ y.ok = x.ok /\ y.regs = x.regs
         /\ y.dirty = x.dirty \ rs
         /\ \A r \in R : y.at[r] = IF r \in rs THEN None ELSE x.at[r]
         /\ \A w : w \in y.slots <=>
              IF \E r \in rs \cap x.dirty : x.at[r] = w
              THEN \E r \in rs \cap x.dirty : x.at[r] = w /\ x.regs[r] = w
              ELSE w \in x.slots
<1> DEFINE z == SaveAll(x, rs \cap x.dirty)
<1>1. /\ Sound(z, R) /\ z.ok = x.ok /\ z.at = x.at /\ z.regs = x.regs
      /\ z.dirty = x.dirty \ (rs \cap x.dirty)
      /\ \A w : w \in z.slots <=>
           IF \E r \in rs \cap x.dirty : x.at[r] = w
           THEN \E r \in rs \cap x.dirty : x.at[r] = w /\ x.regs[r] = w
           ELSE w \in x.slots
  <2>1. rs \cap x.dirty \subseteq Assigned(x)
    OBVIOUS
  <2> QED
    BY <2>1, SaveAllIs
<1>2. y = UnassignAll(z, rs)
  BY DEF SpillAll
<1> HIDE DEF z
<1>3. rs \subseteq Assigned(z)
  BY <1>1 DEF Assigned
<1>4. /\ Sound(y, R) /\ y.ok = z.ok /\ y.slots = z.slots /\ y.regs = z.regs
      /\ y.dirty = z.dirty \ rs
      /\ \A r \in R : y.at[r] = IF r \in rs THEN None ELSE z.at[r]
  BY <1>1, <1>2, <1>3, UnassignAllIs
<1>5. (x.dirty \ (rs \cap x.dirty)) \ rs = x.dirty \ rs
  OBVIOUS
<1> QED
  BY <1>1, <1>4, <1>5

(* Marking registers dirty changes nothing else. *)
LEMMA MakeDirtyIs ==
  ASSUME NEW R, NEW x, Sound(x, R), NEW rs, rs \subseteq Assigned(x),
         NEW y, y = MakeDirty(x, rs)
  PROVE  /\ Sound(y, R) /\ y.ok = x.ok /\ y.at = x.at /\ y.regs = x.regs /\ y.slots = x.slots
         /\ y.dirty = x.dirty \cup rs
<1>0. /\ x \in Machines(R) /\ x.dirty \subseteq R /\ \A r \in x.dirty : x.at[r] # None
      /\ \A r, q \in R : x.at[r] = x.at[q] => r = q \/ x.at[r] = None
      /\ \A r : r \in Assigned(x) <=> r \in R /\ x.at[r] # None
  BY SoundFacts
<1>1. y = [x EXCEPT !.dirty = x.dirty \cup rs]
  BY <1>0 DEF MakeDirty
<1>2. x.dirty \cup rs \in SUBSET R
  BY <1>0
<1>3. /\ y \in Machines(R)
      /\ y.at = x.at /\ y.dirty = x.dirty \cup rs /\ y.regs = x.regs /\ y.slots = x.slots /\ y.ok = x.ok
  BY <1>0, <1>1, <1>2 DEF Machines
<1>4. \A r \in y.dirty : y.at[r] # None
  BY <1>0, <1>3
<1>5. \A r, q \in R : y.at[r] = y.at[q] => r = q \/ y.at[r] = None
  BY <1>0, <1>3
<1> QED
  BY <1>3, <1>4, <1>5, IsSound

(* Assigning a free register to a value that is nowhere (assign) changes no contents. *)
LEMMA AssignIs ==
  ASSUME NEW R, None \notin R, NEW x, Sound(x, R), None \notin Works, NEW w \in Works, NEW r \in R,
         x.at[r] = None, Away(x, w), NEW d \in BOOLEAN,
         NEW y, y = Assign(x, w, r, d)
  PROVE  /\ Sound(y, R) /\ y.ok = x.ok /\ y.regs = x.regs /\ y.slots = x.slots
         /\ \A q \in R : y.at[q] = IF q = r THEN w ELSE x.at[q]
         /\ \A q \in R : q \in y.dirty <=> q \in x.dirty \/ (q = r /\ d)
<1> DEFINE at == [x.at EXCEPT ![r] = w]
           dirty == IF d THEN x.dirty \cup {r} ELSE x.dirty
<1>0. /\ x \in Machines(R) /\ x.ok \in BOOLEAN /\ DOMAIN x.at = R
      /\ x.at \in [R -> Works \cup {None}] /\ x.regs \in [R -> Works \cup {None}]
      /\ x.dirty \subseteq R /\ \A q \in x.dirty : x.at[q] # None
      /\ \A p, q \in R : x.at[p] = x.at[q] => p = q \/ x.at[p] = None
  BY SoundFacts
<1>1. RegOf(x, w) = None /\ r \notin x.dirty /\ \A q \in R : x.at[q] # w
  BY <1>0, RegOfIs DEF Away
<1>2. y = [x EXCEPT !.ok = x.ok, !.at = at, !.dirty = dirty]
  BY <1>0, <1>1 DEF Assign
<1>3. at \in [R -> Works \cup {None}] /\ dirty \in SUBSET R
  BY <1>0
<1>4. /\ \A q \in R : at[q] = IF q = r THEN w ELSE x.at[q]
      /\ \A q \in R : q \in dirty <=> q \in x.dirty \/ (q = r /\ d)
  BY <1>0
<1> HIDE DEF at, dirty
<1>5. /\ y \in Machines(R)
      /\ y.at = at /\ y.dirty = dirty /\ y.regs = x.regs /\ y.slots = x.slots /\ y.ok = x.ok
  BY <1>0, <1>2, <1>3 DEF Machines
<1>6. \A q \in y.dirty : y.at[q] # None
  BY <1>0, <1>3, <1>4, <1>5
<1>7. \A p, q \in R : y.at[p] = y.at[q] => p = q \/ y.at[p] = None
  BY <1>0, <1>1, <1>4, <1>5
<1> QED
  BY <1>4, <1>5, <1>6, <1>7, IsSound

(* Loading a value that is in no register into a free one (on_load_reg) fetches it from its slot,
   if it is there. *)
LEMMA LoadIs ==
  ASSUME NEW R, None \notin R, NEW x, Sound(x, R), None \notin Works, NEW w \in Works, NEW r \in R,
         x.at[r] = None, Away(x, w),
         NEW y, y = OnLoad(x, w, r)
  PROVE  /\ Sound(y, R) /\ y.ok = x.ok /\ y.slots = x.slots /\ y.dirty = x.dirty
         /\ \A q \in R : y.at[q] = IF q = r THEN w ELSE x.at[q]
         /\ \A q \in R : y.regs[q] = IF q # r THEN x.regs[q] ELSE IF w \in x.slots THEN w ELSE None
<1> DEFINE z == Assign(x, w, r, FALSE)
           regs == [x.regs EXCEPT ![r] = IF w \in x.slots THEN w ELSE None]
<1>1. /\ Sound(z, R) /\ z.ok = x.ok /\ z.regs = x.regs /\ z.slots = x.slots
      /\ \A q \in R : z.at[q] = IF q = r THEN w ELSE x.at[q]
      /\ \A q \in R : q \in z.dirty <=> q \in x.dirty
  <2>0. PICK no \in BOOLEAN : no = FALSE
    OBVIOUS
  <2>1. z = Assign(x, w, r, no)
    BY <2>0
  <2> HIDE DEF z
  <2>2. /\ Sound(z, R) /\ z.ok = x.ok /\ z.regs = x.regs /\ z.slots = x.slots
        /\ \A q \in R : z.at[q] = IF q = r THEN w ELSE x.at[q]
        /\ \A q \in R : q \in z.dirty <=> q \in x.dirty \/ (q = r /\ no)
    BY <2>1, AssignIs
  <2> QED
    BY <2>0, <2>2
<1>2. y = [z EXCEPT !.regs = regs]
  BY <1>1 DEF OnLoad
<1> HIDE DEF z
<1>3. /\ z \in Machines(R) /\ z.dirty \subseteq R /\ \A q \in z.dirty : z.at[q] # None
      /\ \A p, q \in R : z.at[p] = z.at[q] => p = q \/ z.at[p] = None
  BY <1>1, SoundFacts
<1>4. x.regs \in [R -> Works \cup {None}] /\ x.dirty \subseteq R
  BY SoundFacts
<1>5. regs \in [R -> Works \cup {None}]
      /\ \A q \in R : regs[q] = IF q # r THEN x.regs[q] ELSE IF w \in x.slots THEN w ELSE None
  BY <1>4
<1> HIDE DEF regs
<1>6. /\ y \in Machines(R)
      /\ y.at = z.at /\ y.dirty = z.dirty /\ y.regs = regs /\ y.slots = z.slots /\ y.ok = z.ok
  BY <1>2, <1>3, <1>5 DEF Machines
<1>7. Sound(y, R)
  BY <1>3, <1>6, IsSound
<1>8. z.dirty = x.dirty
  BY <1>1, <1>3, <1>4
<1> QED
  BY <1>1, <1>5, <1>6, <1>7, <1>8

-------------------------------------------------------------------------------
(* What they do to the values *)

(* What keeping a set of values means register by register and value by value. *)
LEMMA KeptFacts ==
  ASSUME NEW R, NEW x, Sound(x, R), NEW W, Kept(x, W)
  PROVE  /\ \A r \in R : x.at[r] \in W => x.regs[r] = x.at[r] /\ (r \in x.dirty \/ x.at[r] \in x.slots)
         /\ \A w \in W : (\A r \in R : x.at[r] # w) => w \in x.slots
BY SoundFacts DEF Kept, Away

(* The converse: values are kept when each register that holds one has it, and each one that is
   in no register is in its slot. *)
LEMMA IsKept ==
  ASSUME NEW R, NEW x, Sound(x, R), NEW W,
         \A r \in R : x.at[r] \in W => x.regs[r] = x.at[r] /\ (r \in x.dirty \/ x.at[r] \in x.slots),
         \A w \in W : (\A r \in R : x.at[r] # w) => w \in x.slots
  PROVE  Kept(x, W)
BY SoundFacts DEF Kept, Away

(* A machine that keeps some values keeps any part of them. *)
LEMMA KeptLess ==
  ASSUME NEW x, NEW W, Kept(x, W), NEW V, V \subseteq W
  PROVE  Kept(x, V)
BY DEF Kept

(* A value is away when no register is assigned to it. *)
LEMMA AwayIs ==
  ASSUME NEW R, NEW x, Sound(x, R), NEW w
  PROVE  Away(x, w) <=> \A r \in R : x.at[r] # w
BY SoundFacts DEF Away

\* A value moves with its register.
LEMMA MoveKeeps ==
  ASSUME NEW R, NEW x, Sound(x, R), NEW d \in R, NEW s \in R, x.at[d] = None, x.at[s] # None,
         NEW y, y = OnMove(x, x.at[s], d, s), NEW W, None \notin W
  PROVE  /\ Kept(x, W) => Kept(y, W)
         /\ \A w : w # None => (Away(y, w) <=> Away(x, w))
<1>1. /\ Sound(y, R) /\ y.ok = x.ok /\ y.slots = x.slots
      /\ \A r \in R : y.at[r] = IF r = d THEN x.at[s] ELSE IF r = s THEN None ELSE x.at[r]
      /\ \A r \in R : y.regs[r] = IF r = d THEN x.regs[s] ELSE x.regs[r]
      /\ \A r \in R : r \in y.dirty <=> IF r = d THEN s \in x.dirty ELSE r # s /\ r \in x.dirty
  BY MoveIs
<1>2. d # s
  OBVIOUS
<1>3. ASSUME NEW w, w # None
      PROVE  (\A r \in R : y.at[r] # w) <=> (\A r \in R : x.at[r] # w)
  BY <1>1, <1>2, <1>3
<1>4. ASSUME Kept(x, W) PROVE Kept(y, W)
  <2>1. /\ \A r \in R : x.at[r] \in W => x.regs[r] = x.at[r] /\ (r \in x.dirty \/ x.at[r] \in x.slots)
        /\ \A w \in W : (\A r \in R : x.at[r] # w) => w \in x.slots
    BY <1>4, KeptFacts
  <2>2. ASSUME NEW r \in R, y.at[r] \in W
        PROVE  y.regs[r] = y.at[r] /\ (r \in y.dirty \/ y.at[r] \in y.slots)
    <3>1. CASE r = d
      BY <1>1, <2>1, <2>2, <3>1
    <3>2. CASE r # d
      BY <1>1, <2>1, <2>2, <3>2
    <3> QED
      BY <3>1, <3>2
  <2>3. \A w \in W : (\A r \in R : y.at[r] # w) => w \in y.slots
    BY <1>1, <1>3, <2>1
  <2> QED
    BY <1>1, <2>2, <2>3, IsKept
<1> QED
  BY <1>1, <1>3, <1>4, AwayIs

(* An exchange loses no value and moves none to the stack. *)
LEMMA SwapKeeps ==
  ASSUME NEW R, NEW x, Sound(x, R), NEW a \in R, NEW b \in R, a # b, x.at[a] # None, x.at[b] # None,
         NEW y, y = OnSwap(x, a, b), NEW W, None \notin W
  PROVE  /\ Kept(x, W) => Kept(y, W)
         /\ \A w : Away(y, w) <=> Away(x, w)
<1>1. /\ Sound(y, R) /\ y.ok = x.ok /\ y.slots = x.slots
      /\ \A r \in R : y.at[r] = IF r = a THEN x.at[b] ELSE IF r = b THEN x.at[a] ELSE x.at[r]
      /\ \A r \in R : y.regs[r] = IF r = a THEN x.regs[b] ELSE IF r = b THEN x.regs[a] ELSE x.regs[r]
      /\ \A r \in R : r \in y.dirty <=>
           IF r = a THEN b \in x.dirty ELSE IF r = b THEN a \in x.dirty ELSE r \in x.dirty
  BY SwapIs
<1>2. ASSUME NEW w
      PROVE  (\A r \in R : y.at[r] # w) <=> (\A r \in R : x.at[r] # w)
  BY <1>1
<1>3. ASSUME Kept(x, W) PROVE Kept(y, W)
  <2>1. /\ \A r \in R : x.at[r] \in W => x.regs[r] = x.at[r] /\ (r \in x.dirty \/ x.at[r] \in x.slots)
        /\ \A w \in W : (\A r \in R : x.at[r] # w) => w \in x.slots
    BY <1>3, KeptFacts
  <2>2. ASSUME NEW r \in R, y.at[r] \in W
        PROVE  y.regs[r] = y.at[r] /\ (r \in y.dirty \/ y.at[r] \in y.slots)
    <3>1. CASE r = a
      BY <1>1, <2>1, <2>2, <3>1
    <3>2. CASE r = b
      BY <1>1, <2>1, <2>2, <3>2
    <3>3. CASE r # a /\ r # b
      BY <1>1, <2>1, <2>2, <3>3
    <3> QED
      BY <3>1, <3>2, <3>3
  <2>3. \A w \in W : (\A r \in R : y.at[r] # w) => w \in y.slots
    BY <1>1, <1>2, <2>1
  <2> QED
    BY <1>1, <2>2, <2>3, IsKept
<1> QED
  BY <1>1, <1>2, <1>3, AwayIs

\* What is unassigned without being saved is not needed, or has its slot.
LEMMA UnassignKeeps ==
  ASSUME NEW R, NEW x, Sound(x, R), NEW rs, rs \subseteq Assigned(x),
         NEW y, y = UnassignAll(x, rs), NEW W, None \notin W
  PROVE  /\ Kept(x, W) /\ (\A r \in rs : x.at[r] \notin W \/ r \notin x.dirty) => Kept(y, W)
         /\ \A w : w # None => (Away(y, w) <=> Away(x, w) \/ \E r \in rs : x.at[r] = w)
<1>0. /\ \A r : r \in Assigned(x) <=> r \in R /\ x.at[r] # None
      /\ \A r, q \in R : x.at[r] = x.at[q] => r = q \/ x.at[r] = None
  BY SoundFacts
<1>1. /\ Sound(y, R) /\ y.ok = x.ok /\ y.slots = x.slots /\ y.regs = x.regs
      /\ y.dirty = x.dirty \ rs
      /\ \A r \in R : y.at[r] = IF r \in rs THEN None ELSE x.at[r]
  BY UnassignAllIs
<1>2. ASSUME NEW w, w # None
      PROVE  (\A r \in R : y.at[r] # w) <=> (\A r \in R : x.at[r] # w) \/ \E r \in rs : x.at[r] = w
  BY <1>0, <1>1, <1>2
<1>3. ASSUME Kept(x, W), \A r \in rs : x.at[r] \notin W \/ r \notin x.dirty PROVE Kept(y, W)
  <2>1. /\ \A r \in R : x.at[r] \in W => x.regs[r] = x.at[r] /\ (r \in x.dirty \/ x.at[r] \in x.slots)
        /\ \A w \in W : (\A r \in R : x.at[r] # w) => w \in x.slots
    BY <1>3, KeptFacts
  <2>2. \A r \in R : y.at[r] \in W => y.regs[r] = y.at[r] /\ (r \in y.dirty \/ y.at[r] \in y.slots)
    BY <1>1, <2>1
  <2>3. ASSUME NEW w \in W, \A r \in R : y.at[r] # w PROVE w \in y.slots
    <3>1. w # None
      OBVIOUS
    <3>2. CASE \A r \in R : x.at[r] # w
      BY <1>1, <2>1, <3>2
    <3>3. CASE \E r \in rs : x.at[r] = w
      BY <1>0, <1>1, <1>3, <2>1, <3>3
    <3> QED
      BY <1>2, <2>3, <3>1, <3>2, <3>3
  <2> QED
    BY <1>1, <2>2, <2>3, IsKept
<1> QED
  BY <1>1, <1>2, <1>3, AwayIs

(* A spill loses no value, takes just the spilled ones away, and leaves the slots of values that
   were away. *)
LEMMA SpillKeeps ==
  ASSUME NEW R, NEW x, Sound(x, R), NEW rs, rs \subseteq Assigned(x), None \notin Works,
         NEW y, y = SpillAll(x, rs), NEW W, None \notin W
  PROVE  /\ Kept(x, W) => Kept(y, W)
         /\ \A w : w # None => (Away(y, w) <=> Away(x, w) \/ \E r \in rs : x.at[r] = w)
         /\ \A w : Away(x, w) /\ w \in x.slots => w \in y.slots
<1>0. /\ \A r : r \in Assigned(x) <=> r \in R /\ x.at[r] # None
      /\ \A r, q \in R : x.at[r] = x.at[q] => r = q \/ x.at[r] = None
  BY SoundFacts
<1>1. /\ Sound(y, R) /\ y.ok = x.ok /\ y.regs = x.regs
      /\ y.dirty = x.dirty \ rs
      /\ \A r \in R : y.at[r] = IF r \in rs THEN None ELSE x.at[r]
      /\ \A w : w \in y.slots <=>
           IF \E r \in rs \cap x.dirty : x.at[r] = w
           THEN \E r \in rs \cap x.dirty : x.at[r] = w /\ x.regs[r] = w
           ELSE w \in x.slots
  BY SpillAllIs
<1>2. ASSUME NEW w, \A r \in R : x.at[r] # w
      PROVE  w \in x.slots => w \in y.slots
  BY <1>0, <1>1, <1>2
<1>3. ASSUME NEW w, w # None
      PROVE  (\A r \in R : y.at[r] # w) <=> (\A r \in R : x.at[r] # w) \/ \E r \in rs : x.at[r] = w
  BY <1>0, <1>1, <1>3
<1>4. ASSUME Kept(x, W) PROVE Kept(y, W)
  <2>1. /\ \A r \in R : x.at[r] \in W => x.regs[r] = x.at[r] /\ (r \in x.dirty \/ x.at[r] \in x.slots)
        /\ \A w \in W : (\A r \in R : x.at[r] # w) => w \in x.slots
    BY <1>4, KeptFacts
  <2>2. ASSUME NEW r \in R, y.at[r] \in W
        PROVE  y.regs[r] = y.at[r] /\ (r \in y.dirty \/ y.at[r] \in y.slots)
    <3>1. r \notin rs /\ y.at[r] = x.at[r] /\ x.at[r] # None
      BY <1>1, <2>2
    <3>2. ~\E q \in rs \cap x.dirty : x.at[q] = x.at[r]
      BY <1>0, <3>1
    <3> QED
      BY <1>1, <2>1, <2>2, <3>1, <3>2
  <2>3. ASSUME NEW w \in W, \A r \in R : y.at[r] # w PROVE w \in y.slots
    <3>1. w # None
      OBVIOUS
    <3>2. CASE \A r \in R : x.at[r] # w
      BY <1>2, <2>1, <3>2
    <3>3. CASE \E r \in rs : x.at[r] = w
      <4>1. PICK r \in rs : x.at[r] = w
        BY <3>3
      <4>2. r \in R /\ x.regs[r] = w /\ (r \in x.dirty \/ w \in x.slots)
        BY <1>0, <2>1, <4>1
      <4>3. CASE r \in x.dirty
        BY <1>1, <4>1, <4>2, <4>3
      <4>4. CASE r \notin x.dirty
        <5>1. ~\E q \in rs \cap x.dirty : x.at[q] = w
          BY <1>0, <3>1, <4>1, <4>2, <4>4
        <5> QED
          BY <1>1, <4>2, <4>4, <5>1
      <4> QED
        BY <4>3, <4>4
    <3> QED
      BY <1>3, <2>3, <3>1, <3>2, <3>3
  <2> QED
    BY <1>1, <2>2, <2>3, IsKept
<1> QED
  BY <1>1, <1>2, <1>3, <1>4, AwayIs

(* A save loses no value and moves none. *)
LEMMA SaveKeeps ==
  ASSUME NEW R, NEW x, Sound(x, R), NEW r \in R, x.at[r] # None, None \notin Works,
         NEW y, y = OnSave(x, r), NEW W, None \notin W
  PROVE  /\ Sound(y, R) /\ y.ok = x.ok /\ y.at = x.at /\ y.regs = x.regs
         /\ y.dirty = x.dirty \ {r}
         /\ Kept(x, W) => Kept(y, W)
         /\ \A w : Away(x, w) /\ w \in x.slots => w \in y.slots
<1>0. /\ \A q : q \in Assigned(x) <=> q \in R /\ x.at[q] # None
      /\ \A p, q \in R : x.at[p] = x.at[q] => p = q \/ x.at[p] = None
  BY SoundFacts
<1>1. {r} \subseteq Assigned(x) /\ y = SaveAll(x, {r})
  BY <1>0 DEF OnSave
<1>2. /\ Sound(y, R) /\ y.ok = x.ok /\ y.at = x.at /\ y.regs = x.regs
      /\ y.dirty = x.dirty \ {r}
      /\ \A w : w \in y.slots <=>
           IF \E q \in {r} : x.at[q] = w THEN \E q \in {r} : x.at[q] = w /\ x.regs[q] = w
           ELSE w \in x.slots
  BY <1>1, SaveAllIs
<1>3. \A w : w \in y.slots <=> IF x.at[r] = w THEN x.regs[r] = w ELSE w \in x.slots
  BY <1>2
<1>4. ASSUME Kept(x, W) PROVE Kept(y, W)
  <2>1. /\ \A q \in R : x.at[q] \in W => x.regs[q] = x.at[q] /\ (q \in x.dirty \/ x.at[q] \in x.slots)
        /\ \A w \in W : (\A q \in R : x.at[q] # w) => w \in x.slots
    BY <1>4, KeptFacts
  <2>2. ASSUME NEW q \in R, y.at[q] \in W
        PROVE  y.regs[q] = y.at[q] /\ (q \in y.dirty \/ y.at[q] \in y.slots)
    <3>1. CASE q = r
      BY <1>2, <1>3, <2>1, <2>2, <3>1
    <3>2. CASE q # r
      BY <1>0, <1>2, <1>3, <2>1, <2>2, <3>2
    <3> QED
      BY <3>1, <3>2
  <2>3. \A w \in W : (\A q \in R : y.at[q] # w) => w \in y.slots
    BY <1>2, <1>3, <2>1
  <2> QED
    BY <1>2, <2>2, <2>3, IsKept
<1>5. ASSUME NEW w, Away(x, w), w \in x.slots PROVE w \in y.slots
  BY <1>3, <1>5, AwayIs
<1> QED
  BY <1>2, <1>4, <1>5

(* A mark of dirtiness loses no value and moves none. *)
LEMMA DirtyKeeps ==
  ASSUME NEW R, NEW x, Sound(x, R), NEW rs, rs \subseteq Assigned(x),
         NEW y, y = MakeDirty(x, rs), NEW W
  PROVE  /\ Kept(x, W) => Kept(y, W)
         /\ \A w : Away(y, w) <=> Away(x, w)
<1>1. /\ Sound(y, R) /\ y.at = x.at /\ y.regs = x.regs /\ y.slots = x.slots
      /\ y.dirty = x.dirty \cup rs
  BY MakeDirtyIs
<1> QED
  BY <1>1 DEF Kept, Away

(* A load loses no value, and brings the loaded one only. *)
LEMMA LoadKeeps ==
  ASSUME NEW R, None \notin R, NEW x, Sound(x, R), None \notin Works, NEW w \in Works, NEW r \in R,
         x.at[r] = None, Away(x, w),
         NEW y, y = OnLoad(x, w, r), NEW W, None \notin W
  PROVE  /\ Kept(x, W) => Kept(y, W)
         /\ \A v : v # None => (Away(y, v) <=> Away(x, v) /\ v # w)
<1>1. /\ Sound(y, R) /\ y.ok = x.ok /\ y.slots = x.slots /\ y.dirty = x.dirty
      /\ \A q \in R : y.at[q] = IF q = r THEN w ELSE x.at[q]
      /\ \A q \in R : y.regs[q] = IF q # r THEN x.regs[q] ELSE IF w \in x.slots THEN w ELSE None
  BY LoadIs
<1>2. ASSUME Kept(x, W) PROVE Kept(y, W)
  <2>1. /\ \A q \in R : x.at[q] \in W => x.regs[q] = x.at[q] /\ (q \in x.dirty \/ x.at[q] \in x.slots)
        /\ \A v \in W : (\A q \in R : x.at[q] # v) => v \in x.slots
    BY <1>2, KeptFacts
  <2>2. w \in W => w \in x.slots
    BY <2>1, AwayIs
  <2>3. \A q \in R : y.at[q] \in W => y.regs[q] = y.at[q] /\ (q \in y.dirty \/ y.at[q] \in y.slots)
    BY <1>1, <2>1, <2>2
  <2>4. ASSUME NEW v \in W, \A q \in R : y.at[q] # v PROVE v \in y.slots
    BY <1>1, <2>1, <2>4
  <2> QED
    BY <1>1, <2>3, <2>4, IsKept
<1>3. ASSUME NEW v, v # None
      PROVE  (\A q \in R : y.at[q] # v) <=> (\A q \in R : x.at[q] # v) /\ v # w
  BY <1>1, <1>3
<1> QED
  BY <1>1, <1>2, <1>3, AwayIs

-------------------------------------------------------------------------------
(* One register of the switch *)

(* What an assignment to switch to is: a map of registers to values without repetition. *)
LEMMA TargetFacts ==
  ASSUME NEW R, NEW t, IsTarget(t, R)
  PROVE  /\ DOMAIN t.at = R /\ t.at \in [R -> Works \cup {None}]
         /\ t.dirty \subseteq R /\ t.live_in \subseteq Works /\ t.read_only \in BOOLEAN
         /\ \A r \in t.dirty : t.at[r] # None
         /\ \A r, q \in R : t.at[r] = t.at[q] => r = q \/ t.at[r] = None
         /\ \A r \in R : t.at[r] # None => t.at[r] \in Works
         /\ \A r : r \in Assigned(t) <=> r \in R /\ t.at[r] # None
BY DEF IsTarget, Targets, Assigned, Injective

\* From x to y no value is lost, and nothing comes into a register.
Carries(x, y) ==
  /\ Sound(y, Regs) /\ y.ok = x.ok
  /\ \A W \in SUBSET Works : Kept(x, W) => Kept(y, W)
  /\ \A w \in Works : Away(x, w) => Away(y, w) /\ (w \in x.slots => w \in y.slots)

(* Carrying values from one machine to the next is transitive. *)
LEMMA CarriesOn ==
  ASSUME NEW x, NEW y, NEW z, Carries(x, y), Carries(y, z)
  PROVE  Carries(x, z)
BY DEF Carries

(* A machine that does not change carries its values. *)
LEMMA CarriesNothing ==
  ASSUME NEW x, Sound(x, Regs)
  PROVE  Carries(x, x)
BY DEF Carries

(* A move carries every value. *)
LEMMA MoveCarries ==
  ASSUME arch \in Archs, NEW x, Sound(x, Regs), NEW d \in Regs, NEW s \in Regs, x.at[d] = None, x.at[s] # None,
         NEW y, y = OnMove(x, x.at[s], d, s)
  PROVE  Carries(x, y)
<1>0. None \notin Works
  BY NoneAssumption
<1>1. Sound(y, Regs) /\ y.ok = x.ok /\ y.slots = x.slots
  BY MoveIs
<1>2. ASSUME NEW W \in SUBSET Works PROVE Kept(x, W) => Kept(y, W)
  <2>1. None \notin W
    BY <1>0
  <2> QED
    BY <2>1, MoveKeeps
<1>3. \A w : w # None => (Away(y, w) <=> Away(x, w))
  <2>1. PICK W0 : W0 = {}
    OBVIOUS
  <2>2. None \notin W0
    BY <2>1
  <2> QED
    BY <2>2, MoveKeeps
<1> QED
  BY <1>0, <1>1, <1>2, <1>3 DEF Carries

(* An exchange carries every value. *)
LEMMA SwapCarries ==
  ASSUME arch \in Archs, NEW x, Sound(x, Regs), NEW a \in Regs, NEW b \in Regs, a # b, x.at[a] # None, x.at[b] # None,
         NEW y, y = OnSwap(x, a, b)
  PROVE  Carries(x, y)
<1>0. None \notin Works
  BY NoneAssumption
<1>1. Sound(y, Regs) /\ y.ok = x.ok /\ y.slots = x.slots
  BY SwapIs
<1>2. ASSUME NEW W \in SUBSET Works PROVE Kept(x, W) => Kept(y, W)
  <2>1. None \notin W
    BY <1>0
  <2> QED
    BY <2>1, SwapKeeps
<1>3. \A w : Away(y, w) <=> Away(x, w)
  <2>1. None \notin {}
    OBVIOUS
  <2> QED
    BY <2>1, SwapKeeps
<1> QED
  BY <1>0, <1>1, <1>2, <1>3 DEF Carries

(* A save carries every value. *)
LEMMA SaveCarries ==
  ASSUME arch \in Archs, NEW x, Sound(x, Regs), NEW r \in Regs, x.at[r] # None,
         NEW y, y = OnSave(x, r)
  PROVE  /\ Carries(x, y)
         /\ y.at = x.at /\ y.regs = x.regs /\ y.dirty = x.dirty \ {r}
<1>0. None \notin Works
  BY NoneAssumption
<1>1. /\ Sound(y, Regs) /\ y.ok = x.ok /\ y.at = x.at /\ y.regs = x.regs /\ y.dirty = x.dirty \ {r}
      /\ \A w : Away(x, w) /\ w \in x.slots => w \in y.slots
  <2>1. None \notin {}
    OBVIOUS
  <2> QED
    BY <1>0, <2>1, SaveKeeps
<1>2. ASSUME NEW W \in SUBSET Works PROVE Kept(x, W) => Kept(y, W)
  <2>1. None \notin W
    BY <1>0
  <2> QED
    BY <1>0, <2>1, SaveKeeps
<1>3. \A w : Away(x, w) => Away(y, w)
  BY <1>1 DEF Away
<1> QED
  BY <1>1, <1>2, <1>3 DEF Carries

(* A mark of dirtiness carries every value. *)
LEMMA DirtyCarries ==
  ASSUME NEW x, Sound(x, Regs), NEW rs, rs \subseteq Assigned(x),
         NEW y, y = MakeDirty(x, rs)
  PROVE  /\ Carries(x, y)
         /\ y.at = x.at /\ y.regs = x.regs /\ y.dirty = x.dirty \cup rs
<1>1. /\ Sound(y, Regs) /\ y.ok = x.ok /\ y.at = x.at /\ y.regs = x.regs /\ y.slots = x.slots
      /\ y.dirty = x.dirty \cup rs
  BY MakeDirtyIs
<1>2. \A W \in SUBSET Works : Kept(x, W) => Kept(y, W)
  BY DirtyKeeps
<1>3. \A w : Away(x, w) => Away(y, w)
  BY <1>1 DEF Away
<1> QED
  BY <1>1, <1>2, <1>3 DEF Carries

(* A spill carries every value. *)
LEMMA SpillCarries ==
  ASSUME arch \in Archs, NEW x, Sound(x, Regs), NEW rs, rs \subseteq Assigned(x),
         NEW y, y = SpillAll(x, rs)
  PROVE  Carries(x, y)
<1>0. None \notin Works
  BY NoneAssumption
<1>1. Sound(y, Regs) /\ y.ok = x.ok
  BY <1>0, SpillAllIs
<1>2. ASSUME NEW W \in SUBSET Works PROVE Kept(x, W) => Kept(y, W)
  <2>1. None \notin W
    BY <1>0
  <2> QED
    BY <1>0, <2>1, SpillKeeps
<1>3. /\ \A w : w # None => (Away(y, w) <=> Away(x, w) \/ \E r \in rs : x.at[r] = w)
      /\ \A w : Away(x, w) /\ w \in x.slots => w \in y.slots
  <2>1. None \notin {}
    OBVIOUS
  <2> QED
    BY <1>0, <2>1, SpillKeeps
<1> QED
  BY <1>0, <1>1, <1>2, <1>3 DEF Carries

\* What is clean is in its slot.
LEMMA UnassignCleanCarries ==
  ASSUME arch \in Archs, NEW x, Sound(x, Regs), NEW r \in Regs, x.at[r] # None, r \notin x.dirty,
         NEW y, y = Unassign(x, r)
  PROVE  Carries(x, y)
<1>0. None \notin Works /\ {r} \subseteq Assigned(x) /\ y = UnassignAll(x, {r})
  BY NoneAssumption, SoundFacts DEF Unassign
<1>1. Sound(y, Regs) /\ y.ok = x.ok /\ y.slots = x.slots
  BY <1>0, UnassignAllIs
<1>2. ASSUME NEW W \in SUBSET Works PROVE Kept(x, W) => Kept(y, W)
  <2>1. None \notin W /\ \A q \in {r} : x.at[q] \notin W \/ q \notin x.dirty
    BY <1>0
  <2> QED
    BY <1>0, <2>1, UnassignKeeps
<1>3. \A w : w # None => (Away(y, w) <=> Away(x, w) \/ \E q \in {r} : x.at[q] = w)
  <2>1. None \notin {}
    OBVIOUS
  <2> QED
    BY <1>0, <2>1, UnassignKeeps
<1> QED
  BY <1>0, <1>1, <1>2, <1>3 DEF Carries

Rounds ==
  [m : Machines(Regs), dirty : SUBSET Regs, affected : SUBSET Regs, will_load : SUBSET Regs, run : Int]

\* A round on its way to the target
InRound(y) ==
  /\ y \in Rounds /\ Sound(y.m, Regs)
  /\ Switching(y.m, target, y.dirty, y.affected, y.will_load, sw.try)

\* From y to z the register r is settled, and no other is disturbed.
Settles(y, z, r) ==
  /\ z \in Rounds /\ Carries(y.m, z.m)
  /\ z.affected = y.affected \ {r}
  /\ y.will_load \subseteq z.will_load /\ z.will_load \subseteq y.will_load \cup {r}
  /\ r \in z.will_load /\ r \notin y.will_load => target.at[r] \in target.live_in
  /\ \A q \in Regs : q # r /\ y.m.at[q] = target.at[q] /\ target.at[q] # None =>
       z.m.at[q] = target.at[q] /\ (q \in z.m.dirty <=> q \in y.m.dirty)
  /\ \A q \in Regs : q # r => (q \in z.dirty <=> q \in y.dirty)
  /\ IF r \in z.will_load THEN Away(z.m, target.at[r])
     ELSE \/ z.m.at[r] = target.at[r] /\ (r \in z.m.dirty <=> r \in z.dirty)
          \/ Away(z.m, target.at[r]) /\ target.at[r] \notin target.live_in

\* What is in the registers that the target does not use stays there.
LeavesScratch(y, z) == \A q \in Regs : target.at[q] = None => z.m.regs[q] = y.m.regs[q]

(* When a register holds what the target wants, what remains for it (its dirtiness, ralocal.cpp
   294-318) settles it. *)
LEMMA MatchIs ==
  ASSUME arch \in Archs, IsTarget(target, Regs), NEW r \in Regs, target.at[r] # None,
         NEW y \in Rounds, Sound(y.m, Regs), y.m.at[r] = target.at[r],
         r \notin y.will_load,
         NEW z, z = Match(y, r)
  PROVE  Settles(y, z, r) /\ LeavesScratch(y, z) /\ z.run = -1
<1> DEFINE cleaned == r \in y.m.dirty /\ r \notin y.dirty
           mm == IF cleaned /\ target.read_only THEN OnSave(y.m, r)
                 ELSE IF r \in y.dirty THEN MakeDirty(y.m, {r}) ELSE y.m
           dd == IF cleaned /\ ~target.read_only THEN y.dirty \cup {r} ELSE y.dirty
<1>0. /\ y.m \in Machines(Regs) /\ y.dirty \subseteq Regs /\ y.affected \subseteq Regs
      /\ y.will_load \subseteq Regs /\ y.run \in Int
      /\ {r} \subseteq Assigned(y.m) /\ y.m.at[r] # None
  BY SoundFacts DEF Rounds
<1>1. z = [y EXCEPT !.run = -1, !.affected = y.affected \ {r}, !.m = mm, !.dirty = dd]
  BY <1>0 DEF Match, Rounds
<1>2. dd \in SUBSET Regs /\ (\A q \in Regs : q # r => (q \in dd <=> q \in y.dirty))
  BY <1>0
<1>3. /\ Carries(y.m, mm) /\ mm.at = y.m.at /\ mm.regs = y.m.regs
      /\ \A q \in Regs : q # r => (q \in mm.dirty <=> q \in y.m.dirty)
      /\ r \in mm.dirty <=> r \in dd
  <2>1. CASE cleaned /\ target.read_only
    <3>1. mm = OnSave(y.m, r) /\ r \notin dd
      BY <2>1
    <3> HIDE DEF mm
    <3>2. Carries(y.m, mm) /\ mm.at = y.m.at /\ mm.regs = y.m.regs /\ mm.dirty = y.m.dirty \ {r}
      BY <1>0, <3>1, SaveCarries
    <3> QED
      BY <3>1, <3>2
  <2>2. CASE ~(cleaned /\ target.read_only) /\ r \in y.dirty
    <3>1. mm = MakeDirty(y.m, {r}) /\ r \in dd
      BY <2>2
    <3> HIDE DEF mm
    <3>2. Carries(y.m, mm) /\ mm.at = y.m.at /\ mm.regs = y.m.regs /\ mm.dirty = y.m.dirty \cup {r}
      BY <1>0, <3>1, DirtyCarries
    <3> QED
      BY <3>1, <3>2
  <2>3. CASE ~(cleaned /\ target.read_only) /\ r \notin y.dirty
    <3>1. mm = y.m /\ (r \in dd <=> r \in y.m.dirty)
      BY <2>3
    <3> QED
      BY <3>1, CarriesNothing
  <2> QED
    BY <2>1, <2>2, <2>3
<1>4. mm \in Machines(Regs)
  BY <1>3, SoundFacts DEF Carries
<1> HIDE DEF mm, dd
<1> DEFINE aff == y.affected \ {r}
<1>5. aff \in SUBSET Regs /\ -1 \in Int
  BY <1>0
<1> HIDE DEF aff
<1>6. z = [y EXCEPT !.run = -1, !.affected = aff, !.m = mm, !.dirty = dd]
  BY <1>1 DEF aff
<1>7. /\ z \in Rounds /\ z.m = mm /\ z.dirty = dd /\ z.affected = aff
      /\ z.will_load = y.will_load /\ z.run = -1
  BY <1>2, <1>4, <1>5, <1>6 DEF Rounds
<1> QED
  BY <1>2, <1>3, <1>7 DEF aff, Settles, LeavesScratch

\* What changes before r is settled may disturb only what is not in its place.
LEMMA SettlesAfter ==
  ASSUME NEW y \in Rounds, NEW z, NEW r, NEW y1 \in Rounds,
         Carries(y.m, y1.m), y1.dirty = y.dirty, y1.affected = y.affected, y1.will_load = y.will_load,
         \A q \in Regs : q # r /\ y.m.at[q] = target.at[q] /\ target.at[q] # None =>
           y1.m.at[q] = target.at[q] /\ (q \in y1.m.dirty <=> q \in y.m.dirty),
         Settles(y1, z, r)
  PROVE  Settles(y, z, r)
<1>1. Carries(y.m, z.m)
  BY CarriesOn DEF Settles
<1> QED
  BY <1>1 DEF Settles

(* When a free register waits for its value, it is settled: the value is
   moved in, or, being in no register, noted to be loaded. *)
LEMMA BringIs ==
  ASSUME arch \in Archs, IsTarget(target, Regs), NEW r \in Regs, target.at[r] # None,
         NEW y \in Rounds, Sound(y.m, Regs), y.m.at[r] = None,
         r \in y.will_load => Away(y.m, target.at[r]),
         NEW z, z = Bring(y, r)
  PROVE  Settles(y, z, r) /\ LeavesScratch(y, z) /\ (z.run = -1 \/ (z.m = y.m /\ z.run = y.run))
<1> DEFINE w == target.at[r]
           src == RegOf(y.m, w)
<1>0. /\ None \notin Works /\ None \notin Regs
      /\ w \in Works
      /\ y.m \in Machines(Regs) /\ y.dirty \subseteq Regs /\ y.affected \subseteq Regs
      /\ y.will_load \subseteq Regs /\ y.run \in Int
      /\ \A p, q \in Regs : target.at[p] = target.at[q] => p = q \/ target.at[p] = None
  BY NoneApart, TargetFacts, SoundFacts DEF Rounds, Regs
<1>1. /\ src # None => src \in Regs /\ y.m.at[src] = w
      /\ src = None <=> Away(y.m, w)
  BY <1>0, RegOfIs
<1>2. CASE src = None
  <2> DEFINE aff == y.affected \ {r}
             load == IF w \in target.live_in THEN y.will_load \cup {r} ELSE y.will_load
  <2>1. z = [y EXCEPT !.affected = aff, !.will_load = load]
    BY <1>0, <1>2 DEF Bring, Rounds
  <2>2. aff \in SUBSET Regs /\ load \in SUBSET Regs
    BY <1>0
  <2> HIDE DEF aff, load
  <2>3. /\ z \in Rounds /\ z.m = y.m /\ z.run = y.run /\ z.dirty = y.dirty
        /\ z.affected = aff /\ z.will_load = load
    BY <2>1, <2>2 DEF Rounds
  <2>4. Carries(y.m, z.m) /\ Away(z.m, target.at[r])
    BY <1>1, <1>2, <2>3, CarriesNothing
  <2> QED
    BY <2>3, <2>4 DEF Settles, LeavesScratch, aff, load
<1>3. CASE src # None
  <2> DEFINE x == OnMove(y.m, w, r, src)
             y1 == [y EXCEPT !.m = x]
  <2>1. z = Match(y1, r)
    BY <1>3 DEF Bring
  <2>2. x = OnMove(y.m, y.m.at[src], r, src) /\ src \in Regs /\ y.m.at[src] # None
    BY <1>0, <1>1, <1>3
  <2> HIDE DEF x, src
  <2>3. /\ Carries(y.m, x) /\ Sound(x, Regs)
        /\ \A q \in Regs : x.at[q] = IF q = r THEN y.m.at[src] ELSE IF q = src THEN None ELSE y.m.at[q]
        /\ \A q \in Regs : x.regs[q] = IF q = r THEN y.m.regs[src] ELSE y.m.regs[q]
        /\ \A q \in Regs : q \in x.dirty <=> IF q = r THEN src \in y.m.dirty ELSE q # src /\ q \in y.m.dirty
    BY <2>2, MoveCarries, MoveIs
  <2>4. x \in Machines(Regs)
    BY <2>3, SoundFacts
  <2>5. /\ y1 \in Rounds /\ y1.m = x /\ y1.run = y.run /\ y1.dirty = y.dirty
        /\ y1.affected = y.affected /\ y1.will_load = y.will_load
    BY <2>4 DEF Rounds
  <2> HIDE DEF y1
  <2>6. x.at[r] = w /\ r \notin y.will_load
    BY <1>0, <1>1, <1>3, <2>3
  <2>7. Settles(y1, z, r) /\ LeavesScratch(y1, z) /\ z.run = -1
    BY <2>1, <2>3, <2>5, <2>6, MatchIs
  <2>8. \A q \in Regs : q # r /\ y.m.at[q] = target.at[q] /\ target.at[q] # None =>
          y1.m.at[q] = target.at[q] /\ (q \in y1.m.dirty <=> q \in y.m.dirty)
    BY <1>0, <1>1, <1>3, <2>3, <2>5
  <2>9. Settles(y, z, r)
    BY <2>3, <2>5, <2>7, <2>8, SettlesAfter
  <2>10. LeavesScratch(y, z)
    BY <2>3, <2>5, <2>7 DEF LeavesScratch
  <2> QED
    BY <2>7, <2>9, <2>10
<1> QED
  BY <1>2, <1>3

\* The register is cleared, and nothing that is in its place moves.
LEMMA MakeWayIs ==
  ASSUME arch \in Archs, NEW r \in Regs,
         NEW y \in Rounds, Sound(y.m, Regs), y.m.at[r] # None,
         NEW x, x = MakeWay(y, r)
  PROVE  /\ Carries(y.m, x) /\ Sound(x, Regs) /\ x.at[r] = None
         /\ \A q \in Regs : q # r /\ y.m.at[q] # None =>
              x.at[q] = y.m.at[q] /\ (q \in x.dirty <=> q \in y.m.dirty)
<1> DEFINE free == Regs \ Assigned(y.m)
           tmp == IF free \ Assigned(target) # {} THEN free \ Assigned(target) ELSE free
<1>0. /\ \A q : q \in Assigned(y.m) <=> q \in Regs /\ y.m.at[q] # None
      /\ {r} \subseteq Assigned(y.m) /\ y.m.dirty \subseteq Regs
      /\ None \notin Works /\ Regs \subseteq Nat
  BY SoundFacts, NoneApart DEF Regs
<1>1. CASE r \notin y.m.dirty
  <2>1. x = Unassign(y.m, r) /\ x = UnassignAll(y.m, {r})
    BY <1>1 DEF MakeWay, Unassign
  <2>2. Carries(y.m, x)
    BY <1>1, <2>1, UnassignCleanCarries
  <2>3. /\ Sound(x, Regs) /\ x.dirty = y.m.dirty \ {r}
        /\ \A q \in Regs : x.at[q] = IF q \in {r} THEN None ELSE y.m.at[q]
    BY <1>0, <2>1, UnassignAllIs
  <2> QED
    BY <2>2, <2>3
<1>2. CASE r \in y.m.dirty /\ tmp # {}
  <2>0. PICK d : d = Min(tmp)
    OBVIOUS
  <2>1. d \in free
    <3>1. tmp \in SUBSET Nat /\ tmp \subseteq free
      BY <1>0
    <3> HIDE DEF tmp
    <3>2. Min(tmp) \in tmp
      BY <1>2, <3>1, MinOfNats
    <3> QED
      BY <2>0, <3>1, <3>2
  <2>2. x = OnMove(y.m, y.m.at[r], d, r)
    BY <1>2, <2>0 DEF MakeWay
  <2>3. d \in Regs /\ y.m.at[d] = None
    BY <1>0, <2>1
  <2>4. /\ Carries(y.m, x) /\ Sound(x, Regs)
        /\ \A q \in Regs : x.at[q] = IF q = d THEN y.m.at[r] ELSE IF q = r THEN None ELSE y.m.at[q]
        /\ \A q \in Regs : q \in x.dirty <=> IF q = d THEN r \in y.m.dirty ELSE q # r /\ q \in y.m.dirty
    BY <2>2, <2>3, MoveCarries, MoveIs
  <2> QED
    BY <2>3, <2>4
<1>3. CASE r \in y.m.dirty /\ tmp = {}
  <2>1. x = SpillAll(y.m, {r})
    BY <1>3 DEF MakeWay, OnSpill
  <2>2. Carries(y.m, x)
    BY <1>0, <2>1, SpillCarries
  <2>3. /\ Sound(x, Regs) /\ x.dirty = y.m.dirty \ {r}
        /\ \A q \in Regs : x.at[q] = IF q \in {r} THEN None ELSE y.m.at[q]
    BY <1>0, <2>1, SpillAllIs
  <2> QED
    BY <2>2, <2>3
<1> QED
  BY <1>1, <1>2, <1>3

\* STEP 2 for one register: it is settled, or waits for the one that is in its
\* way, and only while no round has been without effect.
LEMMA SettleIs ==
  ASSUME arch \in Archs, IsTarget(target, Regs), NEW r \in Regs, target.at[r] # None,
         NEW y, InRound(y), NEW z, z = Settle(y, r)
  PROVE  /\ \/ /\ z = y /\ y.m.at[r] \notin {None, target.at[r]}
               /\ y.run <= 0 \/ Away(y.m, target.at[r])
            \/ /\ Settles(y, z, r)
               /\ z.run = -1 \/ (z.m = y.m /\ z.run = y.run /\ y.m.at[r] = None)
         /\ arch.has_swap
              /\ (y.run <= 0 \/ \A q \in Regs : y.m.at[q] = target.at[r] => target.at[q] # None)
            => LeavesScratch(y, z)
<1> DEFINE w == target.at[r]
           src == RegOf(y.m, w)
<1>0. /\ None \notin Works /\ None \notin Regs /\ Regs \subseteq Nat
      /\ w \in Works
      /\ y \in Rounds /\ Sound(y.m, Regs)
      /\ y.m \in Machines(Regs) /\ y.dirty \subseteq Regs /\ y.affected \subseteq Regs
      /\ y.will_load \subseteq Regs /\ y.run \in Int
      /\ \A p, q \in Regs : target.at[p] = target.at[q] => p = q \/ target.at[p] = None
      /\ \A q \in y.will_load : Away(y.m, target.at[q])
      /\ -1 \in Int
  BY NoneApart, TargetFacts, SoundFacts DEF Rounds, Regs, InRound, Switching
<1>1. /\ src # None => src \in Regs /\ y.m.at[src] = w
      /\ src = None <=> Away(y.m, w)
  BY <1>0, RegOfIs
<1>2. CASE y.m.at[r] = w
  <2>1. z = Match(y, r)
    BY <1>2 DEF Settle
  <2>2. r \notin y.will_load
    BY <1>0, <1>2, AwayIs
  <2> QED
    BY <1>0, <1>2, <2>1, <2>2, MatchIs
<1>3. CASE y.m.at[r] # w /\ y.m.at[r] = None
  <2>1. z = Bring(y, r)
    BY <1>3 DEF Settle
  <2> QED
    BY <1>0, <1>3, <2>1, BringIs
<1>4. CASE y.m.at[r] \notin {w, None} /\ (y.run <= 0 \/ src = None)
  <2>1. z = y
    BY <1>4 DEF Settle
  <2>2. LeavesScratch(y, z)
    BY <2>1 DEF LeavesScratch
  <2> QED
    BY <1>1, <1>4, <2>1, <2>2
<1>5. CASE y.m.at[r] \notin {w, None} /\ ~(y.run <= 0 \/ src = None) /\ arch.has_swap
  <2> DEFINE x == OnSwap(y.m, r, src)
             y1 == [y EXCEPT !.m = x]
  <2>1. z = Match(y1, r)
    BY <1>5 DEF Settle
  <2>2. src \in Regs /\ y.m.at[src] = w /\ src # r /\ y.m.at[src] # None /\ y.m.at[r] # None /\ ~(y.run <= 0)
    BY <1>0, <1>1, <1>5
  <2> HIDE DEF src
  <2>3. x = OnSwap(y.m, r, src)
    OBVIOUS
  <2> HIDE DEF x
  <2>4. /\ Carries(y.m, x) /\ Sound(x, Regs)
        /\ \A q \in Regs : x.at[q] = IF q = r THEN y.m.at[src] ELSE IF q = src THEN y.m.at[r] ELSE y.m.at[q]
        /\ \A q \in Regs : x.regs[q] = IF q = r THEN y.m.regs[src] ELSE IF q = src THEN y.m.regs[r] ELSE y.m.regs[q]
        /\ \A q \in Regs : q \in x.dirty <=>
             IF q = r THEN src \in y.m.dirty ELSE IF q = src THEN r \in y.m.dirty ELSE q \in y.m.dirty
    BY <1>0, <2>2, <2>3, SwapCarries, SwapIs
  <2>5. x \in Machines(Regs)
    BY <2>4, SoundFacts
  <2>6. /\ y1 \in Rounds /\ y1.m = x /\ y1.run = y.run /\ y1.dirty = y.dirty
        /\ y1.affected = y.affected /\ y1.will_load = y.will_load
    BY <1>0, <2>5 DEF Rounds
  <2> HIDE DEF y1
  <2>7. x.at[r] = w /\ r \notin y.will_load
    BY <1>0, <2>2, <2>4, AwayIs
  <2>8. Settles(y1, z, r) /\ LeavesScratch(y1, z) /\ z.run = -1
    BY <2>1, <2>4, <2>6, <2>7, MatchIs
  <2>9. \A q \in Regs : q # r /\ y.m.at[q] = target.at[q] /\ target.at[q] # None =>
          y1.m.at[q] = target.at[q] /\ (q \in y1.m.dirty <=> q \in y.m.dirty)
    BY <1>0, <2>2, <2>4, <2>6
  <2>10. Settles(y, z, r)
    BY <1>0, <2>4, <2>6, <2>8, <2>9, SettlesAfter
  <2>11. ASSUME \A q \in Regs : y.m.at[q] = target.at[r] => target.at[q] # None
         PROVE  LeavesScratch(y, z)
    <3>1. target.at[src] # None
      BY <2>2, <2>11
    <3> QED
      BY <2>2, <2>4, <2>6, <2>8, <3>1 DEF LeavesScratch
  <2> QED
    BY <2>2, <2>8, <2>10, <2>11
<1>6. CASE y.m.at[r] \notin {w, None} /\ ~(y.run <= 0 \/ src = None) /\ ~arch.has_swap
  <2> DEFINE x == MakeWay(y, r)
             y1 == [y EXCEPT !.m = x, !.run = -1]
  <2>1. z = Bring(y1, r)
    BY <1>6 DEF Settle
  <2>2. y.m.at[r] # None /\ y.m.at[r] # w
    BY <1>6
  <2>3. x = MakeWay(y, r)
    OBVIOUS
  <2> HIDE DEF x
  <2>4. /\ Carries(y.m, x) /\ Sound(x, Regs) /\ x.at[r] = None
        /\ \A q \in Regs : q # r /\ y.m.at[q] # None =>
             x.at[q] = y.m.at[q] /\ (q \in x.dirty <=> q \in y.m.dirty)
    BY <1>0, <2>2, <2>3, MakeWayIs
  <2>5. x \in Machines(Regs)
    BY <2>4, SoundFacts
  <2>6. /\ y1 \in Rounds /\ y1.m = x /\ y1.run = -1 /\ y1.dirty = y.dirty
        /\ y1.affected = y.affected /\ y1.will_load = y.will_load
    <3>1. PICK k \in Int : k = -1
      BY <1>0
    <3>2. y1 = [y EXCEPT !.m = x, !.run = k]
      BY <3>1
    <3> HIDE DEF y1
    <3>3. y \in Rounds
      BY <1>0
    <3>4. /\ y1 \in Rounds /\ y1.m = x /\ y1.run = k /\ y1.dirty = y.dirty
          /\ y1.affected = y.affected /\ y1.will_load = y.will_load
      BY <2>5, <3>2, <3>3 DEF Rounds
    <3> QED
      BY <3>1, <3>4
  <2> HIDE DEF y1
  <2>7. r \in y1.will_load => Away(y1.m, target.at[r])
    BY <1>0, <2>4, <2>6 DEF Carries
  <2>8. Settles(y1, z, r) /\ (z.run = -1 \/ (z.m = y1.m /\ z.run = y1.run))
    BY <2>1, <2>4, <2>6, <2>7, BringIs
  <2>9. \A q \in Regs : q # r /\ y.m.at[q] = target.at[q] /\ target.at[q] # None =>
          y1.m.at[q] = target.at[q] /\ (q \in y1.m.dirty <=> q \in y.m.dirty)
    BY <2>4, <2>6
  <2>10. Settles(y, z, r)
    BY <1>0, <2>4, <2>6, <2>8, <2>9, SettlesAfter
  <2> QED
    BY <1>6, <2>6, <2>8, <2>10
<1> QED
  BY <1>2, <1>3, <1>4, <1>5, <1>6

(* Settling one register leaves the round in order. *)
LEMMA SettledRound ==
  ASSUME arch \in Archs, IsTarget(target, Regs), NEW r \in Regs, target.at[r] # None,
         NEW y, InRound(y), NEW z, Settles(y, z, r)
  PROVE  InRound(z)
<1>0. /\ y.m \in Machines(Regs) /\ y.dirty \subseteq Regs /\ y.affected \subseteq Regs
      /\ y.will_load \subseteq Regs /\ y.run \in Int
      /\ z.m \in Machines(Regs) /\ z.dirty \subseteq Regs /\ z.affected \subseteq Regs
      /\ z.will_load \subseteq Regs
      /\ \A q : q \in Assigned(target) <=> q \in Regs /\ target.at[q] # None
      /\ \A q \in Regs : target.at[q] # None => target.at[q] \in Works
  BY TargetFacts DEF InRound, Rounds, Settles
<1>1. /\ y.dirty \subseteq Assigned(target) /\ y.affected \subseteq Assigned(target)
      /\ y.will_load \subseteq Assigned(target) /\ \A q \in y.will_load : Away(y.m, target.at[q])
      /\ \A q \in y.will_load : target.at[q] \in target.live_in
  BY DEF InRound, Switching
<1>2. Sound(z.m, Regs)
  BY DEF Settles, Carries, InRound
<1>3. /\ z.dirty \subseteq Assigned(target) /\ z.affected \subseteq Assigned(target)
      /\ z.will_load \subseteq Assigned(target)
  BY <1>0, <1>1 DEF Settles
<1>4. \A q \in z.will_load : Away(z.m, target.at[q]) /\ target.at[q] \in target.live_in
  <2>1. ASSUME NEW q \in z.will_load PROVE Away(z.m, target.at[q]) /\ target.at[q] \in target.live_in
    <3>1. CASE q = r
      BY <1>1, <2>1, <3>1 DEF Settles
    <3>2. CASE q # r
      <4>1. q \in y.will_load
        BY <2>1, <3>2 DEF Settles
      <4>2. Away(y.m, target.at[q]) /\ target.at[q] \in Works /\ target.at[q] \in target.live_in
        BY <1>0, <1>1, <4>1
      <4> QED
        BY <4>2 DEF Settles, Carries
    <3> QED
      BY <3>1, <3>2
  <2> QED
    BY <2>1
<1>5. ASSUME ~sw.try
      PROVE  /\ \A w \in Works : Away(target, w) \/ w \notin target.live_in => Away(z.m, w)
             /\ \A q \in Assigned(target) \ (z.affected \cup z.will_load) :
                  target.at[q] \in target.live_in => z.m.at[q] = target.at[q] /\ (q \in z.m.dirty <=> q \in z.dirty)
  <2>1. /\ \A w \in Works : Away(target, w) \/ w \notin target.live_in => Away(y.m, w)
        /\ \A q \in Assigned(target) \ (y.affected \cup y.will_load) :
             target.at[q] \in target.live_in => y.m.at[q] = target.at[q] /\ (q \in y.m.dirty <=> q \in y.dirty)
    BY <1>5 DEF InRound, Switching
  <2>2. \A w \in Works : Away(target, w) \/ w \notin target.live_in => Away(z.m, w)
    BY <2>1 DEF Settles, Carries
  <2>3. ASSUME NEW q \in Assigned(target) \ (z.affected \cup z.will_load), target.at[q] \in target.live_in
        PROVE  z.m.at[q] = target.at[q] /\ (q \in z.m.dirty <=> q \in z.dirty)
    <3>1. CASE q = r
      BY <2>3, <3>1 DEF Settles
    <3>2. CASE q # r
      <4>0. z.affected = y.affected \ {r} /\ y.will_load \subseteq z.will_load
        BY DEF Settles
      <4>1. q \notin y.affected /\ q \notin y.will_load /\ q \in Assigned(target)
        <5>1. q \in Assigned(target) /\ q \notin z.affected /\ q \notin z.will_load
          BY <2>3
        <5> QED
          BY <3>2, <4>0, <5>1
      <4>2. y.m.at[q] = target.at[q] /\ (q \in y.m.dirty <=> q \in y.dirty) /\ q \in Regs /\ target.at[q] # None
        BY <1>0, <2>1, <2>3, <4>1
      <4> QED
        BY <3>2, <4>2 DEF Settles
    <3> QED
      BY <3>1, <3>2
  <2> QED
    BY <2>2, <2>3
<1>6. z \in Rounds
  BY DEF Settles
<1> QED
  BY <1>2, <1>3, <1>4, <1>5, <1>6 DEF InRound, Switching

-------------------------------------------------------------------------------
(* A round of the switch *)

\* NatRecursion as a named fact
Recurs(T, a, g) == \E f \in [Nat -> T] : f[0] = a /\ \A n \in Nat : f[n + 1] = g[f[n]]

(* A function defined from its predecessor's value satisfies its recursion: each value is given
   by the one before. *)
LEMMA RecursionRecurs ==
  ASSUME NEW T, NEW a \in T, NEW g \in [T -> T]
  PROVE  Recurs(T, a, g)
<1>1. \E f \in [Nat -> T] : f[0] = a /\ \A n \in Nat : f[n + 1] = g[f[n]]
  BY NatRecursion
<1> QED
  BY <1>1 DEF Recurs

\* Recursion whose step depends on how far it has come
Unrolls(T, a, h) == \E f \in [Nat -> T] : f[0] = a /\ \A n \in Nat : f[n + 1] = h[n][f[n]]

(* The same for a step that depends on the count. *)
LEMMA CountedRecursion ==
  ASSUME NEW T, NEW a \in T, NEW h \in [Nat -> [T -> T]]
  PROVE  Unrolls(T, a, h)
<1> DEFINE C == [k : Nat, y : T]
           ac == [k |-> 0, y |-> a]
           gc == [p \in C |-> [k |-> p.k + 1, y |-> h[p.k][p.y]]]
<1>1. ac \in C
  OBVIOUS
<1>2. gc \in [C -> C]
  <2>1. ASSUME NEW p \in C PROVE [k |-> p.k + 1, y |-> h[p.k][p.y]] \in C
    <3>1. p.k \in Nat /\ p.y \in T
      OBVIOUS
    <3>2. p.k + 1 \in Nat /\ h[p.k] \in [T -> T]
      BY <3>1
    <3> QED
      BY <3>1, <3>2
  <2> QED
    BY <2>1
<1>3. \A p \in C : gc[p].k = p.k + 1 /\ gc[p].y = h[p.k][p.y]
  OBVIOUS
<1>4. ac.k = 0 /\ ac.y = a
  OBVIOUS
<1>5. \A p \in C : p.k \in Nat /\ p.y \in T
  OBVIOUS
<1>6. PICK D : D = C
  OBVIOUS
<1>7. PICK b \in D : b = ac
  BY <1>1, <1>6
<1>8. PICK g \in [D -> D] : g = gc
  BY <1>2, <1>6
<1>9. PICK s \in [Nat -> D] : s[0] = b /\ \A n \in Nat : s[n + 1] = g[s[n]]
  <2>1. Recurs(D, b, g)
    BY RecursionRecurs
  <2> QED
    BY <2>1 DEF Recurs
<1> DEFINE At == {n \in Nat : s[n].k = n}
<1>10. \A n \in Nat : s[n] \in C /\ s[n].y \in T
  BY <1>5, <1>6
<1>11. \A n \in Nat : s[n + 1].k = s[n].k + 1 /\ s[n + 1].y = h[s[n].k][s[n].y]
  BY <1>3, <1>8, <1>9, <1>10
<1> HIDE DEF C, ac, gc
<1>12. \A n \in Nat : s[n].k = n
  <2>1. 0 \in At
    BY <1>4, <1>7, <1>9
  <2>2. ASSUME NEW n \in Nat, n \in At PROVE n + 1 \in At
    BY <1>11, <2>2
  <2> HIDE DEF At
  <2>3. Inductive(At)
    BY <2>1, <2>2 DEF Inductive
  <2>4. Nat \subseteq At
    BY <2>3, InductiveHasNat
  <2> QED
    BY <2>4 DEF At
<1> DEFINE f == [n \in Nat |-> s[n].y]
<1>13. f \in [Nat -> T]
  BY <1>10
<1>14. f[0] = a
  BY <1>4, <1>7, <1>9
<1>15. ASSUME NEW n \in Nat PROVE f[n + 1] = h[n][f[n]]
  <2>1. f[n] = s[n].y
    OBVIOUS
  <2>2. n + 1 \in Nat
    OBVIOUS
  <2>3. f[n + 1] = s[n + 1].y
    BY <2>2
  <2>4. s[n + 1].y = h[s[n].k][s[n].y] /\ s[n].k = n
    BY <1>11, <1>12
  <2> QED
    BY <2>1, <2>3, <2>4
<1> HIDE DEF f
<1> QED
  BY <1>13, <1>14, <1>15 DEF Unrolls

FirstRound ==
  [m |-> m, dirty |-> sw.dirty, affected |-> sw.affected, will_load |-> sw.will_load, run |-> sw.run + 1]

\* The registers of the target, one after the other
Walk(f) ==
  f = [r \in Nat |->
         IF r = 0 THEN FirstRound
         ELSE IF r - 1 \in sw.affected THEN Settle(f[r - 1], r - 1) ELSE f[r - 1]]

(* A round of switch_to_assignment starts in order, with one more run on its counter. *)
LEMMA FirstRoundIs ==
  ASSUME SwitchInv, Sound(m, Regs)
  PROVE  /\ InRound(FirstRound)
         /\ FirstRound.m = m /\ FirstRound.dirty = sw.dirty /\ FirstRound.affected = sw.affected
         /\ FirstRound.will_load = sw.will_load /\ FirstRound.run = sw.run + 1
<1>1. /\ sw.dirty \in SUBSET Regs /\ sw.affected \in SUBSET Regs /\ sw.will_load \in SUBSET Regs
      /\ sw.run \in Int
  BY DEF SwitchInv, Switches
<1>2. m \in Machines(Regs) /\ sw.run + 1 \in Int
  BY <1>1, SoundFacts
<1>3. /\ FirstRound.m = m /\ FirstRound.dirty = sw.dirty /\ FirstRound.affected = sw.affected
      /\ FirstRound.will_load = sw.will_load /\ FirstRound.run = sw.run + 1
  BY DEF FirstRound
<1>4. FirstRound \in Rounds
  BY <1>1, <1>2 DEF Rounds, FirstRound
<1> QED
  BY <1>3, <1>4 DEF InRound, SwitchInv

(* The walk over the registers that a round is defined by exists. *)
LEMMA WalkExists ==
  ASSUME arch \in Archs, SwitchInv, Sound(m, Regs)
  PROVE  \E f : Walk(f)
<1> DEFINE T == {y \in Rounds : InRound(y)}
           h == [r \in Nat |-> [y \in T |-> IF r \in sw.affected THEN Settle(y, r) ELSE y]]
<1>1. FirstRound \in T
  BY FirstRoundIs DEF InRound
<1>2. \A r \in sw.affected : r \in Regs /\ target.at[r] # None
  BY DEF SwitchInv, Switching, Assigned, IsTarget, Targets
<1>3. ASSUME NEW r \in Nat, NEW y \in T PROVE (IF r \in sw.affected THEN Settle(y, r) ELSE y) \in T
  <2>1. CASE r \in sw.affected
    <3>1. InRound(y) /\ r \in Regs /\ target.at[r] # None /\ IsTarget(target, Regs)
      BY <1>2, <2>1 DEF SwitchInv
    <3>2. PICK z : z = Settle(y, r)
      OBVIOUS
    <3>3. z = y \/ Settles(y, z, r)
      BY <3>1, <3>2, SettleIs
    <3>4. InRound(z)
      BY <3>1, <3>3, SettledRound
    <3>5. z \in Rounds
      BY <3>4 DEF InRound
    <3> QED
      BY <2>1, <3>2, <3>4, <3>5
  <2>2. CASE r \notin sw.affected
    BY <2>2
  <2> QED
    BY <2>1, <2>2
<1>4. h \in [Nat -> [T -> T]]
  BY <1>3
<1>5. \A r \in Nat : \A y \in T : h[r][y] = IF r \in sw.affected THEN Settle(y, r) ELSE y
  OBVIOUS
<1>6. PICK D : D = T
  OBVIOUS
<1>7. PICK b \in D : b = FirstRound
  BY <1>1, <1>6
<1>8. PICK g \in [Nat -> [D -> D]] : g = h
  BY <1>4, <1>6
<1> HIDE DEF T, h
<1>9. PICK f \in [Nat -> D] : f[0] = b /\ \A n \in Nat : f[n + 1] = g[n][f[n]]
  <2>1. Unrolls(D, b, g)
    BY CountedRecursion
  <2> QED
    BY <2>1 DEF Unrolls
<1>10. ASSUME NEW r \in Nat, r # 0
       PROVE  f[r] = IF r - 1 \in sw.affected THEN Settle(f[r - 1], r - 1) ELSE f[r - 1]
  <2>1. PICK k \in Nat : k = r - 1
    BY <1>10
  <2>2. k + 1 = r
    BY <2>1
  <2>3. f[k] \in T /\ f[r] = h[k][f[k]]
    BY <1>6, <1>8, <1>9, <2>2
  <2>4. f[r] = IF k \in sw.affected THEN Settle(f[k], k) ELSE f[k]
    BY <1>5, <2>3
  <2> QED
    BY <2>1, <2>4
<1>11. Walk(f)
  BY <1>7, <1>9, <1>10 DEF Walk
<1> QED
  BY <1>11

\* A finite set of numbers has a bound.
LEMMA FiniteHasBound ==
  ASSUME NEW S \in SUBSET Nat, IsFiniteSet(S)
  PROVE  \E k \in Nat : \A x \in S : x <= k
<1>1. PICK n \in Nat : ExistsSurjection(1 .. n, S)
  BY FS_NatSurjection
<1>2. PICK f \in [1 .. n -> S] : \A x \in S : \E i \in 1 .. n : f[i] = x
  BY <1>1 DEF ExistsSurjection, Surjection
<1> DEFINE B == {j \in Nat : j <= n => \E k \in Nat : \A i \in 1 .. j : f[i] <= k}
<1>3. 0 \in B
  OBVIOUS
<1>4. ASSUME NEW j \in Nat, j \in B PROVE j + 1 \in B
  <2>1. CASE j + 1 <= n
    <3>1. PICK k \in Nat : \A i \in 1 .. j : f[i] <= k
      BY <1>4, <2>1
    <3>2. PICK l \in Nat : l = f[j + 1]
      <4>1. j + 1 \in 1 .. n
        BY <2>1
      <4>2. f[j + 1] \in S
        BY <1>2, <4>1
      <4> QED
        BY <4>2
    <3>3. PICK b \in Nat : k <= b /\ l <= b
      <4>1. CASE k <= l
        BY <4>1
      <4>2. CASE ~(k <= l)
        BY <4>2
      <4> QED
        BY <4>1, <4>2
    <3>4. \A i \in 1 .. j + 1 : f[i] <= b
      <4>1. ASSUME NEW i \in 1 .. j + 1 PROVE f[i] <= b
        <5>1. CASE i = j + 1
          BY <3>2, <3>3, <5>1
        <5>2. CASE i # j + 1
          <6>1. i \in 1 .. j /\ i \in 1 .. n
            BY <2>1, <5>2
          <6>2. f[i] <= k /\ f[i] \in Nat
            BY <3>1, <6>1
          <6> QED
            BY <3>3, <6>2
        <5> QED
          BY <5>1, <5>2
      <4> QED
        BY <4>1
    <3> QED
      BY <3>4
  <2>2. CASE ~(j + 1 <= n)
    BY <2>2
  <2> QED
    BY <2>1, <2>2
<1> HIDE DEF B
<1>5. Inductive(B)
  BY <1>3, <1>4 DEF Inductive
<1>6. n \in B
  BY <1>5, InductiveHasNat
<1>7. PICK k \in Nat : \A i \in 1 .. n : f[i] <= k
  BY <1>6 DEF B
<1> QED
  BY <1>2, <1>7

(* The highest register is a number no register exceeds. *)
LEMMA MaxOfRegs ==
  ASSUME arch \in Archs
  PROVE  Max(Regs) \in Nat /\ \A r \in Regs : r \in Nat /\ r <= Max(Regs)
<1>1. Regs \in SUBSET Nat /\ IsFiniteSet(Regs) /\ Regs # {}
  BY NoneApart DEF Regs
<1>2. PICK k \in Nat : \A x \in Regs : x <= k
  BY <1>1, FiniteHasBound
<1>3. Max(Regs) \in Regs /\ \A x \in Regs : x <= Max(Regs)
  BY <1>1, <1>2, MaxOfNats
<1> QED
  BY <1>1, <1>3

\* Registers in each other's way form cycles: what each of them is to hold is in
\* another one of them.
LEMMA StuckIsCycles ==
  ASSUME arch \in Archs, SwitchInv, Sound(m, Regs), ~sw.try, Stuck(m, target, sw.affected),
         NEW r \in sw.affected
  PROVE  \E q \in sw.affected : m.at[q] = target.at[r]
<1> DEFINE S == sw.affected
           next_of(p) == CHOOSE q \in S : target.at[q] = m.at[p]
           f == [p \in S |-> next_of(p)]
<1>0. /\ IsTarget(target, Regs) /\ Switching(m, target, sw.dirty, sw.affected, sw.will_load, sw.try)
      /\ S \subseteq Assigned(target) /\ Regs \subseteq Nat /\ IsFiniteSet(Regs)
  BY NoneApart DEF SwitchInv, Switching, Regs
<1>1. /\ DOMAIN target.at = Regs /\ DOMAIN m.at = Regs
      /\ m.at \in [Regs -> Works \cup {None}]
      /\ \A p, q \in Regs : target.at[p] = target.at[q] => p = q \/ target.at[p] = None
      /\ \A p, q \in Regs : m.at[p] = m.at[q] => p = q \/ m.at[p] = None
      /\ \A q : q \in Assigned(target) <=> q \in Regs /\ target.at[q] # None
  BY <1>0, TargetFacts, SoundFacts
<1>2. /\ \A w \in Works : Away(target, w) \/ w \notin target.live_in => Away(m, w)
      /\ \A q \in Assigned(target) \ (S \cup sw.will_load) :
           target.at[q] \in target.live_in => m.at[q] = target.at[q]
      /\ \A q \in sw.will_load : Away(m, target.at[q])
  BY <1>0 DEF Switching
<1>3. \A p \in S : p \in Regs /\ m.at[p] \in Works /\ m.at[p] # None /\ m.at[p] # target.at[p] /\ target.at[p] # None
  BY <1>0, <1>1 DEF Stuck
<1> HIDE DEF S
<1>4. ASSUME NEW p \in S PROVE \E q \in S : target.at[q] = m.at[p]
  <2>1. ~Away(m, m.at[p])
    BY <1>1, <1>3 DEF Away
  <2>2. PICK q \in Regs : target.at[q] = m.at[p]
    BY <1>1, <1>2, <1>3, <2>1 DEF Away
  <2>3. q \in Assigned(target)
    BY <1>1, <1>3, <2>2
  <2>4. q \notin sw.will_load
    BY <1>2, <2>1, <2>2
  <2>5. CASE q \in S
    BY <2>2, <2>5
  <2>6. CASE q \notin S
    <3>0. target.at[q] \in target.live_in
      BY <1>2, <1>3, <2>1, <2>2
    <3>1. m.at[q] = m.at[p]
      BY <1>2, <2>2, <2>3, <2>4, <2>6, <3>0
    <3>2. q = p
      BY <1>1, <1>3, <3>1
    <3> QED
      BY <2>6, <3>2
  <2> QED
    BY <2>5, <2>6
<1>5. \A p \in S : next_of(p) \in S /\ target.at[next_of(p)] = m.at[p]
  BY <1>4
<1>6. f \in [S -> S] /\ \A p \in S : target.at[f[p]] = m.at[p]
  BY <1>5
<1> HIDE DEF f, next_of
<1>7. ASSUME NEW p \in S, NEW q \in S, f[p] = f[q] PROVE p = q
  <2>1. m.at[p] = m.at[q]
    BY <1>6, <1>7
  <2> QED
    BY <1>1, <1>3, <2>1
<1>8. IsFiniteSet(S)
  BY <1>0, <1>3, FS_Subset
<1>9. f \in Injection(S, S)
  BY <1>6, <1>7 DEF Injection, IsInjective
<1>10. f \in Surjection(S, S)
  BY <1>8, <1>9, FS_Injection
<1>11. PICK q \in S : f[q] = r
  BY <1>10 DEF Surjection, S
<1> QED
  BY <1>6, <1>11 DEF S

\* After the registers below k: what is settled, and that a register that is not
\* was in another one's way when no round had had an effect.
Walked(y, k) ==
  /\ InRound(y) /\ Carries(m, y.m)
  /\ y.affected \subseteq sw.affected /\ (\A r \in sw.affected : r >= k => r \in y.affected)
  /\ y = FirstRound \/ y.affected # sw.affected
  /\ \/ y.run = -1
     \/ /\ y.m = m /\ y.run = sw.run + 1
        /\ \A r \in sw.affected \ y.affected : m.at[r] = None
        /\ \A r \in y.affected : r < k =>
             m.at[r] \notin {None, target.at[r]} /\ (y.run <= 0 \/ Away(m, target.at[r]))

\* When no round has been without effect, or what is in a register's way is in a
\* register of the target
InsideTarget ==
  arch.has_swap /\ (sw.run + 1 <= 0 \/
    \A r \in sw.affected : \A q \in Regs : m.at[q] = target.at[r] => target.at[q] # None)

SparesScratch(y) == \A q \in Regs : target.at[q] = None => y.m.regs[q] = m.regs[q]

(* One step of the walk: the register with this number is settled, and those below stay so. *)
LEMMA WalkedOne ==
  ASSUME arch \in Archs, SwitchInv, Sound(m, Regs),
         NEW k \in Nat, k \in sw.affected, NEW y, Walked(y, k),
         NEW z, z = Settle(y, k)
  PROVE  Walked(z, k + 1) /\ (InsideTarget /\ SparesScratch(y) => SparesScratch(z))
<1>0. /\ IsTarget(target, Regs) /\ sw.run \in Int /\ InRound(y) /\ y.run \in Int
      /\ sw.affected \subseteq Regs /\ Regs \subseteq Nat
  BY NoneApart DEF SwitchInv, Switches, Walked, InRound, Rounds, Regs
<1>1. k \in Regs /\ target.at[k] # None
  BY TargetFacts DEF SwitchInv, Switching
<1>2. k \in y.affected
  BY DEF Walked
<1>3. /\ \/ /\ z = y /\ y.m.at[k] \notin {None, target.at[k]}
            /\ y.run <= 0 \/ Away(y.m, target.at[k])
         \/ /\ Settles(y, z, k)
            /\ z.run = -1 \/ (z.m = y.m /\ z.run = y.run /\ y.m.at[k] = None)
      /\ arch.has_swap
           /\ (y.run <= 0 \/ \A q \in Regs : y.m.at[q] = target.at[k] => target.at[q] # None)
         => LeavesScratch(y, z)
  BY <1>0, <1>1, SettleIs
<1>4. Walked(z, k + 1)
  <2>1. CASE z = y /\ y.m.at[k] \notin {None, target.at[k]} /\ (y.run <= 0 \/ Away(y.m, target.at[k]))
    <3>1. \A r \in sw.affected : r >= k + 1 => r >= k
      BY <1>0
    <3>2. ASSUME y.run # -1, NEW r \in y.affected, r < k + 1
          PROVE  m.at[r] \notin {None, target.at[r]} /\ (y.run <= 0 \/ Away(m, target.at[r]))
      <4>1. r \in Nat
        BY <1>0 DEF Walked
      <4>2. y.m = m
        BY <3>2 DEF Walked
      <4>3. CASE r = k
        BY <2>1, <4>2, <4>3
      <4>4. CASE r # k
        <5>1. r < k
          BY <3>2, <4>1, <4>4
        <5> QED
          BY <3>2, <5>1 DEF Walked
      <4> QED
        BY <4>3, <4>4
    <3> QED
      BY <2>1, <3>1, <3>2 DEF Walked
  <2>2. CASE Settles(y, z, k) /\ (z.run = -1 \/ (z.m = y.m /\ z.run = y.run /\ y.m.at[k] = None))
    <3>1. InRound(z)
      BY <1>0, <1>1, <2>2, SettledRound
    <3>2. Carries(m, z.m)
      BY <2>2, CarriesOn DEF Settles, Walked
    <3>3. z.affected = y.affected \ {k}
      BY <2>2 DEF Settles
    <3>4. z.affected \subseteq sw.affected /\ z.affected # sw.affected
      BY <3>3 DEF Walked
    <3>5. \A r \in sw.affected : r >= k + 1 => r \in z.affected
      <4>1. \A r \in sw.affected : r >= k + 1 => r >= k /\ r # k
        <5>1. \A r \in sw.affected : r \in Nat
          BY <1>0
        <5> QED
          BY <5>1
      <4>2. \A r \in sw.affected : r >= k => r \in y.affected
        BY DEF Walked
      <4> QED
        BY <3>3, <4>1, <4>2
    <3>6. ASSUME z.run # -1
          PROVE  /\ z.m = m /\ z.run = sw.run + 1
                 /\ \A r \in sw.affected \ z.affected : m.at[r] = None
                 /\ \A r \in z.affected : r < k + 1 =>
                      m.at[r] \notin {None, target.at[r]} /\ (z.run <= 0 \/ Away(m, target.at[r]))
      <4>1. z.m = y.m /\ z.run = y.run /\ y.m.at[k] = None
        BY <2>2, <3>6
      <4>2. /\ y.m = m /\ y.run = sw.run + 1
            /\ \A r \in sw.affected \ y.affected : m.at[r] = None
            /\ \A r \in y.affected : r < k =>
                 m.at[r] \notin {None, target.at[r]} /\ (y.run <= 0 \/ Away(m, target.at[r]))
        BY <3>6, <4>1 DEF Walked
      <4>3. \A r \in z.affected : r \in y.affected /\ r # k /\ r \in Nat
        BY <1>0, <3>3, <3>4
      <4>4. \A r \in z.affected : r < k + 1 => r < k
        BY <4>3
      <4> QED
        BY <3>3, <4>1, <4>2, <4>3, <4>4
    <3> QED
      BY <3>1, <3>2, <3>4, <3>5, <3>6 DEF Walked
  <2> QED
    BY <1>3, <2>1, <2>2
<1>5. ASSUME InsideTarget, SparesScratch(y) PROVE SparesScratch(z)
  <2>1. y.run <= 0 \/ \A q \in Regs : y.m.at[q] = target.at[k] => target.at[q] # None
    <3>1. CASE y.run = -1
      BY <3>1
    <3>2. CASE y.run # -1
      <4>1. y.m = m /\ y.run = sw.run + 1
        BY <3>2 DEF Walked
      <4> QED
        BY <1>5, <4>1 DEF InsideTarget
    <3> QED
      BY <3>1, <3>2
  <2>2. LeavesScratch(y, z)
    BY <1>3, <1>5, <2>1 DEF InsideTarget
  <2> QED
    BY <1>5, <2>2 DEF SparesScratch, LeavesScratch
<1> QED
  BY <1>4, <1>5

(* By induction on the register's number the walk settles all registers below it. *)
LEMMA WalkedAll ==
  ASSUME arch \in Archs, SwitchInv, Sound(m, Regs), NEW f, Walk(f), NEW n \in Nat
  PROVE  Walked(f[n], n) /\ (InsideTarget => SparesScratch(f[n]))
<1> DEFINE P == {k \in Nat : Walked(f[k], k) /\ (InsideTarget => SparesScratch(f[k]))}
<1>0. \A r \in Nat : f[r] = IF r = 0 THEN FirstRound
                            ELSE IF r - 1 \in sw.affected THEN Settle(f[r - 1], r - 1) ELSE f[r - 1]
  BY DEF Walk
<1>1. 0 \in P
  <2>1. /\ InRound(FirstRound)
        /\ FirstRound.m = m /\ FirstRound.affected = sw.affected /\ FirstRound.run = sw.run + 1
    BY FirstRoundIs
  <2>2. Carries(m, m)
    BY CarriesNothing
  <2>3. \A r \in sw.affected : ~(r < 0)
    BY NoneApart DEF SwitchInv, Switches, Regs
  <2>4. Walked(FirstRound, 0)
    BY <2>1, <2>2, <2>3 DEF Walked
  <2>5. SparesScratch(FirstRound)
    BY <2>1 DEF SparesScratch
  <2>6. f[0] = FirstRound
    BY <1>0
  <2> QED
    BY <2>4, <2>5, <2>6
<1>2. ASSUME NEW k \in Nat, k \in P PROVE k + 1 \in P
  <2>1. k + 1 \in Nat /\ k + 1 # 0 /\ (k + 1) - 1 = k
    OBVIOUS
  <2>2. f[k + 1] = IF k \in sw.affected THEN Settle(f[k], k) ELSE f[k]
    BY <1>0, <2>1
  <2>3. Walked(f[k], k) /\ (InsideTarget => SparesScratch(f[k]))
    BY <1>2
  <2>4. CASE k \in sw.affected
    <3>1. f[k + 1] = Settle(f[k], k)
      BY <2>2, <2>4
    <3>2. Walked(f[k + 1], k + 1) /\ (InsideTarget => SparesScratch(f[k + 1]))
      BY <2>3, <2>4, <3>1, WalkedOne
    <3> QED
      BY <2>1, <3>2
  <2>5. CASE k \notin sw.affected
    <3>1. f[k + 1] = f[k]
      BY <2>2, <2>5
    <3>2. \A r \in sw.affected : (r >= k + 1 => r >= k) /\ (r < k + 1 => r < k)
      <4>1. sw.affected \subseteq Nat
        BY NoneApart DEF SwitchInv, Switches, Regs
      <4> QED
        BY <2>5, <4>1
    <3>3. Walked(f[k], k + 1)
      BY <2>3, <3>2 DEF Walked
    <3> QED
      BY <2>1, <2>3, <3>1, <3>3
  <2> QED
    BY <2>4, <2>5
<1> HIDE DEF P
<1>3. Inductive(P)
  BY <1>1, <1>2 DEF Inductive
<1>4. n \in P
  BY <1>3, InductiveHasNat
<1> QED
  BY <1>4 DEF P

(* What one round of switch_to_assignment does: it walks past the highest register, and changes
   nothing beyond the switch. *)
LEMMA RoundIs ==
  ASSUME arch \in Archs, SwitchInv, Sound(m, Regs), SwitchRound, ~GaveUp
  PROVE  \E y : /\ Walked(y, Max(Regs) + 1) /\ (InsideTarget => SparesScratch(y))
                /\ m' = y.m
                /\ sw' = [try |-> sw.try, dirty |-> y.dirty, affected |-> y.affected,
                          will_load |-> y.will_load, run |-> y.run]
                /\ UNCHANGED <<arch, live, pc, form, ops, masks, next, target, misread>>
<1> DEFINE after[r \in Nat] ==
             IF r = 0 THEN [m |-> m, dirty |-> sw.dirty, affected |-> sw.affected,
                            will_load |-> sw.will_load, run |-> sw.run + 1]
             ELSE IF r - 1 \in sw.affected THEN Settle(after[r - 1], r - 1) ELSE after[r - 1]
           y == after[Max(Regs) + 1]
<1>1. /\ m' = y.m
      /\ sw' = [try |-> sw.try, dirty |-> y.dirty, affected |-> y.affected,
                will_load |-> y.will_load, run |-> y.run]
      /\ UNCHANGED <<arch, live, pc, form, ops, masks, next, target, misread>>
  BY DEF SwitchRound
<1>2. Walk(after)
  <2>1. \E f : Walk(f)
    BY WalkExists
  <2>2. after = CHOOSE f : Walk(f)
    BY DEF Walk, FirstRound
  <2> HIDE DEF after
  <2> QED
    BY <2>1, <2>2
<1> HIDE DEF after
<1>3. Max(Regs) + 1 \in Nat
  BY MaxOfRegs
<1>4. Walked(y, Max(Regs) + 1) /\ (InsideTarget => SparesScratch(y))
  BY <1>2, <1>3, WalkedAll
<1> QED
  BY <1>1, <1>4

\* A round keeps every value, and brings the switch nearer to its end; without
\* try mode it is never given up.
LEMMA SwitchRoundIs ==
  ASSUME arch \in Archs, SwitchInv, Sound(m, Regs), SwitchRound
  PROVE  /\ SwitchInv' /\ Carries(m, m')
         /\ sw'.try = sw.try
         /\ UNCHANGED <<arch, live, pc, form, ops, masks, next, target, misread>>
         /\ \/ sw'.affected \subseteq sw.affected /\ sw'.affected # sw.affected
            \/ m' = m /\ sw'.run > sw.run
         /\ arch.has_swap /\ ~sw.try =>
              \A q \in Regs : target.at[q] = None => m'.regs[q] = m.regs[q]
<1>0. /\ IsTarget(target, Regs) /\ sw \in Switches(Regs) /\ sw.run \in {-1, 0, 1}
      /\ Switching(m, target, sw.dirty, sw.affected, sw.will_load, sw.try)
      /\ ~sw.try => sw.run # 1 /\ (sw.run = 0 => Stuck(m, target, sw.affected))
      /\ sw.affected # {} /\ sw.affected \subseteq Regs
  BY DEF SwitchInv, Switches, SwitchRound
<1>1. CASE GaveUp
  <2>1. /\ sw.try /\ sw' = [sw EXCEPT !.affected = {}] /\ m' = m
        /\ UNCHANGED <<arch, live, pc, form, ops, masks, next, target, misread>>
    BY <1>0, <1>1 DEF SwitchRound, GaveUp
  <2>2. /\ sw' \in Switches(Regs) /\ sw'.try = sw.try /\ sw'.affected = {} /\ sw'.dirty = sw.dirty
        /\ sw'.will_load = sw.will_load /\ sw'.run = sw.run
    BY <1>0, <2>1 DEF Switches
  <2>3. Switching(m', target', sw'.dirty, sw'.affected, sw'.will_load, sw'.try)
    BY <1>0, <2>1, <2>2 DEF Switching
  <2>4. SwitchInv'
    BY <1>0, <2>1, <2>2, <2>3 DEF SwitchInv, Regs
  <2>5. Carries(m, m')
    BY <2>1, CarriesNothing
  <2>6. sw'.affected \subseteq sw.affected /\ sw'.affected # sw.affected
    BY <1>0, <2>2
  <2> QED
    BY <2>1, <2>2, <2>4, <2>5, <2>6
<1>2. CASE ~GaveUp
  <2>1. PICK y : /\ Walked(y, Max(Regs) + 1) /\ (InsideTarget => SparesScratch(y))
                 /\ m' = y.m
                 /\ sw' = [try |-> sw.try, dirty |-> y.dirty, affected |-> y.affected,
                           will_load |-> y.will_load, run |-> y.run]
                 /\ UNCHANGED <<arch, live, pc, form, ops, masks, next, target, misread>>
    BY <1>2, RoundIs
  <2>2. sw'.try = sw.try /\ sw'.dirty = y.dirty /\ sw'.affected = y.affected
        /\ sw'.will_load = y.will_load /\ sw'.run = y.run
    BY <2>1
  <2>3. y \in Rounds /\ Switching(y.m, target, y.dirty, y.affected, y.will_load, sw.try)
    BY <2>1 DEF Walked, InRound
  <2>4. sw' \in Switches(Regs)
    <3>1. y.dirty \in SUBSET Regs /\ y.affected \in SUBSET Regs /\ y.will_load \in SUBSET Regs /\ y.run \in Int
      BY <2>3 DEF Rounds
    <3> QED
      BY <1>0, <2>1, <3>1 DEF Switches
  <2>5. Switching(m', target', sw'.dirty, sw'.affected, sw'.will_load, sw'.try)
    BY <2>1, <2>2, <2>3
  <2>6. Carries(m, m') /\ y.affected \subseteq sw.affected /\ (y = FirstRound \/ y.affected # sw.affected)
    BY <2>1 DEF Walked
  <2>7. \/ y.run = -1
        \/ /\ y.m = m /\ y.run = sw.run + 1
           /\ \A r \in sw.affected \ y.affected : m.at[r] = None
           /\ \A r \in y.affected : m.at[r] \notin {None, target.at[r]} /\ (y.run <= 0 \/ Away(m, target.at[r]))
    <3>1. \A r \in y.affected : r < Max(Regs) + 1
      <4>1. \A r \in Regs : r \in Nat /\ r <= Max(Regs) /\ Max(Regs) \in Nat
        BY MaxOfRegs
      <4>2. \A r \in Regs : r < Max(Regs) + 1
        BY <4>1
      <4> QED
        BY <1>0, <2>6, <4>2
    <3> QED
      BY <2>1, <3>1 DEF Walked
  <2>8. sw.run \in {-1, 0}
    BY <1>0, <1>2 DEF GaveUp
  <2>9. sw'.run \in {-1, 0, 1}
    BY <2>2, <2>7, <2>8
  <2>10. ASSUME ~sw.try, sw.run = 0 PROVE \A r \in sw.affected : \E q \in sw.affected : m.at[q] = target.at[r]
    BY <1>0, <2>10, StuckIsCycles
  <2>11. ASSUME ~sw.try
         PROVE  y.run # 1 /\ (y.run = 0 => Stuck(y.m, target, y.affected))
    <3>1. ASSUME y.run = 1 PROVE FALSE
      <4>1. /\ sw.run = 0
            /\ \A r \in sw.affected \ y.affected : m.at[r] = None
            /\ \A r \in y.affected : Away(m, target.at[r])
        BY <2>7, <2>8, <3>1
      <4>2. Stuck(m, target, sw.affected)
        BY <1>0, <2>11, <4>1
      <4>3. PICK r \in sw.affected : TRUE
        BY <1>0
      <4>4. r \in y.affected
        BY <4>1, <4>2, <4>3 DEF Stuck
      <4>5. Away(m, target.at[r])
        BY <4>1, <4>4
      <4>6. PICK q \in sw.affected : m.at[q] = target.at[r]
        BY <2>10, <2>11, <4>1
      <4>7. q \in DOMAIN m.at
        BY <1>0, SoundFacts
      <4> QED
        BY <4>5, <4>6, <4>7 DEF Away
    <3>2. ASSUME y.run = 0 PROVE Stuck(y.m, target, y.affected)
      BY <2>7, <3>2 DEF Stuck
    <3> QED
      BY <3>1, <3>2
  <2>12. SwitchInv'
    BY <1>0, <2>1, <2>2, <2>4, <2>5, <2>9, <2>11 DEF SwitchInv, Regs
  <2>13. \/ sw'.affected \subseteq sw.affected /\ sw'.affected # sw.affected
         \/ m' = m /\ sw'.run > sw.run
    <3>1. CASE y = FirstRound
      <4>1. y.m = m /\ y.run = sw.run + 1
        BY <3>1, FirstRoundIs
      <4> QED
        BY <2>1, <2>2, <2>8, <4>1
    <3>2. CASE y.affected # sw.affected
      BY <2>2, <2>6, <3>2
    <3> QED
      BY <2>6, <3>1, <3>2
  <2>14. ASSUME arch.has_swap, ~sw.try, NEW q \in Regs, target.at[q] = None PROVE m'.regs[q] = m.regs[q]
    <3>1. InsideTarget
      <4>1. CASE sw.run = -1
        BY <2>14, <4>1 DEF InsideTarget
      <4>2. CASE sw.run = 0
        <5>1. ASSUME NEW r \in sw.affected, NEW p \in Regs, m.at[p] = target.at[r]
              PROVE  target.at[p] # None
          <6>1. PICK s \in sw.affected : m.at[s] = target.at[r]
            BY <2>10, <2>14, <4>2
          <6>2. target.at[r] # None /\ target.at[s] # None /\ s \in Regs
            BY <1>0, TargetFacts DEF Switching
          <6>3. s = p
            BY <5>1, <6>1, <6>2, SoundFacts
          <6> QED
            BY <6>2, <6>3
        <5> QED
          BY <2>14, <5>1 DEF InsideTarget
      <4> QED
        BY <2>8, <4>1, <4>2
    <3> QED
      BY <2>1, <2>14, <3>1 DEF SparesScratch
  <2> QED
    BY <2>1, <2>2, <2>6, <2>12, <2>13, <2>14
<1> QED
  BY <1>1, <1>2

-------------------------------------------------------------------------------
(* The end of the switch *)

\* The machine that is loaded holds the values, and its new registers are those
\* that were to be loaded and are free.
LEMMA LoadScheduledIs ==
  ASSUME arch \in Archs, SwitchInv, Sound(m, Regs), sw.affected = {},
         NEW x, x = LoadScheduled(m),
         NEW rs, \A r : r \in rs <=> r \in sw.will_load /\ m.at[r] = None
  PROVE  /\ Sound(x, Regs) /\ x.slots = m.slots
         /\ x.ok <=> m.ok /\ (sw.try \/ rs = sw.will_load)
         /\ \A r \in Regs : x.at[r] = IF r \in rs THEN target.at[r] ELSE m.at[r]
         /\ \A r \in Regs : r \in x.dirty <=> r \in m.dirty \/ (r \in rs /\ r \in sw.dirty)
         /\ \A r \in Regs : r \notin rs => x.regs[r] = m.regs[r]
         /\ \A W \in SUBSET Works : Kept(m, W) => Kept(x, W)
<1> DEFINE ok == m.ok /\ (sw.try \/ rs = sw.will_load) /\ rs \cap m.dirty = {}
                 /\ \A r \in rs : target.at[r] \in target.live_in /\ RegOf(m, target.at[r]) = None
           at == [r \in Regs |-> IF r \in rs THEN target.at[r] ELSE m.at[r]]
           dirty == m.dirty \cup (rs \cap sw.dirty)
           regs == [r \in Regs |-> IF r \notin rs THEN m.regs[r]
                                   ELSE IF target.at[r] \in m.slots THEN target.at[r] ELSE None]
<1>0. /\ None \notin Works /\ None \notin Regs
      /\ m \in Machines(Regs) /\ m.ok \in BOOLEAN /\ DOMAIN m.at = Regs /\ DOMAIN m.regs = Regs
      /\ m.at \in [Regs -> Works \cup {None}] /\ m.regs \in [Regs -> Works \cup {None}]
      /\ m.dirty \subseteq Regs /\ m.slots \subseteq Works /\ (\A r \in m.dirty : m.at[r] # None)
      /\ \A r, q \in Regs : m.at[r] = m.at[q] => r = q \/ m.at[r] = None
  BY NoneApart, SoundFacts DEF Regs
<1>1. /\ DOMAIN target.at = Regs
      /\ \A r, q \in Regs : target.at[r] = target.at[q] => r = q \/ target.at[r] = None
      /\ \A r \in Regs : target.at[r] # None => target.at[r] \in Works
      /\ \A r : r \in Assigned(target) <=> r \in Regs /\ target.at[r] # None
  BY TargetFacts DEF SwitchInv
<1>2. /\ sw.dirty \subseteq Assigned(target) /\ sw.will_load \subseteq Assigned(target)
      /\ \A r \in sw.will_load : Away(m, target.at[r]) /\ target.at[r] \in target.live_in
  BY DEF SwitchInv, Switching
<1>3. \A r \in rs : /\ r \in Regs /\ m.at[r] = None /\ target.at[r] \in Works /\ target.at[r] \in target.live_in
                    /\ Away(m, target.at[r]) /\ \A q \in Regs : m.at[q] # target.at[r]
  BY <1>0, <1>1, <1>2 DEF Away
<1>4. ok <=> m.ok /\ (sw.try \/ rs = sw.will_load)
  <2>1. \A r \in rs : RegOf(m, target.at[r]) = None
    BY <1>0, <1>3, RegOfIs
  <2>2. rs \cap m.dirty = {}
    BY <1>0, <1>3
  <2> QED
    BY <1>3, <2>1, <2>2
<1>5. x = [m EXCEPT !.ok = ok, !.at = at, !.dirty = dirty, !.regs = regs]
  <2>1. rs = {r \in sw.will_load : m.at[r] = None}
    OBVIOUS
  <2> QED
    BY <1>0, <2>1 DEF LoadScheduled
<1>6. at \in [Regs -> Works \cup {None}] /\ dirty \in SUBSET Regs /\ regs \in [Regs -> Works \cup {None}]
      /\ ok \in BOOLEAN
  BY <1>0, <1>1, <1>2, <1>3
<1>7. /\ \A r \in Regs : at[r] = IF r \in rs THEN target.at[r] ELSE m.at[r]
      /\ \A r \in Regs : r \in dirty <=> r \in m.dirty \/ (r \in rs /\ r \in sw.dirty)
      /\ \A r \in Regs : regs[r] = IF r \notin rs THEN m.regs[r]
                                   ELSE IF target.at[r] \in m.slots THEN target.at[r] ELSE None
  BY <1>0
<1> HIDE DEF ok, at, dirty, regs
<1>8. /\ x \in Machines(Regs)
      /\ x.at = at /\ x.dirty = dirty /\ x.regs = regs /\ x.slots = m.slots /\ x.ok = ok
  BY <1>0, <1>5, <1>6 DEF Machines
<1>9. \A r \in x.dirty : x.at[r] # None
  BY <1>0, <1>3, <1>6, <1>7, <1>8
<1>10. \A r, q \in Regs : x.at[r] = x.at[q] => r = q \/ x.at[r] = None
  <2>1. ASSUME NEW r \in Regs, NEW q \in Regs, x.at[r] = x.at[q], x.at[r] # None PROVE r = q
    <3>1. CASE r \in rs /\ q \in rs
      BY <1>1, <1>3, <1>7, <1>8, <2>1, <3>1
    <3>2. CASE r \in rs /\ q \notin rs
      BY <1>3, <1>7, <1>8, <2>1, <3>2
    <3>3. CASE r \notin rs /\ q \in rs
      BY <1>3, <1>7, <1>8, <2>1, <3>3
    <3>4. CASE r \notin rs /\ q \notin rs
      BY <1>0, <1>7, <1>8, <2>1, <3>4
    <3> QED
      BY <3>1, <3>2, <3>3, <3>4
  <2> QED
    BY <2>1
<1>11. Sound(x, Regs)
  BY <1>8, <1>9, <1>10, IsSound
<1>12. ASSUME NEW W \in SUBSET Works, Kept(m, W) PROVE Kept(x, W)
  <2>1. /\ \A r \in Regs : m.at[r] \in W => m.regs[r] = m.at[r] /\ (r \in m.dirty \/ m.at[r] \in m.slots)
        /\ \A w \in W : (\A r \in Regs : m.at[r] # w) => w \in m.slots
    BY <1>12, KeptFacts
  <2>2. ASSUME NEW r \in Regs, x.at[r] \in W
        PROVE  x.regs[r] = x.at[r] /\ (r \in x.dirty \/ x.at[r] \in x.slots)
    <3>1. CASE r \in rs
      <4>1. target.at[r] \in W
        BY <1>7, <1>8, <2>2, <3>1
      <4>2. target.at[r] \in m.slots
        BY <1>3, <2>1, <3>1, <4>1
      <4> QED
        BY <1>7, <1>8, <3>1, <4>2
    <3>2. CASE r \notin rs
      BY <1>7, <1>8, <2>1, <2>2, <3>2
    <3> QED
      BY <3>1, <3>2
  <2>3. ASSUME NEW w \in W, \A r \in Regs : x.at[r] # w PROVE w \in x.slots
    <3>1. w # None
      BY <1>0, <2>3
    <3>2. \A r \in Regs : m.at[r] # w
      BY <1>3, <1>7, <1>8, <2>3, <3>1
    <3> QED
      BY <1>8, <2>1, <3>2
  <2> QED
    BY <1>11, <2>2, <2>3, IsKept
<1> QED
  BY <1>4, <1>7, <1>8, <1>11, <1>12

\* Without try mode the switch ends with what is needed of the assignment it was
\* to reach, with all of it if all is needed.
LEMMA SwitchReaches ==
  ASSUME arch \in Archs, SwitchInv, Sound(m, Regs), sw.affected = {}, ~sw.try,
         NEW x, x = LoadScheduled(m)
  PROVE  /\ x.ok = m.ok
         /\ \A r \in Regs :
              /\ x.at[r] = IF target.at[r] \in target.live_in THEN target.at[r] ELSE None
              /\ r \in x.dirty <=> r \in sw.dirty /\ target.at[r] \in target.live_in
         /\ AllLive(target) => x.at = target.at /\ x.dirty = sw.dirty
<1>1. PICK rs : \A r : r \in rs <=> r \in sw.will_load /\ m.at[r] = None
  <2>1. \A r : r \in {q \in sw.will_load : m.at[q] = None} <=> r \in sw.will_load /\ m.at[r] = None
    OBVIOUS
  <2> QED
    BY <2>1
<1>2. /\ None \notin Works
      /\ DOMAIN m.at = Regs /\ m.at \in [Regs -> Works \cup {None}]
      /\ m.dirty \subseteq Regs /\ (\A r \in m.dirty : m.at[r] # None)
      /\ \A r, q \in Regs : m.at[r] = m.at[q] => r = q \/ m.at[r] = None
  BY NoneApart, SoundFacts DEF Regs
<1>3. /\ DOMAIN target.at = Regs /\ target.at \in [Regs -> Works \cup {None}]
      /\ \A r : r \in Assigned(target) <=> r \in Regs /\ target.at[r] # None
  BY TargetFacts DEF SwitchInv
<1>4. /\ sw.dirty \subseteq Assigned(target) /\ sw.will_load \subseteq Assigned(target)
      /\ \A r \in sw.will_load : Away(m, target.at[r]) /\ target.at[r] \in target.live_in
      /\ \A w \in Works : Away(target, w) \/ w \notin target.live_in => Away(m, w)
      /\ \A r \in Assigned(target) \ sw.will_load :
           target.at[r] \in target.live_in => m.at[r] = target.at[r] /\ (r \in m.dirty <=> r \in sw.dirty)
  BY DEF SwitchInv, Switching
<1>5. ASSUME NEW r \in Regs, m.at[r] # None
      PROVE  r \in Assigned(target) \ sw.will_load /\ target.at[r] \in target.live_in
  <2>1. ~Away(m, m.at[r]) /\ m.at[r] \in Works
    BY <1>2, <1>5 DEF Away
  <2>2. PICK q \in Regs : target.at[q] = m.at[r]
    BY <1>3, <1>4, <2>1 DEF Away
  <2>3. q \in Assigned(target) /\ q \notin sw.will_load
    BY <1>3, <1>4, <1>5, <2>1, <2>2
  <2>4. target.at[q] \in target.live_in
    BY <1>4, <2>1, <2>2
  <2>5. m.at[q] = m.at[r]
    BY <1>4, <2>2, <2>3, <2>4
  <2>6. q = r
    BY <1>2, <1>5, <2>5
  <2> QED
    BY <2>3, <2>4, <2>6
<1>6. rs = sw.will_load
  BY <1>1, <1>3, <1>4, <1>5
<1>7. /\ Sound(x, Regs)
      /\ x.ok <=> m.ok /\ (sw.try \/ rs = sw.will_load)
      /\ \A r \in Regs : x.at[r] = IF r \in rs THEN target.at[r] ELSE m.at[r]
      /\ \A r \in Regs : r \in x.dirty <=> r \in m.dirty \/ (r \in rs /\ r \in sw.dirty)
  BY <1>1, LoadScheduledIs
<1>8. x.at \in [Regs -> Works \cup {None}] /\ x.dirty \subseteq Regs
  BY <1>7, SoundFacts
<1>9. None \notin target.live_in
  BY <1>2, TargetFacts DEF SwitchInv
<1>10. ASSUME NEW r \in Regs
       PROVE  /\ x.at[r] = IF target.at[r] \in target.live_in THEN target.at[r] ELSE None
              /\ r \in x.dirty <=> r \in sw.dirty /\ target.at[r] \in target.live_in
  <2>1. CASE r \in sw.will_load
    <3>1. m.at[r] = None /\ r \notin m.dirty
      BY <1>2, <1>5, <2>1
    <3> QED
      BY <1>4, <1>6, <1>7, <2>1, <3>1
  <2>2. CASE r \in Assigned(target) \ sw.will_load /\ target.at[r] \in target.live_in
    BY <1>4, <1>6, <1>7, <2>2
  <2>3. CASE target.at[r] \notin target.live_in
    <3>1. m.at[r] = None /\ r \notin m.dirty /\ r \notin sw.will_load
      BY <1>2, <1>4, <1>5, <2>3
    <3> QED
      BY <1>6, <1>7, <2>3, <3>1
  <2> QED
    BY <1>3, <1>9, <2>1, <2>2, <2>3
<1>11. ASSUME AllLive(target) PROVE x.at = target.at /\ x.dirty = sw.dirty
  <2>1. \A r \in Regs : target.at[r] \in target.live_in \cup {None}
    BY <1>3, <1>11 DEF AllLive
  <2>2. x.at = target.at
    BY <1>3, <1>8, <1>10, <2>1
  <2>3. sw.dirty \subseteq Regs /\ \A r \in sw.dirty : target.at[r] \in target.live_in
    BY <1>3, <1>4, <2>1
  <2> QED
    BY <1>8, <1>10, <2>2, <2>3
<1>12. x.ok \in BOOLEAN /\ m.ok \in BOOLEAN
  BY <1>7, SoundFacts
<1>13. x.ok <=> m.ok
  BY <1>6, <1>7
<1>14. x.ok = m.ok
  BY <1>12, <1>13
<1> QED
  BY <1>10, <1>11, <1>14

-------------------------------------------------------------------------------
(* Instructions *)

(* What the instruction being allocated is made of. *)
LEMMA FormFacts ==
  ASSUME arch \in Archs, form \in arch.forms
  PROVE  /\ form.ops \in Seq(Kinds(Regs)) /\ form.clobbered \subseteq Regs
         /\ form.flow \in Flows /\ form.scratch \subseteq Regs
         /\ DOMAIN form.ops \subseteq Nat \ {0} /\ Instruction(form, Regs)
<1>1. Instruction(form, Regs)
  BY ArchAssumption DEF ArchAssumption, Regs
<1>2. form \in [ops : Seq(Kinds(Regs)), clobbered : SUBSET Regs, flow : Flows, scratch : SUBSET Regs]
  BY <1>1 DEF Instruction
<1>3. form.ops \in Seq(Kinds(Regs)) /\ form.clobbered \subseteq Regs
      /\ form.flow \in Flows /\ form.scratch \subseteq Regs
  BY <1>2
<1>4. DOMAIN form.ops \subseteq Nat \ {0}
  BY <1>3
<1> QED
  BY <1>1, <1>3, <1>4

(* The type of each field of each operand. *)
LEMMA OperandFacts ==
  ASSUME arch \in Archs, InstructionInv
  PROVE  /\ DOMAIN ops = DOMAIN form.ops /\ DOMAIN ops \subseteq Nat \ {0}
         /\ \A i \in DOMAIN ops :
              /\ ops[i] \in Operands(Regs) /\ ops[i].work \in Works
              /\ ops[i].use \in BOOLEAN /\ ops[i].write \in BOOLEAN /\ ops[i].out \in BOOLEAN
              /\ ops[i].rm \in BOOLEAN /\ ops[i].kill \in BOOLEAN /\ ops[i].done \in BOOLEAN
              /\ ops[i].mem \in BOOLEAN /\ ops[i].use_id \in Regs \cup {None}
              /\ ops[i].out_id \in Regs \cup {None} /\ ops[i].dup \subseteq Regs /\ ops[i].mask \subseteq Regs
<1>1. ops \in [DOMAIN form.ops -> Operands(Regs)] /\ DOMAIN form.ops \subseteq Nat \ {0}
  BY FormFacts DEF InstructionInv
<1> QED
  BY <1>1 DEF Operands

\* What instructions are made of, in terms of their operands
LEMMA OperandRules ==
  ASSUME arch \in Archs, InstructionInv
  PROVE  /\ \A i \in DOMAIN ops :
              /\ ops[i].use \/ ops[i].out
              /\ ops[i].out => ops[i].write
              /\ ops[i].rm => ops[i].use
              /\ form.ops[i].use_id # None => ops[i].use /\ ops[i].use_id = form.ops[i].use_id
              /\ form.ops[i].out_id # None =>
                   ops[i].out /\ ops[i].out_id = form.ops[i].out_id /\ ops[i].out_id \in form.clobbered
              /\ ops[i].dup # {} => form.ops[i].use_id # None
              /\ ops[i].dup \subseteq form.clobbered
         /\ \A i, j \in DOMAIN ops : i # j =>
              /\ form.ops[i].use_id # None => form.ops[i].use_id \notin {form.ops[j].use_id} \cup ops[j].dup
              /\ ops[i].dup \cap ops[j].dup = {}
              /\ form.ops[i].out_id # None /\ ops[j].out =>
                   form.ops[j].out_id \notin {None, form.ops[i].out_id}
<1>1. Instruction(form, Regs)
  BY FormFacts DEF InstructionInv
<1>2. /\ DOMAIN ops = DOMAIN form.ops
      /\ \A i \in DOMAIN ops : OperandOf(ops[i], form.ops[i])
  BY OperandFacts DEF InstructionInv
<1>3. \A i \in DOMAIN ops :
        LET op == form.ops[i]
        IN  /\ op.use \/ op.out
            /\ op.out => op.write
            /\ op.rm => op.use
            /\ op.use_id # None => op.use
            /\ op.out_id # None => op.out /\ op.out_id \in form.clobbered
            /\ op.dup # {} => op.use_id # None /\ op.dup \subseteq form.clobbered
  BY <1>1, <1>2 DEF Instruction
<1>4. \A i, j \in DOMAIN ops : i # j =>
        /\ form.ops[i].use_id # None => form.ops[i].use_id \notin {form.ops[j].use_id} \cup form.ops[j].dup
        /\ form.ops[i].dup \cap form.ops[j].dup = {}
        /\ form.ops[i].out_id # None /\ form.ops[j].out => form.ops[j].out_id \notin {None, form.ops[i].out_id}
  BY <1>1, <1>2 DEF Instruction
<1> QED
  BY <1>2, <1>3, <1>4 DEF OperandOf

\* A jump only reads, and from registers of its own.
LEMMA JumpRules ==
  ASSUME arch \in Archs, InstructionInv, Indirect
  PROVE  /\ form.clobbered = {}
         /\ \A i \in DOMAIN ops :
              /\ ~ops[i].write /\ ~ops[i].out /\ ops[i].use /\ ops[i].dup = {}
              /\ form.ops[i].use_id # None /\ ops[i].use_id = form.ops[i].use_id /\ ops[i].use_id \in Regs
<1>1. Instruction(form, Regs)
  BY FormFacts DEF InstructionInv
<1>2. /\ DOMAIN ops = DOMAIN form.ops
      /\ \A i \in DOMAIN ops : OperandOf(ops[i], form.ops[i])
  BY OperandFacts DEF InstructionInv
<1>3. form.clobbered = {} /\ \A i \in DOMAIN ops : ~form.ops[i].write /\ form.ops[i].use_id # None
  BY <1>1, <1>2 DEF Instruction, Indirect
<1> QED
  BY <1>2, <1>3, OperandRules, OperandFacts DEF OperandOf

(* The instruction's invariant holds on when nothing it speaks of changes. *)
LEMMA InstructionStays ==
  ASSUME InstructionInv, UNCHANGED <<arch, form, ops, live, target>>
  PROVE  InstructionInv'
BY DEF InstructionInv, LiveAfter, Indirect, Regs

(* So does the freshness of its operands. *)
LEMMA FreshStays ==
  ASSUME FreshInv, UNCHANGED <<arch, form, ops, live, target>>
  PROVE  FreshInv'
BY InstructionStays DEF FreshInv

(* What is needed after the instruction are virtual registers. *)
LEMMA LiveAfterIs ==
  ASSUME arch \in Archs, InstructionInv, live \subseteq Works
  PROVE  LiveAfter \subseteq Works
<1>1. \A i \in DOMAIN ops : ops[i].work \in Works
  BY OperandFacts
<1> QED
  BY <1>1 DEF LiveAfter, Range

(* The error flag of a sound machine that is set is TRUE. *)
LEMMA OkIsTrue ==
  ASSUME NEW R, NEW x, Sound(x, R), x.ok
  PROVE  x.ok = TRUE
BY SoundFacts

(* An assertion that held still does when the flag does not change. *)
LEMMA FineStays ==
  ASSUME NEW x, NEW y, Fine(x), y.ok = x.ok
  PROVE  Fine(y)
BY DEF Fine

(* A shared assignment that another jump made, set aside, is not met. *)
LEMMA NotShared ==
  ASSUME arch \in Archs, InstructionInv, TablesApart
  PROVE  form.flow # "shared"
BY DEF InstructionInv, TablesApart

-------------------------------------------------------------------------------
(* Steps of the switch *)

(* A round of a switch keeps the invariants; what an executed jump reads is kept if the jump
   table has an exchange. *)
LEMMA SwitchRoundStep ==
  ASSUME IInv, SwitchRound
  PROVE  /\ IInv' /\ (ValueInv => ValueInv')
         /\ JumpsExchange /\ ReadInv => ReadInv'
<1>1. /\ arch \in Archs /\ live \subseteq Works /\ next \in Nat /\ Sound(m, Regs) /\ Fine(m) /\ pc = "switch"
      /\ SwitchInv /\ (sw.try => FreshInv /\ form.flow = "branch" /\ target.live_in \subseteq LiveAfter)
      /\ (~sw.try /\ Indirect => InstructionInv /\ target # None)
  BY DEF IInv, PhaseInv, SwitchRound
<1>2. /\ SwitchInv' /\ Carries(m, m')
      /\ sw'.try = sw.try
      /\ UNCHANGED <<arch, live, pc, form, ops, masks, next, target, misread>>
      /\ arch.has_swap /\ ~sw.try =>
           \A q \in Regs : target.at[q] = None => m'.regs[q] = m.regs[q]
  BY <1>1, SwitchRoundIs
<1>3. Sound(m', Regs') /\ Fine(m')
  BY <1>1, <1>2, FineStays DEF Carries, Regs
<1>4. IInv'
  <2>1. sw'.try => FreshInv' /\ form'.flow = "branch" /\ target'.live_in \subseteq LiveAfter'
    BY <1>1, <1>2, FreshStays DEF LiveAfter
  <2>2. ~sw'.try /\ Indirect' => InstructionInv' /\ target' # None
    BY <1>1, <1>2, InstructionStays DEF Indirect
  <2> QED
    BY <1>1, <1>2, <1>3, <2>1, <2>2 DEF IInv, PhaseInv
<1>5. ASSUME ValueInv PROVE ValueInv'
  <2>0. target.live_in \subseteq Works /\ (~sw.try /\ Indirect => LiveAfter \subseteq Works)
    BY <1>1, TargetFacts, LiveAfterIs DEF SwitchInv
  <2>1. PICK W \in SUBSET Works : W = IF sw.try THEN live ELSE Needed
    BY <1>1, <2>0 DEF Needed
  <2>2. Kept(m, W)
    BY <1>1, <1>5, <2>1 DEF ValueInv
  <2>3. Kept(m', W)
    BY <1>2, <2>2 DEF Carries
  <2>4. Needed' = Needed /\ live' = live
    BY <1>2 DEF Needed, LiveAfter, Indirect
  <2> QED
    BY <1>1, <1>2, <2>1, <2>3, <2>4 DEF ValueInv
<1>6. ASSUME JumpsExchange, ReadInv PROVE ReadInv'
  <2>1. SUFFICES ASSUME ~sw.try, Indirect, NEW i \in DOMAIN ops
                 PROVE  InPlace(ops[i])' /\ (ops[i].mem => Away(m', ops[i].work))
    BY <1>1, <1>2, <1>6 DEF ReadInv, Indirect
  <2>2. InPlace(ops[i]) /\ (ops[i].mem => Away(m, ops[i].work))
    BY <1>1, <1>6, <2>1 DEF ReadInv
  <2>3. InstructionInv /\ target # None
    BY <1>1, <2>1
  <2>4. arch.has_swap /\ form.flow \in Tables
    BY <1>1, <1>6, <2>1, <2>3 DEF JumpsExchange, InstructionInv, Indirect
  <2>5. ops[i].work \in Works /\ ops[i].dup = {} /\ ops[i].use /\ ops[i].use_id \in Regs
        /\ target.at[ops[i].use_id] = None
    BY <1>1, <2>1, <2>3, <2>4, OperandFacts, JumpRules DEF InstructionInv
  <2>6. CASE ops[i].mem
    <3>1. Away(m', ops[i].work) /\ ops[i].work \in m'.slots
      BY <1>2, <2>2, <2>5, <2>6 DEF Carries, InPlace
    <3> QED
      BY <1>2, <2>6, <3>1 DEF InPlace
  <2>7. CASE ~ops[i].mem
    <3>1. m'.regs[ops[i].use_id] = m.regs[ops[i].use_id] /\ m.regs[ops[i].use_id] = ops[i].work
      BY <1>2, <2>1, <2>2, <2>4, <2>5, <2>7 DEF InPlace
    <3> QED
      BY <1>2, <2>5, <2>7, <3>1 DEF InPlace
  <2> QED
    BY <2>6, <2>7
<1> QED
  BY <1>4, <1>5, <1>6

\* A jump changes nothing.
LEMMA ExecutedJump ==
  ASSUME arch \in Archs, InstructionInv, Indirect, NEW x, Sound(x, Regs), NEW y, y = Executed(x)
  PROVE  y = x
<1>0. x \in Machines(Regs) /\ x.regs \in [Regs -> Works \cup {None}] /\ x.slots \subseteq Works
  BY SoundFacts
<1>1. form.clobbered = {} /\ \A i \in DOMAIN ops : ~ops[i].write
  BY JumpRules
<1>2. {i \in DOMAIN ops : ops[i].write} = {}
  BY <1>1
<1> DEFINE regs == [r \in Regs |-> x.regs[r]]
           slots == (x.slots \ {}) \cup {}
<1>3. y = [x EXCEPT !.regs = regs, !.slots = slots]
  BY <1>0, <1>1, <1>2 DEF Executed
<1>4. regs = x.regs /\ slots = x.slots
  BY <1>0
<1> QED
  BY <1>0, <1>3, <1>4 DEF Machines

(* So does the end of a switch. *)
LEMMA SwitchDoneStep ==
  ASSUME IInv, SwitchDone
  PROVE  /\ IInv' /\ (ValueInv => ValueInv')
         /\ JumpsExchange /\ ReadInv => ReadInv'
<1>1. /\ arch \in Archs /\ live \subseteq Works /\ next \in Nat /\ Sound(m, Regs) /\ Fine(m) /\ pc = "switch"
      /\ SwitchInv /\ (sw.try => FreshInv /\ form.flow = "branch" /\ target.live_in \subseteq LiveAfter)
      /\ (~sw.try /\ Indirect => InstructionInv /\ target # None)
      /\ sw.affected = {} /\ sw.try \in BOOLEAN
  BY DEF IInv, PhaseInv, SwitchDone, SwitchInv, Switches
<1>2. PICK x : x = LoadScheduled(m)
  OBVIOUS
<1>3. PICK rs : \A r : r \in rs <=> r \in sw.will_load /\ m.at[r] = None
  <2>1. \A r : r \in {q \in sw.will_load : m.at[q] = None} <=> r \in sw.will_load /\ m.at[r] = None
    OBVIOUS
  <2> QED
    BY <2>1
<1>4. /\ Sound(x, Regs) /\ x.slots = m.slots
      /\ x.ok <=> m.ok /\ (sw.try \/ rs = sw.will_load)
      /\ \A r \in Regs : r \notin rs => x.regs[r] = m.regs[r]
      /\ \A W \in SUBSET Works : Kept(m, W) => Kept(x, W)
  <2>1. arch \in Archs /\ SwitchInv /\ Sound(m, Regs) /\ sw.affected = {}
    BY <1>1
  <2>2. /\ Sound(x, Regs) /\ x.slots = m.slots
        /\ x.ok <=> m.ok /\ (sw.try \/ rs = sw.will_load)
        /\ \A r \in Regs : r \notin rs => x.regs[r] = m.regs[r]
    BY <1>2, <1>3, <2>1, LoadScheduledIs
  <2>3. ASSUME NEW W \in SUBSET Works, Kept(m, W) PROVE Kept(x, W)
    BY <1>2, <1>3, <2>1, <2>3, LoadScheduledIs
  <2> QED
    BY <2>2, <2>3
<1>5. ~sw.try => /\ x.ok = m.ok
                 /\ \A r \in Regs :
                      /\ x.at[r] = IF target.at[r] \in target.live_in THEN target.at[r] ELSE None
                      /\ r \in x.dirty <=> r \in sw.dirty /\ target.at[r] \in target.live_in
                 /\ AllLive(target) => x.at = target.at /\ x.dirty = sw.dirty
  <2>1. SUFFICES ASSUME ~sw.try
                 PROVE  /\ x.ok = m.ok
                        /\ \A r \in Regs :
                             /\ x.at[r] = IF target.at[r] \in target.live_in THEN target.at[r] ELSE None
                             /\ r \in x.dirty <=> r \in sw.dirty /\ target.at[r] \in target.live_in
                        /\ AllLive(target) => x.at = target.at /\ x.dirty = sw.dirty
    OBVIOUS
  <2> QED
    BY <1>1, <1>2, <2>1, SwitchReaches
<1>6. /\ pc' = IF sw.try THEN "fit" ELSE IF Indirect THEN "execute" ELSE "arrived"
      /\ target' = IF sw.try THEN [target EXCEPT !.dirty = sw.dirty] ELSE target
      /\ UNCHANGED <<arch, live, form, ops, masks, next, sw, misread>>
  BY DEF SwitchDone
<1>7. /\ Sound(m', Regs) /\ m'.at = x.at /\ m'.dirty = x.dirty /\ m'.regs = x.regs /\ m'.slots = x.slots
      /\ m'.ok <=> x.ok /\ (sw.try \/ (x.at = target.at /\ x.dirty = sw.dirty))
  <2>1. PICK b \in BOOLEAN : b <=> x.ok /\ (sw.try \/ (x.at = target.at /\ x.dirty = sw.dirty))
    OBVIOUS
  <2>2. x \in Machines(Regs) /\ x.ok \in BOOLEAN
    BY <1>4, SoundFacts
  <2>3. m' = [x EXCEPT !.ok = b]
    <3>1. m' = [x EXCEPT !.ok = x.ok /\ (sw.try \/ (x.at = target.at /\ x.dirty = sw.dirty))]
      BY <1>2 DEF SwitchDone
    <3> QED
      BY <2>1, <3>1
  <2>4. /\ m' \in Machines(Regs) /\ m'.ok = b
        /\ m'.at = x.at /\ m'.dirty = x.dirty /\ m'.regs = x.regs /\ m'.slots = x.slots
    BY <2>2, <2>3 DEF Machines
  <2>5. Sound(m', Regs)
    BY <1>4, <2>4 DEF Sound, Assigned
  <2> QED
    BY <2>1, <2>4, <2>5
<1>8. \A W \in SUBSET Works : Kept(m, W) => Kept(m', W)
  <2>1. \A W \in SUBSET Works : Kept(x, W) => Kept(m', W)
    BY <1>7 DEF Kept, Away
  <2> QED
    BY <1>4, <2>1
<1>9. IsTarget(target, Regs) /\ target.live_in \subseteq Works /\ None \notin target.live_in
      /\ DOMAIN target.at = Regs /\ sw.dirty \subseteq Assigned(target)
      /\ (form.flow # "shared" => AllLive(target))
  BY <1>1, NoneAssumption, TargetFacts DEF SwitchInv, Switching
<1>10. Fine(m')
  <2>1. SUFFICES ASSUME TablesApart PROVE m'.ok = TRUE
    BY DEF Fine
  <2>2. m.ok = TRUE
    BY <1>1, <2>1 DEF Fine
  <2>3. CASE sw.try
    <3>1. m'.ok
      BY <1>4, <1>7, <2>2, <2>3
    <3> QED
      BY <1>7, <3>1, OkIsTrue
  <2>4. CASE ~sw.try
    <3>1. form.flow # "shared"
      BY <1>1, <2>1, <2>4, NotShared DEF Indirect, Tables
    <3>2. x.ok /\ x.at = target.at /\ x.dirty = sw.dirty
      BY <1>5, <1>9, <2>2, <2>4, <3>1
    <3>3. m'.ok
      BY <1>7, <3>2
    <3> QED
      BY <1>7, <3>3, OkIsTrue
  <2> QED
    BY <1>1, <2>3, <2>4
<1>11. arch' \in Archs /\ live' \subseteq Works /\ next' \in Nat /\ Sound(m', Regs') /\ Fine(m')
  BY <1>1, <1>6, <1>7, <1>10 DEF Regs
<1>12. LiveAfter' = LiveAfter
  BY <1>6 DEF LiveAfter
<1>13. CASE sw.try
  <2>1. pc' = "fit" /\ target' = [target EXCEPT !.dirty = sw.dirty]
    BY <1>6, <1>13
  <2>2. IsTarget(target', Regs) /\ target'.live_in = target.live_in /\ target'.at = target.at
    <3>1. sw.dirty \subseteq Assigned(target) /\ sw.dirty \in SUBSET Regs /\ target \in Targets(Regs)
      BY <1>1 DEF SwitchInv, Switching, Switches, IsTarget
    <3>2. /\ target' \in Targets(Regs) /\ target'.live_in = target.live_in /\ target'.at = target.at
          /\ target'.dirty = sw.dirty
      BY <2>1, <3>1 DEF Targets
    <3> QED
      BY <1>9, <3>1, <3>2 DEF IsTarget, Assigned
  <2>3. InstructionInv'
    <3>1. InstructionInv /\ form.flow = "branch" /\ target.live_in \subseteq LiveAfter
      BY <1>1, <1>13 DEF FreshInv
    <3>2. form.flow \notin Tables /\ form.flow # "shared" /\ ~Indirect
      BY <3>1 DEF Tables, Indirect
    <3>3. AllLive(target')
      BY <1>9, <2>2, <3>2 DEF AllLive
    <3>4. /\ IsTarget(target', Regs') /\ ~Indirect' /\ target'.live_in \subseteq LiveAfter' /\ form'.flow \notin Tables
          /\ AllLive(target')
      BY <1>6, <1>12, <2>2, <3>1, <3>2, <3>3 DEF Indirect, Regs
    <3> QED
      BY <1>6, <3>1, <3>4 DEF InstructionInv, Regs
  <2>4. FreshInv'
    BY <1>1, <1>6, <1>13, <2>3 DEF FreshInv
  <2>5. IInv'
    BY <1>11, <2>1, <2>4 DEF IInv, PhaseInv
  <2>6. ValueInv => ValueInv'
    BY <1>1, <1>6, <1>8, <1>13, <2>1 DEF ValueInv
  <2>7. ReadInv => ReadInv'
    BY <1>6, <2>1 DEF ReadInv
  <2> QED
    BY <2>5, <2>6, <2>7
<1>14. CASE ~sw.try /\ ~Indirect
  <2>1. pc' = "arrived" /\ target' = target /\ sw' = sw
    BY <1>6, <1>14
  <2>2. m'.at = target.at /\ m'.dirty = sw.dirty /\ AllLive(target)
    BY <1>5, <1>7, <1>9, <1>14 DEF Indirect, Tables
  <2>3. Entered'
    BY <1>6, <1>9, <2>1, <2>2 DEF Entered, AllLive, Regs
  <2>4. IInv'
    BY <1>11, <2>1, <2>3 DEF IInv, PhaseInv
  <2>5. ValueInv => ValueInv'
    BY <1>1, <1>8, <1>9, <1>14, <2>1 DEF ValueInv, Needed
  <2>6. ReadInv => ReadInv'
    BY <1>6, <2>1 DEF ReadInv
  <2> QED
    BY <2>4, <2>5, <2>6
<1>15. CASE ~sw.try /\ Indirect
  <2>1. pc' = "execute" /\ target' = target /\ sw' = sw /\ Indirect'
    BY <1>6, <1>15 DEF Indirect
  <2>2. Reached'
    <3>1. sw \in Switches(Regs)
      BY <1>1 DEF SwitchInv, Switching
    <3> QED
      BY <1>5, <1>6, <1>7, <1>9, <1>15, <2>1, <3>1 DEF Reached, Regs
  <2>3. InstructionInv /\ target # None /\ InstructionInv'
    BY <1>1, <1>6, <1>15, <2>1, InstructionStays
  <2>4. IInv'
    BY <1>11, <2>1, <2>2, <2>3 DEF IInv, PhaseInv
  <2>5. ASSUME ValueInv PROVE ValueInv'
    <3>1. Kept(m, LiveAfter) /\ LiveAfter \in SUBSET Works
      BY <1>1, <1>15, <2>3, <2>5, LiveAfterIs DEF ValueInv, Needed
    <3>2. Kept(m', LiveAfter')
      BY <1>8, <1>12, <3>1
    <3> QED
      BY <2>1, <3>2 DEF ValueInv
  <2>6. ASSUME JumpsExchange, ReadInv PROVE ReadInv'
    <3>1. SUFFICES ASSUME NEW i \in DOMAIN ops PROVE InPlace(ops[i])'
      BY <1>6, <2>1, <2>6 DEF ReadInv
    <3>2. InPlace(ops[i])
      BY <1>1, <1>15, <2>6 DEF ReadInv
    <3>3. form.flow \in Tables
      BY <1>1, <1>15, <2>3, <2>6 DEF JumpsExchange, InstructionInv, Indirect
    <3>4. ops[i].dup = {} /\ ops[i].use_id \in Regs /\ target.at[ops[i].use_id] = None
      BY <1>1, <1>15, <2>3, <3>3, JumpRules DEF InstructionInv
    <3>5. ops[i].use_id \notin rs
      BY <1>1, <1>3, <3>4 DEF SwitchInv, Switching, Assigned
    <3>6. x.regs[ops[i].use_id] = m.regs[ops[i].use_id] /\ x.slots = m.slots
      BY <1>4, <3>4, <3>5
    <3> QED
      BY <1>6, <1>7, <3>2, <3>4, <3>6 DEF InPlace
  <2> QED
    BY <2>4, <2>5, <2>6
<1> QED
  BY <1>1, <1>13, <1>14, <1>15

-------------------------------------------------------------------------------
(* Into the switch, and out of it *)

(* Before a switch that must succeed, what the target does not want is spilled or dropped
   (step 1 of switch_to_assignment), and no value that lives there is lost. *)
LEMMA LetGoIs ==
  ASSUME arch \in Archs, NEW x, Sound(x, Regs), NEW t, IsTarget(t, Regs), NEW try, ~try,
         NEW y, y = LetGo(x, t, try)
  PROVE  /\ Sound(y, Regs) /\ y.ok = x.ok /\ y.regs = x.regs
         /\ \A W \in SUBSET Works : W \subseteq t.live_in /\ Kept(x, W) => Kept(y, W)
         /\ \A w \in Works : Away(t, w) \/ w \notin t.live_in => Away(y, w)
         /\ \A w \in Works : Away(x, w) => Away(y, w) /\ (w \in x.slots => w \in y.slots)
<1>0. None \notin Works /\ t.live_in \subseteq Works
  BY NoneAssumption, TargetFacts
<1>1. PICK dead : dead = {r \in Assigned(x) : x.at[r] \notin t.live_in}
  OBVIOUS
<1>2. PICK away : away = {r \in Assigned(x) \ dead : x.at[r] \notin Range(t.at)}
  OBVIOUS
<1>3. PICK z : z = UnassignAll(x, dead)
  OBVIOUS
<1>4. y = SpillAll(z, away)
  BY <1>1, <1>2, <1>3 DEF LetGo
<1>5. dead \subseteq Assigned(x) /\ \A r \in dead : x.at[r] \notin t.live_in
  BY <1>1
<1>6. /\ Sound(z, Regs) /\ z.ok = x.ok /\ z.slots = x.slots /\ z.regs = x.regs
      /\ \A r \in Regs : z.at[r] = IF r \in dead THEN None ELSE x.at[r]
  <2>1. dead \subseteq Assigned(x)
    BY <1>5
  <2> QED
    BY <1>3, <2>1, UnassignAllIs
<1>7. away \subseteq Assigned(z)
  BY <1>2, <1>6, SoundFacts
<1>8. /\ Sound(y, Regs) /\ y.ok = z.ok /\ y.regs = z.regs
      /\ \A r \in Regs : y.at[r] = IF r \in away THEN None ELSE z.at[r]
  <2>1. None \notin Works /\ Sound(z, Regs)
    BY <1>0, <1>6
  <2> QED
    BY <1>4, <1>7, <2>1, SpillAllIs
<1>9. ASSUME NEW W \in SUBSET Works, W \subseteq t.live_in, Kept(x, W) PROVE Kept(y, W)
  <2>1. None \notin W /\ \A r \in dead : x.at[r] \notin W
    BY <1>0, <1>5, <1>9
  <2>2. Kept(z, W)
    BY <1>3, <1>5, <1>9, <2>1, UnassignKeeps
  <2> QED
    BY <1>0, <1>4, <1>6, <1>7, <2>1, <2>2, SpillKeeps
<1>10. ASSUME NEW w \in Works, Away(t, w) \/ w \notin t.live_in PROVE Away(y, w)
  <2>1. SUFFICES ASSUME NEW r \in Regs, y.at[r] = w PROVE FALSE
    BY <1>8, AwayIs
  <2>2. r \notin away /\ r \notin dead /\ x.at[r] = w /\ r \in Assigned(x)
    BY <1>0, <1>6, <1>8, <2>1, SoundFacts
  <2>3. w \in Range(t.at) /\ w \in t.live_in
    BY <1>1, <1>2, <2>2
  <2> QED
    BY <1>10, <2>3 DEF Away, Range
<1>11. \A w \in Works : Away(x, w) => Away(z, w)
  <2>1. \A w \in Works : (\A r \in Regs : x.at[r] # w) => (\A r \in Regs : z.at[r] # w)
    BY <1>0, <1>6
  <2> QED
    BY <1>6, <2>1, AwayIs
<1>12. \A w \in Works : Away(z, w) => Away(y, w) /\ (w \in z.slots => w \in y.slots)
  <2>1. Carries(z, y)
    BY <1>4, <1>6, <1>7, SpillCarries
  <2> QED
    BY <2>1 DEF Carries
<1> QED
  BY <1>6, <1>8, <1>9, <1>10, <1>11, <1>12

(* The start of a switch, with all or with none of its registers freed first. *)
LEMMA SwitchStart ==
  ASSUME arch \in Archs, arch' = arch, NEW x, Sound(x, Regs), NEW t, IsTarget(t, Regs),
         form'.flow # "shared" => AllLive(t),
         NEW try \in BOOLEAN, Switch(x, t, try)
  PROVE  /\ pc' = "switch" /\ target' = t /\ SwitchInv' /\ Sound(m', Regs) /\ m'.ok = x.ok
         /\ (sw'.try <=> try) /\ (try => m' = x) /\ m'.regs = x.regs
         /\ ~try => \A W \in SUBSET Works : W \subseteq t.live_in /\ Kept(x, W) => Kept(m', W)
         /\ \A w \in Works : Away(x, w) => Away(m', w) /\ (w \in x.slots => w \in m'.slots)
<1>1. /\ m' = LetGo(x, t, try) /\ target' = t /\ pc' = "switch"
      /\ sw' = [try |-> try, dirty |-> t.dirty, affected |-> Assigned(t), will_load |-> {}, run |-> -1]
  BY DEF Switch
<1>2. try => m' = x
  BY <1>1 DEF LetGo
<1>3. ~try =>
        /\ Sound(m', Regs) /\ m'.ok = x.ok /\ m'.regs = x.regs
        /\ \A W \in SUBSET Works : W \subseteq t.live_in /\ Kept(x, W) => Kept(m', W)
        /\ \A w \in Works : Away(t, w) \/ w \notin t.live_in => Away(m', w)
        /\ \A w \in Works : Away(x, w) => Away(m', w) /\ (w \in x.slots => w \in m'.slots)
  <2>1. SUFFICES ASSUME ~try
                 PROVE  /\ Sound(m', Regs) /\ m'.ok = x.ok /\ m'.regs = x.regs
                        /\ \A W \in SUBSET Works : W \subseteq t.live_in /\ Kept(x, W) => Kept(m', W)
                        /\ \A w \in Works : Away(t, w) \/ w \notin t.live_in => Away(m', w)
                        /\ \A w \in Works : Away(x, w) => Away(m', w) /\ (w \in x.slots => w \in m'.slots)
    OBVIOUS
  <2>2. PICK y : y = LetGo(x, t, try)
    OBVIOUS
  <2>3. /\ Sound(y, Regs) /\ y.ok = x.ok /\ y.regs = x.regs
        /\ \A w \in Works : Away(t, w) \/ w \notin t.live_in => Away(y, w)
        /\ \A w \in Works : Away(x, w) => Away(y, w) /\ (w \in x.slots => w \in y.slots)
    BY <2>1, <2>2, LetGoIs
  <2>4. \A W \in SUBSET Works : W \subseteq t.live_in /\ Kept(x, W) => Kept(y, W)
    BY <2>1, <2>2, LetGoIs
  <2>5. m' = y
    BY <1>1, <2>2
  <2> QED
    BY <2>3, <2>4, <2>5
<1>4. Sound(m', Regs) /\ m'.ok = x.ok /\ m'.regs = x.regs
  BY <1>2, <1>3
<1>5. /\ sw'.try = try /\ sw'.dirty = t.dirty /\ sw'.affected = Assigned(t) /\ sw'.will_load = {} /\ sw'.run = -1
  BY <1>1
<1>6. t.dirty \subseteq Assigned(t) /\ Assigned(t) \subseteq Regs /\ t.dirty \subseteq Regs
  BY TargetFacts DEF IsTarget
<1>7. sw' \in Switches(Regs)
  BY <1>1, <1>6 DEF Switches
<1>8. Switching(m', t, sw'.dirty, sw'.affected, sw'.will_load, sw'.try)
  BY <1>3, <1>5, <1>6 DEF Switching
<1>9. SwitchInv'
  BY <1>1, <1>5, <1>7, <1>8 DEF SwitchInv, Regs
<1> QED
  BY <1>1, <1>2, <1>3, <1>4, <1>5, <1>9

(* The assignments a block may be entered with are targets that leave the scratch registers free,
   and have nothing but what is needed where they hold nothing else. *)
LEMMA EntriesAre ==
  ASSUME arch \in Archs, NEW scratch \in SUBSET Regs, NEW held \in SUBSET Works, NEW kept \in SUBSET Works,
         NEW t \in Entries(scratch, held, kept)
  PROVE  /\ IsTarget(t, Regs) /\ t.live_in = kept /\ \A r \in scratch : t.at[r] = None
         /\ held = kept => AllLive(t)
<1>1. PICK at, d, o :
        /\ at \in [Regs -> held \cup {None}] /\ d \in SUBSET {r \in Regs : at[r] # None} /\ o \in BOOLEAN
        /\ \A r \in scratch : at[r] = None
        /\ \A r, q \in Regs : at[r] = at[q] => r = q \/ at[r] = None
        /\ t = [at |-> at, dirty |-> d, live_in |-> kept, read_only |-> o]
  BY DEF Entries
<1>2. at \in [Regs -> Works \cup {None}]
  BY <1>1
<1>3. t \in Targets(Regs)
  BY <1>1, <1>2 DEF Targets
<1>4. t.at = at /\ t.dirty = d /\ t.live_in = kept
  BY <1>1
<1>5. held = kept => AllLive(t)
  BY <1>1, <1>4 DEF AllLive
<1> QED
  BY <1>1, <1>3, <1>4, <1>5 DEF IsTarget, Injective, Assigned

\* Between instructions only what the assignment promises counts.
LEMMA PromisedIs ==
  ASSUME NEW R, None \notin R, None \notin Works, NEW x, Sound(x, R), NEW alive, alive \subseteq Works,
         NEW y, y = Promised(x, alive)
  PROVE  /\ Sound(y, R) /\ y.ok = x.ok
         /\ Kept(x, alive) => Kept(y, alive)
<1> DEFINE regs == [r \in R |-> IF x.at[r] = None THEN None ELSE x.regs[r]]
           slots == {w \in x.slots \cap alive : RegOf(x, w) \notin x.dirty}
<1>0. /\ x \in Machines(R) /\ DOMAIN x.at = R /\ DOMAIN x.regs = R
      /\ x.regs \in [R -> Works \cup {None}] /\ x.slots \subseteq Works
      /\ x.dirty \subseteq R /\ (\A r \in x.dirty : x.at[r] # None)
      /\ \A r, q \in R : x.at[r] = x.at[q] => r = q \/ x.at[r] = None
  BY SoundFacts
<1>1. y = [x EXCEPT !.regs = regs, !.slots = slots]
  BY <1>0 DEF Promised
<1>2. regs \in [R -> Works \cup {None}] /\ slots \in SUBSET Works
  BY <1>0
<1>3. /\ \A r \in R : regs[r] = IF x.at[r] = None THEN None ELSE x.regs[r]
      /\ \A w : w \in slots <=> w \in x.slots /\ w \in alive /\ RegOf(x, w) \notin x.dirty
  OBVIOUS
<1> HIDE DEF regs, slots
<1>4. /\ y \in Machines(R)
      /\ y.at = x.at /\ y.dirty = x.dirty /\ y.regs = regs /\ y.slots = slots /\ y.ok = x.ok
  BY <1>0, <1>1, <1>2 DEF Machines
<1>5. Sound(y, R)
  BY <1>0, <1>4, IsSound
<1>6. ASSUME Kept(x, alive) PROVE Kept(y, alive)
  <2>1. /\ \A r \in R : x.at[r] \in alive => x.regs[r] = x.at[r] /\ (r \in x.dirty \/ x.at[r] \in x.slots)
        /\ \A w \in alive : (\A r \in R : x.at[r] # w) => w \in x.slots
    BY <1>6, KeptFacts
  <2>2. ASSUME NEW r \in R, y.at[r] \in alive
        PROVE  y.regs[r] = y.at[r] /\ (r \in y.dirty \/ y.at[r] \in y.slots)
    <3>1. x.at[r] \in Works /\ x.at[r] # None /\ x.at[r] \in alive
      BY <1>4, <2>2
    <3>2. RegOf(x, x.at[r]) = r
      BY <3>1, RegOfIs
    <3> QED
      BY <1>3, <1>4, <2>1, <3>1, <3>2
  <2>3. ASSUME NEW w \in alive, \A r \in R : y.at[r] # w PROVE w \in y.slots
    <3>1. w \in Works /\ w \in x.slots /\ Away(x, w)
      BY <1>4, <2>1, <2>3, AwayIs
    <3>2. RegOf(x, w) = None
      BY <3>1, RegOfIs
    <3> QED
      BY <1>0, <1>3, <1>4, <3>1, <3>2
  <2> QED
    BY <1>5, <2>2, <2>3, IsKept
<1> QED
  BY <1>4, <1>5, <1>6

(* Between two instructions the invariants hold of any sound machine. *)
LEMMA IdleStep ==
  ASSUME arch \in Archs, NEW x, Sound(x, Regs), Fine(x), NEW alive, alive \subseteq Works,
         Idle(x, alive)
  PROVE  IInv' /\ (Kept(x, alive) => ValueInv') /\ (~misread' => ReadInv')
<1>0. None \notin Works /\ None \notin Regs
  BY NoneApart DEF Regs
<1>1. /\ pc' = "idle" /\ m' = Promised(x, alive) /\ live' = alive
      /\ form' = NoForm /\ ops' = << >> /\ next' = 1 /\ target' = None /\ arch' = arch
  BY DEF Idle
<1>2. Sound(m', Regs) /\ m'.ok = x.ok /\ (Kept(x, alive) => Kept(m', alive))
  BY <1>0, <1>1, PromisedIs
<1>3. IInv'
  BY <1>1, <1>2, FineStays DEF IInv, PhaseInv, Regs
<1> QED
  BY <1>1, <1>2, <1>3 DEF ValueInv, ReadInv

(* Entering a block keeps the invariants. *)
LEMMA ArriveStep ==
  ASSUME IInv, Arrive
  PROVE  IInv' /\ (ValueInv => ValueInv') /\ (ReadInv => ReadInv')
<1>1. /\ arch \in Archs /\ Sound(m, Regs) /\ Fine(m) /\ pc = "arrived" /\ Entered
  BY DEF IInv, PhaseInv, Arrive
<1>2. PICK x : x = [m EXCEPT !.at = target.at, !.dirty = sw.dirty]
  OBVIOUS
<1>3. PICK alive : alive = target.live_in
  OBVIOUS
<1>4. alive \subseteq Works /\ Idle(x, alive) /\ misread' = misread
  BY <1>1, <1>2, <1>3, TargetFacts DEF Arrive, Entered
<1>5. /\ x \in Machines(Regs) /\ x.at = target.at /\ x.dirty = sw.dirty
      /\ x.regs = m.regs /\ x.slots = m.slots /\ x.ok = m.ok
  <2>1. m \in Machines(Regs) /\ target.at \in [Regs -> Works \cup {None}] /\ sw.dirty \in SUBSET Regs
    BY <1>1, TargetFacts DEF Entered, Sound
  <2> QED
    BY <1>2, <2>1 DEF Machines
<1>6. Sound(x, Regs) /\ Fine(x)
  <2>1. sw.dirty \subseteq Assigned(target) /\ Injective(target.at)
    BY <1>1 DEF Entered, IsTarget
  <2>2. Sound(x, Regs)
    BY <1>5, <2>1 DEF Sound, Assigned
  <2> QED
    BY <1>1, <1>5, <2>2, FineStays
<1>7. ASSUME Kept(m, alive) PROVE Kept(x, alive)
  <2>1. /\ \A r \in Regs : m.at[r] \in alive => m.regs[r] = m.at[r] /\ (r \in m.dirty \/ m.at[r] \in m.slots)
        /\ \A w \in alive : (\A r \in Regs : m.at[r] # w) => w \in m.slots
    BY <1>1, <1>7, KeptFacts
  <2>2. /\ None \notin alive
        /\ \A r \in Regs :
             /\ target.at[r] = IF m.at[r] \in alive THEN m.at[r] ELSE None
             /\ r \in m.dirty /\ target.at[r] # None => r \in sw.dirty
    BY <1>1, <1>3, <1>4, NoneAssumption DEF Entered
  <2>3. ASSUME NEW r \in Regs, x.at[r] \in alive
        PROVE  x.regs[r] = x.at[r] /\ (r \in x.dirty \/ x.at[r] \in x.slots)
    <3>1. m.at[r] \in alive /\ x.at[r] = m.at[r] /\ target.at[r] # None
      BY <1>5, <2>2, <2>3
    <3> QED
      BY <1>5, <2>1, <2>2, <3>1
  <2>4. ASSUME NEW w \in alive, \A r \in Regs : x.at[r] # w PROVE w \in x.slots
    <3>1. \A r \in Regs : m.at[r] # w
      BY <1>5, <2>2, <2>4
    <3> QED
      BY <1>5, <2>1, <3>1
  <2> QED
    BY <1>6, <2>3, <2>4, IsKept
<1>8. IInv' /\ (Kept(x, alive) => ValueInv') /\ (~misread' => ReadInv')
  BY <1>1, <1>4, <1>6, IdleStep
<1> QED
  BY <1>1, <1>3, <1>4, <1>7, <1>8 DEF ValueInv, ReadInv

(* So does falling through to the next block. *)
LEMMA NextBlockStep ==
  ASSUME IInv, NextBlock
  PROVE  IInv' /\ (ValueInv => ValueInv') /\ (ReadInv => ReadInv')
<1>1. /\ arch \in Archs /\ live \subseteq Works /\ Sound(m, Regs) /\ Fine(m) /\ pc = "idle"
      /\ None \notin Works
  BY NoneAssumption DEF IInv, NextBlock
<1>2. PICK kept \in SUBSET live, f \in arch.forms \cup {NoForm} :
        LET x == SpillAll(m, f.scratch \cap Assigned(m))
        IN  Idle(UnassignAll(x, {r \in Assigned(x) : x.at[r] \notin kept}), kept)
  BY DEF NextBlock
<1>3. PICK ss : ss = f.scratch \cap Assigned(m)
  OBVIOUS
<1>4. PICK z : z = SpillAll(m, ss)
  OBVIOUS
<1>5. PICK rs : rs = {r \in Assigned(z) : z.at[r] \notin kept}
  OBVIOUS
<1>6. PICK x : x = UnassignAll(z, rs)
  OBVIOUS
<1>7. Idle(x, kept) /\ misread' = misread
  BY <1>2, <1>3, <1>4, <1>5, <1>6 DEF NextBlock
<1>8. Sound(z, Regs) /\ z.ok = m.ok
  <2>1. ss \subseteq Assigned(m) /\ Sound(m, Regs) /\ None \notin Works
    BY <1>1, <1>3
  <2> QED
    BY <1>4, <2>1, SpillAllIs
<1>9. rs \subseteq Assigned(z) /\ (\A r \in rs : z.at[r] \notin kept)
  BY <1>5
<1>10. Sound(x, Regs) /\ x.ok = z.ok
  <2>1. rs \subseteq Assigned(z) /\ Sound(z, Regs)
    BY <1>8, <1>9
  <2> QED
    BY <1>6, <2>1, UnassignAllIs
<1>11. ASSUME Kept(m, live) PROVE Kept(x, kept)
  <2>1. Kept(m, kept)
    BY <1>11, KeptLess
  <2>2. ss \subseteq Assigned(m) /\ Sound(m, Regs) /\ None \notin Works /\ None \notin kept /\ kept \subseteq Works
    BY <1>1, <1>3
  <2>3. Kept(z, kept)
    BY <1>4, <2>1, <2>2, SpillKeeps
  <2>4. rs \subseteq Assigned(z) /\ Sound(z, Regs) /\ \A r \in rs : z.at[r] \notin kept \/ r \notin z.dirty
    BY <1>8, <1>9
  <2> QED
    BY <1>6, <2>2, <2>3, <2>4, UnassignKeeps
<1>12. Fine(x)
  BY <1>1, <1>8, <1>10, FineStays
<1>13. IInv' /\ (Kept(x, kept) => ValueInv') /\ (~misread' => ReadInv')
  <2>1. arch \in Archs /\ Sound(x, Regs) /\ Fine(x) /\ kept \subseteq Works
    BY <1>1, <1>10, <1>12
  <2> QED
    BY <1>7, <2>1, IdleStep
<1> QED
  BY <1>1, <1>7, <1>11, <1>13 DEF ValueInv, ReadInv

(* So does going on past an instruction. *)
LEMMA ContinueStep ==
  ASSUME IInv, Continue
  PROVE  IInv' /\ (ValueInv => ValueInv') /\ (ReadInv => ReadInv')
<1>1. /\ arch \in Archs /\ live \subseteq Works /\ Sound(m, Regs) /\ Fine(m) /\ pc = "idle"
      /\ form = NoForm /\ next \in Nat
      /\ UNCHANGED <<arch, live, form, ops, masks, next, misread>>
  BY DEF IInv, PhaseInv, Continue
<1>2. PICK kept \in SUBSET live : \E t \in Entries({}, kept, kept) : Switch(m, t, FALSE)
  BY DEF Continue
<1>3. PICK scratch \in SUBSET Regs : scratch = {}
  OBVIOUS
<1>4. PICK t \in Entries(scratch, kept, kept) : Switch(m, t, FALSE)
  BY <1>2, <1>3
<1>5. PICK try \in BOOLEAN : try = FALSE
  OBVIOUS
<1>6. kept \in SUBSET Works
  BY <1>1
<1>7. IsTarget(t, Regs) /\ t.live_in = kept /\ AllLive(t)
  BY <1>1, <1>6, EntriesAre
<1>8. Switch(m, t, try) /\ arch' = arch /\ (form'.flow # "shared" => AllLive(t))
  BY <1>1, <1>4, <1>5, <1>7
<1>9. /\ pc' = "switch" /\ target' = t /\ SwitchInv' /\ Sound(m', Regs) /\ m'.ok = m.ok
      /\ (sw'.try <=> try)
  BY <1>1, <1>7, <1>8, SwitchStart
<1>10. \A W \in SUBSET Works : W \subseteq t.live_in /\ Kept(m, W) => Kept(m', W)
  BY <1>1, <1>5, <1>7, <1>8, SwitchStart
<1>11. ~Indirect'
  BY <1>1 DEF Indirect, Tables, NoForm
<1>12. IInv'
  BY <1>1, <1>5, <1>9, <1>11, FineStays DEF IInv, PhaseInv, Regs
<1>13. ASSUME ValueInv PROVE ValueInv'
  <2>1. Kept(m, kept)
    BY <1>1, <1>13, KeptLess DEF ValueInv
  <2>2. Kept(m', t.live_in)
    BY <1>6, <1>7, <1>10, <2>1
  <2> QED
    BY <1>5, <1>9, <1>11, <2>2 DEF ValueInv, Needed
<1>14. ReadInv => ReadInv'
  BY <1>1, <1>9, <1>11 DEF ReadInv
<1> QED
  BY <1>12, <1>13, <1>14

\* What an instruction begins with
LEMMA BeginIsFresh ==
  ASSUME arch \in Archs, NEW f \in arch.forms, NEW ws \in [DOMAIN f.ops -> Works], NEW killed \in SUBSET Range(ws),
         \A i, j \in DOMAIN ws : ws[i] = ws[j] => i = j,
         \A i \in DOMAIN ws : ws[i] \in live <=> f.ops[i].use,
         form' = f, live' = live, arch' = arch,
         ops' = [i \in DOMAIN ws |-> Operand(f.ops[i], ws[i], ws[i] \in killed)],
         target' # None =>
           /\ IsTarget(target', Regs)
           /\ f.flow \in Tables \cup {"single"} => (live \cup Range(ws)) \ killed \subseteq target'.live_in
           /\ f.flow \notin Tables => target'.live_in \subseteq (live \cup Range(ws)) \ killed
           /\ f.flow \in Tables => \A i \in DOMAIN f.ops : target'.at[f.ops[i].use_id] = None
           /\ f.flow # "shared" => AllLive(target')
  PROVE  FreshInv' /\ LiveAfter' = (live \cup Range(ws)) \ killed
<1>1. Instruction(f, Regs)
  BY ArchAssumption DEF ArchAssumption, Regs
<1>2. f.ops \in Seq(Kinds(Regs)) /\ DOMAIN f.ops \subseteq Nat /\ DOMAIN ws = DOMAIN f.ops
  <2>1. f \in [ops : Seq(Kinds(Regs)), clobbered : SUBSET Regs, flow : Flows, scratch : SUBSET Regs]
    BY <1>1 DEF Instruction
  <2> QED
    BY <2>1
<1>3. \A i \in DOMAIN f.ops : f.ops[i] \in Kinds(Regs)
  BY <1>2
<1>4. DOMAIN ops' = DOMAIN f.ops
  BY <1>2
<1>5. ASSUME NEW i \in DOMAIN f.ops
      PROVE  /\ ops'[i] \in Operands(Regs) /\ OperandOf(ops'[i], f.ops[i])
             /\ ops'[i].work = ws[i] /\ ops'[i].out = f.ops[i].out /\ ops'[i].use = f.ops[i].use
             /\ (ops'[i].kill <=> ws[i] \in killed)
             /\ ~ops'[i].done /\ ~ops'[i].mem
             /\ ops'[i].use_id = f.ops[i].use_id /\ ops'[i].out_id = f.ops[i].out_id /\ ops'[i].dup = f.ops[i].dup
  <2>1. ops'[i] = Operand(f.ops[i], ws[i], ws[i] \in killed)
    BY <1>2
  <2>2. f.ops[i] \in Kinds(Regs) /\ ws[i] \in Works
    BY <1>2, <1>3
  <2>3. PICK k \in BOOLEAN : k <=> ws[i] \in killed
    OBVIOUS
  <2>4. ops'[i] = Operand(f.ops[i], ws[i], k)
    BY <2>1, <2>3
  <2>5. ops'[i] \in Operands(Regs)
    BY <2>2, <2>4 DEF Operand, Operands, Kinds
  <2>6. OperandOf(ops'[i], f.ops[i])
    BY <2>2, <2>4 DEF Operand, OperandOf, Kinds
  <2> QED
    BY <2>3, <2>4, <2>5, <2>6 DEF Operand
<1>6. ops' \in [DOMAIN f.ops -> Operands(Regs)]
  <2>1. ops' = [i \in DOMAIN f.ops |-> ops'[i]]
    BY <1>2
  <2> QED
    BY <1>5, <2>1
<1>7. \A i, j \in DOMAIN f.ops : i # j /\ f.ops[i].use_id # None =>
        f.ops[i].use_id \notin {f.ops[j].use_id} \cup f.ops[j].dup
  BY <1>1 DEF Instruction
<1>8. ASSUME NEW i \in DOMAIN f.ops, NEW j \in DOMAIN f.ops, i # j
      PROVE  /\ ops'[i].work # ops'[j].work
             /\ ops'[i].use_id # None => ops'[i].use_id \notin {ops'[j].use_id} \cup ops'[j].dup
  <2>1. ws[i] # ws[j]
    BY <1>2, <1>8
  <2>2. ops'[i].work = ws[i] /\ ops'[j].work = ws[j]
    BY <1>5
  <2>3. ops'[i].use_id = f.ops[i].use_id /\ ops'[j].use_id = f.ops[j].use_id /\ ops'[j].dup = f.ops[j].dup
    BY <1>5
  <2>4. f.ops[i].use_id # None => f.ops[i].use_id \notin {f.ops[j].use_id} \cup f.ops[j].dup
    BY <1>7, <1>8
  <2> QED
    BY <2>1, <2>2, <2>3, <2>4
<1>9. LiveAfter' = (live \cup Range(ws)) \ killed
  <2>1. \A i \in DOMAIN f.ops : f.ops[i].use \/ f.ops[i].out
    BY <1>1 DEF Instruction
  <2>2. ASSUME NEW w \in (live \cup Range(ws)) \ killed PROVE w \in LiveAfter'
    <3>1. ~\E op \in {o \in Range(ops') : o.kill} : op.work = w
      <4>1. SUFFICES ASSUME NEW i \in DOMAIN f.ops, ops'[i].kill, ops'[i].work = w PROVE FALSE
        BY <1>4 DEF Range
      <4> QED
        BY <1>5, <2>2, <4>1
    <3>2. w \in live \/ \E op \in {o \in Range(ops') : o.out} : op.work = w
      <4>1. SUFFICES ASSUME w \notin live PROVE \E op \in {o \in Range(ops') : o.out} : op.work = w
        OBVIOUS
      <4>2. PICK i \in DOMAIN f.ops : ws[i] = w
        BY <1>2, <2>2, <4>1 DEF Range
      <4>3. ~f.ops[i].use
        BY <1>2, <4>1, <4>2
      <4>4. ops'[i].out /\ ops'[i].work = w /\ ops'[i] \in Range(ops')
        BY <1>4, <1>5, <2>1, <4>2, <4>3 DEF Range
      <4> QED
        BY <4>4
    <3> QED
      BY <3>1, <3>2 DEF LiveAfter
  <2>3. ASSUME NEW w \in LiveAfter' PROVE w \in (live \cup Range(ws)) \ killed
    <3>1. w \in live \/ \E i \in DOMAIN f.ops : ops'[i].work = w
      BY <1>4, <2>3 DEF LiveAfter, Range
    <3>2. \A i \in DOMAIN f.ops : ops'[i].kill => ops'[i].work # w
      BY <1>4, <2>3 DEF LiveAfter, Range
    <3>3. w \in live \cup Range(ws)
      <4>1. CASE w \notin live
        <5>1. PICK i \in DOMAIN f.ops : ops'[i].work = w
          BY <3>1, <4>1
        <5>2. ws[i] = w
          BY <1>5, <5>1
        <5> QED
          BY <1>2, <5>2 DEF Range
      <4> QED
        BY <4>1
    <3>4. ASSUME w \in killed PROVE FALSE
      <4>1. PICK i \in DOMAIN f.ops : ws[i] = w
        BY <1>2, <3>4 DEF Range
      <4> QED
        BY <1>5, <3>2, <3>4, <4>1
    <3> QED
      BY <3>3, <3>4
  <2> QED
    BY <2>2, <2>3
<1>10. ASSUME target' # None
       PROVE  /\ IsTarget(target', Regs')
              /\ Indirect' => LiveAfter' \subseteq target'.live_in
              /\ form'.flow \notin Tables => target'.live_in \subseteq LiveAfter'
              /\ form'.flow \in Tables => \A i \in DOMAIN ops' : target'.at[form'.ops[i].use_id] = None
              /\ form'.flow # "shared" => AllLive(target')
  BY <1>4, <1>9, <1>10 DEF Regs, Indirect
<1>11. \A i \in DOMAIN ops' : OperandOf(ops'[i], form'.ops[i]) /\ (ops'[i].use <=> ops'[i].work \in live')
  <2>1. SUFFICES ASSUME NEW i \in DOMAIN f.ops
                 PROVE  OperandOf(ops'[i], f.ops[i]) /\ (ops'[i].use <=> ops'[i].work \in live)
    BY <1>4
  <2>2. OperandOf(ops'[i], f.ops[i])
    BY <1>5
  <2>3. ops'[i].use = f.ops[i].use /\ ops'[i].work = ws[i]
    BY <1>5
  <2>4. ws[i] \in live <=> f.ops[i].use
    BY <1>2
  <2>5. ops'[i].use <=> ops'[i].work \in live
    BY <2>3, <2>4
  <2> QED
    BY <2>2, <2>5
<1>12. InstructionInv'
  BY <1>4, <1>6, <1>8, <1>10, <1>11 DEF InstructionInv, Regs
<1> QED
  BY <1>4, <1>5, <1>9, <1>12 DEF FreshInv

(* So does picking up an instruction: its operands are fresh. *)
LEMMA BeginStep ==
  ASSUME IInv, Begin
  PROVE  IInv' /\ (ValueInv => ValueInv') /\ (ReadInv => ReadInv')
<1>1. /\ arch \in Archs /\ live \subseteq Works /\ Sound(m, Regs) /\ Fine(m) /\ pc = "idle" /\ next \in Nat
      /\ UNCHANGED <<arch, live, masks, next, misread>>
  BY DEF IInv, Begin
<1> DEFINE Begun(f, ws, killed) ==
       /\ \A i, j \in DOMAIN ws : ws[i] = ws[j] => i = j
       /\ \A i \in DOMAIN ws : (ws[i] \in live) = f.ops[i].use
       /\ form' = f
       /\ ops' = [i \in DOMAIN ws |-> Operand(f.ops[i], ws[i], ws[i] \in killed)]
       /\ \/ pc' = "fit" /\ target' = None /\ UNCHANGED <<m, sw>>
          \/ \E t \in EntriesFor(f, (live \cup Range(ws)) \ killed) :
               IF f.flow = "branch" THEN Switch(m, t, TRUE)
               ELSE target' = t /\ pc' = "fit" /\ UNCHANGED <<m, sw>>
<1>2. PICK f \in arch.forms : \E ws \in [DOMAIN f.ops -> Works] : \E killed \in SUBSET Range(ws) :
        Begun(f, ws, killed)
  BY DEF Begin
<1>3. PICK ws \in [DOMAIN f.ops -> Works] : \E killed \in SUBSET Range(ws) : Begun(f, ws, killed)
  BY <1>2
<1>4. PICK killed \in SUBSET Range(ws) : Begun(f, ws, killed)
  BY <1>3
<1>5. PICK alive : alive = (live \cup Range(ws)) \ killed
  OBVIOUS
<1>6. \/ pc' = "fit" /\ target' = None /\ UNCHANGED <<m, sw>>
      \/ \E t \in EntriesFor(f, alive) :
           IF f.flow = "branch" THEN Switch(m, t, TRUE)
           ELSE target' = t /\ pc' = "fit" /\ UNCHANGED <<m, sw>>
  BY <1>4, <1>5
<1>7. form' = f /\ f \in arch.forms
  BY <1>4
<1>8. Instruction(f, Regs)
  BY <1>1, ArchAssumption DEF ArchAssumption, Regs
<1>9. /\ \A i \in DOMAIN f.ops : f.ops[i] \in Kinds(Regs)
      /\ f.flow \in Flows /\ f.scratch \in SUBSET Regs
      /\ f.flow \in Tables => \A i \in DOMAIN f.ops : f.ops[i].use_id \in f.scratch
  <2>1. f \in [ops : Seq(Kinds(Regs)), clobbered : SUBSET Regs, flow : Flows, scratch : SUBSET Regs]
    BY <1>8 DEF Instruction
  <2>2. f.ops \in Seq(Kinds(Regs)) /\ f.flow \in Flows /\ f.scratch \in SUBSET Regs
    BY <2>1
  <2>3. f.flow \in Tables => {f.ops[i].use_id : i \in DOMAIN f.ops} \subseteq f.scratch
    BY <1>8 DEF Instruction
  <2> QED
    BY <2>2, <2>3
<1>10. alive \in SUBSET Works
  BY <1>1, <1>5 DEF Range
<1>11. \A i \in DOMAIN ws : ws[i] \in live <=> f.ops[i].use
  <2>1. SUFFICES ASSUME NEW i \in DOMAIN ws PROVE ws[i] \in live <=> f.ops[i].use
    OBVIOUS
  <2>2. f.ops[i].use \in BOOLEAN
    BY <1>9 DEF Kinds
  <2>3. (ws[i] \in live) = f.ops[i].use
    BY <1>4
  <2> QED
    BY <2>2, <2>3
<1>12. ASSUME NEW t \in EntriesFor(f, alive)
       PROVE  /\ IsTarget(t, Regs)
              /\ f.flow \in Tables \cup {"single"} => alive \subseteq t.live_in
              /\ f.flow \notin Tables => t.live_in \subseteq alive
              /\ f.flow \in Tables => \A i \in DOMAIN f.ops : t.at[f.ops[i].use_id] = None
              /\ f.flow # "shared" => AllLive(t)
  <2>1. CASE f.flow = "branch"
    <3>1. PICK kept \in SUBSET alive : t \in Entries(f.scratch, kept, kept)
      BY <1>12, <2>1 DEF EntriesFor, Tables
    <3>2. kept \in SUBSET Works /\ f.scratch \in SUBSET Regs
      BY <1>9, <1>10
    <3>3. IsTarget(t, Regs) /\ t.live_in = kept /\ AllLive(t)
      BY <1>1, <3>1, <3>2, EntriesAre
    <3> QED
      BY <2>1, <3>1, <3>3 DEF Tables
  <2>2. CASE f.flow = "single"
    <3>1. PICK none \in SUBSET Regs : none = {}
      OBVIOUS
    <3>2. t \in Entries(none, alive, alive)
      BY <1>12, <2>2, <3>1 DEF EntriesFor, Tables
    <3>3. IsTarget(t, Regs) /\ t.live_in = alive /\ AllLive(t)
      BY <1>1, <1>10, <3>2, EntriesAre
    <3> QED
      BY <2>2, <3>3 DEF Tables
  <2>3. CASE f.flow \in Tables
    <3>1. PICK kept \in SUBSET Works :
            alive \subseteq kept /\ t \in Entries(f.scratch, IF f.flow = "shared" THEN Works ELSE kept, kept)
      BY <1>12, <2>3 DEF EntriesFor, Tables
    <3>2. PICK held \in SUBSET Works : held = IF f.flow = "shared" THEN Works ELSE kept
      OBVIOUS
    <3>3. t \in Entries(f.scratch, held, kept) /\ f.scratch \in SUBSET Regs
      BY <1>9, <3>1, <3>2
    <3>4. /\ IsTarget(t, Regs) /\ t.live_in = kept /\ (held = kept => AllLive(t))
          /\ \A r \in f.scratch : t.at[r] = None
      BY <1>1, <3>3, EntriesAre
    <3> QED
      BY <1>9, <2>3, <3>1, <3>2, <3>4
  <2> QED
    BY <1>12, <2>1, <2>2, <2>3 DEF EntriesFor, Tables
<1>13. ASSUME target' # None =>
                /\ IsTarget(target', Regs)
                /\ f.flow \in Tables \cup {"single"} => alive \subseteq target'.live_in
                /\ f.flow \notin Tables => target'.live_in \subseteq alive
                /\ f.flow \in Tables => \A i \in DOMAIN f.ops : target'.at[f.ops[i].use_id] = None
                /\ f.flow # "shared" => AllLive(target')
       PROVE  FreshInv' /\ LiveAfter' = alive
  <2>1. /\ \A i, j \in DOMAIN ws : ws[i] = ws[j] => i = j
        /\ form' = f /\ live' = live /\ arch' = arch
        /\ ops' = [i \in DOMAIN ws |-> Operand(f.ops[i], ws[i], ws[i] \in killed)]
    BY <1>1, <1>4
  <2>2. target' # None =>
          /\ IsTarget(target', Regs)
          /\ f.flow \in Tables \cup {"single"} => (live \cup Range(ws)) \ killed \subseteq target'.live_in
          /\ f.flow \notin Tables => target'.live_in \subseteq (live \cup Range(ws)) \ killed
          /\ f.flow \in Tables => \A i \in DOMAIN f.ops : target'.at[f.ops[i].use_id] = None
          /\ f.flow # "shared" => AllLive(target')
    BY <1>5, <1>13
  <2>3. arch \in Archs
    BY <1>1
  <2>4. FreshInv' /\ LiveAfter' = (live \cup Range(ws)) \ killed
    BY <1>11, <2>1, <2>2, <2>3, BeginIsFresh
  <2> QED
    BY <1>5, <2>4
<1>14. ASSUME pc' = "fit", FreshInv', UNCHANGED <<m, sw>>
       PROVE  IInv' /\ (ValueInv => ValueInv') /\ (ReadInv => ReadInv')
  <2>1. IInv'
    BY <1>1, <1>14 DEF IInv, PhaseInv, Regs
  <2>2. ValueInv => ValueInv'
    BY <1>1, <1>14 DEF ValueInv
  <2>3. ReadInv => ReadInv'
    BY <1>1, <1>14 DEF ReadInv
  <2> QED
    BY <2>1, <2>2, <2>3
<1>15. CASE pc' = "fit" /\ target' = None /\ UNCHANGED <<m, sw>>
  BY <1>13, <1>14, <1>15
<1>16. CASE f.flow = "branch" /\ \E t \in EntriesFor(f, alive) : Switch(m, t, TRUE)
  <2>1. PICK t \in EntriesFor(f, alive) : Switch(m, t, TRUE)
    BY <1>16
  <2>2. PICK try \in BOOLEAN : try = TRUE
    OBVIOUS
  <2>3. IsTarget(t, Regs) /\ t.live_in \subseteq alive /\ AllLive(t)
    BY <1>12, <1>16 DEF Tables
  <2>4. Switch(m, t, try) /\ arch' = arch /\ (form'.flow # "shared" => AllLive(t))
    BY <1>1, <2>1, <2>2, <2>3
  <2>5. /\ pc' = "switch" /\ target' = t /\ SwitchInv' /\ Sound(m', Regs)
        /\ (sw'.try <=> try) /\ (try => m' = m)
    BY <1>1, <2>3, <2>4, SwitchStart
  <2>6. FreshInv' /\ target'.live_in \subseteq LiveAfter'
    BY <1>12, <1>13, <2>3, <2>5
  <2>7. sw'.try /\ m' = m /\ form'.flow = "branch"
    BY <1>7, <1>16, <2>2, <2>5
  <2>8. IInv'
    BY <1>1, <2>5, <2>6, <2>7 DEF IInv, PhaseInv, Regs
  <2>9. ValueInv => ValueInv'
    BY <1>1, <2>5, <2>7 DEF ValueInv
  <2>10. ReadInv => ReadInv'
    BY <1>1, <2>5, <2>7 DEF ReadInv
  <2> QED
    BY <2>8, <2>9, <2>10
<1>17. CASE \E t \in EntriesFor(f, alive) : target' = t /\ pc' = "fit" /\ UNCHANGED <<m, sw>>
  <2>1. PICK t \in EntriesFor(f, alive) : target' = t /\ pc' = "fit" /\ UNCHANGED <<m, sw>>
    BY <1>17
  <2>2. FreshInv'
    BY <1>12, <1>13, <2>1
  <2> QED
    BY <1>14, <2>1, <2>2
<1> QED
  BY <1>6, <1>15, <1>16, <1>17

-------------------------------------------------------------------------------
(* STEPs 1 to 5 *)

\* What stays of an operand while its registers are chosen
SameOperand(p, op) ==
  /\ p.work = op.work /\ p.use = op.use /\ p.write = op.write /\ p.out = op.out /\ p.rm = op.rm
  /\ p.dup = op.dup /\ p.mask = op.mask /\ p.kill = op.kill
  /\ op.use_id # None => p.use_id = op.use_id
  /\ op.out_id # None => p.out_id = op.out_id

(* An operand pass that changes decisions only, and lets no two operands use one register, keeps
   the instruction's invariant. *)
LEMMA OperandsChange ==
  ASSUME arch \in Archs, InstructionInv, UNCHANGED <<arch, form, live, target>>,
         ops' \in [DOMAIN ops -> Operands(Regs)],
         \A i \in DOMAIN ops : SameOperand(ops'[i], ops[i]),
         \A i, j \in DOMAIN ops : i # j /\ ops'[i].use_id # None =>
           ops'[i].use_id \notin {ops'[j].use_id} \cup ops'[j].dup
  PROVE  InstructionInv' /\ LiveAfter' = LiveAfter
<1>1. DOMAIN ops' = DOMAIN ops /\ DOMAIN ops = DOMAIN form.ops
  BY OperandFacts
<1>2. \A i \in DOMAIN ops :
        /\ ops'[i].work = ops[i].work /\ ops'[i].use = ops[i].use
        /\ ops'[i].out = ops[i].out /\ ops'[i].kill = ops[i].kill
  BY DEF SameOperand
<1>3. LiveAfter' = LiveAfter
  <2>1. \A w : (\E op \in {o \in Range(ops') : o.out} : op.work = w)
               <=> (\E op \in {o \in Range(ops) : o.out} : op.work = w)
    BY <1>1, <1>2 DEF Range
  <2>2. \A w : (\E op \in {o \in Range(ops') : o.kill} : op.work = w)
               <=> (\E op \in {o \in Range(ops) : o.kill} : op.work = w)
    BY <1>1, <1>2 DEF Range
  <2>3. {op.work : op \in {o \in Range(ops') : o.out}} = {op.work : op \in {o \in Range(ops) : o.out}}
    BY <2>1
  <2>4. {op.work : op \in {o \in Range(ops') : o.kill}} = {op.work : op \in {o \in Range(ops) : o.kill}}
    BY <2>2
  <2> QED
    BY <2>3, <2>4 DEF LiveAfter
<1>4. \A i \in DOMAIN ops : OperandOf(ops'[i], form.ops[i])
  BY DEF InstructionInv, OperandOf, SameOperand
<1>5. \A i \in DOMAIN ops : ops'[i].use <=> ops'[i].work \in live
  BY <1>2 DEF InstructionInv
<1>6. \A i, j \in DOMAIN ops : i # j => ops'[i].work # ops'[j].work
  BY <1>2 DEF InstructionInv
<1>7. InstructionInv'
  BY <1>1, <1>3, <1>4, <1>5, <1>6 DEF InstructionInv, Indirect, Regs
<1> QED
  BY <1>3, <1>7

\* The registers of the operands
LEMMA OperandRegs ==
  ASSUME arch \in Archs, Sound(m, Regs), InstructionInv
  PROVE  \A i \in DOMAIN ops :
           /\ RegOf(m, ops[i].work) # None =>
                RegOf(m, ops[i].work) \in Regs /\ m.at[RegOf(m, ops[i].work)] = ops[i].work
           /\ RegOf(m, ops[i].work) = None <=> Away(m, ops[i].work)
           /\ \A r \in Regs : m.at[r] = ops[i].work => RegOf(m, ops[i].work) = r
           /\ \A j \in DOMAIN ops : i # j /\ RegOf(m, ops[i].work) # None =>
                RegOf(m, ops[i].work) # RegOf(m, ops[j].work)
<1>0. None \notin Regs /\ None \notin Works
  BY NoneApart DEF Regs
<1>1. \A i \in DOMAIN ops :
           /\ RegOf(m, ops[i].work) # None =>
                RegOf(m, ops[i].work) \in Regs /\ m.at[RegOf(m, ops[i].work)] = ops[i].work
           /\ RegOf(m, ops[i].work) = None <=> Away(m, ops[i].work)
           /\ \A r \in Regs : m.at[r] = ops[i].work => RegOf(m, ops[i].work) = r
  BY <1>0, OperandFacts, RegOfIs
<1>2. \A i, j \in DOMAIN ops : i # j => ops[i].work # ops[j].work
  BY DEF InstructionInv
<1> QED
  BY <1>1, <1>2

(* The first pass of alloc_instruction, which keeps uses where they are when it can, keeps the
   invariants. *)
LEMMA FitStep ==
  ASSUME IInv, Fit
  PROVE  IInv' /\ (ValueInv => ValueInv') /\ (ReadInv => ReadInv')
<1>1. /\ arch \in Archs /\ live \subseteq Works /\ Sound(m, Regs) /\ Fine(m) /\ pc = "fit"
      /\ FreshInv /\ InstructionInv /\ None \notin Regs /\ None \notin Works
      /\ UNCHANGED <<arch, live, form, target, sw, misread>> /\ pc' = "decide" /\ next' = 1
  BY NoneApart DEF IInv, PhaseInv, Fit, FreshInv, Regs
<1> DEFINE used == {i \in DOMAIN ops : ops[i].use}
           reg(i) == RegOf(m, ops[i].work)
<1>2. PICK fitting : fitting = {i \in used : Fits(ops[i])}
  OBVIOUS
<1>3. PICK free : free = UNION {IF ops[i].use_id # None THEN {ops[i].use_id} \cap Assigned(m)
                                ELSE {reg(i)} \ {None} : i \in used \ fitting}
  OBVIOUS
<1>4. PICK written : written = {reg(i) : i \in {j \in fitting : ops[j].write}}
  OBVIOUS
<1>5. /\ ops' = [i \in DOMAIN ops |->
                   IF i \in fitting THEN [ops[i] EXCEPT !.use_id = reg(i), !.done = TRUE]
                   ELSE [ops[i] EXCEPT !.done = ~ops[i].use]]
      /\ m' = MakeDirty(m, written)
      /\ masks' = [NoMasks EXCEPT
                     !.use = Fixed \cup {reg(i) : i \in fitting},
                     !.free = free, !.out = form.clobbered, !.live = Assigned(m) \ free]
  BY <1>2, <1>3, <1>4 DEF Fit
<1>6. \A i \in DOMAIN ops :
        /\ reg(i) # None => reg(i) \in Regs /\ m.at[reg(i)] = ops[i].work
        /\ \A r \in Regs : m.at[r] = ops[i].work => reg(i) = r
        /\ \A j \in DOMAIN ops : i # j /\ reg(i) # None => reg(i) # reg(j)
  BY <1>1, OperandRegs
<1>7. /\ DOMAIN ops = DOMAIN form.ops /\ DOMAIN ops \subseteq Nat \ {0}
      /\ \A i \in DOMAIN ops :
           /\ ops[i] \in Operands(Regs) /\ ops[i].use \in BOOLEAN /\ ops[i].write \in BOOLEAN
           /\ ops[i].use_id \in Regs \cup {None} /\ ops[i].dup \subseteq Regs
           /\ ~ops[i].done /\ ~ops[i].mem
           /\ ops[i].use_id = form.ops[i].use_id /\ ops[i].out_id = form.ops[i].out_id
           /\ form.ops[i].use_id # None => ops[i].use
  BY <1>1, OperandFacts, OperandRules DEF FreshInv
<1>8. \A i : i \in fitting <=> i \in DOMAIN ops /\ ops[i].use /\ reg(i) # None
               /\ (IF ops[i].use_id # None THEN reg(i) = ops[i].use_id ELSE reg(i) \in ops[i].mask \ Reserved)
  BY <1>2 DEF Fits
<1>9. /\ \A i \in DOMAIN ops : ops[i].use_id # None => ops[i].use_id \in Fixed /\ ops[i].use_id \in Reserved
      /\ \A i \in DOMAIN ops : ops[i].dup \subseteq Reserved
      /\ Fixed \subseteq Regs /\ Fixed \subseteq Reserved
  BY <1>7 DEF Fixed, Reserved, Taken
<1>10. \A r : r \in free <=> \E i \in DOMAIN ops :
                /\ ops[i].use /\ i \notin fitting
                /\ IF ops[i].use_id # None THEN r = ops[i].use_id /\ r \in Assigned(m) ELSE r = reg(i) /\ r # None
  BY <1>3
<1>11. /\ masks'.use = Fixed \cup {reg(i) : i \in fitting} /\ masks'.free = free
       /\ masks'.out = form.clobbered /\ masks'.live = Assigned(m) \ free /\ masks'.outs = {} /\ masks'.room = {}
  BY <1>5 DEF NoMasks
<1>12. written \subseteq Assigned(m) /\ \A i \in fitting : ops[i].write => reg(i) \in written
  <2>1. \A r : r \in written <=> \E i \in fitting : ops[i].write /\ r = reg(i)
    BY <1>4
  <2>2. \A i \in fitting : reg(i) \in Regs /\ m.at[reg(i)] \in Works
    BY <1>1, <1>6, <1>8, OperandFacts
  <2> QED
    BY <1>1, <2>1, <2>2, SoundFacts
<1>13. /\ Sound(m', Regs) /\ m'.ok = m.ok /\ m'.at = m.at /\ m'.regs = m.regs /\ m'.slots = m.slots
       /\ m'.dirty = m.dirty \cup written
  <2>1. PICK y : y = MakeDirty(m, written)
    OBVIOUS
  <2>2. /\ Sound(y, Regs) /\ y.ok = m.ok /\ y.at = m.at /\ y.regs = m.regs /\ y.slots = m.slots
        /\ y.dirty = m.dirty \cup written
    BY <1>1, <1>12, <2>1, MakeDirtyIs
  <2> QED
    BY <1>5, <2>1, <2>2
<1>14. ASSUME NEW i \in DOMAIN ops
       PROVE  /\ ops'[i] \in Operands(Regs) /\ SameOperand(ops'[i], ops[i])
              /\ ops'[i].out_id = ops[i].out_id /\ ~ops'[i].mem
              /\ i \in fitting => ops'[i].done /\ ops'[i].use_id = reg(i)
              /\ i \notin fitting => (ops'[i].done <=> ~ops[i].use) /\ ops'[i].use_id = ops[i].use_id
  <2>1. CASE i \in fitting
    <3>1. ops'[i] = [ops[i] EXCEPT !.use_id = reg(i), !.done = TRUE]
      BY <1>5, <2>1
    <3>2. reg(i) \in Regs \cup {None} /\ (ops[i].use_id # None => reg(i) = ops[i].use_id)
      BY <1>6, <1>8, <2>1
    <3>3. ops[i] \in Operands(Regs) /\ ~ops[i].mem
      BY <1>7
    <3> HIDE DEF reg
    <3>4. ops'[i] \in Operands(Regs) /\ ops'[i].done /\ ops'[i].use_id = reg(i) /\ ~ops'[i].mem
          /\ ops'[i].out_id = ops[i].out_id
      BY <3>1, <3>2, <3>3 DEF Operands
    <3>5. SameOperand(ops'[i], ops[i])
      BY <3>1, <3>2, <3>3 DEF Operands, SameOperand
    <3> QED
      BY <2>1, <3>4, <3>5
  <2>2. CASE i \notin fitting
    <3>1. ops'[i] = [ops[i] EXCEPT !.done = ~ops[i].use]
      BY <1>5, <2>2
    <3>2. PICK d \in BOOLEAN : d = ~ops[i].use
      BY <1>7
    <3>3. ops'[i] = [ops[i] EXCEPT !.done = d]
      BY <3>1, <3>2
    <3>4. ops[i] \in Operands(Regs) /\ ~ops[i].mem
      BY <1>7
    <3>5. ops'[i] \in Operands(Regs) /\ ops'[i].done = d /\ ops'[i].use_id = ops[i].use_id /\ ~ops'[i].mem
          /\ ops'[i].out_id = ops[i].out_id
      BY <3>3, <3>4 DEF Operands
    <3>6. SameOperand(ops'[i], ops[i])
      BY <3>3, <3>4 DEF Operands, SameOperand
    <3> QED
      BY <2>2, <3>2, <3>5, <3>6
  <2> QED
    BY <2>1, <2>2
<1>15. DOMAIN ops' = DOMAIN ops /\ ops' \in [DOMAIN ops -> Operands(Regs)]
  <2>1. DOMAIN ops' = DOMAIN ops /\ ops' = [i \in DOMAIN ops |-> ops'[i]]
    BY <1>5
  <2> QED
    BY <1>14, <2>1
<1> HIDE DEF reg, used
<1>16. \A i, j \in DOMAIN ops : i # j /\ ops[i].use_id # None => ops[i].use_id \notin {ops[j].use_id} \cup ops[j].dup
  BY <1>1 DEF InstructionInv
<1>17. ASSUME NEW i \in DOMAIN ops, NEW j \in DOMAIN ops, i # j, ops'[i].use_id # None
       PROVE  ops'[i].use_id \notin {ops'[j].use_id} \cup ops'[j].dup
  <2>1. ops'[j].dup = ops[j].dup
    BY <1>14 DEF SameOperand
  <2>2. CASE i \in fitting /\ ops[i].use_id = None
    <3>1. ops'[i].use_id = reg(i) /\ reg(i) \notin Reserved /\ reg(i) # None
      BY <1>8, <1>14, <2>2
    <3>2. reg(i) \notin ops[j].dup /\ (ops[j].use_id # None => reg(i) # ops[j].use_id)
      BY <1>9, <3>1
    <3>3. reg(i) # reg(j)
      BY <1>6, <1>17, <3>1
    <3>4. ops'[j].use_id \in {ops[j].use_id, reg(j)}
      BY <1>14
    <3> QED
      BY <2>1, <3>1, <3>2, <3>3, <3>4
  <2>3. CASE ~(i \in fitting /\ ops[i].use_id = None)
    <3>1. ops'[i].use_id = ops[i].use_id
      BY <1>8, <1>14, <2>3
    <3>2. ops[i].use_id \in Reserved
      BY <1>9, <1>17, <3>1
    <3>3. ops'[j].use_id = ops[j].use_id \/ ops'[j].use_id \notin Reserved
      BY <1>8, <1>14
    <3> QED
      BY <1>16, <1>17, <2>1, <3>1, <3>2, <3>3
  <2> QED
    BY <2>2, <2>3
<1>18. InstructionInv'
  BY <1>1, <1>14, <1>15, <1>17, OperandsChange
<1>19. PlacingInv'
  <2>1. masks' \in Masks(Regs)
    <3>1. \A i \in fitting : reg(i) \in Regs
      BY <1>6, <1>8
    <3>2. \A r \in free : r \in Regs
      BY <1>6, <1>7, <1>10
    <3>3. Assigned(m) \subseteq Regs
      BY <1>1, SoundFacts
    <3>4. form.clobbered \subseteq Regs
      BY <1>1, FormFacts DEF InstructionInv
    <3>5. PICK use \in SUBSET Regs : use = Fixed \cup {reg(i) : i \in fitting}
      BY <1>9, <3>1
    <3>6. PICK lv \in SUBSET Regs : lv = Assigned(m) \ free
      BY <3>3
    <3>7. masks' = [NoMasks EXCEPT !.use = use, !.free = free, !.out = form.clobbered, !.live = lv]
      BY <1>5, <3>5, <3>6 DEF reg
    <3> QED
      BY <3>2, <3>4, <3>7 DEF NoMasks, Masks
  <2>2. ASSUME NEW i \in DOMAIN ops
        PROVE  /\ ops'[i].done \/ ops'[i].use
               /\ ~ops'[i].mem
               /\ ops'[i].out_id = form.ops[i].out_id
               /\ ops'[i].use_id # None => ops'[i].use_id \in masks'.use
               /\ ops'[i].use /\ ops'[i].done /\ ~ops'[i].mem =>
                    /\ ops'[i].use_id # None /\ m'.at[ops'[i].use_id] = ops'[i].work
                    /\ ops'[i].write => ops'[i].use_id \in m'.dirty
    <3>1. ops'[i].use = ops[i].use /\ ops'[i].work = ops[i].work /\ ops'[i].write = ops[i].write
      BY <1>14 DEF SameOperand
    <3>2. CASE i \in fitting
      <4>1. ops'[i].use_id = reg(i) /\ reg(i) # None /\ ops[i].use
        BY <1>8, <1>14, <3>2
      <4> QED
        BY <1>6, <1>7, <1>11, <1>12, <1>13, <1>14, <3>1, <3>2, <4>1
    <3>3. CASE i \notin fitting
      BY <1>7, <1>9, <1>11, <1>14, <3>1, <3>3
    <3> QED
      BY <3>2, <3>3
  <2> QED
    BY <1>1, <1>11, <1>15, <1>18, <2>1, <2>2 DEF PlacingInv, Regs
<1>20. WantedInv'
  <2>1. ASSUME NEW i \in DOMAIN ops, ops'[i].use, ops'[i].done PROVE ops'[i].use_id \notin free
    <3>1. i \in fitting /\ ops'[i].use_id = reg(i) /\ reg(i) # None
      BY <1>8, <1>14, <2>1 DEF SameOperand
    <3>2. ASSUME NEW j \in DOMAIN ops, j \notin fitting, reg(i) \in free, ops[j].use,
                 IF ops[j].use_id # None THEN reg(i) = ops[j].use_id ELSE reg(i) = reg(j)
          PROVE  FALSE
      <4>1. i # j
        BY <3>1, <3>2
      <4>2. reg(i) # reg(j)
        BY <1>6, <3>1, <4>1
      <4>3. ops[j].use_id # None /\ reg(i) = ops[j].use_id
        BY <3>2, <4>2
      <4>4. ops[i].use_id # None
        BY <1>8, <1>9, <3>1, <4>3
      <4>5. reg(i) = ops[i].use_id
        BY <1>8, <3>1, <4>4
      <4> QED
        BY <1>16, <4>1, <4>3, <4>4, <4>5
    <3> QED
      BY <1>10, <3>1, <3>2
  <2>2. ASSUME NEW i \in DOMAIN ops, ~ops'[i].done, ops'[i].use_id # None
        PROVE  ops'[i].use_id \in free \/ m'.at[ops'[i].use_id] = None
    <3>1. i \notin fitting /\ ops[i].use /\ ops'[i].use_id = ops[i].use_id
      BY <1>7, <1>14, <2>2
    <3>2. ops[i].use_id \in Assigned(m) \/ m.at[ops[i].use_id] = None
      BY <1>1, <1>7, <2>2, <3>1, SoundFacts
    <3> QED
      BY <1>10, <1>13, <2>2, <3>1, <3>2
  <2> QED
    BY <1>11, <1>15, <2>1, <2>2 DEF WantedInv
<1>21. TakenInv'
  <2>1. Reserved = OwnFixed
    <3>1. /\ {ops[i].use_id : i \in DOMAIN ops} = {form.ops[i].use_id : i \in DOMAIN form.ops}
          /\ {ops[i].dup : i \in DOMAIN ops} = {form.ops[i].dup : i \in DOMAIN form.ops}
          /\ {ops[i].out_id : i \in DOMAIN ops} = {form.ops[i].out_id : i \in DOMAIN form.ops}
      BY <1>1, <1>7 DEF InstructionInv, OperandOf
    <3> QED
      BY <3>1 DEF Reserved, OwnFixed, Taken
  <2>2. OwnFixed' = OwnFixed /\ Choosing' = Choosing
    BY <1>1, <1>15 DEF OwnFixed, Choosing
  <2>3. \A i : i \in Choosing <=> i \in DOMAIN ops /\ ops[i].use /\ ops[i].use_id = None
    BY <1>1, <1>7 DEF Choosing, InstructionInv, OperandOf
  <2>4. \A i \in DOMAIN ops : FreeFor(i) = ops[i].mask \ Reserved /\ FreeFor(i)' = FreeFor(i) /\ None \notin FreeFor(i)
    BY <1>1, <1>7, <2>1, <2>2, OperandFacts DEF FreeFor, InstructionInv, OperandOf
  <2> DEFINE left == [i \in DOMAIN ops |-> IF i \in fitting THEN None ELSE reg(i)]
  <2>5. \A i \in DOMAIN ops : reg(i) \in Regs \cup {None}
    BY <1>6
  <2>6. left \in [DOMAIN ops -> Regs \cup {None}] /\ \A i \in DOMAIN ops : left[i] = IF i \in fitting THEN None ELSE reg(i)
    BY <2>5
  <2> HIDE DEF left
  <2>7. ASSUME NEW i \in Choosing PROVE left[i] \notin FreeFor(i)
    BY <1>8, <2>3, <2>4, <2>6
  <2>8. ASSUME NEW r \in masks'.free \cup masks'.use
        PROVE  r \in OwnFixed \/ \E i \in Choosing : r \in {ops'[i].use_id, left[i]}
    <3>1. CASE r \in Fixed
      BY <1>9, <2>1, <3>1
    <3>2. CASE \E i \in fitting : r = reg(i)
      <4>1. PICK i \in fitting : r = reg(i)
        BY <3>2
      <4>2. CASE ops[i].use_id = None
        BY <1>8, <1>14, <2>3, <4>1, <4>2
      <4>3. CASE ops[i].use_id # None
        BY <1>8, <1>9, <2>1, <4>1, <4>3
      <4> QED
        BY <4>2, <4>3
    <3>3. CASE r \in free
      <4>1. PICK i \in DOMAIN ops :
              /\ ops[i].use /\ i \notin fitting
              /\ IF ops[i].use_id # None THEN r = ops[i].use_id ELSE r = reg(i)
        BY <1>10, <3>3
      <4>2. CASE ops[i].use_id = None
        BY <2>3, <2>6, <4>1, <4>2
      <4>3. CASE ops[i].use_id # None
        BY <1>9, <2>1, <4>1, <4>3
      <4> QED
        BY <4>2, <4>3
    <3> QED
      BY <1>11, <2>8, <3>1, <3>2, <3>3
  <2>9. DOMAIN ops' = DOMAIN ops /\ arch' = arch
    BY <1>1, <1>15
  <2>10. left \in [DOMAIN ops' -> Regs' \cup {None}]
    BY <2>6, <2>9 DEF Regs
  <2>11. \A i \in Choosing' : left[i] \notin FreeFor(i)'
    BY <2>2, <2>3, <2>4, <2>7
  <2>12. \A r \in masks'.free \cup masks'.use :
           r \in OwnFixed' \/ \E i \in Choosing' : r \in {ops'[i].use_id, left[i]}
    BY <2>2, <2>8
  <2> QED
    BY <2>10, <2>11, <2>12 DEF TakenInv
<1>22. DecideInv'
  <2>1. ASSUME NEW i \in DOMAIN ops
        PROVE  /\ ~(i < 1)
               /\ ~ops'[i].done /\ ops'[i].use_id = None => \A r \in Regs : m'.at[r] = ops'[i].work => r \in free
    <3>1. i \in Nat /\ i # 0
      BY <1>7
    <3>2. ASSUME ~ops'[i].done, ops'[i].use_id = None, NEW r \in Regs, m'.at[r] = ops'[i].work
          PROVE  r \in free
      <4>1. i \notin fitting /\ ops[i].use /\ ops[i].use_id = None
        BY <1>7, <1>14, <3>2
      <4>2. reg(i) = r /\ r # None
        BY <1>1, <1>6, <1>13, <1>14, <3>2 DEF SameOperand
      <4> QED
        BY <1>10, <4>1, <4>2
    <3> QED
      BY <3>1, <3>2
  <2>2. Assigned(m') \subseteq masks'.live \cup masks'.free
    BY <1>11, <1>13 DEF Assigned
  <2> QED
    BY <1>1, <1>11, <1>15, <1>19, <1>20, <1>21, <2>1, <2>2 DEF DecideInv, Regs
<1>23. IInv'
  BY <1>1, <1>13, <1>22 DEF IInv, PhaseInv, Fine, Regs
<1>24. ASSUME ValueInv PROVE ValueInv'
  <2>1. PICK y : y = MakeDirty(m, written)
    OBVIOUS
  <2>2. Kept(m, live)
    BY <1>1, <1>24 DEF ValueInv
  <2>3. Kept(y, live)
    BY <1>1, <1>12, <2>1, <2>2, DirtyKeeps
  <2> QED
    BY <1>1, <1>5, <2>1, <2>3 DEF ValueInv
<1>25. ReadInv => ReadInv'
  BY <1>1 DEF ReadInv
<1> QED
  BY <1>23, <1>24, <1>25

\* A virtual register that is read comes into the register it was given.
LEMMA PlaceIs ==
  ASSUME arch \in Archs, NEW x, Sound(x, Regs), NEW w \in Works, NEW u \in Regs, x.at[u] = None,
         NEW here, here = RegOf(x, w), NEW z, z = IF here = None THEN OnLoad(x, w, u) ELSE OnMove(x, w, u, here),
         NEW written \in SUBSET {u}, NEW y, y = MakeDirty(z, written)
  PROVE  /\ Sound(y, Regs) /\ y.ok = x.ok
         /\ \A r \in Regs : y.at[r] = IF r = u THEN w ELSE IF x.at[r] = w THEN None ELSE x.at[r]
         /\ written \subseteq y.dirty
         /\ \A r \in Regs : r # u /\ x.at[r] # w => (r \in y.dirty <=> r \in x.dirty)
         /\ \A W \in SUBSET Works : Kept(x, W) => Kept(y, W)
<1>0. None \notin Works /\ None \notin Regs
  BY NoneApart DEF Regs
<1>1. /\ here # None => here \in Regs /\ x.at[here] = w
      /\ here = None <=> Away(x, w)
      /\ \A r \in Regs : x.at[r] = w => here = r
  BY <1>0, RegOfIs
<1>2. /\ Sound(z, Regs) /\ z.ok = x.ok
      /\ \A r \in Regs : z.at[r] = IF r = u THEN w ELSE IF x.at[r] = w THEN None ELSE x.at[r]
      /\ \A r \in Regs : r # u /\ x.at[r] # w => (r \in z.dirty <=> r \in x.dirty)
      /\ \A W \in SUBSET Works : Kept(x, W) => Kept(z, W)
  <2>1. CASE here = None
    <3>1. z = OnLoad(x, w, u) /\ Away(x, w)
      BY <1>1, <2>1
    <3>2. /\ Sound(z, Regs) /\ z.ok = x.ok /\ z.dirty = x.dirty
          /\ \A r \in Regs : z.at[r] = IF r = u THEN w ELSE x.at[r]
      BY <1>0, <3>1, LoadIs
    <3>3. ASSUME NEW W \in SUBSET Works, Kept(x, W) PROVE Kept(z, W)
      <4>1. None \notin W
        BY <1>0
      <4> QED
        BY <1>0, <3>1, <3>3, <4>1, LoadKeeps
    <3>4. \A r \in Regs : x.at[r] # w
      BY <3>1, AwayIs
    <3> QED
      BY <3>2, <3>3, <3>4
  <2>2. CASE here # None
    <3>1. here \in Regs /\ x.at[here] = w /\ x.at[here] # None /\ here # u
      BY <1>0, <1>1, <2>2
    <3>2. z = OnMove(x, x.at[here], u, here)
      BY <2>2, <3>1
    <3>3. /\ Sound(z, Regs) /\ z.ok = x.ok
          /\ \A r \in Regs : z.at[r] = IF r = u THEN x.at[here] ELSE IF r = here THEN None ELSE x.at[r]
          /\ \A r \in Regs : r \in z.dirty <=> IF r = u THEN here \in x.dirty ELSE r # here /\ r \in x.dirty
      BY <3>1, <3>2, MoveIs
    <3>4. ASSUME NEW W \in SUBSET Works, Kept(x, W) PROVE Kept(z, W)
      <4>1. None \notin W
        BY <1>0
      <4> QED
        BY <3>1, <3>2, <3>4, <4>1, MoveKeeps
    <3> QED
      BY <1>1, <3>1, <3>3, <3>4
  <2> QED
    BY <2>1, <2>2
<1>3. written \subseteq Assigned(z)
  BY <1>0, <1>2, SoundFacts
<1>4. /\ Sound(y, Regs) /\ y.ok = z.ok /\ y.at = z.at /\ y.dirty = z.dirty \cup written
  <2>1. Sound(z, Regs) /\ written \subseteq Assigned(z)
    BY <1>2, <1>3
  <2> QED
    BY <2>1, MakeDirtyIs
<1>5. \A W \in SUBSET Works : Kept(z, W) => Kept(y, W)
  BY <1>2, <1>3, DirtyKeeps
<1> QED
  BY <1>2, <1>4, <1>5

(* Bringing a used value to its register, by a load or a move, and marking it if written, loses
   no value. *)
LEMMA PlaceKeeps ==
  ASSUME arch \in Archs, NEW x, Sound(x, Regs), NEW w \in Works, NEW u \in Regs, x.at[u] = None,
         NEW here, here = RegOf(x, w), NEW z, z = IF here = None THEN OnLoad(x, w, u) ELSE OnMove(x, w, u, here),
         NEW written \in SUBSET {u}, NEW y, y = MakeDirty(z, written),
         NEW W \in SUBSET Works
  PROVE  Kept(x, W) => Kept(y, W)
BY PlaceIs

\* The first operand that is left
LEMMA FirstPending ==
  ASSUME arch \in Archs, InstructionInv, Pending # {}, NEW i, i = Min(Pending), next \in Nat
  PROVE  /\ i \in DOMAIN ops /\ i \in Nat /\ ~ops[i].done /\ i >= next
         /\ \A j \in DOMAIN ops : j < i + 1 => j = i \/ ops[j].done \/ j < next
         /\ \A j \in DOMAIN ops : ~ops[j].done /\ j >= next /\ j # i => j >= i + 1
<1>1. DOMAIN ops \subseteq Nat
  BY OperandFacts
<1>2. Pending \in SUBSET Nat /\ \A j : j \in Pending <=> j \in DOMAIN ops /\ j >= next /\ ~ops[j].done
  BY <1>1 DEF Pending
<1>3. i \in Pending /\ \A j \in Pending : i <= j
  BY <1>2, MinOfNats
<1>4. \A j \in DOMAIN ops : j \in Nat
  BY <1>1
<1>5. i \in Nat
  BY <1>2, <1>3
<1>6. ASSUME NEW j \in DOMAIN ops, j < i + 1 PROVE j = i \/ ops[j].done \/ j < next
  BY <1>2, <1>3, <1>4, <1>5, <1>6
<1>7. ASSUME NEW j \in DOMAIN ops, ~ops[j].done, j >= next, j # i PROVE j >= i + 1
  BY <1>2, <1>3, <1>4, <1>5, <1>7
<1> QED
  BY <1>2, <1>3, <1>5, <1>6, <1>7

\* What FindsRegisters says of an operand that is read
LEMMA RegisterLeft ==
  ASSUME arch \in Archs, form \in arch.forms, NEW used,
         used = {i \in DOMAIN form.ops : form.ops[i].use /\ form.ops[i].use_id = None},
         NEW i \in used, NEW got \in [used \ {i} -> Regs], NEW left \in [used \ {i} -> Regs \cup {None}],
         \A j \in used \ {i} : left[j] \notin form.ops[j].mask \ OwnFixed
  PROVE  \E r \in form.ops[i].mask \ OwnFixed : r \notin Range(got) /\ r \notin Range(left)
<1>1. FindsRegisters(form, Regs)
  BY FormFacts DEF Instruction
<1>2. ~(form.ops[i].mask \ OwnFixed \subseteq Range(got) \cup Range(left))
  BY <1>1 DEF FindsRegisters, OwnFixed
<1> QED
  BY <1>2

(* There is always a register to choose. *)
LEMMA SomeAllocable ==
  ASSUME arch \in Archs, DecideInv, NEW i \in DOMAIN ops, ~ops[i].done, ops[i].use_id = None
  PROVE  ops[i].mask \ (Reserved \cup masks.free \cup masks.use) # {}
<1>1. /\ InstructionInv /\ PlacingInv /\ TakenInv /\ form \in arch.forms
      /\ DOMAIN ops = DOMAIN form.ops /\ None \notin Regs /\ Regs # {}
      /\ \A j \in DOMAIN ops : OperandOf(ops[j], form.ops[j])
      /\ \A j \in DOMAIN ops : ops[j].use_id \in Regs \cup {None} /\ ops[j].mask \subseteq Regs
  BY NoneApart, OperandFacts DEF DecideInv, PlacingInv, InstructionInv, Regs
<1>2. \A j : j \in Choosing <=> j \in DOMAIN form.ops /\ form.ops[j].use /\ form.ops[j].use_id = None
  BY <1>1 DEF Choosing
<1>3. i \in Choosing
  BY <1>1, <1>2 DEF PlacingInv, OperandOf
<1>4. PICK left \in [DOMAIN ops -> Regs \cup {None}] :
        /\ \A j \in Choosing : left[j] \notin FreeFor(j)
        /\ \A r \in masks.free \cup masks.use :
             r \in OwnFixed \/ \E j \in Choosing : r \in {ops[j].use_id, left[j]}
  BY <1>1 DEF TakenInv
<1>5. PICK any \in Regs : TRUE
  BY <1>1
<1> DEFINE others == Choosing \ {i}
           got == [j \in others |-> IF ops[j].use_id # None THEN ops[j].use_id ELSE any]
           gone == [j \in others |-> left[j]]
<1>6. others \subseteq DOMAIN ops
  BY <1>1, <1>2
<1>7. /\ got \in [others -> Regs] /\ gone \in [others -> Regs \cup {None}]
      /\ \A j \in others : gone[j] = left[j] /\ (ops[j].use_id # None => got[j] = ops[j].use_id)
  BY <1>1, <1>4, <1>6
<1> HIDE DEF got, gone
<1>8. PICK r \in FreeFor(i) : r \notin Range(got) /\ r \notin Range(gone)
  <2>1. Choosing = {j \in DOMAIN form.ops : form.ops[j].use /\ form.ops[j].use_id = None}
    BY <1>1 DEF Choosing
  <2>2. \A j \in others : gone[j] \notin form.ops[j].mask \ OwnFixed
    BY <1>4, <1>7 DEF FreeFor
  <2>3. \E r \in form.ops[i].mask \ OwnFixed : r \notin Range(got) /\ r \notin Range(gone)
    BY <1>1, <1>3, <1>7, <2>1, <2>2, RegisterLeft
  <2> QED
    BY <2>3 DEF FreeFor
<1>9. r \in ops[i].mask /\ r \in Regs /\ r # None /\ r \notin OwnFixed
  BY <1>1 DEF FreeFor, OperandOf
<1>10. r \notin masks.free \cup masks.use
  <2>1. SUFFICES ASSUME r \in masks.free \cup masks.use PROVE FALSE
    OBVIOUS
  <2>2. PICK j \in Choosing : r \in {ops[j].use_id, left[j]}
    BY <1>4, <1>9, <2>1
  <2>3. CASE j = i
    BY <1>3, <1>4, <1>9, <2>2, <2>3
  <2>4. CASE j # i
    <3>1. got[j] = r \/ gone[j] = r
      BY <1>7, <1>9, <2>2, <2>4
    <3>2. j \in DOMAIN got /\ j \in DOMAIN gone
      BY <1>7, <2>4
    <3> QED
      BY <1>8, <3>1, <3>2 DEF Range
  <2> QED
    BY <2>3, <2>4
<1>11. r \notin Reserved
  <2>1. SUFFICES ASSUME r \in Reserved PROVE r \in OwnFixed \cup masks.use
    BY <1>9, <1>10
  <2>2. CASE \E j \in DOMAIN ops : r = ops[j].use_id
    BY <1>1, <1>9, <2>2 DEF PlacingInv
  <2>3. CASE \E j \in DOMAIN ops : r \in ops[j].dup
    BY <1>1, <2>3 DEF OwnFixed, Taken, OperandOf
  <2>4. CASE form.flow = "call" /\ \E j \in DOMAIN ops : r = ops[j].out_id
    BY <1>1, <2>4 DEF OwnFixed, Taken, PlacingInv
  <2> QED
    BY <2>1, <2>2, <2>3, <2>4 DEF Reserved, Taken
<1> QED
  BY <1>9, <1>10, <1>11

(* The decision for one use keeps the invariants. *)
LEMMA DecideStep ==
  ASSUME IInv, Decide
  PROVE  IInv' /\ (ValueInv => ValueInv') /\ (ReadInv => ReadInv')
<1>1. /\ arch \in Archs /\ live \subseteq Works /\ next \in Nat /\ Sound(m, Regs) /\ Fine(m) /\ pc = "decide"
      /\ DecideInv /\ PlacingInv /\ WantedInv /\ InstructionInv /\ None \notin Regs /\ None \notin Works
      /\ UNCHANGED <<arch, live, form, target, sw, misread>>
  BY NoneApart DEF IInv, PhaseInv, Decide, DecideInv, PlacingInv, Regs
<1>2. PICK i : i = Min(Pending)
  OBVIOUS
<1>3. /\ i \in DOMAIN ops /\ i \in Nat /\ ~ops[i].done /\ i >= next
      /\ \A j \in DOMAIN ops : j < i + 1 => j = i \/ ops[j].done \/ j < next
  BY <1>1, <1>2, FirstPending DEF Decide
<1>4. /\ next' = i + 1
      /\ \/ Patchable(i) /\ Patch(i)
         \/ ops[i].use_id # None /\ UNCHANGED <<m, ops, masks>>
         \/ ops[i].use_id = None /\ \E u \in ops[i].mask \ (Reserved \cup masks.free \cup masks.use) : Choose(i, u)
      /\ pc' = pc
  <2>1. ops[i].use_id = None => ops[i].mask \ (Reserved \cup masks.free \cup masks.use) # {}
    BY <1>1, <1>3, SomeAllocable
  <2> QED
    BY <1>2, <2>1 DEF Decide
<1>5. \A j \in DOMAIN ops :
        /\ ops[j] \in Operands(Regs) /\ ops[j].work \in Works /\ ops[j].use_id \in Regs \cup {None}
        /\ ops[j].mask \subseteq Regs /\ ops[j].use \in BOOLEAN /\ ops[j].write \in BOOLEAN
        /\ ops[j].done \in BOOLEAN /\ ops[j].mem \in BOOLEAN /\ ops[j].dup \subseteq Regs
  BY <1>1, OperandFacts
<1>6. /\ masks.out = form.clobbered /\ masks.outs = {}
      /\ masks \in Masks(Regs) /\ Assigned(m) \subseteq masks.live \cup masks.free
  BY <1>1 DEF PlacingInv, DecideInv
<1>7. \A j \in DOMAIN ops :
        /\ ops[j].done \/ ops[j].use
        /\ ops[j].mem => ops[j].rm /\ ops[j].done /\ Away(m, ops[j].work)
        /\ ops[j].out_id = form.ops[j].out_id
        /\ ops[j].use_id # None => ops[j].use_id \in masks.use
        /\ ops[j].use /\ ops[j].done /\ ~ops[j].mem =>
             /\ ops[j].use_id # None /\ m.at[ops[j].use_id] = ops[j].work
             /\ ops[j].write => ops[j].use_id \in m.dirty
  BY <1>1 DEF PlacingInv
<1>8. \A j \in DOMAIN ops :
        /\ ops[j].use /\ ops[j].done /\ ~ops[j].mem => ops[j].use_id \notin masks.free
        /\ ~ops[j].done /\ ops[j].use_id # None => ops[j].use_id \in masks.free \/ m.at[ops[j].use_id] = None
  BY <1>1 DEF WantedInv
<1>9. \A j \in DOMAIN ops :
        /\ j < next => ops[j].done \/ ops[j].use_id # None
        /\ ~ops[j].done /\ ops[j].use_id = None => \A r \in Regs : m.at[r] = ops[j].work => r \in masks.free
  BY <1>1 DEF DecideInv
<1>10. \A j, k \in DOMAIN ops : j # k =>
         /\ ops[j].work # ops[k].work
         /\ ops[j].use_id # None => ops[j].use_id \notin {ops[k].use_id} \cup ops[k].dup
  BY <1>1 DEF InstructionInv
<1>11. next' \in Nat
  BY <1>3, <1>4
<1>12. CASE Patchable(i) /\ Patch(i)
  <2>1. UNCHANGED <<m, masks>> /\ ops[i].rm /\ RegOf(m, ops[i].work) = None
        /\ ops' = [ops EXCEPT ![i].done = TRUE, ![i].mem = TRUE]
    BY <1>12 DEF Patchable, Patch
  <2>2. Away(m, ops[i].work)
    BY <1>1, <1>3, <2>1, OperandRegs
  <2>3. DOMAIN ops' = DOMAIN ops /\ \A j \in DOMAIN ops : j # i => ops'[j] = ops[j]
    BY <2>1
  <2>4. /\ ops'[i] \in Operands(Regs) /\ ops'[i].done /\ ops'[i].mem /\ SameOperand(ops'[i], ops[i])
        /\ ops'[i].use_id = ops[i].use_id /\ ops'[i].out_id = ops[i].out_id
    <3>1. PICK d \in BOOLEAN : d = TRUE
      OBVIOUS
    <3>2. ops'[i] = [ops[i] EXCEPT !.done = d, !.mem = d]
      BY <1>3, <2>1, <3>1
    <3>3. ops[i] \in Operands(Regs)
      BY <1>3, <1>5
    <3>4. ops'[i] \in Operands(Regs) /\ ops'[i].done = d /\ ops'[i].mem = d
      BY <3>2, <3>3 DEF Operands
    <3>5. SameOperand(ops'[i], ops[i]) /\ ops'[i].use_id = ops[i].use_id /\ ops'[i].out_id = ops[i].out_id
      BY <3>2, <3>3 DEF Operands, SameOperand
    <3> QED
      BY <3>1, <3>4, <3>5
  <2>5. \A j \in DOMAIN ops : ops'[j] \in Operands(Regs) /\ SameOperand(ops'[j], ops[j])
                               /\ ops'[j].use_id = ops[j].use_id /\ ops'[j].dup = ops[j].dup
    BY <1>5, <2>3, <2>4 DEF SameOperand
  <2>6. InstructionInv'
    <3>1. ops' \in [DOMAIN ops -> Operands(Regs)]
      BY <1>5, <2>1, <2>5
    <3> QED
      BY <1>1, <1>10, <2>5, <3>1, OperandsChange
  <2>7. PlacingInv'
    <3>1. ASSUME NEW j \in DOMAIN ops
          PROVE  /\ ops'[j].done \/ ops'[j].use
                 /\ ops'[j].mem => ops'[j].rm /\ ops'[j].done /\ Away(m, ops'[j].work)
                 /\ ops'[j].out_id = form.ops[j].out_id
                 /\ ops'[j].use_id # None => ops'[j].use_id \in masks.use
                 /\ ops'[j].use /\ ops'[j].done /\ ~ops'[j].mem =>
                      /\ ops'[j].use_id # None /\ m.at[ops'[j].use_id] = ops'[j].work
                      /\ ops'[j].write => ops'[j].use_id \in m.dirty
      <4>1. CASE j = i
        BY <1>7, <2>1, <2>2, <2>4, <4>1 DEF SameOperand
      <4>2. CASE j # i
        BY <1>7, <2>3, <4>2
      <4> QED
        BY <4>1, <4>2
    <3> QED
      BY <1>1, <1>6, <2>1, <2>3, <2>6, <3>1 DEF PlacingInv, Regs
  <2>8. WantedInv'
    BY <1>8, <2>1, <2>3, <2>4 DEF WantedInv
  <2>9. TakenInv'
    BY <1>1, <2>1, <2>3, <2>4 DEF DecideInv, TakenInv, Choosing, FreeFor, OwnFixed, Regs
  <2>10. DecideInv'
    <3>1. ASSUME NEW j \in DOMAIN ops
          PROVE  /\ j < i + 1 => ops'[j].done \/ ops'[j].use_id # None
                 /\ ~ops'[j].done /\ ops'[j].use_id = None => \A r \in Regs : m.at[r] = ops'[j].work => r \in masks.free
      BY <1>3, <1>9, <2>3, <2>4
    <3> QED
      BY <1>1, <1>4, <1>6, <2>1, <2>3, <2>7, <2>8, <2>9, <3>1 DEF DecideInv, Regs
  <2>11. IInv'
    BY <1>1, <1>4, <1>11, <2>1, <2>10 DEF IInv, PhaseInv, Fine, Regs
  <2> QED
    BY <1>1, <1>4, <2>1, <2>11 DEF ValueInv, ReadInv
<1>13. CASE ops[i].use_id # None /\ UNCHANGED <<m, ops, masks>>
  <2>1. InstructionInv'
    BY <1>1, <1>13, InstructionStays
  <2>2. PlacingInv' /\ WantedInv'
    BY <1>1, <1>13, <2>1 DEF PlacingInv, WantedInv, Regs
  <2>3. \A j \in DOMAIN ops : j < i + 1 => ops[j].done \/ ops[j].use_id # None
    BY <1>3, <1>9, <1>13
  <2>4. TakenInv'
    BY <1>1, <1>13 DEF DecideInv, TakenInv, Choosing, FreeFor, OwnFixed, Regs
  <2>5. DecideInv'
    BY <1>1, <1>4, <1>6, <1>9, <1>13, <2>2, <2>3, <2>4 DEF DecideInv, Regs
  <2>6. IInv'
    BY <1>1, <1>4, <1>11, <1>13, <2>5 DEF IInv, PhaseInv, Fine, Regs
  <2> QED
    BY <1>1, <1>4, <1>13, <2>6 DEF ValueInv, ReadInv
<1>14. CASE ops[i].use_id = None /\ \E u \in ops[i].mask \ (Reserved \cup masks.free \cup masks.use) : Choose(i, u)
  <2>1. PICK u \in ops[i].mask \ (Reserved \cup masks.free \cup masks.use) : Choose(i, u)
    BY <1>14
  <2>2. u \in Regs /\ u # None /\ u \notin Reserved /\ u \notin masks.free /\ u \notin masks.use
    BY <1>1, <1>3, <1>5, <2>1
  <2>3. PICK here : here = RegOf(m, ops[i].work)
    OBVIOUS
  <2>4. PICK w \in Works : w = ops[i].work
    BY <1>3, <1>5
  <2>5. PICK lr : lr = masks.live \ {here}
    OBVIOUS
  <2>6. PICK x : x = IF here = None THEN OnLoad(m, w, u) ELSE OnMove(m, w, u, here)
    OBVIOUS
  <2>7. PICK d \in BOOLEAN : d = (u \notin lr)
    OBVIOUS
  <2>8. /\ ops' = [ops EXCEPT ![i].use_id = u, ![i].done = d]
        /\ m' = IF u \in lr THEN m ELSE MakeDirty(x, DirtyIf(ops[i], u))
        /\ masks' = [masks EXCEPT !.use = masks.use \cup {u}, !.live = lr \cup {u},
                                  !.free = masks.free \cup ({u} \cap masks.live) \cup ({here} \ {None})]
    BY <2>1, <2>3, <2>4, <2>5, <2>6, <2>7 DEF Choose
  <2>9. /\ here # None => here \in Regs /\ m.at[here] = w /\ here \in masks.free
        /\ \A r \in Regs : m.at[r] = w => here = r
    BY <1>1, <1>3, <1>9, <1>14, <2>3, <2>4, OperandRegs
  <2>10. /\ masks'.use = masks.use \cup {u} /\ masks'.out = masks.out /\ masks'.outs = masks.outs
         /\ masks'.live = lr \cup {u} /\ masks' \in Masks(Regs)
         /\ masks'.free = masks.free \cup ({u} \cap masks.live) \cup ({here} \ {None})
    <3>1. PICK use \in SUBSET Regs : use = masks.use \cup {u}
      BY <1>6, <2>2 DEF Masks
    <3>2. PICK lv \in SUBSET Regs : lv = lr \cup {u}
      BY <1>6, <2>2, <2>5 DEF Masks
    <3>3. PICK free \in SUBSET Regs : free = masks.free \cup ({u} \cap masks.live) \cup ({here} \ {None})
      BY <1>6, <2>2, <2>9 DEF Masks
    <3>4. masks' = [masks EXCEPT !.use = use, !.live = lv, !.free = free]
      BY <2>8, <3>1, <3>2, <3>3
    <3>5. /\ masks' \in Masks(Regs) /\ masks'.use = use /\ masks'.live = lv /\ masks'.free = free
          /\ masks'.out = masks.out /\ masks'.outs = masks.outs
      BY <1>6, <3>4 DEF Masks
    <3> QED
      BY <3>1, <3>2, <3>3, <3>5
  <2>11. DOMAIN ops' = DOMAIN ops /\ \A j \in DOMAIN ops : j # i => ops'[j] = ops[j]
    BY <2>8
  <2>12. /\ ops'[i] \in Operands(Regs) /\ SameOperand(ops'[i], ops[i]) /\ ops'[i].use_id = u
         /\ (ops'[i].done <=> u \notin lr) /\ ops'[i].mem = ops[i].mem /\ ops'[i].out_id = ops[i].out_id
    <3>1. ops'[i] = [ops[i] EXCEPT !.use_id = u, !.done = d]
      BY <1>3, <2>8
    <3>2. ops[i] \in Operands(Regs) /\ ops[i].use_id = None
      BY <1>3, <1>5, <1>14
    <3>3. /\ ops'[i] \in Operands(Regs) /\ ops'[i].use_id = u /\ ops'[i].done = d
          /\ ops'[i].mem = ops[i].mem /\ ops'[i].out_id = ops[i].out_id
      BY <2>2, <3>1, <3>2 DEF Operands
    <3>4. SameOperand(ops'[i], ops[i])
      BY <3>1, <3>2 DEF Operands, SameOperand
    <3> QED
      BY <2>7, <3>3, <3>4
  <2>13. ~ops[i].mem /\ ops[i].use
    BY <1>3, <1>5, <1>7
  <2>14. \A j \in DOMAIN ops : j # i /\ ops[j].use_id # None => ops[j].use_id # u
    BY <1>7, <2>2
  <2>15. InstructionInv'
    <3>1. \A j \in DOMAIN ops : ops'[j] \in Operands(Regs) /\ SameOperand(ops'[j], ops[j])
      BY <1>5, <2>11, <2>12 DEF SameOperand
    <3>2. ops' \in [DOMAIN ops -> Operands(Regs)]
      BY <2>8, <3>1
    <3>3. ASSUME NEW j \in DOMAIN ops, NEW k \in DOMAIN ops, j # k, ops'[j].use_id # None
          PROVE  ops'[j].use_id \notin {ops'[k].use_id} \cup ops'[k].dup
      <4>1. ops'[k].dup = ops[k].dup
        BY <3>1 DEF SameOperand
      <4>2. CASE j = i
        <5>1. u \notin ops[k].dup
          BY <2>2 DEF Reserved, Taken
        <5> QED
          BY <2>2, <2>11, <2>12, <2>14, <3>3, <4>1, <4>2, <5>1
      <4>3. CASE j # i
        BY <1>10, <2>11, <2>12, <2>14, <3>3, <4>1, <4>3
      <4> QED
        BY <4>2, <4>3
    <3> QED
      BY <1>1, <3>1, <3>2, <3>3, OperandsChange
  <2>16. /\ Sound(m', Regs) /\ m'.ok = m.ok
         /\ \A r \in Regs : r # u /\ r # here => m'.at[r] = m.at[r] /\ (r \in m'.dirty <=> r \in m.dirty)
         /\ \A r \in Regs : m'.at[r] = w => r \in {u, here}
         /\ \A r \in Regs : m'.at[r] \in {None, w, m.at[r]}
         /\ u \notin lr => m'.at[u] = w /\ (ops[i].write => u \in m'.dirty) /\ (u # here => m'.at[here] = None \/ here = None)
         /\ u \in lr => m' = m
         /\ \A W \in SUBSET Works : Kept(m, W) => Kept(m', W)
    <3>1. CASE u \in lr
      BY <1>1, <2>8, <2>9, <3>1
    <3>2. CASE u \notin lr
      <4>1. m.at[u] = None
        <5>1. u \notin masks.live
          BY <2>2, <2>5, <2>9, <3>2
        <5> QED
          BY <1>1, <1>6, <2>2, <5>1, SoundFacts
      <4>2. PICK wr \in SUBSET {u} : wr = DirtyIf(ops[i], u)
        BY DEF DirtyIf
      <4>3. m' = MakeDirty(x, wr)
        BY <2>8, <3>2, <4>2
      <4>4. PICK y : y = MakeDirty(x, wr)
        OBVIOUS
      <4>5. /\ Sound(y, Regs) /\ y.ok = m.ok
            /\ \A r \in Regs : y.at[r] = IF r = u THEN w ELSE IF m.at[r] = w THEN None ELSE m.at[r]
            /\ wr \subseteq y.dirty
            /\ \A r \in Regs : r # u /\ m.at[r] # w => (r \in y.dirty <=> r \in m.dirty)
            /\ \A W \in SUBSET Works : Kept(m, W) => Kept(y, W)
        <5>1. arch \in Archs /\ Sound(m, Regs) /\ u \in Regs /\ m.at[u] = None /\ here = RegOf(m, w)
          BY <1>1, <2>2, <2>3, <2>4, <4>1
        <5>2. /\ Sound(y, Regs) /\ y.ok = m.ok
              /\ \A r \in Regs : y.at[r] = IF r = u THEN w ELSE IF m.at[r] = w THEN None ELSE m.at[r]
              /\ wr \subseteq y.dirty
              /\ \A r \in Regs : r # u /\ m.at[r] # w => (r \in y.dirty <=> r \in m.dirty)
          BY <2>6, <4>4, <5>1, PlaceIs
        <5>3. \A W \in SUBSET Works : Kept(m, W) => Kept(y, W)
          BY <2>6, <4>4, <5>1, PlaceKeeps
        <5> QED
          BY <5>2, <5>3
      <4>6. m' = y /\ (ops[i].write => u \in wr)
        BY <4>2, <4>3, <4>4 DEF DirtyIf
      <4> QED
        BY <1>1, <2>2, <2>9, <3>2, <4>1, <4>5, <4>6
    <3> QED
      BY <3>1, <3>2
  <2>17. \A j \in DOMAIN ops : j # i /\ ops[j].use /\ ops[j].done /\ ~ops[j].mem =>
           /\ ops[j].use_id \in Regs /\ ops[j].use_id # u /\ ops[j].use_id # here
    BY <1>3, <1>5, <1>7, <1>10, <2>4, <2>9, <2>14
  <2>18. PlacingInv'
    <3>1. ASSUME NEW j \in DOMAIN ops
          PROVE  /\ ops'[j].done \/ ops'[j].use
                 /\ ops'[j].mem => ops'[j].rm /\ ops'[j].done /\ Away(m', ops'[j].work)
                 /\ ops'[j].out_id = form.ops[j].out_id
                 /\ ops'[j].use_id # None => ops'[j].use_id \in masks'.use
                 /\ ops'[j].use /\ ops'[j].done /\ ~ops'[j].mem =>
                      /\ ops'[j].use_id # None /\ m'.at[ops'[j].use_id] = ops'[j].work
                      /\ ops'[j].write => ops'[j].use_id \in m'.dirty
      <4>1. CASE j = i
        BY <1>7, <2>2, <2>4, <2>10, <2>12, <2>13, <2>16, <4>1 DEF SameOperand
      <4>2. CASE j # i
        <5>1. ops'[j] = ops[j]
          BY <2>11, <4>2
        <5>2. ASSUME ops[j].mem PROVE Away(m', ops[j].work)
          <6>1. Away(m, ops[j].work) /\ ops[j].work # w /\ ops[j].work # None
            BY <1>1, <1>3, <1>5, <1>7, <1>10, <2>4, <4>2, <5>2
          <6>2. \A r \in Regs : m.at[r] # ops[j].work
            BY <1>1, <6>1, AwayIs
          <6>3. \A r \in Regs : m'.at[r] # ops[j].work
            BY <2>16, <6>1, <6>2
          <6> QED
            BY <2>16, <6>3, AwayIs
        <5> QED
          BY <1>7, <2>10, <2>16, <2>17, <4>2, <5>1, <5>2
      <4> QED
        BY <4>1, <4>2
    <3> QED
      BY <1>1, <1>6, <2>10, <2>11, <2>15, <3>1 DEF PlacingInv, Regs
  <2>19. masks'.free \subseteq masks.free \cup {u} /\ (u \in masks'.free <=> u \in lr) /\ masks.free \subseteq masks'.free
    BY <2>2, <2>5, <2>9, <2>10
  <2>20. WantedInv'
    <3>1. ASSUME NEW j \in DOMAIN ops
          PROVE  /\ ops'[j].use /\ ops'[j].done /\ ~ops'[j].mem => ops'[j].use_id \notin masks'.free
                 /\ ~ops'[j].done /\ ops'[j].use_id # None => ops'[j].use_id \in masks'.free \/ m'.at[ops'[j].use_id] = None
      <4>1. CASE j = i
        BY <2>12, <2>19, <4>1
      <4>2. CASE j # i
        <5>1. ops'[j] = ops[j]
          BY <2>11, <4>2
        <5>2. ASSUME ~ops[j].done, ops[j].use_id # None, m.at[ops[j].use_id] = None
              PROVE  ops[j].use_id \in masks'.free \/ m'.at[ops[j].use_id] = None
          <6>1. ops[j].use_id \in Regs /\ ops[j].use_id # u
            BY <1>5, <2>14, <4>2, <5>2
          <6> QED
            BY <2>9, <2>16, <2>19, <5>2, <6>1
        <5> QED
          BY <1>8, <2>17, <2>19, <4>2, <5>1, <5>2
      <4> QED
        BY <4>1, <4>2
    <3> QED
      BY <2>11, <3>1 DEF WantedInv
  <2>21. TakenInv'
    <3>1. PICK left \in [DOMAIN ops -> Regs \cup {None}] :
            /\ \A j \in Choosing : left[j] \notin FreeFor(j)
            /\ \A r \in masks.free \cup masks.use :
                 r \in OwnFixed \/ \E j \in Choosing : r \in {ops[j].use_id, left[j]}
      BY <1>1 DEF DecideInv, TakenInv
    <3>2. i \in Choosing
      BY <1>1, <1>3, <1>14, <2>13 DEF Choosing, InstructionInv, OperandOf
    <3>3. /\ OwnFixed' = OwnFixed /\ Choosing' = Choosing /\ \A j \in Choosing : FreeFor(j)' = FreeFor(j)
      BY <1>1, <2>11 DEF OwnFixed, Choosing, FreeFor
    <3>4. ASSUME NEW r \in masks'.free \cup masks'.use
          PROVE  r \in OwnFixed \/ \E j \in Choosing : r \in {ops'[j].use_id, left[j]}
      <4>1. CASE r = u
        BY <2>12, <3>2, <4>1
      <4>2. CASE r # u
        <5>1. r \in masks.free \cup masks.use /\ r # None
          BY <1>1, <1>6, <2>9, <2>10, <3>4, <4>2 DEF Masks
        <5>2. CASE r \in OwnFixed
          BY <5>2
        <5>3. CASE r \notin OwnFixed
          <6>1. PICK j \in Choosing : r \in {ops[j].use_id, left[j]}
            BY <3>1, <5>1, <5>3
          <6>2. j \in DOMAIN ops
            BY DEF Choosing
          <6>3. ops'[j].use_id = ops[j].use_id \/ r = left[j]
            BY <1>14, <2>11, <5>1, <6>1, <6>2
          <6> QED
            BY <6>1, <6>3
        <5> QED
          BY <5>2, <5>3
      <4> QED
        BY <4>1, <4>2
    <3> QED
      BY <1>1, <2>11, <3>1, <3>3, <3>4 DEF TakenInv, Regs
  <2>22. DecideInv'
    <3>1. ASSUME NEW j \in DOMAIN ops
          PROVE  /\ j < i + 1 => ops'[j].done \/ ops'[j].use_id # None
                 /\ ~ops'[j].done /\ ops'[j].use_id = None => \A r \in Regs : m'.at[r] = ops'[j].work => r \in masks'.free
      <4>1. CASE j = i
        BY <2>2, <2>12, <4>1
      <4>2. CASE j # i
        <5>1. ops'[j] = ops[j] /\ ops[j].work # w /\ ops[j].work # None
          BY <1>1, <1>3, <1>5, <1>10, <2>4, <2>11, <4>2
        <5>2. \A r \in Regs : m'.at[r] = ops[j].work => m.at[r] = ops[j].work
          BY <2>16, <5>1
        <5> QED
          BY <1>3, <1>9, <2>19, <4>2, <5>1, <5>2
      <4> QED
        BY <4>1, <4>2
    <3>2. Assigned(m') \subseteq masks'.live \cup masks'.free
      <4>1. SUFFICES ASSUME NEW r \in Regs, m'.at[r] # None PROVE r \in masks'.live \cup masks'.free
        BY <2>16, SoundFacts
      <4>2. CASE r = u
        BY <2>10, <4>2
      <4>3. CASE r = here
        BY <1>1, <2>9, <2>19, <4>3
      <4>4. CASE r # u /\ r # here
        <5>1. r \in Assigned(m)
          BY <1>1, <2>16, <4>1, <4>4, SoundFacts
        <5> QED
          BY <1>6, <2>5, <2>10, <2>19, <4>4, <5>1
      <4> QED
        BY <4>2, <4>3, <4>4
    <3> QED
      BY <1>1, <1>4, <2>11, <2>18, <2>20, <2>21, <3>1, <3>2 DEF DecideInv, Regs
  <2>23. IInv'
    BY <1>1, <1>4, <1>11, <2>16, <2>22 DEF IInv, PhaseInv, Fine, Regs
  <2> QED
    BY <1>1, <1>4, <2>16, <2>23 DEF ValueInv, ReadInv
<1> QED
  BY <1>4, <1>12, <1>13, <1>14

(* So does the end of that pass. *)
LEMMA DecideDoneStep ==
  ASSUME IInv, DecideDone
  PROVE  IInv' /\ (ValueInv => ValueInv') /\ (ReadInv => ReadInv')
<1>1. /\ arch \in Archs /\ live \subseteq Works /\ next \in Nat /\ Sound(m, Regs) /\ Fine(m) /\ pc = "decide"
      /\ DecideInv /\ PlacingInv /\ WantedInv /\ InstructionInv /\ Pending = {}
      /\ UNCHANGED <<arch, m, live, form, ops, next, target, sw, misread>> /\ pc' = "free"
  BY DEF IInv, PhaseInv, DecideDone, DecideInv, PlacingInv
<1>2. PICK room \in SUBSET Regs : room = Regs \ (Assigned(m) \cup masks.free \cup masks.use \cup masks.out)
  OBVIOUS
<1>3. masks' = [masks EXCEPT !.room = room]
  BY <1>2 DEF DecideDone
<1>4. /\ masks' \in Masks(Regs) /\ masks'.room = room /\ masks'.use = masks.use /\ masks'.free = masks.free
      /\ masks'.out = masks.out /\ masks'.outs = masks.outs
  BY <1>1, <1>3 DEF PlacingInv, Masks
<1>5. InstructionInv'
  BY <1>1, InstructionStays
<1>6. PlacingInv'
  BY <1>1, <1>4, <1>5 DEF PlacingInv, Regs
<1>7. WantedInv'
  BY <1>1, <1>4 DEF WantedInv
<1>8. \A i \in DOMAIN ops : ops[i].done \/ ops[i].use_id # None
  <2>1. SUFFICES ASSUME NEW i \in DOMAIN ops, ~ops[i].done PROVE ops[i].use_id # None
    OBVIOUS
  <2>2. i \in Nat
    BY <1>1, OperandFacts
  <2>3. ~(i >= next)
    BY <1>1, <2>1 DEF Pending
  <2>4. i < next
    BY <1>1, <2>2, <2>3
  <2> QED
    BY <1>1, <2>1, <2>4 DEF DecideInv
<1>9. FreeInv'
  BY <1>1, <1>2, <1>4, <1>6, <1>7, <1>8 DEF FreeInv, Assigned
<1>10. IInv'
  BY <1>1, <1>9 DEF IInv, PhaseInv, Fine, Regs
<1> QED
  BY <1>1, <1>10 DEF ValueInv, ReadInv

(* So does clearing one register the operands need, into another register or by a spill. *)
LEMMA FreeStepStep ==
  ASSUME IInv, FreeStep
  PROVE  IInv' /\ (ValueInv => ValueInv') /\ (ReadInv => ReadInv')
<1>1. /\ arch \in Archs /\ live \subseteq Works /\ next \in Nat /\ Sound(m, Regs) /\ Fine(m) /\ pc = "free"
      /\ FreeInv /\ PlacingInv /\ WantedInv /\ InstructionInv /\ None \notin Works
      /\ masks.free \cap Assigned(m) # {} /\ masks \in Masks(Regs)
      /\ UNCHANGED <<arch, live, pc, form, ops, next, target, sw, misread>>
  BY NoneAssumption DEF IInv, PhaseInv, FreeStep, FreeInv, PlacingInv
<1>2. PICK r : r = Min(masks.free \cap Assigned(m))
  OBVIOUS
<1>3. r \in Regs /\ r \in masks.free /\ m.at[r] # None
  <2>1. masks.free \cap Assigned(m) \in SUBSET Nat
    BY <1>1, NoneApart DEF Regs, Masks
  <2>2. r \in masks.free \cap Assigned(m)
    BY <1>1, <1>2, <2>1, MinOfNats
  <2> QED
    BY <1>1, <2>2, SoundFacts
<1>4. \/ \E t \in masks.room : m' = OnMove(m, m.at[r], t, r) /\ masks' = [masks EXCEPT !.room = @ \ {t}]
      \/ m' = OnSpill(m, r) /\ UNCHANGED masks
  BY <1>2 DEF FreeStep
<1>5. PICK t : /\ Sound(m', Regs) /\ m'.ok = m.ok
               /\ m'.at[r] = None
               /\ \A q \in Regs : q # r /\ q # t => m'.at[q] = m.at[q] /\ (q \in m'.dirty <=> q \in m.dirty)
               /\ \A w \in Works : Away(m, w) => Away(m', w)
               /\ \A W \in SUBSET Works : Kept(m, W) => Kept(m', W)
               /\ masks' \in Masks(Regs) /\ masks'.room \subseteq masks.room \ {t} /\ t \notin masks.use
               /\ masks'.use = masks.use /\ masks'.free = masks.free /\ masks'.out = masks.out /\ masks'.outs = masks.outs
  <2>1. CASE \E t \in masks.room : m' = OnMove(m, m.at[r], t, r) /\ masks' = [masks EXCEPT !.room = @ \ {t}]
    <3>1. PICK t \in masks.room : m' = OnMove(m, m.at[r], t, r) /\ masks' = [masks EXCEPT !.room = @ \ {t}]
      BY <2>1
    <3>2. t \in Regs /\ t \notin Assigned(m) /\ t \notin masks.use
      BY <1>1, <3>1 DEF FreeInv, Masks
    <3>3. m.at[t] = None /\ t # r
      BY <1>1, <1>3, <3>2, SoundFacts
    <3>4. PICK y : y = OnMove(m, m.at[r], t, r)
      OBVIOUS
    <3>5. Sound(m, Regs) /\ t \in Regs /\ r \in Regs /\ m.at[t] = None /\ m.at[r] # None
      BY <1>1, <1>3, <3>2, <3>3
    <3>6. /\ Sound(y, Regs) /\ y.ok = m.ok
          /\ \A q \in Regs : y.at[q] = IF q = t THEN m.at[r] ELSE IF q = r THEN None ELSE m.at[q]
          /\ \A q \in Regs : q \in y.dirty <=> IF q = t THEN r \in m.dirty ELSE q # r /\ q \in m.dirty
      BY <3>4, <3>5, MoveIs
    <3>7. Carries(m, y)
      BY <1>1, <3>4, <3>5, MoveCarries
    <3>8. (\A w \in Works : Away(m, w) => Away(y, w)) /\ \A W \in SUBSET Works : Kept(m, W) => Kept(y, W)
      BY <3>7 DEF Carries
    <3>9. PICK room \in SUBSET Regs : room = masks.room \ {t}
      BY <1>1 DEF Masks
    <3>10. masks' = [masks EXCEPT !.room = room]
      BY <3>1, <3>9
    <3>11. /\ masks' \in Masks(Regs) /\ masks'.room = room
           /\ masks'.use = masks.use /\ masks'.free = masks.free /\ masks'.out = masks.out /\ masks'.outs = masks.outs
      BY <1>1, <3>10 DEF Masks
    <3>12. m' = y /\ y.at[r] = None
      BY <1>3, <3>1, <3>3, <3>4, <3>6
    <3>13. \A q \in Regs : q # r /\ q # t => y.at[q] = m.at[q] /\ (q \in y.dirty <=> q \in m.dirty)
      BY <3>6
    <3> QED
      BY <3>2, <3>6, <3>8, <3>9, <3>11, <3>12, <3>13
  <2>2. CASE m' = OnSpill(m, r) /\ UNCHANGED masks
    <3>1. PICK y : y = SpillAll(m, {r})
      OBVIOUS
    <3>2. m' = y
      BY <2>2, <3>1 DEF OnSpill
    <3>3. {r} \subseteq Assigned(m) /\ Sound(m, Regs) /\ None \notin Works
      BY <1>1, <1>3, SoundFacts
    <3>4. /\ Sound(y, Regs) /\ y.ok = m.ok /\ y.dirty = m.dirty \ {r}
          /\ \A q \in Regs : y.at[q] = IF q \in {r} THEN None ELSE m.at[q]
      BY <3>1, <3>3, SpillAllIs
    <3>5. \A W \in SUBSET Works : Kept(m, W) => Kept(y, W)
      <4>1. SUFFICES ASSUME NEW W \in SUBSET Works PROVE Kept(m, W) => Kept(y, W)
        OBVIOUS
      <4>2. None \notin W
        BY <3>3
      <4> QED
        BY <3>1, <3>3, <4>2, SpillKeeps
    <3>6. \A w \in Works : Away(m, w) => Away(y, w)
      <4>1. \A w \in Works : (\A q \in Regs : m.at[q] # w) => (\A q \in Regs : y.at[q] # w)
        BY <3>3, <3>4
      <4> QED
        BY <1>1, <3>4, <4>1, AwayIs
    <3>7. masks.room \subseteq masks.room \ {None} /\ None \notin masks.use
      BY <1>1, NoneApart DEF Masks, Regs
    <3>8. \A q \in Regs : q # r => y.at[q] = m.at[q] /\ (q \in y.dirty <=> q \in m.dirty)
      BY <3>4
    <3> QED
      BY <1>1, <1>3, <2>2, <3>2, <3>4, <3>5, <3>6, <3>7, <3>8
  <2> QED
    BY <1>4, <2>1, <2>2
<1>6. InstructionInv'
  BY <1>1, InstructionStays
<1>7. \A i \in DOMAIN ops : ops[i].work \in Works /\ ops[i].use_id \in Regs \cup {None}
  BY <1>1, OperandFacts
<1>8. PlacingInv'
  <2>1. ASSUME NEW i \in DOMAIN ops
        PROVE  /\ ops[i].mem => Away(m', ops[i].work)
               /\ ops[i].use /\ ops[i].done /\ ~ops[i].mem =>
                    /\ ops[i].use_id # None /\ m'.at[ops[i].use_id] = ops[i].work
                    /\ ops[i].write => ops[i].use_id \in m'.dirty
    <3>1. ASSUME ops[i].use, ops[i].done, ~ops[i].mem
          PROVE  /\ ops[i].use_id # None /\ m'.at[ops[i].use_id] = ops[i].work
                 /\ ops[i].write => ops[i].use_id \in m'.dirty
      <4>1. ops[i].use_id # None /\ m.at[ops[i].use_id] = ops[i].work /\ (ops[i].write => ops[i].use_id \in m.dirty)
            /\ ops[i].use_id \in masks.use
        BY <1>1, <3>1 DEF PlacingInv
      <4>2. ops[i].use_id \notin masks.free
        BY <1>1, <3>1 DEF WantedInv
      <4>3. ops[i].use_id # r /\ ops[i].use_id # t /\ ops[i].use_id \in Regs
        BY <1>3, <1>5, <1>7, <4>1, <4>2
      <4> QED
        BY <1>5, <4>1, <4>3
    <3>2. ops[i].mem => Away(m', ops[i].work)
      BY <1>1, <1>5, <1>7 DEF PlacingInv
    <3> QED
      BY <3>1, <3>2
  <2> QED
    BY <1>1, <1>5, <1>6, <2>1 DEF PlacingInv, Regs
<1>9. WantedInv'
  <2>1. ASSUME NEW i \in DOMAIN ops, ~ops[i].done, ops[i].use_id # None
        PROVE  ops[i].use_id \in masks.free \/ m'.at[ops[i].use_id] = None
    <3>1. ops[i].use_id \in Regs /\ ops[i].use_id # t
      BY <1>1, <1>5, <1>7, <2>1 DEF PlacingInv
    <3>2. ops[i].use_id \in masks.free \/ m.at[ops[i].use_id] = None
      BY <1>1, <2>1 DEF WantedInv
    <3> QED
      BY <1>5, <3>1, <3>2
  <2> QED
    BY <1>1, <1>5, <2>1 DEF WantedInv
<1>10. FreeInv'
  <2>1. masks.room \cap (Assigned(m) \cup masks.free \cup masks.use) = {}
    BY <1>1 DEF FreeInv
  <2>2. ASSUME NEW q \in masks'.room PROVE q \notin Assigned(m')
    <3>1. q \in Regs /\ q # t /\ q \notin Assigned(m)
      BY <1>5, <2>1 DEF Masks
    <3> QED
      BY <1>1, <1>5, <3>1, SoundFacts
  <2> QED
    BY <1>1, <1>5, <1>8, <1>9, <2>1, <2>2 DEF FreeInv
<1>11. IInv'
  BY <1>1, <1>5, <1>10 DEF IInv, PhaseInv, Fine, Regs
<1> QED
  BY <1>1, <1>5, <1>11 DEF ValueInv, ReadInv

(* So does the end of that pass. *)
LEMMA FreeDoneStep ==
  ASSUME IInv, FreeDone
  PROVE  IInv' /\ (ValueInv => ValueInv') /\ (ReadInv => ReadInv')
<1>1. /\ arch \in Archs /\ live \subseteq Works /\ Sound(m, Regs) /\ Fine(m) /\ pc = "free"
      /\ FreeInv /\ PlacingInv /\ WantedInv /\ InstructionInv
      /\ masks.free \cap Assigned(m) = {}
      /\ UNCHANGED <<arch, m, live, form, ops, masks, target, sw, misread>> /\ pc' = "alloc" /\ next' = 1
  BY DEF IInv, PhaseInv, FreeDone, FreeInv, PlacingInv
<1>2. \A i \in DOMAIN ops : ops[i].use_id \in Regs \cup {None} /\ i \in Nat /\ i # 0
  BY <1>1, OperandFacts
<1>3. ASSUME NEW i \in DOMAIN ops, ~ops[i].done
      PROVE  ops[i].use_id # None /\ m.at[ops[i].use_id] = None /\ i >= 1
  <2>1. ops[i].use_id # None /\ (ops[i].use_id \in masks.free \/ m.at[ops[i].use_id] = None)
    BY <1>1, <1>3 DEF FreeInv, WantedInv
  <2>2. m.at[ops[i].use_id] = None
    BY <1>1, <1>2, <2>1, SoundFacts
  <2>3. i >= 1
    BY <1>2
  <2> QED
    BY <2>1, <2>2, <2>3
<1>4. InstructionInv'
  BY <1>1, InstructionStays
<1>5. PlacingInv'
  BY <1>1, <1>4 DEF PlacingInv, Regs
<1>6. AllocInv'
  BY <1>1, <1>3, <1>5 DEF AllocInv
<1>7. IInv'
  BY <1>1, <1>6 DEF IInv, PhaseInv, Fine, Regs
<1> QED
  BY <1>1, <1>7 DEF ValueInv, ReadInv

\* The register an operand waits for is free, so that the loop does not give up.
LEMMA AllocStepStep ==
  ASSUME IInv, AllocStep
  PROVE  IInv' /\ (ValueInv => ValueInv') /\ (ReadInv => ReadInv')
<1>1. /\ arch \in Archs /\ live \subseteq Works /\ next \in Nat /\ Sound(m, Regs) /\ Fine(m) /\ pc = "alloc"
      /\ AllocInv /\ PlacingInv /\ InstructionInv /\ None \notin Regs /\ None \notin Works /\ masks \in Masks(Regs)
      /\ UNCHANGED <<arch, live, form, masks, target, sw, misread>>
  BY NoneApart DEF IInv, PhaseInv, AllocStep, AllocInv, PlacingInv, Regs
<1>2. PICK i : i = Min(Pending)
  OBVIOUS
<1>3. /\ i \in DOMAIN ops /\ i \in Nat /\ ~ops[i].done
      /\ \A j \in DOMAIN ops : ~ops[j].done /\ j >= next /\ j # i => j >= i + 1
  BY <1>1, <1>2, FirstPending DEF AllocStep
<1>4. \A j \in DOMAIN ops :
        /\ ops[j] \in Operands(Regs) /\ ops[j].work \in Works /\ ops[j].use_id \in Regs \cup {None}
        /\ ops[j].use \in BOOLEAN /\ ops[j].write \in BOOLEAN
        /\ ops[j].done \in BOOLEAN /\ ops[j].mem \in BOOLEAN /\ ops[j].dup \subseteq Regs
  BY <1>1, OperandFacts
<1>5. \A j \in DOMAIN ops :
        /\ ops[j].done \/ ops[j].use
        /\ ops[j].mem => ops[j].rm /\ ops[j].done /\ Away(m, ops[j].work)
        /\ ops[j].out_id = form.ops[j].out_id
        /\ ops[j].use_id # None => ops[j].use_id \in masks.use
        /\ ops[j].use /\ ops[j].done /\ ~ops[j].mem =>
             /\ ops[j].use_id # None /\ m.at[ops[j].use_id] = ops[j].work
             /\ ops[j].write => ops[j].use_id \in m.dirty
  BY <1>1 DEF PlacingInv
<1>6. \A j \in DOMAIN ops : ~ops[j].done => ops[j].use_id # None /\ m.at[ops[j].use_id] = None /\ j >= next
  BY <1>1 DEF AllocInv
<1>7. \A j, k \in DOMAIN ops : j # k =>
        /\ ops[j].work # ops[k].work
        /\ ops[j].use_id # None => ops[j].use_id \notin {ops[k].use_id} \cup ops[k].dup
  BY <1>1 DEF InstructionInv
<1>8. PICK u : u = ops[i].use_id
  OBVIOUS
<1>9. PICK w : w = ops[i].work
  OBVIOUS
<1>10. u \in Regs /\ u # None /\ m.at[u] = None /\ w \in Works
  BY <1>3, <1>4, <1>6, <1>8, <1>9
<1>11. Place(i) /\ UNCHANGED pc
  BY <1>2, <1>8, <1>10 DEF AllocStep
<1>12. PICK here : here = RegOf(m, w)
  OBVIOUS
<1>13. PICK x : x = IF here = None THEN OnLoad(m, w, u) ELSE OnMove(m, w, u, here)
  OBVIOUS
<1>14. PICK wr \in SUBSET {u} : wr = DirtyIf(ops[i], u)
  BY DEF DirtyIf
<1>15. PICK y : y = MakeDirty(x, wr)
  OBVIOUS
<1>16. m' = y /\ ops' = [ops EXCEPT ![i].done = TRUE] /\ next' = i + 1 /\ (ops[i].write => u \in wr)
  BY <1>8, <1>9, <1>11, <1>12, <1>13, <1>14, <1>15 DEF Place, DirtyIf
<1>17. /\ Sound(y, Regs) /\ y.ok = m.ok
       /\ \A r \in Regs : y.at[r] = IF r = u THEN w ELSE IF m.at[r] = w THEN None ELSE m.at[r]
       /\ wr \subseteq y.dirty
       /\ \A r \in Regs : r # u /\ m.at[r] # w => (r \in y.dirty <=> r \in m.dirty)
  <2>1. arch \in Archs /\ Sound(m, Regs) /\ u \in Regs /\ m.at[u] = None /\ w \in Works
    BY <1>1, <1>10
  <2> QED
    BY <1>12, <1>13, <1>15, <2>1, PlaceIs
<1>18. \A W \in SUBSET Works : Kept(m, W) => Kept(y, W)
  <2>1. arch \in Archs /\ Sound(m, Regs) /\ u \in Regs /\ m.at[u] = None /\ w \in Works
    BY <1>1, <1>10
  <2> QED
    BY <1>12, <1>13, <1>15, <2>1, PlaceKeeps
<1>19. DOMAIN ops' = DOMAIN ops /\ \A j \in DOMAIN ops : j # i => ops'[j] = ops[j]
  BY <1>16
<1>20. /\ ops'[i] \in Operands(Regs) /\ ops'[i].done /\ ~ops'[i].mem /\ SameOperand(ops'[i], ops[i])
       /\ ops'[i].use_id = u /\ ops'[i].out_id = ops[i].out_id
  <2>1. PICK d \in BOOLEAN : d = TRUE
    OBVIOUS
  <2>2. ops'[i] = [ops[i] EXCEPT !.done = d]
    BY <1>3, <1>16, <2>1
  <2>3. ops[i] \in Operands(Regs) /\ ~ops[i].mem
    BY <1>3, <1>4, <1>5
  <2>4. /\ ops'[i] \in Operands(Regs) /\ ops'[i].done = d /\ ops'[i].mem = ops[i].mem /\ ops'[i].use_id = u
        /\ ops'[i].out_id = ops[i].out_id
    BY <1>8, <2>2, <2>3 DEF Operands
  <2>5. SameOperand(ops'[i], ops[i])
    BY <2>2, <2>3 DEF Operands, SameOperand
  <2> QED
    BY <2>1, <2>3, <2>4, <2>5
<1>21. \A j \in DOMAIN ops : /\ ops'[j] \in Operands(Regs) /\ SameOperand(ops'[j], ops[j])
                              /\ ops'[j].use_id = ops[j].use_id /\ ops'[j].dup = ops[j].dup
  BY <1>4, <1>8, <1>19, <1>20 DEF SameOperand
<1>22. InstructionInv'
  <2>1. ops' \in [DOMAIN ops -> Operands(Regs)]
    BY <1>16, <1>21
  <2> QED
    BY <1>1, <1>7, <1>21, <2>1, OperandsChange
<1>23. ASSUME NEW j \in DOMAIN ops, j # i
       PROVE  /\ ops[j].mem => Away(y, ops[j].work)
              /\ ops[j].use_id # None => ops[j].use_id \in Regs /\ ops[j].use_id # u
              /\ ops[j].use /\ ops[j].done /\ ~ops[j].mem =>
                   /\ y.at[ops[j].use_id] = ops[j].work
                   /\ ops[j].write => ops[j].use_id \in y.dirty
  <2>1. ops[j].work # w /\ ops[j].work # None
    BY <1>1, <1>3, <1>4, <1>7, <1>9, <1>23
  <2>2. ops[j].use_id # None => ops[j].use_id \in Regs /\ ops[j].use_id # u
    BY <1>3, <1>4, <1>7, <1>8, <1>23
  <2>3. ops[j].mem => Away(y, ops[j].work)
    <3>1. ops[j].mem => \A r \in Regs : m.at[r] # ops[j].work
      BY <1>1, <1>5, AwayIs
    <3>2. ops[j].mem => \A r \in Regs : y.at[r] # ops[j].work
      BY <1>17, <2>1, <3>1
    <3> QED
      BY <1>17, <3>2, AwayIs
  <2>4. ops[j].use /\ ops[j].done /\ ~ops[j].mem =>
          /\ y.at[ops[j].use_id] = ops[j].work
          /\ ops[j].write => ops[j].use_id \in y.dirty
    BY <1>5, <1>17, <2>1, <2>2
  <2> QED
    BY <2>2, <2>3, <2>4
<1>24. PlacingInv'
  <2>1. ASSUME NEW j \in DOMAIN ops
        PROVE  /\ ops'[j].done \/ ops'[j].use
               /\ ops'[j].mem => ops'[j].rm /\ ops'[j].done /\ Away(y, ops'[j].work)
               /\ ops'[j].out_id = form.ops[j].out_id
               /\ ops'[j].use_id # None => ops'[j].use_id \in masks.use
               /\ ops'[j].use /\ ops'[j].done /\ ~ops'[j].mem =>
                    /\ ops'[j].use_id # None /\ y.at[ops'[j].use_id] = ops'[j].work
                    /\ ops'[j].write => ops'[j].use_id \in y.dirty
    <3>1. CASE j = i
      BY <1>5, <1>8, <1>9, <1>10, <1>16, <1>17, <1>20, <3>1 DEF SameOperand
    <3>2. CASE j # i
      BY <1>5, <1>19, <1>23, <3>2
    <3> QED
      BY <3>1, <3>2
  <2>2. masks' \in Masks(Regs) /\ masks'.out = form.clobbered /\ masks'.outs = {}
    BY <1>1 DEF PlacingInv
  <2> QED
    BY <1>1, <1>16, <1>19, <1>22, <2>1, <2>2 DEF PlacingInv, Regs
<1>25. AllocInv'
  <2>1. ASSUME NEW j \in DOMAIN ops, ~ops'[j].done
        PROVE  ops'[j].use_id # None /\ y.at[ops'[j].use_id] = None /\ j >= i + 1
    <3>1. j # i /\ ops'[j] = ops[j]
      BY <1>19, <1>20, <2>1
    <3>2. ops[j].use_id # None /\ m.at[ops[j].use_id] = None /\ j >= next
      BY <1>6, <2>1, <3>1
    <3>3. y.at[ops[j].use_id] = None
      BY <1>1, <1>10, <1>17, <1>23, <3>1, <3>2
    <3>4. j >= i + 1
      BY <1>3, <2>1, <3>1, <3>2
    <3> QED
      BY <3>1, <3>2, <3>3, <3>4
  <2> QED
    BY <1>16, <1>19, <1>24, <2>1 DEF AllocInv
<1>26. IInv'
  <2>1. i + 1 \in Nat
    BY <1>3
  <2> QED
    BY <1>1, <1>11, <1>16, <1>17, <1>25, <2>1 DEF IInv, PhaseInv, Fine, Regs
<1> QED
  BY <1>1, <1>11, <1>16, <1>18, <1>26 DEF ValueInv, ReadInv

-------------------------------------------------------------------------------
(* STEPs 6 to 10 *)

\* A register that an argument is copied to is that of one operand.
LEMMA CopiesAre ==
  ASSUME arch \in Archs, InstructionInv, NEW y, Sound(y, Regs), NEW f,
         f = [r \in Regs |-> IF \E i \in DOMAIN ops : r \in ops[i].dup
                             THEN y.regs[(CHOOSE op \in Range(ops) : r \in op.dup).use_id] ELSE y.regs[r]]
  PROVE  /\ f \in [Regs -> Works \cup {None}]
         /\ \A r \in Regs : r \notin form.clobbered => f[r] = y.regs[r]
         /\ \A i \in DOMAIN ops : \A r \in ops[i].dup : f[r] = y.regs[ops[i].use_id]
         /\ \A r \in Regs : (\A i \in DOMAIN ops : r \notin ops[i].dup) => f[r] = y.regs[r]
<1>1. y.regs \in [Regs -> Works \cup {None}]
  BY SoundFacts
<1>2. \A i \in DOMAIN ops : ops[i].dup \subseteq Regs /\ ops[i].dup \subseteq form.clobbered
  BY OperandFacts, OperandRules
<1>3. \A i, j \in DOMAIN ops : i # j => ops[i].dup \cap ops[j].dup = {}
  BY OperandRules
<1>4. \A i \in DOMAIN ops : ops[i].dup # {} => ops[i].use_id \in Regs
  <2>1. SUFFICES ASSUME NEW i \in DOMAIN ops, ops[i].dup # {} PROVE ops[i].use_id \in Regs
    OBVIOUS
  <2>2. ops[i].use_id = form.ops[i].use_id /\ form.ops[i].use_id # None
    BY <2>1, OperandRules
  <2> QED
    BY <2>2, OperandFacts
<1>5. ASSUME NEW i \in DOMAIN ops, NEW r \in ops[i].dup
      PROVE  r \in Regs /\ f[r] = y.regs[ops[i].use_id] /\ f[r] \in Works \cup {None}
  <2>1. PICK op : op = CHOOSE o \in Range(ops) : r \in o.dup
    OBVIOUS
  <2>2. ops[i] \in Range(ops)
    BY DEF Range
  <2>3. op \in Range(ops) /\ r \in op.dup
    BY <2>1, <2>2
  <2>4. PICK j \in DOMAIN ops : op = ops[j]
    BY <2>3 DEF Range
  <2>5. j = i
    BY <1>3, <2>3, <2>4
  <2>6. f[r] = y.regs[op.use_id]
    BY <1>2, <2>1
  <2> QED
    BY <1>1, <1>2, <1>4, <2>4, <2>5, <2>6
<1>6. ASSUME NEW r \in Regs, \A i \in DOMAIN ops : r \notin ops[i].dup
      PROVE  f[r] = y.regs[r] /\ f[r] \in Works \cup {None}
  BY <1>1, <1>6
<1>7. DOMAIN f = Regs /\ f = [r \in Regs |-> f[r]]
  OBVIOUS
<1>8. \A r \in Regs : f[r] \in Works \cup {None}
  BY <1>5, <1>6
<1> QED
  BY <1>2, <1>5, <1>6, <1>7, <1>8

\* When there is nothing left to do, the operands are where they are read.
LEMMA AllPlaced ==
  ASSUME arch \in Archs, AllocInv, Pending = {}
  PROVE  \A i \in DOMAIN ops :
           /\ ops[i].done
           /\ ops[i].mem => ops[i].rm /\ Away(m, ops[i].work)
           /\ ops[i].out_id = form.ops[i].out_id
           /\ ops[i].use /\ ~ops[i].mem =>
                /\ ops[i].use_id \in Regs /\ m.at[ops[i].use_id] = ops[i].work
                /\ ops[i].write => ops[i].use_id \in m.dirty
<1>1. PlacingInv /\ InstructionInv
  BY DEF AllocInv, PlacingInv
<1>2. \A i \in DOMAIN ops : ops[i].done
  BY DEF AllocInv, Pending
<1>3. \A i \in DOMAIN ops : ops[i].use_id \in Regs \cup {None}
  BY <1>1, OperandFacts
<1> QED
  BY <1>1, <1>2, <1>3 DEF PlacingInv

(* So does the release of killed and clobbered registers; values are kept when updates stand
   alone. *)
LEMMA EvictStep ==
  ASSUME IInv, Evict
  PROVE  /\ IInv'
         /\ UpdatesApart /\ ValueInv => ValueInv'
         /\ ValueInv /\ ReadInv => ReadInv'
<1>1. /\ arch \in Archs /\ live \subseteq Works /\ next \in Nat /\ Sound(m, Regs) /\ Fine(m) /\ pc = "alloc"
      /\ AllocInv /\ PlacingInv /\ InstructionInv /\ None \notin Regs /\ None \notin Works /\ Pending = {}
      /\ masks \in Masks(Regs) /\ masks.out = form.clobbered /\ masks.outs = {}
      /\ UNCHANGED <<arch, live, form, ops, target, sw, misread>> /\ pc' = "out" /\ next' = 1
  BY NoneApart DEF IInv, PhaseInv, Evict, AllocInv, PlacingInv, Regs
<1>2. PICK killed : killed = {RegOf(m, ops[i].work) : i \in {j \in DOMAIN ops : ops[j].out \/ ops[j].kill}} \ {None}
  OBVIOUS
<1>3. PICK x : x = UnassignAll(m, killed)
  OBVIOUS
<1>4. PICK gone : gone = Clobbers(killed) \cap Assigned(x)
  OBVIOUS
<1>5. PICK y : y = SpillAll(x, gone)
  OBVIOUS
<1>6. PICK f : f = [r \in Regs |-> IF \E i \in DOMAIN ops : r \in ops[i].dup
                                   THEN y.regs[(CHOOSE op \in Range(ops) : r \in op.dup).use_id] ELSE y.regs[r]]
  OBVIOUS
<1>7. m' = [y EXCEPT !.regs = f] /\ masks' = [masks EXCEPT !.live = Assigned(y)]
  BY <1>2, <1>3, <1>4, <1>5, <1>6 DEF Evict
<1>8. \A i \in DOMAIN ops :
        /\ ops[i].mem => ops[i].rm /\ Away(m, ops[i].work)
        /\ ops[i].out_id = form.ops[i].out_id
        /\ ops[i].use /\ ~ops[i].mem =>
             /\ ops[i].use_id \in Regs /\ m.at[ops[i].use_id] = ops[i].work
             /\ ops[i].write => ops[i].use_id \in m.dirty
  BY <1>1, AllPlaced
<1>9. \A i \in DOMAIN ops :
        /\ RegOf(m, ops[i].work) # None =>
             RegOf(m, ops[i].work) \in Regs /\ m.at[RegOf(m, ops[i].work)] = ops[i].work
        /\ \A r \in Regs : m.at[r] = ops[i].work => RegOf(m, ops[i].work) = r
  BY <1>1, OperandRegs
<1>10. \A i \in DOMAIN ops : ops[i].work \in Works /\ i \in Nat /\ i # 0
  BY <1>1, OperandFacts
<1>11. /\ \A i \in DOMAIN ops : \A r \in Regs : m.at[r] = ops[i].work /\ (ops[i].out \/ ops[i].kill) => r \in killed
       /\ \A r \in killed : r \in Regs /\ \E i \in DOMAIN ops : m.at[r] = ops[i].work /\ (ops[i].out \/ ops[i].kill)
  BY <1>1, <1>2, <1>9
<1>12. killed \subseteq Assigned(m)
  BY <1>1, <1>10, <1>11, SoundFacts
<1>13. /\ Sound(x, Regs) /\ x.ok = m.ok /\ x.slots = m.slots /\ x.regs = m.regs /\ x.dirty = m.dirty \ killed
       /\ \A r \in Regs : x.at[r] = IF r \in killed THEN None ELSE m.at[r]
  <2>1. Sound(m, Regs)
    BY <1>1
  <2> QED
    BY <1>3, <1>12, <2>1, UnassignAllIs
<1>14. gone \subseteq Assigned(x) /\ \A r \in Regs : r \in gone <=> r \in form.clobbered /\ r \notin killed /\ x.at[r] # None
  BY <1>1, <1>4, <1>13, SoundFacts DEF Clobbers
<1>15. /\ Sound(y, Regs) /\ y.ok = x.ok /\ y.regs = x.regs /\ y.dirty = x.dirty \ gone
       /\ \A r \in Regs : y.at[r] = IF r \in gone THEN None ELSE x.at[r]
  <2>1. Sound(x, Regs) /\ None \notin Works
    BY <1>1, <1>13
  <2> QED
    BY <1>5, <1>14, <2>1, SpillAllIs
<1>16. /\ f \in [Regs -> Works \cup {None}]
       /\ \A r \in Regs : r \notin form.clobbered => f[r] = y.regs[r]
       /\ \A i \in DOMAIN ops : \A r \in ops[i].dup : f[r] = y.regs[ops[i].use_id]
       /\ \A r \in Regs : (\A i \in DOMAIN ops : r \notin ops[i].dup) => f[r] = y.regs[r]
  <2>1. arch \in Archs /\ InstructionInv /\ Sound(y, Regs)
    BY <1>1, <1>15
  <2> QED
    BY <1>6, <2>1, CopiesAre
<1>17. /\ Sound(m', Regs) /\ m'.ok = m.ok /\ m'.at = y.at /\ m'.dirty = y.dirty /\ m'.slots = y.slots /\ m'.regs = f
  <2>1. y \in Machines(Regs)
    BY <1>15, SoundFacts
  <2>2. /\ m' \in Machines(Regs) /\ m'.ok = y.ok /\ m'.at = y.at /\ m'.dirty = y.dirty /\ m'.slots = y.slots
        /\ m'.regs = f
    BY <1>7, <1>16, <2>1 DEF Machines
  <2>3. Sound(m', Regs)
    BY <1>15, <2>2 DEF Sound, Assigned
  <2> QED
    BY <1>13, <1>15, <2>2, <2>3
<1>18. /\ \A r \in Regs : r \in form.clobbered => m'.at[r] = None
       /\ \A r \in Regs : m'.at[r] = IF r \in killed \cup form.clobbered THEN None ELSE m.at[r]
       /\ \A r \in Regs : r \notin killed \cup form.clobbered => (r \in m'.dirty <=> r \in m.dirty)
  BY <1>13, <1>14, <1>15, <1>17
<1>19. \A i \in DOMAIN ops : ops[i].out \/ ops[i].kill \/ Away(m, ops[i].work) => Away(m', ops[i].work)
  <2>1. SUFFICES ASSUME NEW i \in DOMAIN ops, ops[i].out \/ ops[i].kill \/ Away(m, ops[i].work),
                        NEW r \in Regs, m'.at[r] = ops[i].work
                 PROVE  FALSE
    BY <1>17, AwayIs
  <2>2. r \notin killed /\ m.at[r] = ops[i].work
    BY <1>1, <1>10, <1>18, <2>1
  <2>3. ops[i].out \/ ops[i].kill
    BY <1>1, <2>1, <2>2, AwayIs
  <2> QED
    BY <1>11, <2>2, <2>3
<1>20. /\ masks' \in Masks(Regs) /\ masks'.live = Assigned(m') /\ masks'.outs = {}
  <2>1. PICK lv \in SUBSET Regs : lv = Assigned(y)
    BY <1>15, SoundFacts
  <2>2. masks' = [masks EXCEPT !.live = lv]
    BY <1>7, <2>1
  <2>3. masks' \in Masks(Regs) /\ masks'.live = lv /\ masks'.outs = masks.outs
    BY <1>1, <2>2 DEF Masks
  <2>4. Assigned(m') = Assigned(y)
    BY <1>17 DEF Assigned
  <2> QED
    BY <1>1, <2>1, <2>3, <2>4
<1>21. InstructionInv'
  BY <1>1, InstructionStays
<1>22. OutInv'
  <2>1. ASSUME NEW i \in DOMAIN ops
        PROVE  LET op == ops[i]
               IN  /\ op.use /\ ~op.mem => op.use_id # None
                   /\ op.kill \/ (op.mem /\ ~op.out) => Away(m', op.work)
                   /\ op.out => Away(m', op.work) /\ op.out_id = form.ops[i].out_id
    BY <1>1, <1>8, <1>19
  <2>2. \A i \in DOMAIN ops : ~(i < 1)
    BY <1>10
  <2>3. Assigned(m') \cap form.clobbered = {}
    BY <1>17, <1>18, SoundFacts
  <2> QED
    BY <1>1, <1>20, <1>21, <2>1, <2>2, <2>3 DEF OutInv, Regs
<1>23. IInv'
  BY <1>1, <1>17, <1>22 DEF IInv, PhaseInv, Fine, Regs
<1>24. ASSUME UpdatesApart, ValueInv PROVE ValueInv'
  <2>1. PICK spared : spared = Spared
    OBVIOUS
  <2>2. spared \subseteq live /\ None \notin spared
        /\ \A i \in DOMAIN ops : ops[i].out \/ ops[i].kill => ops[i].work \notin spared
    BY <1>1, <2>1 DEF Spared
  <2>3. Kept(m, live)
    BY <1>1, <1>24 DEF ValueInv
  <2>4. Kept(m, spared)
    BY <2>2, <2>3, KeptLess
  <2>5. Kept(x, spared)
    <3>1. \A r \in killed : m.at[r] \notin spared
      BY <1>11, <2>2
    <3>2. Sound(m, Regs) /\ None \notin spared
      BY <1>1, <2>2
    <3> QED
      BY <1>3, <1>12, <2>4, <3>1, <3>2, UnassignKeeps
  <2>6. Kept(y, spared)
    <3>1. Sound(x, Regs) /\ None \notin Works /\ None \notin spared
      BY <1>1, <1>13, <2>2
    <3> QED
      BY <1>5, <1>14, <2>5, <3>1, SpillKeeps
  <2>7. Kept(m', spared)
    <3>1. /\ \A r \in Regs : y.at[r] \in spared => y.regs[r] = y.at[r] /\ (r \in y.dirty \/ y.at[r] \in y.slots)
          /\ \A w \in spared : (\A r \in Regs : y.at[r] # w) => w \in y.slots
      BY <1>15, <2>6, KeptFacts
    <3>2. \A r \in Regs : m'.at[r] \in spared => m'.regs[r] = m'.at[r] /\ (r \in m'.dirty \/ m'.at[r] \in m'.slots)
      BY <1>16, <1>17, <1>18, <2>2, <3>1
    <3>3. \A w \in spared : (\A r \in Regs : m'.at[r] # w) => w \in m'.slots
      BY <1>17, <3>1
    <3> QED
      BY <1>17, <3>2, <3>3, IsKept
  <2>8. Spared' = spared
    BY <1>1, <2>1 DEF Spared
  <2>9. UpdatedInv'
    <3>1. SUFFICES ASSUME NEW i \in DOMAIN ops, ops[i].write, ~ops[i].out, ~ops[i].mem
                   PROVE  IF ops[i].kill THEN m'.at[ops[i].use_id] = None
                          ELSE m'.at[ops[i].use_id] = ops[i].work /\ ops[i].use_id \in m'.dirty
      BY <1>1 DEF UpdatedInv
    <3>2. ops[i].use
      BY <1>1, <3>1, OperandRules
    <3>3. /\ ops[i].use_id \in Regs /\ m.at[ops[i].use_id] = ops[i].work /\ ops[i].use_id \in m.dirty
      BY <1>8, <3>1, <3>2
    <3>4. CASE ops[i].kill
      BY <1>11, <1>18, <3>3, <3>4
    <3>5. CASE ~ops[i].kill
      <4>1. ops[i].use_id \notin killed
        <5>1. \A j \in DOMAIN ops : j # i => ops[j].work # ops[i].work
          BY <1>1 DEF InstructionInv
        <5> QED
          BY <1>11, <3>1, <3>3, <3>5, <5>1
      <4>2. ops[i].use_id \notin form.clobbered
        <5>1. /\ form \in arch.forms /\ DOMAIN ops = DOMAIN form.ops
              /\ form.ops[i].write /\ ~form.ops[i].out
          BY <1>1, <3>1, OperandFacts DEF InstructionInv, OperandOf
        <5>2. form.clobbered # {} => form.ops[i].use_id # None /\ form.ops[i].use_id \notin form.clobbered
          BY <1>1, <1>24, <5>1 DEF UpdatesApart
        <5>3. form.ops[i].use_id # None => ops[i].use_id = form.ops[i].use_id
          BY <1>1, OperandRules
        <5> QED
          BY <5>2, <5>3
      <4> QED
        BY <1>18, <3>3, <3>5, <4>1, <4>2
    <3> QED
      BY <3>4, <3>5
  <2> QED
    BY <1>1, <2>7, <2>8, <2>9 DEF ValueInv
<1>25. ASSUME ValueInv, ReadInv PROVE ReadInv'
  <2>1. Kept(m, live)
    BY <1>1, <1>25 DEF ValueInv
  <2>2. /\ \A r \in Regs : m.at[r] \in live => m.regs[r] = m.at[r]
        /\ \A w \in live : (\A r \in Regs : m.at[r] # w) => w \in m.slots
    BY <1>1, <2>1, KeptFacts
  <2>3. ASSUME NEW i \in DOMAIN ops, ops[i].use PROVE InPlace(ops[i])'
    <3>1. ops[i].work \in live
      BY <1>1, <2>3 DEF InstructionInv
    <3>2. CASE ops[i].mem
      <4>1. Away(m, ops[i].work)
        BY <1>8, <3>2
      <4>2. \A r \in Regs : m.at[r] # ops[i].work
        BY <1>1, <4>1, AwayIs
      <4>3. ops[i].work \in x.slots /\ \A r \in Regs : x.at[r] # ops[i].work
        BY <1>1, <1>10, <1>13, <2>2, <3>1, <4>2
      <4>4. Away(x, ops[i].work)
        BY <1>13, <4>3, AwayIs
      <4>5. ops[i].work \in y.slots
        <5>1. PICK W : W = {}
          OBVIOUS
        <5>2. Sound(x, Regs) /\ None \notin Works /\ None \notin W
          BY <1>1, <1>13, <5>1
        <5> QED
          BY <1>5, <1>14, <4>3, <4>4, <5>2, SpillKeeps
      <4> QED
        BY <1>1, <1>17, <2>3, <3>2, <4>5 DEF InPlace
    <3>3. CASE ~ops[i].mem
      <4>1. ops[i].use_id \in Regs /\ y.regs[ops[i].use_id] = ops[i].work
        BY <1>8, <1>13, <1>15, <2>2, <2>3, <3>1, <3>3
      <4>2. \A r \in ops[i].dup : m'.regs[r] = ops[i].work
        BY <1>16, <1>17, <4>1
      <4>3. m'.regs[ops[i].use_id] = ops[i].work
        <5>1. CASE ops[i].use_id \in ops[i].dup
          BY <4>2, <5>1
        <5>2. CASE ops[i].use_id \notin ops[i].dup
          <6>1. \A j \in DOMAIN ops : ops[i].use_id \notin ops[j].dup
            BY <1>1, <4>1, <5>2 DEF InstructionInv
          <6> QED
            BY <1>16, <1>17, <4>1, <6>1
        <5> QED
          BY <5>1, <5>2
      <4> QED
        BY <1>1, <3>3, <4>2, <4>3 DEF InPlace
    <3> QED
      BY <3>2, <3>3
  <2>4. \A i \in DOMAIN ops : ~ops[i].use => InPlace(ops[i])'
    BY <1>1 DEF InPlace
  <2> QED
    BY <1>1, <1>25, <2>3, <2>4 DEF ReadInv
<1> QED
  BY <1>23, <1>24, <1>25

\* The first output that has no register yet
LEMMA FirstUnwritten ==
  ASSUME arch \in Archs, InstructionInv, Unwritten # {}, NEW i, i = Min(Unwritten), next \in Nat
  PROVE  /\ i \in DOMAIN ops /\ i \in Nat /\ ops[i].out /\ i >= next
         /\ \A j \in DOMAIN ops : ops[j].out => (j < i + 1 <=> j = i \/ j < next) /\ (j >= i + 1 => j # i /\ j >= next)
<1>1. DOMAIN ops \subseteq Nat
  BY OperandFacts
<1>2. Unwritten \in SUBSET Nat /\ \A j : j \in Unwritten <=> j \in DOMAIN ops /\ j >= next /\ ops[j].out
  BY <1>1 DEF Unwritten
<1>3. i \in Unwritten /\ \A j \in Unwritten : i <= j
  BY <1>2, MinOfNats
<1>4. \A j \in DOMAIN ops : j \in Nat
  BY <1>1
<1>5. i \in Nat /\ i >= next
  BY <1>2, <1>3
<1>6. ASSUME NEW j \in DOMAIN ops, ops[j].out
      PROVE  (j < i + 1 <=> j = i \/ j < next) /\ (j >= i + 1 => j # i /\ j >= next)
  <2>1. j \in Nat /\ (j >= next => i <= j)
    BY <1>2, <1>3, <1>4, <1>6
  <2> QED
    BY <1>5, <2>1
<1> QED
  BY <1>2, <1>3, <1>5, <1>6

(* There is always a register for an output. *)
LEMMA SomeOutReg ==
  ASSUME arch \in Archs, OutInv, next \in Nat, NEW i \in DOMAIN ops, ops[i].out, i >= next
  PROVE  OutRegs(ops[i]) # {}
<1>1. /\ InstructionInv /\ form \in arch.forms /\ masks.outs \subseteq Regs
      /\ DOMAIN ops = DOMAIN form.ops /\ None \notin Regs /\ Regs # {} /\ DOMAIN ops \subseteq Nat
      /\ \A j \in DOMAIN ops : OperandOf(ops[j], form.ops[j])
      /\ \A j \in DOMAIN ops : ops[j].out_id \in Regs \cup {None} /\ ops[j].mask \subseteq Regs
  BY NoneApart, OperandFacts DEF OutInv, InstructionInv, Masks, Regs
<1>2. CASE ops[i].out_id # None
  BY <1>2 DEF OutRegs
<1>3. CASE ops[i].out_id = None
  <2>1. form.ops[i].out_id = None
    BY <1>3 DEF OutInv
  <2>2. PICK outs : outs = {j \in DOMAIN form.ops : form.ops[j].out /\ form.ops[j].out_id = None}
    OBVIOUS
  <2>3. \A j \in DOMAIN ops : j \in outs <=> ops[j].out
    <3>1. \A j \in DOMAIN ops : ops[j].out <=> form.ops[j].out
      BY <1>1 DEF OperandOf
    <3>2. \A j \in DOMAIN ops : ops[j].out => form.ops[j].out_id = None
      BY <2>1, <1>1, OperandRules
    <3> QED
      BY <1>1, <2>2, <3>1, <3>2
  <2>4. PICK any \in Regs : TRUE
    BY <1>1
  <2> DEFINE others == outs \ {i}
             got == [j \in others |-> IF ops[j].out_id # None THEN ops[j].out_id ELSE any]
  <2>5. others \subseteq DOMAIN ops /\ i \in outs
    BY <1>1, <2>2, <2>3
  <2>6. got \in [others -> Regs] /\ \A j \in others : ops[j].out_id # None => got[j] = ops[j].out_id
    BY <1>1, <2>5
  <2> HIDE DEF got
  <2>7. ~(form.ops[i].mask \subseteq Range(got))
    <3>1. FindsRegisters(form, Regs)
      BY <1>1, FormFacts DEF Instruction
    <3> QED
      BY <2>2, <2>5, <2>6, <3>1 DEF FindsRegisters
  <2>8. PICK r \in ops[i].mask : r \notin Range(got)
    BY <1>1, <2>7 DEF OperandOf
  <2>9. r \notin masks.outs
    <3>1. SUFFICES ASSUME r \in masks.outs PROVE FALSE
      OBVIOUS
    <3>2. PICK j \in DOMAIN ops : j < next /\ ops[j].out /\ ops[j].out_id = r
      BY <3>1 DEF OutInv
    <3>3. j # i
      BY <1>1, <3>2
    <3>4. r # None /\ j \in others
      BY <1>1, <2>3, <3>1, <3>2, <3>3
    <3>5. got[j] = r /\ j \in DOMAIN got
      BY <2>6, <3>2, <3>4
    <3> QED
      BY <2>8, <3>5 DEF Range
  <2> QED
    BY <1>3, <2>8, <2>9 DEF OutRegs
<1> QED
  BY <1>2, <1>3

(* So does the choice of a register for one output; values are kept when updates stand alone. *)
LEMMA OutStepStep ==
  ASSUME IInv, OutStep
  PROVE  /\ IInv'
         /\ UpdatesApart /\ ValueInv => ValueInv'
         /\ ReadInv => ReadInv'
<1>1. /\ arch \in Archs /\ live \subseteq Works /\ next \in Nat /\ Sound(m, Regs) /\ Fine(m) /\ pc = "out"
      /\ OutInv /\ InstructionInv /\ None \notin Regs /\ None \notin Works /\ Unwritten # {}
      /\ masks \in Masks(Regs) /\ masks.live \subseteq Assigned(m)
      /\ masks.live \cap (masks.outs \cup form.clobbered) = {}
      /\ Assigned(m) \subseteq masks.live \cup masks.outs
      /\ UNCHANGED <<arch, live, form, target, sw, misread>>
  BY NoneApart DEF IInv, PhaseInv, OutStep, OutInv, Regs
<1>2. PICK i : i = Min(Unwritten)
  OBVIOUS
<1>3. /\ i \in DOMAIN ops /\ i \in Nat /\ ops[i].out /\ i >= next
      /\ \A j \in DOMAIN ops : ops[j].out => (j < i + 1 <=> j = i \/ j < next) /\ (j >= i + 1 => j # i /\ j >= next)
  BY <1>1, <1>2, FirstUnwritten
<1>4. PICK r \in OutRegs(ops[i]) :
        LET x == IF ops[i].out_id = None /\ r \in masks.live THEN OnSpill(m, r) ELSE m
        IN  /\ m' = IF ops[i].kill THEN [x EXCEPT !.ok = @ /\ x.at[r] = None]
                    ELSE Assign(x, ops[i].work, r, TRUE)
            /\ ops' = [ops EXCEPT ![i].out_id = r]
            /\ masks' = [masks EXCEPT !.outs = @ \cup {r}, !.live = @ \ {r}]
            /\ pc' = pc
  <2>1. OutRegs(ops[i]) # {}
    BY <1>1, <1>3, SomeOutReg
  <2>2. PICK r \in OutRegs(ops[i]) : Give(i, r) /\ UNCHANGED pc
    BY <1>2, <2>1 DEF OutStep
  <2> QED
    BY <2>2 DEF Give
<1>5. next' = i + 1 /\ pc' = pc
  BY <1>2, <1>4 DEF OutStep
<1>6. PICK x : x = IF ops[i].out_id = None /\ r \in masks.live THEN OnSpill(m, r) ELSE m
  OBVIOUS
<1>7. PICK w : w = ops[i].work
  OBVIOUS
<1>8. PICK kill : kill = ops[i].kill
  OBVIOUS
<1>9. /\ m' = IF kill THEN [x EXCEPT !.ok = @ /\ x.at[r] = None] ELSE Assign(x, w, r, TRUE)
      /\ ops' = [ops EXCEPT ![i].out_id = r]
      /\ masks' = [masks EXCEPT !.outs = @ \cup {r}, !.live = @ \ {r}]
  BY <1>4, <1>6, <1>7, <1>8
<1>10. \A j \in DOMAIN ops :
         /\ ops[j] \in Operands(Regs) /\ ops[j].work \in Works /\ ops[j].kill \in BOOLEAN
         /\ ops[j].out_id \in Regs \cup {None} /\ ops[j].mask \subseteq Regs /\ ops[j].use_id \in Regs \cup {None}
         /\ ops[j].use \in BOOLEAN /\ ops[j].out \in BOOLEAN /\ ops[j].mem \in BOOLEAN
  BY <1>1, OperandFacts
<1>11. \A j \in DOMAIN ops :
         /\ ops[j].use /\ ~ops[j].mem => ops[j].use_id # None
         /\ ops[j].kill \/ (ops[j].mem /\ ~ops[j].out) => Away(m, ops[j].work)
         /\ ops[j].out /\ j >= next =>
              /\ Away(m, ops[j].work)
              /\ ops[j].out_id = form.ops[j].out_id /\ ops[j].out_id \notin masks.outs
         /\ ops[j].out /\ j < next =>
              /\ ops[j].out_id \in masks.outs
              /\ ~ops[j].kill => m.at[ops[j].out_id] = ops[j].work /\ ops[j].out_id \in m.dirty
              /\ ops[j].kill => m.at[ops[j].out_id] = None
  BY <1>1 DEF OutInv
<1>12. w \in Works /\ kill \in BOOLEAN /\ Away(m, w) /\ ops[i].out_id = form.ops[i].out_id
  BY <1>3, <1>7, <1>8, <1>10, <1>11
<1>13. r \in Regs /\ r \notin masks.outs
  BY <1>3, <1>4, <1>10, <1>11 DEF OutRegs
<1>14. ops[i].out_id # None => r = ops[i].out_id /\ r \in form.clobbered
  BY <1>1, <1>3, <1>4, <1>12, OperandRules DEF OutRegs
<1>15. /\ Sound(x, Regs) /\ x.ok = m.ok /\ x.regs = m.regs
       /\ \A q \in Regs : x.at[q] = IF q = r THEN None ELSE m.at[q]
       /\ \A q \in Regs : q # r => (q \in x.dirty <=> q \in m.dirty)
       /\ \A W \in SUBSET Works : Kept(m, W) => Kept(x, W)
       /\ \A v : v \in m.slots /\ m.at[r] # v => v \in x.slots
  <2>1. CASE ops[i].out_id = None /\ r \in masks.live
    <3>1. x = SpillAll(m, {r}) /\ {r} \subseteq Assigned(m) /\ Sound(m, Regs) /\ None \notin Works
      BY <1>1, <1>6, <2>1 DEF OnSpill
    <3>2. /\ Sound(x, Regs) /\ x.ok = m.ok /\ x.regs = m.regs
          /\ x.dirty = m.dirty \ {r}
          /\ \A q \in Regs : x.at[q] = IF q \in {r} THEN None ELSE m.at[q]
          /\ \A v : v \in x.slots <=>
               IF \E q \in {r} \cap m.dirty : m.at[q] = v
               THEN \E q \in {r} \cap m.dirty : m.at[q] = v /\ m.regs[q] = v
               ELSE v \in m.slots
      BY <3>1, SpillAllIs
    <3>3. \A W \in SUBSET Works : Kept(m, W) => Kept(x, W)
      <4>1. SUFFICES ASSUME NEW W \in SUBSET Works PROVE Kept(m, W) => Kept(x, W)
        OBVIOUS
      <4>2. None \notin W
        BY <3>1
      <4> QED
        BY <3>1, <4>2, SpillKeeps
    <3> QED
      BY <1>1, <3>2, <3>3
  <2>2. CASE ~(ops[i].out_id = None /\ r \in masks.live)
    <3>1. r \notin masks.live
      BY <1>1, <1>14, <2>2
    <3>2. m.at[r] = None
      BY <1>1, <1>13, <3>1, SoundFacts
    <3> QED
      BY <1>1, <1>6, <2>2, <3>2
  <2> QED
    BY <2>1, <2>2
<1>16. Away(x, w) /\ x.at[r] = None
  <2>1. \A q \in Regs : m.at[q] # w
    BY <1>1, <1>12, AwayIs
  <2>2. \A q \in Regs : x.at[q] # w
    BY <1>1, <1>12, <1>15, <2>1
  <2> QED
    BY <1>13, <1>15, <2>2, AwayIs
<1>17. /\ Sound(m', Regs) /\ m'.ok = m.ok /\ m'.regs = m.regs /\ m'.slots = x.slots
       /\ \A q \in Regs : m'.at[q] = IF q = r THEN IF kill THEN None ELSE w ELSE m.at[q]
       /\ \A q \in Regs : q # r => (q \in m'.dirty <=> q \in m.dirty)
       /\ ~kill => r \in m'.dirty
  <2>1. PICK z : z = m'
    OBVIOUS
  <2>2. kill => z = x
    <3>1. x \in Machines(Regs)
      BY <1>15, SoundFacts
    <3>2. kill => z = [x EXCEPT !.ok = x.ok]
      <4>1. SUFFICES ASSUME kill PROVE z = [x EXCEPT !.ok = x.ok]
        OBVIOUS
      <4>2. PICK still : still = (x.ok /\ x.at[r] = None)
        OBVIOUS
      <4>3. z = [x EXCEPT !.ok = still]
        BY <1>9, <2>1, <4>1, <4>2
      <4>4. still = x.ok
        BY <1>16, <3>1, <4>2 DEF Machines
      <4> QED
        BY <4>3, <4>4
    <3> QED
      BY <3>1, <3>2 DEF Machines
  <2>3. ~kill => z = Assign(x, w, r, TRUE)
    BY <1>9, <2>1
  <2>4. /\ Sound(x, Regs) /\ w \in Works /\ Away(x, w) /\ r \in Regs
        /\ x.at[r] = None /\ kill \in BOOLEAN
    BY <1>1, <1>12, <1>13, <1>15, <1>16
  <2>5. /\ Sound(z, Regs) /\ z.ok = m.ok /\ z.regs = x.regs /\ z.slots = x.slots
        /\ \A q \in Regs : z.at[q] = IF q = r /\ ~kill THEN w ELSE x.at[q]
        /\ \A q \in Regs : q \in z.dirty <=> q \in x.dirty \/ (q = r /\ ~kill)
    <3>1. CASE kill
      BY <1>15, <2>4, <2>2, <3>1
    <3>2. CASE ~kill
      <4>1. PICK d \in BOOLEAN : d = TRUE
        OBVIOUS
      <4>2. z = Assign(x, w, r, d)
        BY <2>3, <3>2, <4>1
      <4>3. None \notin Regs /\ Sound(x, Regs) /\ None \notin Works /\ w \in Works /\ r \in Regs
            /\ x.at[r] = None /\ Away(x, w)
        BY <1>1, <2>4
      <4>4. /\ Sound(z, Regs) /\ z.ok = x.ok /\ z.regs = x.regs /\ z.slots = x.slots
            /\ \A q \in Regs : z.at[q] = IF q = r THEN w ELSE x.at[q]
            /\ \A q \in Regs : q \in z.dirty <=> q \in x.dirty \/ (q = r /\ d)
        BY <4>2, <4>3, AssignIs
      <4> QED
        BY <1>15, <3>2, <4>1, <4>4
    <3> QED
      BY <3>1, <3>2
  <2>6. m' = z
    BY <2>1
  <2>7. \A q \in Regs : z.at[q] = IF q = r THEN IF kill THEN None ELSE w ELSE m.at[q]
    BY <1>15, <2>4, <2>5
  <2> QED
    BY <1>13, <1>15, <2>4, <2>5, <2>6, <2>7
<1>18. /\ masks' \in Masks(Regs) /\ masks'.outs = masks.outs \cup {r} /\ masks'.live = masks.live \ {r}
  <2>1. PICK outs \in SUBSET Regs : outs = masks.outs \cup {r}
    BY <1>1, <1>13 DEF Masks
  <2>2. PICK lv \in SUBSET Regs : lv = masks.live \ {r}
    BY <1>1 DEF Masks
  <2>3. masks' = [masks EXCEPT !.outs = outs, !.live = lv]
    BY <1>9, <2>1, <2>2
  <2> QED
    BY <1>1, <2>1, <2>2, <2>3 DEF Masks
<1>19. DOMAIN ops' = DOMAIN ops /\ \A j \in DOMAIN ops : j # i => ops'[j] = ops[j]
  BY <1>9
<1>20. /\ ops'[i] \in Operands(Regs) /\ SameOperand(ops'[i], ops[i]) /\ ops'[i].out_id = r
       /\ ops'[i].use_id = ops[i].use_id /\ ops'[i].mem = ops[i].mem
  <2>1. ops'[i] = [ops[i] EXCEPT !.out_id = r]
    BY <1>3, <1>9
  <2>2. ops[i] \in Operands(Regs)
    BY <1>3, <1>10
  <2>3. ops'[i] \in Operands(Regs) /\ ops'[i].out_id = r /\ ops'[i].use_id = ops[i].use_id /\ ops'[i].mem = ops[i].mem
    BY <1>13, <2>1, <2>2 DEF Operands
  <2>4. SameOperand(ops'[i], ops[i])
    BY <1>14, <2>1, <2>2 DEF Operands, SameOperand
  <2> QED
    BY <2>3, <2>4
<1>21. \A j \in DOMAIN ops :
         /\ ops'[j] \in Operands(Regs) /\ SameOperand(ops'[j], ops[j])
         /\ ops'[j].work = ops[j].work /\ ops'[j].out = ops[j].out /\ ops'[j].kill = ops[j].kill
         /\ ops'[j].use = ops[j].use /\ ops'[j].write = ops[j].write
         /\ ops'[j].use_id = ops[j].use_id /\ ops'[j].mem = ops[j].mem /\ ops'[j].dup = ops[j].dup
  BY <1>10, <1>19, <1>20 DEF SameOperand
<1>22. \A j, k \in DOMAIN ops : j # k =>
         /\ ops[j].work # ops[k].work
         /\ ops[j].use_id # None => ops[j].use_id \notin {ops[k].use_id} \cup ops[k].dup
  BY <1>1 DEF InstructionInv
<1>23. InstructionInv'
  <2>1. ops' \in [DOMAIN ops -> Operands(Regs)]
    BY <1>9, <1>21
  <2> QED
    BY <1>1, <1>21, <1>22, <2>1, OperandsChange
<1>24. \A v \in Works : v # w /\ Away(m, v) => Away(m', v)
  <2>1. \A v \in Works : v # w /\ (\A q \in Regs : m.at[q] # v) => \A q \in Regs : m'.at[q] # v
    BY <1>1, <1>17
  <2> QED
    BY <1>1, <1>17, <2>1, AwayIs
<1>25. kill => Away(m', w)
  <2>1. \A q \in Regs : m.at[q] # w
    BY <1>1, <1>12, AwayIs
  <2>2. kill => \A q \in Regs : m'.at[q] # w
    BY <1>1, <1>12, <1>17, <2>1
  <2> QED
    BY <1>17, <2>2, AwayIs
<1>26. ASSUME NEW j \in DOMAIN ops
       PROVE  /\ ops[j].kill \/ (ops[j].mem /\ ~ops[j].out) => Away(m', ops[j].work)
              /\ ops[j].out /\ j >= i + 1 =>
                   /\ Away(m', ops[j].work)
                   /\ ops'[j].out_id = form.ops[j].out_id /\ ops'[j].out_id \notin masks'.outs
              /\ ops[j].out /\ j < i + 1 =>
                   /\ ops'[j].out_id \in masks'.outs
                   /\ ~ops[j].kill => m'.at[ops'[j].out_id] = ops[j].work /\ ops'[j].out_id \in m'.dirty
                   /\ ops[j].kill => m'.at[ops'[j].out_id] = None
  <2>1. CASE j = i
    BY <1>3, <1>7, <1>8, <1>13, <1>17, <1>18, <1>20, <1>25, <2>1
  <2>2. CASE j # i
    <3>1. ops'[j] = ops[j] /\ ops[j].work # w /\ ops[j].work \in Works
      BY <1>3, <1>7, <1>10, <1>19, <1>22, <2>2
    <3>2. ops[j].kill \/ (ops[j].mem /\ ~ops[j].out) => Away(m', ops[j].work)
      BY <1>11, <1>24, <3>1
    <3>3. ASSUME ops[j].out, j >= i + 1
          PROVE  /\ Away(m', ops[j].work)
                 /\ ops[j].out_id = form.ops[j].out_id /\ ops[j].out_id \notin masks'.outs
      <4>1. j >= next
        BY <1>3, <3>3
      <4>2. Away(m', ops[j].work) /\ ops[j].out_id = form.ops[j].out_id /\ ops[j].out_id \notin masks.outs
        BY <1>11, <1>24, <3>1, <3>3, <4>1
      <4>3. ops[j].out_id # r
        <5>1. ops[i].out_id # None => form.ops[j].out_id \notin {None, form.ops[i].out_id}
          BY <1>1, <1>3, <1>12, <2>2, <3>3, OperandRules
        <5>2. ops[i].out_id = None => form.ops[j].out_id = None
          BY <1>1, <1>3, <1>12, <2>2, OperandRules
        <5> QED
          BY <1>1, <1>12, <1>13, <1>14, <4>2, <5>1, <5>2
      <4> QED
        BY <1>18, <4>2, <4>3
    <3>4. ASSUME ops[j].out, j < i + 1
          PROVE  /\ ops[j].out_id \in masks'.outs
                 /\ ~ops[j].kill => m'.at[ops[j].out_id] = ops[j].work /\ ops[j].out_id \in m'.dirty
                 /\ ops[j].kill => m'.at[ops[j].out_id] = None
      <4>1. j < next
        BY <1>3, <2>2, <3>4
      <4>2. /\ ops[j].out_id \in masks.outs
            /\ ~ops[j].kill => m.at[ops[j].out_id] = ops[j].work /\ ops[j].out_id \in m.dirty
            /\ ops[j].kill => m.at[ops[j].out_id] = None
        BY <1>11, <3>4, <4>1
      <4>3. ops[j].out_id \in Regs /\ ops[j].out_id # r
        BY <1>1, <1>13, <4>2 DEF Masks
      <4> QED
        BY <1>17, <1>18, <4>2, <4>3
    <3> QED
      BY <3>1, <3>2, <3>3, <3>4
  <2> QED
    BY <2>1, <2>2
<1>27. ASSUME NEW j \in DOMAIN ops, NEW k \in DOMAIN ops, ops[j].out, ops[k].out, j < i + 1, k < i + 1, j # k
       PROVE  ops'[j].out_id # ops'[k].out_id
  <2>1. \A l \in DOMAIN ops : ops[l].out /\ l < i + 1 /\ l # i => l < next /\ ops[l].out_id \in masks.outs /\ ops'[l] = ops[l]
    BY <1>3, <1>11, <1>19
  <2>2. \A l, n \in DOMAIN ops : ops[l].out /\ ops[n].out /\ l < next /\ n < next /\ l # n => ops[l].out_id # ops[n].out_id
    BY <1>1 DEF OutInv
  <2>3. CASE j = i
    BY <1>13, <1>20, <1>27, <2>1, <2>3
  <2>4. CASE k = i
    BY <1>13, <1>20, <1>27, <2>1, <2>4
  <2>5. CASE j # i /\ k # i
    BY <1>27, <2>1, <2>2, <2>5
  <2> QED
    BY <2>3, <2>4, <2>5
<1>28. ASSUME NEW q \in masks'.outs
       PROVE  \E j \in DOMAIN ops : j < i + 1 /\ ops[j].out /\ ops'[j].out_id = q
  <2>1. CASE q = r
    BY <1>3, <1>20, <2>1
  <2>2. CASE q # r
    <3>1. PICK j \in DOMAIN ops : j < next /\ ops[j].out /\ ops[j].out_id = q
      BY <1>1, <1>18, <1>28, <2>2 DEF OutInv
    <3>2. j < i + 1
      BY <1>3, <3>1
    <3>3. j # i
      BY <1>11, <1>3, <1>18, <1>28, <2>2, <3>1
    <3> QED
      BY <1>19, <3>1, <3>2, <3>3
  <2> QED
    BY <2>1, <2>2
<1>29. OutInv'
  <2>1. masks'.live \subseteq Assigned(m')
    BY <1>1, <1>17, <1>18, SoundFacts
  <2>2. masks'.live \cap (masks'.outs \cup form.clobbered) = {}
    BY <1>1, <1>18
  <2>3. Assigned(m') \subseteq masks'.live \cup masks'.outs
    BY <1>1, <1>17, <1>18, SoundFacts
  <2>4. \A j \in DOMAIN ops : ops[j].use /\ ~ops[j].mem => ops[j].use_id # None
    BY <1>11
  <2> QED
    BY <1>1, <1>5, <1>18, <1>19, <1>21, <1>23, <1>26, <1>27, <1>28, <2>1, <2>2, <2>3, <2>4 DEF OutInv, Regs
<1>30. IInv'
  <2>1. i + 1 \in Nat
    BY <1>3
  <2> QED
    BY <1>1, <1>5, <1>17, <1>29, <2>1 DEF IInv, PhaseInv, Fine, Regs
<1>31. ASSUME UpdatesApart, ValueInv PROVE ValueInv'
  <2>1. PICK spared : spared = Spared
    OBVIOUS
  <2>2. spared \in SUBSET Works /\ w \notin spared /\ None \notin spared
    BY <1>1, <1>3, <1>7, <2>1 DEF Spared
  <2>3. Kept(x, spared)
    BY <1>1, <1>15, <1>31, <2>1, <2>2 DEF ValueInv
  <2>4. /\ \A q \in Regs : x.at[q] \in spared => x.regs[q] = x.at[q] /\ (q \in x.dirty \/ x.at[q] \in x.slots)
        /\ \A v \in spared : (\A q \in Regs : x.at[q] # v) => v \in x.slots
    BY <1>15, <2>3, KeptFacts
  <2>5. \A q \in Regs : m'.at[q] \in spared => m'.regs[q] = m'.at[q] /\ (q \in m'.dirty \/ m'.at[q] \in m'.slots)
    BY <1>15, <1>17, <2>2, <2>4
  <2>6. \A v \in spared : (\A q \in Regs : m'.at[q] # v) => v \in m'.slots
    BY <1>15, <1>17, <2>2, <2>4
  <2>7. Kept(m', spared)
    BY <1>17, <2>5, <2>6, IsKept
  <2>8. Spared' = spared
    BY <1>1, <1>19, <1>21, <2>1 DEF Spared
  <2>9. UpdatedInv'
    <3>1. SUFFICES ASSUME NEW j \in DOMAIN ops, ops[j].write, ~ops[j].out, ~ops[j].mem
                   PROVE  IF ops[j].kill THEN m'.at[ops[j].use_id] = None
                          ELSE m'.at[ops[j].use_id] = ops[j].work /\ ops[j].use_id \in m'.dirty
      BY <1>1, <1>19, <1>21 DEF UpdatedInv
    <3>2. IF ops[j].kill THEN m.at[ops[j].use_id] = None
          ELSE m.at[ops[j].use_id] = ops[j].work /\ ops[j].use_id \in m.dirty
      BY <1>1, <1>31, <3>1 DEF ValueInv, UpdatedInv
    <3>3. /\ form \in arch.forms /\ DOMAIN ops = DOMAIN form.ops
          /\ form.ops[j].write /\ ~form.ops[j].out /\ form.ops[i].out
      BY <1>1, <1>3, <3>1, OperandFacts DEF InstructionInv, OperandOf
    <3>4. form.ops[j].use_id # None /\ form.ops[j].use_id \notin form.clobbered /\ form.ops[i].out_id # None
      BY <1>1, <1>3, <1>31, <3>3 DEF UpdatesApart
    <3>5. ops[j].use_id = form.ops[j].use_id /\ ops[j].use_id \in Regs /\ ops[j].use_id # r
      BY <1>1, <1>10, <1>12, <1>14, <3>4, OperandRules
    <3> QED
      BY <1>17, <3>2, <3>5
  <2> QED
    BY <1>1, <1>5, <2>7, <2>8, <2>9 DEF ValueInv
<1>32. ASSUME ReadInv PROVE ReadInv'
  <2>1. ASSUME NEW j \in DOMAIN ops PROVE InPlace(ops[j])'
    <3>1. InPlace(ops[j])
      BY <1>1, <1>32 DEF ReadInv
    <3>2. ASSUME ops[j].use, ops[j].mem PROVE ops[j].work \in m'.slots
      <4>1. ops[j].work \in m.slots
        BY <3>1, <3>2 DEF InPlace
      <4>2. m.at[r] # ops[j].work
        <5>1. CASE Away(m, ops[j].work)
          BY <1>1, <1>13, <5>1, AwayIs
        <5>2. CASE ~Away(m, ops[j].work)
          <6>1. ops[j].out /\ ~(j >= next) /\ ~ops[j].kill
            BY <1>10, <1>11, <3>2, <5>2
          <6>2. j < next
            BY <1>1, <6>1, OperandFacts
          <6>3. ops[j].out_id \in masks.outs /\ m.at[ops[j].out_id] = ops[j].work
            BY <1>11, <6>1, <6>2
          <6>4. ops[j].out_id \in Regs /\ ops[j].out_id # r /\ ops[j].work # None
            BY <1>1, <1>10, <1>13, <6>3 DEF Masks
          <6> QED
            BY <1>1, <1>13, <6>3, <6>4, SoundFacts
        <5> QED
          BY <5>1, <5>2
      <4> QED
        BY <1>15, <1>17, <4>1, <4>2
    <3> QED
      BY <1>17, <1>21, <3>1, <3>2 DEF InPlace
  <2> QED
    BY <1>1, <1>5, <1>19, <1>32, <2>1 DEF ReadInv
<1> QED
  BY <1>30, <1>31, <1>32

\* A jump leaves what is needed after it alone.
LEMMA JumpSpares ==
  ASSUME arch \in Archs, InstructionInv, Indirect
  PROVE  LiveAfter \subseteq Spared
<1>1. \A i \in DOMAIN ops : ~ops[i].out
  BY JumpRules
<1>2. SUFFICES ASSUME NEW w \in LiveAfter PROVE w \in Spared
  OBVIOUS
<1>3. w \in live
  BY <1>1, <1>2 DEF LiveAfter, Range
<1>4. \A i \in DOMAIN ops : ops[i].kill => ops[i].work # w
  BY <1>2 DEF LiveAfter, Range
<1> QED
  BY <1>1, <1>3, <1>4 DEF Spared

(* So does the end of that pass; values are kept when updates stand alone. *)
LEMMA OutDoneStep ==
  ASSUME IInv, OutDone
  PROVE  /\ IInv'
         /\ UpdatesApart /\ ValueInv => ValueInv'
         /\ ReadInv => ReadInv'
<1>1. /\ arch \in Archs /\ live \subseteq Works /\ next \in Nat /\ Sound(m, Regs) /\ Fine(m) /\ pc = "out"
      /\ OutInv /\ InstructionInv /\ None \notin Works /\ None \notin Regs /\ Unwritten = {}
      /\ UNCHANGED <<arch, live, form, ops, masks, next, misread>>
  BY NoneApart DEF IInv, PhaseInv, OutDone, OutInv, Regs
<1>2. \A i \in DOMAIN ops :
        /\ ops[i].work \in Works
        /\ ops[i].mem /\ ~ops[i].out => Away(m, ops[i].work)
        /\ Indirect => ~ops[i].out
  BY <1>1, OperandFacts, JumpRules DEF OutInv
<1>3. CASE Indirect /\ target # None
  <2>1. IsTarget(target, Regs) /\ LiveAfter \subseteq target.live_in
        /\ (form.flow # "shared" => AllLive(target)) /\ LiveAfter \in SUBSET Works
    BY <1>1, <1>3, LiveAfterIs DEF InstructionInv
  <2>2. Switch(m, target, FALSE)
    BY <1>3 DEF OutDone
  <2>3. PICK t : t = target
    OBVIOUS
  <2>4. PICK try \in BOOLEAN : try = FALSE
    OBVIOUS
  <2>5. /\ arch \in Archs /\ arch' = arch /\ Sound(m, Regs) /\ IsTarget(t, Regs) /\ Switch(m, t, try)
        /\ (form'.flow # "shared" => AllLive(t))
    BY <1>1, <2>1, <2>2, <2>3, <2>4
  <2>6. /\ pc' = "switch" /\ target' = t /\ SwitchInv' /\ Sound(m', Regs) /\ m'.ok = m.ok
        /\ (sw'.try <=> try) /\ m'.regs = m.regs
        /\ \A w \in Works : Away(m, w) => Away(m', w) /\ (w \in m.slots => w \in m'.slots)
    BY <2>5, SwitchStart
  <2>7. ~try => \A W \in SUBSET Works : W \subseteq t.live_in /\ Kept(m, W) => Kept(m', W)
    BY <2>5, SwitchStart
  <2>8. InstructionInv' /\ target' # None /\ Indirect' = Indirect /\ LiveAfter' = LiveAfter
    BY <1>1, <1>3, <2>3, <2>6, InstructionStays DEF Indirect, LiveAfter
  <2>9. IInv'
    <3>1. Fine(m')
      BY <1>1, <2>6, FineStays
    <3> QED
      BY <1>1, <2>4, <2>6, <2>8, <3>1 DEF IInv, PhaseInv, Regs
  <2>10. ASSUME ValueInv PROVE ValueInv'
    <3>1. Kept(m, Spared) /\ Spared \in SUBSET Works /\ LiveAfter \subseteq Spared
      BY <1>1, <1>3, <2>10, JumpSpares DEF ValueInv, Spared
    <3>2. Kept(m, LiveAfter)
      BY <3>1, KeptLess
    <3>3. Kept(m', LiveAfter)
      BY <2>1, <2>3, <2>4, <2>7, <3>2
    <3> QED
      BY <1>3, <2>4, <2>6, <2>8, <3>3 DEF ValueInv, Needed
  <2>11. ASSUME ReadInv PROVE ReadInv'
    <3>1. ASSUME NEW i \in DOMAIN ops
          PROVE  InPlace(ops[i])' /\ (ops[i].mem => Away(m', ops[i].work))
      <4>1. InPlace(ops[i])
        BY <1>1, <2>11 DEF ReadInv
      <4> QED
        BY <1>1, <1>2, <1>3, <2>6, <4>1 DEF InPlace
    <3> QED
      BY <1>1, <2>6, <2>11, <3>1 DEF ReadInv
  <2> QED
    BY <2>9, <2>10, <2>11
<1>4. CASE ~(Indirect /\ target # None)
  <2>1. PICK rs : rs = form.scratch \cap Assigned(m)
    OBVIOUS
  <2>2. PICK y : y = SpillAll(m, rs)
    OBVIOUS
  <2>3. m' = y /\ pc' = "execute" /\ UNCHANGED <<target, sw>>
    BY <1>4, <2>1, <2>2 DEF OutDone
  <2>4. Sound(m, Regs) /\ rs \subseteq Assigned(m) /\ None \notin Works /\ arch \in Archs
    BY <1>1, <2>1
  <2>5. /\ Sound(y, Regs) /\ y.ok = m.ok /\ y.regs = m.regs /\ y.dirty = m.dirty \ rs
        /\ \A r \in Regs : y.at[r] = IF r \in rs THEN None ELSE m.at[r]
        /\ \A w : w \in y.slots <=>
             IF \E r \in rs \cap m.dirty : m.at[r] = w
             THEN \E r \in rs \cap m.dirty : m.at[r] = w /\ m.regs[r] = w
             ELSE w \in m.slots
    BY <2>2, <2>4, SpillAllIs
  <2>6. Carries(m, y)
    BY <2>2, <2>4, SpillCarries
  <2>7. InstructionInv' /\ LiveAfter' = LiveAfter /\ Spared' = Spared /\ Indirect' = Indirect
    BY <1>1, <2>3, InstructionStays DEF LiveAfter, Spared, Indirect
  <2>8. \A i \in DOMAIN ops : ops[i].out => rs = {}
    <3>1. SUFFICES ASSUME NEW i \in DOMAIN ops, ops[i].out PROVE rs = {}
      OBVIOUS
    <3>2. form.ops[i].out /\ i \in DOMAIN form.ops /\ Instruction(form, Regs)
      BY <1>1, <3>1, OperandFacts, FormFacts DEF InstructionInv, OperandOf
    <3>3. form.flow # "branch" /\ form.flow \notin Tables
      BY <1>2, <3>1, <3>2 DEF Instruction, Indirect
    <3> QED
      BY <2>1, <3>2, <3>3 DEF Instruction
  <2>9. Fine(m') /\ Sound(m', Regs)
    BY <1>1, <2>3, <2>5, FineStays
  <2>10. ASSUME ~Indirect PROVE ReadyInv'
    <3>1. ASSUME NEW i \in DOMAIN ops
          PROVE  /\ ops[i].use /\ ~ops[i].mem => ops[i].use_id # None
                 /\ ops[i].mem /\ ~ops[i].out => Away(m', ops[i].work)
                 /\ ops[i].out => /\ ops[i].out_id \in Regs
                                  /\ ops[i].kill => m'.at[ops[i].out_id] = None
                                  /\ ~ops[i].kill => m'.at[ops[i].out_id] = ops[i].work /\ ops[i].out_id \in m'.dirty
      <4>1. ops[i].use /\ ~ops[i].mem => ops[i].use_id # None
        BY <1>1 DEF OutInv
      <4>2. ops[i].mem /\ ~ops[i].out => Away(m', ops[i].work)
        <5>1. SUFFICES ASSUME Away(m, ops[i].work) PROVE Away(m', ops[i].work)
          BY <1>2
        <5>2. \A r \in Regs : m.at[r] # ops[i].work
          BY <1>1, <5>1, AwayIs
        <5>3. \A r \in Regs : y.at[r] # ops[i].work
          BY <1>1, <1>2, <2>5, <5>2
        <5> QED
          BY <2>3, <2>5, <5>3, AwayIs
      <4>3. ASSUME ops[i].out
            PROVE  /\ ops[i].out_id \in Regs
                   /\ ops[i].kill => m'.at[ops[i].out_id] = None
                   /\ ~ops[i].kill => m'.at[ops[i].out_id] = ops[i].work /\ ops[i].out_id \in m'.dirty
        <5>1. rs = {} /\ i \in Nat
          BY <1>1, <2>8, <4>3, OperandFacts
        <5>2. i < next
          BY <1>1, <4>3, <5>1 DEF Unwritten
        <5>3. /\ ops[i].out_id \in masks.outs
              /\ ~ops[i].kill => m.at[ops[i].out_id] = ops[i].work /\ ops[i].out_id \in m.dirty
              /\ ops[i].kill => m.at[ops[i].out_id] = None
          BY <1>1, <4>3, <5>2 DEF OutInv
        <5>4. ops[i].out_id \in Regs
          BY <1>1, <5>3 DEF OutInv, Masks
        <5> QED
          BY <2>3, <2>5, <5>1, <5>3, <5>4
      <4> QED
        BY <4>1, <4>2, <4>3
    <3>2. ASSUME NEW r \in Regs, m'.at[r] # None, r \in form.clobbered
          PROVE  \E i \in DOMAIN ops : ops[i].out /\ ops[i].out_id = r
      <4>1. r \in Assigned(m)
        BY <1>1, <2>3, <2>5, <3>2, SoundFacts
      <4>2. r \in masks.outs
        BY <1>1, <3>2, <4>1 DEF OutInv
      <4> QED
        BY <1>1, <4>2 DEF OutInv
    <3> QED
      BY <1>1, <2>3, <2>7, <3>1, <3>2 DEF ReadyInv, Regs
  <2>11. IInv'
    BY <1>1, <1>4, <2>3, <2>7, <2>9, <2>10 DEF IInv, PhaseInv, Regs
  <2>12. ASSUME UpdatesApart, ValueInv PROVE ValueInv'
    <3>1. Kept(m, Spared) /\ Spared \in SUBSET Works /\ UpdatedInv
      BY <1>1, <2>12 DEF ValueInv, Spared
    <3>2. Kept(m', Spared)
      BY <2>3, <2>6, <3>1 DEF Carries
    <3>3. CASE Indirect
      <4>1. LiveAfter \subseteq Spared
        BY <1>1, <3>3, JumpSpares
      <4>2. Kept(m', LiveAfter)
        BY <3>1, <3>2, <4>1, KeptLess
      <4> QED
        BY <2>3, <2>7, <3>3, <4>2 DEF ValueInv
    <3>4. CASE ~Indirect
      <4>1. UpdatedInv'
        <5>1. SUFFICES ASSUME NEW i \in DOMAIN ops, ops[i].write, ~ops[i].out, ~ops[i].mem
                       PROVE  IF ops[i].kill THEN m'.at[ops[i].use_id] = None
                              ELSE m'.at[ops[i].use_id] = ops[i].work /\ ops[i].use_id \in m'.dirty
          BY <1>1 DEF UpdatedInv
        <5>2. IF ops[i].kill THEN m.at[ops[i].use_id] = None
              ELSE m.at[ops[i].use_id] = ops[i].work /\ ops[i].use_id \in m.dirty
          BY <3>1, <5>1 DEF UpdatedInv
        <5>3. /\ form \in arch.forms /\ DOMAIN ops = DOMAIN form.ops
              /\ form.ops[i].write /\ ~form.ops[i].out
          BY <1>1, <5>1, OperandFacts DEF InstructionInv, OperandOf
        <5>4. form.scratch # {} => form.ops[i].use_id # None /\ form.ops[i].use_id \notin form.scratch
          BY <1>1, <2>12, <5>3 DEF UpdatesApart
        <5>5. ops[i].use_id \in Regs
          BY <1>1, <1>2, <5>1, OperandFacts, OperandRules DEF OutInv
        <5>6. ops[i].use_id \notin rs
          BY <1>1, <2>1, <5>1, <5>4, OperandRules
        <5> QED
          BY <2>3, <2>5, <5>2, <5>5, <5>6
      <4> QED
        BY <2>3, <2>7, <3>2, <3>4, <4>1 DEF ValueInv
    <3> QED
      BY <3>3, <3>4
  <2>13. ASSUME ReadInv PROVE ReadInv'
    <3>1. ASSUME NEW i \in DOMAIN ops PROVE InPlace(ops[i])'
      <4>1. InPlace(ops[i])
        BY <1>1, <2>13 DEF ReadInv
      <4>2. ASSUME ops[i].mem, ops[i].work \in m.slots PROVE ops[i].work \in m'.slots
        <5>1. CASE ops[i].out
          BY <2>3, <2>5, <2>8, <4>2, <5>1
        <5>2. CASE ~ops[i].out
          BY <1>2, <2>3, <2>6, <4>2, <5>2 DEF Carries
        <5> QED
          BY <5>1, <5>2
      <4> QED
        BY <1>1, <2>3, <2>5, <4>1, <4>2 DEF InPlace
    <3> QED
      BY <1>1, <2>3, <2>13, <3>1 DEF ReadInv
  <2> QED
    BY <2>11, <2>12, <2>13
<1> QED
  BY <1>3, <1>4

-------------------------------------------------------------------------------
(* The instruction *)

\* Operand i is written to register r.
WrittenTo(i, r) ==
  ops[i].write /\ (ops[i].out \/ ~ops[i].mem) /\ r = IF ops[i].out THEN ops[i].out_id ELSE ops[i].use_id

(* What running the instruction does to the registers and slots: it writes its outputs, and
   clobbers no more than it says. *)
LEMMA ExecutedIs ==
  ASSUME arch \in Archs, InstructionInv, Sound(m, Regs), NEW x, x = Executed(m)
  PROVE  /\ Sound(x, Regs) /\ x.ok = m.ok /\ x.at = m.at /\ x.dirty = m.dirty
         /\ \A r \in Regs : (\E i \in DOMAIN ops : WrittenTo(i, r)) =>
              \E i \in DOMAIN ops : WrittenTo(i, r) /\ x.regs[r] = ops[i].work
         /\ \A r \in Regs : /\ \A i \in DOMAIN ops : ~WrittenTo(i, r)
                            /\ r \notin form.clobbered
                            /\ \A i \in DOMAIN ops : ops[i].write => ops[i].work # m.regs[r]
                            => x.regs[r] = m.regs[r]
         /\ \A w : w \in m.slots /\ (\A i \in DOMAIN ops : ops[i].write => ops[i].work # w) => w \in x.slots
         /\ \A i \in DOMAIN ops : ops[i].write /\ ops[i].mem /\ ~ops[i].out => ops[i].work \in x.slots
<1> DEFINE writing   == {i \in DOMAIN ops : ops[i].write}
           place(i)  == IF ops[i].out THEN ops[i].out_id ELSE ops[i].use_id
           inmem     == {i \in writing : ops[i].mem /\ ~ops[i].out}
           inreg(r)  == {i \in writing \ inmem : place(i) = r}
           written   == {ops[i].work : i \in writing}
           inslots   == {ops[i].work : i \in inmem}
           regs      == [r \in Regs |-> IF inreg(r) # {} THEN ops[Max(inreg(r))].work
                                        ELSE IF r \in form.clobbered \/ m.regs[r] \in written THEN None ELSE m.regs[r]]
           slots     == (m.slots \ written) \cup inslots
<1>1. x = [m EXCEPT !.regs = regs, !.slots = slots]
  BY DEF Executed
<1>2. /\ m \in Machines(Regs) /\ m.regs \in [Regs -> Works \cup {None}] /\ m.slots \subseteq Works
  BY SoundFacts
<1>3. /\ DOMAIN ops = DOMAIN form.ops /\ DOMAIN ops \subseteq Nat \ {0}
      /\ \A i \in DOMAIN ops : ops[i].work \in Works /\ ops[i].out \in BOOLEAN /\ ops[i].mem \in BOOLEAN
  BY OperandFacts
<1>4. \A r : \A i : i \in inreg(r) <=> i \in DOMAIN ops /\ WrittenTo(i, r)
  BY DEF WrittenTo
<1>5. ASSUME NEW r \in Regs, inreg(r) # {}
      PROVE  Max(inreg(r)) \in DOMAIN ops /\ WrittenTo(Max(inreg(r)), r)
  <2>1. PICK S : S = inreg(r)
    OBVIOUS
  <2>2. form.ops \in Seq(Kinds(Regs))
    BY FormFacts DEF InstructionInv
  <2>3. PICK k \in Nat : k = Len(form.ops)
    BY <2>2
  <2>4. DOMAIN ops = 1 .. k
    BY <1>3, <2>2, <2>3
  <2>5. S \in SUBSET Nat /\ S # {} /\ \A i \in S : i \in 1 .. k
    BY <1>3, <1>4, <1>5, <2>1, <2>4
  <2>6. \A i \in S : i <= k
    BY <2>5
  <2>7. Max(S) \in S
    BY <2>3, <2>5, <2>6, MaxOfNats
  <2> QED
    BY <1>4, <2>1, <2>7
<1>6. \A r \in Regs : regs[r] = IF inreg(r) # {} THEN ops[Max(inreg(r))].work
                                ELSE IF r \in form.clobbered \/ m.regs[r] \in written THEN None ELSE m.regs[r]
  OBVIOUS
<1>7. regs \in [Regs -> Works \cup {None}]
  <2>1. ASSUME NEW r \in Regs PROVE regs[r] \in Works \cup {None}
    <3> HIDE DEF inreg, written, regs
    <3> QED
      BY <1>2, <1>3, <1>5, <1>6
  <2>2. DOMAIN regs = Regs /\ regs = [r \in Regs |-> regs[r]]
    OBVIOUS
  <2> HIDE DEF regs
  <2> QED
    BY <2>1, <2>2
<1>8. slots \in SUBSET Works
  <2>1. inslots \subseteq Works
    BY <1>3
  <2> QED
    BY <1>2, <2>1
<1>9. /\ \A w : w \in m.slots /\ (\A i \in DOMAIN ops : ops[i].write => ops[i].work # w) => w \in slots
      /\ \A i \in DOMAIN ops : ops[i].write /\ ops[i].mem /\ ~ops[i].out => ops[i].work \in slots
  OBVIOUS
<1>10. \A r \in Regs : (\E i \in DOMAIN ops : WrittenTo(i, r)) =>
         \E i \in DOMAIN ops : WrittenTo(i, r) /\ regs[r] = ops[i].work
  <2>1. SUFFICES ASSUME NEW r \in Regs, NEW j \in DOMAIN ops, WrittenTo(j, r)
                 PROVE  \E i \in DOMAIN ops : WrittenTo(i, r) /\ regs[r] = ops[i].work
    OBVIOUS
  <2>2. inreg(r) # {}
    BY <1>4, <2>1
  <2> HIDE DEF inreg, regs
  <2> QED
    BY <1>5, <1>6, <2>1, <2>2
<1>11. \A r \in Regs : /\ \A i \in DOMAIN ops : ~WrittenTo(i, r)
                       /\ r \notin form.clobbered
                       /\ \A i \in DOMAIN ops : ops[i].write => ops[i].work # m.regs[r]
                       => regs[r] = m.regs[r]
  <2>1. SUFFICES ASSUME NEW r \in Regs, \A i \in DOMAIN ops : ~WrittenTo(i, r), r \notin form.clobbered,
                        \A i \in DOMAIN ops : ops[i].write => ops[i].work # m.regs[r]
                 PROVE  regs[r] = m.regs[r]
    OBVIOUS
  <2>2. inreg(r) = {}
    BY <1>4, <2>1
  <2>3. m.regs[r] \notin written
    BY <2>1
  <2> HIDE DEF inreg, regs, written
  <2> QED
    BY <1>6, <2>1, <2>2, <2>3
<1> HIDE DEF regs, slots
<1>12. /\ x \in Machines(Regs) /\ x.regs = regs /\ x.slots = slots
       /\ x.ok = m.ok /\ x.at = m.at /\ x.dirty = m.dirty
  BY <1>1, <1>2, <1>7, <1>8 DEF Machines
<1>13. Sound(x, Regs)
  BY <1>12 DEF Sound, Assigned
<1> QED
  BY <1>9, <1>10, <1>11, <1>12, <1>13

\* What was kept and what is written is where the assignment says.
LEMMA ExecutedKeeps ==
  ASSUME arch \in Archs, live \subseteq Works, Sound(m, Regs), ReadyInv,
         Kept(m, Spared), UpdatedInv, NEW x, x = Executed(m)
  PROVE  Kept(x, LiveAfter)
<1>0. None \notin Works /\ None \notin Regs
  BY NoneApart DEF Regs
<1>1. InstructionInv
  BY DEF ReadyInv
<1>2. /\ Sound(x, Regs) /\ x.at = m.at /\ x.dirty = m.dirty
      /\ \A r \in Regs : (\E i \in DOMAIN ops : WrittenTo(i, r)) =>
           \E i \in DOMAIN ops : WrittenTo(i, r) /\ x.regs[r] = ops[i].work
      /\ \A r \in Regs : /\ \A i \in DOMAIN ops : ~WrittenTo(i, r)
                         /\ r \notin form.clobbered
                         /\ \A i \in DOMAIN ops : ops[i].write => ops[i].work # m.regs[r]
                         => x.regs[r] = m.regs[r]
      /\ \A w : w \in m.slots /\ (\A i \in DOMAIN ops : ops[i].write => ops[i].work # w) => w \in x.slots
      /\ \A i \in DOMAIN ops : ops[i].write /\ ops[i].mem /\ ~ops[i].out => ops[i].work \in x.slots
  BY <1>1, ExecutedIs
<1>3. \A i \in DOMAIN ops :
        /\ ops[i].work \in Works /\ ops[i].out \in BOOLEAN /\ ops[i].mem \in BOOLEAN /\ ops[i].kill \in BOOLEAN
        /\ ops[i].use \/ ops[i].out
        /\ ops[i].out => ops[i].write
        /\ ops[i].use_id \in Regs \cup {None} /\ ops[i].out_id \in Regs \cup {None}
  BY <1>1, OperandFacts, OperandRules
<1>4. \A i \in DOMAIN ops : ops[i].out =>
        /\ ops[i].out_id \in Regs
        /\ ops[i].kill => m.at[ops[i].out_id] = None
        /\ ~ops[i].kill => m.at[ops[i].out_id] = ops[i].work /\ ops[i].out_id \in m.dirty
  BY DEF ReadyInv
<1>5. \A i \in DOMAIN ops : ops[i].write /\ ~ops[i].out /\ ~ops[i].mem =>
        /\ ops[i].use_id \in Regs
        /\ ops[i].kill => m.at[ops[i].use_id] = None
        /\ ~ops[i].kill => m.at[ops[i].use_id] = ops[i].work /\ ops[i].use_id \in m.dirty
  BY <1>3 DEF UpdatedInv, ReadyInv
<1>6. \A i \in DOMAIN ops : ops[i].mem /\ ~ops[i].out => \A r \in Regs : m.at[r] # ops[i].work
  BY AwayIs DEF ReadyInv
<1>7. \A i \in DOMAIN ops : ops[i].kill => ops[i].work \notin LiveAfter
  BY DEF LiveAfter, Range
<1>8. \A i \in DOMAIN ops : \A r \in Regs : WrittenTo(i, r) /\ m.at[r] # None => m.at[r] = ops[i].work /\ r \in m.dirty
  BY <1>3, <1>4, <1>5 DEF WrittenTo
<1>9. \A i \in DOMAIN ops : \A r \in Regs :
        ops[i].write /\ ops[i].work \in LiveAfter /\ m.at[r] = ops[i].work => WrittenTo(i, r)
  <2>1. SUFFICES ASSUME NEW i \in DOMAIN ops, NEW r \in Regs, ops[i].write, ops[i].work \in LiveAfter, m.at[r] = ops[i].work
                 PROVE  WrittenTo(i, r)
    OBVIOUS
  <2>2. ~ops[i].kill /\ ops[i].work # None
    BY <1>0, <1>3, <1>7, <2>1
  <2>3. \A p, q \in Regs : m.at[p] = m.at[q] => p = q \/ m.at[p] = None
    BY SoundFacts
  <2>4. CASE ops[i].out
    <3>1. r = ops[i].out_id
      BY <1>4, <2>1, <2>2, <2>3, <2>4
    <3> QED
      BY <2>1, <2>4, <3>1 DEF WrittenTo
  <2>5. CASE ~ops[i].out
    <3>1. ~ops[i].mem
      BY <1>6, <2>1, <2>5
    <3>2. r = ops[i].use_id
      BY <1>5, <2>1, <2>2, <2>3, <2>5, <3>1
    <3> QED
      BY <2>1, <2>5, <3>1, <3>2 DEF WrittenTo
  <2> QED
    BY <2>4, <2>5
<1>10. ASSUME NEW w \in LiveAfter, \A i \in DOMAIN ops : ops[i].write => ops[i].work # w
       PROVE  w \in Spared
  <2>1. w \in live
    BY <1>3, <1>10 DEF LiveAfter, Range
  <2>2. \A i \in DOMAIN ops : ops[i].out \/ ops[i].kill => ops[i].work # w
    BY <1>3, <1>7, <1>10
  <2> QED
    BY <2>1, <2>2 DEF Spared
<1>11. /\ \A r \in Regs : m.at[r] \in Spared => m.regs[r] = m.at[r] /\ (r \in m.dirty \/ m.at[r] \in m.slots)
       /\ \A w \in Spared : (\A r \in Regs : m.at[r] # w) => w \in m.slots
  BY KeptFacts
<1>12. LiveAfter \subseteq Works
  BY <1>3 DEF LiveAfter, Range
<1>13. ASSUME NEW r \in Regs, x.at[r] \in LiveAfter
       PROVE  x.regs[r] = x.at[r] /\ (r \in x.dirty \/ x.at[r] \in x.slots)
  <2>1. m.at[r] \in LiveAfter /\ m.at[r] # None
    BY <1>0, <1>2, <1>12, <1>13
  <2>2. CASE \E i \in DOMAIN ops : WrittenTo(i, r)
    <3>1. PICK i \in DOMAIN ops : WrittenTo(i, r) /\ x.regs[r] = ops[i].work
      BY <1>2, <2>2
    <3> QED
      BY <1>2, <1>8, <2>1, <3>1
  <2>3. CASE \A i \in DOMAIN ops : ~WrittenTo(i, r)
    <3>1. \A i \in DOMAIN ops : ops[i].write => ops[i].work # m.at[r]
      BY <1>9, <2>1, <2>3
    <3>2. m.at[r] \in Spared
      BY <1>10, <2>1, <3>1
    <3>3. m.regs[r] = m.at[r] /\ (r \in m.dirty \/ m.at[r] \in m.slots)
      BY <1>11, <3>2
    <3>4. r \notin form.clobbered
      <4>1. SUFFICES ASSUME r \in form.clobbered PROVE FALSE
        OBVIOUS
      <4>2. PICK i \in DOMAIN ops : ops[i].out /\ ops[i].out_id = r
        BY <2>1, <4>1 DEF ReadyInv
      <4>3. WrittenTo(i, r)
        BY <1>3, <4>2 DEF WrittenTo
      <4> QED
        BY <2>3, <4>3
    <3>5. x.regs[r] = m.regs[r]
      BY <1>2, <2>3, <3>1, <3>3, <3>4
    <3>6. m.at[r] \in m.slots => m.at[r] \in x.slots
      BY <1>2, <3>1
    <3> QED
      BY <1>2, <3>3, <3>5, <3>6
  <2> QED
    BY <2>2, <2>3
<1>14. ASSUME NEW w \in LiveAfter, \A r \in Regs : x.at[r] # w PROVE w \in x.slots
  <2>1. \A r \in Regs : m.at[r] # w
    BY <1>2, <1>14
  <2>2. CASE \E i \in DOMAIN ops : ops[i].write /\ ops[i].work = w
    <3>1. PICK i \in DOMAIN ops : ops[i].write /\ ops[i].work = w
      BY <2>2
    <3>2. ~ops[i].kill
      BY <1>7, <1>14, <3>1
    <3>3. ~ops[i].out
      BY <1>4, <2>1, <3>1, <3>2
    <3>4. ops[i].mem
      BY <1>5, <2>1, <3>1, <3>2, <3>3
    <3> QED
      BY <1>2, <3>1, <3>3, <3>4
  <2>3. CASE \A i \in DOMAIN ops : ops[i].write => ops[i].work # w
    <3>1. w \in Spared
      BY <1>10, <1>14, <2>3
    <3>2. w \in m.slots
      BY <1>11, <2>1, <3>1
    <3> QED
      BY <1>2, <2>3, <3>2
  <2> QED
    BY <2>2, <2>3
<1> QED
  BY <1>2, <1>13, <1>14, IsKept

(* What a jump table reached is what any of its targets is entered with, less what is not needed
   there. *)
LEMMA TargetEntered ==
  ASSUME arch \in Archs, live \subseteq Works, InstructionInv, Reached, LiveAfter \subseteq target.live_in,
         NEW t \in TargetEntries
  PROVE  /\ IsTarget(t, Regs) /\ t.live_in \subseteq LiveAfter /\ t.dirty \subseteq Assigned(t)
         /\ \A r \in Regs :
              /\ t.at[r] = IF m.at[r] \in t.live_in THEN m.at[r] ELSE None
              /\ r \in m.dirty /\ t.at[r] # None => r \in t.dirty
<1>1. None \notin Works /\ LiveAfter \subseteq Works
  BY NoneAssumption, LiveAfterIs
<1>2. PICK kept \in SUBSET LiveAfter :
        t \in LET at == [r \in Regs |-> IF target.at[r] \in kept THEN target.at[r] ELSE None]
                  rs == {r \in Regs : at[r] # None}
              IN  {[at |-> at, dirty |-> d, live_in |-> kept, read_only |-> FALSE] :
                     d \in {e \in SUBSET rs : sw.dirty \cap rs \subseteq e}}
  BY DEF TargetEntries
<1>3. PICK at : at = [r \in Regs |-> IF target.at[r] \in kept THEN target.at[r] ELSE None]
  OBVIOUS
<1>4. PICK d \in SUBSET Regs :
        /\ \A r \in d : at[r] # None
        /\ \A r \in Regs : r \in sw.dirty /\ at[r] # None => r \in d
        /\ t = [at |-> at, dirty |-> d, live_in |-> kept, read_only |-> FALSE]
  BY <1>2, <1>3
<1>5. /\ at \in [Regs -> Works \cup {None}] /\ DOMAIN at = Regs
      /\ \A r \in Regs : at[r] = IF target.at[r] \in kept THEN target.at[r] ELSE None
  BY <1>1, <1>3
<1>6. /\ \A r, q \in Regs : target.at[r] = target.at[q] => r = q \/ target.at[r] = None
      /\ \A r \in Regs : m.at[r] = IF target.at[r] \in target.live_in THEN target.at[r] ELSE None
      /\ \A r \in Regs : r \in m.dirty => r \in sw.dirty
  BY TargetFacts DEF Reached
<1>7. PICK ro \in BOOLEAN : ro = FALSE
  OBVIOUS
<1>8. t = [at |-> at, dirty |-> d, live_in |-> kept, read_only |-> ro] /\ kept \in SUBSET Works
  BY <1>1, <1>4, <1>7
<1>9. t \in Targets(Regs) /\ t.at = at /\ t.dirty = d /\ t.live_in = kept
  BY <1>5, <1>8 DEF Targets
<1>10. \A r, q \in Regs : at[r] = at[q] => r = q \/ at[r] = None
  BY <1>1, <1>5, <1>6
<1>11. IsTarget(t, Regs)
  BY <1>4, <1>5, <1>9, <1>10 DEF IsTarget, Injective, Assigned
<1>12. \A r \in Regs : at[r] = IF m.at[r] \in kept THEN m.at[r] ELSE None
  BY <1>1, <1>5, <1>6
<1> QED
  BY <1>4, <1>6, <1>9, <1>11, <1>12 DEF IsTarget

(* Running the instruction keeps the invariants: what it reads was brought, what it writes was
   assigned. *)
LEMMA ExecuteStep ==
  ASSUME IInv, Execute
  PROVE  IInv' /\ (ValueInv => ValueInv') /\ (ReadInv => ReadInv')
<1>1. /\ arch \in Archs /\ live \subseteq Works /\ next \in Nat /\ Sound(m, Regs) /\ Fine(m) /\ pc = "execute"
      /\ None \notin Works /\ None \notin Regs
      /\ Indirect => InstructionInv /\ (target # None => Reached)
      /\ ~Indirect => ReadyInv
  BY NoneApart DEF IInv, PhaseInv, Execute, Regs
<1>2. InstructionInv
  BY <1>1 DEF ReadyInv
<1>3. PICK x : x = Executed(m)
  OBVIOUS
<1>4. Sound(x, Regs) /\ x.ok = m.ok /\ Fine(x) /\ x.at = m.at
  BY <1>1, <1>2, <1>3, ExecutedIs, FineStays
<1>5. Indirect => x = m
  BY <1>1, <1>2, <1>3, ExecutedJump
<1>6. PICK alive : alive = LiveAfter
  OBVIOUS
<1>7. alive \subseteq Works
  BY <1>1, <1>2, <1>6, OperandFacts DEF LiveAfter, Range
<1>8. ASSUME ValueInv PROVE Kept(x, alive)
  <2>1. CASE Indirect
    BY <1>1, <1>5, <1>6, <1>8, <2>1 DEF ValueInv
  <2>2. CASE ~Indirect
    <3>1. Kept(m, Spared) /\ UpdatedInv
      BY <1>1, <1>8, <2>2 DEF ValueInv
    <3> QED
      BY <1>1, <1>3, <1>6, <2>2, <3>1, ExecutedKeeps
  <2> QED
    BY <2>1, <2>2
<1>9. ASSUME ReadInv PROVE ~misread'
  <2>1. ~misread /\ \A i \in DOMAIN ops : InPlace(ops[i])
    BY <1>1, <1>9 DEF ReadInv
  <2>2. \A i \in DOMAIN ops : IsRead(i, m)
    BY <1>2, <2>1 DEF IsRead, InPlace, InstructionInv, OperandOf
  <2>3. misread' = (misread \/ \E i \in DOMAIN ops : ~IsRead(i, m))
    BY DEF Execute
  <2> QED
    BY <2>1, <2>2, <2>3
<1>10. \/ form.flow = "next" /\ \E rs \in SUBSET Lasting : Idle(SpillAll(x, rs), alive)
       \/ form.flow \in {"call", "branch"} /\ Idle(x, alive)
       \/ /\ form.flow = "branch" /\ target # None /\ Switch(x, target, FALSE) /\ live' = alive
          /\ UNCHANGED <<arch, form, ops, masks, next>>
       \/ Indirect /\ target = None /\ Idle(x, alive)
       \/ /\ Indirect /\ target # None
          /\ \/ form.flow \notin Tables /\ UNCHANGED <<target, sw>>
             \/ form.flow # "single" /\ \E t \in TargetEntries : target' = t /\ sw' = [sw EXCEPT !.dirty = t.dirty]
          /\ m' = x /\ live' = alive /\ pc' = "arrived"
          /\ UNCHANGED <<arch, form, ops, masks, next>>
  BY <1>3, <1>6 DEF Execute, Tables
<1>11. CASE form.flow = "next" /\ \E rs \in SUBSET Lasting : Idle(SpillAll(x, rs), alive)
  <2>1. PICK rs \in SUBSET Lasting : Idle(SpillAll(x, rs), alive)
    BY <1>11
  <2>2. PICK y : y = SpillAll(x, rs)
    OBVIOUS
  <2>3. \A r \in rs : r \in Regs /\ \E i \in DOMAIN ops : m.at[r] = ops[i].work
    <3>1. SUFFICES ASSUME NEW r \in rs PROVE r \in Regs /\ \E i \in DOMAIN ops : m.at[r] = ops[i].work
      OBVIOUS
    <3>2. PICK i \in DOMAIN ops : r = RegOf(m, ops[i].work) /\ r # None
      BY <2>1 DEF Lasting, Range
    <3> QED
      BY <1>1, <1>2, <3>2, OperandRegs
  <2>4. rs \subseteq Assigned(x)
    BY <1>1, <1>2, <1>4, <2>3, OperandFacts, SoundFacts
  <2>5. Sound(x, Regs) /\ None \notin Works /\ None \notin alive
    BY <1>1, <1>4, <1>7
  <2>6. Sound(y, Regs) /\ y.ok = x.ok
    BY <2>2, <2>4, <2>5, SpillAllIs
  <2>7. Kept(x, alive) => Kept(y, alive)
    BY <2>2, <2>4, <2>5, SpillKeeps
  <2>8. arch \in Archs /\ Fine(y) /\ Idle(y, alive)
    BY <1>1, <1>4, <2>1, <2>2, <2>6, FineStays
  <2>9. IInv' /\ (Kept(y, alive) => ValueInv') /\ (~misread' => ReadInv')
    BY <1>7, <2>6, <2>8, IdleStep
  <2> QED
    BY <1>8, <1>9, <2>7, <2>9
<1>12. CASE form.flow \in {"call", "branch"} /\ Idle(x, alive)
  <2>1. IInv' /\ (Kept(x, alive) => ValueInv') /\ (~misread' => ReadInv')
    BY <1>1, <1>4, <1>7, <1>12, IdleStep
  <2> QED
    BY <1>8, <1>9, <2>1
<1>13. CASE /\ form.flow = "branch" /\ target # None /\ Switch(x, target, FALSE) /\ live' = alive
            /\ UNCHANGED <<arch, form, ops, masks, next>>
  <2>1. PICK t : t = target
    OBVIOUS
  <2>2. PICK try \in BOOLEAN : try = FALSE
    OBVIOUS
  <2>3. IsTarget(t, Regs) /\ t.live_in \in SUBSET Works /\ t.live_in \subseteq alive /\ AllLive(t)
    BY <1>2, <1>6, <1>13, <2>1, TargetFacts DEF InstructionInv, Tables
  <2>4. /\ arch \in Archs /\ arch' = arch /\ Sound(x, Regs) /\ Switch(x, t, try)
        /\ (form'.flow # "shared" => AllLive(t))
    BY <1>1, <1>4, <1>13, <2>1, <2>2, <2>3
  <2>5. /\ pc' = "switch" /\ target' = t /\ SwitchInv' /\ Sound(m', Regs) /\ m'.ok = x.ok /\ (sw'.try <=> try)
    BY <2>3, <2>4, SwitchStart
  <2>6. ~try => \A W \in SUBSET Works : W \subseteq t.live_in /\ Kept(x, W) => Kept(m', W)
    BY <2>3, <2>4, SwitchStart
  <2>7. ~Indirect /\ ~Indirect'
    BY <1>13 DEF Indirect, Tables
  <2>8. IInv'
    <3>1. Fine(m')
      BY <1>4, <2>5, FineStays
    <3> QED
      BY <1>1, <1>7, <1>13, <2>2, <2>5, <2>7, <3>1 DEF IInv, PhaseInv, Regs
  <2>9. ASSUME ValueInv PROVE ValueInv'
    <3>1. Kept(x, t.live_in)
      BY <1>8, <2>3, <2>9, KeptLess
    <3>2. Kept(m', t.live_in)
      BY <2>2, <2>3, <2>6, <3>1
    <3> QED
      BY <2>2, <2>5, <2>7, <3>2 DEF ValueInv, Needed
  <2>10. ReadInv => ReadInv'
    BY <1>9, <2>5, <2>7 DEF ReadInv
  <2> QED
    BY <2>8, <2>9, <2>10
<1>14. CASE Indirect /\ target = None /\ Idle(x, alive)
  <2>1. IInv' /\ (Kept(x, alive) => ValueInv') /\ (~misread' => ReadInv')
    BY <1>1, <1>4, <1>7, <1>14, IdleStep
  <2> QED
    BY <1>8, <1>9, <1>14, <2>1
<1>15. CASE /\ Indirect /\ target # None
            /\ \/ form.flow \notin Tables /\ UNCHANGED <<target, sw>>
               \/ form.flow # "single" /\ \E t \in TargetEntries : target' = t /\ sw' = [sw EXCEPT !.dirty = t.dirty]
            /\ m' = x /\ live' = alive /\ pc' = "arrived"
            /\ UNCHANGED <<arch, form, ops, masks, next>>
  <2>1. m' = m /\ Reached
    BY <1>1, <1>5, <1>15
  <2>2. /\ IsTarget(target, Regs) /\ LiveAfter \subseteq target.live_in
        /\ form.flow \notin Tables => target.live_in \subseteq LiveAfter /\ AllLive(target)
    BY <1>2, <1>15 DEF InstructionInv, Tables
  <2>3. Entered' /\ target'.live_in \subseteq alive
    <3>1. CASE form.flow \notin Tables /\ UNCHANGED <<target, sw>>
      <4>1. \A r \in Regs : target.at[r] \in target.live_in \cup {None} /\ None \notin target.live_in
        BY <1>1, <2>2, <3>1, TargetFacts DEF AllLive
      <4>2. Entered
        BY <2>1, <4>1 DEF Reached, Entered
      <4>3. Entered'
        BY <1>15, <2>1, <3>1, <4>2 DEF Entered, Regs
      <4> QED
        BY <1>6, <2>2, <3>1, <4>3
    <3>2. CASE \E t \in TargetEntries : target' = t /\ sw' = [sw EXCEPT !.dirty = t.dirty]
      <4>1. PICK t \in TargetEntries : target' = t /\ sw' = [sw EXCEPT !.dirty = t.dirty]
        BY <3>2
      <4>2. /\ IsTarget(t, Regs) /\ t.live_in \subseteq LiveAfter /\ t.dirty \subseteq Assigned(t)
            /\ \A r \in Regs :
                 /\ t.at[r] = IF m.at[r] \in t.live_in THEN m.at[r] ELSE None
                 /\ r \in m.dirty /\ t.at[r] # None => r \in t.dirty
        BY <1>1, <1>2, <2>1, <2>2, TargetEntered
      <4>3. sw'.dirty = t.dirty
        BY <2>1, <4>1 DEF Reached, Switches
      <4>4. Entered'
        BY <1>15, <2>1, <4>1, <4>2, <4>3 DEF Entered, Regs
      <4> QED
        BY <1>6, <4>1, <4>2, <4>4
    <3> QED
      BY <1>15, <3>1, <3>2
  <2>4. IInv'
    BY <1>1, <1>7, <1>15, <2>1, <2>3 DEF IInv, PhaseInv, Fine, Regs
  <2>5. ASSUME ValueInv PROVE ValueInv'
    <3>1. Kept(m', alive)
      BY <1>8, <1>15, <2>5
    <3>2. Kept(m', target'.live_in)
      BY <2>3, <3>1, KeptLess
    <3> QED
      BY <1>15, <3>2 DEF ValueInv
  <2>6. ReadInv => ReadInv'
    BY <1>9, <1>15 DEF ReadInv
  <2> QED
    BY <2>4, <2>5, <2>6
<1> QED
  BY <1>10, <1>11, <1>12, <1>13, <1>14, <1>15

-------------------------------------------------------------------------------
(* The invariant *)

(* The invariants hold at first. *)
LEMMA InitEstablishes ==
  ASSUME Init
  PROVE  IInv /\ ValueInv /\ ReadInv
<1>1. /\ arch \in Archs /\ live \in SUBSET Works
      /\ pc = "idle" /\ form = NoForm /\ ops = << >> /\ next = 1 /\ target = None /\ misread = FALSE
  BY DEF Init
<1>2. PICK at \in [Regs -> live \cup {None}] :
        /\ \A r, q \in Regs : at[r] = at[q] => r = q \/ at[r] = None
        /\ m = [at |-> at, dirty |-> {r \in Regs : at[r] # None}, regs |-> at,
                slots |-> live \ Range(at), ok |-> TRUE]
  BY DEF Init
<1>3. /\ m.at = at /\ m.dirty = {r \in Regs : at[r] # None} /\ m.regs = at /\ m.slots = live \ Range(at)
      /\ m.ok = TRUE
  BY <1>2
<1>4. at \in [Regs -> Works \cup {None}] /\ DOMAIN at = Regs
  BY <1>1, <1>2
<1>5. m \in Machines(Regs)
  <2>1. PICK d \in SUBSET Regs : d = {r \in Regs : at[r] # None}
    OBVIOUS
  <2>2. PICK s \in SUBSET Works : s = live \ Range(at)
    BY <1>1
  <2>3. PICK ok \in BOOLEAN : ok = TRUE
    OBVIOUS
  <2>4. m = [at |-> at, dirty |-> d, regs |-> at, slots |-> s, ok |-> ok]
    BY <1>2, <2>1, <2>2, <2>3
  <2> QED
    BY <1>4, <2>4 DEF Machines
<1>6. Sound(m, Regs)
  <2>1. \A r \in m.dirty : m.at[r] # None
    BY <1>3
  <2>2. \A r, q \in Regs : m.at[r] = m.at[q] => r = q \/ m.at[r] = None
    BY <1>2, <1>3
  <2> QED
    BY <1>5, <2>1, <2>2, IsSound
<1>7. IInv
  BY <1>1, <1>3, <1>6 DEF IInv, PhaseInv, Fine
<1>8. Kept(m, live)
  <2>1. None \notin live
    BY <1>1, NoneAssumption
  <2>2. \A r \in Regs : m.at[r] \in live => m.regs[r] = m.at[r] /\ (r \in m.dirty \/ m.at[r] \in m.slots)
    BY <1>3, <2>1
  <2>3. \A w \in live : (\A r \in Regs : m.at[r] # w) => w \in m.slots
    BY <1>3, <1>4 DEF Range
  <2> QED
    BY <1>6, <2>2, <2>3, IsKept
<1> QED
  BY <1>1, <1>7, <1>8 DEF ValueInv, ReadInv

\* Every step keeps the invariant of the assignments; that of the values if
\* updates are apart, and that of the operands with it if jumps exchange.
LEMMA StepKeeps ==
  ASSUME IInv, [Next]_vars
  PROVE  /\ IInv'
         /\ UpdatesApart /\ ValueInv => ValueInv'
         /\ JumpsExchange /\ ValueInv /\ ReadInv => ReadInv'
<1>1. CASE Begin
  BY <1>1, BeginStep
<1>2. CASE Continue
  BY <1>2, ContinueStep
<1>3. CASE NextBlock
  BY <1>3, NextBlockStep
<1>4. CASE Arrive
  BY <1>4, ArriveStep
<1>5. CASE SwitchRound
  BY <1>5, SwitchRoundStep
<1>6. CASE SwitchDone
  BY <1>6, SwitchDoneStep
<1>7. CASE Fit
  BY <1>7, FitStep
<1>8. CASE Decide
  BY <1>8, DecideStep
<1>9. CASE DecideDone
  BY <1>9, DecideDoneStep
<1>10. CASE FreeStep
  BY <1>10, FreeStepStep
<1>11. CASE FreeDone
  BY <1>11, FreeDoneStep
<1>12. CASE AllocStep
  BY <1>12, AllocStepStep
<1>13. CASE Evict
  BY <1>13, EvictStep
<1>14. CASE OutStep
  BY <1>14, OutStepStep
<1>15. CASE OutDone
  BY <1>15, OutDoneStep
<1>16. CASE Execute
  BY <1>16, ExecuteStep
<1>17. CASE UNCHANGED vars
  <2>1. UNCHANGED <<arch, m, live, pc, form, ops, masks, next, target, sw, misread>>
    BY <1>17 DEF vars
  <2>2. InstructionInv' = InstructionInv /\ Indirect' = Indirect /\ LiveAfter' = LiveAfter /\ Spared' = Spared
        /\ Needed' = Needed
    BY <2>1 DEF InstructionInv, Indirect, LiveAfter, Spared, Needed, Regs
  <2>3. FreshInv' = FreshInv /\ PlacingInv' = PlacingInv /\ WantedInv' = WantedInv
    BY <2>1, <2>2 DEF FreshInv, PlacingInv, WantedInv, Regs
  <2>4. TakenInv' = TakenInv
    BY <2>1 DEF TakenInv, Choosing, FreeFor, OwnFixed, Regs
  <2>5. DecideInv' = DecideInv /\ FreeInv' = FreeInv /\ AllocInv' = AllocInv
    BY <2>1, <2>3, <2>4 DEF DecideInv, FreeInv, AllocInv, Regs
  <2>6. OutInv' = OutInv /\ ReadyInv' = ReadyInv /\ SwitchInv' = SwitchInv /\ Reached' = Reached /\ Entered' = Entered
    BY <2>1, <2>2 DEF OutInv, ReadyInv, SwitchInv, Reached, Entered, Regs
  <2>7. PhaseInv' = PhaseInv
    BY <2>1, <2>2, <2>3, <2>5, <2>6 DEF PhaseInv
  <2>8. IInv'
    BY <2>1, <2>7 DEF IInv, Fine, Regs
  <2>9. ValueInv => ValueInv'
    BY <2>1, <2>2 DEF ValueInv, UpdatedInv
  <2>10. ReadInv => ReadInv'
    BY <2>1, <2>2 DEF ReadInv, InPlace
  <2> QED
    BY <2>8, <2>9, <2>10
<1> QED
  BY <1>1, <1>2, <1>3, <1>4, <1>5, <1>6, <1>7, <1>8, <1>9, <1>10, <1>11, <1>12, <1>13, <1>14, <1>15, <1>16, <1>17
     DEF Next

-------------------------------------------------------------------------------
(* Theorems *)

\* The assignment and its inverse agree, and every phase of the allocator finds
\* its operands as the phase before left them, for every architecture, program
\* and set of virtual registers.
THEOREM InductiveInvariant == Spec => []IInv
<1>1. Init => IInv
  BY InitEstablishes
<1>2. IInv /\ [Next]_vars => IInv'
  BY StepKeeps
<1> QED
  BY <1>1, <1>2, PTL DEF Spec

\* No assertion of RAAssignment fails, nor one of the local allocator that the model
\* has: a switch ends with the assignment it was to reach, each operand and each
\* output has a register to choose, and neither alloc_instruction() nor a switch
\* that has to succeed gives up.  It takes that instructions can find their
\* registers (FindsRegisters, in ArchAssumption), and that jump tables are not led
\* to an assignment that a branch to one of their targets, or falling into it, made
\* first: the one they share may then keep what no target needs, and the switch
\* ends elsewhere.
THEOREM AssertionsNeverFail ==
  ASSUME TablesApart
  PROVE  Spec => []AssertionsHold
<1>1. IInv => AssertionsHold
  BY DEF IInv, PhaseInv, Fine, AssertionsHold
<1> QED
  BY <1>1, InductiveInvariant, PTL

\* Every round of switch_to_assignment() settles a register of the target, or
\* changes nothing and is one nearer to the end.
THEOREM SwitchRoundsSettle == Spec => RoundsSettle
<1>1. ASSUME IInv, [Next]_vars, pc = "switch", sw.affected # {}, pc' = "switch"
      PROVE  \/ sw'.affected \subseteq sw.affected /\ sw'.affected # sw.affected
             \/ m' = m /\ sw'.run > sw.run
             \/ UNCHANGED vars
  <2>1. SwitchRound \/ UNCHANGED vars
    BY <1>1 DEF Next, Begin, Continue, NextBlock, Arrive, SwitchDone, Fit, Decide, DecideDone, FreeStep,
                FreeDone, AllocStep, Evict, OutStep, OutDone, Execute
  <2>2. CASE SwitchRound
    <3>1. arch \in Archs /\ SwitchInv /\ Sound(m, Regs)
      BY <1>1 DEF IInv, PhaseInv
    <3> QED
      BY <2>2, <3>1, SwitchRoundIs
  <2> QED
    BY <2>1, <2>2
<1>2. IInv /\ [Next]_vars =>
        [pc = "switch" /\ sw.affected # {} /\ pc' = "switch" =>
           \/ sw'.affected \subseteq sw.affected /\ sw'.affected # sw.affected
           \/ m' = m /\ sw'.run > sw.run]_vars
  BY <1>1
<1> QED
  BY <1>2, InductiveInvariant, PTL DEF Spec, RoundsSettle

\* The values that are still needed are where the assignment says, between
\* instructions and inside them.
LEMMA ValuesInvariant ==
  ASSUME UpdatesApart
  PROVE  Spec => []ValueInv
<1>1. Init => ValueInv
  BY InitEstablishes
<1>2. IInv /\ ValueInv /\ [Next]_vars => ValueInv'
  BY StepKeeps
<1> QED
  BY <1>1, <1>2, InductiveInvariant, PTL DEF Spec

\* No value is lost by a load, move, spill, swap, clobber or kill.  It takes that
\* no instruction that has an output, or clobbers a register, updates another
\* operand in place unless all their registers are fixed apart.
THEOREM ValuesAreKept ==
  ASSUME UpdatesApart
  PROVE  Spec => []ValuesKept
<1>1. ASSUME IInv, ValueInv PROVE ValuesKept
  <2>1. SUFFICES ASSUME pc = "idle", NEW w \in live
                 PROVE  /\ RegOf(m, w) # None => m.regs[RegOf(m, w)] = w
                        /\ RegOf(m, w) = None \/ RegOf(m, w) \notin m.dirty => w \in m.slots
    BY DEF ValuesKept
  <2>2. /\ Sound(m, Regs) /\ None \notin Works /\ None \notin Regs /\ w \in Works /\ Kept(m, live)
    BY <1>1, <2>1, NoneApart DEF IInv, ValueInv, Regs
  <2>3. /\ RegOf(m, w) # None => RegOf(m, w) \in Regs /\ m.at[RegOf(m, w)] = w
        /\ RegOf(m, w) = None <=> Away(m, w)
    BY <2>2, RegOfIs
  <2>4. /\ \A r \in Regs : m.at[r] \in live => m.regs[r] = m.at[r] /\ (r \in m.dirty \/ m.at[r] \in m.slots)
        /\ \A v \in live : Away(m, v) => v \in m.slots
    BY <2>2, KeptFacts DEF Kept
  <2> QED
    BY <2>1, <2>3, <2>4
<1>2. IInv /\ ValueInv => ValuesKept
  BY <1>1
<1> QED
  BY <1>2, InductiveInvariant, ValuesInvariant, PTL

\* A block is entered with what its entry assignment promises, whatever jump or
\* fall-through it is entered by.
THEOREM EntriesAreKept ==
  ASSUME UpdatesApart
  PROVE  Spec => []EntryKept
<1>1. ASSUME IInv, ValueInv PROVE EntryKept
  <2>1. SUFFICES ASSUME pc = "arrived", NEW w \in target.live_in
                 PROVE  IF w \in Range(target.at)
                        THEN \E r \in Regs : /\ target.at[r] = w /\ m.regs[r] = w
                                             /\ r \notin sw.dirty => w \in m.slots
                        ELSE w \in m.slots
    BY DEF EntryKept
  <2>2. /\ Sound(m, Regs) /\ Kept(m, target.live_in) /\ IsTarget(target, Regs) /\ Entered
        /\ None \notin Works /\ target.live_in \subseteq Works
    BY <1>1, <2>1, NoneAssumption, TargetFacts DEF IInv, PhaseInv, ValueInv, Entered
  <2>3. /\ \A r \in Regs : m.at[r] \in target.live_in => m.regs[r] = m.at[r] /\ (r \in m.dirty \/ m.at[r] \in m.slots)
        /\ \A v \in target.live_in : (\A r \in Regs : m.at[r] # v) => v \in m.slots
    BY <2>2, KeptFacts
  <2>4. DOMAIN target.at = Regs
    BY <2>2, TargetFacts
  <2>5. CASE w \in Range(target.at)
    <3>1. PICK r \in Regs : target.at[r] = w
      BY <2>4, <2>5 DEF Range
    <3>2. m.at[r] = w /\ w # None
      BY <2>1, <2>2, <3>1 DEF Entered
    <3>3. r \notin sw.dirty => r \notin m.dirty
      BY <2>2, <3>1, <3>2 DEF Entered
    <3> QED
      BY <2>1, <2>3, <2>5, <3>1, <3>2, <3>3
  <2>6. CASE w \notin Range(target.at)
    <3>1. \A r \in Regs : m.at[r] # w
      BY <2>1, <2>2, <2>4, <2>6 DEF Entered, Range
    <3> QED
      BY <2>1, <2>3, <2>6, <3>1
  <2> QED
    BY <2>5, <2>6
<1>2. IInv /\ ValueInv => EntryKept
  BY <1>1
<1> QED
  BY <1>2, InductiveInvariant, ValuesInvariant, PTL

\* Every instruction finds the operands it reads, if updates are apart, and if
\* jumps through a register have several targets and an exchange instruction.  It
\* holds for shared assignments of either origin.
THEOREM OperandsAreRead ==
  ASSUME UpdatesApart, JumpsExchange
  PROVE  Spec => []OperandsRead
<1>1. Init => ReadInv
  BY InitEstablishes
<1>2. IInv /\ ValueInv /\ ReadInv /\ [Next]_vars => ReadInv'
  BY StepKeeps
<1>3. ReadInv => OperandsRead
  BY DEF ReadInv, OperandsRead
<1> QED
  BY <1>1, <1>2, <1>3, InductiveInvariant, ValuesInvariant, PTL DEF Spec

===============================================================================
