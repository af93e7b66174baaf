-------------------------------- MODULE RALocal --------------------------------
(***************************************************************************)
(* The local register allocator of the Compiler: RALocalAllocator          *)
(* (core/ralocal.cpp, ralocal_p.h), the map it keeps, RAAssignment         *)
(* (raassignment_p.h), and the walk over the blocks that calls it,         *)
(* BaseRAPass::run_local_allocator() (rapass.cpp); one register group.     *)
(*                                                                         *)
(* The model runs the code as it is emitted: next to the assignment, which *)
(* is what the allocator believes, m.regs and m.slots say which virtual    *)
(* registers' current values are in the physical registers and in the home *)
(* slots.  The program being compiled is not fixed: every instruction of   *)
(* arch.forms may come next, on every choice of virtual registers, and     *)
(* every block entry that an earlier jump may have left may be its target. *)
(*                                                                         *)
(* An operator named Wrong... is the definition after it with a mistake in *)
(* it, for PROJECT.json's mutants.                                         *)
(***************************************************************************)
EXTENDS Integers, Sequences, FiniteSetsExt, Functions

CONSTANTS
  Works,   \* RAWorkReg: the virtual registers
  None,
  Archs    \* architectures and what may be compiled, see ArchAssumption

ASSUME NoneAssumption == None \notin Works /\ None \notin Nat

\* An operand: what is done with it, the registers it may be in or must be in,
\* further registers an argument is copied to, whether it may be in memory.
Kinds(regs) ==
  [use : BOOLEAN, write : BOOLEAN, out : BOOLEAN, rm : BOOLEAN,
   use_id : regs \cup {None}, out_id : regs \cup {None}, dup : SUBSET regs, mask : SUBSET regs]

\* Where the next instruction is.  The targets of a jump table share one entry
\* assignment: "table" is a jump table whose assignment jump tables made,
\* "shared" one whose assignment a branch to a target, or falling into it, made
\* first.  "single" jumps through a register to the one target there is.
Tables == {"table", "shared"}
Flows  == {"next", "call", "branch", "single"} \cup Tables

\* What no other operand may have: the registers of the operands that are in
\* fixed ones, and of a call's arguments and result.
Taken(ops, flow) ==
  ({ops[i].use_id : i \in DOMAIN ops} \ {None}) \cup (UNION {ops[i].dup : i \in DOMAIN ops})
    \cup (IF flow = "call" THEN {ops[i].out_id : i \in DOMAIN ops} ELSE {})

\* Each operand finds a register: whatever registers the others get (got) and
\* whatever unsuitable ones they leave (left), one of its own remains.
FindsRegisters(f, regs) ==
  LET free(i)  == f.ops[i].mask \ Taken(f.ops, f.flow)
      used     == {i \in DOMAIN f.ops : f.ops[i].use /\ f.ops[i].use_id = None}
      outs     == {i \in DOMAIN f.ops : f.ops[i].out /\ f.ops[i].out_id = None}
  IN  /\ \A i \in used : \A got \in [used \ {i} -> regs], left \in [used \ {i} -> regs \cup {None}] :
           (\A j \in used \ {i} : left[j] \notin free(j)) => ~(free(i) \subseteq Range(got) \cup Range(left))
      /\ \A i \in outs : \A got \in [outs \ {i} -> regs] : ~(f.ops[i].mask \subseteq Range(got))

\* An instruction as RAInstBuilder makes it; scratch: entry_scratch_gp_regs of
\* what it may jump to.  Operands that have to be in a register have one of their
\* own; an output's is clobbered; either all outputs have theirs fixed or none
\* has, and there are registers for all (facts about the instruction tables); a
\* branch has no outputs, a jump through a register only reads fixed registers.
Instruction(f, regs) ==
  LET kinds == DOMAIN f.ops
  IN  /\ f \in [ops : Seq(Kinds(regs)), clobbered : SUBSET regs, flow : Flows, scratch : SUBSET regs]
      /\ \A i \in kinds :
           LET op == f.ops[i]
           IN  /\ op.use \/ op.out
               /\ op.out => op.write
               /\ op.rm => op.use
               /\ op.use_id # None => op.use
               /\ op.out_id # None => op.out /\ op.out_id \in f.clobbered
               /\ op.dup # {} => op.use_id # None /\ op.dup \subseteq f.clobbered
      /\ \A i, j \in kinds : i # j =>
           /\ f.ops[i].use_id # None => f.ops[i].use_id \notin {f.ops[j].use_id} \cup f.ops[j].dup
           /\ f.ops[i].dup \cap f.ops[j].dup = {}
           /\ f.ops[i].out_id # None /\ f.ops[j].out => f.ops[j].out_id \notin {None, f.ops[i].out_id}
      /\ FindsRegisters(f, regs)
      /\ f.flow \in Tables \cup {"single"} =>
           f.clobbered = {} /\ \A i \in kinds : ~f.ops[i].write /\ f.ops[i].use_id # None
      /\ f.flow \in Tables => {f.ops[i].use_id : i \in kinds} \subseteq f.scratch
      /\ f.flow = "branch" => \A i \in kinds : ~f.ops[i].out
      /\ f.flow \notin Tables \cup {"branch"} => f.scratch = {}

\* regs: allocable registers; has_swap: has_inst_reg_swap(); forms: instructions.
ArchAssumption ==
  \A a \in Archs :
    /\ IsFiniteSet(a.regs) /\ a.regs \subseteq Nat /\ a.regs # {}
    /\ a.has_swap \in BOOLEAN
    /\ \A f \in a.forms : Instruction(f, a.regs)

ASSUME ArchAssumption

VARIABLES
  arch,
  m,        \* RAAssignment and what it is about, see Machine
  live,     \* virtual registers whose value is still needed
  pc,       \* what the allocator does next
  form,     \* the instruction
  ops,      \* its RATiedRegs
  masks,    \* will_use, will_free, will_out, live_regs, out_regs of alloc_instruction
  next,     \* the operand its loops have come to
  target,   \* entry assignment to switch to
  sw,       \* locals of switch_to_assignment()
  misread   \* an operand was not where the instruction reads it (ghost)

vars == <<arch, m, live, pc, form, ops, masks, next, target, sw, misread>>

Regs == arch.regs
Indirect == form.flow \in Tables \cup {"single"}

NoForm == [ops |-> << >>, clobbered |-> {}, flow |-> "next", scratch |-> {}]
NoMasks == [use |-> {}, free |-> {}, out |-> {}, live |-> {}, room |-> {}, outs |-> {}]
NoSwitch == [try |-> FALSE, dirty |-> {}, affected |-> {}, will_load |-> {}, run |-> -1]

-------------------------------------------------------------------------------
(* RAAssignment, and the code that is emitted with its changes.  A machine is *)
(* [at, dirty: the assignment; regs, slots: where the values are; ok: whether *)
(* every assertion held].                                                     *)

Assigned(x) == {r \in DOMAIN x.at : x.at[r] # None}

RegOf(x, w) == IF \E r \in Assigned(x) : x.at[r] = w
               THEN CHOOSE r \in Assigned(x) : x.at[r] = w ELSE None

Assign(x, w, r, is_dirty) ==
  [x EXCEPT !.ok = @ /\ RegOf(x, w) = None /\ x.at[r] = None /\ r \notin x.dirty,
            !.at[r] = w, !.dirty = IF is_dirty THEN @ \cup {r} ELSE @]

UnassignAll(x, rs) ==
  [x EXCEPT !.ok = @ /\ rs \subseteq Assigned(x),
            !.at = [r \in DOMAIN x.at |-> IF r \in rs THEN None ELSE x.at[r]],
            !.dirty = @ \ rs]

Unassign(x, r) == UnassignAll(x, {r})

MakeDirty(x, rs) == [x EXCEPT !.dirty = @ \cup rs]

OnLoad(x, w, r) ==
  [Assign(x, w, r, FALSE) EXCEPT !.regs[r] = IF w \in x.slots THEN w ELSE None]

\* A slot is up to date if the register was.
SaveAll(x, rs) ==
  [x EXCEPT !.dirty = @ \ rs,
            !.slots = (@ \ {x.at[r] : r \in rs}) \cup {x.at[r] : r \in {q \in rs : x.regs[q] = x.at[q]}}]

OnSave(x, r) == SaveAll(x, {r})

SpillAll(x, rs) == UnassignAll(SaveAll(x, rs \cap x.dirty), rs)
OnSpill(x, r)   == SpillAll(x, {r})

\* The dirty flag stays behind.
WrongOnMove(x, w, dst, src) ==
  IF dst = src THEN x
  ELSE [x EXCEPT !.ok = @ /\ x.at[src] = w /\ x.at[dst] = None,
                 !.at = [@ EXCEPT ![src] = None, ![dst] = w], !.dirty = @ \ {src},
                 !.regs[dst] = x.regs[src]]

OnMove(x, w, dst, src) ==
  IF dst = src THEN x
  ELSE [x EXCEPT !.ok = @ /\ x.at[src] = w /\ x.at[dst] = None,
                 !.at = [@ EXCEPT ![src] = None, ![dst] = w],
                 !.dirty = IF src \in @ THEN (@ \ {src}) \cup {dst} ELSE @,
                 !.regs[dst] = x.regs[src]]

OnSwap(x, a, b) ==
  [x EXCEPT !.ok = @ /\ a # b /\ {a, b} \subseteq Assigned(x),
            !.at = [@ EXCEPT ![a] = x.at[b], ![b] = x.at[a]],
            !.dirty = (@ \ {a, b}) \cup (IF a \in @ THEN {b} ELSE {})
                                   \cup (IF b \in @ THEN {a} ELSE {}),
            !.regs = [@ EXCEPT ![a] = x.regs[b], ![b] = x.regs[a]]]

\* Between instructions only what the assignment promises counts.
Promised(x, alive) ==
  [x EXCEPT !.regs = [r \in DOMAIN @ |-> IF x.at[r] = None THEN None ELSE @[r]],
            !.slots = {w \in @ \cap alive : RegOf(x, w) \notin x.dirty}]

Idle(x, alive) ==
  /\ pc' = "idle" /\ m' = Promised(x, alive) /\ live' = alive
  /\ form' = NoForm /\ ops' = << >> /\ masks' = NoMasks /\ next' = 1
  /\ target' = None /\ sw' = NoSwitch
  /\ UNCHANGED arch

-------------------------------------------------------------------------------
(* switch_to_assignment() *)

\* STEP 1: what is not live at the target is killed, what is not in a register
\* there is spilled; nothing in try mode.
LetGo(x, t, try) ==
  LET dead == {r \in Assigned(x) : x.at[r] \notin t.live_in}
      away == {r \in Assigned(x) \ dead : x.at[r] \notin Range(t.at)}
  IN  IF try THEN x ELSE SpillAll(UnassignAll(x, dead), away)

Switch(x, t, try) ==
  /\ m' = LetGo(x, t, try)
  /\ target' = t
  /\ sw' = [try |-> try, dirty |-> t.dirty, affected |-> Assigned(t), will_load |-> {}, run |-> -1]
  /\ pc' = "switch"

\* The register is where the target has it; what is clean there and may be
\* entered already has to be saved.
WrongMatch(y, r) ==
  [y EXCEPT !.run = -1, !.affected = @ \ {r},
            !.m = [@ EXCEPT !.dirty = IF r \in y.dirty THEN @ \cup {r} ELSE @ \ {r}]]

Match(y, r) ==
  LET cleaned == r \in y.m.dirty /\ r \notin y.dirty
  IN  [y EXCEPT !.run = -1, !.affected = @ \ {r},
                !.m = IF cleaned /\ target.read_only THEN OnSave(@, r)
                      ELSE IF r \in y.dirty THEN MakeDirty(@, {r}) ELSE @,
                !.dirty = IF cleaned /\ ~target.read_only THEN @ \cup {r} ELSE @]

\* The label Cleared: into an empty register.
Bring(y, r) ==
  LET w   == target.at[r]
      src == RegOf(y.m, w)
  IN  IF src = None
      THEN [y EXCEPT !.affected = @ \ {r},
                     !.will_load = IF w \in target.live_in THEN @ \cup {r} ELSE @]
      ELSE Match([y EXCEPT !.m = OnMove(@, w, r, src)], r)

\* Without an exchange instruction: out of the way, to memory if need be.
MakeWay(y, r) ==
  LET free == Regs \ Assigned(y.m)
      tmp  == IF free \ Assigned(target) # {} THEN free \ Assigned(target) ELSE free
  IN  IF r \notin y.m.dirty THEN Unassign(y.m, r)
      ELSE IF tmp # {} THEN OnMove(y.m, y.m.at[r], Min(tmp), r)
      ELSE OnSpill(y.m, r)

\* The register that was cleared is left for the next round.
WrongSettle(y, r) ==
  LET w   == target.at[r]
      src == RegOf(y.m, w)
  IN  IF y.m.at[r] = w THEN Match(y, r)
      ELSE IF y.m.at[r] = None THEN Bring(y, r)
      ELSE IF y.run <= 0 \/ src = None THEN y
      ELSE IF arch.has_swap THEN Match([y EXCEPT !.m = OnSwap(@, r, src)], r)
      ELSE [y EXCEPT !.m = MakeWay(y, r), !.run = -1]

\* STEP 2 for one register of the target.
Settle(y, r) ==
  LET w   == target.at[r]
      src == RegOf(y.m, w)
  IN  IF y.m.at[r] = w THEN Match(y, r)
      ELSE IF y.m.at[r] = None THEN Bring(y, r)
      ELSE IF y.run <= 0 \/ src = None THEN y
      ELSE IF arch.has_swap THEN Match([y EXCEPT !.m = OnSwap(@, r, src)], r)
      ELSE Bring([y EXCEPT !.m = MakeWay(y, r), !.run = -1], r)

\* Nothing was done in the two rounds before.
GaveUp == sw.run = 1

SwitchRound ==
  /\ pc = "switch" /\ sw.affected # {}
  /\ IF GaveUp
     THEN IF sw.try
          THEN sw' = [sw EXCEPT !.affected = {}] /\ UNCHANGED <<m, pc>>
          ELSE pc' = "failed" /\ UNCHANGED <<m, sw>>
     ELSE LET y0 == [m |-> m, dirty |-> sw.dirty, affected |-> sw.affected,
                     will_load |-> sw.will_load, run |-> sw.run + 1]
              after[r \in Nat] ==
                IF r = 0 THEN y0
                ELSE IF r - 1 \in sw.affected THEN Settle(after[r - 1], r - 1) ELSE after[r - 1]
              y  == after[Max(Regs) + 1]
          IN  /\ m' = y.m
              /\ sw' = [try |-> sw.try, dirty |-> y.dirty, affected |-> y.affected,
                        will_load |-> y.will_load, run |-> y.run]
              /\ UNCHANGED pc
  /\ UNCHANGED <<arch, live, form, ops, masks, next, target, misread>>

\* STEP 3: what is to be loaded and has its register free.
LoadScheduled(x) ==
  LET rs == {r \in sw.will_load : x.at[r] = None}
  IN  [x EXCEPT
         !.ok = /\ @ /\ (sw.try \/ rs = sw.will_load) /\ rs \cap x.dirty = {}
                /\ \A r \in rs : target.at[r] \in target.live_in /\ RegOf(x, target.at[r]) = None,
         !.at = [r \in DOMAIN x.at |-> IF r \in rs THEN target.at[r] ELSE x.at[r]],
         !.dirty = @ \cup (rs \cap sw.dirty),
         !.regs = [r \in DOMAIN x.regs |->
                     IF r \notin rs THEN x.regs[r]
                     ELSE IF target.at[r] \in x.slots THEN target.at[r] ELSE None]]

SwitchDone ==
  /\ pc = "switch" /\ sw.affected = {}
  /\ LET x == LoadScheduled(m)
     IN  m' = [x EXCEPT !.ok = @ /\ (sw.try \/ (x.at = target.at /\ x.dirty = sw.dirty))]
  /\ pc' = IF sw.try THEN "fit" ELSE IF Indirect THEN "execute" ELSE "arrived"
  /\ target' = IF sw.try THEN [target EXCEPT !.dirty = sw.dirty] ELSE target
  /\ UNCHANGED <<arch, live, form, ops, masks, next, sw, misread>>

-------------------------------------------------------------------------------
(* alloc_instruction(), STEPs 1 to 5: the operands that are read *)

Fixed == {ops[i].use_id : i \in DOMAIN ops} \ {None}

Reserved == Taken(ops, form.flow)

\* Any register will do.
WrongFits(op) == RegOf(m, op.work) # None

\* Does the operand have a register it may stay in?
Fits(op) ==
  LET r == RegOf(m, op.work)
  IN  r # None /\ IF op.use_id # None THEN r = op.use_id ELSE r \in op.mask \ Reserved

Fit ==
  /\ pc = "fit"
  /\ LET used    == {i \in DOMAIN ops : ops[i].use}
         fitting == {i \in used : Fits(ops[i])}
         free    == UNION {IF ops[i].use_id # None THEN {ops[i].use_id} \cap Assigned(m)
                           ELSE {RegOf(m, ops[i].work)} \ {None} : i \in used \ fitting}
     IN  /\ ops' = [i \in DOMAIN ops |->
                      IF i \in fitting THEN [ops[i] EXCEPT !.use_id = RegOf(m, ops[i].work), !.done = TRUE]
                      ELSE [ops[i] EXCEPT !.done = ~ops[i].use]]
         /\ m' = MakeDirty(m, {RegOf(m, ops[i].work) : i \in {j \in fitting : ops[j].write}})
         /\ masks' = [NoMasks EXCEPT
                        !.use = Fixed \cup {RegOf(m, ops[i].work) : i \in fitting},
                        !.free = free, !.out = form.clobbered, !.live = Assigned(m) \ free]
  /\ pc' = "decide" /\ next' = 1
  /\ UNCHANGED <<arch, live, form, target, sw, misread>>

Pending == {i \in DOMAIN ops : i >= next /\ ~ops[i].done}
DirtyIf(op, r) == IF op.write THEN {r} ELSE {}

\* REG/MEM: the operand is read from its slot.
Patchable(i) ==
  ops[i].rm /\ RegOf(m, ops[i].work) = None /\ \A j \in DOMAIN ops : ~ops[j].mem

Patch(i) ==
  /\ ops' = [ops EXCEPT ![i].done = TRUE, ![i].mem = TRUE]
  /\ UNCHANGED <<m, masks>>

\* decide_on_assignment() and what is done at once.
Choose(i, u) ==
  LET op   == ops[i]
      here == RegOf(m, op.work)
      live_regs == masks.live \ {here}
      x    == IF here = None THEN OnLoad(m, op.work, u) ELSE OnMove(m, op.work, u, here)
  IN  /\ ops' = [ops EXCEPT ![i].use_id = u, ![i].done = u \notin live_regs]
      /\ m' = IF u \in live_regs THEN m ELSE MakeDirty(x, DirtyIf(op, u))
      /\ masks' = [masks EXCEPT !.use = @ \cup {u}, !.live = live_regs \cup {u},
                                !.free = @ \cup ({u} \cap masks.live) \cup ({here} \ {None})]

Decide ==
  /\ pc = "decide" /\ Pending # {}
  /\ LET i == Min(Pending)
         allocable == ops[i].mask \ (Reserved \cup masks.free \cup masks.use)
     IN  /\ \/ Patchable(i) /\ Patch(i) /\ UNCHANGED pc
            \/ /\ ~Patchable(i)
               /\ IF ops[i].use_id # None THEN UNCHANGED <<m, ops, masks, pc>>
                  ELSE IF allocable = {} THEN pc' = "failed" /\ UNCHANGED <<m, ops, masks>>
                  ELSE (\E u \in allocable : Choose(i, u)) /\ UNCHANGED pc
         /\ next' = i + 1
  /\ UNCHANGED <<arch, live, form, target, sw, misread>>

DecideDone ==
  /\ pc = "decide" /\ Pending = {}
  /\ masks' = [masks EXCEPT !.room =
                 Regs \ (Assigned(m) \cup masks.free \cup masks.use \cup masks.out)]
  /\ pc' = "free"
  /\ UNCHANGED <<arch, m, live, form, ops, next, target, sw, misread>>

\* STEP 4; whether to move or to spill is decide_on_reassignment()'s.
FreeStep ==
  /\ pc = "free" /\ masks.free \cap Assigned(m) # {}
  /\ LET r == Min(masks.free \cap Assigned(m))
     IN  \/ \E t \in masks.room :
              /\ m' = OnMove(m, m.at[r], t, r)
              /\ masks' = [masks EXCEPT !.room = @ \ {t}]
         \/ m' = OnSpill(m, r) /\ UNCHANGED masks
  /\ UNCHANGED <<arch, live, pc, form, ops, next, target, sw, misread>>

FreeDone ==
  /\ pc = "free" /\ masks.free \cap Assigned(m) = {}
  /\ pc' = "alloc" /\ next' = 1
  /\ UNCHANGED <<arch, m, live, form, ops, masks, target, sw, misread>>

\* STEP 5: what is not done yet.  STEP 4 has emptied the registers that are
\* wanted, so that the code that exchanges registers here is never reached.
Place(i) ==
  LET op   == ops[i]
      here == RegOf(m, op.work)
      x == IF here = None THEN OnLoad(m, op.work, op.use_id) ELSE OnMove(m, op.work, op.use_id, here)
  IN  /\ m' = MakeDirty(x, DirtyIf(op, op.use_id))
      /\ ops' = [ops EXCEPT ![i].done = TRUE]
      /\ next' = i + 1

AllocStep ==
  /\ pc = "alloc" /\ Pending # {}
  /\ LET i == Min(Pending)
     IN  IF m.at[ops[i].use_id] = None
         THEN Place(i) /\ UNCHANGED pc
         ELSE pc' = "failed" /\ UNCHANGED <<m, ops, next>>
  /\ UNCHANGED <<arch, live, form, masks, target, sw, misread>>

-------------------------------------------------------------------------------
(* alloc_instruction(), STEPs 6 to 10: what is killed, clobbered, written *)

\* Nothing is spilled.
WrongClobbers(killed) == {}

\* What is spilled before it is clobbered; what was just unassigned needs not be.
Clobbers(killed) == masks.out \ killed

\* STEPs 6 and 7, and the copies of STEP 8.
Evict ==
  /\ pc = "alloc" /\ Pending = {}
  /\ LET killed == {RegOf(m, ops[i].work) : i \in {j \in DOMAIN ops : ops[j].out \/ ops[j].kill}} \ {None}
         x == UnassignAll(m, killed)
         y == SpillAll(x, Clobbers(killed) \cap Assigned(x))
     IN  /\ m' = [y EXCEPT !.regs = [r \in Regs |->
                    IF \E i \in DOMAIN ops : r \in ops[i].dup
                    THEN y.regs[(CHOOSE op \in Range(ops) : r \in op.dup).use_id] ELSE @[r]]]
         /\ masks' = [masks EXCEPT !.live = Assigned(y)]
  /\ pc' = "out" /\ next' = 1
  /\ UNCHANGED <<arch, live, form, ops, target, sw, misread>>

Unwritten == {i \in DOMAIN ops : i >= next /\ ops[i].out}

\* Registers an output may get: a free one, or the one that decide_on_spill_for()
\* says is spilled.
OutRegs(op) ==
  LET allowed == op.mask \ masks.outs
  IN  IF op.out_id # None THEN {op.out_id}
      ELSE IF allowed \ masks.live # {} THEN allowed \ masks.live ELSE allowed \cap masks.live

\* STEP 10.  What is written and not read any more is not assigned.
Give(i, r) ==
  LET op == ops[i]
      x  == IF op.out_id = None /\ r \in masks.live THEN OnSpill(m, r) ELSE m
  IN  /\ m' = IF op.kill THEN [x EXCEPT !.ok = @ /\ x.at[r] = None]
              ELSE Assign(x, op.work, r, TRUE)
      /\ ops' = [ops EXCEPT ![i].out_id = r]
      /\ masks' = [masks EXCEPT !.outs = @ \cup {r}, !.live = @ \ {r}]

OutStep ==
  /\ pc = "out" /\ Unwritten # {}
  /\ LET i  == Min(Unwritten)
         op == ops[i]
     IN  /\ IF OutRegs(op) = {} THEN pc' = "failed" /\ UNCHANGED <<m, ops, masks>>
            ELSE (\E r \in OutRegs(op) : Give(i, r)) /\ UNCHANGED pc
         /\ next' = i + 1
  /\ UNCHANGED <<arch, live, form, target, sw, misread>>

\* spill_regs_before_entry() keeps the targets' scratch registers free; a jump
\* through a register whose target has an entry assignment switches to it first.
OutDone ==
  /\ pc = "out" /\ Unwritten = {}
  /\ IF Indirect /\ target # None
     THEN Switch(m, target, FALSE)
     ELSE /\ m' = SpillAll(m, form.scratch \cap Assigned(m))
          /\ pc' = "execute"
          /\ UNCHANGED <<target, sw>>
  /\ UNCHANGED <<arch, live, form, ops, masks, next, misread>>

-------------------------------------------------------------------------------
(* The instruction, and what follows it *)

\* Is the operand where the instruction reads it, which may fix the register?
IsRead(i, x) ==
  LET op == ops[i]
  IN  op.use =>
        IF op.mem THEN op.work \in x.slots
        ELSE /\ form.ops[i].use_id \in {None, op.use_id}
             /\ \A r \in op.dup \cup {op.use_id} : x.regs[r] = op.work

\* The machine after the instruction: the last operand written to a register is
\* in it, and every other copy of what was written is stale.
Executed(x) ==
  LET writing   == {i \in DOMAIN ops : ops[i].write}
      place(i)  == IF ops[i].out THEN ops[i].out_id ELSE ops[i].use_id
      inmem     == {i \in writing : ops[i].mem /\ ~ops[i].out}
      inreg(r)  == {i \in writing \ inmem : place(i) = r}
      written   == {ops[i].work : i \in writing}
      inslots   == {ops[i].work : i \in inmem}
  IN  [x EXCEPT
         !.regs = [r \in Regs |->
                     IF inreg(r) # {} THEN ops[Max(inreg(r))].work
                     ELSE IF r \in form.clobbered \/ @[r] \in written THEN None ELSE @[r]],
         !.slots = (@ \ written) \cup inslots]

LiveAfter == (live \cup {op.work : op \in {o \in Range(ops) : o.out}})
               \ {op.work : op \in {o \in Range(ops) : o.kill}}

\* The entry assignments of a table's targets, one of which is jumped to: what
\* they share, without what is not live there.  A branch to a target that was not
\* yet compiled may have made more of it dirty.
TargetEntries ==
  UNION {LET at == [r \in Regs |-> IF target.at[r] \in kept THEN target.at[r] ELSE None]
             rs == {r \in Regs : at[r] # None}
         IN  {[at |-> at, dirty |-> d, live_in |-> kept, read_only |-> FALSE] :
                d \in {e \in SUBSET rs : sw.dirty \cap rs \subseteq e}} : kept \in SUBSET LiveAfter}

\* spill_after_allocation(): operands used here for the last time in the block.
Lasting == {RegOf(m, op.work) : op \in Range(ops)} \ {None}

Execute ==
  /\ pc = "execute"
  /\ misread' = (misread \/ \E i \in DOMAIN ops : ~IsRead(i, m))
  /\ LET x == Executed(m)
     IN  \/ form.flow = "next" /\ \E rs \in SUBSET Lasting : Idle(SpillAll(x, rs), LiveAfter)
         \/ form.flow = "call" /\ Idle(x, LiveAfter)
         \/ form.flow = "branch" /\ Idle(x, LiveAfter)
         \/ /\ form.flow = "branch" /\ target # None /\ Switch(x, target, FALSE) /\ live' = LiveAfter
            /\ UNCHANGED <<arch, form, ops, masks, next>>
         \/ Indirect /\ target = None /\ Idle(x, LiveAfter)
         \/ /\ Indirect /\ target # None
            /\ IF form.flow = "single" THEN UNCHANGED <<target, sw>>
               ELSE \E t \in TargetEntries :
                      target' = t /\ sw' = [sw EXCEPT !.dirty = t.dirty]
            /\ m' = x /\ live' = LiveAfter /\ pc' = "arrived"
            /\ UNCHANGED <<arch, form, ops, masks, next>>

\* The target block, entered by this edge or by another one: replace_assignment().
Arrive ==
  /\ pc = "arrived"
  /\ Idle([m EXCEPT !.at = target.at, !.dirty = sw.dirty], target.live_in)
  /\ UNCHANGED misread

\* Entry assignments that leave the scratch registers free and have values of
\* held in the others, where kept is live.
Entries(scratch, held, kept) ==
  LET maps == {at \in [Regs -> held \cup {None}] :
                 /\ \A r \in scratch : at[r] = None
                 /\ \A r, q \in Regs : at[r] = at[q] => r = q \/ at[r] = None}
  IN  UNION {{[at |-> at, dirty |-> d, live_in |-> kept, read_only |-> o] :
                d \in SUBSET {r \in Regs : at[r] # None}, o \in BOOLEAN} : at \in maps}

\* The entry assignment f may meet where alive is live after it.  Tables share
\* one, live_in is what any of their targets needs, and what a branch, or falling
\* into a target, had in registers stays in it, needed by a target or not.
EntriesFor(f, alive) ==
  CASE f.flow = "branch" -> UNION {Entries(f.scratch, kept, kept) : kept \in SUBSET alive}
    [] f.flow = "single" -> Entries({}, alive, alive)
    [] f.flow \in Tables ->
         UNION {{t \in Entries(f.scratch, IF f.flow = "shared" THEN Works ELSE kept, kept) : t.read_only} :
                  kept \in {k \in SUBSET Works : alive \subseteq k}}
    [] OTHER -> {}

Operand(kind, w, killed) ==
  [work |-> w, use |-> kind.use, write |-> kind.write, out |-> kind.out, rm |-> kind.rm,
   use_id |-> kind.use_id, out_id |-> kind.out_id, dup |-> kind.dup, mask |-> kind.mask,
   kill |-> killed, done |-> FALSE, mem |-> FALSE]

\* A conditional branch first moves towards its target, whatever way it goes.
Begin ==
  /\ pc = "idle"
  /\ \E f \in arch.forms : \E ws \in [DOMAIN f.ops -> Works] : \E killed \in SUBSET Range(ws) :
       /\ \A i, j \in DOMAIN ws : ws[i] = ws[j] => i = j
       /\ \A i \in DOMAIN ws : (ws[i] \in live) = f.ops[i].use
       /\ form' = f
       /\ ops' = [i \in DOMAIN ws |-> Operand(f.ops[i], ws[i], ws[i] \in killed)]
       /\ \/ pc' = "fit" /\ target' = None /\ UNCHANGED <<m, sw>>
          \/ \E t \in EntriesFor(f, (live \cup Range(ws)) \ killed) :
               IF f.flow = "branch" THEN Switch(m, t, TRUE)
               ELSE target' = t /\ pc' = "fit" /\ UNCHANGED <<m, sw>>
  /\ UNCHANGED <<arch, live, masks, next, misread>>

\* The end of a block that is followed, or jumped from, to one with an entry.
Continue ==
  /\ pc = "idle"
  /\ \E kept \in SUBSET live : \E t \in Entries({}, kept, kept) : Switch(m, t, FALSE)
  /\ UNCHANGED <<arch, live, form, ops, masks, next, misread>>

\* set_block_entry_assignment(): the next block starts where this one ends, its
\* scratch registers empty.
NextBlock ==
  /\ pc = "idle"
  /\ \E kept \in SUBSET live : \E f \in arch.forms \cup {NoForm} :
       LET x == SpillAll(m, f.scratch \cap Assigned(m))
       IN  Idle(UnassignAll(x, {r \in Assigned(x) : x.at[r] \notin kept}), kept)
  /\ UNCHANGED misread

-------------------------------------------------------------------------------
\* make_initial_assignment(): arguments in registers while there are registers.
Init ==
  /\ arch \in Archs
  /\ live \in SUBSET Works
  /\ \E at \in [Regs -> live \cup {None}] :
       /\ \A r, q \in Regs : at[r] = at[q] => r = q \/ at[r] = None
       /\ None \in Range(at) => live \subseteq Range(at)
       /\ m = [at |-> at, dirty |-> {r \in Regs : at[r] # None}, regs |-> at,
               slots |-> live \ Range(at), ok |-> TRUE]
  /\ pc = "idle" /\ form = NoForm /\ ops = << >> /\ masks = NoMasks /\ next = 1
  /\ target = None /\ sw = NoSwitch /\ misread = FALSE

Next ==
  \/ Begin \/ Continue \/ NextBlock \/ Arrive
  \/ SwitchRound \/ SwitchDone
  \/ Fit \/ Decide \/ DecideDone \/ FreeStep \/ FreeDone \/ AllocStep
  \/ Evict \/ OutStep \/ OutDone \/ Execute

Spec == Init /\ [][Next]_vars

-------------------------------------------------------------------------------
(* What makes it correct *)

\* Between instructions, at every point of every path, each value that is still
\* needed is where the assignment says: in its register, and in its home slot if
\* the register is not dirty.  No value is lost by a load, move, spill, swap,
\* clobber or kill.
ValuesKept ==
  pc = "idle" =>
    \A w \in live :
      LET r == RegOf(m, w)
      IN  /\ r # None => m.regs[r] = w
          /\ r = None \/ r \notin m.dirty => w \in m.slots

\* Every instruction finds each operand it reads in the register it was given,
\* in each register an argument is copied to, or in the slot that replaced the
\* register.
OperandsRead == ~misread

\* No assertion of RAAssignment or of the allocator fails: the switch ends with
\* the assignment it was to reach, every operand finds a register to choose, none
\* is assigned twice, and none of the loops gives up.
AssertionsHold == m.ok /\ pc # "failed"

\* A block is entered with what its entry assignment promises to code that was,
\* or will be, compiled from it: the values in their registers, and a slot that
\* is up to date for what is clean or not in a register.
EntryKept ==
  pc = "arrived" =>
    \A w \in target.live_in :
      IF w \in Range(target.at)
      THEN \E r \in Regs : /\ target.at[r] = w /\ m.regs[r] = w
                           /\ r \notin sw.dirty => w \in m.slots
      ELSE w \in m.slots

\* Every round of the switch brings a register to where the target has it, or
\* changes nothing and is one nearer to giving up: the switch ends, although
\* run_id starts again after each move.
RoundsSettle ==
  [][pc = "switch" /\ sw.affected # {} /\ pc' = "switch" =>
       \/ sw'.affected \subseteq sw.affected /\ sw'.affected # sw.affected
       \/ m' = m /\ sw'.run > sw.run]_vars
===============================================================================
