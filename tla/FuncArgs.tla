------------------------------- MODULE FuncArgs --------------------------------
(***************************************************************************)
(* Moving the arguments of a function from where the calling convention    *)
(* puts them to where the function wants them: FuncArgsContext             *)
(* (core/funcargscontext.cpp), FuncArgsAssignment::update_func_frame()     *)
(* (core/func.cpp) and BaseEmitHelper::emit_args_assignment()              *)
(* (core/emithelper.cpp).                                                  *)
(*                                                                         *)
(* The function frame is updated first, so that the prolog saves what the  *)
(* moves will overwrite; the moves are emitted later, from the same        *)
(* analysis done again on the changed frame.  They come in three phases:   *)
(* what goes to the stack, then register to register, then loads from the  *)
(* stack.  The model also runs the emitted moves: regs and slots are what  *)
(* registers and stack hold after them.                                    *)
(*                                                                         *)
(* An operator named Wrong... is the definition after it with a mistake in *)
(* it, for PROJECT.json's mutants.                                         *)
(***************************************************************************)
EXTENDS Integers, FiniteSetsExt, Functions, Sequences

CONSTANTS
  GpRegs, VecRegs,   \* allocable registers of two groups, numbers
  Preserved,         \* registers the calling convention preserves
  Stack, None,       \* not in a register; nothing
  Families           \* sets of assignments considered, see InstanceAssumption

Regs  == GpRegs \cup VecRegs
Places == Regs \cup {Stack}

Group(r) == IF r \in GpRegs THEN GpRegs ELSE VecRegs

\* The number of a register in its group.
Id(r) == IF r \in GpRegs THEN r ELSE r - Min(VecRegs)

\* An assignment: per argument its source and its destination; the arguments
\* whose destination type is wider; those that are copied from stack to stack
\* through a vector register; the register wanted for the stack argument
\* pointer; whether the frame aligns the stack dynamically and has no frame
\* pointer; whether general purpose registers can be exchanged.
ASSUME InstanceAssumption ==
  /\ GpRegs \subseteq Nat /\ VecRegs \subseteq Nat
  /\ GpRegs \cap VecRegs = {} /\ Preserved \subseteq Regs
  /\ Stack # None /\ {Stack, None} \cap Nat = {}
  /\ \A F \in Families : \A i \in F :
       LET args == DOMAIN i.src
       IN  /\ i.src \in Seq(Places) /\ DOMAIN i.dst = args
           /\ i.dst \in Seq(Places)
           /\ i.wide \subseteq args /\ i.by_vec \subseteq args
           /\ i.sa_out \in GpRegs \cup {None}
           /\ i.realign \in BOOLEAN /\ i.has_swap \in BOOLEAN
           /\ \A v \in args : i.src[v] \notin Preserved
           /\ \A v, w \in args :
                i.src[v] = i.src[w] => v = w \/ i.src[v] = Stack

VARIABLES
  inst,      \* the assignment, fixed
  phase,     \* what happens next, or how it ended
  frame,     \* FuncFrame: the dirty registers and the SA register
  cur, out,  \* per variable where its value is and where it must go
  done,      \* variables marked done
  held,      \* WorkData::_phys_to_var_id
  work, dst, \* WorkData::_work_regs and _dst_regs, of all groups
  next,      \* the variable the loop of this phase has come to
  flags,     \* work_flags of the shuffle
  iter,      \* load phase: [count, index] of its iterations
  regs, slots,   \* contents of registers and destination slots (ghost)
  written        \* registers the moves have written (ghost)

loop  == <<next, flags, iter>>
state == <<cur, out, done, held, work, dst>>
memory == <<regs, slots, written>>
vars  == <<inst, phase, frame, state, loop, memory>>

Args == DOMAIN inst.src
SA   == Len(inst.src) + 1   \* _sa_var_id, when there is such a variable
Vars == DOMAIN cur

Value(v, extended) == [of |-> v, extended |-> extended]
Junk == Value(None, FALSE)

Free == {r \in work : held[r] = None}   \* available_regs()

InReg(v)  == cur[v] \in Regs
ToReg(v)  == out[v] \in Regs
SwapsRegs(r) == inst.has_swap /\ r \in GpRegs   \* has_inst_reg_swap()

-------------------------------------------------------------------------------
(* FuncArgsContext: the analysis done before the frame and before the moves *)

TakenRegs == {inst.src[v] : v \in Args} \cap Regs
DstRegs   == {inst.dst[v] : v \in Args} \cap Regs
HasStackSrc == Stack \in {inst.src[v] : v \in Args}

Overlap == \E v, w \in Args : v # w /\ inst.dst[v] = inst.dst[w] /\ inst.dst[v] \in Regs

WorkRegs(dirty) == (Regs \ (Preserved \ dirty)) \cup DstRegs \cup TakenRegs

SaRequired == (HasStackSrc /\ inst.realign) \/ inst.sa_out # None

\* The register the pointer to the stack arguments starts in.
SaChoice(f) ==
  LET free   == (GpRegs \cap WorkRegs(f.dirty)) \ TakenRegs
      others == GpRegs \ WorkRegs(f.dirty)
  IN  IF f.sa_reg # None THEN f.sa_reg
      ELSE IF inst.sa_out \notin TakenRegs \cup {None} THEN inst.sa_out
      ELSE IF free # {} THEN Min(free)
      ELSE IF others # {} THEN Min(others)
      ELSE None

Refused(f) ==
  \/ Overlap
  \/ f.sa_reg \in TakenRegs
  \/ inst.sa_out \in DstRegs
  \/ SaRequired /\ SaChoice(f) = None

\* A destination register is not saved.
WrongDirtied == {}

\* mark_dst_regs_dirty()
Dirtied == DstRegs

\* The groups mark_scratch_regs() finds a register for: those with moves
\* between stack slots or exchanges without an instruction, if one of their
\* registers is to move.
ScratchGroups ==
  {g \in {GpRegs, VecRegs} :
     /\ \E v \in Args :
          \/ inst.dst[v] = Stack /\ g = IF v \in inst.by_vec THEN VecRegs ELSE GpRegs
          \/ /\ g = VecRegs /\ inst.src[v] \in g /\ inst.dst[v] \in g
             /\ \E w \in Args : inst.src[w] = inst.dst[v] /\ inst.dst[w] = inst.src[v]
     /\ \E v \in Args :
          inst.src[v] \in Regs /\ inst.dst[v] \in g /\ inst.src[v] # inst.dst[v]}

ScratchOf(g, workregs) ==
  LET unused == (g \cap workregs) \ DstRegs
      others == g \ workregs
  IN  IF unused # {} THEN {Min(unused)}
      ELSE IF others # {} THEN {Min(others)}
      ELSE {}

\* update_func_frame(), and finalize() as far as it concerns registers.
UpdateFuncFrame ==
  /\ phase = "frame"
  /\ IF Refused(frame)
     THEN phase' = "refused" /\ UNCHANGED frame
     ELSE LET workregs == WorkRegs(frame.dirty) \cup Dirtied
                            \cup (IF SaRequired THEN {SaChoice(frame), inst.sa_out} \ {None}
                                  ELSE {})
              scratch  == UNION {ScratchOf(g, workregs) : g \in ScratchGroups}
              sa_reg   == IF SaRequired THEN SaChoice(frame) ELSE None
          IN  /\ phase' = "prolog"
              /\ frame' = [dirty  |-> frame.dirty \cup Dirtied \cup scratch \cup ({sa_reg} \ {None}),
                           sa_reg |-> sa_reg]
  /\ UNCHANGED <<inst, state, loop, memory>>

\* An argument that is where it is wanted.
DoneAtOnce(v) ==
  /\ inst.src[v] = inst.dst[v] /\ inst.src[v] \in Regs
  /\ inst.src[v] \in GpRegs => v \notin inst.wide

\* The prolog, which loads the SA register, and the analysis as
\* emit_args_assignment() does it again.
BeginArgs ==
  /\ phase = "prolog"
  /\ ~Refused(frame)
  /\ LET sa   == SaChoice(frame)
         vs   == IF SaRequired THEN Args \cup {SA} ELSE Args
         more == IF SaRequired THEN {sa, inst.sa_out} \ {None} ELSE {}
     IN  /\ cur' = [v \in vs |-> IF v = SA THEN sa ELSE inst.src[v]]
         /\ out' = [v \in vs |-> IF v = SA THEN inst.sa_out ELSE inst.dst[v]]
         /\ done' = {v \in Args : DoneAtOnce(v)}
                      \cup (IF SaRequired /\ inst.sa_out = None THEN {SA} ELSE {})
         /\ held' = [r \in Regs |-> IF \E v \in vs : cur'[v] = r
                                    THEN CHOOSE v \in vs : cur'[v] = r ELSE None]
         /\ work' = WorkRegs(frame.dirty) \cup more
         /\ dst' = DstRegs \cup ({inst.sa_out} \ {None})
         /\ regs' = [r \in Regs |-> IF SaRequired /\ r = sa THEN Value(SA, FALSE)
                                    ELSE IF held'[r] # None THEN Value(held'[r], FALSE)
                                    ELSE Junk]
         /\ written' = IF SaRequired THEN {sa} ELSE {}
  /\ phase' = "stack" /\ next' = 1
  /\ UNCHANGED <<inst, frame, flags, iter, slots>>

Ended == {"ok", "refused", "mixed", "stuck"}

Stop(how) ==
  /\ phase' = how
  /\ UNCHANGED <<inst, frame, state, loop, memory>>

-------------------------------------------------------------------------------
(* Phase 1: what goes to the stack *)

\* The stack arguments' base register, if it is not the stack or frame pointer.
Base == IF inst.realign /\ SA \in Vars THEN cur[SA] ELSE None

\* What is read from the stack for v.
Loaded(v) ==
  IF Base # None /\ regs[Base].of # SA THEN Junk ELSE Value(v, TRUE)

Leaving == {v \in Args : out[v] = Stack /\ v \notin done}

RegToStack(v) ==
  /\ InReg(v)
  /\ held' = [held EXCEPT ![cur[v]] = None]
  /\ slots' = [slots EXCEPT ![v] = regs[cur[v]]]
  /\ done' = done \cup {v}
  /\ UNCHANGED <<phase, regs, written>>

Scratch(v) == (IF v \in inst.by_vec THEN VecRegs ELSE GpRegs) \cap Free

StackToStack(v) ==
  /\ cur[v] = Stack
  /\ IF Scratch(v) = {}
     THEN phase' = "stuck" /\ UNCHANGED <<done, memory>>
     ELSE LET r == Min(Scratch(v))
          IN  /\ regs' = [regs EXCEPT ![r] = Loaded(v)]
              /\ slots' = [slots EXCEPT ![v] = Loaded(v)]
              /\ written' = written \cup {r}
              /\ done' = done \cup {v}
              /\ UNCHANGED phase
  /\ UNCHANGED held

StackStep ==
  /\ phase = "stack" /\ Leaving # {}
  /\ LET v == Min(Leaving) IN RegToStack(v) \/ StackToStack(v)
  /\ UNCHANGED <<inst, frame, cur, out, work, dst, loop>>

StackDone ==
  /\ phase = "stack" /\ Leaving = {}
  /\ phase' = "shuffle" /\ next' = 1 /\ flags' = {}
  /\ UNCHANGED <<inst, frame, state, iter, memory>>

-------------------------------------------------------------------------------
(* Phase 2: register to register *)

\* Variables in registers that are not where they belong, and those of them
\* this pass still comes to.
Unsettled == {v \in Vars \ done : InReg(v)}
ToVisit   == {v \in Unsettled : v >= next}

\* The label EmitMove: v to r, its destination or a spare register.
EmitMove(v, r) ==
  /\ regs' = [regs EXCEPT ![r] = Value(regs[cur[v]].of, TRUE)]
  /\ written' = written \cup {r}
  /\ held' = [held EXCEPT ![cur[v]] = None, ![r] = v]
  /\ cur' = [cur EXCEPT ![v] = r]
  /\ done' = IF r = out[v] THEN done \cup {v} ELSE done
  /\ flags' = flags \cup {"did", "pending"}

\* A variable that goes nowhere in particular stays.
WrongExchangeable(v, w) == ToReg(w) /\ Id(out[w]) = Id(cur[v])

\* The variable in the way goes where v is, or nowhere in particular.  Only the
\* numbers of the registers are compared, not their groups.
Exchangeable(v, w) == out[w] = None \/ (ToReg(w) /\ Id(out[w]) = Id(cur[v]))

EmitSwap(v, w) ==
  /\ regs' = [regs EXCEPT ![cur[v]] = regs[out[v]], ![out[v]] = regs[cur[v]]]
  /\ written' = written \cup {cur[v], out[v]}
  /\ held' = [held EXCEPT ![cur[v]] = w, ![out[v]] = v]
  /\ cur' = [cur EXCEPT ![v] = out[v], ![w] = cur[v]]
  /\ done' = done \cup {v} \cup (IF out[w] = None THEN {} ELSE {w})
  /\ flags' = flags \cup {"did"}

Wait == flags' = flags \cup {"pending"} /\ UNCHANGED <<cur, held, done, regs, written>>

\* Registers of the group that break an exchange without an instruction.
Spare(v) ==
  LET free == Free \cap Group(out[v])
  IN  IF free \ dst # {} THEN free \ dst ELSE free

\* A taken destination is not seen.
WrongWayIsClear(v) == TRUE

WayIsClear(v) == held[out[v]] \in {None, v}

ShuffleStep ==
  /\ phase = "shuffle" /\ ToVisit # {}
  /\ LET v == Min(ToVisit)
     IN  IF Group(cur[v]) # Group(out[v])
         THEN Stop("mixed")
         ELSE /\ LET w == held[out[v]]
                 IN  \/ WayIsClear(v) /\ EmitMove(v, out[v])
                     \/ ~WayIsClear(v) /\ ~Exchangeable(v, w) /\ Wait
                     \/ /\ ~WayIsClear(v) /\ Exchangeable(v, w)
                        /\ \/ SwapsRegs(cur[v]) /\ EmitSwap(v, w)
                           \/ /\ ~SwapsRegs(cur[v])
                              /\ IF Spare(v) = {} THEN Wait ELSE EmitMove(v, Min(Spare(v)))
              /\ next' = v + 1
              /\ UNCHANGED <<inst, phase, frame, out, work, dst, iter, slots>>

\* The work is not checked for being stuck.
WrongNothingDoneTwice == FALSE

NothingDoneTwice == "did" \notin flags /\ "postponed" \in flags

PassDone ==
  /\ phase = "shuffle" /\ ToVisit = {}
  /\ IF "pending" \notin flags
     THEN phase' = "load" /\ next' = 1 /\ iter' = [count |-> 1, index |-> 0] /\ UNCHANGED flags
     ELSE IF NothingDoneTwice
     THEN phase' = "stuck" /\ UNCHANGED loop
     ELSE /\ next' = 1
          /\ flags' = IF "did" \in flags THEN {} ELSE {"postponed"}
          /\ UNCHANGED <<phase, iter>>
  /\ UNCHANGED <<inst, frame, state, memory>>

-------------------------------------------------------------------------------
(* Phase 3: loads from the stack *)

ToLoad == {v \in Vars \ done : cur[v] = Stack /\ v >= next}

\* The load into the base register is put off to a second iteration.
Load(v) ==
  /\ held' = [held EXCEPT ![out[v]] = v]
  /\ cur' = [cur EXCEPT ![v] = out[v]]
  /\ done' = done \cup {v}
  /\ regs' = [regs EXCEPT ![out[v]] = Loaded(v)]
  /\ written' = written \cup {out[v]}
  /\ UNCHANGED <<iter, slots>>

\* The base register is loaded in its turn.
WrongPutsOff(v) == FALSE

PutsOff(v) == out[v] = Base /\ iter.count = 1

LoadStep ==
  /\ phase = "load" /\ ToLoad # {}
  /\ LET v == Min(ToLoad)
     IN  /\ IF PutsOff(v)
            THEN iter' = [iter EXCEPT !.count = 2] /\ UNCHANGED <<cur, done, held, memory>>
            ELSE Load(v)
         /\ next' = v + 1
  /\ UNCHANGED <<inst, phase, frame, out, work, dst, flags>>

LoadsDone ==
  /\ phase = "load" /\ ToLoad = {}
  /\ iter' = [iter EXCEPT !.index = @ + 1]
  /\ next' = 1
  /\ phase' = IF iter.index + 1 < iter.count THEN "load" ELSE "ok"
  /\ UNCHANGED <<inst, frame, state, flags, memory>>

-------------------------------------------------------------------------------
Init ==
  /\ \E F \in Families : inst \in F
  /\ phase = "frame"
  /\ frame = [dirty |-> {inst.src[v] : v \in DOMAIN inst.src} \cap Regs, sa_reg |-> None]
  /\ cur = << >> /\ out = << >> /\ done = {}
  /\ held = [r \in Regs |-> None]
  /\ work = {} /\ dst = {}
  /\ next = 1 /\ flags = {} /\ iter = [count |-> 1, index |-> 0]
  /\ regs = [r \in Regs |-> Junk]
  /\ slots = [v \in DOMAIN inst.src |-> Junk]
  /\ written = {}

Next ==
  \/ UpdateFuncFrame \/ BeginArgs
  \/ StackStep \/ StackDone
  \/ ShuffleStep \/ PassDone
  \/ LoadStep \/ LoadsDone

Spec == Init /\ [][Next]_vars

\* The code runs in one thread: it takes its next step.
FairSpec == Spec /\ WF_vars(Next)

-------------------------------------------------------------------------------
(* What makes it correct *)

Moving == phase \in {"stack", "shuffle", "load"}

\* While arguments are moved, the map from registers to variables and the
\* places of the variables agree, and the register of a variable that is not
\* settled yet holds its value: no source is overwritten before it is read, the
\* pointer to the arguments on the stack included (reassign, swap, unassign,
\* the choice of scratch registers, the load that is put off).
NothingOverwritten ==
  Moving =>
    /\ \A v \in Vars \ done : InReg(v) => held[cur[v]] = v /\ regs[cur[v]].of = v
    /\ \A r \in Regs : held[r] # None => cur[held[r]] = r
    /\ Base # None /\ (\E v \in Args : cur[v] = Stack /\ v \notin done)
         => regs[Base].of = SA

\* When emit_args_assignment() returns kOk, every argument is in the register or
\* stack slot it was assigned to, and the stack argument pointer where it was
\* wanted.
ArgumentsArrive ==
  phase = "ok" =>
    /\ \A v \in Args :
         (IF out[v] = Stack THEN slots[v] ELSE regs[out[v]]).of = v
    /\ SA \in Vars /\ out[SA] # None => regs[out[SA]].of = SA

\* A register the calling convention preserves is only written if
\* update_func_frame() marked it dirty, so that the prolog saved it: the moves
\* are planned twice, on frames that differ.
OnlySavedRegistersWritten == written \cap Preserved \subseteq frame.dirty

\* The variable that is where v wants to be.
InTheWay(v) == held[out[v]]

LongCycle ==
  \E S \in SUBSET Unsettled :
    /\ Cardinality(S) > 2
    /\ \A v \in S : InTheWay(v) \in S /\ InTheWay(InTheWay(v)) # v
    /\ {InTheWay(v) : v \in S} = S

NoSpareRegister ==
  \/ \E v \in Leaving : Scratch(v) = {}
  \/ \E v \in Unsettled : ~SwapsRegs(cur[v]) /\ Spare(v) = {}

\* emit_args_assignment() gives up only on a cycle of three or more registers,
\* or when a move needs a register and none is free: whatever else is asked for
\* is done.
FailsOnlyForCause == phase = "stuck" => LongCycle \/ NoSpareRegister

\* The shuffle ends: "if we did nothing twice" it gives up, and it cannot do
\* something for ever (emithelper.cpp:303).
Terminates == <>(phase \in Ended)

\* A wider destination gets a sign or zero extended argument: "we should not
\* mark this as done if both registers are GP and sign or zero extension is
\* required" (funcargscontext.cpp:126).
ArgumentsExtended ==
  phase = "ok" =>
    \A v \in inst.wide :
      inst.src[v] \in GpRegs /\ out[v] \in GpRegs => regs[out[v]].extended
===============================================================================
