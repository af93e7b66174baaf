---------------------------- MODULE FuncArgs_proofs ----------------------------
(***************************************************************************)
(* Theorems about the moves of a function's arguments, for every register  *)
(* file, every number of arguments and every assignment.                   *)
(*                                                                         *)
(* One inductive invariant serves all of them.  Its parts follow the code: *)
(* what the frame saved, what the analysis set up, where the variables     *)
(* are, what has arrived, and how far the loop of each phase has come.     *)
(* That the moves are given up for a cause only needs a second one on top  *)
(* (GivesUpInv): a pass that did nothing so far has come by variables that *)
(* all wait for each other.                                                *)
(***************************************************************************)
EXTENDS FuncArgs, NatSetTheorems

-------------------------------------------------------------------------------
(* The inductive invariant *)

Values == [of : Nat \cup {None}, extended : BOOLEAN]

IsInstance(i) ==
  LET args == DOMAIN i.src
  IN  /\ i.src \in Seq(Places)
      /\ DOMAIN i.dst = args /\ i.dst \in Seq(Places)
      /\ i.sa_out \in GpRegs \cup {None}
      /\ i.realign \in BOOLEAN /\ i.has_swap \in BOOLEAN
      /\ \A v, w \in args : i.src[v] = i.src[w] => v = w \/ i.src[v] = Stack

\* Exchanges compare register numbers only: where there is an exchange
\* instruction, no argument may go from a register of its group to another.
KeepsGroups(i) ==
  i.has_swap => \A v \in DOMAIN i.src : i.src[v] \in GpRegs => i.dst[v] \notin VecRegs

\* The prolog saves what the moves may write.
Saved ==
  /\ TakenRegs \cup DstRegs \subseteq frame.dirty
  /\ SaRequired => /\ frame.sa_reg \in GpRegs /\ frame.sa_reg \in frame.dirty
                   /\ inst.sa_out \in frame.dirty \cup {None}

FrameInv ==
  /\ phase = "frame" => frame.dirty = TakenRegs /\ frame.sa_reg = None /\ written = {}
  /\ phase \in {"prolog"} \cup {"stack", "shuffle", "load", "ok"} => Saved
  /\ phase = "prolog" => written = {}
  /\ written \cap Preserved \subseteq frame.dirty

\* From the first move until all are in place
Running == phase \in {"stack", "shuffle", "load", "ok"}

Types ==
  /\ Vars = IF SaRequired THEN Args \cup {SA} ELSE Args
  /\ cur \in [Vars -> Places] /\ out \in [Vars -> Places \cup {None}] /\ done \subseteq Vars
  /\ held \in [Regs -> Vars \cup {None}]
  /\ work \subseteq Regs /\ work \cap Preserved \subseteq frame.dirty
  /\ regs \in [Regs -> Values]
  /\ next \in Nat

\* The destinations: as asked for, different, and the caller's to write
Destinations ==
  /\ \A v \in Args : out[v] = inst.dst[v]
  /\ SA \in Vars => out[SA] = inst.sa_out /\ cur[SA] \in GpRegs
  /\ \A v \in Vars : {cur[v], out[v]} \cap Regs \subseteq work
  /\ \A v, w \in Vars : out[v] = out[w] /\ out[v] \in Regs => v = w
  /\ \A v \in Vars \ done : out[v] # None

\* The map and the places of the variables agree, and registers of variables
\* that are still to be moved hold their values.
Tracked ==
  /\ \A v \in Vars \ done : InReg(v) => held[cur[v]] = v /\ regs[cur[v]].of = v
  /\ \A r \in Regs : held[r] # None => cur[held[r]] = r

\* Until arguments are loaded, the register of the stack argument pointer is
\* known to hold it, even where it need not go anywhere.
PointerKept ==
  phase \in {"stack", "shuffle"} /\ SA \in Vars => held[cur[SA]] = SA /\ regs[cur[SA]].of = SA

Arrived(v) ==
  /\ out[v] = Stack => slots[v].of = v
  /\ out[v] \in Regs => held[out[v]] = v /\ regs[out[v]].of = v

\* What is done has arrived, and stays.
ArrivalInv ==
  KeepsGroups(inst) =>
    /\ \A v \in done : Arrived(v)
    /\ \A v \in Args \ done : inst.has_swap /\ cur[v] \in GpRegs => out[v] \notin VecRegs

\* Until a move is put off, all that is left to be moved lies ahead.
ShuffleInv ==
  phase = "shuffle" =>
    /\ \A v \in Vars \ done : out[v] \in Regs
    /\ "pending" \notin flags => \A v \in Unsettled : v >= next

\* What is left is on the stack.  In the first iteration it lies ahead, but for
\* the one argument that goes to the base register; in the second it is that.
LoadInv ==
  phase = "load" =>
    /\ \A v \in Vars \ done : cur[v] = Stack /\ out[v] \in Regs
    /\ iter \in {[count |-> c, index |-> 0] : c \in {1, 2}} \cup {[count |-> 2, index |-> 1]}
    /\ iter.index = 0 =>
         /\ \A v \in Vars \ done : v >= next \/ (iter.count = 2 /\ out[v] = Base)
         /\ iter.count = 2 => \E v \in Vars \ done : out[v] = Base /\ v < next
    /\ iter.index = 1 => \A v \in Vars \ done : v >= next /\ out[v] = Base
    /\ Base # None /\ Vars \ done # {} => regs[Base].of = SA

AllDone == phase = "ok" => Vars \subseteq done

MovesInv ==
  /\ Types /\ Destinations /\ Tracked /\ PointerKept /\ ArrivalInv
  /\ ShuffleInv /\ LoadInv /\ AllDone

Phases == {"frame", "prolog", "stack", "shuffle", "load"} \cup Ended

IInv ==
  /\ IsInstance(inst) /\ phase \in Phases /\ slots \in [Args -> Values]
  /\ FrameInv
  /\ Running => MovesInv

-------------------------------------------------------------------------------
(* Registers, instances and what a step leaves alone *)

LEMMA Basics ==
  /\ Regs \subseteq Nat /\ GpRegs \subseteq Regs /\ VecRegs \subseteq Regs
  /\ GpRegs \cap VecRegs = {}
  /\ Stack \notin Nat /\ None \notin Nat /\ Stack # None
BY InstanceAssumption DEF Regs

LEMMA InstanceTypes ==
  ASSUME IsInstance(inst)
  PROVE  /\ Args \subseteq Nat \ {0} /\ SA \in Nat \ {0} /\ SA \notin Args
         /\ inst.src \in [Args -> Places] /\ inst.dst \in [Args -> Places]
<1>1. Len(inst.src) \in Nat /\ Args = 1 .. Len(inst.src)
  BY DEF IsInstance, Args
<1>2. inst.src \in [Args -> Places]
  BY <1>1 DEF IsInstance, Args
<1>3. inst.dst \in [1 .. Len(inst.dst) -> Places] /\ DOMAIN inst.dst = 1 .. Len(inst.dst)
  BY DEF IsInstance
<1>4. DOMAIN inst.dst = Args
  BY DEF IsInstance, Args
<1> QED
  BY <1>1, <1>2, <1>3, <1>4 DEF SA

LEMMA SameInstance ==
  ASSUME inst' = inst
  PROVE  /\ Args' = Args /\ SA' = SA /\ TakenRegs' = TakenRegs /\ DstRegs' = DstRegs
         /\ SaRequired' = SaRequired
         /\ IsInstance(inst)' <=> IsInstance(inst)
         /\ KeepsGroups(inst)' <=> KeepsGroups(inst)
BY DEF Args, SA, TakenRegs, DstRegs, SaRequired, HasStackSrc, IsInstance, KeepsGroups

\* The choice is a general purpose register; it is the one that is wanted, or
\* that one is an argument's.
LEMMA SaChoiceIsGp ==
  ASSUME IsInstance(inst), NEW f, f.sa_reg = None, SaChoice(f) # None
  PROVE  /\ SaChoice(f) \in GpRegs
         /\ inst.sa_out \in TakenRegs \cup {None, SaChoice(f)}
<1> DEFINE free   == (GpRegs \cap WorkRegs(f.dirty)) \ TakenRegs
           others == GpRegs \ WorkRegs(f.dirty)
<1>1. free \in SUBSET Nat /\ others \in SUBSET Nat
  BY Basics
<1>2. free # {} => Min(free) \in GpRegs
  BY <1>1, MinOfNats
<1>3. others # {} => Min(others) \in GpRegs
  BY <1>1, MinOfNats
<1>4. inst.sa_out \in GpRegs \cup {None}
  BY DEF IsInstance
<1> QED
  BY <1>2, <1>3, <1>4 DEF SaChoice

\* A step of the moves that writes work registers only keeps the frame's part.
LEMMA FrameKept ==
  ASSUME IInv, Running, inst' = inst, frame' = frame,
         phase' \in Phases \ {"frame", "prolog"}, written' \subseteq written \cup work
  PROVE  IsInstance(inst)' /\ (phase \in Phases)' /\ FrameInv'
<1>1. work \cap Preserved \subseteq frame.dirty
  BY DEF IInv, MovesInv, Types
<1>2. Saved /\ written \cap Preserved \subseteq frame.dirty
  BY DEF IInv, FrameInv, Running
<1>3. Saved'
  BY <1>2, SameInstance DEF Saved
<1> QED
  BY <1>1, <1>2, <1>3, SameInstance DEF FrameInv, IInv, Phases

-------------------------------------------------------------------------------
(* The start, and the frame *)

LEMMA InitKeeps == Init => IInv
<1> SUFFICES ASSUME Init PROVE IInv
  OBVIOUS
<1>1. PICK F \in Families : inst \in F
  BY DEF Init
<1>2. IsInstance(inst)
  BY <1>1, InstanceAssumption DEF IsInstance
<1>3. phase = "frame" /\ written = {} /\ frame.dirty = TakenRegs /\ frame.sa_reg = None
  BY DEF Init, TakenRegs, Args
<1>4. FrameInv
  BY <1>3 DEF FrameInv
<1>5. slots \in [Args -> Values]
  BY <1>3 DEF Init, Args, Junk, Value, Values
<1> QED
  BY <1>2, <1>3, <1>4, <1>5 DEF IInv, Phases, Running

LEMMA UpdateFuncFrameKeeps ==
  ASSUME IInv, UpdateFuncFrame
  PROVE  IInv'
<1> USE DEF UpdateFuncFrame
<1>1. /\ frame.dirty = TakenRegs /\ frame.sa_reg = None /\ written = {}
      /\ inst' = inst /\ written' = written /\ IsInstance(inst)
      /\ slots' = slots /\ slots \in [Args -> Values]
  BY DEF IInv, FrameInv, memory
<1>2. CASE Refused(frame)
  BY <1>1, <1>2, SameInstance DEF IInv, FrameInv, Running, Phases, Ended
<1>3. CASE ~Refused(frame)
  <2>1. /\ phase' = "prolog"
        /\ TakenRegs \cup DstRegs \subseteq frame'.dirty
        /\ SaRequired => frame'.sa_reg = SaChoice(frame) /\ frame'.sa_reg \in frame'.dirty \cup {None}
    BY <1>1, <1>3 DEF Dirtied
  <2>2. SaRequired => SaChoice(frame) # None
    BY <1>3 DEF Refused
  <2>3. SaRequired => /\ SaChoice(frame) \in GpRegs
                      /\ inst.sa_out \in TakenRegs \cup {None, SaChoice(frame)}
    BY <1>1, <2>2, SaChoiceIsGp
  <2>4. Saved'
    BY <1>1, <2>1, <2>2, <2>3, SameInstance DEF Saved
  <2> QED
    BY <1>1, <2>1, <2>4, SameInstance DEF IInv, FrameInv, Running, Phases
<1> QED
  BY <1>2, <1>3

LEMMA BeginArgsKeeps ==
  ASSUME IInv, BeginArgs
  PROVE  IInv'
<1> DEFINE sa == SaChoice(frame)
           vs == IF SaRequired THEN Args \cup {SA} ELSE Args
           more == IF SaRequired THEN {sa, inst.sa_out} \ {None} ELSE {}
<1>1. /\ phase = "prolog" /\ ~Refused(frame) /\ phase' = "stack" /\ next' = 1
      /\ inst' = inst /\ frame' = frame /\ slots' = slots
      /\ cur' = [v \in vs |-> IF v = SA THEN sa ELSE inst.src[v]]
      /\ out' = [v \in vs |-> IF v = SA THEN inst.sa_out ELSE inst.dst[v]]
      /\ done' = {v \in Args : DoneAtOnce(v)}
                    \cup (IF SaRequired /\ inst.sa_out = None THEN {SA} ELSE {})
      /\ held' = [r \in Regs |-> IF \E v \in vs : cur'[v] = r
                                 THEN CHOOSE v \in vs : cur'[v] = r ELSE None]
      /\ work' = WorkRegs(frame.dirty) \cup more
      /\ regs' = [r \in Regs |-> IF SaRequired /\ r = sa THEN Value(SA, FALSE)
                                 ELSE IF held'[r] # None THEN Value(held'[r], FALSE)
                                 ELSE Junk]
      /\ written' = IF SaRequired THEN {sa} ELSE {}
  BY DEF BeginArgs
<1> HIDE DEF vs, more
<1>2. /\ IsInstance(inst) /\ Saved /\ slots \in [Args -> Values] /\ written = {}
  BY <1>1 DEF IInv, FrameInv
<1>3. /\ Args \subseteq Nat \ {0} /\ SA \in Nat \ {0} /\ SA \notin Args
      /\ inst.src \in [Args -> Places] /\ inst.dst \in [Args -> Places]
  BY <1>2, InstanceTypes
<1>4. SaRequired => /\ sa \in GpRegs /\ sa \in frame.dirty /\ sa \notin TakenRegs
                    /\ inst.sa_out \in GpRegs \cup {None} /\ inst.sa_out \in frame.dirty \cup {None}
                    /\ inst.sa_out \notin DstRegs
  <2>1. SaRequired => frame.sa_reg # None
    BY <1>2, Basics DEF Saved
  <2>2. frame.sa_reg # None => sa = frame.sa_reg
    BY DEF SaChoice
  <2> QED
    BY <1>1, <1>2, <2>1, <2>2 DEF Saved, Refused, IsInstance
<1>5. vs \subseteq Nat \ {0} /\ Args \subseteq vs /\ (SA \in vs <=> SaRequired)
      /\ vs \subseteq Args \cup {SA}
  BY <1>3 DEF vs
<1>6. cur' \in [vs -> Places] /\ out' \in [vs -> Places \cup {None}]
  BY <1>1, <1>3, <1>4, <1>5, Basics DEF Places
<1>7. ASSUME NEW v \in vs, NEW w \in vs, cur'[v] = cur'[w], cur'[v] \in Regs
      PROVE  v = w
  <2>1. \A u \in Args : inst.src[u] \in Regs => inst.src[u] \in TakenRegs
    BY DEF TakenRegs
  <2>2. CASE v = SA \/ w = SA
    BY <1>1, <1>4, <1>5, <1>7, <2>1, <2>2
  <2>3. CASE v # SA /\ w # SA
    <3>1. v \in Args /\ w \in Args /\ inst.src[v] = inst.src[w] /\ inst.src[v] # Stack
      BY <1>1, <1>5, <1>7, <2>3, Basics
    <3> QED
      BY <1>2, <3>1 DEF IsInstance, Args
  <2> QED
    BY <2>2, <2>3
<1>8. ASSUME NEW r \in Regs
      PROVE  /\ held'[r] \in vs \cup {None}
             /\ held'[r] # None => cur'[held'[r]] = r
             /\ \A v \in vs : cur'[v] = r => held'[r] = v
  <2>1. CASE \E v \in vs : cur'[v] = r
    <3>1. held'[r] = CHOOSE v \in vs : cur'[v] = r
      BY <1>1, <2>1
    <3>2. held'[r] \in vs /\ cur'[held'[r]] = r
      BY <2>1, <3>1
    <3> QED
      BY <1>7, <3>2
  <2>2. CASE ~\E v \in vs : cur'[v] = r
    BY <1>1, <2>2
  <2> QED
    BY <2>1, <2>2
<1>9. ASSUME NEW v \in vs, cur'[v] \in Regs
      PROVE  held'[cur'[v]] = v /\ regs'[cur'[v]].of = v
  <2>1. held'[cur'[v]] = v
    BY <1>8, <1>9
  <2>2. v # None
    BY <1>5, Basics
  <2>3. CASE SaRequired /\ cur'[v] = sa
    <3>1. SA \in vs /\ cur'[SA] = sa
      BY <1>1, <1>5, <2>3
    <3>2. v = SA
      BY <1>7, <1>9, <2>3, <3>1
    <3> QED
      BY <1>1, <1>9, <2>1, <2>3, <3>2 DEF Value
  <2>4. CASE ~(SaRequired /\ cur'[v] = sa)
    BY <1>1, <1>9, <2>1, <2>2, <2>4 DEF Value
  <2> QED
    BY <2>1, <2>3, <2>4
<1>10. Vars' = vs /\ Args' = Args /\ SA' = SA /\ (SaRequired' <=> SaRequired)
  BY <1>1, <1>6, SameInstance DEF Vars
<1>11. Types'
  <2>1. done' \subseteq vs
    BY <1>1, <1>5
  <2>2. held' \in [Regs -> vs \cup {None}]
    BY <1>1, <1>8
  <2>3. work' \subseteq Regs /\ work' \cap Preserved \subseteq frame.dirty
    <3>1. WorkRegs(frame.dirty) \subseteq Regs
          /\ WorkRegs(frame.dirty) \cap Preserved \subseteq frame.dirty
      BY <1>2 DEF WorkRegs, Saved, DstRegs, TakenRegs
    <3>2. more \subseteq Regs /\ more \subseteq frame.dirty
      BY <1>4, Basics DEF more
    <3> QED
      BY <1>1, <3>1, <3>2
  <2>4. regs' \in [Regs -> Values]
    <3>1. ASSUME NEW r \in Regs
          PROVE  /\ Value(SA, FALSE) \in Values /\ Junk \in Values
                 /\ held'[r] # None => Value(held'[r], FALSE) \in Values
      <4>1. held'[r] \in Nat \cup {None}
        BY <1>5, <1>8
      <4> QED
        BY <1>3, <4>1 DEF Values, Value, Junk
    <3> QED
      BY <1>1, <3>1
  <2>5. next' \in Nat
    BY <1>1
  <2> QED
    BY <1>1, <1>6, <1>10, <2>1, <2>2, <2>3, <2>4, <2>5 DEF Types, vs
<1>12. Destinations'
  <2>1. ASSUME NEW v \in vs PROVE {cur'[v], out'[v]} \cap Regs \subseteq work'
    <3>1. CASE v = SA
      BY <1>1, <1>4, <1>5, <3>1, Basics DEF more
    <3>2. CASE v \in Args
      <4>1. cur'[v] = inst.src[v] /\ out'[v] = inst.dst[v]
        BY <1>1, <1>3, <1>5, <3>2
      <4> QED
        BY <1>1, <3>2, <4>1 DEF WorkRegs, DstRegs, TakenRegs
    <3> QED
      BY <1>5, <3>1, <3>2
  <2>2. ASSUME NEW v \in vs, NEW w \in vs, out'[v] = out'[w], out'[v] \in Regs
        PROVE  v = w
    <3>1. \A u \in Args : inst.dst[u] \in Regs => inst.dst[u] \in DstRegs
      BY DEF DstRegs
    <3>2. \A u, x \in Args : inst.dst[u] = inst.dst[x] /\ inst.dst[u] \in Regs => u = x
      BY <1>1 DEF Refused, Overlap
    <3> QED
      BY <1>1, <1>3, <1>4, <1>5, <2>2, <3>1, <3>2
  <2>3. \A v \in vs \ done' : out'[v] # None
    BY <1>1, <1>3, <1>5, Basics DEF Places
  <2>4. \A v \in Args : out'[v] = inst.dst[v]
    BY <1>1, <1>3, <1>5
  <2>5. SA \in vs => out'[SA] = inst.sa_out /\ cur'[SA] \in GpRegs
    BY <1>1, <1>4, <1>5
  <2> QED
    BY <1>1, <1>10, <2>1, <2>2, <2>3, <2>4, <2>5 DEF Destinations
<1>13. Tracked'
  BY <1>8, <1>9, <1>10 DEF Tracked, InReg
<1>14. PointerKept'
  BY <1>1, <1>4, <1>5, <1>9, <1>10, Basics DEF PointerKept
<1>15. ArrivalInv'
  <2>1. ASSUME NEW v \in done' PROVE Arrived(v)'
    <3>1. CASE v \in Args
      <4>1. inst.src[v] = inst.dst[v] /\ inst.src[v] \in Regs
        BY <1>1, <1>3, <2>1, <3>1 DEF DoneAtOnce
      <4>2. cur'[v] = inst.src[v] /\ out'[v] = inst.src[v]
        BY <1>1, <1>3, <1>5, <3>1, <4>1
      <4> QED
        BY <1>5, <1>9, <3>1, <4>1, <4>2, Basics DEF Arrived
    <3>2. CASE v \notin Args
      <4>1. v = SA /\ out'[v] = None
        BY <1>1, <1>3, <1>5, <2>1, <3>2
      <4> QED
        BY <4>1, Basics DEF Arrived
    <3> QED
      BY <3>1, <3>2
  <2>2. ASSUME KeepsGroups(inst), NEW v \in Args, inst.has_swap, cur'[v] \in GpRegs
        PROVE  out'[v] \notin VecRegs
    BY <1>1, <1>3, <1>5, <2>2 DEF KeepsGroups, Args
  <2> QED
    BY <1>1, <1>10, <2>1, <2>2, SameInstance DEF ArrivalInv
<1>16. (phase \in Phases)' /\ FrameInv'
  <2>1. Saved'
    BY <1>1, <1>2, SameInstance DEF Saved
  <2> QED
    BY <1>1, <1>4, <2>1 DEF FrameInv, Phases
<1> QED
  BY <1>1, <1>2, <1>10, <1>11, <1>12, <1>13, <1>14, <1>15, <1>16, SameInstance
  DEF IInv, MovesInv, ShuffleInv, LoadInv, AllDone

-------------------------------------------------------------------------------
(* What goes to the stack *)

LEMMA RunningFacts ==
  ASSUME IInv, Running
  PROVE  /\ Types /\ Destinations /\ Tracked /\ PointerKept /\ ArrivalInv
         /\ Vars \subseteq Nat \ {0} /\ Args \subseteq Vars /\ Vars \subseteq Args \cup {SA}
         /\ SA \notin Args /\ (SA \in Vars <=> SaRequired)
         /\ IsInstance(inst) /\ slots \in [Args -> Values]
<1>1. IsInstance(inst) /\ MovesInv /\ slots \in [Args -> Values]
  BY DEF IInv
<1>2. Args \subseteq Nat \ {0} /\ SA \in Nat \ {0} /\ SA \notin Args
  BY <1>1, InstanceTypes
<1> QED
  BY <1>1, <1>2 DEF MovesInv, Types

\* While the pointer is kept, a load from the stack reads the argument.
LEMMA LoadedValue ==
  ASSUME NEW v \in Nat, Base = None \/ regs[Base].of = SA
  PROVE  Loaded(v) = Value(v, TRUE) /\ Loaded(v) \in Values /\ Loaded(v).of = v
BY DEF Loaded, Value, Values

LEMMA RegToStackKeeps ==
  ASSUME IInv, phase = "stack", NEW v \in Leaving, RegToStack(v),
         UNCHANGED <<inst, frame, cur, out, work, dst, loop>>
  PROVE  IInv'
<1>1. /\ Types /\ Destinations /\ Tracked /\ PointerKept /\ ArrivalInv
      /\ Vars \subseteq Nat \ {0} /\ Args \subseteq Vars /\ Vars \subseteq Args \cup {SA}
      /\ SA \notin Args /\ slots \in [Args -> Values]
  BY RunningFacts DEF Running
<1>2. /\ v \in Args /\ out[v] = Stack /\ v \notin done /\ cur[v] \in Regs
      /\ held' = [held EXCEPT ![cur[v]] = None]
      /\ slots' = [slots EXCEPT ![v] = regs[cur[v]]]
      /\ done' = done \cup {v} /\ phase' = "stack" /\ regs' = regs /\ written' = written
      /\ inst' = inst /\ frame' = frame /\ cur' = cur /\ out' = out /\ work' = work /\ next' = next
  BY DEF Leaving, RegToStack, InReg, loop
<1>3. Vars' = Vars /\ Args' = Args /\ SA' = SA /\ (SaRequired' <=> SaRequired)
  BY <1>2, SameInstance DEF Vars
<1>4. held[cur[v]] = v /\ regs[cur[v]].of = v /\ regs[cur[v]] \in Values
  BY <1>1, <1>2 DEF Tracked, InReg, Types
<1>5. slots' \in [Args -> Values]
  BY <1>1, <1>2, <1>4
<1>6. Types'
  BY <1>1, <1>2, <1>3 DEF Types
<1>7. Destinations'
  BY <1>1, <1>2, <1>3 DEF Destinations
<1>8. Tracked'
  BY <1>1, <1>2, <1>3, <1>4 DEF Tracked, InReg, Types
<1>9. PointerKept'
  BY <1>1, <1>2, <1>3, <1>4, Basics DEF PointerKept, Types, Destinations
<1>10. ArrivalInv'
  <2>1. ASSUME KeepsGroups(inst), NEW u \in done' PROVE Arrived(u)'
    <3>1. CASE u = v
      BY <1>1, <1>2, <1>4, <3>1, Basics DEF Arrived
    <3>2. CASE u # v
      <4>1. u \in done /\ u \in Vars
        BY <1>1, <1>2, <2>1, <3>2 DEF Types
      <4>2. Arrived(u)
        BY <1>1, <2>1, <4>1 DEF ArrivalInv
      <4>3. out[u] = Stack => u \in Args
        BY <1>1, <4>1, Basics DEF Destinations, IsInstance, IInv
      <4> QED
        BY <1>1, <1>2, <1>4, <3>2, <4>1, <4>2, <4>3 DEF Arrived, Types
    <3> QED
      BY <3>1, <3>2
  <2> QED
    BY <1>1, <1>2, <1>3, <2>1, SameInstance DEF ArrivalInv
<1>11. IsInstance(inst)' /\ (phase \in Phases)' /\ FrameInv'
  BY <1>2, FrameKept DEF Running, Phases
<1> QED
  BY <1>2, <1>3, <1>5, <1>6, <1>7, <1>8, <1>9, <1>10, <1>11
  DEF IInv, MovesInv, ShuffleInv, LoadInv, AllDone

LEMMA StackToStackKeeps ==
  ASSUME IInv, phase = "stack", NEW v \in Leaving, StackToStack(v),
         UNCHANGED <<inst, frame, cur, out, work, dst, loop>>
  PROVE  IInv'
<1>1. /\ Types /\ Destinations /\ Tracked /\ PointerKept /\ ArrivalInv
      /\ Vars \subseteq Nat \ {0} /\ Args \subseteq Vars /\ Vars \subseteq Args \cup {SA}
      /\ SA \notin Args /\ slots \in [Args -> Values]
  BY RunningFacts DEF Running
<1>2. /\ v \in Args /\ out[v] = Stack /\ v \notin done /\ cur[v] = Stack /\ v \in Nat
      /\ inst' = inst /\ frame' = frame /\ cur' = cur /\ out' = out /\ work' = work /\ next' = next
      /\ held' = held
  BY <1>1 DEF Leaving, StackToStack, loop
<1>3. CASE Scratch(v) = {}
  <2>1. phase' = "stuck" /\ slots' = slots /\ written' = written
    BY <1>3 DEF StackToStack, memory
  <2>2. IsInstance(inst)' /\ (phase \in Phases)' /\ FrameInv'
    BY <1>2, <2>1, FrameKept DEF Running, Phases, Ended
  <2> QED
    BY <1>1, <1>2, <2>1, <2>2, SameInstance DEF IInv, Running
<1>4. CASE Scratch(v) # {}
  <2> DEFINE r == Min(Scratch(v))
  <2>1. /\ phase' = "stack" /\ regs' = [regs EXCEPT ![r] = Loaded(v)]
        /\ slots' = [slots EXCEPT ![v] = Loaded(v)]
        /\ written' = written \cup {r} /\ done' = done \cup {v}
    BY <1>4 DEF StackToStack
  <2>2. r \in work /\ r \in Regs /\ held[r] = None
    <3>1. Scratch(v) \in SUBSET Nat
      BY Basics DEF Scratch
    <3>2. r \in Scratch(v)
      BY <1>4, <3>1, MinOfNats
    <3> QED
      BY <1>1, <3>2 DEF Scratch, Free, Types
  <2> HIDE DEF r
  <2>3. Vars' = Vars /\ Args' = Args /\ SA' = SA /\ (SaRequired' <=> SaRequired)
    BY <1>2, SameInstance DEF Vars
  <2>4. Loaded(v) \in Values /\ Loaded(v).of = v
    <3>1. Base # None => SA \in Vars /\ Base = cur[SA]
      BY DEF Base
    <3>2. Base = None \/ regs[Base].of = SA
      BY <1>1, <3>1 DEF PointerKept
    <3> QED
      BY <1>2, <3>2, LoadedValue
  <2>5. slots' \in [Args -> Values]
    BY <1>1, <1>2, <2>1, <2>4
  <2>6. Types'
    BY <1>1, <1>2, <2>1, <2>3, <2>4 DEF Types
  <2>7. Destinations'
    BY <1>1, <1>2, <2>1, <2>3 DEF Destinations
  <2>8. Tracked'
    <3>1. ASSUME NEW u \in Vars \ done', cur[u] \in Regs
          PROVE  held[cur[u]] = u /\ regs'[cur[u]].of = u
      <4>1. held[cur[u]] = u /\ regs[cur[u]].of = u /\ u # None
        BY <1>1, <2>1, <3>1, Basics DEF Tracked, InReg
      <4> QED
        BY <1>1, <2>1, <2>2, <3>1, <4>1 DEF Types
    <3> QED
      BY <1>1, <1>2, <2>3, <3>1 DEF Tracked, InReg
  <2>9. PointerKept'
    <3>1. SA \in Vars => held[cur[SA]] = SA /\ regs[cur[SA]].of = SA /\ SA # None /\ cur[SA] \in Regs
      BY <1>1, Basics DEF PointerKept, Destinations
    <3> QED
      BY <1>1, <1>2, <2>1, <2>2, <2>3, <3>1 DEF PointerKept, Types
  <2>10. ArrivalInv'
    <3>1. ASSUME KeepsGroups(inst), NEW u \in done' PROVE Arrived(u)'
      <4>1. CASE u = v
        BY <1>1, <1>2, <2>1, <2>4, <4>1, Basics DEF Arrived
      <4>2. CASE u # v
        <5>1. u \in done /\ u \in Vars /\ u # None
          BY <1>1, <2>1, <3>1, <4>2, Basics DEF Types
        <5>2. Arrived(u)
          BY <1>1, <3>1, <5>1 DEF ArrivalInv
        <5> QED
          BY <1>1, <1>2, <2>1, <2>2, <4>2, <5>1, <5>2 DEF Arrived, Types
      <4> QED
        BY <4>1, <4>2
    <3> QED
      BY <1>1, <1>2, <2>1, <2>3, <3>1, SameInstance DEF ArrivalInv
  <2>11. IsInstance(inst)' /\ (phase \in Phases)' /\ FrameInv'
    BY <1>2, <2>1, <2>2, FrameKept DEF Running, Phases
  <2> QED
    BY <2>1, <2>3, <2>5, <2>6, <2>7, <2>8, <2>9, <2>10, <2>11
    DEF IInv, MovesInv, ShuffleInv, LoadInv, AllDone
<1> QED
  BY <1>3, <1>4

LEMMA StackStepKeeps ==
  ASSUME IInv, StackStep
  PROVE  IInv'
<1>1. phase = "stack" /\ Leaving # {}
  BY DEF StackStep
<1>2. Leaving \in SUBSET Nat
  BY <1>1, RunningFacts DEF Running, Leaving
<1>3. Min(Leaving) \in Leaving
  BY <1>1, <1>2, MinOfNats
<1> QED
  BY <1>1, <1>3, RegToStackKeeps, StackToStackKeeps DEF StackStep

LEMMA StackDoneKeeps ==
  ASSUME IInv, StackDone
  PROVE  IInv'
<1>1. /\ phase = "stack" /\ Leaving = {} /\ phase' = "shuffle" /\ next' = 1 /\ flags' = {}
      /\ inst' = inst /\ frame' = frame /\ UNCHANGED state /\ UNCHANGED memory
  BY DEF StackDone
<1>2. /\ cur' = cur /\ out' = out /\ done' = done /\ held' = held /\ work' = work
      /\ regs' = regs /\ slots' = slots /\ written' = written
  BY <1>1 DEF state, memory
<1>3. /\ Types /\ Destinations /\ Tracked /\ PointerKept /\ ArrivalInv
      /\ Vars \subseteq Nat \ {0} /\ Args \subseteq Vars /\ Vars \subseteq Args \cup {SA}
      /\ slots \in [Args -> Values] /\ IsInstance(inst)
  BY <1>1, RunningFacts DEF Running
<1>4. Vars' = Vars /\ Args' = Args /\ SA' = SA /\ (SaRequired' <=> SaRequired)
  BY <1>1, <1>2, SameInstance DEF Vars
<1>5. ASSUME NEW v \in Vars \ done PROVE out[v] \in Regs
  <2>1. CASE v \in Args
    BY <1>1, <1>3, <1>5, <2>1 DEF Leaving, Types, Places, Destinations
  <2>2. CASE v = SA
    BY <1>3, <1>5, <2>2, Basics DEF Destinations, IsInstance
  <2> QED
    BY <1>3, <2>1, <2>2
<1>6. Types' /\ Destinations' /\ Tracked' /\ PointerKept'
  BY <1>1, <1>2, <1>3, <1>4 DEF Types, Destinations, Tracked, PointerKept, InReg
<1>7. ArrivalInv'
  BY <1>1, <1>2, <1>3, <1>4, SameInstance DEF ArrivalInv, Arrived
<1>8. ShuffleInv'
  <2>1. \A v \in Vars : v >= 1
    BY <1>3
  <2>2. Unsettled' \subseteq Vars
    BY <1>4 DEF Unsettled
  <2> QED
    BY <1>1, <1>2, <1>4, <1>5, <2>1, <2>2 DEF ShuffleInv
<1>9. IsInstance(inst)' /\ (phase \in Phases)' /\ FrameInv'
  BY <1>1, <1>2, FrameKept DEF Running, Phases
<1> QED
  BY <1>1, <1>2, <1>3, <1>4, <1>6, <1>7, <1>8, <1>9 DEF IInv, MovesInv, LoadInv, AllDone

-------------------------------------------------------------------------------
(* Register to register *)

\* Only general purpose registers are of their group.
LEMMA GroupIsGp ==
  ASSUME NEW r \in Regs, NEW q \in Regs, Group(r) = Group(q), r \in GpRegs
  PROVE  q \in GpRegs
BY Basics DEF Group, Regs

\* What a move or an exchange of the variable v leaves to be visited lies ahead.
LEMMA StillAhead ==
  ASSUME IInv, phase = "shuffle", NEW v \in Unsettled, \A u \in ToVisit : v <= u,
         v >= next, Vars' = Vars, next' = v + 1, NEW left \in SUBSET (Unsettled \ {v}),
         "pending" \notin flags
  PROVE  \A u \in left : u >= next'
<1>1. /\ Vars \subseteq Nat \ {0} /\ next \in Nat
      /\ \A u \in Unsettled : u >= next
  BY RunningFacts DEF Running, Types, IInv, MovesInv, ShuffleInv
<1>2. ASSUME NEW u \in left PROVE u >= next'
  <2>1. u \in Unsettled /\ u # v /\ u \in Nat /\ v \in Nat
    BY <1>1 DEF Unsettled
  <2>2. u \in ToVisit
    BY <1>1, <2>1 DEF ToVisit
  <2> QED
    BY <2>1, <2>2
<1> QED
  BY <1>2

\* A move to a register that holds nothing, or that is the destination.
LEMMA EmitMoveKeeps ==
  ASSUME IInv, phase = "shuffle", NEW v \in Unsettled, NEW r \in work,
         EmitMove(v, r), r = out[v] \/ r \in Group(out[v]),
         held[r] = None \/ (r = out[v] /\ held[r] = v),
         next' = v + 1, UNCHANGED <<inst, phase, frame, out, work, dst, iter, slots>>
  PROVE  IInv'
<1>1. /\ Types /\ Destinations /\ Tracked /\ PointerKept /\ ArrivalInv
      /\ Vars \subseteq Nat \ {0} /\ Args \subseteq Vars /\ Vars \subseteq Args \cup {SA}
      /\ SA \notin Args /\ slots \in [Args -> Values]
      /\ \A u \in Vars \ done : out[u] \in Regs
  BY RunningFacts DEF Running, IInv, MovesInv, ShuffleInv
<1>2. /\ regs' = [regs EXCEPT ![r] = Value(regs[cur[v]].of, TRUE)]
      /\ written' = written \cup {r}
      /\ held' = [held EXCEPT ![cur[v]] = None, ![r] = v]
      /\ cur' = [cur EXCEPT ![v] = r]
      /\ done' = IF r = out[v] THEN done \cup {v} ELSE done
      /\ "pending" \in flags'
  BY DEF EmitMove
<1>3. /\ v \in Vars \ done /\ cur[v] \in Regs /\ held[cur[v]] = v /\ regs[cur[v]].of = v
      /\ out[v] \in Regs /\ r \in Regs /\ v \in Nat /\ v # None
  BY <1>1, Basics DEF Unsettled, InReg, Tracked, Types
<1>4. Vars' = Vars /\ Args' = Args /\ SA' = SA /\ (SaRequired' <=> SaRequired)
  BY <1>1, <1>2, SameInstance DEF Vars, Types
<1>5. regs'[r] = Value(v, TRUE) /\ regs'[r] \in Values /\ regs'[r].of = v
  BY <1>1, <1>2, <1>3 DEF Types, Value, Values
<1>6. Types'
  <2>1. cur' \in [Vars -> Places]
    BY <1>1, <1>2, <1>3 DEF Types, Places
  <2>2. done' \subseteq Vars
    BY <1>1, <1>2, <1>3 DEF Types
  <2>3. held' \in [Regs -> Vars \cup {None}]
    BY <1>1, <1>2, <1>3 DEF Types
  <2>4. regs' \in [Regs -> Values]
    BY <1>1, <1>2, <1>3, <1>5 DEF Types
  <2> QED
    BY <1>1, <1>3, <1>4, <2>1, <2>2, <2>3, <2>4 DEF Types
<1>7. Destinations'
  <2>1. v = SA => r \in GpRegs
    <3>1. v = SA => out[v] \in GpRegs
      BY <1>1, <1>3, Basics DEF Destinations, IInv, IsInstance
    <3> QED
      BY <3>1, Basics DEF Group
  <2>2. \A u \in Vars : {cur'[u], out[u]} \cap Regs \subseteq work
    BY <1>1, <1>2, <1>3 DEF Destinations, Types
  <2>3. SA \in Vars => cur'[SA] \in GpRegs
    BY <1>1, <1>2, <1>3, <2>1 DEF Destinations, Types
  <2> QED
    BY <1>1, <1>2, <1>4, <2>2, <2>3 DEF Destinations
<1>8. Tracked'
  <2>1. ASSUME NEW u \in Vars \ done', cur'[u] \in Regs
        PROVE  held'[cur'[u]] = u /\ regs'[cur'[u]].of = u
    <3>1. CASE u = v
      BY <1>1, <1>2, <1>3, <1>5, <3>1 DEF Types
    <3>2. CASE u # v
      <4>1. cur'[u] = cur[u] /\ u \in Vars \ done
        BY <1>1, <1>2, <2>1, <3>2 DEF Types
      <4>2. held[cur[u]] = u /\ regs[cur[u]].of = u /\ u # None
        BY <1>1, <2>1, <4>1, Basics DEF Tracked, InReg
      <4>3. cur[u] # cur[v] /\ cur[u] # r
        BY <1>3, <3>2, <4>2
      <4> QED
        BY <1>1, <1>2, <1>3, <2>1, <4>1, <4>2, <4>3 DEF Types
    <3> QED
      BY <3>1, <3>2
  <2>2. ASSUME NEW x \in Regs, held'[x] # None PROVE cur'[held'[x]] = x
    <3>1. CASE x = r
      BY <1>1, <1>2, <1>3, <3>1 DEF Types
    <3>2. CASE x # r
      <4>1. x # cur[v] /\ held'[x] = held[x]
        BY <1>1, <1>2, <1>3, <2>2, <3>2 DEF Types
      <4>2. held[x] \in Vars /\ cur[held[x]] = x
        BY <1>1, <2>2, <4>1 DEF Types, Tracked
      <4>3. held[x] # v
        BY <4>1, <4>2
      <4> QED
        BY <1>1, <1>2, <4>1, <4>2, <4>3 DEF Types
    <3> QED
      BY <3>1, <3>2
  <2> QED
    BY <1>4, <2>1, <2>2 DEF Tracked, InReg
<1>9. PointerKept'
  <2>1. ASSUME SA \in Vars PROVE held'[cur'[SA]] = SA /\ regs'[cur'[SA]].of = SA
    <3>1. held[cur[SA]] = SA /\ regs[cur[SA]].of = SA /\ cur[SA] \in Regs /\ SA # None
      BY <1>1, <2>1, Basics DEF PointerKept, Destinations
    <3>2. CASE SA = v
      BY <1>1, <1>2, <1>3, <1>5, <3>2 DEF Types
    <3>3. CASE SA # v
      <4>1. cur[SA] # cur[v] /\ cur[SA] # r /\ cur'[SA] = cur[SA]
        BY <1>1, <1>2, <1>3, <2>1, <3>1, <3>3 DEF Types
      <4> QED
        BY <1>1, <1>2, <1>3, <3>1, <4>1 DEF Types
    <3> QED
      BY <3>2, <3>3
  <2> QED
    BY <1>4, <2>1 DEF PointerKept
<1>10. ArrivalInv'
  <2>1. ASSUME KeepsGroups(inst), NEW u \in done' PROVE Arrived(u)'
    <3>1. CASE u = v
      <4>1. r = out[v]
        BY <1>2, <1>3, <2>1, <3>1
      <4> QED
        BY <1>1, <1>2, <1>3, <1>5, <3>1, <4>1, Basics DEF Arrived, Types
    <3>2. CASE u # v
      <4>1. u \in done /\ u \in Vars /\ u # None
        BY <1>1, <1>2, <2>1, <3>2, Basics DEF Types
      <4>2. Arrived(u)
        BY <1>1, <2>1, <4>1 DEF ArrivalInv
      <4>3. out[u] \in Regs => out[u] # r /\ out[u] # cur[v]
        BY <1>3, <3>2, <4>1, <4>2 DEF Arrived
      <4> QED
        BY <1>1, <1>2, <1>3, <4>2, <4>3 DEF Arrived, Types
    <3> QED
      BY <3>1, <3>2
  <2>2. ASSUME KeepsGroups(inst), NEW u \in Args \ done', inst.has_swap, cur'[u] \in GpRegs
        PROVE  out[u] \notin VecRegs
    <3>1. CASE u = v
      <4>1. r \in GpRegs
        BY <1>1, <1>2, <1>3, <2>2, <3>1 DEF Types
      <4>2. out[v] \in GpRegs
        BY <1>3, <4>1, Basics DEF Group
      <4> QED
        BY <3>1, <4>2, Basics
    <3>2. CASE u # v
      BY <1>1, <1>2, <2>2, <3>2 DEF ArrivalInv, Types
    <3> QED
      BY <3>1, <3>2
  <2> QED
    BY <1>4, <2>1, <2>2, SameInstance DEF ArrivalInv
<1>11. ShuffleInv'
  BY <1>1, <1>2, <1>4 DEF ShuffleInv
<1>12. IsInstance(inst)' /\ (phase \in Phases)' /\ FrameInv'
  BY <1>2, FrameKept DEF Running, Phases
<1> QED
  BY <1>1, <1>4, <1>6, <1>7, <1>8, <1>9, <1>10, <1>11, <1>12 DEF IInv, MovesInv, LoadInv, AllDone

\* An exchange with the variable in the way.  Both are where they go, or the
\* other one is the stack argument pointer, which goes nowhere.
LEMMA EmitSwapKeeps ==
  ASSUME IInv, phase = "shuffle", NEW v \in ToVisit, \A u \in ToVisit : v <= u,
         Group(cur[v]) = Group(out[v]), held[out[v]] \notin {None, v},
         Exchangeable(v, held[out[v]]), SwapsRegs(cur[v]), EmitSwap(v, held[out[v]]),
         next' = v + 1, UNCHANGED <<inst, phase, frame, out, work, dst, iter, slots>>
  PROVE  IInv'
<1> DEFINE w == held[out[v]]
           a == cur[v]
           b == out[v]
<1>1. /\ Types /\ Destinations /\ Tracked /\ PointerKept /\ ArrivalInv /\ ShuffleInv
      /\ Vars \subseteq Nat \ {0} /\ Args \subseteq Vars /\ Vars \subseteq Args \cup {SA}
      /\ SA \notin Args /\ slots \in [Args -> Values] /\ IsInstance(inst)
      /\ \A u \in Vars \ done : out[u] \in Regs
  BY RunningFacts DEF Running, IInv, MovesInv, ShuffleInv
<1>2. /\ regs' = [regs EXCEPT ![a] = regs[b], ![b] = regs[a]]
      /\ written' = written \cup {a, b}
      /\ held' = [held EXCEPT ![a] = w, ![b] = v]
      /\ cur' = [cur EXCEPT ![v] = b, ![w] = a]
      /\ done' = done \cup {v} \cup (IF out[w] = None THEN {} ELSE {w})
      /\ flags' = flags \cup {"did"}
  BY DEF EmitSwap
<1>3. /\ v \in Unsettled /\ v >= next /\ v \in Vars \ done /\ v \in Nat /\ v # None
      /\ a \in Regs /\ b \in Regs /\ held[a] = v /\ regs[a].of = v
  BY <1>1, Basics DEF ToVisit, Unsettled, InReg, Tracked
<1>4. /\ w \in Vars /\ w # v /\ w # None /\ w \in Nat /\ cur[w] = b /\ a # b
  <2>1. w \in Vars /\ w # v /\ w # None
    BY <1>1, <1>3 DEF Types
  <2>2. cur[w] = b
    BY <1>1, <1>3, <2>1 DEF Tracked
  <2> QED
    BY <1>1, <1>3, <2>1, <2>2
<1>5. a \in GpRegs /\ b \in GpRegs /\ inst.has_swap
  <2>1. a \in GpRegs /\ inst.has_swap
    BY DEF SwapsRegs
  <2> QED
    BY <1>3, <2>1, GroupIsGp
<1>6. out[w] = None => w = SA
  BY <1>1, <1>4, InstanceTypes, Basics DEF Destinations, Places
<1>7. /\ cur'[v] = b /\ cur'[w] = a /\ \A u \in Vars \ {v, w} : cur'[u] = cur[u]
      /\ held'[a] = w /\ held'[b] = v /\ \A x \in Regs \ {a, b} : held'[x] = held[x]
      /\ regs'[a] = regs[b] /\ regs'[b] = regs[a]
      /\ \A x \in Regs \ {a, b} : regs'[x] = regs[x]
  BY <1>1, <1>2, <1>3, <1>4 DEF Types
<1>8. Vars' = Vars /\ Args' = Args /\ SA' = SA /\ (SaRequired' <=> SaRequired)
  BY <1>1, <1>2, SameInstance DEF Vars, Types
<1>9. v \in done' /\ done \subseteq done' /\ done' \subseteq done \cup {v, w}
      /\ (w \in done' \/ w = SA)
  BY <1>2, <1>6
<1> HIDE DEF w, a, b
<1>10. Types'
  <2>1. cur' \in [Vars -> Places] /\ held' \in [Regs -> Vars \cup {None}] /\ regs' \in [Regs -> Values]
    BY <1>1, <1>2, <1>3, <1>4 DEF Types, Places
  <2> QED
    BY <1>1, <1>3, <1>4, <1>8, <1>9, <2>1 DEF Types
<1>11. Destinations'
  <2>1. a \in work /\ b \in work
    BY <1>1, <1>3 DEF Destinations, a, b
  <2>2. \A u \in Vars : {cur'[u], out[u]} \cap Regs \subseteq work
    BY <1>1, <1>7, <2>1 DEF Destinations
  <2>3. SA \in Vars => cur'[SA] \in GpRegs
    BY <1>1, <1>5, <1>7 DEF Destinations
  <2> QED
    BY <1>1, <1>8, <1>9, <2>2, <2>3 DEF Destinations
<1>12. w \notin done => regs[b].of = w
  BY <1>1, <1>3, <1>4 DEF Tracked, InReg
<1>13. Tracked'
  <2>1. ASSUME NEW u \in Vars \ done', cur'[u] \in Regs
        PROVE  held'[cur'[u]] = u /\ regs'[cur'[u]].of = u
    <3>1. CASE u = w
      BY <1>7, <1>9, <1>12, <2>1, <3>1
    <3>2. CASE u # w
      <4>1. cur'[u] = cur[u] /\ u \in Vars \ done /\ u # v
        BY <1>7, <1>9, <2>1, <3>2
      <4>2. held[cur[u]] = u /\ regs[cur[u]].of = u
        BY <1>1, <2>1, <4>1 DEF Tracked, InReg
      <4>3. cur[u] # a /\ cur[u] # b
        BY <1>3, <3>2, <4>1, <4>2 DEF w, b
      <4> QED
        BY <1>7, <2>1, <4>1, <4>2, <4>3
    <3> QED
      BY <3>1, <3>2
  <2>2. ASSUME NEW x \in Regs, held'[x] # None PROVE cur'[held'[x]] = x
    <3>1. CASE x \in {a, b}
      BY <1>7, <3>1
    <3>2. CASE x \notin {a, b}
      <4>1. held'[x] = held[x] /\ held[x] \in Vars /\ cur[held[x]] = x
        BY <1>1, <1>7, <2>2, <3>2 DEF Types, Tracked
      <4>2. held[x] # v /\ held[x] # w
        BY <1>4, <3>2, <4>1 DEF a
      <4> QED
        BY <1>7, <4>1, <4>2
    <3> QED
      BY <3>1, <3>2
  <2> QED
    BY <1>8, <2>1, <2>2 DEF Tracked, InReg
<1>14. PointerKept'
  <2>1. ASSUME SA \in Vars PROVE held'[cur'[SA]] = SA /\ regs'[cur'[SA]].of = SA
    <3>1. held[cur[SA]] = SA /\ regs[cur[SA]].of = SA /\ cur[SA] \in Regs
      BY <1>1, <2>1, Basics DEF PointerKept, Destinations
    <3>2. CASE SA = v
      BY <1>3, <1>7, <3>2
    <3>3. CASE SA = w
      BY <1>4, <1>7, <3>1, <3>3
    <3>4. CASE SA \notin {v, w}
      <4>1. cur[SA] # a /\ cur[SA] # b /\ cur'[SA] = cur[SA]
        BY <1>3, <1>7, <2>1, <3>1, <3>4 DEF w, b
      <4> QED
        BY <1>7, <3>1, <4>1
    <3> QED
      BY <3>2, <3>3, <3>4
  <2> QED
    BY <1>8, <2>1 DEF PointerKept
<1>15. ArrivalInv'
  <2>1. ASSUME KeepsGroups(inst), out[w] # None
        PROVE  w \notin done /\ out[w] = a /\ regs[b].of = w
    <3>1. out[w] \in Regs /\ Id(out[w]) = Id(a)
      BY <2>1 DEF Exchangeable, ToReg, w, a
    <3>2. w \notin done
      <4> SUFFICES ASSUME w \in done PROVE FALSE
        OBVIOUS
      <4>1. held[out[w]] = w
        BY <1>1, <2>1, <3>1 DEF ArrivalInv, Arrived
      <4>2. out[w] = b
        BY <1>1, <1>4, <3>1, <4>1 DEF Tracked
      <4> QED
        BY <1>1, <1>3, <1>4, <4>2 DEF Destinations, b
    <3>3. out[w] \in GpRegs
      <4>1. CASE w \in Args
        BY <1>1, <1>4, <1>5, <2>1, <3>1, <3>2, <4>1 DEF ArrivalInv, Regs
      <4>2. CASE w = SA
        BY <1>1, <1>4, <2>1, <4>2 DEF Destinations, IsInstance
      <4> QED
        BY <1>1, <1>4, <4>1, <4>2
    <3> QED
      BY <1>5, <1>12, <3>1, <3>2, <3>3 DEF Id
  <2>2. ASSUME KeepsGroups(inst), NEW u \in done' PROVE Arrived(u)'
    <3>1. CASE u = v
      BY <1>3, <1>7, <3>1, Basics DEF Arrived, b
    <3>2. CASE u # v /\ u \notin done
      <4>1. u = w /\ out[w] # None
        BY <1>2, <2>2, <3>2
      <4> QED
        BY <1>3, <1>7, <2>1, <2>2, <4>1, Basics DEF Arrived
    <3>3. CASE u # v /\ u \in done
      <4>1. Arrived(u) /\ u \in Vars
        BY <1>1, <2>2, <3>3 DEF ArrivalInv, Types
      <4>2. u = w => out[u] = None
        BY <2>1, <2>2, <3>3
      <4>3. out[u] \in Regs => out[u] # a /\ out[u] # b
        BY <1>1, <1>3, <3>3, <4>1 DEF Arrived, Destinations, b
      <4> QED
        BY <1>7, <4>1, <4>2, <4>3, Basics DEF Arrived
    <3> QED
      BY <3>1, <3>2, <3>3
  <2>3. ASSUME KeepsGroups(inst), NEW u \in Args \ done', inst.has_swap, cur'[u] \in GpRegs
        PROVE  out[u] \notin VecRegs
    <3>1. u \notin {v, w} /\ u \in Vars
      BY <1>1, <1>9, <2>3
    <3> QED
      BY <1>1, <1>7, <1>9, <2>3, <3>1 DEF ArrivalInv
  <2> QED
    BY <1>8, <2>2, <2>3, SameInstance DEF ArrivalInv
<1>16. ShuffleInv'
  <2>1. ASSUME "pending" \notin flags' PROVE \A u \in Unsettled' : u >= next'
    <3>1. "pending" \notin flags
      BY <1>2, <2>1
    <3>2. Unsettled' \subseteq Unsettled \ {v}
      <4>1. ASSUME NEW u \in Unsettled' PROVE u \in Unsettled \ {v}
        <5>1. u \in Vars \ done' /\ cur'[u] \in Regs
          BY <1>8 DEF Unsettled, InReg
        <5>2. u = w => cur[u] \in Regs
          BY <1>3, <1>4
        <5> QED
          BY <1>7, <1>9, <5>1, <5>2 DEF Unsettled, InReg
      <4> QED
        BY <4>1
    <3> QED
      BY <1>3, <1>8, <3>1, <3>2, StillAhead
  <2> QED
    BY <1>1, <1>8, <1>9, <2>1 DEF ShuffleInv
<1>17. IsInstance(inst)' /\ (phase \in Phases)' /\ FrameInv'
  <2>1. written' \subseteq written \cup work
    BY <1>1, <1>2, <1>3 DEF Destinations, a, b
  <2> QED
    BY <2>1, FrameKept DEF Running, Phases
<1> QED
  BY <1>1, <1>8, <1>10, <1>11, <1>13, <1>14, <1>15, <1>16, <1>17
  DEF IInv, MovesInv, LoadInv, AllDone

\* Steps that move nothing keep what is about places and contents.
LEMMA PlacesKept ==
  ASSUME IInv, Running, UNCHANGED <<inst, frame, cur, out, done, held, work, regs, slots, written>>,
         next' \in Nat, phase' \in Phases \ {"frame", "prolog"},
         phase' \in {"stack", "shuffle"} => phase' = phase
  PROVE  /\ IsInstance(inst)' /\ (phase \in Phases)' /\ FrameInv'
         /\ (slots \in [Args -> Values])' /\ Vars' = Vars
         /\ Types' /\ Destinations' /\ Tracked' /\ PointerKept' /\ ArrivalInv'
<1>1. Types /\ Destinations /\ Tracked /\ PointerKept /\ ArrivalInv /\ slots \in [Args -> Values]
  BY RunningFacts
<1>2. Vars' = Vars /\ Args' = Args /\ SA' = SA /\ (SaRequired' <=> SaRequired)
  BY SameInstance DEF Vars
<1>3. Types' /\ Destinations' /\ Tracked' /\ PointerKept'
  BY <1>1, <1>2 DEF Types, Destinations, Tracked, PointerKept, InReg
<1>4. ArrivalInv'
  BY <1>1, <1>2, SameInstance DEF ArrivalInv, Arrived
<1>5. IsInstance(inst)' /\ (phase \in Phases)' /\ FrameInv'
  BY FrameKept
<1> QED
  BY <1>1, <1>2, <1>3, <1>4, <1>5

\* The moves end with an error.
LEMMA StopKeeps ==
  ASSUME IInv, Running, UNCHANGED <<inst, frame, slots, written>>, phase' \in {"mixed", "stuck"}
  PROVE  IInv'
<1>1. IsInstance(inst)' /\ (phase \in Phases)' /\ FrameInv'
  BY FrameKept DEF Phases, Ended
<1> QED
  BY <1>1, SameInstance DEF IInv, Running

LEMMA ShuffleStepKeeps ==
  ASSUME IInv, ShuffleStep
  PROVE  IInv'
<1> DEFINE v == Min(ToVisit)
           w == held[out[v]]
<1>1. phase = "shuffle" /\ ToVisit # {}
  BY DEF ShuffleStep
<1>2. Types /\ Vars \subseteq Nat \ {0} /\ (\A u \in Vars \ done : out[u] \in Regs)
  BY <1>1, RunningFacts DEF Running, IInv, MovesInv, ShuffleInv
<1>3. v \in ToVisit /\ \A u \in ToVisit : v <= u
  <2>1. ToVisit \in SUBSET Nat
    BY <1>2 DEF ToVisit, Unsettled
  <2> QED
    BY <1>1, <2>1, MinOfNats
<1>4. /\ v \in Unsettled /\ v \in Vars \ done /\ v \in Nat /\ cur[v] \in Regs /\ out[v] \in Regs
      /\ v # None
  BY <1>2, <1>3, Basics DEF ToVisit, Unsettled, InReg
<1> HIDE DEF v
<1>5. CASE Group(cur[v]) # Group(out[v])
  <2>1. Stop("mixed")
    BY <1>5 DEF ShuffleStep, v
  <2> QED
    BY <1>1, <2>1, StopKeeps DEF Stop, Running, memory
<1>6. CASE Group(cur[v]) = Group(out[v])
  <2>1. /\ \/ WayIsClear(v) /\ EmitMove(v, out[v])
           \/ ~WayIsClear(v) /\ ~Exchangeable(v, w) /\ Wait
           \/ /\ ~WayIsClear(v) /\ Exchangeable(v, w)
              /\ \/ SwapsRegs(cur[v]) /\ EmitSwap(v, w)
                 \/ /\ ~SwapsRegs(cur[v])
                    /\ IF Spare(v) = {} THEN Wait ELSE EmitMove(v, Min(Spare(v)))
        /\ next' = v + 1
        /\ UNCHANGED <<inst, phase, frame, out, work, dst, iter, slots>>
    BY <1>6 DEF ShuffleStep, v
  <2>2. CASE WayIsClear(v) /\ EmitMove(v, out[v])
    <3>1. out[v] \in work
      BY <1>1, <1>2, <1>4, RunningFacts DEF Running, Destinations
    <3>2. held[out[v]] = None \/ held[out[v]] = v
      BY <2>2 DEF WayIsClear
    <3> QED
      BY <1>1, <1>4, <2>1, <2>2, <3>1, <3>2, EmitMoveKeeps
  <2>3. CASE Wait
    <3>1. /\ "pending" \in flags' /\ UNCHANGED <<cur, held, done, regs, written>>
      BY <2>3 DEF Wait
    <3>2. /\ IsInstance(inst)' /\ (phase \in Phases)' /\ FrameInv'
          /\ (slots \in [Args -> Values])' /\ Vars' = Vars
          /\ Types' /\ Destinations' /\ Tracked' /\ PointerKept' /\ ArrivalInv'
      BY <1>1, <1>4, <2>1, <3>1, PlacesKept DEF Running, Phases
    <3>3. ShuffleInv'
      BY <1>2, <2>1, <3>1, <3>2 DEF ShuffleInv
    <3> QED
      BY <1>1, <2>1, <3>2, <3>3 DEF IInv, MovesInv, LoadInv, AllDone
  <2>4. CASE ~WayIsClear(v) /\ Exchangeable(v, w) /\ SwapsRegs(cur[v]) /\ EmitSwap(v, w)
    <3>1. w \notin {None, v}
      BY <2>4 DEF WayIsClear
    <3> QED
      BY <1>1, <1>3, <1>6, <2>1, <2>4, <3>1, EmitSwapKeeps
  <2>5. CASE Spare(v) # {} /\ EmitMove(v, Min(Spare(v)))
    <3>1. Spare(v) \in SUBSET Nat
      BY <1>2, Basics DEF Spare, Free, Types
    <3>2. Min(Spare(v)) \in Spare(v)
      BY <2>5, <3>1, MinOfNats
    <3>3. Min(Spare(v)) \in work /\ held[Min(Spare(v))] = None /\ Min(Spare(v)) \in Group(out[v])
      BY <3>2 DEF Spare, Free
    <3> QED
      BY <1>1, <1>4, <2>1, <2>5, <3>3, EmitMoveKeeps
  <2> QED
    BY <2>1, <2>2, <2>3, <2>4, <2>5
<1> QED
  BY <1>5, <1>6

LEMMA PassDoneKeeps ==
  ASSUME IInv, PassDone
  PROVE  IInv'
<1>1. /\ phase = "shuffle" /\ ToVisit = {}
      /\ UNCHANGED <<inst, frame, cur, out, done, held, work, regs, slots, written>>
      /\ \/ "pending" \notin flags /\ phase' = "load" /\ next' = 1 /\ iter' = [count |-> 1, index |-> 0]
         \/ phase' = "stuck"
         \/ next' = 1 /\ phase' = phase
  BY DEF PassDone, state, memory
<1>2. CASE phase' = "stuck"
  BY <1>1, <1>2, StopKeeps DEF Running
<1>3. CASE phase' # "stuck"
  <2>1. /\ Vars \subseteq Nat \ {0} /\ Args \subseteq Vars /\ Vars \subseteq Args \cup {SA}
        /\ Types /\ ShuffleInv /\ (\A u \in Vars \ done : out[u] \in Regs) /\ PointerKept
    BY <1>1, RunningFacts DEF Running, IInv, MovesInv, ShuffleInv
  <2>2. /\ IsInstance(inst)' /\ (phase \in Phases)' /\ FrameInv'
        /\ (slots \in [Args -> Values])' /\ Vars' = Vars
        /\ Types' /\ Destinations' /\ Tracked' /\ PointerKept' /\ ArrivalInv'
    BY <1>1, <1>3, PlacesKept DEF Running, Phases
  <2>3. \A u \in Vars : u >= 1
    BY <2>1
  <2>4. CASE phase' = "shuffle"
    <3>1. next' = 1
      BY <1>1, <1>3, <2>4
    <3>2. ShuffleInv'
      <4>1. Unsettled' \subseteq Vars
        BY <2>2 DEF Unsettled
      <4> QED
        BY <1>1, <2>1, <2>2, <2>3, <3>1, <4>1 DEF ShuffleInv
    <3> QED
      BY <2>2, <2>4, <3>2 DEF IInv, MovesInv, LoadInv, AllDone
  <2>5. CASE phase' = "load"
    <3>1. "pending" \notin flags /\ next' = 1 /\ iter' = [count |-> 1, index |-> 0]
      BY <1>1, <2>5
    <3>2. ASSUME NEW u \in Vars \ done PROVE cur[u] = Stack
      <4>1. u \notin Unsettled
        <5>1. u \in Unsettled => u >= next
          BY <1>1, <2>1, <3>1 DEF ShuffleInv
        <5> QED
          BY <1>1, <5>1 DEF ToVisit
      <4> QED
        BY <2>1, <4>1 DEF Unsettled, InReg, Types, Places
    <3>3. Base' = Base
      BY <1>1, <2>2, SameInstance DEF Base
    <3>4. Base # None => regs[Base].of = SA
      BY <1>1, <2>1 DEF Base, PointerKept
    <3>5. LoadInv'
      BY <1>1, <2>1, <2>2, <2>3, <3>1, <3>2, <3>3, <3>4, SameInstance DEF LoadInv
    <3> QED
      BY <2>2, <2>5, <3>5 DEF IInv, MovesInv, ShuffleInv, AllDone
  <2> QED
    BY <1>1, <1>3, <2>4, <2>5
<1> QED
  BY <1>2, <1>3

-------------------------------------------------------------------------------
(* Loads from the stack *)

LEMMA LoadKeeps ==
  ASSUME IInv, phase = "load", NEW v \in ToLoad, \A u \in ToLoad : v <= u,
         Load(v), ~PutsOff(v), next' = v + 1,
         UNCHANGED <<inst, phase, frame, out, work, dst, flags>>
  PROVE  IInv'
<1> DEFINE r == out[v]
<1>1. /\ Types /\ Destinations /\ Tracked /\ ArrivalInv
      /\ Vars \subseteq Nat \ {0} /\ Args \subseteq Vars /\ Vars \subseteq Args \cup {SA}
      /\ (SA \in Vars <=> SaRequired) /\ slots \in [Args -> Values] /\ IsInstance(inst)
  BY RunningFacts DEF Running
<1>2. LoadInv /\ \A u \in Vars \ done : cur[u] = Stack /\ out[u] \in Regs
  BY DEF IInv, MovesInv, Running, LoadInv
<1>3. /\ held' = [held EXCEPT ![r] = v] /\ cur' = [cur EXCEPT ![v] = r] /\ done' = done \cup {v}
      /\ regs' = [regs EXCEPT ![r] = Loaded(v)] /\ written' = written \cup {r}
      /\ iter' = iter /\ slots' = slots
  BY DEF Load
<1>4. /\ v \in Vars \ done /\ v \in Nat /\ v >= next /\ cur[v] = Stack /\ r \in Regs
      /\ v # SA /\ v # None /\ next \in Nat
  <2>1. v \in Vars \ done /\ v >= next /\ cur[v] = Stack /\ next \in Nat
    BY <1>1 DEF ToLoad, Types
  <2>2. v \in Nat /\ v # None /\ r \in Regs
    BY <1>1, <1>2, <2>1, Basics
  <2>3. SA \in Vars => cur[SA] # Stack
    BY <1>1, Basics DEF Destinations
  <2> QED
    BY <2>1, <2>2, <2>3
<1> HIDE DEF r
<1>5. Base = None \/ regs[Base].of = SA
  BY <1>2, <1>4 DEF LoadInv
<1>6. Loaded(v) \in Values /\ Loaded(v).of = v
  BY <1>4, <1>5, LoadedValue
<1>7. Vars' = Vars /\ Args' = Args /\ SA' = SA /\ (SaRequired' <=> SaRequired)
  BY <1>1, <1>3, SameInstance DEF Vars, Types
<1>8. /\ cur'[v] = r /\ \A u \in Vars \ {v} : cur'[u] = cur[u]
      /\ held'[r] = v /\ \A x \in Regs \ {r} : held'[x] = held[x]
      /\ regs'[r] = Loaded(v) /\ \A x \in Regs \ {r} : regs'[x] = regs[x]
  BY <1>1, <1>3, <1>4 DEF Types
<1>9. Types'
  <2>1. cur' \in [Vars -> Places] /\ held' \in [Regs -> Vars \cup {None}] /\ regs' \in [Regs -> Values]
    BY <1>1, <1>3, <1>4, <1>6 DEF Types, Places
  <2> QED
    BY <1>1, <1>3, <1>4, <1>7, <2>1 DEF Types
<1>10. Destinations'
  <2>1. \A u \in Vars : {cur'[u], out[u]} \cap Regs \subseteq work
    BY <1>1, <1>4, <1>8 DEF Destinations, r
  <2>2. SA \in Vars => cur'[SA] \in GpRegs
    BY <1>1, <1>4, <1>8 DEF Destinations
  <2> QED
    BY <1>1, <1>3, <1>7, <2>1, <2>2 DEF Destinations
<1>11. Tracked'
  <2>1. ASSUME NEW u \in Vars \ done' PROVE cur'[u] \notin Regs
    <3>1. u \in Vars \ done /\ u # v /\ u \in Vars
      BY <1>3, <2>1
    <3>2. cur'[u] = Stack
      BY <1>2, <1>8, <3>1
    <3> QED
      BY <3>2, Basics
  <2>2. ASSUME NEW x \in Regs, held'[x] # None PROVE cur'[held'[x]] = x
    <3>1. CASE x = r
      BY <1>8, <3>1
    <3>2. CASE x # r
      <4>1. held'[x] = held[x] /\ held[x] \in Vars /\ cur[held[x]] = x
        BY <1>1, <1>8, <2>2, <3>2 DEF Types, Tracked
      <4>2. held[x] # v
        BY <1>4, <4>1, Basics
      <4> QED
        BY <1>8, <4>1, <4>2
    <3> QED
      BY <3>1, <3>2
  <2> QED
    BY <1>7, <2>1, <2>2 DEF Tracked, InReg
<1>12. ArrivalInv'
  <2>1. ASSUME KeepsGroups(inst), NEW u \in done' PROVE Arrived(u)'
    <3>1. CASE u = v
      BY <1>4, <1>6, <1>8, <3>1, Basics DEF Arrived, r
    <3>2. CASE u # v
      <4>1. u \in done /\ u \in Vars /\ Arrived(u)
        BY <1>1, <1>3, <2>1, <3>2 DEF ArrivalInv, Types
      <4>2. out[u] \in Regs => out[u] # r
        BY <1>1, <1>4, <3>2, <4>1 DEF Destinations, r
      <4> QED
        BY <1>3, <1>8, <4>1, <4>2 DEF Arrived
    <3> QED
      BY <3>1, <3>2
  <2>2. ASSUME NEW u \in Args \ done' PROVE cur'[u] = Stack
    BY <1>1, <1>2, <1>3, <1>8, <2>2 DEF LoadInv
  <2> QED
    BY <1>7, <2>1, <2>2, SameInstance, Basics DEF ArrivalInv
<1>13. LoadInv'
  <2>1. Base' = Base
    BY <1>4, <1>7, <1>8 DEF Base
  <2>2. ASSUME NEW u \in Vars \ done'
        PROVE  /\ u \in Vars \ done /\ u # v /\ cur[u] = Stack /\ cur'[u] = Stack /\ out[u] \in Regs
               /\ out[u] # r /\ (u >= next => u >= next')
    <3>1. u \in Vars \ done /\ u # v
      BY <1>3, <2>2
    <3>2. cur[u] = Stack /\ out[u] \in Regs
      BY <1>2, <3>1 DEF LoadInv
    <3>3. out[u] # r
      BY <1>1, <1>4, <3>1, <3>2 DEF Destinations, r
    <3>4. u >= next => u \in ToLoad
      BY <3>1, <3>2 DEF ToLoad
    <3>5. cur'[u] = Stack
      BY <1>8, <3>1, <3>2
    <3>6. u \in Nat
      BY <1>1, <3>1
    <3>7. u >= next => u >= next'
      BY <1>4, <3>1, <3>4, <3>6
    <3> QED
      BY <3>1, <3>2, <3>3, <3>5, <3>7
  <2>3. r = Base => Vars \ done' = {}
    <3> SUFFICES ASSUME r = Base, NEW u \in Vars \ done' PROVE FALSE
      OBVIOUS
    <3>1. iter.count = 2
      BY <1>2 DEF PutsOff, LoadInv, r
    <3>2. CASE iter.index = 0
      <4>1. PICK x \in Vars \ done : out[x] = Base /\ x < next
        BY <1>2, <3>1, <3>2 DEF LoadInv
      <4>2. x = v
        BY <1>1, <1>4, <4>1 DEF Destinations, r
      <4> QED
        BY <1>4, <4>1, <4>2
    <3>3. CASE iter.index = 1
      BY <1>2, <2>2, <3>3 DEF LoadInv
    <3> QED
      BY <1>2, <3>2, <3>3 DEF LoadInv
  <2>4. iter.index = 0 /\ iter.count = 2 => \E u \in Vars \ done' : out[u] = Base /\ u < next'
    <3> SUFFICES ASSUME iter.index = 0, iter.count = 2
                 PROVE  \E u \in Vars \ done' : out[u] = Base /\ u < next'
      OBVIOUS
    <3>1. PICK x \in Vars \ done : out[x] = Base /\ x < next
      BY <1>2 DEF LoadInv
    <3>2. x # v /\ x \in Nat
      BY <1>1, <1>4, <3>1
    <3> QED
      BY <1>3, <1>4, <3>1, <3>2
  <2>5. Base # None /\ Vars \ done' # {} => regs'[Base].of = SA
    <3>1. Base # None => Base \in Regs
      BY <1>1, Basics DEF Base, Destinations
    <3> QED
      BY <1>5, <1>8, <2>3, <3>1
  <2>6. \A u \in Vars \ done' : cur'[u] = Stack /\ out'[u] \in Regs
    BY <2>2
  <2>7. iter.index = 0 => \A u \in Vars \ done' : u >= next' \/ (iter.count = 2 /\ out[u] = Base)
    BY <1>2, <2>2 DEF LoadInv
  <2>8. iter.index = 1 => \A u \in Vars \ done' : u >= next' /\ out[u] = Base
    BY <1>2, <2>2 DEF LoadInv
  <2> QED
    BY <1>2, <1>3, <1>7, <2>1, <2>4, <2>5, <2>6, <2>7, <2>8 DEF LoadInv
<1>14. IsInstance(inst)' /\ (phase \in Phases)' /\ FrameInv'
  <2>1. r \in work
    BY <1>1, <1>4 DEF Destinations, r
  <2> QED
    BY <1>3, <2>1, FrameKept DEF Running, Phases
<1> QED
  BY <1>1, <1>3, <1>7, <1>9, <1>10, <1>11, <1>12, <1>13, <1>14
  DEF IInv, MovesInv, PointerKept, ShuffleInv, AllDone

\* The load into the base register is left for the second iteration.
LEMMA PutOffKeeps ==
  ASSUME IInv, phase = "load", NEW v \in ToLoad, \A u \in ToLoad : v <= u, PutsOff(v),
         iter' = [iter EXCEPT !.count = 2], next' = v + 1,
         UNCHANGED <<inst, phase, frame, out, work, dst, flags, cur, done, held, memory>>
  PROVE  IInv'
<1>1. /\ Types /\ Vars \subseteq Nat \ {0} /\ LoadInv
      /\ \A u \in Vars \ done : cur[u] = Stack /\ out[u] \in Regs
  BY RunningFacts DEF Running, IInv, MovesInv, LoadInv
<1>2. v \in Vars \ done /\ v >= next /\ v \in Nat /\ next \in Nat /\ out[v] = Base /\ iter.count = 1
  BY <1>1 DEF ToLoad, PutsOff, Types
<1>3. iter = [count |-> 1, index |-> 0] /\ iter' = [count |-> 2, index |-> 0]
  BY <1>1, <1>2 DEF LoadInv
<1>4. /\ IsInstance(inst)' /\ (phase \in Phases)' /\ FrameInv'
      /\ (slots \in [Args -> Values])' /\ Vars' = Vars
      /\ Types' /\ Destinations' /\ Tracked' /\ PointerKept' /\ ArrivalInv'
  BY <1>2, PlacesKept DEF Running, Phases, memory
<1>5. Base' = Base /\ SA' = SA
  BY <1>4, SameInstance DEF Base
<1>6. ASSUME NEW u \in Vars \ done PROVE u >= next' \/ out[u] = Base
  <2>1. u >= next
    BY <1>1, <1>3 DEF LoadInv
  <2>2. u \in ToLoad /\ u \in Nat
    BY <1>1, <2>1 DEF ToLoad
  <2> QED
    BY <1>2, <2>2
<1>7. v < next'
  BY <1>2
<1>8. Base # None /\ Vars \ done # {} => regs'[Base].of = SA
  BY <1>1 DEF LoadInv, memory
<1>9. LoadInv'
  BY <1>1, <1>2, <1>3, <1>4, <1>5, <1>6, <1>7, <1>8 DEF LoadInv
<1> QED
  BY <1>4, <1>9 DEF IInv, MovesInv, ShuffleInv, AllDone

LEMMA LoadStepKeeps ==
  ASSUME IInv, LoadStep
  PROVE  IInv'
<1> DEFINE v == Min(ToLoad)
<1>1. phase = "load" /\ ToLoad # {}
  BY DEF LoadStep
<1>2. v \in ToLoad /\ \A u \in ToLoad : v <= u
  <2>1. ToLoad \in SUBSET Nat
    BY <1>1, RunningFacts DEF Running, ToLoad
  <2> QED
    BY <1>1, <2>1, MinOfNats
<1>3. /\ IF PutsOff(v)
         THEN iter' = [iter EXCEPT !.count = 2] /\ UNCHANGED <<cur, done, held, memory>>
         ELSE Load(v)
      /\ next' = v + 1
      /\ UNCHANGED <<inst, phase, frame, out, work, dst, flags>>
  BY DEF LoadStep
<1> HIDE DEF v
<1> QED
  BY <1>1, <1>2, <1>3, PutOffKeeps, LoadKeeps

LEMMA LoadsDoneKeeps ==
  ASSUME IInv, LoadsDone
  PROVE  IInv'
<1>1. /\ phase = "load" /\ ToLoad = {} /\ next' = 1
      /\ iter' = [iter EXCEPT !.index = @ + 1]
      /\ phase' = IF iter.index + 1 < iter.count THEN "load" ELSE "ok"
      /\ UNCHANGED <<inst, frame, cur, out, done, held, work, regs, slots, written>>
  BY DEF LoadsDone, state, memory
<1>2. /\ Types /\ Vars \subseteq Nat \ {0} /\ LoadInv
      /\ \A u \in Vars \ done : cur[u] = Stack /\ out[u] \in Regs
  BY <1>1, RunningFacts DEF Running, IInv, MovesInv, LoadInv
<1>3. \A u \in Vars \ done : ~(u >= next)
  BY <1>1, <1>2 DEF ToLoad
<1>4. /\ IsInstance(inst)' /\ (phase \in Phases)' /\ FrameInv'
      /\ (slots \in [Args -> Values])' /\ Vars' = Vars
      /\ Types' /\ Destinations' /\ Tracked' /\ PointerKept' /\ ArrivalInv'
  BY <1>1, PlacesKept DEF Running, Phases, Ended
<1>5. CASE iter = [count |-> 2, index |-> 0]
  <2>1. phase' = "load" /\ iter' = [count |-> 2, index |-> 1]
    BY <1>1, <1>5
  <2>2. Base' = Base /\ SA' = SA
    BY <1>1, <1>4, SameInstance DEF Base
  <2>3. \A u \in Vars \ done : out[u] = Base
    BY <1>1, <1>2, <1>3, <1>5 DEF LoadInv
  <2>4. \A u \in Vars : u >= 1
    BY <1>2
  <2>5. Base # None /\ Vars \ done # {} => regs[Base].of = SA
    BY <1>1, <1>2 DEF LoadInv
  <2>6. /\ \A u \in Vars' \ done' : cur'[u] = Stack /\ out'[u] \in Regs /\ u >= next' /\ out'[u] = Base'
        /\ Base' # None /\ Vars' \ done' # {} => regs'[Base'].of = SA'
    BY <1>1, <1>2, <1>4, <2>2, <2>3, <2>4, <2>5
  <2>7. iter'.index = 1 /\ iter' \in {[count |-> 2, index |-> 1]}
    BY <2>1
  <2>8. LoadInv'
    BY <2>6, <2>7 DEF LoadInv
  <2> QED
    BY <1>4, <2>1, <2>8 DEF IInv, MovesInv, ShuffleInv, AllDone
<1>6. CASE iter # [count |-> 2, index |-> 0]
  <2>1. iter = [count |-> 1, index |-> 0] \/ iter = [count |-> 2, index |-> 1]
    BY <1>1, <1>2, <1>6 DEF LoadInv
  <2>2. phase' = "ok"
    BY <1>1, <2>1
  <2>3. Vars \ done = {}
    BY <1>1, <1>2, <1>3, <2>1 DEF LoadInv
  <2> QED
    BY <1>1, <1>4, <2>2, <2>3 DEF IInv, MovesInv, ShuffleInv, LoadInv, AllDone
<1> QED
  BY <1>5, <1>6

-------------------------------------------------------------------------------
(* The theorems *)

LEMMA StutteringKeeps ==
  ASSUME IInv, UNCHANGED vars
  PROVE  IInv'
<1>1. /\ UNCHANGED <<inst, phase, frame, cur, out, done, held, work, dst>>
      /\ UNCHANGED <<next, flags, iter, regs, slots, written>>
  BY DEF vars, state, loop, memory
<1>2. Vars' = Vars /\ Args' = Args /\ SA' = SA /\ (SaRequired' <=> SaRequired) /\ Base' = Base
  BY <1>1, SameInstance DEF Vars, Base
<1>3. CASE ~Running
  <2>1. FrameInv' /\ IsInstance(inst)' /\ (phase \in Phases)' /\ (slots \in [Args -> Values])'
    BY <1>1, <1>2, SameInstance DEF IInv, FrameInv, Saved
  <2> QED
    BY <1>1, <1>3, <2>1 DEF IInv, Running
<1>4. CASE Running
  <2>1. /\ IsInstance(inst)' /\ (phase \in Phases)' /\ FrameInv'
        /\ (slots \in [Args -> Values])' /\ Vars' = Vars
        /\ Types' /\ Destinations' /\ Tracked' /\ PointerKept' /\ ArrivalInv'
    BY <1>1, <1>4, PlacesKept, RunningFacts DEF Types, Running, Phases, Ended
  <2>2. ShuffleInv' /\ LoadInv' /\ AllDone'
    BY <1>1, <1>2, <1>4 DEF IInv, MovesInv, ShuffleInv, LoadInv, AllDone, Unsettled, InReg
  <2> QED
    BY <2>1, <2>2 DEF IInv, MovesInv
<1> QED
  BY <1>3, <1>4

\* Nothing emit_args_assignment() or the planning before it does breaks what
\* the loops rely on.
LEMMA StepKeeps == IInv /\ [Next]_vars => IInv'
<1> SUFFICES ASSUME IInv, [Next]_vars PROVE IInv'
  OBVIOUS
<1>1. CASE UNCHANGED vars
  BY <1>1, StutteringKeeps
<1>2. CASE Next
  BY <1>2, UpdateFuncFrameKeeps, BeginArgsKeeps, StackStepKeeps, StackDoneKeeps,
     ShuffleStepKeeps, PassDoneKeeps, LoadStepKeeps, LoadsDoneKeeps DEF Next
<1> QED
  BY <1>1, <1>2

\* Where the values are, what is left to do and what has arrived is, at every
\* point of every phase, what the loops take it for.
THEOREM InductiveInvariant == Spec => []IInv
<1> QED
  BY InitKeeps, StepKeeps, PTL DEF Spec

\* No argument is overwritten before it is read, nor is the pointer to those on
\* the stack, however many arguments there are and wherever they go.
THEOREM SourcesAreKept == Spec => []NothingOverwritten
<1>1. IInv => NothingOverwritten
  <2> SUFFICES ASSUME IInv, Moving PROVE NothingOverwritten
    BY DEF NothingOverwritten
  <2>1. Types /\ Tracked /\ PointerKept /\ LoadInv /\ Args \subseteq Vars
    BY RunningFacts DEF Running, Moving, IInv, MovesInv
  <2>2. Base # None => SA \in Vars /\ Base = cur[SA]
    BY DEF Base
  <2>3. Base # None /\ (\E v \in Args : cur[v] = Stack /\ v \notin done) => regs[Base].of = SA
    <3>1. CASE phase \in {"stack", "shuffle"}
      BY <2>1, <2>2, <3>1 DEF PointerKept
    <3>2. CASE phase = "load"
      BY <2>1, <3>2 DEF LoadInv
    <3> QED
      BY <3>1, <3>2 DEF Moving
  <2> QED
    BY <2>1, <2>3 DEF NothingOverwritten, Tracked
<1> QED
  BY <1>1, InductiveInvariant, PTL

\* The moves write no preserved register the prolog did not save, although they
\* are planned again after the frame was.
THEOREM WritesAreSaved == Spec => []OnlySavedRegistersWritten
<1>1. IInv => OnlySavedRegistersWritten
  BY DEF IInv, FrameInv, OnlySavedRegistersWritten
<1> QED
  BY <1>1, InductiveInvariant, PTL

LEMMA GroupsStayKept ==
  KeepsGroups(inst) /\ [Next]_vars => KeepsGroups(inst)'
<1>1. [Next]_vars => inst' = inst
  BY DEF Next, vars, UpdateFuncFrame, BeginArgs, StackStep, StackDone, ShuffleStep, Stop,
     PassDone, LoadStep, LoadsDone
<1> QED
  BY <1>1, SameInstance

\* What is reported as done is done: every argument is where it was assigned to,
\* if no argument changes its group on an architecture that exchanges registers
\* (exchanges compare numbers of registers, not groups).
THEOREM WhatIsOkHasArrived ==
  ASSUME \A F \in Families : \A i \in F : KeepsGroups(i)
  PROVE  Spec => []ArgumentsArrive
<1>1. Init => KeepsGroups(inst)
  BY DEF Init
<1>2. IInv /\ KeepsGroups(inst) => ArgumentsArrive
  <2> SUFFICES ASSUME IInv, KeepsGroups(inst), phase = "ok" PROVE ArgumentsArrive
    BY DEF ArgumentsArrive
  <2>1. /\ Types /\ Destinations /\ ArrivalInv /\ Args \subseteq Vars /\ Vars \subseteq done
        /\ IsInstance(inst)
    BY RunningFacts DEF Running, IInv, MovesInv, AllDone
  <2>2. \A v \in Vars : Arrived(v)
    BY <2>1 DEF ArrivalInv
  <2>3. \A v \in Args : out[v] \in Places
    BY <2>1, InstanceTypes DEF Destinations
  <2>4. SA \in Vars /\ out[SA] # None => out[SA] \in Regs
    BY <2>1, Basics DEF Destinations, IsInstance
  <2> QED
    BY <2>1, <2>2, <2>3, <2>4 DEF ArgumentsArrive, Arrived, Places
<1> QED
  BY <1>1, <1>2, GroupsStayKept, InductiveInvariant, PTL DEF Spec

-------------------------------------------------------------------------------
(* Giving up *)

\* What a pass leaves alone: a variable whose destination is taken by one that
\* goes elsewhere, or for whose exchange there is no register.
Waits(v) ==
  /\ ~WayIsClear(v)
  /\ Exchangeable(v, InTheWay(v)) => ~SwapsRegs(cur[v]) /\ Spare(v) = {}

\* As long as a pass did nothing, what it has come by waits, and goes on waiting.
WaitInv ==
  phase = "shuffle" /\ "did" \notin flags =>
    /\ \A v \in Unsettled : v < next => Waits(v)
    /\ "pending" \in flags => Unsettled # {}

\* The register an argument left for the stack is free.
Cleared ==
  phase \in {"stack", "shuffle"} =>
    \A r \in Regs : held[r] \in done => out[held[r]] # Stack

\* The cause of giving up.
Cause == LongCycle \/ NoSpareRegister

SamePlaces == UNCHANGED <<inst, cur, out, done, held, work, dst>>

LEMMA CauseStays ==
  ASSUME SamePlaces, Cause
  PROVE  Cause'
<1>1. Unsettled' = Unsettled /\ Leaving' = Leaving
  BY DEF SamePlaces, Unsettled, Leaving, Vars, Args, InReg
<1>2. LongCycle' <=> LongCycle
  BY <1>1 DEF SamePlaces, LongCycle, InTheWay
<1>3. NoSpareRegister' <=> NoSpareRegister
  BY <1>1 DEF SamePlaces, NoSpareRegister, Scratch, Spare, Free, SwapsRegs
<1> QED
  BY <1>2, <1>3 DEF Cause

LEMMA WaitsStays ==
  ASSUME SamePlaces, NEW v, Waits(v)
  PROVE  Waits(v)'
BY DEF SamePlaces, Waits, WayIsClear, Exchangeable, InTheWay, ToReg, SwapsRegs, Spare, Free

\* A variable in the way of another is one that waits itself.
LEMMA InTheWayIsUnsettled ==
  ASSUME IInv, KeepsGroups(inst), Cleared, phase = "shuffle",
         NEW v \in Unsettled, ~WayIsClear(v), ~Exchangeable(v, InTheWay(v))
  PROVE  /\ InTheWay(v) \in Unsettled /\ InTheWay(v) # v
         /\ cur[InTheWay(v)] = out[v] /\ out[InTheWay(v)] # cur[v]
<1> DEFINE w == InTheWay(v)
<1>1. /\ Types /\ Destinations /\ Tracked /\ ArrivalInv
      /\ \A u \in Vars \ done : out[u] \in Regs
  BY RunningFacts DEF Running, IInv, MovesInv, ShuffleInv
<1>2. v \in Vars \ done /\ cur[v] \in Regs /\ out[v] \in Regs
  BY <1>1 DEF Unsettled, InReg
<1>3. w \in Vars /\ w # v /\ w # None
  BY <1>1, <1>2, Basics DEF WayIsClear, InTheWay, Types
<1>4. cur[w] = out[v]
  BY <1>1, <1>2, <1>3 DEF Tracked, InTheWay
<1>5. out[w] # None
  BY DEF Exchangeable
<1>6. w \notin done
  <2>1. SUFFICES ASSUME w \in done PROVE FALSE
    OBVIOUS
  <2>2. Arrived(w)
    BY <1>1, <2>1 DEF ArrivalInv
  <2>3. CASE out[w] \in Regs
    <3>1. held[out[w]] = w
      BY <2>2, <2>3 DEF Arrived
    <3>2. cur[w] = out[w]
      BY <1>1, <1>3, <2>3, <3>1 DEF Tracked
    <3> QED
      BY <1>1, <1>2, <1>3, <1>4, <3>2 DEF Destinations
  <2>4. CASE out[w] = Stack
    BY <2>1, <2>4, <1>2 DEF Cleared, InTheWay
  <2> QED
    BY <1>1, <1>3, <1>5, <2>3, <2>4 DEF Types, Places
<1>7. w \in Unsettled
  BY <1>2, <1>3, <1>4, <1>6 DEF Unsettled, InReg
<1>8. out[w] # cur[v]
  <2>1. out[w] \in Regs
    BY <1>1, <1>3, <1>6
  <2> QED
    BY <1>7, <2>1 DEF Exchangeable, ToReg
<1> QED
  BY <1>3, <1>4, <1>7, <1>8

\* Where everything waits for a register that is taken by one that waits, the
\* variables go round in circles, each of three or more.
LEMMA AllWaitIsCycle ==
  ASSUME IInv, KeepsGroups(inst), Cleared, phase = "shuffle", Unsettled # {},
         \A v \in Unsettled : Waits(v)
  PROVE  Cause
<1> SUFFICES ASSUME ~NoSpareRegister PROVE LongCycle
  BY DEF Cause
<1> DEFINE S == Unsettled
           f == [v \in S |-> InTheWay(v)]
<1>1. ASSUME NEW v \in S
      PROVE  /\ InTheWay(v) \in S /\ InTheWay(v) # v
             /\ cur[InTheWay(v)] = out[v] /\ out[InTheWay(v)] # cur[v]
  <2>1. Waits(v) /\ ~(~SwapsRegs(cur[v]) /\ Spare(v) = {})
    BY DEF NoSpareRegister
  <2>2. ~WayIsClear(v) /\ ~Exchangeable(v, InTheWay(v))
    BY <2>1 DEF Waits
  <2> QED
    BY <2>2, InTheWayIsUnsettled
<1>2. Types /\ Destinations /\ S \subseteq Vars /\ \A v \in S : out[v] \in Regs
  BY RunningFacts DEF Running, Unsettled, IInv, MovesInv, ShuffleInv
<1>3. IsFiniteSet(S)
  <2>1. IsInstance(inst) /\ Vars \subseteq Args \cup {SA}
    BY RunningFacts DEF Running
  <2>2. Len(inst.src) \in Nat /\ Args = 1 .. Len(inst.src)
    BY <2>1 DEF IsInstance, Args
  <2>3. S \in SUBSET Nat /\ SA \in Nat /\ \A v \in S : v <= SA
    BY <1>2, <2>1, <2>2 DEF SA
  <2> HIDE DEF S
  <2> QED
    BY <2>3, FS_BoundedSetOfNaturals
<1>4. \A v \in S : InTheWay(InTheWay(v)) # v
  <2>1. SUFFICES ASSUME NEW v \in S, InTheWay(InTheWay(v)) = v PROVE FALSE
    OBVIOUS
  <2>2. InTheWay(v) \in S /\ out[InTheWay(v)] # cur[v]
    BY <1>1
  <2>3. cur[InTheWay(InTheWay(v))] = out[InTheWay(v)]
    BY <1>1, <2>2
  <2> QED
    BY <2>1, <2>2, <2>3
<1>5. {InTheWay(v) : v \in S} = S
  <2>1. f \in [S -> S] /\ \A v \in S : f[v] = InTheWay(v)
    BY <1>1
  <2>2. ASSUME NEW v \in S, NEW u \in S, f[v] = f[u] PROVE v = u
    <3>1. out[v] = out[u]
      BY <1>1, <2>1, <2>2
    <3> QED
      BY <1>2, <3>1 DEF Destinations
  <2> HIDE DEF f, S
  <2>3. f \in Injection(S, S)
    BY <2>1, <2>2 DEF Injection, IsInjective
  <2>4. f \in Surjection(S, S)
    BY <1>3, <2>3, FS_Injection
  <2> QED
    BY <2>1, <2>4 DEF Surjection
<1>6. Cardinality(S) > 2
  <2>1. PICK a \in S : TRUE
    OBVIOUS
  <2>2. PICK b \in S : b = InTheWay(a)
    BY <1>1
  <2>3. PICK c \in S : c = InTheWay(b)
    BY <1>1
  <2>4. a # b /\ b # c /\ a # c
    BY <1>1, <1>4, <2>2, <2>3
  <2> HIDE DEF S
  <2>5. IsFiniteSet({a}) /\ Cardinality({a}) = 1
    BY FS_Singleton
  <2> DEFINE P == {a} \cup {b}
  <2>6. IsFiniteSet(P) /\ Cardinality(P) = 2
    <3>1. b \notin {a}
      BY <2>4
    <3>2. IsFiniteSet({a} \cup {b}) /\ Cardinality({a} \cup {b}) = Cardinality({a}) + 1
      BY <2>5, <3>1, FS_AddElement, Zenon
    <3> QED
      BY <2>5, <3>2
  <2>7. IsFiniteSet({a} \cup {b} \cup {c}) /\ Cardinality({a} \cup {b} \cup {c}) = 3
    <3>1. c \notin P
      BY <2>4
    <3> HIDE DEF P
    <3>2. IsFiniteSet(P \cup {c}) /\ Cardinality(P \cup {c}) = Cardinality(P) + 1
      BY <2>6, <3>1, FS_AddElement, Zenon
    <3> QED
      BY <2>6, <3>2 DEF P
  <2>8. {a} \cup {b} \cup {c} \in SUBSET S
    OBVIOUS
  <2>9. Cardinality({a} \cup {b} \cup {c}) <= Cardinality(S) /\ Cardinality(S) \in Nat
    BY <1>3, <2>8, FS_Subset, FS_CardinalityType
  <2> QED
    BY <2>7, <2>9
<1> QED
  BY <1>1, <1>4, <1>5, <1>6 DEF LongCycle

GivesUpInv == WaitInv /\ Cleared /\ (phase = "stuck" => Cause)

LEMMA StackStepCause ==
  ASSUME IInv, Cleared, StackStep
  PROVE  GivesUpInv'
<1> DEFINE v == Min(Leaving)
<1>1. phase = "stack" /\ Leaving # {}
  BY DEF StackStep
<1>2. Types /\ Tracked /\ Leaving \in SUBSET Nat
  BY <1>1, RunningFacts DEF Running, Leaving
<1>3. v \in Leaving
  BY <1>1, <1>2, MinOfNats
<1> HIDE DEF v
<1>4. /\ RegToStack(v) \/ StackToStack(v)
      /\ UNCHANGED <<inst, cur, out, work, dst>>
  BY DEF StackStep, v
<1>5. v \in Vars /\ out[v] = Stack /\ None \notin Vars
  BY <1>1, <1>2, <1>3, RunningFacts, Basics DEF Running, Leaving
<1>6. CASE RegToStack(v)
  <2>1. /\ held' = [held EXCEPT ![cur[v]] = None] /\ done' = done \cup {v} /\ phase' = phase
        /\ cur[v] \in Regs
    BY <1>6 DEF RegToStack, InReg
  <2>2. ASSUME NEW r \in Regs, held'[r] \in done' PROVE out'[held'[r]] # Stack
    <3>1. held \in [Regs -> Vars \cup {None}] /\ done \subseteq Vars
      BY <1>2 DEF Types
    <3>2. r # cur[v] /\ held'[r] = held[r]
      BY <1>5, <2>1, <2>2, <3>1
    <3>3. held[r] # v
      BY <1>2, <1>5, <3>2 DEF Tracked
    <3> QED
      BY <1>1, <1>4, <2>1, <2>2, <3>2, <3>3 DEF Cleared
  <2> QED
    BY <1>1, <2>1, <2>2 DEF GivesUpInv, WaitInv, Cleared
<1>7. CASE StackToStack(v) /\ Scratch(v) # {}
  <2>1. held' = held /\ done' = done \cup {v} /\ phase' = phase /\ cur[v] = Stack
    BY <1>7 DEF StackToStack
  <2>2. ASSUME NEW r \in Regs, held'[r] \in done' PROVE out'[held'[r]] # Stack
    <3>1. held[r] # v
      BY <1>2, <1>5, <2>1, Basics DEF Tracked, Regs
    <3> QED
      BY <1>1, <1>4, <2>1, <2>2, <3>1 DEF Cleared
  <2> QED
    BY <1>1, <2>1, <2>2 DEF GivesUpInv, WaitInv, Cleared
<1>8. CASE StackToStack(v) /\ Scratch(v) = {}
  <2>1. phase' = "stuck" /\ SamePlaces
    BY <1>4, <1>8 DEF StackToStack, SamePlaces
  <2>2. Cause
    BY <1>3, <1>8 DEF Cause, NoSpareRegister
  <2> QED
    BY <2>1, <2>2, CauseStays DEF GivesUpInv, WaitInv, Cleared
<1> QED
  BY <1>4, <1>6, <1>7, <1>8

LEMMA ShuffleStepCause ==
  ASSUME IInv, Cleared, WaitInv, ShuffleStep
  PROVE  GivesUpInv'
<1> DEFINE v == Min(ToVisit)
           w == InTheWay(v)
<1>1. phase = "shuffle" /\ ToVisit # {}
  BY DEF ShuffleStep
<1>2. /\ Types /\ Vars \subseteq Nat \ {0} /\ next \in Nat
      /\ \A u \in Vars \ done : out[u] \in Regs
  BY <1>1, RunningFacts DEF Running, IInv, MovesInv, ShuffleInv, Types
<1>3. v \in ToVisit /\ \A u \in ToVisit : v <= u
  <2>1. ToVisit \in SUBSET Nat
    BY <1>2 DEF ToVisit, Unsettled
  <2> QED
    BY <1>1, <2>1, MinOfNats
<1>4. v \in Unsettled /\ v \in Nat /\ out[v] \in Regs /\ cur[v] \in Regs
  BY <1>2, <1>3 DEF ToVisit, Unsettled, InReg
<1> HIDE DEF v
<1>5. CASE Group(cur[v]) # Group(out[v])
  <2>1. phase' = "mixed"
    BY <1>5 DEF ShuffleStep, v, Stop
  <2> QED
    BY <2>1 DEF GivesUpInv, WaitInv, Cleared
<1>6. CASE Group(cur[v]) = Group(out[v])
  <2>1. /\ \/ WayIsClear(v) /\ EmitMove(v, out[v])
           \/ ~WayIsClear(v) /\ ~Exchangeable(v, w) /\ Wait
           \/ /\ ~WayIsClear(v) /\ Exchangeable(v, w)
              /\ \/ SwapsRegs(cur[v]) /\ EmitSwap(v, w)
                 \/ /\ ~SwapsRegs(cur[v])
                    /\ IF Spare(v) = {} THEN Wait ELSE EmitMove(v, Min(Spare(v)))
        /\ next' = v + 1
        /\ UNCHANGED <<inst, phase, frame, out, work, dst, iter, slots>>
    BY <1>6 DEF ShuffleStep, v, InTheWay
  <2>2. CASE Wait
    <3>1. SamePlaces /\ flags' = flags \cup {"pending"}
      BY <2>1, <2>2 DEF SamePlaces, Wait
    <3>2. ASSUME "did" \notin flags PROVE Waits(v)
      <4>1. "did" \notin flags'
        BY <3>1, <3>2
      <4>2. ~WayIsClear(v) /\ (Exchangeable(v, w) => ~SwapsRegs(cur[v]) /\ Spare(v) = {})
        BY <2>1, <4>1 DEF EmitMove, EmitSwap
      <4> QED
        BY <4>2 DEF Waits
    <3>3. Unsettled' = Unsettled
      BY <3>1 DEF SamePlaces, Unsettled, Vars, InReg
    <3>4. ASSUME "did" \notin flags, NEW u \in Unsettled, u < next' PROVE Waits(u)
      <4>1. CASE u < next
        BY <1>1, <3>4, <4>1 DEF WaitInv
      <4>2. CASE ~(u < next)
        <5>1. u \in ToVisit /\ u \in Nat
          BY <1>2, <4>2 DEF ToVisit, Unsettled
        <5>2. u = v
          BY <1>3, <1>4, <2>1, <3>4, <5>1
        <5> QED
          BY <3>2, <3>4, <5>2
      <4> QED
        BY <4>1, <4>2
    <3>5. WaitInv'
      BY <1>1, <1>4, <2>1, <3>1, <3>3, <3>4, WaitsStays DEF WaitInv
    <3>6. Cleared'
      BY <1>1, <2>1, <3>1 DEF Cleared, SamePlaces
    <3> QED
      BY <1>1, <2>1, <3>5, <3>6 DEF GivesUpInv
  <2>3. ASSUME NEW r, EmitMove(v, r), r \in Regs PROVE GivesUpInv'
    <3>1. "did" \in flags'
      BY <2>3 DEF EmitMove
    <3>2. /\ held' = [held EXCEPT ![cur[v]] = None, ![r] = v]
          /\ done' \subseteq done \cup {v}
      BY <2>3 DEF EmitMove
    <3>3. ASSUME NEW x \in Regs, held'[x] \in done' PROVE out'[held'[x]] # Stack
      <4>1. held'[x] \in {None, v, held[x]} /\ None \notin done /\ v # None
        BY <1>2, <1>4, <3>2, Basics DEF Types
      <4> QED
        BY <1>1, <1>4, <2>1, <3>2, <3>3, <4>1, Basics DEF Cleared, Regs
    <3> QED
      BY <1>1, <2>1, <3>1, <3>3 DEF GivesUpInv, WaitInv, Cleared
  <2>4. CASE ~WayIsClear(v) /\ Exchangeable(v, w) /\ EmitSwap(v, w)
    <3>1. "did" \in flags'
      BY <2>4 DEF EmitSwap
    <3>2. /\ held' = [held EXCEPT ![cur[v]] = w, ![out[v]] = v]
          /\ done' = done \cup {v} \cup (IF out[w] = None THEN {} ELSE {w})
      BY <2>4 DEF EmitSwap
    <3>3. out[w] # Stack
      BY <2>4, Basics DEF Exchangeable, ToReg, Regs
    <3>4. ASSUME NEW x \in Regs, held'[x] \in done' PROVE out'[held'[x]] # Stack
      <4>1. held'[x] \in {w, v, held[x]}
        BY <1>2, <1>4, <3>2 DEF Types
      <4> QED
        BY <1>1, <1>4, <2>1, <3>2, <3>3, <3>4, <4>1, Basics DEF Cleared, Regs
    <3> QED
      BY <1>1, <2>1, <3>1, <3>4 DEF GivesUpInv, WaitInv, Cleared
  <2>5. Spare(v) # {} => Min(Spare(v)) \in Regs
    <3>1. Spare(v) \in SUBSET Nat
      BY <1>2, Basics DEF Spare, Free, Types
    <3> QED
      BY <1>2, <3>1, MinOfNats DEF Spare, Free, Types
  <2> QED
    BY <1>4, <2>1, <2>2, <2>3, <2>4, <2>5
<1> QED
  BY <1>5, <1>6

LEMMA PassDoneCause ==
  ASSUME IInv, KeepsGroups(inst), Cleared, WaitInv, PassDone
  PROVE  GivesUpInv'
<1>1. /\ phase = "shuffle" /\ ToVisit = {} /\ SamePlaces
      /\ \/ phase' = "load"
         \/ "pending" \in flags /\ NothingDoneTwice /\ phase' = "stuck"
         \/ next' = 1 /\ phase' = phase /\ flags' \in {{}, {"postponed"}}
  BY DEF PassDone, SamePlaces, state
<1>2. Vars \subseteq Nat \ {0} /\ next \in Nat
  BY <1>1, RunningFacts DEF Running, Types
<1>3. CASE phase' = "load"
  BY <1>3 DEF GivesUpInv, WaitInv, Cleared
<1>4. CASE "pending" \in flags /\ NothingDoneTwice /\ phase' = "stuck"
  <2>1. "did" \notin flags
    BY <1>4 DEF NothingDoneTwice
  <2>2. Unsettled # {} /\ \A v \in Unsettled : Waits(v)
    <3>1. \A v \in Unsettled : v < next
      BY <1>1, <1>2 DEF ToVisit, Unsettled
    <3> QED
      BY <1>1, <1>4, <2>1, <3>1 DEF WaitInv
  <2>3. Cause
    BY <1>1, <2>2, AllWaitIsCycle
  <2> QED
    BY <1>1, <1>4, <2>3, CauseStays DEF GivesUpInv, WaitInv, Cleared
<1>5. CASE next' = 1 /\ phase' = phase /\ flags' \in {{}, {"postponed"}}
  <2>1. Unsettled' \subseteq Nat \ {0}
    BY <1>1, <1>2 DEF SamePlaces, Unsettled, Vars
  <2>2. WaitInv'
    BY <1>5, <2>1 DEF WaitInv
  <2>3. Cleared'
    BY <1>1, <1>5 DEF Cleared, SamePlaces
  <2> QED
    BY <1>1, <1>5, <2>2, <2>3 DEF GivesUpInv
<1> QED
  BY <1>1, <1>3, <1>4, <1>5

LEMMA CauseKept ==
  ASSUME IInv, KeepsGroups(inst), GivesUpInv, [Next]_vars
  PROVE  GivesUpInv'
<1> USE DEF GivesUpInv
<1>1. CASE UNCHANGED vars
  <2>1. SamePlaces /\ phase' = phase /\ next' = next /\ flags' = flags
    BY <1>1 DEF vars, state, loop, SamePlaces
  <2>2. Unsettled' = Unsettled
    BY <2>1 DEF SamePlaces, Unsettled, Vars, InReg
  <2>3. WaitInv'
    BY <2>1, <2>2, WaitsStays DEF WaitInv
  <2>4. Cleared'
    BY <2>1 DEF SamePlaces, Cleared
  <2> QED
    BY <2>1, <2>3, <2>4, CauseStays
<1>2. CASE UpdateFuncFrame
  <2>1. phase' \in {"refused", "prolog"}
    BY <1>2 DEF UpdateFuncFrame
  <2> QED
    BY <2>1 DEF WaitInv, Cleared
<1>3. CASE BeginArgs
  <2>1. /\ phase' = "stack"
        /\ done' = {v \in Args : DoneAtOnce(v)}
                     \cup (IF SaRequired /\ inst.sa_out = None THEN {SA} ELSE {})
    BY <1>3 DEF BeginArgs
  <2>2. IsInstance(inst) /\ SA \notin Args
    BY InstanceTypes DEF IInv
  <2>3. /\ \A v \in Args : out'[v] = inst.dst[v]
        /\ SaRequired => out'[SA] = inst.sa_out
    BY <1>3, <2>2 DEF BeginArgs
  <2>4. ASSUME NEW v \in done' PROVE out'[v] # Stack
    <3>1. CASE v \in Args /\ DoneAtOnce(v)
      BY <2>3, <3>1, Basics DEF DoneAtOnce, Regs
    <3>2. CASE SaRequired /\ inst.sa_out = None /\ v = SA
      BY <2>3, <3>2, Basics
    <3> QED
      BY <2>1, <3>1, <3>2
  <2> QED
    BY <2>1, <2>4 DEF WaitInv, Cleared
<1>4. CASE StackStep
  BY <1>4, StackStepCause
<1>5. CASE StackDone
  <2>1. /\ phase = "stack" /\ phase' = "shuffle" /\ next' = 1 /\ flags' = {}
        /\ cur' = cur /\ held' = held /\ done' = done /\ out' = out
    BY <1>5 DEF StackDone, state
  <2>2. Unsettled' \subseteq Nat \ {0}
    BY <2>1, RunningFacts DEF Running, Unsettled, Vars
  <2> QED
    BY <2>1, <2>2 DEF WaitInv, Cleared
<1>6. CASE ShuffleStep
  BY <1>6, ShuffleStepCause
<1>7. CASE PassDone
  BY <1>7, PassDoneCause
<1>8. CASE LoadStep \/ LoadsDone
  <2>1. phase' \in {"load", "ok"}
    BY <1>8 DEF LoadStep, LoadsDone
  <2> QED
    BY <2>1 DEF WaitInv, Cleared
<1> QED
  BY <1>1, <1>2, <1>3, <1>4, <1>5, <1>6, <1>7, <1>8 DEF Next

\* emit_args_assignment() gives up only where registers go round in a circle of
\* three or more or where a move needs a register and none is free, if no
\* argument changes its group on an architecture that exchanges registers.
THEOREM GivesUpForCause ==
  ASSUME \A F \in Families : \A i \in F : KeepsGroups(i)
  PROVE  Spec => []FailsOnlyForCause
<1>1. Init => KeepsGroups(inst) /\ GivesUpInv
  BY DEF Init, GivesUpInv, WaitInv, Cleared
<1>2. IInv /\ KeepsGroups(inst) /\ GivesUpInv /\ [Next]_vars => GivesUpInv'
  BY CauseKept
<1>3. GivesUpInv => FailsOnlyForCause
  BY DEF GivesUpInv, Cause, FailsOnlyForCause
<1> QED
  BY <1>1, <1>2, <1>3, GroupsStayKept, InductiveInvariant, PTL DEF Spec
===============================================================================
