------------------------------- MODULE MCRALocal -------------------------------
(* Instances of RALocal for TLC: small architectures and their instructions. *)
EXTENDS RALocal, TLC

Symmetric == Permutations(Works)

\* Operands: read, read and written, written; fixed; or in memory.  One may be
\* read and written anew, as in vaddps x, y, x.
Kind(regs) == [use |-> FALSE, write |-> FALSE, out |-> FALSE, rm |-> FALSE,
               use_id |-> None, out_id |-> None, dup |-> {}, mask |-> regs]
R(regs)  == [Kind(regs) EXCEPT !.use = TRUE]
RW(regs) == [R(regs) EXCEPT !.write = TRUE]
W(regs)  == [Kind(regs) EXCEPT !.out = TRUE, !.write = TRUE]
At(kind, r)   == [kind EXCEPT !.use_id = r]
To(kind, r)   == [kind EXCEPT !.out_id = r]
OrMem(kind)   == [kind EXCEPT !.rm = TRUE]
In(kind, rs)  == [kind EXCEPT !.mask = rs]
Dup(kind, rs) == [kind EXCEPT !.dup = rs]

Form(kinds) == [ops |-> kinds, clobbered |-> {}, flow |-> "next", scratch |-> {}]
Flow(f, how) == [f EXCEPT !.flow = how]
Free(f, rs) == [f EXCEPT !.scratch = rs]
Clobber(f, rs) == [f EXCEPT !.clobbered = rs]

Plain(rs) == {Form(<<R(rs), R(rs)>>), Form(<<R(rs), RW(rs)>>), Form(<<W(rs), R(rs)>>),
              Form(<<OrMem(R(rs)), RW(rs)>>), Form(<<OrMem(RW(rs))>>),
              Form(<<OrMem([RW(rs) EXCEPT !.out = TRUE]), R(rs)>>)}

FixedForms(rs) ==
  {Clobber(Form(<<At(RW(rs), 0), To(W(rs), 1)>>), {1}),
   Form(<<At(R(rs), 1), RW(rs)>>),
   Form(<<At(R(rs), 0), At(RW(rs), 1)>>),
   Clobber(Flow(Form(<<Dup(At(R(rs), 0), {0, 1}), To(W(rs), 0)>>), "call"), {0, 1}),
   Clobber(Flow(Form(<<To(At([RW(rs) EXCEPT !.out = TRUE], 0), 1)>>), "call"), {0, 1})}

\* Forms that need the third register: one written while two are in use, three
\* arguments of a call, an operand of some registers only, two fixed ones.
Wide(rs) ==
  {Form(<<R(rs), R(rs), RW(rs)>>), Form(<<W(rs), R(rs), OrMem(R(rs))>>), Form(<<In(R(rs), {0, 1}), R(rs)>>),
   Form(<<At(R(rs), 0), At(RW(rs), 1), R(rs)>>),
   Clobber(Flow(Form(<<At(R(rs), 0), At(R(rs), 1), To(W(rs), 0)>>), "call"), {0, 1})}

\* Branches to blocks that keep no register free, and one to a jump table's target.
Branches(rs) == {Flow(Form(<< >>), "branch"), Flow(Form(<<At(RW(rs), 0)>>), "branch"),
                 Free(Flow(Form(<<At(R(rs), 0)>>), "branch"), {0})}

\* A jump table, alone and with another that needs one more register.
Jump(rs, how) == {Free(Flow(Form(<<At(R(rs), 0)>>), how), scratch) : scratch \in {{0}, {0, 1}}}

Arch(n, swap, forms) == [regs |-> 0 .. n - 1, has_swap |-> swap, forms |-> forms]

Two   == 0 .. 1
Three == 0 .. 2

\* All there is in two registers and in three, with and without an exchange
\* instruction; jump tables with one.
SomeArchs ==
  {Arch(2, swap, Plain(Two) \cup FixedForms(Two) \cup Branches(Two)) : swap \in BOOLEAN}
    \cup {Arch(3, swap, Plain(Three) \cup FixedForms(Three) \cup Wide(Three) \cup Branches(Three)) : swap \in BOOLEAN}
    \cup {Arch(3, TRUE, Jump(Three, "table"))}

\* A jump through a register to the only target it may have.
SingleTarget == {Arch(2, TRUE, {Flow(Form(<<At(R(Two), 0)>>), "single")})}

\* A jump table where registers cannot be exchanged.
TablesWithoutExchange == {Arch(3, FALSE, Jump(Three, "table"))}

\* Jump tables with a target that a branch went to, or fell into, before.
SharedTables == {Arch(n, TRUE, Jump(0 .. n - 1, "shared")) : n \in {2, 3}}

\* An instruction that writes one register and updates another, as a load with
\* write-back does.
WriteBack == {Arch(3, FALSE, {Form(<<W(Three), RW(Three)>>)})}
===============================================================================
