# AsmJit: a TLA+ model

AsmJit generates machine code at run time. This project models the parts of it
whose correctness depends on the order of calls and on bookkeeping kept over
many of them: the JIT memory allocator, the code holder with its labels,
fixups and relocations, its emitters and growing buffers, the constant pool,
the builder's node list, the local register allocator and the moves of a
function's arguments. TLC checks the modules on small instances; TLAPS proves,
for every value of the constants, the allocator's safety properties and that it
implements its abstract specification, the same for the emitters and buffers of
code holders, that the moves of arguments lose nothing and fail only for a
cause, and the constant pool's properties.

Paths are relative to `src/asmjit/`, line numbers are those of the modelled
commit. `PROJECT.json` maps every definition to its lines.

## The system

| Component | State it keeps | Operations | Interacts with | What makes it correct |
|---|---|---|---|---|
| `JitAllocator` (core/jitallocator) | pools of blocks; per block two bit-vectors and a search cache; an RB tree by address; counters | alloc, release, shrink, query, write, reset, statistics | VirtMem, ArenaTree, ArenaList; called by threads under a lock | spans of clients are disjoint; bit-vectors describe them; caches never mislead alloc; counters of blocks and granules exact |
| `JitRuntime` (core/jitruntime) | an allocator | add, release | CodeHolder, JitAllocator | code is copied complete and relocated for where it lies |
| `CodeHolder` (core/codeholder) | sections, labels, fixups, relocation entries, address table, base address, attached emitters | init, reinit, reset, attach, detach, new_section, new_label, bind_label, new_fixup, flatten, resolve, relocate, copy | assemblers append to its buffers and ask for fixups; JitRuntime consumes it | every reference is patched once with the right value; sections do not overlap |
| Code buffers (core/codebuffer, codeholder) | data, size, capacity; pointers cached by assemblers | grow, reserve | all attached assemblers | no assembler keeps a pointer into freed memory |
| `BaseAssembler`, x86, AArch64, PowerPC assemblers | section and cursor | instructions, bind, embed | CodeHolder | the reference left in the code is the one the fixup or entry describes |
| `Builder` | node list, cursor | add, remove, move nodes, serialize | CodeHolder, assembler | list well formed, order preserved |
| `Compiler`, register allocator | virtual registers, CFG, assignments | liveness, local allocation, moves between blocks | Builder, ConstPool, FuncFrame | a value is where its user reads it |
| Function frames, argument assignment | register and stack masks, work queues | assign, shuffle, prolog, epilog | Compiler | no source overwritten before it is read |
| `ConstPool` (core/constpool) | trees of constants by size, gaps, size | add, fill, reset | ArenaTree; embed_const_pool, Compiler | an offset, once given, holds the constant |
| Arena, ArenaTree, ArenaHash, ArenaList, ArenaVector, ArenaBitSet | the containers | insert, remove, find | everything | agree with the set or sequence they stand for |
| `VirtMem` | cached facts about the system | alloc, dual mapping, protect | JitAllocator | mapping errors are reported and undone |
| Instruction database, CPU features, operands, formatter, logger, ujit, tools | none that changes | tables and functions | | |

Hard behaviours, in the order in which they matter:

* *Caches over long call sequences.* `alloc()` decides from `_search_start`,
  `_search_end`, `_largest_unused_area` and three flags, which alloc, release
  and shrink each update in several branches. A wrong value shows many calls
  later, if ever.
* *References resolved in one of five ways* (at once, by bind, by resolve, by a
  relocation entry, through the address table) depending on what is known when
  the instruction is emitted.
* *Partial failure*: mapping refused, a node not allocated, a displacement out
  of reach after other fixups were already patched.
* *Reuse*: soft reset and reinit keep some of the old state.
* *Threads*: the allocator's methods lock; everything else belongs to one
  thread. `write()` runs a callback outside the lock.

`PROJECT.json` lists the hazards at their lines.

## Modules

| Module | Content |
|---|---|
| `JitBlock` | One allocator block as a record; each operator is a method of `JitAllocatorBlock` or a step of the search in `alloc()` |
| `JitAllocator` | The allocator: state, one action per public operation and outcome, properties, inductive invariant, refinement mapping |
| `SpanAllocator` | What the allocator promises, abstractly: regions and disjoint spans |
| `MCJitAllocator` | Block identities and symmetry for TLC |
| `NatSetTheorems` | For the proofs: least and greatest elements of sets of naturals, induction and recursion over the naturals, sums |
| `JitAllocator_proofs` | Lemmas about blocks; invariance theorems; the allocator implements `SpanAllocator` |
| `CodeHolder` | Sections, labels, fixups, relocation entries, address table, and the assembler operations that create them |
| `MCCodeHolder`, `CodeHolder_proofs` | `CodeHolder` for TLC; proofs |
| `ConstPool`, `MCConstPool`, `ConstPool_proofs` | The constant pool, an instance, proofs |
| `CodeEmitters`, `MCCodeEmitters`, `CodeEmitters_proofs` | Holders, the emitters attached to them, the settings they inherit and the buffers assemblers write to; an instance; proofs |
| `EmitterRegistry` | What attaching promises, abstractly: each holder's emitters in order |
| `BuilderList`, `MCBuilderList`, `BuilderList_proofs` | The node list of builder and compiler, its cursor and section links; an instance; proofs |
| `NodeSequence` | What that list promises, abstractly: a sequence with a cursor |
| `RALocal`, `MCRALocal`, `RALocal_proofs` | The local register allocator with the code it emits; small architectures; proofs |
| `FuncArgs`, `MCFuncArgs`, `FuncArgs_proofs` | The moves of a function's arguments; families of assignments; proofs |

Operators named `Wrong...` stand before the definition they distort. They are
used by nothing else in the modules: `PROJECT.json` ("mutants") pairs each with
a property and a run, and replacing the definition by it makes TLC refute that
property. They show that the properties see the mistakes they are about.

### JitBlock and JitAllocator

| Model | Code |
|---|---|
| `blk[id]` | a `JitAllocatorBlock`; `used`, `stop` are the sets of set bits, `flags` the flags, the rest its integer fields |
| `filled` in a block | granules whose memory holds the fill pattern (memory content, not a field) |
| `pools[p]` | `JitAllocatorPool`: block list, cursor, counters for regular and large pages |
| `tree` | the blocks `impl->tree` reaches |
| `spans` | what clients were told and have not released; a ghost |
| `fault` | the assertion that failed; nothing happens after one |

`alloc()` is three actions, for its three outcomes (`AllocFromBlock`,
`AllocNewBlock`, `AllocOutOfMemory`); all walk the pool from its cursor and
update the cache of each block scanned in vain (`PassOver`). `Release`,
`Shrink`, `WriteTruncated` and `Reset` are the others. `query()` changes
nothing; that the bits recover every span is `BitsMatchSpans`. Each operation
runs under the lock from its first read to its last write, so each is one
atomic step; the truncation after a write callback is a step of its own because
it locks on its own.

`BitVectorRangeIterator` is abstracted to the ranges it reports
(`RangeStarts`, `RangeEnd`), with its habit of reading whole bit-words: a range
that starts behind `_search_end` in the last word is reported with its end
before its start, and the unsigned size is huge (`RangeFits`).

A failed assertion stops the model. Builds without assertions go on; the
properties then say nothing of what follows, and jit_bug_alloc_overrun shows
that an assertion can fail.

Not modelled: dual mapping, write scopes and memory protection, contents of
spans, `total_overhead_bytes` and with it the overhead that `statistics()`
reports, overflow of sizes above 2^31 (refused by `alloc()`), requests that the
code refuses (size 0, null pointers, spans that are not held).

### CodeHolder

| Model | Code |
|---|---|
| `sections`, `sections_by_order` | `_sections`, `_sections_by_order` with alignment, order, offset, virtual size, buffer size |
| `labels[l]` | `LabelEntry`: section and offset when bound, otherwise its fixups |
| `fixups` | `_fixups`: those bind could not resolve |
| `relocations` | `_relocations` |
| `slots`, `address_table_section` | `_address_table_entries` and `.addrtab`; `table` is the contents of its buffer |
| `fields` | the references in the code; `value` is the set of values ORed into the field, `meaning` what the user wrote (ghost), `base` the base address the value was computed for (ghost) |
| `phase` | emitting, flattened, relocated or failed: the order JitRuntime follows |
| `given_base`, `summary` | ghosts: the argument of `init()`, code size and reduction as `JitRuntime::_add()` uses them |

`Bind` is the whole of `bind_label()`, `Flatten`, `ResolveCrossSectionFixups`
and `RelocateToBase` the whole functions including their partial failures (a
fixup that does not fit stays, an entry that cannot be relocated stops the loop
after the earlier ones were written). `ResolveCrossSectionFixups` may be
called or left out or repeated; the code allows all three. The branch actions
follow `EmitJmpCall`: label bound here, unbound, bound elsewhere, address with
known base, address without.

Restrictions, all from documentation or from what the modelled code is for:
emission only before `flatten()`; `flatten()` and `relocate_to_base()` once
(codeholder.h:1280, 1299); relocation to the base given to `init()` if one was
given; 64-bit environment; no user code in `.addrtab`; no rewinding by
`set_offset()`; arena allocations succeed. The alignment of `.text` is 1 where
the code has 0, which `align_up` treats alike. `Reach8` and `Reach32` stand
for 127 and 2^31 - 1 so that both boundaries lie in a small instance.

### ConstPool

Constants are sequences of 4-byte words (the smallest piece `add()` cuts), or
one short word; a byte is a word and an index. `add()` is `AddKnown`, `AddNew`
and `AddOutOfMemory` (the node cannot be allocated, its place is gone). The
allocation of a gap's record may fail at any piece (`Stops`), which forgets that
piece and those after it. `fill()` is the operator `Filled`. A failing
allocation of a shared node, which dereferences null, is not modelled. `answers`
is a ghost: what users were told since the last reset.

### CodeEmitters

| Model | Code |
|---|---|
| `holder[h]` | `CodeHolder`: initialized, ends of the emitter list, logger and error handler, one buffer per section |
| `emitter[e]` | `BaseEmitter`: `_code`, links, flags, own and effective settings, diagnostics, forced options; section and pointers of an assembler |
| `emitter[e].off`, `.end`, `.data` | `_buffer_ptr`, `_buffer_end`, `_buffer_data`; the first two relative to the last |
| `live` | allocations that are not freed (ghost) |

`Attach`, `Detach`, `DestroyEmitter`, `InitHolder`, `Reinit`, `Reset`,
`DestroyHolder` include the events `on_attach()`, `on_detach()`, `on_reinit()`
and `on_settings_updated()` of every emitter the code calls. `HolderSet` and
`EmitterSet` install and remove loggers and error handlers; `Emit` is
`ensure_space()`, possibly `grow_buffer()` with the loop that finds a capacity,
and `done()`. A `realloc()` may move or not. A failed `malloc()` changes
nothing. External buffers and the contents of buffers are not modelled.
`Failures` lets allocations in on_attach and on_reinit fail; see below why the
run has none.

### BuilderList

| Model | Code |
|---|---|
| `list.first`, `.last`, `.cursor`, `.next`, `.prev` | the node list of `BaseBuilder` |
| `list.active` | the nodes with `kIsActive` |
| `list.next_section`, `list.dirty` | `SectionNode::_next_section`, `_dirty_section_links` |
| `func`, `pools` | `_func`, `_const_pools` of `BaseCompiler` |
| `used` | functions added so far (a node is created once) |

The operations on the list are functions from a list to a list, since
`add_func()`, `end_func()` and `section()` are compositions of them. The
refinement to `NodeSequence` reads the sequence by walking `next`. The user
does not remove the nodes of the function he is building, asks for local
constants only in a function, and does not call `section()` on an empty list,
where the code dereferences null. `Rebinding` is whether he binds a bound
label (below).

### RALocal

| Model | Code |
|---|---|
| `m.at`, `m.dirty` | `RAAssignment`: physical to virtual register, dirty registers |
| `m.regs`, `m.slots` | whose current value a register and whose a home slot holds, after the emitted code (ghost) |
| `m.ok` | no assertion failed so far |
| `ops` | the `RATiedReg`s of the instruction, `form` the instruction itself |
| `masks` | `will_use`, `will_free`, `will_out`, `live_regs`, `out_regs` of `alloc_instruction()` |
| `sw`, `target` | the locals of `switch_to_assignment()`, the assignment to reach |
| `live` | virtual registers whose values are needed, from the liveness analysis |

The program being compiled is not fixed: any instruction of the architecture's
`forms` on any virtual registers may come next, any of them may be used for the
last time, and any entry assignment that an earlier jump may have left may wait
at a jump's target. What the code
chooses by cost, frequency and home register is a free choice among the
registers it may take; a property that holds for every choice holds for the
code's. `Fit`, `Decide`, `FreeStep`, `AllocStep`, `Evict`, `OutStep` are the
numbered steps of `alloc_instruction()`, `SwitchRound` one turn of the loop of
`switch_to_assignment()`. A table's targets keep the registers of the jump's
operands free (`scratch`), also for branches that go there. They share one entry
assignment, which is what the first block to reach one of them left: a jump
table (`flow = "table"`) or a branch or fall-through (`"shared"`), whose other
virtual registers stay in it (`EntriesFor`); what each target expects of it is
`TargetEntries`. An operand without a register to choose, a switch that gives up
and a wanted register that is not free lead to `pc = "failed"`; that a
well-formed instruction leaves each operand a register is an assumption on its
form (`FindsRegisters`). One register group; consecutive registers, operands
that must be distinct, partial clobbers of vector registers and memory operands
wider than the register are not modelled.

### FuncArgs

| Model | Code |
|---|---|
| `inst` | `FuncArgsAssignment` and `FuncDetail`: sources, destinations, widenings; what the architecture can do |
| `frame` | `FuncFrame`: dirty registers, the SA register |
| `cur`, `out`, `done` | `FuncArgsContext::Var` |
| `held`, `work`, `dst` | `WorkData` |
| `phase`, `next`, `flags`, `iter` | where the loops of `emit_args_assignment()` are |
| `regs`, `slots`, `written` | what registers and destination slots hold after the emitted moves, and which were written (ghosts) |

The frame is planned first (`UpdateFuncFrame`), the moves later (`BeginArgs`
and the steps after it) from the same analysis on the changed frame, as in the
code: what the prolog saves must cover what the second pass writes. `ok`,
`refused`, `mixed` and `stuck` are the ways it ends, the last three with an
error. Instruction selection, the sizes of values and the addresses of stack
slots are left out. The loads and stores of a variable are one step each.

## Runs

All passing runs check their instance completely. Symmetry is used for block
identities and for virtual registers, which nothing orders.

| Run | Distinct states | Instance | Shows |
|---|---|---|---|
| jit_pools | 16,312 | 3 pools, 3 blocks, sizes for the second and third pool, large pages, soft and hard reset | counters, lists, tree and cursor consistent; `IInv`, used in the proofs, holds |
| jit_blocks | 90,859 | 2 blocks of 6 granules in 2 bit-words, requests 1 and 3, truncation, fill option | spans and bits, caches as far as the search window goes, empty-block accounting, fill, refinement of `SpanAllocator` |
| code_labels | 405,297 | 2 sections, 2 labels, 2 fields, a long and a short-only branch | fixups, layout, values |
| code_addresses | 284,650 | 2 sections, 3 addresses (near, far, out of reach of one base), 3 fields, 4 instructions, base known or not | address table, reduction |
| const_pool | 177,043 | 7 constants of 1, 2, 4, 8 and 16 bytes that contain each other, pool of 28 bytes | placement, sharing, fill |
| code_emitters | 42,756 | 2 holders, 2 assemblers, a builder, 2 sections, loggers and an error handler here and there | pointers into buffers after growth, emitter lists, ownership of memory, inherited settings, refinement of `EmitterRegistry` |
| builder | 108,434 | 2 sections, a plain node, a function with its pool, the global pool; 5 nodes at once | links, section switching, refinement of `NodeSequence` |
| args | 460,134 | 8 registers of 2 groups, families of 2, 3 and 4 arguments | no source overwritten, arguments arrive, only saved registers written, the shuffle ends |
| ra_local | 1,563,786 | 3 virtual registers, 2 and 3 physical ones with and without an exchange instruction, 3 with jump tables whose assignment the tables made | values, operands, assertions, entry assignments, progress of the switch |

Why the bounds suffice: a block of two bit-words has ranges that cross a word,
end at one and lie behind the window in the last word; of two blocks one is
passed over while the other is used or empty, and in jit_pools a third is in the
middle of a list; six allocations fill a block with single granules and one of
another; two fields and two
labels give every order of reference and bind in and across sections; three
fields to two far addresses are the least for a shared and a second table
slot; 28 bytes hold two gaps of one size. Three emitters are the least with one
in the middle of a list, two assemblers the least that share a buffer one of
them grows. Three arguments give cycles of two and three with one register to
spare, four the permutations without any; two suffice for the pairs that cross
groups and for the stack argument pointer. Three virtual registers for two
physical ones force spills, for three they allow every permutation. `MaxAllocations`, `MaxSize`,
`MaxSections`, `MaxLabels`, `MaxFields`, `MaxActive` are the bounds in guards.

`MCJit_pools.cfg` has blocks so large that spans in one block hardly interact;
that is what jit_blocks is for. Its two sizes belong to the second and the
third pool; the first stays empty. jit_blocks runs without resets, because
resets break two of its properties (see below).

code_emitters has a state constraint, `OneThingAtATime`: states with both
sections or buffers and own settings, or with either in the second holder,
are not explored further. No action reads one of the two and writes the other,
so that a violation that needs both at once would need only one.

Deadlock is checked for the constant pool and the register allocator. The
others may stop: after a failed assertion, when every bound is reached, after a
failed relocation, or when all arguments are moved.

Fairness is assumed in `FuncArgs` only: `FairSpec` says that the single thread
that runs `emit_args_assignment()` takes its next step, so that `Terminates`,
the end of its loops, is about the loops and not about the thread. The end of
the register allocator's loop needs none: `RoundsSettle` says of each turn that
it makes progress. Every other operation modelled is a call that returns in
one step, and no part waits for another.

### Disagreements shown by runs

Each of these runs checks one property taken from a comment, an assertion or
the documentation, and TLC refutes it.

| Run | Property | What happens |
|---|---|---|
| jit_bug_alloc_overrun | `AllocStaysInBlock` | full incremental block forgets `_search_end`; a later scan runs past the block |
| ra_bug_writeback | `ValuesKept` | an output gets the register of an operand the same instruction updates |
| ra_bug_shared | `AssertionsHold` | the assignment shared by a jump table's targets keeps a virtual register none of them needs; the switch to it ends without |

### Other disagreements

Met while modelling; no run of their own. Where a TLC result is given, it is
that of an existing run with the property added to its configuration, or a
constant changed, as said.

JIT allocator:

* `reset()` leaves `allocation_count` (jitallocator.cpp:820):
  `AllocationCountExact` fails in jit_blocks with any `ResetPolicies`.
* A hard reset leaves `empty_block_count` (853): `EmptyCountExact` fails with
  `ResetPolicies = {"hard"}`.
* `wipeOutBlock` fills the unused ranges instead of the used ones (780):
  `UnusedFilled` fails with `ResetPolicies = {"soft"}`.
* An incremental block that was full and then cut at its end has a free tail
  behind its search window (362): a later scan leaves it out of the largest free
  area it records, against the comments at 249 and 956, and requests that would
  fit are mapped elsewhere or fail. `LargestUnusedIsLargest` fails in jit_blocks.
* A block kept by a soft reset is inserted into the tree with the links of its
  old place: `InsertedNodesAreClean` fails in jit_pools (the assertion is in
  `ArenaTree::insert()`).
* Releasing the last span at the incremental front never sets `kFlagEmpty`
  (394), so `kImmediateRelease` (jitallocator.h:51) does not unmap that block.
* A write callback that shrinks its span to 0 leaves a stop bit before the area
  and keeps the allocation counted: `SpansDisjoint` and `BitsMatchSpans` fail
  with `TruncateSizes = {0}`.
* `query()` with a pointer inside a span (jitallocator.h:353 "contains") returns
  the part from there on.
* `JitAllocator::is_initialized()` is inverted (jitallocator.h:189).
* The comment at jitallocator.cpp:646 says a new block lacks `kFlagEmpty`; its
  constructor sets it and `mark_allocated_area()` clears it.

Code holder and assemblers:

* A branch to a label that is bound in another section asks `new_fixup()` for a
  fixup of a bound label, which it asserts never happens (codeholder.cpp:664):
  `FixupsOfUnboundLabels` fails in code_labels. The other fixups of the x86 and
  AArch64 assemblers do the same (x86assembler.cpp:4331, a64assembler.cpp:5110);
  the PowerPC branches ignore the section of a bound label
  (ppcassembler.cpp:553).
* `reinit()` keeps the base address of the last relocation:
  `ReinitRestoresBase` fails in code_addresses.
* The reduction `relocate_to_base()` reports is not the difference in size:
  `ReductionExact` fails in code_addresses.
* `.addrtab` is copied only if it is the last section (codeholder.cpp:1301): a
  section of order INT_MAX created after it leaves the table empty.
  `TableIsCopied` fails in code_addresses with `Orders = {9}`.
* "Virtual size ... is never changed by AsmJit" (codeholder.h:308), but
  `flatten()` changes it (1113).
* `resolve_cross_section_fixups()` returns `kOk` when a displacement does not
  fit (861), and called before `flatten()` it takes unknown offsets for real;
  `JitRuntime::_add()` does not ask `has_unresolved_fixups()` and ignores the
  result of `write()` (jitruntime.cpp:55).
* `write_offset()` ORs, so a second relocation mixes two values.
* If `add_address_to_address_table()` fails, its half-filled relocation entry
  stays (x86assembler.cpp:4900).
* An attach that fails in `on_attach()` leaves the emitter's `_code` set
  (emitter.cpp:377; `on_detach()` never clears it): the next attach returns
  `kOk` without doing anything, and the emitter's destructor or detach empties
  the holder's list. `InitializedMeansAttached` (emitter.h:428) fails in
  code_emitters with `Failures = {"attach"}`, and `PointersAgree` a little later.
* A compiler whose `on_reinit()` fails calls its `on_detach()` while the holder
  still lists it, and `reinit()` ignores the error: `SettingsFollow` fails with
  `Failures = {"reinit"}`.
* Growing a section with an external buffer (`kIsExternal`) does not copy its
  contents, and the flag stays.

Constant pool:

* Gaps larger than the constant are never used: `GapsAreTried` fails in
  const_pool.
* `ConstPool::add()` inserts shared nodes without a null check
  (constpool.cpp:201); its comment says constants have up to 32 bytes
  (constpool.h:258), the class's says 64.

Builder and compiler:

* Binding a bound label adds its node again (builder.cpp:532, asserted against
  in `add_node()`, 141): without assertions the list links to itself and
  `serialize_to()` does not end, where emitter.h:732 promises an error.
  `LinksAgree` fails in builder with `Rebinding = TRUE`, `Labels = {p1}` and
  `Plain = {}`.
* `remove_nodes()` asserts that a node follows (builder.cpp:304), also for a
  range that ends at the last node.
* `section()` and `GlobalConstPoolPass` on an empty list call `add_after()`
  with null; `serialize_to()` dereferences its first node.
* `_jump_annotations` stays after reinit and detach (compiler.cpp:516).
* A local constant asked for outside a function goes to the next function's
  pool, or nowhere if none follows.

Register allocator, arguments:

* A jump through a register whose annotation has a single target is treated as
  an unconditional jump: the switch to its target's assignment is emitted before
  it and may overwrite the register (rapass.cpp:1766-1788; the targets' scratch
  registers, 431-438, are for two or more). `OperandsRead` fails in ra_local
  with `Archs <- SingleTarget`.
* A jump table without an exchange instruction (AArch64): to free a register for
  the value the targets have there, the switch in front of the jump may move what
  it holds into the register of the jump's address, which by then is assigned to
  nothing (ralocal.cpp:251-262, called from 1169). `OperandsRead` fails in
  ra_local with `Archs <- TablesWithoutExchange`.
* What `spill_after_allocation()` emits behind an unconditional indirect jump is
  never executed.
* A branch that writes a register, as `loop` does, to a target that keeps that
  register free for a jump table: `spill_regs_before_entry()` (ralocal.cpp:1098)
  saves the value and unassigns the register before the branch, which then
  updates the register only. `ValuesKept` fails in ra_local with such a form
  among its branches; the theorems exclude it (`UpdatesApart`).
* In a realigned frame without an exchange instruction, an argument in the way
  of the stack argument pointer goes to a spare register (emithelper.cpp:284),
  which counts as progress, and the next pass moves it to another: `Terminates`
  fails in args with `Families <- Realigned`.
* `FuncArgsContext` marks both variables of an exchange done although one may
  have to be extended (funcargscontext.cpp:126): `ArgumentsExtended` fails in
  args.
* An exchange compares register numbers, not groups: with `Families <-
  ChangingGroup`, `ArgumentsArrive` fails.
* A cycle of three or more registers is never broken; the result is
  `kInvalidState`. The exclusive-or exchange announced at funcargscontext.cpp:310
  does not exist.

## Proofs

Eight modules hold theorems: `NatSetTheorems`, `JitAllocator_proofs`,
`CodeHolder_proofs`, `ConstPool_proofs`, `CodeEmitters_proofs`,
`BuilderList_proofs`, `FuncArgs_proofs`, `RALocal_proofs`. Each theorem is
`Spec => []P` or `Spec => Abstract!Spec`, for every value of the constants that
meets the named assumptions; a further hypothesis is named below with the reason
it is needed, which is a defect of the code in every case.

The provers unfold no recursion and instantiate no library theorem about an
operator. What the models need of both is in `NatSetTheorems`, stated for sets
and functions: induction (`InductiveHasNat`, by the least counterexample), the
sequence that starts with a value and goes on by a function (`NatRecursion`),
and sums as the number of units counted (`SumOver`), with what splitting a set
or changing one summand does; `SumFoldIsSum` shows that the folds in the models
compute these sums.

### The allocator

`JitAllocator_proofs`:

* `InductiveInvariant`: `IInv`;
* `TypeCorrect` (`TypeOK`), `ClientsGetDisjointSpans` (`SpansDisjoint`),
  `BitsDescribeSpans` (`BitsMatchSpans`), `FrontIsFree` (`IncrementalFront`),
  `CachesAreSound` (`SearchWindow`), `SkippedWindowsHaveNoRoom` (`SkipIsSound`),
  `EmptyBlocksAreUnused` (`EmptyHoldsNoSpan`), `IndexesAgree` (`IndexAgrees`),
  which follow from `IInv`;
* `CountersAreExact` (`CountersExact`), by an induction on top of `IInv`: blocks,
  reserved and used granules, not the overhead, and not `allocation_count`, which
  a reset leaves wrong (above);
* `EmptyBlocksAreCounted` (`EmptyCountExact`) and `UnusedMemoryIsFilled`
  (`UnusedFilled`), likewise.

`IInv` is the conjunction of the types (`StateTypes`), the shape of the block
lists (`PoolLists`), at most one empty block per pool, counted
(`OneEmptyBlock`), and for each block the invariant of its cache (`BlockInv`)
and the exact correspondence of its bits with the spans held (`HoldsSpans`).
`SpansDisjoint` alone is not inductive: that `alloc()` may take what it takes
follows from `BlockInv` (the front and the window), and that `release()` frees
what was held follows from the stop bits being span ends. `BlockInv` needs
`area_used` to be the number of used bits, since a block is declared empty or
full by that counter, and `SkipCovers`, since what a search found to be the
largest room decides later searches: a block that is not dirty has no free
range in its window longer than what it says, and `WindowCovers` leaves nothing
outside but a free tail of the block. That tail may be longer (above):
`SkippedWindowsHaveNoRoom` is about the window only.
The module first shows for each method of a block what it leaves behind, then
has one lemma per action of the allocator.

The counters are sums over the blocks of a pool. An operation changes one block
or adds or removes one, and the counters by what that block's share changed
(`Effect`): the lemmas show the share before and after, and `NatSetTheorems`
the sum.

Assumptions: blocks consist of whole bit-words, which page sizes guarantee, and
`0 \notin TruncateSizes`, since truncating to nothing breaks the invariant
(above). `EmptyBlocksAreCounted` excludes hard resets and `UnusedMemoryIsFilled`
soft ones: these leave the counter, or the freed memory, as it was (above).
`SpansDisjoint` is proved of the model with assertions: the overrun stops at the
assertion before a span is handed out.

`ImplementsPromise`, `Spec => ImplementsSpanAllocator`, follows from the same
invariant. `SpanAllocator` sees only the spans decoded from the
bit-vectors and the sizes of the mapped blocks. Under `IInv` the decoded spans
are the spans clients hold (`DecodedAreSpans`); with that, each action is shown
to be one step of `SpanAllocator` or to change neither (one lemma `...Promised`
per action): a new span is clear of all others, a released or cut span is a
whole one, and no region is unmapped under a span.

### Emitters and buffers

`CodeEmitters_proofs`, for any number of holders, emitters, sections and
settings:

* `InductiveInvariant`: `IInv`;
* `PointersAreFresh` (`PointersAgree`), `BuffersAreOwnedOnce`
  (`MemoryAccounted`), `ListsAreLinked` (`LinksAgree`);
* `ImplementsTheRegistry`: `ImplementsRegistry`, the refinement of
  `EmitterRegistry`;
* `SettingsAreCurrent` (`SettingsFollow`), with an invariant of its own.

Who is told of a new buffer, of a reset or of new settings is whoever the walk
of a list meets, so `IInv` has to say what the linked list of a holder is: a
sequence without repetition, whose first and last are the holder's, whose
neighbours are each other's `prev` and `next`, and whose members are exactly the
emitters with that holder (`Linked`). A sequence is given as a number and a
function, and that the recursive walk meets exactly its members, in order, is
`WalkIsChain`, by induction on the steps left. The rest of `IInv` says of every
attached assembler that its pointers are those of the buffer of its section, of
buffers that no two sections or holders own the same memory, and that what is
live is what is owned. Each event is shown to change the fields it changes and
no list (`Fields`), each operation on a list to take out or append one member
(`Step`); the refinement follows from the same facts.

All but `SettingsAreCurrent` assume `"attach" \notin Failures`: an emitter whose
`on_attach()` failed keeps its `_code` and is in no list, and detaching it later
empties the list of a holder that has others. `SettingsAreCurrent` assumes
`Failures = {}`: an emitter whose `on_reinit()` failed is detached by halves and
still listed; only its settings tell.

### From references to code

`CodeHolder_proofs`, for any number of sections, labels, fields and relocation
entries, any base addresses and any reach of a displacement:

* `Invariant`: `IInv`; `Types` (`TypeOK`);
* `FixupsAreCounted` (`FixupCountExact`) and `FieldsAreAccountedFor`
  (`FieldsAccounted`);
* `LayoutIsSound` (`LayoutSound`), `CopyLosesNothing` (`ReducedSizeHoldsCode`)
  and `TableIsInBuffer` (`TableIsCopied`);
* `CodeIsRight` (`RelocatedCodeIsRight`).

Each action is first shown to be one of the steps of `Steps`, which say element
by element what happens to sections, labels, fields, fixups and entries
(`NextSteps`). `IInv` has four parts, and each survives the steps:

* `CoreInv`: the types, and that what refers to something refers to something
  there is;
* `LayoutInv`: until `flatten()` only `.text` has a place and `.addrtab` reserves
  a slot for every listed address; after it every section ends where the next
  one starts (`Flat`), which is the recursion of `LayoutEnd` read once around
  (`LayoutEndIs`). From it follow both the promises of `flatten()` and those
  about the copy: the table is last, so trimming it moves nothing;
* `RefInv`: a fixup or an entry is for a field that means what it is about
  (`FixupsMean`, `EntriesMean`), a field is empty exactly as long as something is
  going to fill it (`Accounted`), and the counter is the number of fields that
  fixups wait for. `FixupCountExact` is not inductive without this: that binding
  counts out as many as it takes away needs that no two fixups wait for the same
  field (`FixupsApart`), which follows from what they mean;
* `ValueInv`: a field that is not empty holds what its meaning asks for
  (`FieldRight`). Before `flatten()` positions are not known, so it adds that a
  value known early is a distance within one section, or one against `.text`,
  whose offset is 0 all along; these are what laying out leaves as they are.

`CodeIsRight` then is the last step: a field is empty before relocation and has
an entry whose value is the right one (`WrittenRight`), or it was right before
and nothing moves (`KnownStaysRight`), or it still waits for a fixup. It says
nothing of two kinds of fields on purpose: those that wait, since
`resolve_cross_section_fixups()` may leave a fixup out of reach, and those whose
value was computed for another base than the final one, since `reinit()` keeps
the base of the last relocation and those are wrong (above). That a slot is its
address' own is the order of first needs (`SlotsInOrder`).

`TableIsInBuffer` assumes `TableOrder \notin Orders`: a section of the user with
order `INT_MAX` may come after `.addrtab`, whose buffer is then not copied
(above). The other theorems assume `ConstantsAssumption` only.

### The constant pool

`ConstPool_proofs`:

* `LookupInvariant`, from which `ConstantsHaveOnePlace` (`OneOffset`): one node
  per size and data, and each answer is the offset of a node;
* `PoolInvariant`, from which `SpaceIsSound` (`SpaceSound`) and, with
  `LookupInvariant`, `AnswersAreTrue` (`AnswersHold`).

`PoolInv` says that stored constants and gaps are apart, aligned and inside the
pool (`SpaceInv`), and that each node, also one for a piece of a longer
constant, lies in a stored constant that has its bytes there (`ContentInv`).
`SpaceSound` is not inductive without the order of sizes, alignments and ends.
The lists of gaps are treated as one value, a cut of a space (`Cut`): a piece is
added in front, a list is popped, two cuts of neighbouring spaces are joined;
that `Pieces` is a cut is an induction on the bytes left. That words of a
piece are words of the whole is arithmetic on the seven sizes
(`PartArithmetic`). No hypothesis beyond `ConstantsAssumption`.

### The node list

`BuilderList_proofs`, for any nodes, sections and functions and lists of any
length:

* `InductiveInvariant`: `IInv`;
* `LinksAreSound` (`LinksAgree`) and `SwitchingIsRight` (`SwitchingIsExact`);
* `ImplementsSequence` (`ImplementsNodeSequence`), the refinement of
  `NodeSequence`.

`IInv` says that there is a sequence of nodes, each once, which the list holds
(`Sound`): `first`, `last`, `next` and `prev` are its ends and neighbours, the
active nodes are its members, the cursor is one of them or nowhere, and unless
they are dirty the section links lead from each section in it to the next
(`LinksKnown`). That links that are not dirty stay right is a fact about
sequences: what adds or removes only nodes that are no sections leaves the
sections in their order (`Embeds`, `SameSectionBehind`). The second part,
`OwnersInv`, says what makes the nodes the compiler adds new: the nodes of a
function not yet added are in no list, the pool of the function being built is
not in the list while its end is, and a global pool that waits is not either.
Each insertion is `Linked` between two neighbours, each removal `Unlinked` of a
run of nodes (`LinkedHolds`, `UnlinkedHolds`); the operations are composed of
them as in the code, and what each does to the sequence is its step of
`NodeSequence` (one lemma `...Steps` per action). That `Walk` meets exactly the
sequence (`SoundWalk`) needs that a list has no more nodes than there are.

The theorems assume `~Rebinding`: binding a bound label breaks the links
(above). Of the constants they assume `BuilderListAssumption` and
`NodesAreDistinct`: the nodes of a function are four, and nodes of nothing else.

### The moves of arguments

`FuncArgs_proofs`, for any number of arguments and registers and any
assignment:

* `SourcesAreKept`: `NothingOverwritten`, until the moves end;
* `WritesAreSaved`: `OnlySavedRegistersWritten`;
* `WhatIsOkHasArrived`: `ArgumentsArrive`;
* `GivesUpForCause`: `FailsOnlyForCause`.

They follow from `IInv`, with one lemma per action. `NothingOverwritten` alone
is not inductive, since each loop skips or stops on what the context says:

* `Tracked`: the register map and the variables agree, so a register the map
  calls free holds nothing that is needed;
* `PointerKept`: until the loads, the register of the stack argument pointer is
  in the map, so nothing is moved onto it;
* `ShuffleInv`: as long as nothing was put off, all that is left lies ahead of
  the loop, so the shuffle ends only when registers are settled;
* `LoadInv`: at most one load is put off, the one to the base register, and it
  comes last;
* `ArrivalInv`: what is done has arrived and is not moved again;
* `FrameInv`: what the moves may write was made dirty when the frame was planned.

`GivesUpForCause` needs more (`GivesUpInv`): a pass over the variables that
moves nothing leaves each of them waiting, either for the register of another
one that is going elsewhere or for a spare register (`WaitInv`). If nobody waits
for a spare register, "the one in the way of" is an injection of the unsettled
variables into themselves, hence onto them, and pairs that are in each other's
way were exchanged: they form cycles of three or more (`LongCycle`), the cause
the error stands for.

Assumptions: `InstanceAssumption` (arguments are numbered, groups of registers
are disjoint, every instance is one `FuncArgsAssignment` can hold), and for
`WhatIsOkHasArrived` and `GivesUpForCause` that no argument changes its group on
an architecture with an exchange, since exchanges compare the numbers of
registers (above).

### The register allocator

`RALocal_proofs`, for any architectures, instructions and virtual registers, and
for every program and every choice the allocator has:

* `InductiveInvariant`: `IInv`;
* `AssertionsNeverFail` (`AssertionsHold`), for shared assignments made by jump
  tables, and `SwitchRoundsSettle` (`RoundsSettle`), which needs nothing else;
* `ValuesAreKept` (`ValuesKept`) and `EntriesAreKept` (`EntryKept`), with
  `ValueInv` on top;
* `OperandsAreRead` (`OperandsRead`), with `ReadInv` on top of both.

`IInv` is about what the allocator believes: the assignment is sound (no virtual
register in two places, nothing dirty that is unassigned), no assertion has
failed (unless a table's shared assignment is a branch's, `Fine`), and for each
phase what its loop relies on. That `assign()` finds its
register free is the end of a chain through the phases of
`alloc_instruction()`: what an operand wants is free or on the list to be freed,
and what is placed is not on it (`WantedInv`); the registers that may be used to
make room are wanted by nobody (`FreeInv`); outputs behind the loop have taken
what they hold and those ahead are nowhere (`OutInv`). That there is a register
to choose is `TakenInv`: whatever an operand cannot have is fixed, was chosen, or
was left by an operand that could not stay there, and of these
`FindsRegisters` leaves one over (`RegisterLeft`, `SomeAllocable`,
`SomeOutReg`). `InstructionInv` keeps the
operands in step with the instruction they come from. For a switch, `Switching`
says what is left behind a turn: registers that are not affected any more are as
in the target or waiting for their load, and a value the target has in no
register is in none; `Stuck`, that after a turn which changed nothing every
register left is occupied by somebody else. One turn is a walk over the registers
whose every step settles one (`Settles`, `Walked`, by induction on the register).
That the switch of an unconditional jump never gives up is `Stuck` against this:
of registers that are all in each other's way the second turn moves one.

`ValueInv` is about what the emitted code does: `Kept(m, W)` says that each value
of `W` is in the register it is assigned to, and in its slot too if that register
is clean or there is none. Each operation on a machine keeps it (lemmas `...Keeps`
and `...Carries`), but for what it is kept changes from phase to phase: all that
is live up to the instruction, of that what is neither written anew nor ended
while outputs are assigned (`Spared`), and what lives at the target during a
switch. `ReadInv` adds that operands, once placed, hold what the instruction
reads, and that the switch in front of an indirect jump spares its registers
(`SparesScratch`).

Hypotheses. `ArchAssumption` says what an instruction is, as `RAInstBuilder` and
the control-flow builder make it: operands in fixed registers have one each, the
registers of fixed outputs are clobbered, a jump only reads and has its operands
in fixed registers, which its targets keep free (racfgbuilder_p.h:177-190). That
the outputs of an instruction are all fixed or all free within a group is no rule
of the code but a fact about the instructions and calls there are, and so is
`FindsRegisters`: however the other operands chose and whatever they left, one
register of its own is there for each operand. Without it the code asks for the
best of no registers (the assertions at ralocal.cpp:1190 and 1244).

`AssertionsNeverFail` assumes `TablesApart`: no jump table is led to a shared
assignment that a branch or a fall-through made. ra_bug_shared shows why; the
other theorems do not need it, so for such tables values, entries and
operands are proved right although the switch does not reach the assignment it
was given. Outside it are the assertions that `set_shared_assignment()` makes
about the control-flow graph, which is not modelled.

`ValuesAreKept` and the theorems after it assume `UpdatesApart`: an operand
updated in place, in an instruction that also has outputs or clobbers, is fixed,
and so are the outputs; in a branch it is in no register the target keeps free.
Multiplications and calls are such; a load that writes its base back is not, and
ra_bug_writeback shows what becomes of its base. `OperandsAreRead` assumes also
`JumpsExchange`: no indirect jump with a single target, and none at all without
an exchange instruction (above). The architectures of ra_local satisfy all of
these.

### Only model-checked

`Terminates` of `FuncArgs` is liveness, out of the prover's reach like ENABLED.
Every other property a passing run checks is stated by a theorem.

## Not modelled, and what could be

* `JitRuntime` as a composition of `SpanAllocator` with the phases of
  `CodeHolder`, with failures at each step.
* `ArenaTree` (red-black insert and remove against a set), the loop of
  `BitVectorRangeIterator` against `RangeStarts` and `RangeEnd`, `Arena`,
  `ArenaHash`, `ArenaList`. The models use what they stand for.
* `VirtMem`: lazy detection of the hardened runtime and of dual mapping.
* `serialize_to()` and passes; liveness analysis and global allocation, whose
  results `RALocal` takes as any they could be; prolog and epilog.
* The encodings of the three backends, `ujit`, the instruction database,
  formatting and the tools: tables and functions without a state that matters
  to the order of calls.

Worth proving next: that the steps of `alloc_instruction()`, taken together, are
one step of an abstract allocator that knows values and no registers; and, by a
measure on what is left to move, that the shuffle of arguments ends.
