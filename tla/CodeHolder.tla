------------------------------ MODULE CodeHolder ------------------------------
(***************************************************************************)
(* How code becomes position-dependent (core/codeholder.cpp, with the      *)
(* parts of core/assembler.cpp and x86/x86assembler.cpp that feed it).     *)
(*                                                                         *)
(* Assemblers append instructions to the sections of a CodeHolder.  An     *)
(* operand that refers to a label, to an absolute address or to the        *)
(* difference of two labels leaves a field in the code.  Either its value  *)
(* is known at once, or a fixup (label not bound yet) or a relocation      *)
(* entry (position not known yet) has to fill it later: when the label is  *)
(* bound, when the sections have been laid out, or when the code has been  *)
(* given its base address.                                                 *)
(*                                                                         *)
(* Offsets count bytes.  The code is the list of its fields; the bytes     *)
(* between them are only counted.  write_offset() ORs a value into the     *)
(* zeros of the placeholder, so the value of a field is the set of values  *)
(* that were ORed into it.  The ranges of 8-bit and 32-bit displacements   *)
(* are constants.  Sections, labels, fields and relocations are numbered   *)
(* from 1 and 0 is no section, no label or no relocation.                  *)
(*                                                                         *)
(* As in the other modules, an operator named Wrong... is the definition   *)
(* after it with a mistake in it, for PROJECT.json's mutants.              *)
(***************************************************************************)
EXTENDS Integers, FiniteSetsExt, SequencesExt

CONSTANTS
  GivenBases,    \* base addresses init() may be called with, NoBase among them or not
  Bases,         \* base addresses the code may be relocated to
  NoBase,        \* Globals::kNoBaseAddress
  Addresses,     \* absolute addresses the code jumps to
  Instructions,  \* the relative branches the code uses
  Alignments,    \* alignments of the sections the user creates
  Orders,        \* their orders
  Paddings,      \* lengths of the byte runs that refer to nothing
  Reach8,        \* a signed 8-bit displacement is one of -Reach8 - 1 .. Reach8
  Reach32,       \* and a signed 32-bit one of -Reach32 - 1 .. Reach32
  MaxSections,   \* bound on the sections the user creates, .text included
  MaxLabels,     \* bound on the labels
  MaxFields,     \* bound on the fields
  MaxSize        \* no padding is appended to a section of that size

TextOrder    == -1                        \* INT_MIN
TableOrder   == 9                         \* INT_MAX
AddressSize  == 8                         \* register_size() of a 64-bit environment
NoOffset     == -1                        \* Globals::kNoSectionOffset
TextSection  == 1

ASSUME ConstantsAssumption ==
  /\ GivenBases \subseteq Bases \cup {NoBase} /\ GivenBases # {}
  /\ Bases \subseteq Nat /\ NoBase \notin Bases /\ Addresses \subseteq Nat
  /\ Instructions \subseteq {"call", "jmp", "jcc", "jecxz"}
  /\ Alignments \subseteq Nat \ {0} /\ Orders \subseteq TextOrder + 1 .. TableOrder
  /\ Paddings \subseteq Nat \ {0}
  /\ Reach8 \in Nat /\ Reach32 \in Nat /\ Reach8 < Reach32
  /\ MaxSections \in Nat \ {0} /\ MaxLabels \in Nat /\ MaxFields \in Nat /\ MaxSize \in Nat

VARIABLES
  given_base,              \* the base address init() was called with (ghost)
  base_address,            \* CodeHolder::_base_address
  sections,                \* sections by id
  sections_by_order,       \* section ids in layout order
  address_table_section,   \* id of .addrtab, or 0
  slots,                   \* address -> its slot in .addrtab, NoSlot, or NotListed
  labels,                  \* label entries: bound position, or fixups
  fixups,                  \* fixups of bound labels that bind() could not resolve
  unresolved_fixup_count,
  relocations,             \* relocation entries
  fields,                  \* the fields of the code
  table,                   \* pairs of a slot and an address stored in it
  phase,                   \* how far the code is
  summary,                 \* code size before relocation, and RelocationSummary
  fault                    \* the assertion that failed, or "none"

layout == <<sections, sections_by_order, address_table_section, slots>>
refs   == <<labels, fixups, unresolved_fixup_count, relocations>>
vars   == <<given_base, base_address, layout, refs, fields, table, phase, summary, fault>>

NotListed == -2    \* the address has no AddressTableEntry
NoSlot    == -1    \* it has one without a slot

-------------------------------------------------------------------------------
(* Sections and their layout *)

NewSectionRecord(alignment, order, offset) ==
  [alignment |-> alignment, order |-> order, offset |-> offset, virtual_size |-> 0, size |-> 0]

RealSize(section) == Max({section.virtual_size, section.size})

AlignUp(n, alignment) == ((n + alignment - 1) \div alignment) * alignment

\* The alignment is forgotten.
WrongStartAfter(end, section) == end

\* Only a section that holds something is aligned.
StartAfter(end, section) ==
  IF RealSize(section) = 0 THEN end ELSE AlignUp(end, section.alignment)

\* Where the first n sections end.
LayoutEnd(secs, by_order, n) ==
  LET End[k \in 0 .. n] ==
        IF k = 0 THEN 0
        ELSE LET section == secs[by_order[k]]
             IN  StartAfter(End[k - 1], section) + RealSize(section)
  IN  End[n]

LayoutStart(secs, by_order, n) ==
  StartAfter(LayoutEnd(secs, by_order, n - 1), secs[by_order[n]])

CodeSize == LayoutEnd(sections, sections_by_order, Len(sections_by_order))

\* std::lower_bound() by (order, id) for the newest id.
InsertByOrder(order, id) ==
  LET before == {k \in DOMAIN sections_by_order : sections[sections_by_order[k]].order <= order}
  IN  InsertAt(sections_by_order, Cardinality(before) + 1, id)

\* .addrtab is emitted by relocate_to_base() only.
CodeSections == DOMAIN sections \ {address_table_section}

-------------------------------------------------------------------------------
(* Fields *)

Fits(size, value) ==
  CASE size = 1 -> value \in -Reach8 - 1 .. Reach8
    [] size = 4 -> value \in -Reach32 - 1 .. Reach32
    [] size = AddressSize -> TRUE

\* What an operand means: the position of a label, an absolute address, the
\* absolute position of a label, or the distance between two labels.
ToLabel(l)      == [kind |-> "label",   to |-> l, from |-> 0]
ToAddress(a)    == [kind |-> "address", to |-> a, from |-> 0]
PointerTo(l)    == [kind |-> "pointer", to |-> l, from |-> 0]
Distance(l, m)  == [kind |-> "distance", to |-> l, from |-> m]

\* A field `size` bytes wide after `lead` bytes of its instruction.  `base` is
\* the base address its value takes for granted.
FieldAt(s, lead, size, meaning, value, base) ==
  [section |-> s, at |-> sections[s].size + lead, size |-> size, meaning |-> meaning,
   value |-> value, base |-> base, indirect |-> FALSE]

Extend(s, lead, size) == [sections EXCEPT ![s].size = @ + lead + size]

FieldEnd(f) == fields[f].at + fields[f].size

IsBound(l) == labels[l].section # 0

LabelPosition(l) == sections[labels[l].section].offset + labels[l].offset

-------------------------------------------------------------------------------
(* Branches.  LongSize counts the instruction with a 32-bit displacement,     *)
(* ShortSize the one with an 8-bit displacement.                              *)

LongSize(i)   == IF i = "jcc" THEN 6 ELSE 5
ShortSize     == 2
HasLong(i)    == i # "jecxz"
HasShort(i)   == i # "call"
Patchable(i)  == i \in {"call", "jmp"}    \* is_jmp_or_call

TakesShort(i, s, target) ==
  HasShort(i) /\ Fits(1, target - (sections[s].size + ShortSize))

\* The branch to a position known relative to the start of its section.
BranchField(i, s, target, meaning, base) ==
  LET short == TakesShort(i, s, target)
      size  == IF short THEN 1 ELSE 4
      lead  == IF short THEN ShortSize - 1 ELSE LongSize(i) - 4
  IN  FieldAt(s, lead, size, meaning, {target - (sections[s].size + lead + size)}, base)

-------------------------------------------------------------------------------
(* Initialization *)

\* What init() and reinit() leave: an empty .text section and nothing else.
Cleared ==
  [sections |-> << NewSectionRecord(1, TextOrder, 0) >>,
   slots    |-> [a \in Addresses |-> NotListed],
   summary  |-> [estimate |-> 0, reduction |-> 0]]

Init ==
  /\ given_base \in GivenBases
  /\ base_address = given_base
  /\ sections = Cleared.sections
  /\ sections_by_order = << TextSection >>
  /\ address_table_section = 0
  /\ slots = Cleared.slots
  /\ labels = << >> /\ fixups = {} /\ unresolved_fixup_count = 0 /\ relocations = << >>
  /\ fields = << >> /\ table = {}
  /\ phase = "emitting" /\ summary = Cleared.summary
  /\ fault = "none"

\* Keeps the base address the code was relocated to.
Reinit ==
  /\ fault = "none"
  /\ sections' = Cleared.sections
  /\ sections_by_order' = << TextSection >>
  /\ address_table_section' = 0
  /\ slots' = Cleared.slots
  /\ labels' = << >> /\ fixups' = {} /\ unresolved_fixup_count' = 0 /\ relocations' = << >>
  /\ fields' = << >> /\ table' = {}
  /\ phase' = "emitting" /\ summary' = Cleared.summary
  /\ UNCHANGED <<given_base, base_address, fault>>

-------------------------------------------------------------------------------
(* Sections, labels and bytes *)

Emitting == phase = "emitting" /\ fault = "none"

Bystanders == <<given_base, base_address, phase, summary, table>>

NewSection(alignment, order) ==
  /\ Emitting /\ Cardinality(CodeSections) < MaxSections
  /\ sections' = Append(sections, NewSectionRecord(alignment, order, NoOffset))
  /\ sections_by_order' = InsertByOrder(order, Len(sections) + 1)
  /\ UNCHANGED <<address_table_section, slots, refs, fields, fault, Bystanders>>

NewLabel ==
  /\ Emitting /\ Len(labels) < MaxLabels
  /\ labels' = Append(labels, [section |-> 0, offset |-> 0, fixups |-> {}])
  /\ UNCHANGED <<layout, fixups, unresolved_fixup_count, relocations, fields, fault, Bystanders>>

EmbedData(s, n) ==
  /\ Emitting /\ sections[s].size < MaxSize
  /\ sections' = Extend(s, 0, n)
  /\ UNCHANGED <<sections_by_order, address_table_section, slots, refs, fields, fault, Bystanders>>

-------------------------------------------------------------------------------
(* References to labels *)

NextField == Len(fields) + 1
NextReloc == Len(relocations) + 1

CanRefer == Emitting /\ Len(fields) < MaxFields

\* The fixup is not counted.
WrongNewFixup(l, rel, reloc) ==
  /\ labels' = [labels EXCEPT ![l].fixups =
                  @ \cup {[field |-> NextField, rel |-> rel, label_or_reloc_id |-> reloc]}]
  /\ UNCHANGED unresolved_fixup_count

\* The fixup is not told which relocation entry it belongs to.
WrongNewFixupPlain(l, rel, reloc) ==
  /\ labels' = [labels EXCEPT ![l].fixups =
                  @ \cup {[field |-> NextField, rel |-> rel, label_or_reloc_id |-> 0]}]
  /\ unresolved_fixup_count' = unresolved_fixup_count + 1

\* new_fixup(), which asserts that the label is not bound.
NewFixup(l, rel, reloc) ==
  /\ labels' = [labels EXCEPT ![l].fixups =
                  @ \cup {[field |-> NextField, rel |-> rel, label_or_reloc_id |-> reloc]}]
  /\ unresolved_fixup_count' = unresolved_fixup_count + 1

AppendField(field, s, lead) ==
  /\ fields' = Append(fields, field)
  /\ sections' = Extend(s, lead, field.size)

BranchToBoundLabel(s, l, i) ==
  LET field == BranchField(i, s, labels[l].offset, ToLabel(l), NoBase) IN
  /\ CanRefer /\ labels[l].section = s
  /\ TakesShort(i, s, labels[l].offset) \/ HasLong(i)    \* else InvalidDisplacement
  /\ AppendField(field, s, field.at - sections[s].size)
  /\ UNCHANGED <<sections_by_order, address_table_section, slots, refs, fault, Bystanders>>

BranchToUnboundLabel(s, l, i) ==
  LET size == IF HasLong(i) THEN 4 ELSE 1
      lead == IF HasLong(i) THEN LongSize(i) - 4 ELSE ShortSize - 1
  IN  /\ CanRefer /\ ~IsBound(l)
      /\ AppendField(FieldAt(s, lead, size, ToLabel(l), {}, NoBase), s, lead)
      /\ NewFixup(l, -size, 0)
      /\ UNCHANGED <<sections_by_order, address_table_section, slots, fixups, relocations,
                     fault, Bystanders>>

\* "Non-bound label or label bound to a different section": the second half of
\* that comment ends in new_fixup()'s assertion.
BranchToLabelElsewhere(s, l) ==
  /\ CanRefer /\ IsBound(l) /\ labels[l].section # s
  /\ fault' = "fixup of a bound label"
  /\ UNCHANGED <<layout, refs, fields, Bystanders>>

Reloc(kind, field, lead, payload, target) ==
  [kind |-> kind, field |-> field, lead |-> lead, payload |-> payload, target |-> target]

EmbedLabel(s, l) ==
  /\ CanRefer
  /\ AppendField(FieldAt(s, 0, AddressSize, PointerTo(l), {}, NoBase), s, 0)
  /\ relocations' = Append(relocations,
       Reloc("RelToAbs", NextField, 0, IF IsBound(l) THEN labels[l].offset ELSE 0,
             labels[l].section))
  /\ IF IsBound(l) THEN UNCHANGED <<labels, unresolved_fixup_count>>
                   ELSE NewFixup(l, 0, NextReloc)
  /\ UNCHANGED <<sections_by_order, address_table_section, slots, fixups, fault, Bystanders>>

EmbedLabelDelta(s, l, m) ==
  LET known == IsBound(l) /\ labels[l].section = labels[m].section
      value == IF known THEN {labels[l].offset - labels[m].offset} ELSE {}
  IN  /\ CanRefer
      /\ AppendField(FieldAt(s, 0, AddressSize, Distance(l, m), value, NoBase), s, 0)
      /\ relocations' = IF known THEN relocations
                        ELSE Append(relocations, Reloc("Expression", NextField, 0, 0, 0))
      /\ UNCHANGED <<sections_by_order, address_table_section, slots, labels, fixups,
                     unresolved_fixup_count, fault, Bystanders>>

-------------------------------------------------------------------------------
(* Branches to absolute addresses *)

IsAbsoluteLocation(s) == base_address # NoBase /\ sections[s].offset # NoOffset

\* The address as an offset from the start of section s.
TargetIn(s, a) == a - (base_address + sections[s].offset)

IsNear(i, s, a) == Fits(4, TargetIn(s, a) - (sections[s].size + LongSize(i)))

BranchToAddressNow(s, a, i) ==
  LET field == BranchField(i, s, TargetIn(s, a), ToAddress(a), base_address) IN
  /\ CanRefer /\ IsAbsoluteLocation(s) /\ IsNear(i, s, a)
  /\ TakesShort(i, s, TargetIn(s, a)) \/ HasLong(i)      \* else InvalidDisplacement
  /\ AppendField(field, s, field.at - sections[s].size)
  /\ UNCHANGED <<sections_by_order, address_table_section, slots, refs, fault, Bystanders>>

\* The table has room for one address however many are listed.
WrongReserveSlot(secs, id) == [secs EXCEPT ![id].virtual_size = AddressSize]

ReserveSlot(secs, id) == [secs EXCEPT ![id].virtual_size = @ + AddressSize]

\* add_address_to_address_table() on top of the sections the branch extends.
ListAddress(a, secs) ==
  LET id == IF address_table_section = 0 THEN Len(secs) + 1 ELSE address_table_section
      with_table == IF address_table_section = 0
                    THEN Append(secs, NewSectionRecord(AddressSize, TableOrder, NoOffset))
                    ELSE secs
  IN  IF slots[a] # NotListed
      THEN /\ sections' = secs
           /\ UNCHANGED <<sections_by_order, address_table_section, slots>>
      ELSE /\ sections' = ReserveSlot(with_table, id)
           /\ sections_by_order' = IF address_table_section = 0
                                   THEN InsertByOrder(TableOrder, id) ELSE sections_by_order
           /\ address_table_section' = id
           /\ slots' = [slots EXCEPT ![a] = NoSlot]

\* A call or jmp gets a REX prefix and an entry in the address table, so that
\* it can be patched into an indirect one.
BranchToAddressLater(s, a, i) ==
  LET size == IF HasLong(i) THEN 4 ELSE 1
      lead == IF HasLong(i) THEN 2 ELSE 1
  IN  /\ CanRefer
      /\ IsAbsoluteLocation(s) => ~IsNear(i, s, a) /\ Patchable(i)
      /\ fields' = Append(fields, FieldAt(s, lead, size, ToAddress(a), {}, NoBase))
      /\ relocations' = Append(relocations,
           Reloc(IF Patchable(i) THEN "X64AddressEntry" ELSE "AbsToRel",
                 NextField, lead, a, 0))
      /\ IF Patchable(i) THEN ListAddress(a, Extend(s, lead, size))
         ELSE /\ sections' = Extend(s, lead, size)
              /\ UNCHANGED <<sections_by_order, address_table_section, slots>>
      /\ UNCHANGED <<labels, fixups, unresolved_fixup_count, fault, Bystanders>>

-------------------------------------------------------------------------------
(* Binding a label *)

\* A field that is not zero any more keeps its old bits: the value is ORed in.
Patched(f, v) == [fields[f] EXCEPT !.value = @ \cup {v}]

\* Fills the field of every fixup f in the domain of d with d[f].
PatchFields(d) ==
  fields' = [n \in DOMAIN fields |->
               IF \E f \in DOMAIN d : f.field = n
               THEN Patched(n, d[CHOOSE f \in DOMAIN d : f.field = n])
               ELSE fields[n]]

\* A fixup that only informed a relocation entry is not counted out.
WrongCountOut(done) ==
  unresolved_fixup_count' =
    unresolved_fixup_count - Cardinality({f \in done : f.label_or_reloc_id = 0})

CountOut(done) == unresolved_fixup_count' = unresolved_fixup_count - Cardinality(done)

\* The distance from the end of the field of a fixup to a position; `start` is
\* where the field's section starts.
Displacement(fixup, start, position) ==
  position - (start + fields[fixup.field].at) + fixup.rel

\* A branch from another section is taken for one from this section.
WrongIsPatchedHere(f, s, position) ==
  Fits(fields[f.field].size, Displacement(f, 0, position))

IsPatchedHere(f, s, position) ==
  /\ fields[f.field].section = s
  /\ Fits(fields[f.field].size, Displacement(f, 0, position))

\* Fixups on the label's list that have a relocation entry only tell it where
\* the label is.  The others are resolved here if the branch is in the same
\* section and reaches; whatever is left goes to CodeHolder::_fixups.
Bind(s, l) ==
  LET position  == sections[s].size
      direct    == {f \in labels[l].fixups : f.label_or_reloc_id = 0}
      resolved  == {f \in direct : IsPatchedHere(f, s, position)}
      left      == direct \ resolved
      relocated == {f.label_or_reloc_id : f \in labels[l].fixups \ direct}
  IN  /\ Emitting /\ ~IsBound(l)
      /\ labels' = [labels EXCEPT ![l] = [section |-> s, offset |-> position, fixups |-> {}]]
      /\ relocations' = [r \in DOMAIN relocations |->
                           IF r \in relocated
                           THEN [relocations[r] EXCEPT !.payload = @ + position, !.target = s]
                           ELSE relocations[r]]
      /\ PatchFields([f \in resolved |-> Displacement(f, 0, position)])
      /\ fixups' = fixups \cup {[f EXCEPT !.label_or_reloc_id = l] : f \in left}
      /\ CountOut(labels[l].fixups \ left)
      /\ UNCHANGED <<layout, fault, Bystanders>>

-------------------------------------------------------------------------------
(* Laying the sections out, once *)

Flatten ==
  LET n     == Len(sections_by_order)
      At(k) == LayoutStart(sections, sections_by_order, k)
      K(id) == CHOOSE k \in 1 .. n : sections_by_order[k] = id
  IN  /\ Emitting
      /\ phase' = "flattened"
      /\ sections' = [id \in DOMAIN sections |->
                        [sections[id] EXCEPT
                           !.offset = At(K(id)),
                           !.virtual_size = IF K(id) = n THEN @ ELSE At(K(id) + 1) - At(K(id))]]
      /\ UNCHANGED <<given_base, base_address, sections_by_order, address_table_section, slots,
                     refs, fields, table, summary, fault>>

ResolveCrossSectionFixups ==
  LET D(f)     == Displacement(f, sections[fields[f.field].section].offset,
                               LabelPosition(f.label_or_reloc_id))
      resolved == {f \in fixups : Fits(fields[f.field].size, D(f))}
  IN  /\ phase = "flattened" /\ fault = "none"
      /\ PatchFields([f \in resolved |-> D(f)])
      /\ fixups' = fixups \ resolved
      /\ CountOut(resolved)
      /\ UNCHANGED <<layout, labels, relocations, fault, Bystanders>>

-------------------------------------------------------------------------------
(* Relocation, once *)

\* The bytes of the field itself are forgotten.
WrongRelocEnd(r) ==
  LET f == relocations[r].field IN sections[fields[f].section].offset + fields[f].at

\* The end of the field of relocation entry r, the base address left aside.
RelocEnd(r) ==
  LET f == relocations[r].field IN sections[fields[f].section].offset + FieldEnd(f)

RelativeTo(base, r) == relocations[r].payload - (base + RelocEnd(r))

NeedsTable(base, r) ==
  relocations[r].kind = "X64AddressEntry" /\ ~Fits(4, RelativeTo(base, r))

\* Slots are handed out in the order the relocation entries first need them.
FirstNeed(base, a) ==
  Min({r \in DOMAIN relocations : NeedsTable(base, r) /\ relocations[r].payload = a})

\* The entry gets the next slot but the next slot stays the same.
WrongSlot(base, a) == 0

Slot(base, a) ==
  Cardinality({relocations[r].payload : r \in {r \in DOMAIN relocations :
                 NeedsTable(base, r) /\ r < FirstNeed(base, a)}})

TablePosition(slot) == sections[address_table_section].offset + slot * AddressSize

RelocValue(base, r) ==
  LET re      == relocations[r]
      meaning == fields[re.field].meaning
  IN  CASE re.kind = "RelToAbs"   -> re.payload + base + sections[re.target].offset
        [] re.kind = "Expression" -> LabelPosition(meaning.to) - LabelPosition(meaning.from)
        [] re.kind = "AbsToRel"   -> RelativeTo(base, r)
        [] re.kind = "X64AddressEntry" ->
             IF NeedsTable(base, r)
             THEN TablePosition(Slot(base, re.payload)) - RelocEnd(r)
             ELSE RelativeTo(base, r)

\* Whether relocate_to_base() gets past entry r.
Relocatable(base, r) ==
  LET re      == relocations[r]
      meaning == fields[re.field].meaning
  IN  /\ re.kind = "RelToAbs"   => re.target # 0
      /\ re.kind = "Expression" => IsBound(meaning.to) /\ IsBound(meaning.from)
      /\ re.kind = "AbsToRel"   => Fits(4, RelativeTo(base, r))
      /\ Fits(fields[re.field].size, RelocValue(base, r))

\* JitRuntime takes the code size for its allocation just before this.  A base
\* address given to init() is where the user means to put the code.
RelocateToBase(base) ==
  LET reached  == {r \in DOMAIN relocations : \A q \in 1 .. r - 1 : Relocatable(base, q)}
      written  == {r \in reached : Relocatable(base, r)}
      indirect == {r \in reached : NeedsTable(base, r)}
      used     == {relocations[r].payload : r \in indirect}
      ok       == written = DOMAIN relocations
      n        == Len(sections_by_order)
      is_last  == ok /\ sections_by_order[n] = address_table_section
  IN  /\ phase = "flattened" /\ fault = "none"
      /\ given_base # NoBase => base = given_base
      /\ base_address' = base
      /\ phase' = IF ok THEN "relocated" ELSE "failed"
      /\ slots' = [a \in Addresses |-> IF a \in used THEN Slot(base, a) ELSE slots[a]]
      /\ table' = {<<Slot(base, a), a>> : a \in used}
      /\ fields' = [f \in DOMAIN fields |->
                      IF \E r \in written : relocations[r].field = f
                      THEN LET r == CHOOSE r \in written : relocations[r].field = f
                           IN  [Patched(f, RelocValue(base, r)) EXCEPT
                                  !.indirect = r \in indirect]
                      ELSE fields[f]]
      /\ sections' = IF is_last
                     THEN [sections EXCEPT ![address_table_section].size =
                                              Cardinality(used) * AddressSize,
                                           ![address_table_section].virtual_size =
                                              Cardinality(used) * AddressSize]
                     ELSE sections
      /\ summary' = [estimate  |-> CodeSize,
                     reduction |-> IF is_last THEN sections[address_table_section].virtual_size
                                                   - Cardinality(used) * AddressSize
                                   ELSE 0]
      /\ UNCHANGED <<given_base, sections_by_order, address_table_section, refs, fault>>

-------------------------------------------------------------------------------
Refer ==
  \E s \in CodeSections :
    \/ \E l \in DOMAIN labels :
         \/ \E i \in Instructions : BranchToBoundLabel(s, l, i) \/ BranchToUnboundLabel(s, l, i)
         \/ BranchToLabelElsewhere(s, l)
         \/ EmbedLabel(s, l)
         \/ \E m \in DOMAIN labels : EmbedLabelDelta(s, l, m)
    \/ \E a \in Addresses, i \in Instructions :
         BranchToAddressNow(s, a, i) \/ BranchToAddressLater(s, a, i)

Next ==
  \/ \E alignment \in Alignments, order \in Orders : NewSection(alignment, order)
  \/ NewLabel
  \/ \E s \in CodeSections, n \in Paddings : EmbedData(s, n)
  \/ Refer
  \/ \E s \in CodeSections, l \in DOMAIN labels : Bind(s, l)
  \/ Flatten
  \/ ResolveCrossSectionFixups
  \/ \E base \in Bases : RelocateToBase(base)
  \/ Reinit

Spec == Init /\ [][Next]_vars

-------------------------------------------------------------------------------
(* Properties *)

LabelFixups == UNION {labels[l].fixups : l \in DOMAIN labels}
AllFixups   == LabelFixups \cup fixups

Laid == phase \in {"flattened", "relocated"}

\* Type invariant.
TypeOK ==
  /\ given_base \in GivenBases /\ base_address \in Bases \cup {NoBase}
  /\ \A s \in DOMAIN sections :
       /\ sections[s].alignment \in Nat \ {0} /\ sections[s].order \in TextOrder .. TableOrder
       /\ sections[s].offset \in Nat \cup {NoOffset}
       /\ sections[s].virtual_size \in Nat /\ sections[s].size \in Nat
  /\ sections_by_order \in Seq(DOMAIN sections)
  /\ address_table_section \in {0} \cup DOMAIN sections
  /\ slots \in [Addresses -> Nat \cup {NoSlot, NotListed}]
  /\ \A l \in DOMAIN labels :
       /\ labels[l].section \in {0} \cup CodeSections /\ labels[l].offset \in Nat
       /\ \A f \in labels[l].fixups : f.label_or_reloc_id \in {0} \cup DOMAIN relocations
  /\ \A f \in AllFixups : f.field \in DOMAIN fields /\ f.rel \in Int
  /\ \A f \in fixups : f.label_or_reloc_id \in DOMAIN labels
  /\ unresolved_fixup_count \in Nat
  /\ \A r \in DOMAIN relocations :
       /\ relocations[r].kind \in {"RelToAbs", "Expression", "AbsToRel", "X64AddressEntry"}
       /\ relocations[r].field \in DOMAIN fields /\ relocations[r].payload \in Nat
       /\ relocations[r].target \in {0} \cup CodeSections
  /\ \A f \in DOMAIN fields :
       /\ fields[f].section \in CodeSections
       /\ fields[f].size \in {1, 4, AddressSize} /\ fields[f].value \subseteq Int
  /\ phase \in {"emitting", "flattened", "relocated", "failed"}
  /\ fault \in {"none", "fixup of a bound label"}

\* has_unresolved_fixups() is what a user asks before the code is used: the
\* counter new_fixup() raises and bind and resolve lower is the number of fixups
\* there are, and only labels without a position still collect them.
FixupCountExact ==
  /\ unresolved_fixup_count = Cardinality(AllFixups)
  /\ \A l \in DOMAIN labels : IsBound(l) => labels[l].fixups = {}

\* Until the code is relocated every field either holds its value or is waited
\* for by exactly one relocation entry or one fixup that patches it; a fixup
\* that only informs a relocation entry informs the one of its own field.
FieldsAccounted ==
  phase \in {"emitting", "flattened"} =>
    \A n \in DOMAIN fields :
      LET patching  == {f \in LabelFixups : f.field = n /\ f.label_or_reloc_id = 0}
                       \cup {f \in fixups : f.field = n}
          informing == {f \in LabelFixups : f.field = n /\ f.label_or_reloc_id # 0}
          entries   == {r \in DOMAIN relocations : relocations[r].field = n}
      IN  /\ Cardinality(patching) + Cardinality(entries)
               + (IF fields[n].value = {} THEN 0 ELSE 1) = 1
          /\ \A f \in informing : entries = {f.label_or_reloc_id}

FieldPosition(n) == sections[fields[n].section].offset + FieldEnd(n)

\* The value n must hold in code based at base_address.
RightValue(n) ==
  LET m == fields[n].meaning
  IN  CASE m.kind = "label"    -> LabelPosition(m.to) - FieldPosition(n)
        [] m.kind = "address"  -> m.to - (base_address + FieldPosition(n))
        [] m.kind = "pointer"  -> base_address + LabelPosition(m.to)
        [] m.kind = "distance" -> LabelPosition(m.to) - LabelPosition(m.from)

\* The bits of v and nothing else were ORed into the field.
Holds(n, v) == fields[n].value # {} /\ fields[n].value \ {0} = {v} \ {0}

\* The field of an indirect branch points to the slot that holds its address.
ReadsItsSlot(n) ==
  \E entry \in table :
    /\ entry[2] = fields[n].meaning.to
    /\ Holds(n, TablePosition(entry[1]) - FieldPosition(n))

Waiting(n) == \E f \in AllFixups : f.field = n

\* Code that relocate_to_base() accepted does what it was written to do: every
\* field that has_unresolved_fixups() does not stand for leads to its label or
\* address, unless its value was computed for another base than the final one, as
\* after reinit(), which keeps the base of the last relocation
\* (ReinitRestoresBase).
RelocatedCodeIsRight ==
  phase = "relocated" =>
    \A n \in DOMAIN fields :
      \/ Waiting(n)
      \/ fields[n].base \notin {NoBase, base_address}
      \/ IF fields[n].indirect THEN ReadsItsSlot(n) ELSE Holds(n, RightValue(n))

\* flatten() puts the sections in order, what they hold aligned and apart.
LayoutSound ==
  Laid =>
    /\ \A s \in DOMAIN sections : \E k \in DOMAIN sections_by_order : sections_by_order[k] = s
    /\ \A j, k \in DOMAIN sections_by_order : j < k =>
         LET a == sections_by_order[j]
             b == sections_by_order[k]
         IN  /\ a # b /\ sections[a].order <= sections[b].order
             /\ sections[a].offset + RealSize(sections[a]) <= sections[b].offset
    /\ \A s \in DOMAIN sections : sections[s].size # 0 =>
         sections[s].offset % sections[s].alignment = 0

\* JitRuntime allocates the estimated size, copies every section to its offset,
\* zeroes it up to its virtual size, and then gives everything behind the
\* reduced size back: the copy stays in the span and loses nothing.
ReducedSizeHoldsCode ==
  phase = "relocated" =>
    /\ summary.reduction >= 0
    /\ \A s \in DOMAIN sections :
         sections[s].offset + RealSize(sections[s]) <= summary.estimate - summary.reduction

\* Every indirect branch reads a slot of its own inside .addrtab's buffer, the
\* only part of the table that is copied.
TableIsCopied ==
  phase = "relocated" =>
    \A a \in Addresses : slots[a] >= 0 =>
      /\ {entry \in table : entry[1] = slots[a]} = {<<slots[a], a>>}
      /\ (slots[a] + 1) * AddressSize <= sections[address_table_section].size

-------------------------------------------------------------------------------
(* What the code, its comments and its documentation promise, and it breaks *)

\* x86assembler.cpp:4834: a branch may refer to a label bound to a different
\* section; codeholder.cpp:664: "Cannot be bound if we are creating a link."
FixupsOfUnboundLabels == fault # "fixup of a bound label"

\* codeholder.h:856: reinit() restores the base address it was initialized with.
ReinitRestoresBase == phase = "emitting" => base_address = given_base

\* jitruntime.cpp:52: the size of the code after relocation is the size before
\* it less the reduction relocate_to_base() reports.
ReductionExact == phase = "relocated" => summary.estimate - summary.reduction = CodeSize
===============================================================================
