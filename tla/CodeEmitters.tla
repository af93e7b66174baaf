----------------------------- MODULE CodeEmitters ------------------------------
(***************************************************************************)
(* Code holders, the emitters attached to them and the code buffers they   *)
(* write to (codeholder.cpp, emitter.cpp, assembler.cpp, codewriter_p.h,   *)
(* and the events of builder.cpp and compiler.cpp).                        *)
(*                                                                         *)
(* A holder keeps its emitters in a list linked through the emitters, and  *)
(* its sections, each with a buffer it reallocates to grow.  An assembler  *)
(* keeps pointers of its own into the buffer of its section, and every     *)
(* emitter keeps copies of the holder's logger and error handler: all of   *)
(* them go stale unless the holder walks its list and refreshes them.      *)
(***************************************************************************)
EXTENDS Integers, Sequences, FiniteSets, Functions

CONSTANTS
  Holders, Assemblers, Builders, Compilers,
  None,
  Installed,         \* who gets which settings from the user: <<holder or emitter, setting>>
  Diagnosed,         \* the emitters the user turns diagnostics on and off in
  InitialCapacity,   \* kInitialCapacity of grow_buffer()
  AllocOverhead,     \* Globals::kAllocOverhead
  GrowThreshold,     \* Globals::kGrowThreshold
  EmitSizes,         \* the sizes of what an assembler writes at once
  Offsets,           \* where the user moves an assembler back to
  ReserveSizes,      \* the sizes asked of reserve_buffer()
  MaxSize,           \* bound: bytes in a section
  MaxSections,       \* bound: sections of a holder
  Failures           \* the events in which an allocation may fail: attach, reinit

Emitters == Assemblers \cup Builders \cup Compilers

ASSUME CodeEmittersAssumption ==
  /\ Installed \subseteq (Holders \cup Emitters) \X {"logger", "error_handler"}
  /\ Failures \subseteq {"attach", "reinit"}
  /\ Diagnosed \subseteq Emitters
  /\ {InitialCapacity, AllocOverhead, GrowThreshold, MaxSize, MaxSections} \subseteq Nat \ {0}
  /\ EmitSizes \cup ReserveSizes \subseteq Nat \ {0}
  /\ Offsets \subseteq Nat
  /\ AllocOverhead < InitialCapacity
  /\ None \notin Holders \cup Emitters
  /\ IsFiniteSet(Emitters)

VARIABLES
  holder,    \* holder -> [init, first, last, set, bufs]
  emitter,   \* emitter -> [code, prev, next, attached, own, set, ...]
  live       \* the allocations of buffers that are not freed

vars == <<holder, emitter, live>>

--------------------------------------------------------------------------------
(* Buffers and records *)

Null == 0   \* the null pointer; allocations are named 1, 2, ...

Settings == {"logger", "error_handler"}

EmptyBuffer == [data |-> Null, cap |-> 0, size |-> 0]

\* The constructor of an emitter.  kAttached, kLogComments and kReserved are
\* the flags `attached`, `comments` and `reserved`; `ready` stands for the
\* first section node and the passes of a builder.
NewEmitter ==
  [code |-> None, prev |-> None, next |-> None, attached |-> FALSE,
   own |-> [s \in Settings |-> FALSE], set |-> [s \in Settings |-> None],
   diag |-> FALSE, reserved |-> TRUE, comments |-> FALSE,
   section |-> 0, data |-> Null, off |-> 0, end |-> 0, ready |-> FALSE]

\* The constructor of a holder.  The first buffer is that of .text, a member
\* of the holder that is there before init() and stays after reset().
NewHolder ==
  [init |-> FALSE, first |-> None, last |-> None,
   set |-> [s \in Settings |-> None], bufs |-> <<EmptyBuffer>>]

DataOf(bufs) == {bufs[i].data : i \in DOMAIN bufs} \ {Null}

\* malloc() answers with memory nobody holds; which is immaterial, the code
\* never compares addresses of different buffers.
FreeAddress(used) == CHOOSE d \in 1 .. Cardinality(used) + 1 : d \notin used

\* Walking the list of a holder from `first` along `next`.
Walk(ems, first) ==
  LET from[n \in Nat] ==
        [e \in Emitters \cup {None} |->
           IF e = None \/ n = 0 THEN <<>> ELSE <<e>> \o from[n - 1][ems[e].next]]
  IN from[Cardinality(Emitters) + 1][first]

Members(h) == Walk(emitter, holder[h].first)

Listed(h) == Range(Members(h))

--------------------------------------------------------------------------------
(* The events of an emitter, as functions of its record *)

UpdateForcedOptions(e, r) ==
  [r EXCEPT !.comments = r.code # None /\ (e \in Assemblers => r.set["logger"] # None),
            !.reserved = r.code = None \/ r.set["logger"] # None \/ r.diag]

\* Wrong: the holder's settings replace the emitter's own.
WrongOnSettingsUpdated(e, r, set) == UpdateForcedOptions(e, [r EXCEPT !.set = set])

OnSettingsUpdated(e, r, set) ==
  UpdateForcedOptions(e,
    [r EXCEPT !.set = [s \in Settings |-> IF r.own[s] THEN @[s] ELSE set[s]]])

InitSection(r, i, b) ==
  [r EXCEPT !.section = i, !.data = b.data, !.off = b.size, !.end = b.cap]

\* The base class first, then the first section of an assembler or builder.
OnAttach(e, r, h) ==
  LET a == OnSettingsUpdated(e, [r EXCEPT !.code = h, !.attached = TRUE], holder[h].set)
  IN IF e \in Assemblers THEN InitSection(a, 1, holder[h].bufs[1])
     ELSE [a EXCEPT !.ready = TRUE]

\* The derived part is cleared first, then the base class: all flags but those
\* of own settings; `code` and the links are the holder's to clear.
OnDetach(r) ==
  [r EXCEPT !.attached = FALSE, !.comments = FALSE, !.reserved = TRUE,
            !.set = [s \in Settings |-> IF r.own[s] THEN @[s] ELSE None],
            !.section = 0, !.data = Null, !.off = 0, !.end = 0, !.ready = FALSE]

\* A builder starts over; what a failed allocation leaves depends on the kind:
\* a builder without its first node, a compiler that may have called
\* on_detach() while the holder still lists it.  reinit() ignores the error.
OnReinit(e, r, b) ==
  IF e \in Assemblers THEN {InitSection(r, 1, b)}
  ELSE {r} \cup
       IF "reinit" \notin Failures THEN {}
       ELSE {[r EXCEPT !.ready = FALSE]} \cup IF e \in Compilers THEN {OnDetach(r)} ELSE {}

--------------------------------------------------------------------------------
(* Settings *)

\* CodeHolder::set_logger(), set_error_handler(): the new value, or none
HolderSet(h, s, v) ==
  LET set == [holder[h].set EXCEPT ![s] = v]
      listed == Listed(h)
  IN /\ holder' = [holder EXCEPT ![h].set = set]
     /\ emitter' = [e \in Emitters |->
          IF e \in listed THEN OnSettingsUpdated(e, emitter[e], set) ELSE emitter[e]]
     /\ UNCHANGED live

\* BaseEmitter::set_logger(), set_error_handler(); only the logger matters to
\* the forced options.
EmitterSet(e, s, v) ==
  LET r == emitter[e]
      inherited == IF r.code = None THEN None ELSE holder[r.code].set[s]
      a == [r EXCEPT !.own[s] = v # None,
                     !.set[s] = IF v # None THEN v ELSE inherited]
  IN /\ emitter' = [emitter EXCEPT ![e] = IF s = "logger" THEN UpdateForcedOptions(e, a) ELSE a]
     /\ UNCHANGED <<holder, live>>

\* add_diagnostic_options(), clear_diagnostic_options()
SetDiagnostics(e, on) ==
  /\ emitter' = [emitter EXCEPT ![e] = UpdateForcedOptions(e, [@ EXCEPT !.diag = on])]
  /\ UNCHANGED <<holder, live>>

--------------------------------------------------------------------------------
(* Attaching and detaching *)

LinkLast(ems, e, last) ==
  LET linked == [ems EXCEPT ![e].prev = last]
  IN IF last = None THEN linked ELSE [linked EXCEPT ![last].next = e]

\* An emitter attached before, to this holder or to another, is left alone.
\* When the node or the passes of a builder cannot be allocated, on_attach()
\* undoes itself with on_detach() and attach() returns before the list.
Attach(h, e) ==
  /\ holder[h].init
  /\ emitter[e].code = None
  /\ \E fails \in IF "attach" \in Failures /\ e \notin Assemblers THEN BOOLEAN ELSE {FALSE} :
       LET a == OnAttach(e, emitter[e], h)
           last == holder[h].last
       IN IF fails
          THEN /\ emitter' = [emitter EXCEPT ![e] = OnDetach(a)]
               /\ UNCHANGED holder
          ELSE /\ emitter' = LinkLast([emitter EXCEPT ![e] = a], e, last)
               /\ holder' = [holder EXCEPT ![h].last = e,
                                           ![h].first = IF last = None THEN e ELSE @]
  /\ UNCHANGED live

\* Wrong: only the emitter after it is unlinked from it.
WrongUnlink(ems, e) ==
  LET n == ems[e].next
      next == IF n = None THEN ems ELSE [ems EXCEPT ![n].prev = ems[e].prev]
  IN [next EXCEPT ![e].code = None, ![e].prev = None, ![e].next = None]

Unlink(ems, e) ==
  LET p == ems[e].prev
      n == ems[e].next
      back == IF p = None THEN ems ELSE [ems EXCEPT ![p].next = n]
      both == IF n = None THEN back ELSE [back EXCEPT ![n].prev = p]
  IN [both EXCEPT ![e].code = None, ![e].prev = None, ![e].next = None]

\* Wrong: the end of the list is not moved.
WrongUnlinkHolder(hd, ems, e) ==
  [hd EXCEPT !.first = IF ems[e].prev = None THEN ems[e].next ELSE @]

UnlinkHolder(hd, ems, e) ==
  LET p == ems[e].prev
      n == ems[e].next
  IN [hd EXCEPT !.first = IF p = None THEN n ELSE @, !.last = IF n = None THEN p ELSE @]

Detach(e) ==
  /\ emitter[e].code # None
  /\ emitter' = Unlink([emitter EXCEPT ![e] = OnDetach(@)], e)
  /\ holder' = [holder EXCEPT ![emitter[e].code] = UnlinkHolder(@, emitter, e)]
  /\ UNCHANGED live

\* ~BaseEmitter(): detach() without the event; then a new emitter in its place
DestroyEmitter(e) ==
  /\ emitter[e] # NewEmitter
  /\ IF emitter[e].code = None
     THEN /\ emitter' = [emitter EXCEPT ![e] = NewEmitter]
          /\ UNCHANGED holder
     ELSE /\ emitter' = [Unlink(emitter, e) EXCEPT ![e] = NewEmitter]
          /\ holder' = [holder EXCEPT ![emitter[e].code] = UnlinkHolder(@, emitter, e)]
  /\ UNCHANGED live

--------------------------------------------------------------------------------
(* The life of a holder *)

\* Wrong: .text is left out of a hard reset too.
WrongReleased(bufs, hard) == {bufs[i].data : i \in DOMAIN bufs \ {1}}

\* Which buffers CodeHolder_reset_sections() frees, and what it leaves of .text
Released(bufs, hard) == {bufs[i].data : i \in IF hard THEN DOMAIN bufs ELSE DOMAIN bufs \ {1}}

TextAfter(bufs, hard) == IF hard THEN EmptyBuffer ELSE [bufs[1] EXCEPT !.size = 0]

DetachEmitters(h) ==
  LET listed == Listed(h)
  IN [e \in Emitters |->
        IF e \in listed
        THEN [OnDetach(emitter[e]) EXCEPT !.code = None, !.prev = None, !.next = None]
        ELSE emitter[e]]

InitHolder(h) ==
  /\ ~holder[h].init
  /\ holder' = [holder EXCEPT ![h].init = TRUE]
  /\ UNCHANGED <<emitter, live>>

Reinit(h) ==
  /\ holder[h].init
  /\ LET text == TextAfter(holder[h].bufs, FALSE)
         after(e) == IF e \in Listed(h) THEN OnReinit(e, emitter[e], text) ELSE {emitter[e]}
     IN /\ holder' = [holder EXCEPT ![h].bufs = <<text>>]
        /\ live' = live \ Released(holder[h].bufs, FALSE)
        /\ emitter' \in {f \in [Emitters -> UNION {after(e) : e \in Emitters}] :
                           \A e \in Emitters : f[e] \in after(e)}

Reset(h, hard) ==
  /\ holder[h].init
  /\ emitter' = DetachEmitters(h)
  /\ live' = live \ Released(holder[h].bufs, hard)
  /\ holder' = [holder EXCEPT ![h] = [NewHolder EXCEPT !.bufs = <<TextAfter(holder[h].bufs, hard)>>]]

\* ~CodeHolder(), then a new holder in its place.  One that is not initialized
\* has no emitters and no sections but may still have the buffer of .text.
DestroyHolder(h) ==
  /\ holder[h] # NewHolder
  /\ emitter' = IF holder[h].init THEN DetachEmitters(h) ELSE emitter
  /\ live' = live \ Released(holder[h].bufs, TRUE)
  /\ holder' = [holder EXCEPT ![h] = NewHolder]

NewSection(h) ==
  /\ holder[h].init
  /\ Len(holder[h].bufs) < MaxSections
  /\ holder' = [holder EXCEPT ![h].bufs = Append(@, EmptyBuffer)]
  /\ UNCHANGED <<emitter, live>>

--------------------------------------------------------------------------------
(* Buffers that grow *)

\* The capacity grow_buffer() settles on: the overhead is added for the loop,
\* which doubles at least once, and taken off again.
GrownCapacity(cap, required) ==
  LET start == IF cap < InitialCapacity THEN InitialCapacity ELSE cap + AllocOverhead
      at[n \in Nat] == IF n = 0 THEN start
                       ELSE at[n - 1] + IF at[n - 1] < GrowThreshold THEN at[n - 1] ELSE GrowThreshold
      turns == CHOOSE n \in 1 .. required + 1 :
                 /\ at[n] - AllocOverhead >= required
                 /\ \A k \in 1 .. n - 1 : at[k] - AllocOverhead < required
  IN at[turns] - AllocOverhead

\* Wrong: only the first assembler of the list is told.
WrongRefreshed(h, i, data, n) ==
  [e \in Emitters |->
     IF e = holder[h].first /\ e \in Assemblers /\ emitter[e].section = i
     THEN [emitter[e] EXCEPT !.data = data, !.end = n]
     ELSE emitter[e]]

\* What the assemblers of the list get: those whose section has this buffer.
Refreshed(h, i, data, n) ==
  LET listed == Listed(h)
  IN [e \in Emitters |->
        IF e \in listed \cap Assemblers /\ emitter[e].section = i
        THEN [emitter[e] EXCEPT !.data = data, !.end = n]
        ELSE emitter[e]]

\* CodeHolder_reserve_internal(): the results of asking for n bytes, as triples
\* of the buffer, the emitters and the allocations.  realloc() may stay in
\* place or move; when it fails nothing changes and the caller gets an error.
ReserveInternal(h, i, n) ==
  LET b == holder[h].bufs[i]
      fresh == FreeAddress(live)
      at(d) == [buf |-> [b EXCEPT !.data = d, !.cap = n],
                emitters |-> Refreshed(h, i, d, n),
                live |-> (live \ {b.data}) \cup {d}]
  IN {at(d) : d \in {fresh} \cup ({b.data} \ {Null})}

ReserveBuffer(h, i, n) ==
  /\ n > holder[h].bufs[i].cap
  /\ \E g \in ReserveInternal(h, i, n) :
       /\ holder' = [holder EXCEPT ![h].bufs[i] = g.buf]
       /\ emitter' = g.emitters
       /\ live' = g.live

--------------------------------------------------------------------------------
(* What an assembler does *)

\* BaseAssembler::section(): a section of another holder, or of none, is refused
SetSection(e, i) ==
  /\ emitter[e].code # None
  /\ i \in DOMAIN holder[emitter[e].code].bufs
  /\ emitter' = [emitter EXCEPT ![e] = InitSection(@, i, holder[emitter[e].code].bufs[i])]
  /\ UNCHANGED <<holder, live>>

SetOffset(e, o) ==
  /\ emitter[e].code # None
  /\ LET size == holder[emitter[e].code].bufs[emitter[e].section].size
     IN o <= IF size > emitter[e].off THEN size ELSE emitter[e].off
  /\ emitter' = [emitter EXCEPT ![e].off = o]
  /\ UNCHANGED <<holder, live>>

\* CodeWriter::ensure_space(): room for n bytes at the assembler's pointer, or
\* whatever grow_buffer() makes of it.
EnsureSpace(e, n) ==
  LET r == emitter[e]
      b == holder[r.code].bufs[r.section]
      required == b.size + n
  IN IF r.end - r.off >= n \/ required <= b.cap
     THEN {[buf |-> b, emitters |-> emitter, live |-> live]}
     ELSE ReserveInternal(r.code, r.section, GrownCapacity(b.cap, required))

\* CodeWriter::done() after n bytes: the size only grows
Done(e, n, g) ==
  LET r == g.emitters[e]
      end == r.off + n
  IN /\ emitter' = [g.emitters EXCEPT ![e].off = end]
     /\ holder' = [holder EXCEPT ![r.code].bufs[r.section] =
                     [g.buf EXCEPT !.size = IF end > @ THEN end ELSE @]]
     /\ live' = g.live

\* embed(), or an instruction, of n bytes
Emit(e, n) ==
  /\ emitter[e].code # None
  /\ emitter[e].off + n <= MaxSize
  /\ \E g \in EnsureSpace(e, n) : Done(e, n, g)

--------------------------------------------------------------------------------
Init ==
  /\ holder = [h \in Holders |-> NewHolder]
  /\ emitter = [e \in Emitters |-> NewEmitter]
  /\ live = {}

Next ==
  \/ \E h \in Holders :
       \/ InitHolder(h) \/ Reinit(h) \/ DestroyHolder(h) \/ NewSection(h)
       \/ \E hard \in BOOLEAN : Reset(h, hard)
       \/ \E s \in Settings, v \in {None, h} : <<h, s>> \in Installed /\ HolderSet(h, s, v)
       \/ \E i \in DOMAIN holder[h].bufs, n \in ReserveSizes :
            holder[h].init /\ ReserveBuffer(h, i, n)
       \/ \E e \in Emitters : Attach(h, e)
  \/ \E e \in Emitters :
       \/ Detach(e) \/ DestroyEmitter(e)
       \/ \E s \in Settings, v \in {None, e} : <<e, s>> \in Installed /\ EmitterSet(e, s, v)
  \/ \E e \in Diagnosed, on \in BOOLEAN : SetDiagnostics(e, on)
  \/ \E e \in Assemblers :
       \/ \E i \in 1 .. MaxSections : SetSection(e, i)
       \/ \E o \in Offsets : SetOffset(e, o)
       \/ \E n \in EmitSizes : Emit(e, n)

Spec == Init /\ [][Next]_vars

--------------------------------------------------------------------------------
(* Properties *)

\* The three pointers of every attached assembler point into the buffer its
\* section has now, whoever made it grow and however often it moved, and the
\* write position is inside of what is written (codeholder.cpp:428).
PointersAgree ==
  \A e \in Assemblers : emitter[e].code # None =>
    LET r == emitter[e]
        bufs == holder[r.code].bufs
    IN /\ r.section \in DOMAIN bufs
       /\ r.data = bufs[r.section].data
       /\ r.end = bufs[r.section].cap
       /\ r.off <= bufs[r.section].size
       /\ bufs[r.section].size <= bufs[r.section].cap

\* Every allocation belongs to exactly one section of one holder: resets,
\* reinitialization and destruction neither leak a buffer, nor keep one they
\* freed, nor free one twice (codeholder.cpp:158).
MemoryAccounted ==
  LET data(p) == holder[p[1]].bufs[p[2]].data
      places == {p \in Holders \X (1 .. MaxSections) :
                   p[2] \in DOMAIN holder[p[1]].bufs /\ data(p) # Null}
  IN /\ live = {data(p) : p \in places}
     /\ \A p, q \in places : data(p) = data(q) => p = q

\* The list of a holder, walked either way, holds the emitters whose `code` is
\* the holder; the others have no links (codeholder.cpp:340, 370).
LinksAgree ==
  /\ \A h \in Holders :
       LET m == Members(h)
       IN /\ Listed(h) = {e \in Emitters : emitter[e].code = h}
          /\ Len(m) = Cardinality(Listed(h))
          /\ holder[h].last = IF m = <<>> THEN None ELSE m[Len(m)]
          /\ \A i \in DOMAIN m :
               emitter[m[i]].prev = IF i = 1 THEN None ELSE m[i - 1]
  /\ \A e \in Emitters :
       emitter[e].code = None => emitter[e].prev = None /\ emitter[e].next = None

\* Whatever the order of installing loggers, error handlers and diagnostics
\* here or at the holder, attaching and detaching: an emitter uses its own
\* setting if it has one and else that of the holder it is attached to, and
\* the flags its fast path tests say the same (emitter.cpp:32, 423).
SettingsFollow ==
  \A e \in Emitters :
    LET r == emitter[e]
        inherited(s) == IF r.code = None THEN None ELSE holder[r.code].set[s]
    IN /\ \A s \in Settings : r.set[s] = IF r.own[s] THEN e ELSE inherited(s)
       /\ r.attached <=> r.code # None
       /\ r.reserved <=> (r.code = None \/ r.set["logger"] # None \/ r.diag)
       /\ r.comments <=> r.code # None /\ (e \in Assemblers => r.set["logger"] # None)
       /\ r.ready <=> r.code # None /\ e \notin Assemblers

\* The linked lists implement the registry (codeholder.cpp:313-385).
Registry == INSTANCE EmitterRegistry WITH members <- [h \in Holders |-> Members(h)]

ImplementsRegistry == Registry!Spec

\* is_initialized(): "Tests whether the emitter is initialized (i.e. attached
\* to CodeHolder)" (emitter.h:428): an emitter with a holder is in its list.
InitializedMeansAttached ==
  \A e \in Emitters : emitter[e].code # None => e \in Listed(emitter[e].code)
================================================================================
