---------------------------- MODULE MCCodeEmitters -----------------------------
(* Small instances of CodeEmitters for TLC. *)
EXTENDS CodeEmitters

CONSTANTS h1, h2, a1, a2, b1, c1

\* One holder, an assembler and a builder with loggers, the
\* assembler with an error handler too
LoggersAndHandlers ==
  ({h1, a1, b1} \X {"logger"}) \cup ({h1, a1} \X {"error_handler"})

\* Sections and buffers have nothing to do with settings, nor with those of
\* another holder: no action reads the one and writes the other.  States that
\* have both, or in which another holder than h1 has some, are not explored
\* further.
OneThingAtATime ==
  \/ live = {} /\ \A h \in Holders : Len(holder[h].bufs) = 1
  \/ /\ \A e \in Emitters : emitter[e].own = NewEmitter.own /\ ~emitter[e].diag
     /\ holder[h1].set = NewHolder.set
     /\ \A h \in Holders \ {h1} : holder[h] = NewHolder
================================================================================
