----------------------------- MODULE SSEEvents ------------------------------
(***************************************************************************)
(* What the events of a text are, without the parser: the text is cut into *)
(* lines, the lines into blocks that end in an empty line, and a block     *)
(* with a name and a body is an event.                                     *)
(***************************************************************************)
EXTENDS SSEParser, FiniteSets, SequencesExt, FiniteSetsExt

\* The complete lines of a text.
LinesOf(text) ==
    LET ends == LineEnds(text, 0)
        end(k) == IF k = 0 THEN 0
                  ELSE CHOOSE e \in ends : Cardinality({i \in ends : i <= e}) = k
    IN  [k \in 1 .. Cardinality(ends) |-> SubSeq(text, end(k - 1) + 1, end(k) - 1)]

\* The values of a field among lines a to b.
ValuesOf(lines, name, a, b) ==
    LET mine == SelectSeq(SubSeq(lines, a, b), LAMBDA l : IsField(l, name))
    IN  [k \in DOMAIN mine |-> ValueOf(mine[k])]

\* The event of the block that ends in the empty line k, if it is one.
EventOf(lines, k) ==
    LET first == Max({j \in 1 .. k - 1 : lines[j] = <<>>} \union {0}) + 1
        names == ValuesOf(lines, "event", first, k)
        bodies == ValuesOf(lines, "data", first, k)
    IN  IF names = <<>> \/ bodies = <<>> THEN <<>>
        ELSE <<[name |-> Last(names),
                body |-> FlattenSeq([j \in DOMAIN bodies |->
                            IF j = 1 THEN bodies[1] ELSE <<LF>> \o bodies[j]])]>>

EventsOf(text) ==
    LET lines == LinesOf(text)
    IN  FlattenSeq([k \in DOMAIN lines |-> IF lines[k] = <<>> THEN EventOf(lines, k) ELSE <<>>])

\* LDi_onEvent is called with the events of the text received, in order: those of all complete
\* blocks while the parser works, the first of them once it ran out of memory.
EventsOfText ==
    IF ended THEN IsPrefix(dispatched, EventsOf(received)) ELSE dispatched = EventsOf(received)
=============================================================================
