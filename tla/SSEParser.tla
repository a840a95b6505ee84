----------------------------- MODULE SSEParser ------------------------------
(***************************************************************************)
(* The parser of server-sent events, fed with the chunks in which curl     *)
(* delivers the text of a stream.  A text is a sequence of symbols: the    *)
(* names of the fields "event" and "data", the colon, the space, the line  *)
(* feed LF, and pieces of other text.  The stream holds no NUL.            *)
(*                                                                         *)
(* The parser lives as long as a connection.  When LDSSEParserProcess      *)
(* fails, StreamWriteCallback makes curl end the transfer; the streamer    *)
(* destroys the parser and initializes one for its next connection.        *)
(***************************************************************************)
EXTENDS Pointers, Naturals, Sequences

CONSTANTS
    Symbols,
    Chunks,      \* the chunks that may arrive
    LF,          \* the line feed
    MaxChunks    \* bound: chunks of all connections

ASSUME ChunksAreTexts == LF \in Symbols /\ Chunks \subseteq Seq(Symbols)

VARIABLES
    buffer, eventName, eventBody,  \* struct LDSSEParser
    dispatched,  \* what LDi_onEvent was called with, in this connection
    ended,       \* whether LDSSEParserProcess failed
    received,    \* history: all the text of this connection
    chunks       \* history: number of chunks so far

parserVars == <<buffer, eventName, eventBody, dispatched>>
sseVars == <<parserVars, ended, received, chunks>>

\* A string that is not NULL may be empty.
String(text) == <<text>>

\* What lines change: the event so far, and the calls of dispatch.
Nothing == [eventName |-> NULL, eventBody |-> NULL, calls |-> <<>>]

LDSSEParserInitialize ==
    buffer = <<>> /\ eventName = NULL /\ eventBody = NULL /\ dispatched = <<>>

SSEInit == LDSSEParserInitialize /\ ended = FALSE /\ received = <<>> /\ chunks = 0

-----------------------------------------------------------------------------
(* LDi_processLine *)

\* The text after the field's name, without one leading space.
ValueOf(line) ==
    LET space == IF Len(line) > 2 /\ line[3] = " " THEN 1 ELSE 0
    IN  SubSeq(line, 3 + space, Len(line))

IsField(line, name) == Len(line) >= 2 /\ line[1] = name /\ line[2] = ":"

\* Mutated: the body of a dispatched event is kept.
LDi_processLine_KeepBody(line, s) ==
    IF line = <<>>
    THEN [s EXCEPT
            !.calls = IF s.eventName = NULL \/ s.eventBody = NULL THEN @
                      ELSE Append(@, [name |-> s.eventName[1], body |-> s.eventBody[1]]),
            !.eventName = NULL]
    ELSE IF IsField(line, "data")
    THEN [s EXCEPT !.eventBody = IF @ = NULL THEN String(ValueOf(line))
                                 ELSE String(@[1] \o <<LF>> \o ValueOf(line))]
    ELSE IF IsField(line, "event")
    THEN [s EXCEPT !.eventName = String(ValueOf(line))]
    ELSE s

\* An empty line dispatches what the block gave and forgets it; LDi_onEvent never refuses.
LDi_processLine(line, s) ==
    IF line = <<>>
    THEN [s EXCEPT
            !.calls = IF s.eventName = NULL \/ s.eventBody = NULL THEN @
                      ELSE Append(@, [name |-> s.eventName[1], body |-> s.eventBody[1]]),
            !.eventName = NULL, !.eventBody = NULL]
    ELSE IF IsField(line, "data")
    THEN [s EXCEPT !.eventBody = IF @ = NULL THEN String(ValueOf(line))
                                 ELSE String(@[1] \o <<LF>> \o ValueOf(line))]
    ELSE IF IsField(line, "event")
    THEN [s EXCEPT !.eventName = String(ValueOf(line))]
    ELSE s

\* The same when memory runs out: the body stays, the name is gone.
OutOfMemory(line, s) ==
    IF IsField(line, "event") THEN [s EXCEPT !.eventName = NULL] ELSE s

MayFail(line) == IsField(line, "data") \/ IsField(line, "event")

-----------------------------------------------------------------------------
(* LDSSEParserProcess *)

\* The line feeds of a text that are not consumed, and the first of them.
LineEnds(text, consumed) == {i \in DOMAIN text : i > consumed /\ text[i] = LF}
memchr(text, consumed) ==
    CHOOSE end \in LineEnds(text, consumed) : \A i \in LineEnds(text, consumed) : end <= i

NextLine(text, consumed) == SubSeq(text, consumed + 1, memchr(text, consumed) - 1)

\* One round of the loop, from how much is consumed and what came of it.
Round(text, q) ==
    IF LineEnds(text, q.consumed) = {} THEN q
    ELSE [consumed |-> memchr(text, q.consumed),
          parsed |-> LDi_processLine(NextLine(text, q.consumed), q.parsed)]

\* After n rounds; a text has no more lines than symbols.
Rounds(text, parsed) ==
    LET after[n \in Nat] == IF n = 0 THEN [consumed |-> 0, parsed |-> parsed]
                            ELSE Round(text, after[n - 1])
    IN  after

Progress == [eventName |-> eventName, eventBody |-> eventBody, calls |-> dispatched]

Becomes(s) == eventName' = s.eventName /\ eventBody' = s.eventBody /\ dispatched' = s.calls

\* Mutated: the consumed lines stay in the buffer.
LDSSEParserProcess_Keep(chunk) ==
    LET text == buffer \o chunk
        done == Rounds(text, Progress)[Len(text)]
    IN  Becomes(done.parsed) /\ buffer' = text

LDSSEParserProcess(chunk) ==
    LET text == buffer \o chunk
        done == Rounds(text, Progress)[Len(text)]
    IN  Becomes(done.parsed) /\ buffer' = SubSeq(text, done.consumed + 1, Len(text))

Receives(chunk) ==
    /\ ~ended
    /\ chunks < MaxChunks
    /\ chunks' = chunks + 1
    /\ received' = received \o chunk

StreamWriteCallback(chunk) ==
    /\ Receives(chunk)
    /\ LDSSEParserProcess(chunk)
    /\ UNCHANGED ended

\* Memory runs out before the chunk is stored,
ChunkFails(chunk) ==
    /\ chunk # <<>>
    /\ Receives(chunk)
    /\ UNCHANGED parserVars
    /\ ended' = TRUE

\* or in a line, after n others.  The buffer is not shortened; nobody reads it any more.
LineFails(chunk, n) ==
    LET text == buffer \o chunk
        before == Rounds(text, Progress)[n]
        line == NextLine(text, before.consumed)
    IN  /\ Receives(chunk)
        /\ LineEnds(text, before.consumed) # {} /\ MayFail(line)
        /\ Becomes(OutOfMemory(line, before.parsed))
        /\ buffer' = text
        /\ ended' = TRUE

\* The connection ends: LDSSEParserDestroy, and a new parser for the next.
Reconnect ==
    /\ received # <<>>
    /\ Becomes(Nothing) /\ buffer' = <<>>
    /\ received' = <<>> /\ ended' = FALSE
    /\ UNCHANGED chunks

SSENext ==
    \/ \E chunk \in Chunks :
        \/ StreamWriteCallback(chunk)
        \/ ChunkFails(chunk)
        \/ \E n \in 0 .. Len(buffer \o chunk) : LineFails(chunk, n)
    \/ Reconnect

SSESpec == SSEInit /\ [][SSENext]_sseVars

-----------------------------------------------------------------------------
(* The text in one piece *)

Whole(text) == Rounds(text, Nothing)[Len(text)]

Begins(s, t) == Len(s) <= Len(t) /\ \A i \in DOMAIN s : s[i] = t[i]

\* What follows the last line feed of a text.
IsLastLine(line, text) ==
    \E consumed \in 0 .. Len(text) :
        /\ consumed = 0 \/ text[consumed] = LF
        /\ LineEnds(text, consumed) = {}
        /\ line = SubSeq(text, consumed + 1, Len(text))

\* However the text of a connection is cut into chunks, the calls of LDi_onEvent and the event
\* so far are what a parser makes of the whole text at once, and the buffer keeps exactly the
\* last, incomplete line: nothing is lost or parsed twice between two calls, and nothing stays
\* from an earlier connection.  A parser that ran out of memory made the first of these calls.
ChunksDoNotMatter ==
    IF ended THEN Begins(dispatched, Whole(received).parsed.calls)
    ELSE Progress = Whole(received).parsed /\ IsLastLine(buffer, received)
=============================================================================
