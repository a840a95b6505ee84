----------------------------- MODULE MCLibrary ------------------------------
(***************************************************************************)
(* The sequential parts of the SDK, each on an instance of its own: the    *)
(* JSON documents, their text, the parser of server-sent events, users,    *)
(* evaluations and the arithmetic of waits.  `part' says which of them a   *)
(* behaviour is about; the variables of the others keep their first value. *)
(***************************************************************************)
EXTENDS Timing, Users, Evaluation, SavedFlags, SSEEvents

VARIABLES
    part,
    heap, roots, lost,              \* documents with several keys
    wideHeap, wideRoots, wideLost,  \* documents with long collections
    document,                       \* a document to print
    pieces                          \* a text to parse, in pieces

Keyed == INSTANCE JSONTree WITH Items <- 1 .. 3, Keys <- {"a", "b"}, Numbers <- {0, 1}
Wide == INSTANCE JSONTree WITH Items <- 1 .. 4, Keys <- {"a"}, Numbers <- {},
                               heap <- wideHeap, roots <- wideRoots, lost <- wideLost

vars == <<part, heap, roots, lost, wideHeap, wideRoots, wideLost, document, pieces,
          sseVars, userVars, evalVars, savedVars, waitVars>>

-----------------------------------------------------------------------------
(* Text *)

Text == INSTANCE JSONText WITH NestingLimit <- 2, BufferSize <- 4

a == 97
Str(bytes) == [Text!Item("string") EXCEPT !.text = bytes]
Num(n) == [Text!Item("number") EXCEPT !.number = n]

\* Values without children: words, numbers, and strings with every kind of byte.
Leaves == {Text!Item("null"), Text!Item("false"), Num(<<>>), Num(<<0>>), Num(<<-12>>),
           Str(<<>>), Str(<<a>>), Str(<<34, 92, 47>>), Str(<<8, 12, 10, 13, 9>>),
           Str(<<1, 31, 127>>), Str(<<195, 169>>)}

Siblings == {Text!Item("true"), Str(<<10>>), Text!Item("array"), Text!Item("object")}

Named(item, key) == [item EXCEPT !.key = key]
Collection(type, children) == [Text!Item(type) EXCEPT !.child = children]

RECURSIVE Depth(_)
Depth(item) ==
    IF item.type \notin {"array", "object"} THEN 0
    ELSE 1 + (LET below == {Depth(item.child[i]) : i \in DOMAIN item.child}
              IN  IF below = {} THEN 0 ELSE CHOOSE d \in below : \A e \in below : d >= e)

\* Print, read back: a number that is not finite becomes null, the rest is the same.
RECURSIVE Canonical(_)
Canonical(item) ==
    IF item = [Num(<<>>) EXCEPT !.key = item.key] THEN Named(Text!Item("null"), item.key)
    ELSE [item EXCEPT !.child = [i \in DOMAIN item.child |-> Canonical(item.child[i])]]

DocumentNext ==
    /\ Depth(document) < 3
    /\ \/ document' = Collection("array", <<document>>)
       \/ document' = Collection("object", <<Named(document, <<>>)>>)
       \/ \E s \in Siblings :
            \/ document' = Collection("array", <<document, s>>)
            \/ document' = Collection("object", <<Named(s, <<a>>), Named(document, <<34>>)>>)

Backslashed(bytes) == <<92>> \o bytes
HexPiece(digits) == Backslashed(<<117>> \o digits)

\* Inside of a string: escapes, halves of pairs, and pieces that are cut short.
StringPieces ==
    {<<a>>, Backslashed(<<110>>), Backslashed(<<34>>), <<92>>, <<117, 49>>,
     HexPiece(<<48, 48, 101, 57>>), HexPiece(<<48, 48, 48, 48>>),
     HexPiece(<<100, 56, 51, 52>>), HexPiece(<<68, 68, 49, 69>>)}

\* Structure: brackets, keys, values, spaces.
TextPieces ==
    {<<91>>, <<93, 32>>, <<123, 34, a, 34, 58>>, <<44, 34, a, 34, 58>>, <<125>>, <<44, 10>>,
     <<45, 55>>}

PiecesNext(set, bound) ==
    /\ Len(pieces) < bound
    /\ \E p \in set : pieces' = Append(pieces, p)

\* The text of a behaviour of part "strings" or "texts".
Input ==
    LET bytes == FlattenSeq(pieces)
    IN  IF part = "strings" THEN <<34>> \o bytes \o <<34, 0>> ELSE Append(bytes, 0)

-----------------------------------------------------------------------------
(* Events, users, evaluations, waits *)

MCLF == "\n"
MCSymbols == {"event", "data", ":", " ", "\n", "x", "y", "put", "patch"}

\* Chunks that cut lines, fields and events.
MCChunks ==
    {<<"event">>, <<":", "put", "\n">>, <<"data", ":", " ", "x">>, <<"\n">>,
     <<"\n", "data", ":", "y", "\n", "\n">>, <<"\n", "\n">>,
     <<"event", ":", "patch", "\n", "data", ":">>, <<":", "x">>}

Attribute(key, value) == [key |-> key, value |-> value]

MCFields == <<"ip", "email">>
MCCustoms == {<<>>, <<Attribute("ip", 1), Attribute("a", 1)>>,
              <<Attribute("a", 1), Attribute("b", 2), Attribute("a", 2)>>}

FlagState(version, variation, type, n, tracked) ==
    [version |-> version, variation |-> variation, value |-> [type |-> type, n |-> n],
     tracked |-> tracked, trackReason |-> tracked,
     reason |-> IF n = 1 THEN <<"OFF">> ELSE <<>>]

MCFlags == {FlagState(1, 0, "bool", 1, TRUE), FlagState(2, 0, "bool", 2, FALSE),
            FlagState(2, 1, "text", 1, TRUE), FlagState(3, -1, "null", 0, TRUE)}

\* Flags as the server sends them: fields that are missing, negative, fractions, or of a
\* type that is not expected.
RawFlag(version, flagVersion, variation, track, date, reason, deleted) ==
    [value |-> [type |-> "text", n |-> 1], version |-> version, flagVersion |-> flagVersion,
     variation |-> variation, trackEvents |-> track, trackReason |-> track,
     debugEventsUntilDate |-> date, reason |-> reason, deleted |-> deleted]
N(tenths) == Number(tenths)
B(n) == Bool(n = 1)
Object == [type |-> "object", n |-> 1]

MCRawFlags ==
    {RawFlag(v, N(-20), N(0), B(1), N(15), Object, Missing) : v \in {N(-10), N(-5), N(0), N(15), N(30), B(1)}}
    \union {RawFlag(N(10), f, w, Missing, d, Missing, Missing) :
                f \in {Missing, N(0), N(15)}, w \in {Missing, N(-15), N(20), B(1)}, d \in {Missing, N(-5)}}
    \union {RawFlag(N(20), N(1), N(1), t, B(1), B(1), x) :
                t \in {B(0), B(1), N(1)}, x \in {Missing, B(0), B(1), N(1)}}
    \union {[RawFlag(N(10), Missing, Missing, Missing, Missing, Object, Missing) EXCEPT !.value = Missing]}

\* These instances are ones the proofs are about: their hypotheses hold.
ASSUME InstancesAreProved ==
    /\ MembersAreOrdered
    /\ ReasonsAreTheServers /\ ValuesByVersion
    /\ RawFlagsAreJSON

\* Clock values around a full second; TLC counts up to 2^31.
MCClocks == [sec: {5}, nsec: {0, 1, 1000000, 500000000, 999000000, 999000001, 999999999}]

-----------------------------------------------------------------------------
(* The parts together *)

Init ==
    /\ part \in {"keyed", "wide", "print", "strings", "texts", "sse", "user", "evaluation", "saved",
                "wait"}
    /\ Keyed!TreeInit /\ Wide!TreeInit
    /\ document \in IF part = "print" THEN Leaves ELSE {Text!Item("null")}
    /\ pieces = <<>>
    /\ SSEInit
    /\ IF part = "user" THEN UserInit
       ELSE ldUser = <<>> /\ settings = [all |-> FALSE, names |-> <<>>]
    /\ EvalInit
    /\ SavedInit
    /\ IF part = "wait" THEN WaitInit
       ELSE wait = [now |-> [sec |-> 5, nsec |-> 0], ms |-> 0] /\ streamRetries = 0 /\ delay = 0 /\ longest = 0

keyedVars == <<heap, roots, lost>>
wideVars == <<wideHeap, wideRoots, wideLost>>
textVars == <<document, pieces>>

KeyedPart == /\ part = "keyed" /\ Keyed!TreeNext
             /\ UNCHANGED <<part, wideVars, textVars, sseVars, userVars, evalVars, savedVars, waitVars>>
WidePart == /\ part = "wide" /\ Wide!TreeNext
            /\ UNCHANGED <<part, keyedVars, textVars, sseVars, userVars, evalVars, savedVars, waitVars>>
TextPart == /\ \/ part = "print" /\ DocumentNext /\ UNCHANGED pieces
               \/ part = "strings" /\ PiecesNext(StringPieces, 4) /\ UNCHANGED document
               \/ part = "texts" /\ PiecesNext(TextPieces, 5) /\ UNCHANGED document
            /\ UNCHANGED <<part, keyedVars, wideVars, sseVars, userVars, evalVars, savedVars, waitVars>>
SSEPart == /\ part = "sse" /\ SSENext
           /\ UNCHANGED <<part, keyedVars, wideVars, textVars, userVars, evalVars, savedVars, waitVars>>
UserPart == /\ part = "user" /\ UserNext
            /\ UNCHANGED <<part, keyedVars, wideVars, textVars, sseVars, evalVars, savedVars, waitVars>>
EvaluationPart == /\ part = "evaluation" /\ EvalNext
                  /\ UNCHANGED <<part, keyedVars, wideVars, textVars, sseVars, userVars, savedVars,
                                 waitVars>>
SavedPart == /\ part = "saved" /\ SavedNext
             /\ UNCHANGED <<part, keyedVars, wideVars, textVars, sseVars, userVars, evalVars, waitVars>>
WaitPart == /\ part = "wait" /\ WaitNext
            /\ UNCHANGED <<part, keyedVars, wideVars, textVars, sseVars, userVars, evalVars, savedVars>>

Next == KeyedPart \/ WidePart \/ TextPart \/ SSEPart \/ UserPart \/ EvaluationPart \/ SavedPart
        \/ WaitPart

Spec == Init /\ [][Next]_vars

-----------------------------------------------------------------------------
(* Properties *)

\* However documents are taken apart and put together, the links between the items of cJSON
\* agree, so that no list of children is broken or points at freed memory; every item has
\* exactly one owner, so that LDJSONFree frees it once; and the keys of an object that was
\* built with LDObjectSetKey and LDObjectMerge differ (JSONTree's properties of these names).
DocumentsAreSound ==
    /\ Keyed!LinksAgree /\ Keyed!OneOwner /\ Keyed!KeysUnique
    /\ Wide!LinksAgree /\ Wide!OneOwner /\ Wide!KeysUnique

\* LDJSONCompare is equality of values (JSONTree!CompareIsEquality), for keys in any order.
CompareIsEquality == Keyed!CompareIsEquality

\* The linked items implement the documents of JSONValues: every call changes the value of
\* the documents it is given, and of no other: Keyed!Values!Spec, in
\* which only steps of this part can change anything.
ImplementsValues ==
    /\ Keyed!Values!Init
    /\ [][part = "keyed" => [Keyed!Values!Next]_(Keyed!Values!valueVars)]_vars

\* What is read back from a text t of the document.
IsDocument(back, t) ==
    /\ back.ok <=> Depth(document) <= 2
    /\ back.ok => back.item = Canonical(document) /\ back.next = Len(t)

\* LDJSONDeserialize reads back what LDJSONSerialize and LDValue_SerializeFormattedJSON print,
\* except that numbers that are not finite become null, and it refuses just the documents that
\* are nested deeper than the parser's limit.
RoundTrip ==
    part = "print" =>
        \A t \in {Text!LDJSONSerialize(document), Text!LDValue_SerializeFormattedJSON(document)} :
            IsDocument(Text!LDJSONDeserialize(t), t)

\* The printed text fits the buffer that the writers asked for, which never refuses room.
PrintFits ==
    \A format \in {0, 1} : LET b == Text!cJSON_Print(document, format)
                            IN  b.ok /\ b.fits /\ Len(b.text) < b.length

\* A sequence of characters in well-formed UTF-8, none of them half of a surrogate pair.
RECURSIVE IsUtf8(_)
IsUtf8(bytes) ==
    \/ bytes = <<>>
    \/ \E n \in 1 .. 4 :
          /\ n <= Len(bytes)
          /\ LET char == SubSeq(bytes, 1, n)
             IN  Text!WellFormed(char) /\ Text!Decoded(char) \in Text!CodePoints
          /\ IsUtf8(SubSeq(bytes, n + 1, Len(bytes)))

\* A document that was parsed, and the document parsed from what it is printed as.
SameAgain(first, again) == again.ok /\ again.item = first.item

Stable(first) ==
    first.ok => /\ SameAgain(first, Text!LDJSONDeserialize(Text!LDJSONSerialize(first.item)))
                /\ part = "strings" => IsUtf8(first.item.text)

\* What the parser accepts it accepts again after printing, with the same value: escapes,
\* surrogate pairs, repeated keys and spaces are normalised in one round.  A string written
\* in ASCII with escapes becomes UTF-8.
ParsedIsStable == part \in {"strings", "texts"} => Stable(Text!LDJSONDeserialize(Input))

\* The parsed string fits what parse_string computed from its text, with its terminator.
StringFits ==
    LET end == Text!InputEnd(Input, 2, 0).at
        string == Text!Unescaped(Input, 2, end, <<>>)
    IN  end # 0 => Len(string.output) + 1 <= Text!AllocationLength(Input, 1)

\* Neither the printer nor the parser of strings writes past the memory it asked for: the
\* sizes passed to `ensure' are enough for every document, formatted or not, and a string
\* with escapes never outgrows the size computed before they are decoded.
MemorySuffices == (part = "print" => PrintFits) /\ (part = "strings" => StringFits)
=============================================================================
