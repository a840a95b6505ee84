------------------------------ MODULE JSONText ------------------------------
(***************************************************************************)
(* The text of JSON documents: the parser and the printer of cJSON, which  *)
(* LDJSONDeserialize, LDJSONSerialize and the LDValue functions call.  A   *)
(* text is the sequence of its bytes with the terminating NUL, a position  *)
(* in it counts from 1, and a document is its root item.                   *)
(*                                                                         *)
(* A number is the integer it stands for, <<>> when it is not finite;      *)
(* strtod and sprintf are modelled on integers.  Allocations succeed.      *)
(***************************************************************************)
EXTENDS Integers, Sequences, SequencesExt, FiniteSetsExt, Utf8

CONSTANTS
    NestingLimit,   \* CJSON_NESTING_LIMIT
    BufferSize      \* default_buffer_size of print

-----------------------------------------------------------------------------
(* Bytes and items *)

NUL == 0
Tab == 9
Newline == 10
Space == 32
Quote == 34
Comma == 44
Minus == 45
Colon == 58
Backslash == 92
LetterU == 117
Digits == 48 .. 57
HexDigits == Digits \union (65 .. 70) \union (97 .. 102)
Words == [null |-> <<110, 117, 108, 108>>, true |-> <<116, 114, 117, 101>>,
          false |-> <<102, 97, 108, 115, 101>>]
Open == [array |-> 91, object |-> 123]
Close == [array |-> 93, object |-> 125]

\* The letters that parse_string takes after a backslash, with the byte they stand for.
Escapes == (98 :> 8) @@ (102 :> 12) @@ (110 :> 10) @@ (114 :> 13) @@ (116 :> 9)
           @@ (34 :> 34) @@ (92 :> 92) @@ (47 :> 47)

Item(type) == [type |-> type, key |-> <<>>, number |-> <<>>, text |-> <<>>, child |-> <<>>]

\* Bytes stored as a C string end at the first NUL.
CString(bytes) ==
    IF NUL \in Range(bytes) THEN SubSeq(bytes, 1, Min({i \in DOMAIN bytes : bytes[i] = NUL}) - 1)
    ELSE bytes

-----------------------------------------------------------------------------
(* Parsing.  The parsers return the item and the position after it. *)

Parsed(item, next) == [ok |-> TRUE, item |-> item, next |-> next]
Failed == [ok |-> FALSE, item |-> Item("invalid"), next |-> 1]

StartsWith(t, i, word) ==
    /\ i + Len(word) - 1 <= Len(t)
    /\ SubSeq(t, i, i + Len(word) - 1) = word

\* The first byte above the space, or the terminator when there is none.
buffer_skip_whitespace(t, i) ==
    LET solid == {j \in i .. Len(t) : t[j] > Space}
    IN  IF solid = {} THEN Len(t) ELSE Min(solid)

skip_utf8_bom(t) == IF Len(t) > 4 /\ SubSeq(t, 1, 3) = <<239, 187, 191>> THEN 4 ELSE 1

\* strtod on the run of bytes of numbers: a sign and digits; what follows the digits is
\* left in the text.
parse_number(t, i) ==
    LET first == IF t[i] = Minus THEN i + 1 ELSE i
        beyond == {j \in first .. Len(t) : t[j] \notin Digits}
        last == Min(beyond) - 1
        size == FoldLeft(LAMBDA n, d : 10 * n + (d - 48), 0, SubSeq(t, first, last))
    IN  IF last < first THEN Failed
        ELSE Parsed([Item("number") EXCEPT !.number = <<IF t[i] = Minus THEN -size ELSE size>>],
                    last + 1)

\* Four digits give their value, anything else gives 0.
parse_hex4(t, i) ==
    LET digits == SubSeq(t, i, i + 3)
        Digit(d) == IF d <= 57 THEN d - 48 ELSE IF d <= 70 THEN d - 55 ELSE d - 87
    IN  IF Range(digits) \subseteq HexDigits
        THEN FoldLeft(LAMBDA n, d : 16 * n + Digit(d), 0, digits) ELSE 0

\* Mutated: each half of a pair is a character.
utf16_literal_to_utf8_Unpaired(t, p, end) ==
    IF end - p < 6 THEN [length |-> 0, bytes |-> <<>>]
    ELSE [length |-> 6, bytes |-> Utf8(parse_hex4(t, p + 2))]

\* The bytes of the literal at p, and its length in the text: 0 when it is refused.
utf16_literal_to_utf8(t, p, end) ==
    LET refused == [length |-> 0, bytes |-> <<>>]
        first == parse_hex4(t, p + 2)
        second == parse_hex4(t, p + 8)
    IN  CASE end - p < 6 -> refused
          [] end - p >= 6 /\ first \in LowSurrogates -> refused
          [] end - p >= 6 /\ first \in HighSurrogates ->
                IF /\ end - (p + 6) >= 6
                   /\ SubSeq(t, p + 6, p + 7) = <<Backslash, LetterU>>
                   /\ second \in LowSurrogates
                THEN [length |-> 12, bytes |-> Utf8(Pair(first, second))]
                ELSE refused
          [] OTHER -> [length |-> 6, bytes |-> Utf8(first)]

\* The position of the closing quote, 0 if there is none, and the escapes passed over.
RECURSIVE InputEnd(_, _, _)
InputEnd(t, i, skipped) ==
    IF i > Len(t) \/ (t[i] = Backslash /\ i + 1 > Len(t)) THEN [at |-> 0, skipped |-> skipped]
    ELSE IF t[i] = Quote THEN [at |-> i, skipped |-> skipped]
    ELSE IF t[i] = Backslash THEN InputEnd(t, i + 2, skipped + 1)
    ELSE InputEnd(t, i + 1, skipped)

\* The bytes between p and the closing quote with their escapes replaced.
RECURSIVE Unescaped(_, _, _, _)
Unescaped(t, p, end, output) ==
    IF p >= end THEN [ok |-> TRUE, output |-> output]
    ELSE IF t[p] # Backslash THEN Unescaped(t, p + 1, end, Append(output, t[p]))
    ELSE IF t[p + 1] \in DOMAIN Escapes
         THEN Unescaped(t, p + 2, end, Append(output, Escapes[t[p + 1]]))
    ELSE LET literal == utf16_literal_to_utf8(t, p, end)
         IN  IF t[p + 1] = LetterU /\ literal.length > 0
             THEN Unescaped(t, p + literal.length, end, output \o literal.bytes)
             ELSE [ok |-> FALSE, output |-> output]

\* Mutated: both bytes of an escape are skipped.
AllocationLength_BothBytes(t, i) ==
    LET end == InputEnd(t, i + 1, 0) IN (end.at - i) - 2 * end.skipped + 1

\* The bytes allocated for the output, the terminator included.
AllocationLength(t, i) ==
    LET end == InputEnd(t, i + 1, 0) IN (end.at - i) - end.skipped + 1

parse_string(t, i) ==
    LET end == InputEnd(t, i + 1, 0).at
        string == Unescaped(t, i + 1, end, <<>>)
    IN  IF t[i] # Quote \/ end = 0 \/ ~string.ok THEN Failed
        ELSE Parsed([Item("string") EXCEPT !.text = CString(string.output)], end + 1)

\* The children of a collection from position i on, with those before them.  A repeated key
\* is kept.
RECURSIVE ParseChildren(_, _, _, _, _)
RECURSIVE parse_value(_, _, _)

\* A member of an object, once its name is parsed: the colon, and the value under the name.
NamedValue(value, name) ==
    IF value.ok THEN [value EXCEPT !.item.key = name.item.text] ELSE Failed

AfterName(t, name, depth) ==
    LET colon == buffer_skip_whitespace(t, name.next)
    IN  IF ~name.ok \/ t[colon] # Colon THEN Failed
        ELSE NamedValue(parse_value(t, buffer_skip_whitespace(t, colon + 1), depth), name)

Member(t, i, type, depth) ==
    IF type = "array" THEN parse_value(t, buffer_skip_whitespace(t, i), depth)
    ELSE AfterName(t, parse_string(t, buffer_skip_whitespace(t, i)), depth)

AfterMember(t, member, type, depth, before) ==
    LET after == buffer_skip_whitespace(t, member.next)
        children == Append(before, member.item)
    IN  IF ~member.ok THEN Failed
        ELSE IF t[after] = Comma THEN ParseChildren(t, after + 1, type, depth, children)
        ELSE IF t[after] = Close[type]
             THEN Parsed([Item(type) EXCEPT !.child = children], after + 1)
        ELSE Failed

ParseChildren(t, i, type, depth, before) ==
    AfterMember(t, Member(t, i, type, depth), type, depth, before)

\* Mutated: one level more than the limit.
parse_collection_Deeper(t, i, type, depth) ==
    LET first == buffer_skip_whitespace(t, i + 1)
    IN  IF depth > NestingLimit THEN Failed
        ELSE IF t[first] = Close[type] THEN Parsed(Item(type), first + 1)
        ELSE ParseChildren(t, first, type, depth + 1, <<>>)

\* parse_array and parse_object.
parse_collection(t, i, type, depth) ==
    LET first == buffer_skip_whitespace(t, i + 1)
    IN  IF depth >= NestingLimit THEN Failed
        ELSE IF t[first] = Close[type] THEN Parsed(Item(type), first + 1)
        ELSE ParseChildren(t, first, type, depth + 1, <<>>)

parse_value(t, i, depth) ==
    CASE \E w \in DOMAIN Words : StartsWith(t, i, Words[w]) ->
            LET w == CHOOSE x \in DOMAIN Words : StartsWith(t, i, Words[x])
            IN  Parsed(Item(w), i + Len(Words[w]))
      [] t[i] = Quote -> parse_string(t, i)
      [] t[i] = Minus \/ t[i] \in Digits -> parse_number(t, i)
      [] t[i] \in Range(Open) ->
            parse_collection(t, i, CHOOSE type \in DOMAIN Open : t[i] = Open[type], depth)
      [] OTHER -> Failed

\* cJSON_Parse: text after the first value is not looked at.
cJSON_Parse(t) == parse_value(t, buffer_skip_whitespace(t, skip_utf8_bom(t)), 0)

-----------------------------------------------------------------------------
(* Printing.  A print buffer holds the text so far and its allocated length; `fits' is   *)
(* false once a byte was written past it.                                                *)

\* The buffer with room for `needed' more bytes and one more, doubled when it is short.
ensure(b, needed) ==
    LET total == Len(b.text) + needed + 1
    IN  IF ~b.ok \/ (b.length > 0 /\ Len(b.text) >= b.length) THEN [b EXCEPT !.ok = FALSE]
        ELSE IF total <= b.length THEN b ELSE [b EXCEPT !.length = 2 * total]

\* A writer asks for room, writes its bytes and, with `end' = 1, a terminator after them.
Emit(b, needed, bytes, end) ==
    LET e == ensure(b, needed)
    IN  IF ~e.ok THEN e
        ELSE [e EXCEPT !.text = @ \o bytes,
                       !.fits = @ /\ Len(b.text) + Len(bytes) + end <= e.length]

Repeat(byte, n) == [i \in 1 .. n |-> byte]

RECURSIVE Decimal(_)
Decimal(n) == IF n < 10 THEN <<48 + n>> ELSE Append(Decimal(n \div 10), 48 + (n % 10))

print_number(b, number) ==
    LET printed == IF number = <<>> THEN Words["null"]
                   ELSE IF number[1] < 0 THEN <<Minus>> \o Decimal(-number[1])
                   ELSE Decimal(number[1])
    IN  Emit(b, Len(printed) + 1, printed, 1)

HexDigit(n) == IF n < 10 THEN 48 + n ELSE 87 + n

\* The bytes one byte of a string is printed as; only `/' is not escaped again.
Escaped(byte) ==
    LET letters == {l \in DOMAIN Escapes : Escapes[l] = byte /\ l # 47}
    IN  IF letters # {} THEN <<Backslash, CHOOSE l \in letters : TRUE>>
        ELSE IF byte > 31 THEN <<byte>>
        ELSE <<Backslash, LetterU, 48, 48, HexDigit(byte \div 16), HexDigit(byte % 16)>>

print_string_ptr(b, text) ==
    LET printed == FlattenSeq([i \in DOMAIN text |-> Escaped(text[i])])
    IN  Emit(b, Len(printed) + 3, <<Quote>> \o printed \o <<Quote>>, 1)

RECURSIVE print_value(_, _, _, _)

\* Elements j and following of an array.  A writer without room ends the printing.
RECURSIVE PrintElements(_, _, _, _, _)
PrintElements(b, child, j, format, depth) ==
    IF ~b.ok \/ j > Len(child) THEN b
    ELSE LET value == print_value(b, child[j], format, depth)
             comma == <<Comma>> \o Repeat(Space, format)
         IN  PrintElements(IF j = Len(child) THEN value ELSE Emit(value, 2 + format, comma, 1),
                           child, j + 1, format, depth)

print_array(b, item, format, depth) ==
    LET opened == Emit(b, 1, <<Open["array"]>>, 0)
    IN  Emit(PrintElements(opened, item.child, 1, format, depth + 1), 2, <<Close["array"]>>, 1)

\* Members j and following of an object, each on a line of its own when formatted.
RECURSIVE PrintMembers(_, _, _, _, _)
PrintMembers(b, child, j, format, depth) ==
    IF ~b.ok \/ j > Len(child) THEN b
    ELSE LET indented == IF format = 0 THEN b ELSE Emit(b, depth, Repeat(Tab, depth), 0)
             name == print_string_ptr(indented, child[j].key)
             colon == Emit(name, 1 + format, <<Colon>> \o Repeat(Tab, format), 0)
             value == print_value(colon, child[j], format, depth)
             comma == Repeat(Comma, IF j < Len(child) THEN 1 ELSE 0) \o Repeat(Newline, format)
         IN  PrintMembers(Emit(value, Len(comma) + 1, comma, 1), child, j + 1, format, depth)

print_object(b, item, format, depth) ==
    LET opened == Emit(b, 2 + format, <<Open["object"]>> \o Repeat(Newline, format), 0)
        members == PrintMembers(opened, item.child, 1, format, depth + 1)
    IN  IF format = 0 THEN Emit(members, 2, <<Close["object"]>>, 1)
        ELSE Emit(members, depth + 2, Append(Repeat(Tab, depth), Close["object"]), 1)

print_value(b, item, format, depth) ==
    CASE ~b.ok -> b
      [] b.ok /\ item.type \in DOMAIN Words ->
            Emit(b, Len(Words[item.type]) + 1, Words[item.type], 1)
      [] b.ok /\ item.type = "number" -> print_number(b, item.number)
      [] b.ok /\ item.type = "string" -> print_string_ptr(b, item.text)
      [] b.ok /\ item.type = "array" -> print_array(b, item, format, depth)
      [] b.ok /\ item.type = "object" -> print_object(b, item, format, depth)

\* cJSON_PrintUnformatted (format 0) and cJSON_Print (format 1): the buffer with the text.
cJSON_Print(item, format) ==
    print_value([text |-> <<>>, length |-> BufferSize, ok |-> TRUE, fits |-> TRUE],
                item, format, 0)

LDJSONSerialize(item) == Append(cJSON_Print(item, 0).text, NUL)
LDValue_SerializeFormattedJSON(item) == Append(cJSON_Print(item, 1).text, NUL)
LDJSONDeserialize(t) == cJSON_Parse(t)
=============================================================================
