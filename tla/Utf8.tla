-------------------------------- MODULE Utf8 --------------------------------
(***************************************************************************)
(* The arithmetic of utf16_literal_to_utf8: the code point that one or two *)
(* \uXXXX literals stand for, and its bytes in UTF-8.  The masks and       *)
(* shifts of the code are remainders and quotients by powers of two.       *)
(***************************************************************************)
EXTENDS Naturals, Sequences

HighSurrogates == {c \in Nat : c >= 55296 /\ c < 56320}   \* 0xD800 .. 0xDBFF
LowSurrogates == {c \in Nat : c >= 56320 /\ c < 57344}    \* 0xDC00 .. 0xDFFF
CodePoints == {c \in Nat : c < 1114112 /\ c \notin HighSurrogates \union LowSurrogates}

\* The code point of a surrogate pair: ten bits of each half.
Pair(high, low) == 65536 + (high % 1024) * 1024 + (low % 1024)

Continuation(c) == 128 + (c % 64)

\* The first byte carries the length and the top bits, each further byte six bits.
Utf8(c) ==
    CASE c < 128   -> <<c>>
      [] c >= 128 /\ c < 2048 -> <<192 + c \div 64, Continuation(c)>>
      [] c >= 2048 /\ c < 65536 ->
            <<224 + c \div 4096, Continuation(c \div 64), Continuation(c)>>
      [] c >= 65536 ->
            <<240 + c \div 262144, Continuation(c \div 4096),
              Continuation(c \div 64), Continuation(c)>>

-----------------------------------------------------------------------------
(* The reference: the code point a reader takes from well-formed UTF-8 *)

Decoded(b) ==
    CASE Len(b) = 1 -> b[1]
      [] Len(b) = 2 -> (b[1] - 192) * 64 + (b[2] - 128)
      [] Len(b) = 3 -> (b[1] - 224) * 4096 + (b[2] - 128) * 64 + (b[3] - 128)
      [] Len(b) = 4 -> (b[1] - 240) * 262144 + (b[2] - 128) * 4096
                       + (b[3] - 128) * 64 + (b[4] - 128)

\* Well formed: a first byte that announces the length, continuations, no overlong form.
WellFormed(b) ==
    \/ Len(b) = 1 /\ b[1] \in 0 .. 127
    \/ Len(b) = 2 /\ b[1] \in 194 .. 223 /\ b[2] \in 128 .. 191
    \/ Len(b) = 3 /\ b[1] \in 224 .. 239 /\ b[2] \in 128 .. 191 /\ b[3] \in 128 .. 191
                  /\ (b[1] = 224 => b[2] >= 160)
    \/ Len(b) = 4 /\ b[1] \in 240 .. 244 /\ b[2] \in 128 .. 191 /\ b[3] \in 128 .. 191
                  /\ b[4] \in 128 .. 191 /\ (b[1] = 240 => b[2] >= 144)
=============================================================================
