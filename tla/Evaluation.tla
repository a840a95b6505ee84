----------------------------- MODULE Evaluation -----------------------------
(***************************************************************************)
(* What the variation functions answer for one flag key and what they      *)
(* record of it: the value with its details, the feature event, and the    *)
(* entry of the summary.  A call is one step here: the interleavings of    *)
(* evaluations are the business of modules Store and EventProcessor.       *)
(*                                                                         *)
(* A request is for a boolean, a number, a text, or (LDNull in the code)   *)
(* for JSON of any type.  A value is its type with a number that tells it  *)
(* from others.  Memory does not run out, and the application gives a      *)
(* client and a flag key.                                                  *)
(***************************************************************************)
EXTENDS Pointers, Integers, Sequences, Functions

CONSTANTS
    Flags,      \* the states the server gives the flag: version, variation, value, ...
    Fallbacks,  \* numbers of the application's fallback values
    MaxCalls    \* bound: evaluations between two deliveries of the summary

VARIABLES
    flag,       \* the flag in the store, as a sequence of at most one
    summary,    \* the counters of the flag: entries by their key
    default,    \* the fallback the summary reports, as a sequence of at most one
    last,       \* history: the last call and its answer, as a sequence of at most one
    calls       \* history: the calls since the summary was last taken

\* What the server keeps to: it gives no flag the reasons that fillDetails makes up, and a
\* version of a flag has one value for each of its variations.
ReasonsAreTheServers ==
    \A f \in Flags : f.reason \notin {<<"FLAG_NOT_FOUND">>, <<"WRONG_TYPE">>}
ValuesByVersion ==
    \A f, g \in Flags : f.version = g.version /\ f.variation = g.variation => f.value = g.value

evalVars == <<flag, summary, default, last, calls>>

Kinds == {"bool", "number", "text", "json"}
Value(type, n) == [type |-> type, n |-> n]
Unknown == <<-1, -1>>

EvalInit ==
    /\ flag = NULL
    /\ summary = [k \in {} |-> 0]
    /\ default = NULL
    /\ last = NULL
    /\ calls = <<>>

-----------------------------------------------------------------------------
(* The answer *)

\* An application that asks for JSON passes a JSON fallback, here a number.
FallbackFor(kind, n) == Value(IF kind = "json" THEN "number" ELSE kind, n)

TypeMatches(kind) == flag # NULL /\ (kind = "json" \/ flag[1].value.type = kind)

\* The value of LDi_evalInternal.
LDi_evalInternal(kind, n) ==
    IF TypeMatches(kind) THEN flag[1].value ELSE FallbackFor(kind, n)

Error(kind) == [reason |-> <<kind>>, variationIndex |-> -1]

\* Mutated: a value of another type is not noticed.
fillDetails_Untyped(kind) ==
    IF flag = NULL THEN Error("FLAG_NOT_FOUND")
    ELSE [reason |-> flag[1].reason, variationIndex |-> flag[1].variation]

\* A flag whose value is null speaks for itself even when the fallback is returned.
fillDetails(kind) ==
    IF flag = NULL THEN Error("FLAG_NOT_FOUND")
    ELSE IF TypeMatches(kind) \/ flag[1].value.type = "null"
    THEN [reason |-> flag[1].reason, variationIndex |-> flag[1].variation]
    ELSE Error("WRONG_TYPE")

-----------------------------------------------------------------------------
(* What is recorded *)

\* Mutated: the version is left out of the key.
SummaryKey_Variation == IF flag = NULL THEN Unknown ELSE <<0, flag[1].variation>>

SummaryKey == IF flag = NULL THEN Unknown ELSE <<flag[1].version, flag[1].variation>>

\* LDi_summarizeEvent: the entry and the default come from the first call they count.
LDi_summarizeEvent(fallback, value) ==
    /\ default' = IF default = NULL THEN <<fallback>> ELSE default
    /\ summary' = IF SummaryKey \in DOMAIN summary
                  THEN [summary EXCEPT ![SummaryKey].count = @ + 1]
                  ELSE [k \in DOMAIN summary \union {SummaryKey} |->
                            IF k = SummaryKey THEN [count |-> 1, value |-> value] ELSE summary[k]]

shouldGenerateFeatureEvent == flag # NULL /\ flag[1].tracked

\* LDi_newFeatureRequestEvent; a reason is added for a call with details, or when the flag
\* asks for it.
FeatureEvent(fallback, value, detailed) ==
    [key |-> SummaryKey, value |-> value, default |-> fallback,
     reason |-> IF detailed \/ flag[1].trackReason THEN flag[1].reason ELSE NULL]

\* One of the variation functions, with or without details.
Variation(kind, n, detailed) ==
    LET value == LDi_evalInternal(kind, n)
        fallback == FallbackFor(kind, n)
    IN  /\ Len(calls) < MaxCalls
        /\ LDi_summarizeEvent(fallback, value)
        /\ last' = <<[kind |-> kind, fallback |-> fallback, value |-> value,
                      details |-> IF detailed THEN <<fillDetails(kind)>> ELSE NULL,
                      event |-> IF shouldGenerateFeatureEvent
                                THEN <<FeatureEvent(fallback, value, detailed)>> ELSE NULL]>>
        /\ calls' = Append(calls, [key |-> SummaryKey, value |-> value,
                                   typed |-> TypeMatches(kind)])
        /\ UNCHANGED flag

\* The store takes another state of the flag, or the flag is deleted.
FlagChanges(f) == flag' = f /\ last' = NULL /\ UNCHANGED <<summary, default, calls>>

\* LDi_bundleEventPayload takes the summary.
SummaryTaken ==
    /\ default # NULL
    /\ summary' = [k \in {} |-> 0] /\ default' = NULL
    /\ calls' = <<>> /\ last' = NULL
    /\ UNCHANGED flag

EvalNext ==
    \/ \E kind \in Kinds, n \in Fallbacks, detailed \in BOOLEAN : Variation(kind, n, detailed)
    \/ \E f \in {NULL} \union {<<x>> : x \in Flags} : f # flag /\ FlagChanges(f)
    \/ SummaryTaken

EvalSpec == EvalInit /\ [][EvalNext]_evalVars

-----------------------------------------------------------------------------
(* Properties *)

\* The details of a call tell where its value came from: with an error reason and no
\* variation it is the fallback, otherwise it is the value of the flag, or the fallback
\* because the flag's value is null, and then a feature event gives the same reason.
DetailsExplainValue ==
    \A c \in Range(last) : \A d \in Range(c.details) :
        IF d.reason \in {<<"FLAG_NOT_FOUND">>, <<"WRONG_TYPE">>}
        THEN d.variationIndex = -1 /\ c.value = c.fallback
        ELSE flag # NULL /\ c.value = (IF c.kind # "json" /\ flag[1].value.type = "null"
                                       THEN c.fallback ELSE flag[1].value)
                          /\ \A e \in Range(c.event) : e.reason = d.reason

\* The calls that an entry of the summary is about.
Counted(k) == {i \in DOMAIN calls : calls[i].key = k}

\* The set has n elements.
HasSize(S, n) == ExistsBijection(1 .. n, S)

\* Every call is counted in one entry of the summary, and as long as the flag was asked for
\* with its own type the entry reports the value that all of these calls returned.
SummaryIsTrue ==
    \A k \in {c.key : c \in Range(calls)} \union DOMAIN summary :
        /\ k \in DOMAIN summary
        /\ HasSize(Counted(k), summary[k].count)
        /\ (\A i \in Counted(k) : calls[i].typed) =>
                \A i \in Counted(k) : calls[i].value = summary[k].value
=============================================================================
