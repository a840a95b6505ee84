------------------------------- MODULE Users --------------------------------
(***************************************************************************)
(* A user as the application builds it, and what the SDK sends of it:      *)
(* LDi_serializeUser for requests of flags, LDi_createEventUser, without   *)
(* the private attributes, for events.  The values of the attributes are   *)
(* opaque.  A pointer that may be NULL is a sequence of at most one.       *)
(***************************************************************************)
EXTENDS Pointers, Naturals, Sequences, Functions, FiniteSetsExt

CONSTANTS
    UserKeys,      \* keys the application gives, "" among them
    Fields,        \* the built-in string attributes, in the order of the code
    Texts,         \* their values
    Customs,       \* custom attributes: sequences of [key, value]; keys may repeat
    Names,         \* names that are marked as private
    MaxPrivate     \* bound: private names of one user

VARIABLES
    ldUser,        \* struct LDUser, as a sequence of at most one
    settings       \* of LDConfig: allAttributesPrivate, privateAttributeNames

userVars == <<ldUser, settings>>

DeviceId == "device"

\* What LDi_userNew leaves.
Fresh(key, anonymous) ==
    [key |-> key, anonymous |-> anonymous, strings |-> [f \in Range(Fields) |-> NULL],
     custom |-> NULL, privateAttributeNames |-> <<>>]

UserInit ==
    /\ ldUser = NULL
    /\ settings \in [all: BOOLEAN, names: {NULL} \union {<<<<n>>>> : n \in Names}]

-----------------------------------------------------------------------------
(* Building a user *)

\* Without a key the user gets an identifier of the device, or a random one, and is anonymous.
LDUserNew(key) ==
    /\ ldUser = NULL
    /\ ldUser' = <<IF key = "" THEN Fresh(DeviceId, TRUE) ELSE Fresh(key, FALSE)>>

User == ldUser[1]

\* The setters of strings: LDSetString keeps the old value when memory runs out.
SetString(field, value) == ldUser' = <<[User EXCEPT !.strings[field] = value]>>

LDUserSetAnonymous(anon) == ldUser' = <<[User EXCEPT !.anonymous = anon]>>

LDUserSetCustom(custom) == ldUser' = <<[User EXCEPT !.custom = <<custom>>]>>

LDUserSetPrivateAttributes(names) ==
    ldUser' = <<[User EXCEPT !.privateAttributeNames = names]>>

LDUserAddPrivateAttribute(name) ==
    /\ Len(User.privateAttributeNames) < MaxPrivate
    /\ ldUser' = <<[User EXCEPT !.privateAttributeNames = Append(@, name)]>>

UserNext ==
    /\ UNCHANGED settings
    /\ \/ \E key \in UserKeys : LDUserNew(key)
       \/ /\ ldUser # NULL
          /\ \/ \E f \in Range(Fields), v \in {NULL} \union {<<x>> : x \in Texts} : SetString(f, v)
             \/ \E anon \in BOOLEAN : LDUserSetAnonymous(anon)
             \/ \E c \in Customs : LDUserSetCustom(c)
             \/ \E n \in Names : LDUserSetPrivateAttributes(<<n>>)
             \/ \E n \in Names : LDUserAddPrivateAttribute(n)

UserSpec == UserInit /\ [][UserNext]_userVars

-----------------------------------------------------------------------------
(* What is sent *)

LDi_textInArray(array, text) == text \in Range(array)

\* Mutated: the global list replaces the user's.
isPrivateAttr_GlobalOnly(u, key) ==
    IF settings.names # NULL THEN LDi_textInArray(settings.names[1], key)
    ELSE LDi_textInArray(u.privateAttributeNames, key)

isPrivateAttr(u, key) ==
    \/ settings.all
    \/ settings.names # NULL /\ LDi_textInArray(settings.names[1], key)
    \/ LDi_textInArray(u.privateAttributeNames, key)

\* LDObjectDeleteKey: the first member with the key goes.
WithoutKey(members, key) ==
    LET with == {i \in DOMAIN members : members[i].key = key}
    IN  IF with = {} THEN members
        ELSE [i \in 1 .. Len(members) - 1 |-> members[IF i < Min(with) THEN i ELSE i + 1]]

\* The loop over the members of custom, which deletes the private ones from a copy.
Redacted(u, custom) ==
    LET left[i \in 0 .. Len(custom)] ==
            IF i = 0 THEN custom
            ELSE IF isPrivateAttr(u, custom[i].key) THEN WithoutKey(left[i - 1], custom[i].key)
            ELSE left[i - 1]
    IN  left[Len(custom)]

\* The elements of a sequence that are in S, in order.
Chosen(s, S) ==
    LET among[i \in 0 .. Len(s)] ==
            IF i = 0 THEN <<>>
            ELSE IF s[i] \in S THEN Append(among[i - 1], s[i])
            ELSE among[i - 1]
    IN  among[Len(s)]

HiddenFields(u) ==
    Chosen(Fields, {f \in Range(Fields) : u.strings[f] # NULL /\ isPrivateAttr(u, f)})

HiddenMembers(u) ==
    IF u.custom = NULL THEN <<>>
    ELSE Chosen(u.custom[1], {m \in Range(u.custom[1]) : isPrivateAttr(u, m.key)})

\* Mutated: custom attributes are not named.
HiddenNames_Fields(u) == HiddenFields(u)

\* The names put into privateAttrs by addHidden.
HiddenNames(u) ==
    HiddenFields(u) \o [i \in DOMAIN HiddenMembers(u) |-> HiddenMembers(u)[i].key]

\* The key and the mark of an anonymous user are always sent.
LDi_createEventUser(u) ==
    [key |-> u.key,
     anonymous |-> u.anonymous,
     strings |-> [f \in Range(Fields) |-> IF isPrivateAttr(u, f) THEN NULL ELSE u.strings[f]],
     custom |-> IF u.custom = NULL THEN NULL ELSE <<Redacted(u, u.custom[1])>>,
     privateAttrs |-> HiddenNames(u)]

\* All of the user, for the server that evaluates flags; empty collections are left out.
LDi_serializeUser(u) ==
    [key |-> u.key,
     anonymous |-> u.anonymous,
     strings |-> u.strings,
     custom |-> IF u.custom = <<<<>>>> THEN NULL ELSE u.custom,
     privateAttributeNames |-> u.privateAttributeNames]

-----------------------------------------------------------------------------
(* Properties *)

\* The kinds of the constants: cJSON keeps the members of an object in their order.
MembersAreOrdered ==
    /\ Fields \in Seq(Range(Fields))
    /\ \A c \in Customs : c \in Seq(Range(c))

Marked(u) ==
    Range(u.privateAttributeNames)
    \union (IF settings.names = NULL THEN {} ELSE Range(settings.names[1]))
Private(u, name) == settings.all \/ name \in Marked(u)

\* No attribute that is private, by the user's marks or by the configuration, reaches an
\* event, neither built-in nor custom, not even when a key of the custom object is repeated.
PrivateStaysPrivate ==
    ldUser # NULL =>
        LET sent == LDi_createEventUser(User)
        IN  /\ \A f \in Range(Fields) : Private(User, f) => sent.strings[f] = NULL
            /\ sent.custom # NULL => \A m \in Range(sent.custom[1]) : ~Private(User, m.key)

\* Everything else reaches it unchanged and in order, and what is missing is announced: an
\* attribute is in the event or its name is in privateAttrs, never both.
OnlyPrivateIsMissing ==
    ldUser # NULL =>
        LET sent == LDi_createEventUser(User)
            full == LDi_serializeUser(User)
            names == Range(sent.privateAttrs)
        IN  /\ sent.key = full.key /\ sent.anonymous = full.anonymous
            /\ \A f \in Range(Fields) :
                /\ full.strings[f] # NULL => (sent.strings[f] = full.strings[f]) # (f \in names)
                /\ full.strings[f] = NULL => sent.strings[f] = NULL
            /\ full.custom # NULL =>
                sent.custom[1] = Chosen(full.custom[1],
                                        {m \in Range(full.custom[1]) : m.key \notin names})
=============================================================================
