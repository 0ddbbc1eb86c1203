----------------------------- MODULE UnknownKeys -----------------------------
(***************************************************************************)
(* The keys of the configuration file that the parser ignores, and what    *)
(* was probably meant (src/unknown_keys.rs).                               *)
(*                                                                         *)
(* A document gives values to paths; a path is a sequence of keys, a key a *)
(* sequence of characters, and an index into an array is a key too.  The   *)
(* schema names types: a struct has fields, a flattening struct has fields *)
(* of its own and passes every other key on to OutboundCfg, a map takes    *)
(* any key, a leaf has no keys.                                            *)
(***************************************************************************)
EXTENDS Integers, Sequences, FiniteSets

CONSTANTS Schema,        \* type name -> [kind, fields: key -> type, of: the type of a map's values]
          OutboundKeys,  \* outbound_fields()
          Alphabet,      \* the characters of keys
          Edits,         \* the values somebody may write: path -> value
          Searches, Replays,  \* SUGGESTION_SEARCHES, SUGGESTION_REPLAYS
          MaxKeys        \* how many values a document has at most (a bound)

ASSUME KeysAssumption == Searches \in Nat /\ Replays \in Nat /\ "root" \in DOMAIN Schema

VARIABLES doc,       \* the document: a function from paths to "text", "num" or "table"
          found,     \* the keys reported, each with its suggestion (<<>> for none)
          todo,      \* those of flattening tables still to be searched for
          searches, replays,  \* what is left of the two limits
          stage      \* "editing", "searching" or "checked"
keyVars == <<doc, found, todo, searches, replays, stage>>

----------------------------------------------------------------------------
(* Distances. *)

Least2(a, b) == IF a <= b THEN a ELSE b

\* distance
Distance(a, b) ==
    LET d[i \in 0..Len(a), j \in 0..Len(b)] ==
            IF i = 0 THEN j ELSE IF j = 0 THEN i
            ELSE LET plain == Least2(Least2(d[i - 1, j], d[i, j - 1]) + 1, d[i - 1, j - 1] + (IF a[i] = b[j] THEN 0 ELSE 1))
                 IN IF i > 1 /\ j > 1 /\ a[i] = b[j - 1] /\ a[i - 1] = b[j] THEN Least2(plain, d[i - 2, j - 2] + 1) ELSE plain
    IN d[Len(a), Len(b)]

Upto(s, i) == SubSeq(s, 1, i)
From(s, i) == SubSeq(s, i, Len(s))

\* edits1
Edits1(key) ==
    ({Upto(key, i - 1) \o From(key, i + 1) : i \in DOMAIN key}
       \cup {Upto(key, i - 1) \o <<key[i + 1], key[i]>> \o From(key, i + 2) : i \in 1..(Len(key) - 1)}
       \cup {[key EXCEPT ![i] = a] : i \in DOMAIN key, a \in Alphabet}
       \cup {Upto(key, i) \o <<a>> \o From(key, i + 1) : i \in 0..Len(key), a \in Alphabet}) \ {key, <<>>}

\* closest: the nearest within a typo's distance, any of them when several are (the code: the first)
Limit(key) == IF Len(key) <= 4 THEN 1 ELSE IF Len(key) <= 8 THEN 2 ELSE 3
Closest(key, known) ==
    LET near == {k \in known : Distance(key, k) <= Limit(key)}
    IN {k \in near : \A other \in near : Distance(key, k) <= Distance(key, other)}

----------------------------------------------------------------------------
(* How the parser (external: serde) reads: the type of what is at a path, "skipped" below a struct's unknown
   key and "buffered" for what a flattening struct passes on. *)

Table(p) == Upto(p, Len(p) - 1)
Key(p) == p[Len(p)]
Under(t, key) ==
    IF t \in {"skipped", "buffered"} THEN t
    ELSE CASE Schema[t].kind = "map" -> Schema[t].of
           [] Schema[t].kind = "struct" -> IF key \in DOMAIN Schema[t].fields THEN Schema[t].fields[key] ELSE "skipped"
           [] Schema[t].kind = "flatten" -> IF key \in DOMAIN Schema[t].fields THEN Schema[t].fields[key] ELSE "buffered"
           [] OTHER -> "skipped"
TypeAt(p) == LET t[i \in 0..Len(p)] == IF i = 0 THEN "root" ELSE Under(t[i - 1], p[i]) IN t[Len(p)]
KindAt(p) == LET t == TypeAt(p) IN IF t \in {"skipped", "buffered"} THEN t ELSE Schema[t].kind
IsTable(kind) == kind \in {"struct", "flatten", "map"}

\* A value has the shape of its type, and OutboundCfg's are text.
Shaped(d, p) ==
    LET kind == KindAt(p)
    IN IF kind = "skipped" THEN TRUE
       ELSE IF kind = "buffered" THEN KindAt(Table(p)) = "flatten" /\ Key(p) \in OutboundKeys => d[p] = "text"
       ELSE d[p] = (IF IsTable(kind) THEN "table" ELSE kind)
Parses(d) == \A p \in DOMAIN d : Shaped(d, p)

Siblings(d, p) == {Key(q) : q \in {q \in DOMAIN d : Table(q) = Table(p)}}

----------------------------------------------------------------------------
(* The check, which replays the parser over what it recorded. *)

\* Mutant: a table read as a map is judged whoever reads it.
JudgedMaps(d) ==
    {p \in DOMAIN d : KindAt(Table(p)) \in {"struct", "flatten", "map"} /\ TypeAt(p) \in {"skipped", "buffered"} \cup
         (IF KindAt(Table(p)) = "map" THEN DOMAIN Schema ELSE {}) /\ (KindAt(Table(p)) # "struct" => Key(p) \notin OutboundKeys)}

\* Report.structs and Report.maps: nothing is recorded below a value read without a type
Recorded(d) == {p \in DOMAIN d : KindAt(Table(p)) \in {"struct", "flatten"}}

\* unknown_keys_as: in a struct, a key that is no field; in a flattening one, a key read without a type that
\* is not OutboundCfg's
Judged(d) ==
    {p \in Recorded(d) : CASE KindAt(Table(p)) = "struct" -> Key(p) \notin DOMAIN Schema[TypeAt(Table(p))].fields
                           [] OTHER -> TypeAt(p) = "buffered" /\ Key(p) \notin OutboundKeys}

\* What a key of a struct is measured against, and one of a flattening table: the keys the file has there and
\* OutboundCfg's, for serde names no fields
Known(d, p) ==
    IF KindAt(Table(p)) = "struct" THEN DOMAIN Schema[TypeAt(Table(p))].fields
    ELSE {k \in Siblings(d, p) : TypeAt(Append(Table(p), k)) # "buffered"} \cup OutboundKeys

SearchedFor(d, p) == KindAt(Table(p)) = "flatten" /\ Closest(Key(p), Known(d, p)) = {}

----------------------------------------------------------------------------
(* The steps. *)

Parents(d, p) == \A i \in 1..(Len(p) - 1) : Upto(p, i) \in DOMAIN d /\ d[Upto(p, i)] = "table"

\* Somebody (external) writes a value into the file.
WriteKey(p, v) ==
    /\ stage = "editing" /\ p \notin DOMAIN doc /\ Cardinality(DOMAIN doc) < MaxKeys /\ Parents(doc, p)
    /\ doc' = [q \in DOMAIN doc \cup {p} |-> IF q = p THEN v ELSE doc[q]]
    /\ UNCHANGED <<found, todo, searches, replays, stage>>

\* unknown_keys_as, up to the searches; what a file that does not parse says is the parser's to report.
CheckFile ==
    /\ stage = "editing" /\ Parses(doc)
    /\ stage' = "searching" /\ searches' = Searches /\ replays' = Replays
    /\ todo' = {p \in Judged(doc) : SearchedFor(doc, p)}
    /\ \E meant \in [Judged(doc) \ todo' -> UNION {Closest(Key(p), Known(doc, p)) : p \in Judged(doc)} \cup {<<>>}] :
         /\ \A p \in DOMAIN meant : LET near == Closest(Key(p), Known(doc, p)) IN IF near = {} THEN meant[p] = <<>> ELSE meant[p] \in near
         /\ found' = {[at |-> p, meant |-> meant[p]] : p \in DOMAIN meant}
    /\ UNCHANGED doc

Report(p, meant, reads) ==
    /\ todo' = todo \ {p} /\ found' = found \cup {[at |-> p, meant |-> meant]}
    /\ replays' = IF replays > reads THEN replays - reads ELSE 0

\* The neighbours of a key that its table reads with their type
Typed(p) == {c \in Edits1(Key(p)) \ Siblings(doc, p) : c \in DOMAIN Schema[TypeAt(Table(p))].fields}
Fits(p, c) == LET kind == Schema[Schema[TypeAt(Table(p))].fields[c]].kind IN doc[p] = (IF IsTable(kind) THEN "table" ELSE kind)

\* known_neighbour: one read with every edit in place and, if one of them takes another type than the value,
\* a read of each alone, the n-th of which is the first to succeed
Search(p) ==
    LET good == {c \in Typed(p) : Fits(p, c)}
        reads == Cardinality(Edits1(Key(p)) \ Siblings(doc, p))
    IN /\ stage = "searching" /\ p \in todo
       /\ IF searches = 0 \/ replays = 0 THEN Report(p, <<>>, 0)
          ELSE IF good = Typed(p) THEN \E c \in IF good = {} THEN {<<>>} ELSE good : Report(p, c, 1)
          ELSE IF good = {} THEN Report(p, <<>>, 1 + reads)
          ELSE \E c \in good, n \in 1..reads : Report(p, IF 1 + n <= replays THEN c ELSE <<>>, 1 + n)
       /\ searches' = IF searches = 0 THEN 0 ELSE searches - 1
       /\ UNCHANGED <<doc, stage>>

SayUnknown == /\ stage = "searching" /\ todo = {} /\ stage' = "checked"
              /\ UNCHANGED <<doc, found, todo, searches, replays>>

KeysInit == doc = <<>> /\ found = {} /\ todo = {} /\ searches = 0 /\ replays = 0 /\ stage = "editing"
KeysNext == \/ \E p \in DOMAIN Edits : WriteKey(p, Edits[p])
            \/ CheckFile \/ SayUnknown
            \/ \E p \in todo : Search(p)

----------------------------------------------------------------------------
(* Properties. *)

\* The settings that reach the configuration.
Meaning(d) ==
    {<<p, d[p]>> : p \in {p \in DOMAIN d : TypeAt(p) # "skipped" /\ (TypeAt(p) = "buffered" => KindAt(Table(p)) = "flatten" /\ Key(p) \in OutboundKeys)}}
Without(d, p) == [q \in {q \in DOMAIN d : Len(q) < Len(p) \/ Upto(q, Len(p)) # p} |-> d[q]]
Idles(d, p) == Meaning(Without(d, p)) = Meaning(d)

\* A key is reported exactly when the file would mean the same without it and without what is under it; what
\* is under a key that is reported is not reported again, and a user's own keys never are.
ReportedIffIgnored ==
    stage = "checked" => {f.at : f \in found} = {p \in DOMAIN doc : Idles(doc, p) /\ (Len(p) > 1 => ~Idles(doc, Table(p)))}

\* What is suggested is a key that the table has and the file, by that name, would set; of a struct's fields
\* none is nearer; and with reads to spare, a key that is one slip from the one meant gets a suggestion.
SuggestionIsMeant ==
    stage = "checked" => \A f \in found :
        LET t == Schema[TypeAt(Table(f.at))]
            has == DOMAIN t.fields \cup (IF t.kind = "flatten" THEN OutboundKeys ELSE {})
            slips == {k \in has : Distance(Key(f.at), k) = 1}
        IN /\ f.meant # <<>> => f.meant \in has
           /\ f.meant # <<>> /\ t.kind = "struct" => \A k \in has : Distance(Key(f.at), f.meant) <= Distance(Key(f.at), k)
           /\ slips # {} /\ t.kind = "struct" => f.meant # <<>>
           /\ f.meant = <<>> /\ searches > 0 /\ replays > 0 => \A k \in slips \cap DOMAIN t.fields : k \notin Siblings(doc, f.at) => ~Fits(f.at, k)

\* The edits tried for a key are the keys at distance one.
EditsAreNeighbours ==
    stage = "checked" => \A f \in {f \in found : SearchedFor(doc, f.at) /\ \A i \in DOMAIN Key(f.at) : Key(f.at)[i] \in Alphabet} :
        LET key == Key(f.at)
        IN Edits1(key) = {s \in UNION {[1..n -> Alphabet] : n \in {Len(key) - 1, Len(key), Len(key) + 1} \ {0}} : Distance(key, s) = 1}

\* A key is reported exactly when it is ignored, with a suggestion that would help.
IgnoredKeysTold == ReportedIffIgnored /\ SuggestionIsMeant /\ EditsAreNeighbours
=============================================================================
