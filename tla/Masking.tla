------------------------------ MODULE Masking ------------------------------
(***************************************************************************)
(* What data loss prevention does to a text once its detectors have found  *)
(* something (src/dlp.rs): the findings merged, the text redacted or       *)
(* masked reversibly, and the provider's answer unmasked, whole or as the  *)
(* frames of a stream arrive.                                              *)
(*                                                                         *)
(* A text is a sequence of characters.  The placeholder's prefix           *)
(* "<edgeguard-" is the two characters of Prefix, its category and number  *)
(* one digit; "u1" and "u2" are the two bytes of one character.  What the  *)
(* regular expressions and the model detect is external: any detections.   *)
(***************************************************************************)
EXTENDS Integers, Sequences, FiniteSets

CONSTANTS Texts,        \* the requests' texts
          Detections,   \* what the detectors may report of each text, in their order
          Replies,      \* what a provider may answer to each, besides repeating what it was sent
          Keep,         \* the characters the mask style keeps (4 in the code)
          MaxPlaceholder, \* MAX_PLACEHOLDER_BYTES
          FrameSizes    \* the frames an answer may come in

ASSUME MaskAssumption == Keep \in Nat /\ MaxPlaceholder \in Nat /\ FrameSizes \subseteq Nat \ {0}

VARIABLES mask   \* one exchange

Prefix == <<"<", "e">>
Suffix == ">"
Digits == <<"0", "1", "2", "3">>

----------------------------------------------------------------------------
(* Findings. *)

Overlaps(f, g) == f.start < g.end /\ g.start < f.end

\* What scan_inner pushes of what the detectors report: a card number that passes its checksum, a
\* token of high entropy that no other finding touches, an entity of a known kind, sure enough and
\* inside the text, on the buffered path only.
Raw(text, found, run_ner) ==
    LET before(i) == {j \in 1..(i - 1) : found[j].family # "entropy"}
        pushed(i) ==
            LET f == found[i]
            IN CASE f.family = "signature" -> f.valid
                 [] f.family = "entropy" -> \A j \in before(i) : found[j].valid => ~Overlaps(found[j], f)
                 [] OTHER -> run_ner /\ f.valid /\ f.start < f.end /\ f.end <= Len(text)
        kept == {i \in DOMAIN found : pushed(i)}
    IN [k \in 1..Cardinality(kept) |-> found[CHOOSE i \in kept : Cardinality({j \in kept : j < i}) = k - 1]]

\* A stable sort by start, then end.
Sorted(fs) ==
    LET below(i, j) == \/ fs[i].start < fs[j].start
                       \/ fs[i].start = fs[j].start /\ fs[i].end < fs[j].end
                       \/ fs[i].start = fs[j].start /\ fs[i].end = fs[j].end /\ i < j
    IN [k \in DOMAIN fs |-> fs[CHOOSE i \in DOMAIN fs : Cardinality({j \in DOMAIN fs : below(j, i)}) = k - 1]]

Span(f) == [start |-> f.start, end |-> f.end, category |-> f.category, score |-> f.score]

\* Two findings that touch become one, named as the surer of them.
Join(a, f) ==
    [a EXCEPT !.end = IF f.end > @ THEN f.end ELSE @,
              !.category = IF f.score > a.score THEN f.category ELSE @,
              !.score = IF f.score > a.score THEN f.score ELSE @]

\* merge_findings
Merged(fs) ==
    LET sorted == Sorted(fs)
        upto[n \in 0..Len(fs)] ==
            IF n = 0 THEN <<>>
            ELSE LET m == upto[n - 1] f == Span(sorted[n])
                 IN IF m # <<>> /\ f.start <= m[Len(m)].end THEN [m EXCEPT ![Len(m)] = Join(@, f)]
                    ELSE Append(m, f)
    IN upto[Len(fs)]

----------------------------------------------------------------------------
(* Redaction. *)

Cut(s, from, to) == SubSeq(s, from + 1, to)   \* as [from, to) of the code

\* render_redaction and mask_keep_last4
Render(style, matched) ==
    IF style # "mask" THEN <<"[R]">>
    ELSE [i \in DOMAIN matched |-> IF Len(matched) > Keep /\ i > Len(matched) - Keep THEN matched[i] ELSE "*"]

\* redact: the text with each finding's span replaced
Redact(style, text, fs) ==
    LET upto[n \in 0..Len(fs)] ==
            IF n = 0 THEN <<>>
            ELSE upto[n - 1] \o Cut(text, IF n = 1 THEN 0 ELSE fs[n - 1].end, fs[n].start)
                             \o Render(style, Cut(text, fs[n].start, fs[n].end))
    IN upto[Len(fs)] \o Cut(text, IF fs = <<>> THEN 0 ELSE fs[Len(fs)].end, Len(text))

\* MaskMap: the values masked, each at the number of its placeholder
NumberOf(map, v) == CHOOSE n \in DOMAIN map : map[n] = v
Masks(map, v) == \E n \in DOMAIN map : map[n] = v
Placeholder(n) == Prefix \o <<Digits[n], Suffix>>

\* placeholder_for: minted once per value
Minted(map, v) == IF Masks(map, v) THEN map ELSE Append(map, v)

\* redact_reversible: the masked text and the map
RedactReversible(text, fs) ==
    LET upto[n \in 0..Len(fs)] ==
            IF n = 0 THEN [out |-> <<>>, map |-> <<>>]
            ELSE LET before == upto[n - 1]
                     v == Cut(text, fs[n].start, fs[n].end)
                     map == Minted(before.map, v)
                 IN [out |-> before.out \o Cut(text, IF n = 1 THEN 0 ELSE fs[n - 1].end, fs[n].start)
                                        \o Placeholder(NumberOf(map, v)),
                     map |-> map]
        all == upto[Len(fs)]
    IN [all EXCEPT !.out = @ \o Cut(text, IF fs = <<>> THEN 0 ELSE fs[Len(fs)].end, Len(text))]

----------------------------------------------------------------------------
(* Unmasking. *)

PrefixAt(s, i) == i + 1 <= Len(s) /\ <<s[i], s[i + 1]>> = Prefix
Closes(s, i) == {j \in i..Len(s) : s[j] = Suffix}
Lowest(S) == CHOOSE x \in S : \A y \in S : x <= y
Highest(S) == CHOOSE x \in S : \A y \in S : x >= y

\* unmask: one pass from the left; an original is not looked at again
Unmask(map, s) ==
    LET original(token) == {n \in DOMAIN map : Placeholder(n) = token}
        from[i \in 1..(Len(s) + 1)] ==
            IF i > Len(s) THEN <<>>
            ELSE IF ~PrefixAt(s, i) THEN <<s[i]>> \o from[i + 1]
            ELSE IF Closes(s, i) = {} THEN SubSeq(s, i, Len(s))
            ELSE LET end == Lowest(Closes(s, i))
                     token == SubSeq(s, i, end)
                 IN (IF original(token) = {} THEN token ELSE map[Lowest(original(token))]) \o from[end + 1]
    IN IF map = <<>> THEN s ELSE from[1]

\* Mutant: only a whole prefix is held back.
HoldWhole(s) ==
    LET opens == {i \in DOMAIN s : PrefixAt(s, i)}
    IN IF opens # {} /\ Closes(s, Highest(opens)) = {} THEN Highest(opens) - 1 ELSE Len(s)

\* incomplete_tail: how much of the text may leave, the rest being the start of a placeholder
Hold(s) ==
    LET opens == {i \in DOMAIN s : PrefixAt(s, i)}
        last == Highest(opens)
    IN IF opens # {} /\ Closes(s, last) = {} /\ Len(s) - (last - 1) <= MaxPlaceholder THEN last - 1
       ELSE IF s # <<>> /\ s[Len(s)] = Prefix[1] THEN Len(s) - 1 ELSE Len(s)

\* Half a character, which from_utf8 stops at and from_utf8_lossy replaces.
Broken(s) == {i \in DOMAIN s : \/ s[i] = "u1" /\ (i = Len(s) \/ s[i + 1] # "u2")
                               \/ s[i] = "u2" /\ (i = 1 \/ s[i - 1] # "u1")}

ValidUpTo(s) == IF Broken(s) = {} THEN Len(s) ELSE Lowest(Broken(s)) - 1
Lossy(s) == [i \in DOMAIN s |-> IF i \in Broken(s) THEN "?" ELSE s[i]]

\* unmask_stream
UnmaskFrame(m, data) ==
    LET buf == m.carry \o data
        hold == Hold(SubSeq(buf, 1, ValidUpTo(buf)))
    IN IF m.map = <<>> THEN [m EXCEPT !.out = @ \o buf, !.carry = <<>>]
       ELSE [m EXCEPT !.out = @ \o Unmask(m.map, SubSeq(buf, 1, hold)), !.carry = SubSeq(buf, hold + 1, Len(buf))]

----------------------------------------------------------------------------
(* One exchange. *)

NoReply == [pc |-> "new", found |-> <<>>, text |-> <<>>, style |-> "full", sent |-> <<>>, map |-> <<>>,
            reply |-> <<>>, rest |-> <<>>, carry |-> <<>>, out |-> <<>>]

MaskInit == \E text \in Texts, style \in {"full", "mask", "reversible"} :
                \E found \in Detections[text] :
                    mask = [NoReply EXCEPT !.text = text, !.found = found, !.style = style]

\* The request is scanned and rewritten.
Rewrite ==
    /\ mask.pc = "new"
    /\ LET fs == Merged(Raw(mask.text, mask.found, TRUE))
       IN mask' = IF mask.style = "reversible"
                  THEN LET r == RedactReversible(mask.text, fs)
                       IN [mask EXCEPT !.pc = "sent", !.sent = r.out, !.map = r.map]
                  ELSE [mask EXCEPT !.pc = "sent", !.sent = Redact(mask.style, mask.text, fs)]

\* The provider answers with what it was sent, or with something else.
Answer ==
    /\ mask.pc = "sent" /\ mask.style = "reversible"
    /\ \E reply \in Replies[mask.text] \cup {mask.sent} : mask' = [mask EXCEPT !.pc = "reading", !.reply = reply, !.rest = reply]

Frame(n) ==
    /\ mask.pc = "reading" /\ n <= Len(mask.rest)
    /\ mask' = [UnmaskFrame(mask, SubSeq(mask.rest, 1, n)) EXCEPT !.rest = SubSeq(@, n + 1, Len(@))]

\* flush_unmask
FlushUnmask ==
    /\ mask.pc = "reading" /\ mask.rest = <<>>
    /\ mask' = [mask EXCEPT !.pc = "done", !.out = @ \o Unmask(mask.map, Lossy(mask.carry)), !.carry = <<>>]

MaskNext == Rewrite \/ Answer \/ FlushUnmask \/ \E n \in FrameSizes : Frame(n)

----------------------------------------------------------------------------
(* Properties. *)

Covered(fs) == UNION {(fs[i].start + 1)..fs[i].end : i \in DOMAIN fs}

\* Whatever overlaps, touches or lies inside another, exactly the characters of the findings are taken
\* out, and each stretch of them is one finding that carries the category of its surest.
FoundIsCovered ==
    LET raw == Raw(mask.text, mask.found, TRUE) fs == Merged(raw)
    IN mask.pc = "new" =>
        /\ Covered(fs) = Covered(raw)
        /\ \A i \in 1..(Len(fs) - 1) : fs[i].end < fs[i + 1].start
        /\ \A i \in DOMAIN fs : \E j \in DOMAIN raw :
             /\ raw[j].category = fs[i].category /\ raw[j].score = fs[i].score
             /\ fs[i].start <= raw[j].start /\ raw[j].end <= fs[i].end
             /\ \A k \in DOMAIN raw : fs[i].start <= raw[k].start /\ raw[k].end <= fs[i].end => raw[k].score <= raw[j].score

Characters(s) == {s[i] : i \in DOMAIN s}

\* No more of a finding leaves than its style allows: nothing, or its last characters.  Every other
\* character leaves as it was.  (The characters of a text that is redacted are told apart.)
NothingFoundLeaves ==
    mask.pc # "new" =>
        LET fs == Merged(Raw(mask.text, mask.found, TRUE))
            shown(i) == IF mask.style # "mask" \/ fs[i].end - fs[i].start <= Keep THEN {}
                        ELSE (fs[i].end - Keep + 1)..fs[i].end
            hidden == Covered(fs) \ UNION {shown(i) : i \in DOMAIN fs}
            kept == SelectSeq(mask.sent, LAMBDA x : x \in Characters(mask.text))
            due == {i \in DOMAIN mask.text : i \notin hidden}
        IN Cardinality(Characters(mask.text)) = Len(mask.text) =>
               kept = [k \in 1..Cardinality(due) |->
                          mask.text[CHOOSE i \in due : Cardinality({j \in due : j < i}) = k - 1]]

\* A client gets back its own words: what a provider repeats of a masked text is the text, and one
\* value has one placeholder.
MaskIsUndone ==
    mask.pc = "done" => /\ mask.reply = mask.sent => mask.out = mask.text
                        /\ \A i, j \in DOMAIN mask.map : mask.map[i] = mask.map[j] => i = j

\* A placeholder begun inside another that never closed is found or not as the frames fall.
Nested(s) == \E i, j \in DOMAIN s : i < j /\ PrefixAt(s, i) /\ PrefixAt(s, j)
                                    /\ (Closes(s, i) = {} \/ j < Lowest(Closes(s, i)))

\* However the provider's frames cut an answer, in the middle of a placeholder, of its prefix or of a
\* character, the client reads what it would have read of the whole.
StreamedAsWhole ==
    mask.pc = "done" /\ ~Nested(mask.reply) => mask.out = IF mask.map = <<>> THEN mask.reply ELSE Unmask(mask.map, Lossy(mask.reply))

\* Masking hides exactly what was found, and undoes itself for the client, in frames as in whole.
MaskingKept == FoundIsCovered /\ NothingFoundLeaves /\ StreamedAsWhole /\ MaskIsUndone
=============================================================================
