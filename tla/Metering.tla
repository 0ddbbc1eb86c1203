------------------------------ MODULE Metering ------------------------------
(***************************************************************************)
(* The usage a provider reports, read from a whole answer or from a stream *)
(* as it passes (src/llm.rs), and its price.                               *)
(*                                                                         *)
(* A stream is a sequence of bytes, each a record: "data" the SSE field    *)
(* name, "type" and "key" (the `"usage"` key) and "obj" (its value) as one *)
(* byte each, "x" any other, "end" the brace that closes the JSON, "nl" a  *)
(* line's end.  None stands for a field the provider leaves out.           *)
(***************************************************************************)
EXTENDS Integers, Sequences, FiniteSets

CONSTANTS Usages,     \* what an exchange may really use
          Books,      \* price books
          Models,     \* the models requests ask for: <<name>> or <<provider, name>>
          Providers,  \* PROVIDER_PREFIXES
          LineHead, LineTail,  \* LINE_HEAD, LINE_TAIL
          Padding,    \* how many bytes of content a completed response repeats before its usage
          Reads,      \* the sizes of the frames a stream may come in
          PerMillion  \* 1,000,000 in the code

ASSUME MeterAssumption == /\ LineHead \in Nat /\ LineTail \in Nat \ {0} /\ PerMillion \in Nat \ {0}
                          /\ Padding \subseteq Nat /\ Reads \subseteq Nat \ {0}

VARIABLES meter   \* one exchange

None == -1
Some(v, d) == IF v = None THEN d ELSE v
OrElse(v, w) == IF v = None THEN w ELSE v
AtMost(a, b) == IF a <= b THEN a ELSE b

----------------------------------------------------------------------------
(* The wire. *)

NoWire == [prompt |-> None, completion |-> None, prompt_cached |-> None, completion_reasoning |-> None,
           input |-> None, output |-> None, input_cached |-> None, output_reasoning |-> None,
           cache_read |-> None, cache_creation |-> None]

\* Mutant: the first value seen of a field stays.
MergedFirst(w, later) == [f \in DOMAIN w |-> OrElse(w[f], later[f])]

\* UsageWire::merged
MergedWire(w, later) == [f \in DOMAIN w |-> OrElse(later[f], w[f])]

\* Usage::from
Flat(w) ==
    LET chat == w.prompt # None \/ w.completion # None
        read == Some(w.cache_read, 0)
        p == IF chat THEN Some(w.prompt, 0) ELSE Some(w.input, 0) + read + Some(w.cache_creation, 0)
        c == IF chat THEN Some(w.completion, 0) ELSE Some(w.output, 0)
        cached == IF chat THEN Some(w.prompt_cached, 0) ELSE Some(w.input_cached, read)
        r == IF chat THEN Some(w.completion_reasoning, 0) ELSE Some(w.output_reasoning, 0)
    IN [prompt |-> p, completion |-> c, cached |-> AtMost(cached, p), reasoning |-> AtMost(r, c)]

NoUsage == [prompt |-> 0, completion |-> 0, cached |-> 0, reasoning |-> 0]
Empty(u) == u.prompt = 0 /\ u.completion = 0

----------------------------------------------------------------------------
(* Providers (external): how each of the three APIs reports a usage.  u.fresh are the input tokens that
   are neither read from nor written to a cache. *)

Prompt(u) == u.fresh + u.read + u.write

ChatWire(u) == [NoWire EXCEPT !.prompt = Prompt(u), !.completion = u.out, !.prompt_cached = u.read,
                              !.completion_reasoning = u.thought]
ResponsesWire(u) == [NoWire EXCEPT !.input = Prompt(u), !.output = u.out, !.input_cached = u.read,
                                   !.output_reasoning = u.thought]
StartWire(u) == [NoWire EXCEPT !.input = u.fresh, !.cache_read = u.read, !.cache_creation = u.write, !.output = 1]
DeltaWire(u) == [NoWire EXCEPT !.output = u.out]

Byte(t) == [t |-> t, kind |-> "", w |-> NoWire]
Fill(n) == [i \in 1..n |-> Byte("x")]
Line(kind, pad, w) == <<Byte("data"), [Byte("type") EXCEPT !.kind = kind]>> \o Fill(pad)
                        \o (IF w = NoWire THEN <<>> ELSE <<Byte("key"), [Byte("obj") EXCEPT !.w = w]>>)
                        \o <<Byte("end"), Byte("nl")>>

\* Chat frames carry a null `usage` until the last.
StreamOf(api, u, pad) ==
    CASE api = "chat" -> Line("", 1, NoWire) \o Line("", 0, ChatWire(u))
      [] api = "responses" -> Line("response.delta", 1, NoWire) \o Line("response.completed", pad, ResponsesWire(u))
      [] api = "messages" -> Line("message_start", 0, StartWire(u)) \o Line("content", 1, NoWire)
                               \o Line("message_delta", 0, [DeltaWire(u) EXCEPT !.output = 1])
                               \o Line("message_delta", 0, DeltaWire(u))
WireOf(api, u) == CASE api = "chat" -> ChatWire(u) [] api = "responses" -> ResponsesWire(u)
                    [] api = "messages" -> MergedWire(StartWire(u), DeltaWire(u))

\* What was really used; Anthropic does not tell reasoning apart.
Used(api, u) == [prompt |-> Prompt(u), completion |-> u.out, cached |-> u.read,
                 reasoning |-> IF api = "messages" THEN 0 ELSE u.thought]

----------------------------------------------------------------------------
(* StreamUsage. *)

NewStream == [line |-> <<>>, cut |-> FALSE, seen |-> FALSE, totals |-> NoUsage, anthropic |-> NoWire]

Front(s, n) == SubSeq(s, 1, n)
Back(s, n) == SubSeq(s, Len(s) - n + 1, Len(s))

\* push: a long line keeps its start and its last bytes
Push(su, bytes) ==
    LET line == su.line \o bytes
    IN IF Len(line) > LineHead + LineTail
       THEN [su EXCEPT !.line = Front(line, LineHead) \o Back(line, LineTail), !.cut = TRUE]
       ELSE [su EXCEPT !.line = line]

At(line, t) == {i \in DOMAIN line : line[i].t = t}
Total(su, u) == IF Empty(u) THEN su ELSE [su EXCEPT !.totals = u, !.seen = TRUE]

\* last_usage_object, of what is left of the line
LastUsage(line) ==
    LET key == CHOOSE i \in At(line, "key") : \A j \in At(line, "key") : j <= i
    IN IF key + 1 \in At(line, "obj") THEN Flat(line[key + 1].w) ELSE NoUsage

\* line_done: a whole line is read as its event, a cut or broken one for its last usage
LineDone(su) ==
    LET line == su.line
        next == [su EXCEPT !.line = <<>>, !.cut = FALSE]
        whole == ~su.cut /\ line # <<>> /\ line[Len(line)].t = "end"
        kind == line[CHOOSE i \in At(line, "type") : TRUE].kind
        w == line[CHOOSE i \in At(line, "obj") : TRUE].w
    IN IF line = <<>> \/ line[1].t # "data" \/ At(line, "key") = {} THEN next
       ELSE IF ~whole THEN Total(next, LastUsage(line))
       ELSE IF kind \in {"message_start", "message_delta"} THEN [next EXCEPT !.anthropic = MergedWire(@, w)]
       ELSE Total(next, Flat(w))

\* feed: a push for each stretch between line ends
FeedAll(su, bytes) ==
    LET ends == At(bytes, "nl")
        nth(k) == IF k = 0 THEN 0 ELSE CHOOSE i \in ends : Cardinality({j \in ends : j <= i}) = k
        after[k \in 0..Cardinality(ends)] ==
            IF k = 0 THEN su ELSE LineDone(Push(after[k - 1], SubSeq(bytes, nth(k - 1) + 1, nth(k) - 1)))
    IN Push(after[Cardinality(ends)], SubSeq(bytes, nth(Cardinality(ends)) + 1, Len(bytes)))

\* finish
Finish(su) == LET end == LineDone(su) IN IF end.seen THEN end.totals ELSE Flat(end.anthropic)

----------------------------------------------------------------------------
(* Prices. *)

\* strip_provider_prefix and canonical_model
CanonicalModel(m) == IF Len(m) = 2 /\ m[1] \in Providers THEN Tail(m) ELSE m

\* resolve_rate: the rate, or none
Rate(book, m) == IF m \in DOMAIN book THEN <<book[m]>>
                 ELSE IF CanonicalModel(m) \in DOMAIN book THEN <<book[CanonicalModel(m)]>> ELSE <<>>

\* LlmRuntime::build: cached and reasoning tokens inherit the base rate where the book sets none
CachedRate(r) == IF r.cached > 0 THEN r.cached ELSE r.input
ReasoningRate(r) == IF r.reasoning > 0 THEN r.reasoning ELSE r.output

\* cost_micros
Cost(r, u) == ((u.prompt - u.cached) * r.input + u.cached * CachedRate(r)
                 + (u.completion - u.reasoning) * r.output + u.reasoning * ReasoningRate(r)) \div PerMillion

\* reject_unpriced under `block`
RejectUnpriced(book, m) == DOMAIN book # {} /\ Rate(book, m) = <<>>

----------------------------------------------------------------------------
(* One exchange. *)

MeterInit == \E api \in {"chat", "responses", "messages"}, u \in Usages, pad \in Padding, book \in Books, m \in Models :
    /\ pad > 0 => api = "responses"
    /\ meter = [pc |-> "asked", api |-> api, used |-> u, pad |-> pad, book |-> book, model |-> m, rest |-> <<>>,
                stream |-> NewStream, usage |-> NoUsage, cost |-> None, whole |-> FALSE]

Settled(usage, whole) ==
    LET rate == Rate(meter.book, meter.model)
    IN [meter EXCEPT !.pc = "metered", !.usage = usage, !.whole = whole, !.stream = NewStream, !.rest = <<>>,
                     !.cost = IF rate = <<>> THEN None ELSE Cost(rate[1], usage)]

\* An unpriced model is refused, or the answer is read whole (parse_response_usage) or as a stream.
Refuse == meter.pc = "asked" /\ RejectUnpriced(meter.book, meter.model) /\ meter' = [meter EXCEPT !.pc = "refused"]
Buffered == meter.pc = "asked" /\ meter' = Settled(Flat(WireOf(meter.api, meter.used)), TRUE)
Stream == meter.pc = "asked"
          /\ meter' = [meter EXCEPT !.pc = "streaming", !.rest = StreamOf(meter.api, meter.used, meter.pad)]

FeedFrame(n) ==
    /\ meter.pc = "streaming" /\ n <= Len(meter.rest)
    /\ meter' = [meter EXCEPT !.stream = FeedAll(@, Front(meter.rest, n)), !.rest = SubSeq(@, n + 1, Len(@))]

\* The stream ends, or the client goes away in the middle of it.
StreamEnds == meter.pc = "streaming" /\ meter' = Settled(Finish(meter.stream), meter.rest = <<>>)

MeterNext == Refuse \/ Buffered \/ Stream \/ StreamEnds \/ \E n \in Reads : FeedFrame(n)

----------------------------------------------------------------------------
(* Properties. *)

\* What is metered is what was used, whichever API reported it, read whole or as a stream, however the
\* stream was cut into frames and however long its last line was.
MeteredAsUsed == meter.pc = "metered" /\ meter.whole => meter.usage = Used(meter.api, meter.used)

\* A client that leaves early is metered for no more than was used.
NeverOverMetered ==
    meter.pc = "metered" => LET used == Used(meter.api, meter.used)
                            IN \A d \in DOMAIN used : meter.usage[d] <= used[d]

\* Every token is billed once: with one rate for all of them the cost is the total's, and a model is
\* priced as its canonical name is, so that budgets and prices agree on what a model is.
BilledOnce ==
    LET rate == Rate(meter.book, meter.model)
        uniform(r) == r.cached \in {0, r.input} /\ r.reasoning \in {0, r.output} /\ r.input = r.output
    IN meter.pc = "metered" =>
        /\ (rate # <<>> /\ uniform(rate[1])) =>
               meter.cost = ((meter.usage.prompt + meter.usage.completion) * rate[1].input) \div PerMillion
        /\ meter.model \notin DOMAIN meter.book => rate = Rate(meter.book, CanonicalModel(meter.model))

\* Tokens are metered as they were used, and billed once, in frames as in whole.
MeteringKept == MeteredAsUsed /\ NeverOverMetered /\ BilledOnce
=============================================================================
