------------------------------ MODULE Pipeline ------------------------------
(***************************************************************************)
(* One request through the edge (`handle` and `handle_inner`,              *)
(* src/proxy.rs): the gates, the body buffered, streamed, or streamed      *)
(* behind an inspected window, WAF and DLP, the key vault, the budget      *)
(* reservation, the upstream, and the answer buffered or streamed back,    *)
(* with what is metered, settled and logged on every way out.              *)
(*                                                                         *)
(* Bodies.  A request body is frames 1..len, of which the first is the     *)
(* inspection window; frame 0 is the path and headers.  `hit` is the set   *)
(* of frames that something worth finding spans, and `by` who would find   *)
(* it; it is no longer than the bytes carried from frame to frame, so it   *)
(* spans two frames at most.  An answer is frames 1..Frames; what is found *)
(* in it spans two of them at most, and is what the scan of a stream finds *)
(* too (no NER).                                                           *)
(*                                                                         *)
(* Atomicity.  The request's task is split where it awaits, and between    *)
(* its stages; the upload of a streamed body runs beside it.  A client     *)
(* that goes away drops the task at an await.                              *)
(***************************************************************************)
EXTENDS Integers, Sequences, FiniteSets

CONSTANTS Exchanges,  \* the requests, each with the configuration it meets
          Frames      \* how many frames an answer comes in

PolicyType ==
    [stream_requests : BOOLEAN, inspect : BOOLEAN,     \* validation.stream_requests, .stream_inspect
     stream_responses : BOOLEAN, passthrough : BOOLEAN, \* .stream_responses, .stream_passthrough
     waf : {"off", "report", "block"}, waf_body : BOOLEAN,
     dlp : {"off", "report", "redact", "block"}, scan_request : BOOLEAN,
     scan_response : BOOLEAN, stream_redact : BOOLEAN, reversible : BOOLEAN,
     metering : BOOLEAN, vault : BOOLEAN, budgets : BOOLEAN]

\* `big`: over max_body, which only a `declared` length tells at once.
ClientType ==
    [upgrade : BOOLEAN, model : BOOLEAN, len : Nat \ {0}, big : BOOLEAN, declared : BOOLEAN,
     hit : SUBSET Nat, by : {"waf", "dlp"}]

ASSUME PipelineAssumption ==
    /\ Frames \in Nat \ {0}
    /\ Exchanges \subseteq [policy : PolicyType, client : ClientType]
    /\ \A x \in Exchanges : /\ x.policy.reversible => x.policy.dlp = "redact"
                            /\ x.client.hit \subseteq 0..x.client.len
                            /\ \A f, g \in x.client.hit : f <= g + 1
                            /\ 0 \in x.client.hit => x.client.hit = {0} /\ x.client.by = "waf"

VARIABLES cfg,   \* the runtime the request loaded
          req,   \* the request
          pc,    \* where its task is
          gate,  \* the gate it is at
          body,  \* how its body is read: none yet, buffered, streamed or windowed
          up,    \* what goes to the upstream (see Upload)
          found, \* how many findings were counted in the request
          hold,  \* the budget reservation
          down,  \* what comes back (see Download)
          log    \* what is recorded of the request (see Record)
vars == <<cfg, req, pc, gate, body, up, found, hold, down, log>>

\* The credential and the form of the body that are sent, the frames that reached the upstream, the
\* next frame of a streamed body, and whether its upload was stopped; `reported`: a WAF hit is known.
Upload == [key |-> "client", form |-> "raw", sent |-> FALSE, delivered |-> {}, next |-> 1,
           stopped |-> "no", reported |-> FALSE]

\* The upstream's answer, the frames of it that came, those held back, those the client has as the
\* upstream sent them, and whether its usage was read.
NoAnswer == [sse |-> FALSE, hit |-> {}, usage |-> 0]
Download == [answer |-> NoAnswer, came |-> 0, carry |-> {}, raw |-> {}, metered |-> FALSE,
             given |-> FALSE]

\* Requests counted, exchanges whose bytes were counted, an access line waiting, lines written.
Record == [counted |-> 0, bytes |-> 0, pending |-> FALSE, lines |-> 0]

\* `usage`: the frame that reports it, or 0.
AnswerFrames == 1..Frames
Answers == [sse : BOOLEAN, hit : {h \in SUBSET AnswerFrames : \A f, g \in h : f <= g + 1},
            usage : 0..Frames]

Gates == <<"internal", "host", "no_policy", "access", "header_size", "quota",
           "ip_limit", "preflight", "auth", "key_limit", "method">>

Init == /\ \E x \in Exchanges : cfg = x.policy /\ req = x.client
        /\ pc = "gates" /\ gate = 1 /\ body = "none"
        /\ up = Upload /\ found = 0 /\ hold = "none"
        /\ down = Download /\ log = Record

----------------------------------------------------------------------------
(***************************************************************************)
(* What the code derives from the configuration.                           *)
(***************************************************************************)
ReadsLlm     == cfg.metering \/ cfg.vault \/ cfg.budgets
Model        == req.model /\ ReadsLlm
WafReadsBody == cfg.waf # "off" /\ cfg.waf_body
ScansRequest == cfg.dlp # "off" /\ cfg.scan_request
ScansAnswer  == cfg.dlp # "off" /\ cfg.scan_response

StreamsRequest == cfg.stream_requests /\ ~WafReadsBody /\ ~ScansRequest /\ ~ReadsLlm

\* Mutant: a body that DLP rewrites streams behind the window too.
InspectsWindowMutant == /\ cfg.stream_requests /\ cfg.inspect
                        /\ WafReadsBody \/ ScansRequest
                        /\ ~ReadsLlm

InspectsWindow == /\ cfg.stream_requests /\ cfg.inspect
                  /\ WafReadsBody \/ ScansRequest
                  /\ ~(ScansRequest /\ cfg.dlp = "redact") /\ ~ReadsLlm

StreamsAnyResponse ==
    cfg.stream_responses /\ ~Model /\ ~cfg.reversible /\ ~ScansAnswer

SseStream(answer) ==
    cfg.passthrough /\ answer.sse /\ ~(ScansAnswer /\ cfg.dlp = "block")

RedactsStream ==
    ScansAnswer /\ cfg.dlp = "redact" /\ cfg.stream_redact /\ ~cfg.reversible

(***************************************************************************)
(* Leaving.  `finish` counts the request; `handle` writes its access line, *)
(* or leaves it to a streamed body.  Dropping the guard releases what is   *)
(* still held.                                                             *)
(***************************************************************************)
Finished(streamed) ==
    [log EXCEPT !.counted = @ + 1, !.pending = streamed,
                !.lines = IF streamed THEN @ ELSE @ + 1]

DropGuard == IF hold = "held" THEN "released" ELSE hold

\* The edge's own answer.
Reply == /\ pc' = "over"
         /\ log' = Finished(FALSE)
         /\ hold' = DropGuard
         /\ UNCHANGED <<cfg, req, gate, body, down>>

Goto(next) == pc' = next

----------------------------------------------------------------------------
(***************************************************************************)
(* The gates.                                                              *)
(***************************************************************************)
\* The next request, again one like it: it loads the runtime and starts with a context of its own.
Accept == /\ pc \in {"over", "gone"}
          /\ Goto("gates") /\ gate' = 1 /\ body' = "none"
          /\ up' = Upload /\ found' = 0 /\ hold' = "none"
          /\ down' = Download /\ log' = Record
          /\ UNCHANGED <<cfg, req>>

\* The gate refuses the request, or answers it itself (a preflight).
Refuse == /\ pc = "gates"
          /\ Reply
          /\ UNCHANGED <<up, found>>

Pass == /\ pc = "gates"
        /\ IF gate < Len(Gates)
           THEN gate' = gate + 1 /\ UNCHANGED pc
           ELSE /\ Goto(IF req.upgrade THEN "upgrade" ELSE "body")
                /\ UNCHANGED gate
        /\ UNCHANGED <<cfg, req, body, up, found, hold, down, log>>

----------------------------------------------------------------------------
(***************************************************************************)
(* A WebSocket handshake: the WAF on its path and headers, the vault, then *)
(* `proxy_upgrade`.                                                        *)
(***************************************************************************)
WafHitsPath == cfg.waf # "off" /\ req.by = "waf" /\ req.hit = {0}

\* Refused by the WAF, the vault, or because no upstream request can be built.
UpgradeRefused ==
    /\ pc = "upgrade"
    /\ found' = IF WafHitsPath THEN found + 1 ELSE found
    /\ Reply
    /\ UNCHANGED up

Upgrade ==
    /\ pc = "upgrade"
    /\ ~(WafHitsPath /\ cfg.waf = "block")
    /\ found' = IF WafHitsPath THEN found + 1 ELSE found
    /\ up' = [up EXCEPT !.key = IF cfg.vault THEN "provider" ELSE @, !.sent = TRUE,
                        !.delivered = {0}, !.next = req.len + 1]
    /\ Goto("handshake")
    /\ UNCHANGED <<cfg, req, gate, body, hold, down, log>>

\* 101, after which the tunnel is no longer the request's; or an error, or the deadline.
HandshakeEnds == /\ pc \in {"handshake", "declined"}
                 /\ Reply
                 /\ UNCHANGED <<up, found>>

\* The upstream declined: its answer is read, and passed on as it is.
Decline(answer) ==
    /\ pc = "handshake"
    /\ down' = [down EXCEPT !.answer = answer]
    /\ Goto("declined")
    /\ UNCHANGED <<cfg, req, gate, body, up, found, hold, log>>

Declined == /\ pc = "declined"
            /\ down' = [down EXCEPT !.raw = AnswerFrames]
            /\ Goto("over") /\ log' = Finished(FALSE)
            /\ UNCHANGED <<cfg, req, gate, body, up, found, hold>>

----------------------------------------------------------------------------
(***************************************************************************)
(* The body.                                                               *)
(***************************************************************************)
\* A body that ends in the window was read whole.
BodyMode == IF StreamsRequest THEN "streamed"
            ELSE IF InspectsWindow /\ req.len > 1 THEN "windowed"
            ELSE "buffered"

TooLarge == req.big /\ (BodyMode = "buffered" \/ req.declared)

\* Over the cap; or the client's body breaks off while the edge reads it.
BodyRefused == /\ pc = "body"
               /\ TooLarge \/ BodyMode # "streamed"
               /\ Reply
               /\ UNCHANGED <<up, found>>

ReadBody == /\ pc = "body"
            /\ ~TooLarge
            /\ body' = BodyMode
            /\ Goto("inspect")
            /\ UNCHANGED <<cfg, req, gate, up, found, hold, down, log>>

\* The frames that the ordinary inspection sees.
Seen == CASE body = "buffered" -> 0..req.len
          [] body = "windowed" -> {0, 1}
          [] OTHER             -> {0}

WafHit == /\ cfg.waf # "off" /\ req.by = "waf"
          /\ req.hit # {} /\ req.hit \subseteq Seen
          /\ req.hit = {0} \/ WafReadsBody
DlpHit == /\ ScansRequest /\ req.by = "dlp"
          /\ req.hit # {} /\ req.hit \subseteq Seen

\* WAF or DLP blocks the request.
Block == /\ pc = "inspect"
         /\ (WafHit /\ cfg.waf = "block") \/ (DlpHit /\ cfg.dlp = "block")
         /\ found' = found + 1
         /\ Reply
         /\ UNCHANGED up

\* Nothing is found, or it is reported, or rewritten.
Inspect ==
    /\ pc = "inspect"
    /\ ~(WafHit /\ cfg.waf = "block") /\ ~(DlpHit /\ cfg.dlp = "block")
    /\ found' = IF WafHit \/ DlpHit THEN found + 1 ELSE found
    /\ up' = [up EXCEPT !.reported = WafHit,
                        !.form = IF DlpHit /\ cfg.dlp = "redact"
                                 THEN IF cfg.reversible THEN "masked" ELSE "redacted"
                                 ELSE @]
    /\ Goto("vault")
    /\ UNCHANGED <<cfg, req, gate, body, hold, down, log>>

----------------------------------------------------------------------------
(***************************************************************************)
(* The vault, the price book, the budgets.                                 *)
(***************************************************************************)
\* An unknown key, a model it may not use, a provider key that is no header value, or (with a
\* model) one the price book does not have.
VaultRefused == /\ pc = "vault"
                /\ cfg.vault \/ Model
                /\ Reply
                /\ UNCHANGED <<up, found>>

Vault == /\ pc = "vault"
         /\ up' = [up EXCEPT !.key = IF cfg.vault THEN "provider" ELSE @]
         /\ Goto(IF cfg.budgets /\ Model THEN "reserving" ELSE "build")
         /\ UNCHANGED <<cfg, req, gate, body, found, hold, down, log>>

\* Over budget, or the store failed and the engine fails closed.
Denied == /\ pc = "reserving"
          /\ Reply
          /\ UNCHANGED <<up, found>>

Reserve == /\ pc = "reserving"
           /\ hold' = "held"
           /\ Goto("build")
           /\ UNCHANGED <<cfg, req, gate, body, up, found, down, log>>

----------------------------------------------------------------------------
(***************************************************************************)
(* The upstream.                                                           *)
(***************************************************************************)
Unbuildable == /\ pc = "build"
               /\ Reply
               /\ UNCHANGED <<up, found>>

\* A buffered body goes whole; a streamed one frame by frame (UploadFrame).
Send == /\ pc = "build"
        /\ up' = [up EXCEPT !.sent = TRUE,
                            !.delivered = IF body = "buffered" THEN 0..req.len ELSE {0},
                            !.next = IF body = "buffered" THEN req.len + 1 ELSE 1]
        /\ Goto("sending")
        /\ UNCHANGED <<cfg, req, gate, body, found, hold, down, log>>

(***************************************************************************)
(* `TailInspector::check`: frame f with the end of the frame before it in  *)
(* front.  A match in the carried part alone was counted with its frame;   *)
(* the WAF reports once.                                                   *)
(***************************************************************************)
InBuffer(f) == req.hit # {} /\ req.hit \subseteq {f - 1, f} \ {0}

TailFinds(f) ==
    /\ InBuffer(f)
    /\ \/ req.by = "waf" /\ WafReadsBody /\ ~up.reported
       \/ req.by = "dlp" /\ ScansRequest /\ f \in req.hit

TailBlocks(f) ==
    TailFinds(f) /\ (IF req.by = "waf" THEN cfg.waf ELSE cfg.dlp) = "block"

\* `StreamedRequestBody::poll_frame`: the cap, then the inspection, then the frame goes up.
UploadFrame ==
    LET f     == up.next
        cut   == req.big /\ f = req.len
        finds == ~cut /\ body = "windowed" /\ f > 1 /\ TailFinds(f)
    IN  /\ up.sent /\ up.stopped = "no" /\ f <= req.len
        /\ found' = IF finds THEN found + 1 ELSE found
        /\ up' = IF cut THEN [up EXCEPT !.stopped = "cut"]
                 ELSE IF finds /\ TailBlocks(f) THEN [up EXCEPT !.stopped = "blocked"]
                 ELSE [up EXCEPT !.delivered = @ \union {f}, !.next = f + 1,
                                 !.reported = @ \/ (finds /\ req.by = "waf")]
        /\ UNCHANGED <<cfg, req, pc, gate, body, hold, down, log>>

\* No answer: unreachable, the deadline, or an upload the edge stopped itself.
Fail == /\ pc = "sending"
        /\ Reply
        /\ UNCHANGED <<up, found>>

\* Mutant: the guard keeps the reservation that the stream is to settle.
StreamedHoldMutant == IF hold = "held" THEN "released" ELSE hold

StreamedHold == IF hold = "held" THEN "stream" ELSE hold

\* The answer's headers: the body streams through, with the line and the reservation left to it...
Stream(answer) ==
    /\ pc = "sending"
    /\ SseStream(answer) \/ StreamsAnyResponse
    /\ down' = [down EXCEPT !.answer = answer, !.given = TRUE]
    /\ hold' = StreamedHold
    /\ Goto("streaming") /\ log' = Finished(TRUE)
    /\ UNCHANGED <<cfg, req, gate, body, up, found>>

\* ...or is read whole first.
Collect(answer) ==
    /\ pc = "sending"
    /\ ~SseStream(answer) /\ ~StreamsAnyResponse
    /\ down' = [down EXCEPT !.answer = answer]
    /\ Goto("collecting")
    /\ UNCHANGED <<cfg, req, gate, body, up, found, hold, log>>

----------------------------------------------------------------------------
(***************************************************************************)
(* A buffered answer.                                                      *)
(***************************************************************************)
\* Over max_response_body, broken off, or the deadline.
CollectFails == /\ pc = "collecting"
                /\ Reply
                /\ UNCHANGED <<up, found>>

\* `commit` takes the reservation out of the guard, then awaits the store.
Collected ==
    /\ pc = "collecting"
    /\ log' = [log EXCEPT !.bytes = @ + 1]
    /\ down' = [down EXCEPT !.metered = Model /\ down.answer.usage > 0]
    /\ IF hold = "held" THEN hold' = "taken" /\ Goto("committing")
                        ELSE UNCHANGED hold /\ Goto("respond")
    /\ UNCHANGED <<cfg, req, gate, body, up, found>>

Settled == IF down.metered THEN "charged" ELSE "released"

Committed == /\ pc = "committing"
             /\ hold' = Settled
             /\ Goto("respond")
             /\ UNCHANGED <<cfg, req, gate, body, up, found, down, log>>

\* What the client gets as the upstream sent it: reversible masking restores and does not scan.
Rewritten ==
    IF cfg.reversible \/ ~ScansAnswer \/ cfg.dlp = "report" THEN AnswerFrames
    ELSE IF cfg.dlp = "redact" THEN AnswerFrames \ down.answer.hit
    ELSE IF down.answer.hit = {} THEN AnswerFrames ELSE {}

Respond == /\ pc = "respond"
           /\ down' = [down EXCEPT !.raw = Rewritten, !.given = TRUE]
           /\ Goto("over") /\ log' = Finished(FALSE)
           /\ UNCHANGED <<cfg, req, gate, body, up, found, hold>>

----------------------------------------------------------------------------
(***************************************************************************)
(* A streamed answer (`CountingBody`).  When it redacts, the end of what   *)
(* came is held back, further back if a finding reaches into it.           *)
(***************************************************************************)
Redacted(frames) == IF down.answer.hit \subseteq frames THEN down.answer.hit ELSE {}

Metered(frames) == down.metered \/ (Model /\ down.answer.usage \in frames)

\* Mutant: everything before the new frame goes out, a finding cut in two included.
ReleasedMutant(f) == down.carry

\* The frames that go out when frame f arrives.
Released(f) == {g \in down.carry : ~(g \in down.answer.hit /\ f \in down.answer.hit)}

StreamFrame ==
    LET f   == down.came + 1
        out == IF RedactsStream THEN Released(f) ELSE {f}
        buf == down.carry \union {f}
    IN  /\ pc = "streaming" /\ f <= Frames
        /\ down' = [down EXCEPT
                       !.came = f, !.carry = IF RedactsStream THEN buf \ out ELSE {},
                       !.raw = @ \union (out \ IF RedactsStream THEN Redacted(out) ELSE {}),
                       !.metered = Metered(out)]
        /\ UNCHANGED <<cfg, req, pc, gate, body, up, found, hold, log>>

\* Dropping the body: its bytes are counted, its line written, its reservation settled.
DropBody(metered) ==
    /\ Goto("over")
    /\ log' = [log EXCEPT !.bytes = @ + 1, !.pending = FALSE,
                          !.lines = IF log.pending THEN @ + 1 ELSE @]
    /\ hold' = IF hold # "stream" THEN hold
               ELSE IF metered THEN "charged" ELSE "released"
    /\ UNCHANGED <<cfg, req, gate, body, up, found>>

\* The upstream's body ended: what was held back goes out, redacted.
StreamEnds ==
    /\ pc = "streaming" /\ down.came = Frames
    /\ down' = [down EXCEPT !.carry = {}, !.raw = @ \union (down.carry \ Redacted(down.carry)),
                            !.metered = Metered(down.carry)]
    /\ DropBody(Metered(down.carry))

\* The client goes away, the upstream breaks off, or the cap is passed.
StreamCut ==
    /\ pc = "streaming"
    /\ down' = [down EXCEPT !.carry = {}]
    /\ DropBody(down.metered)

----------------------------------------------------------------------------
(***************************************************************************)
(* The client goes away while the task awaits: the task is dropped, with   *)
(* the guard, and nothing is logged.                                       *)
(***************************************************************************)
Awaiting == \/ pc = "gates" /\ Gates[gate] \in {"ip_limit", "auth", "key_limit"}
            \/ pc \in {"body", "reserving", "sending", "collecting", "committing",
                       "handshake", "declined"}

Cancel ==
    /\ Awaiting
    /\ Goto("gone")
    /\ hold' = IF hold = "taken" THEN "leaked" ELSE DropGuard
    /\ up' = [up EXCEPT !.next = req.len + 1]
    /\ UNCHANGED <<cfg, req, gate, body, found, down, log>>

Next ==
    \/ Accept \/ Refuse \/ Pass
    \/ UpgradeRefused \/ Upgrade \/ HandshakeEnds \/ Declined
    \/ BodyRefused \/ ReadBody \/ Block \/ Inspect
    \/ VaultRefused \/ Vault \/ Denied \/ Reserve
    \/ Unbuildable \/ Send \/ UploadFrame \/ Fail
    \/ \E answer \in Answers : Decline(answer) \/ Stream(answer) \/ Collect(answer)
    \/ CollectFails \/ Collected \/ Committed \/ Respond
    \/ StreamFrame \/ StreamEnds \/ StreamCut
    \/ Cancel

Spec == Init /\ [][Next]_vars

----------------------------------------------------------------------------
(***************************************************************************)
(* Properties.                                                             *)
(***************************************************************************)
\* Every variable keeps to its type (the state of `handle_inner` and the bodies it builds).
TypeOK ==
    /\ cfg \in PolicyType /\ req \in ClientType
    /\ pc \in {"gates", "upgrade", "handshake", "declined", "body", "inspect", "vault", "reserving",
               "build", "sending", "collecting", "committing", "respond", "streaming", "over", "gone"}
    /\ gate \in 1..Len(Gates)
    /\ body \in {"none", "buffered", "streamed", "windowed"}
    /\ up \in [key : {"client", "provider"}, form : {"raw", "redacted", "masked"}, sent : BOOLEAN,
               delivered : SUBSET (0..req.len), next : 1..(req.len + 1),
               stopped : {"no", "cut", "blocked"}, reported : BOOLEAN]
    /\ found \in 0..2
    /\ hold \in {"none", "held", "stream", "taken", "charged", "released", "leaked"}
    /\ down \in [answer : Answers, came : 0..Frames, carry : SUBSET AnswerFrames, raw : SUBSET AnswerFrames,
                 metered : BOOLEAN, given : BOOLEAN]
    /\ log \in [counted : 0..1, bytes : 0..1, pending : BOOLEAN, lines : 0..1]

\* Who is configured to find what the request carries, and what is to become of it.
Inspector == IF req.by = "waf" /\ (req.hit = {0} \/ WafReadsBody) THEN cfg.waf
             ELSE IF req.by = "dlp" /\ ScansRequest THEN cfg.dlp ELSE "off"
HitDelivered == req.hit # {} /\ req.hit \subseteq up.delivered

\* However the body is read (whole, streamed, or behind a window), what a blocking WAF or DLP would
\* find never reaches the upstream whole, and what DLP rewrites never reaches it as it was.
InspectedBeforeSent ==
    HitDelivered => /\ Inspector # "block"
                    /\ Inspector = "redact" => up.form # "raw"

\* A finding is counted once, when its last byte goes up at the latest: the window, the tail
\* inspector and its carry neither miss it nor count it again (`f.end > carried_text`).
FoundOnce ==
    /\ found <= 1
    /\ HitDelivered /\ Inspector # "off" => found = 1

\* DLP's promise to the client's side: what it withholds or redacts is never given out whole, as
\* the upstream sent it.  Two ways round it are the code's own: reversible masking restores instead
\* of scanning, and an event stream is rewritten only under stream_redact; the answer to a declined
\* handshake is no completion, and is passed on as it is.
KeepsBack == /\ ScansAnswer /\ ~cfg.reversible
             /\ \/ cfg.dlp = "block"
                \/ cfg.dlp = "redact" /\ (log.pending \/ down.came > 0 => cfg.stream_redact)
WithheldFromClient ==
    KeepsBack /\ down.answer.hit # {} /\ ~req.upgrade => ~(down.answer.hit \subseteq down.raw)

\* With a vault, nothing goes upstream under the client's own credential, a handshake included.
KeySwapped == cfg.vault /\ up.sent => up.key = "provider"

\* When the request is over, its reservation is settled, by what the upstream reported: charged if
\* its usage was read, else given back whole.  Only a task dropped in `commit` leaves it behind.
SettledOnce ==
    /\ pc = "over" => hold \in {"none", IF down.metered THEN "charged" ELSE "released"}
    /\ pc = "gone" => hold \in {"none", "released", "leaked"}

\* Every answered request is counted once, and has one access line, written at once or when its
\* streamed body is dropped, however it ends; bytes are counted once, if an answer was passed on.
OneLine ==
    /\ log.counted <= 1 /\ log.lines + (IF log.pending THEN 1 ELSE 0) = log.counted
    /\ pc = "over" => log.counted = 1 /\ ~log.pending
    /\ pc = "over" /\ down.given => log.bytes = 1

\* What goes upstream went through the policy: it was inspected before its last byte was sent, and it
\* carries the provider's key where there is a vault, on every way out of handle_inner.
SentUnderPolicy == InspectedBeforeSent /\ KeySwapped

\* Everything about a request is accounted once, whoever ends it and however: its findings, its
\* reservation, its count and its line; and the state has its type.
AccountedOnce == TypeOK /\ FoundOnce /\ SettledOnce /\ OneLine
=============================================================================
