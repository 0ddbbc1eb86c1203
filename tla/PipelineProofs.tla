--------------------------- MODULE PipelineProofs ---------------------------
(***************************************************************************)
(* Proofs about Pipeline, for any set of requests and configurations and   *)
(* any number of frames: what goes upstream went through the policy, what  *)
(* DLP keeps back stays back, and everything about a request is accounted  *)
(* once, however it ends.  And about Answers, for any policies, origins    *)
(* and upstreams: what browsers are told through a cache that they share.  *)
(***************************************************************************)
EXTENDS Pipeline, Answers, SequenceTheorems, TLAPS

(***************************************************************************)
(* The inductive invariant.                                                *)
(***************************************************************************)
Places == {"gates", "upgrade", "handshake", "declined", "body", "inspect", "vault", "reserving",
           "build", "sending", "collecting", "committing", "respond", "streaming", "over", "gone"}

UploadType ==
    [key : {"client", "provider"}, form : {"raw", "redacted", "masked"}, sent : BOOLEAN,
     delivered : SUBSET Nat, next : Nat, stopped : {"no", "cut", "blocked"}, reported : BOOLEAN]

DownloadType ==
    [answer : Answers, came : 0..Frames, carry : SUBSET AnswerFrames, raw : SUBSET AnswerFrames,
     metered : BOOLEAN, given : BOOLEAN]

RecordType == [counted : 0..1, bytes : 0..1, pending : BOOLEAN, lines : 0..1]

\* The request and its configuration, which stay.
Config ==
    /\ cfg \in PolicyType /\ req \in ClientType
    /\ cfg.reversible => cfg.dlp = "redact"
    /\ req.hit \subseteq 0..req.len
    /\ \A f, g \in req.hit : f <= g + 1
    /\ 0 \in req.hit => req.hit = {0} /\ req.by = "waf"

Shape ==
    /\ pc \in Places /\ gate \in 1..Len(Gates)
    /\ body \in {"none", "buffered", "streamed", "windowed"}
    /\ up \in UploadType /\ found \in Nat
    /\ hold \in {"none", "held", "stream", "taken", "charged", "released", "leaked"}
    /\ down \in DownloadType /\ log \in RecordType

Unread    == {"gates", "upgrade", "body"}
Uninspected == Unread \union {"inspect"}
Inspected == {"vault", "reserving", "build"}
Unsent    == Uninspected \union Inspected
Unanswered == Unsent \union {"handshake", "declined", "sending", "collecting"}

\* Which way the request went, and what it has not done yet.
Way ==
    /\ pc \in {"upgrade", "handshake", "declined"} => req.upgrade
    /\ pc \in {"body", "inspect", "sending", "collecting", "committing", "respond", "streaming"}
                 \union Inspected => ~req.upgrade
    /\ pc \in Unread \union {"handshake", "declined"} => body = "none"
    /\ pc \notin Unread \union {"handshake", "declined", "over", "gone"} => body # "none"
    /\ body # "none" => body = BodyMode
    /\ pc \in Unsent => ~up.sent /\ up.stopped = "no"
    /\ up.next \in 1..(req.len + 1) /\ up.delivered \subseteq 0..req.len
    /\ ~up.sent => up.delivered = {}
    /\ pc \in Uninspected => found = 0

\* The reservation, the count, the line and the bytes, by where the task is.
Booked ==
    /\ pc \in Unanswered => ~down.metered /\ ~down.given /\ log = Record
    /\ pc \in Unanswered \ {"build", "sending", "collecting"} => hold = "none"
    /\ pc \in {"build", "sending", "collecting"} => hold \in {"none", "held"}
    /\ pc = "committing" => hold = "taken"
    /\ pc \in {"committing", "respond"} =>
          log.counted = 0 /\ log.lines = 0 /\ ~log.pending /\ log.bytes = 1 /\ ~down.given
    /\ pc = "streaming" => /\ hold \in {"none", "stream"}
                           /\ log.counted = 1 /\ log.lines = 0 /\ log.pending /\ log.bytes = 0
    /\ pc \in {"respond", "over"} => hold \in {"none", Settled}
    /\ pc = "over" => /\ log.counted = 1 /\ log.lines = 1 /\ ~log.pending
                      /\ down.given => log.bytes = 1
    /\ pc = "gone" => /\ hold \in {"none", "released", "leaked"}
                      /\ log.counted = 0 /\ log.lines = 0 /\ ~log.pending

\* What the ordinary inspection finds, and lets pass.
WindowHit == WafHit \/ DlpHit
Screened  == /\ ~(WafHit /\ cfg.waf = "block") /\ ~(DlpHit /\ cfg.dlp = "block")
             /\ DlpHit /\ cfg.dlp = "redact" => up.form # "raw"

HitIn(n) == req.hit # {} /\ req.hit \subseteq 0..n

\* Frames 0..n have gone up: what they hold was found, and was not to be blocked; and nothing was found
\* that they, or the window, do not hold.
Swept(n) ==
    /\ n \in 0..req.len /\ up.delivered = 0..n
    /\ up.next \in {n + 1, req.len + 1}
    /\ HitIn(n) /\ Inspector # "off" => /\ found = 1 /\ Inspector # "block"
                                        /\ req.by = "waf" => up.reported
    /\ found = 1 /\ up.stopped # "blocked" => /\ WindowHit \/ HitIn(n)
                                              /\ req.by = "waf" => up.reported
    /\ WindowHit => found = 1 /\ (req.by = "waf" => up.reported)
    /\ up.reported => found = 1

Upstream ==
    /\ found <= 1
    /\ up.sent \/ pc \in {"reserving", "build"} => (cfg.vault => up.key = "provider")
    /\ up.sent /\ body = "none" =>
          /\ up.delivered = {0} /\ up.next = req.len + 1
          /\ WafHitsPath => found = 1 /\ cfg.waf # "block"
    /\ pc \in Inspected \/ (up.sent /\ body # "none") => Screened
    /\ pc \in Inspected =>
          found = (IF WindowHit THEN 1 ELSE 0) /\ (up.reported <=> WafHit) /\ up.stopped = "no"
    /\ up.sent /\ body = "buffered" => up.next = req.len + 1
    /\ up.sent /\ body # "none" => \E n \in 0..req.len : Swept(n)

\* What may not be given out as it came.
Keeps == /\ ScansAnswer /\ ~cfg.reversible /\ ~req.upgrade
         /\ \/ cfg.dlp = "block"
            \/ cfg.dlp = "redact" /\ (down.came > 0 => cfg.stream_redact)

Back ==
    /\ pc \notin {"streaming", "over"} => down.came = 0 /\ down.raw = {} /\ down.carry = {}
    /\ Keeps => down.answer.hit \intersect down.raw = {}
    /\ pc = "streaming" =>
          /\ ScansAnswer => cfg.dlp # "block"
          /\ down.carry \subseteq 1..down.came
          /\ down.came = 0 => down.raw = {}
          /\ RedactsStream => \/ down.answer.hit \intersect 1..down.came \subseteq down.carry
                              \/ down.answer.hit \subseteq (1..down.came) \ down.carry

PipeInv == Config /\ Shape /\ Way /\ Booked /\ Upstream /\ Back

----------------------------------------------------------------------------
(* What a step leaves alone. *)

\* What is derived from the configuration and the request stays with them; what the ordinary inspection
\* finds, with the way the body is read.
LEMMA SameConfig ==
    ASSUME cfg' = cfg, req' = req
    PROVE  /\ Config => Config'
           /\ BodyMode' = BodyMode /\ Inspector' = Inspector
           /\ ScansAnswer' = ScansAnswer /\ RedactsStream' = RedactsStream
           /\ WafHitsPath' = WafHitsPath /\ Model' = Model
           /\ \A n : HitIn(n)' <=> HitIn(n)
           /\ body' = body => /\ WafHit' = WafHit /\ DlpHit' = DlpHit
                              /\ WindowHit' = WindowHit
<1>1. /\ WafReadsBody' = WafReadsBody /\ ScansRequest' = ScansRequest /\ ScansAnswer' = ScansAnswer
      /\ ReadsLlm' = ReadsLlm
  BY DEF WafReadsBody, ScansRequest, ScansAnswer, ReadsLlm
<1>2. BodyMode' = BodyMode
  BY <1>1 DEF BodyMode, StreamsRequest, InspectsWindow
<1>3. Inspector' = Inspector /\ WafHitsPath' = WafHitsPath /\ Model' = Model /\ RedactsStream' = RedactsStream
  BY <1>1 DEF Inspector, WafHitsPath, Model, RedactsStream
<1>4. ASSUME body' = body
      PROVE  WafHit' = WafHit /\ DlpHit' = DlpHit
  <2>1. Seen' = Seen
    BY <1>4 DEF Seen
  <2> QED
    BY <1>1, <2>1 DEF WafHit, DlpHit
<1>5. body' = body => WindowHit' = WindowHit
  BY <1>4 DEF WindowHit
<1>6. (Config => Config') /\ \A n : HitIn(n)' <=> HitIn(n)
  BY DEF Config, HitIn
<1> QED
  BY <1>1, <1>2, <1>3, <1>4, <1>5, <1>6

\* A step that touches neither what is sent nor what was found.
LEMMA UpstreamKept ==
    ASSUME Upstream, cfg' = cfg, req' = req, body' = body, up' = up, found' = found,
           pc' \in Inspected => pc \in Inspected,
           pc' \in {"reserving", "build"} => pc \in {"reserving", "build"}
    PROVE  Upstream'
<1>1. /\ WafHitsPath' = WafHitsPath /\ WafHit' = WafHit /\ DlpHit' = DlpHit /\ WindowHit' = WindowHit
      /\ Inspector' = Inspector /\ \A n : HitIn(n)' <=> HitIn(n)
  BY SameConfig
<1>2. Screened' <=> Screened
  BY <1>1 DEF Screened
<1>3. ASSUME NEW n, Swept(n) PROVE Swept(n)'
  BY <1>1, <1>3 DEF Swept
<1> QED
  BY <1>1, <1>2, <1>3 DEF Upstream

\* A step that touches no answer, of a task whose answer is not streaming.
LEMMA BackKept ==
    ASSUME Back, cfg' = cfg, req' = req, down' = down,
           pc' # "streaming", pc \in {"streaming", "over"} => pc' = "over"
    PROVE  Back'
<1>1. ScansAnswer' = ScansAnswer
  BY SameConfig
<1>2. Keeps' <=> Keeps
  BY <1>1 DEF Keeps
<1> QED
  BY <1>2 DEF Back

----------------------------------------------------------------------------
(* The edge's own answers. *)

\* A request that is counted has its line, or its streamed body will write it.
LEMMA FinishedFacts ==
    ASSUME log \in RecordType, log.counted = 0, log.lines = 0, NEW s \in BOOLEAN
    PROVE  /\ Finished(s) \in RecordType /\ Finished(s).counted = 1 /\ Finished(s).bytes = log.bytes
           /\ Finished(s).pending = s /\ Finished(s).lines = IF s THEN 0 ELSE 1
<1>1. log.counted + 1 = 1 /\ log.lines + 1 = 1 /\ 1 \in 0..1
  OBVIOUS
<1>2. Finished(s) = [log EXCEPT !.counted = 1, !.pending = s, !.lines = IF s THEN 0 ELSE 1]
  BY <1>1 DEF Finished
<1>3. CASE s = TRUE
  BY <1>1, <1>2, <1>3 DEF RecordType
<1>4. CASE s = FALSE
  BY <1>1, <1>2, <1>4 DEF RecordType
<1> QED
  BY <1>3, <1>4

\* A fresh record has counted and logged nothing.
LEMMA RecordFacts ==
    Record.counted = 0 /\ Record.lines = 0 /\ Record.bytes = 0 /\ ~Record.pending /\ Record \in RecordType
  BY DEF Record, RecordType

\* An answer the proxy gives itself, before any byte of the upstream's, ends the exchange with one
\* record.
LEMMA ReplyStep ==
    ASSUME PipeInv, pc \in Unanswered, Reply, up' = up,
           found' = found \/ (pc \in Uninspected /\ found' = found + 1)
    PROVE  PipeInv'
<1>1. /\ pc' = "over" /\ log' = Finished(FALSE) /\ hold' = DropGuard
      /\ cfg' = cfg /\ req' = req /\ gate' = gate /\ body' = body /\ down' = down
  BY DEF Reply
<1>2. log = Record /\ ~down.metered /\ ~down.given /\ hold \in {"none", "held"}
  BY DEF PipeInv, Booked, Unanswered, Unsent, Uninspected, Unread, Inspected
<1>3. log' \in RecordType /\ log'.counted = 1 /\ log'.lines = 1 /\ ~log'.pending
  BY <1>1, <1>2, FinishedFacts, RecordFacts
<1>4. hold' \in {"none", "released"}
  BY <1>1, <1>2 DEF DropGuard
<1>5. Config'
  BY <1>1, SameConfig DEF PipeInv
<1>6. Shape'
  <2>1. found \in Nat /\ found' \in Nat
    BY DEF PipeInv, Shape
  <2> QED
    BY <1>1, <1>3, <1>4, <2>1 DEF PipeInv, Shape, Places
<1>7. Way'
  <2>1. BodyMode' = BodyMode
    BY <1>1, SameConfig
  <2> QED
    BY <1>1, <2>1 DEF PipeInv, Way, Unsent, Uninspected, Unread, Inspected
<1>8. Booked'
  <2>1. Settled' = "released"
    BY <1>1, <1>2 DEF Settled
  <2> QED
    BY <1>1, <1>2, <1>3, <1>4, <2>1 DEF Booked, Unanswered, Unsent, Uninspected, Unread, Inspected
<1>9. Upstream'
  <2>1. pc' \notin Inspected
    BY <1>1 DEF Inspected
  <2>2. CASE found' = found
    BY <1>1, <2>1, <2>2, UpstreamKept DEF PipeInv
  <2>3. CASE pc \in Uninspected /\ found' = found + 1
    <3>1. found = 0 /\ ~up.sent
      BY <2>3 DEF PipeInv, Way, Unsent
    <3> QED
      BY <1>1, <2>1, <2>3, <3>1 DEF Upstream
  <2> QED
    BY <2>2, <2>3
<1>10. Back'
  BY <1>1, BackKept DEF PipeInv, Unanswered, Unsent, Uninspected, Unread, Inspected
<1> QED
  BY <1>5, <1>6, <1>7, <1>8, <1>9, <1>10 DEF PipeInv

\* Every way to answer without the upstream's answer.
Refusals == \/ Refuse \/ UpgradeRefused \/ HandshakeEnds \/ BodyRefused \/ Block \/ VaultRefused
            \/ Denied \/ Unbuildable \/ Fail \/ CollectFails

\* Every refusal is such an answer.
LEMMA RefusalStep ==
    ASSUME PipeInv, Refusals
    PROVE  PipeInv'
<1>1. pc \in Unanswered /\ Reply /\ up' = up
  BY DEF Refusals, Refuse, UpgradeRefused, HandshakeEnds, BodyRefused, Block, VaultRefused, Denied,
         Unbuildable, Fail, CollectFails, Unanswered, Unsent, Uninspected, Unread, Inspected
<1>2. found' = found \/ (pc \in Uninspected /\ found' = found + 1)
  BY DEF Refusals, Refuse, UpgradeRefused, HandshakeEnds, BodyRefused, Block, VaultRefused, Denied,
         Unbuildable, Fail, CollectFails, Uninspected, Unread
<1> QED
  BY <1>1, <1>2, ReplyStep

----------------------------------------------------------------------------
(* The steps up to the upstream. *)

\* The invariant holds of the first exchange.
LEMMA InitInv == Init => PipeInv
<1> SUFFICES ASSUME Init PROVE PipeInv
  OBVIOUS
<1> USE DEF Unanswered, Unsent, Uninspected, Unread, Inspected
<1>1. PICK x \in Exchanges : cfg = x.policy /\ req = x.client
  BY DEF Init
<1>2. Config
  BY <1>1, PipelineAssumption DEF Config
<1>3. /\ pc = "gates" /\ gate = 1 /\ body = "none" /\ up = Upload /\ found = 0 /\ hold = "none"
      /\ down = Download /\ log = Record
  BY DEF Init
<1>4. PipeInv
  <2>1. /\ Upload \in UploadType /\ ~Upload.sent /\ Upload.delivered = {} /\ Upload.stopped = "no"
        /\ Upload.next = 1
    BY DEF Upload, UploadType
  <2>2. /\ Download \in DownloadType /\ ~Download.metered /\ ~Download.given /\ Download.came = 0
        /\ Download.raw = {} /\ Download.carry = {}
    <3>1. 0 \in 0..Frames
      BY PipelineAssumption
    <3> QED
      BY <3>1 DEF Download, DownloadType, NoAnswer, Answers
  <2>3. req.len \in Nat \ {0}
    BY <1>2 DEF Config, ClientType
  <2>4. Shape
    BY <1>3, <2>1, <2>2, RecordFacts DEF Shape, Places, Gates
  <2>5. Way
    BY <1>3, <2>1, <2>3 DEF Way
  <2>6. Booked
    BY <1>3, <2>2 DEF Booked
  <2>7. Upstream
    BY <1>3, <2>1 DEF Upstream
  <2>8. Back
    BY <1>3, <2>2 DEF Back
  <2> QED
    BY <1>2, <2>4, <2>5, <2>6, <2>7, <2>8 DEF PipeInv
<1> QED
  BY <1>4

\* The next exchange starts from nothing of the last one.
LEMMA AcceptStep ==
    ASSUME PipeInv, Accept
    PROVE  PipeInv'
<1> USE DEF Unanswered, Unsent, Uninspected, Unread, Inspected
<1>1. /\ pc' = "gates" /\ gate' = 1 /\ body' = "none" /\ up' = Upload /\ found' = 0 /\ hold' = "none"
      /\ down' = Download /\ log' = Record /\ cfg' = cfg /\ req' = req
  BY DEF Accept, Goto
<1>2. /\ Upload \in UploadType /\ ~Upload.sent /\ Upload.delivered = {} /\ Upload.stopped = "no"
      /\ Upload.next = 1
  BY DEF Upload, UploadType
<1>3. /\ Download \in DownloadType /\ ~Download.metered /\ ~Download.given /\ Download.came = 0
      /\ Download.raw = {} /\ Download.carry = {}
  <2>1. 0 \in 0..Frames
    BY PipelineAssumption
  <2> QED
    BY <2>1 DEF Download, DownloadType, NoAnswer, Answers
<1>4. Config' /\ req.len \in Nat \ {0}
  BY <1>1, SameConfig DEF PipeInv, Config, ClientType
<1>5. Shape'
  BY <1>1, <1>2, <1>3, RecordFacts DEF Shape, Places, Gates
<1>6. Way'
  BY <1>1, <1>2, <1>4 DEF Way
<1>7. Booked'
  BY <1>1, <1>3 DEF Booked
<1>8. Upstream'
  BY <1>1, <1>2 DEF Upstream
<1>9. Back'
  BY <1>1, <1>3 DEF Back
<1> QED
  BY <1>4, <1>5, <1>6, <1>7, <1>8, <1>9 DEF PipeInv

\* A gate that lets the request through.
LEMMA PassStep ==
    ASSUME PipeInv, Pass
    PROVE  PipeInv'
<1> USE DEF Unanswered, Unsent, Uninspected, Unread, Inspected
<1>1. /\ pc = "gates"
      /\ cfg' = cfg /\ req' = req /\ body' = body /\ up' = up /\ found' = found /\ hold' = hold
      /\ down' = down /\ log' = log
  BY DEF Pass
<1>2. /\ pc' \in {"gates", "upgrade", "body"} /\ gate' \in 1..Len(Gates)
      /\ pc' = "upgrade" => req.upgrade
      /\ pc' = "body" => ~req.upgrade
  <2>1. gate \in 1..Len(Gates) /\ Len(Gates) = 11
    BY DEF PipeInv, Shape, Gates
  <2>2. CASE gate < Len(Gates)
    BY <1>1, <2>1, <2>2 DEF Pass
  <2>3. CASE ~(gate < Len(Gates))
    BY <1>1, <2>1, <2>3 DEF Pass, Goto
  <2> QED
    BY <2>2, <2>3
<1>3. Config' /\ BodyMode' = BodyMode
  BY <1>1, SameConfig DEF PipeInv
<1>4. Shape'
  BY <1>1, <1>2 DEF PipeInv, Shape, Places
<1>5. Way'
  BY <1>1, <1>2, <1>3 DEF PipeInv, Way
<1>6. Booked'
  BY <1>1, <1>2 DEF PipeInv, Booked
<1>7. Upstream'
  BY <1>1, <1>2, UpstreamKept DEF PipeInv
<1>8. Back'
  BY <1>1, <1>2, BackKept DEF PipeInv
<1> QED
  BY <1>3, <1>4, <1>5, <1>6, <1>7, <1>8 DEF PipeInv

\* A WebSocket upgrade goes upstream after the path was inspected, under the vault's key.
LEMMA UpgradeStep ==
    ASSUME PipeInv, Upgrade
    PROVE  PipeInv'
<1> USE DEF Unanswered, Unsent, Uninspected, Unread, Inspected
<1> DEFINE key == IF cfg.vault THEN "provider" ELSE up.key
<1>1. /\ pc = "upgrade" /\ pc' = "handshake" /\ ~(WafHitsPath /\ cfg.waf = "block")
      /\ cfg' = cfg /\ req' = req /\ gate' = gate /\ body' = body /\ hold' = hold /\ down' = down /\ log' = log
      /\ found' = (IF WafHitsPath THEN found + 1 ELSE found)
      /\ up' = [up EXCEPT !.key = key, !.sent = TRUE, !.delivered = {0}, !.next = req.len + 1]
  BY DEF Upgrade, Goto
<1>2. found = 0 /\ body = "none" /\ req.upgrade /\ req.len \in Nat \ {0} /\ up \in UploadType
  BY <1>1 DEF PipeInv, Way, Config, ClientType, Shape
<1>3. /\ up' \in UploadType /\ up'.key = key /\ up'.sent /\ up'.delivered = {0} /\ up'.next = req.len + 1
  <2>1. key \in {"client", "provider"} /\ req.len + 1 \in Nat /\ {0} \in SUBSET Nat
    BY <1>2 DEF UploadType
  <2> HIDE DEF key
  <2> QED
    BY <1>1, <1>2, <2>1 DEF UploadType
<1>4. found' = IF WafHitsPath THEN 1 ELSE 0
  BY <1>1, <1>2
<1>5. Config' /\ BodyMode' = BodyMode /\ WafHitsPath' = WafHitsPath
  BY <1>1, SameConfig DEF PipeInv
<1>6. Shape'
  BY <1>1, <1>3, <1>4 DEF PipeInv, Shape, Places
<1>7. Way'
  BY <1>1, <1>2, <1>3, <1>5 DEF Way
<1>8. Booked'
  BY <1>1 DEF PipeInv, Booked
<1>9. Upstream'
  BY <1>1, <1>2, <1>3, <1>4, <1>5 DEF Upstream
<1>10. Back'
  BY <1>1, BackKept DEF PipeInv
<1> QED
  BY <1>5, <1>6, <1>7, <1>8, <1>9, <1>10 DEF PipeInv

\* The body is buffered, streamed or inspected through a window, as the policy says.
LEMMA ReadBodyStep ==
    ASSUME PipeInv, ReadBody
    PROVE  PipeInv'
<1> USE DEF Unanswered, Unsent, Uninspected, Unread, Inspected
<1>1. /\ pc = "body" /\ pc' = "inspect" /\ body' = BodyMode
      /\ cfg' = cfg /\ req' = req /\ gate' = gate /\ up' = up /\ found' = found /\ hold' = hold
      /\ down' = down /\ log' = log
  BY DEF ReadBody, Goto
<1>2. Config' /\ BodyMode' = BodyMode /\ BodyMode \in {"buffered", "streamed", "windowed"}
  BY <1>1, SameConfig DEF PipeInv, BodyMode
<1>3. Shape'
  BY <1>1, <1>2 DEF PipeInv, Shape, Places
<1>4. Way'
  BY <1>1, <1>2 DEF PipeInv, Way
<1>5. Booked'
  BY <1>1 DEF PipeInv, Booked
<1>6. Upstream'
  BY <1>1 DEF PipeInv, Way, Upstream
<1>7. Back'
  BY <1>1, BackKept DEF PipeInv
<1> QED
  BY <1>2, <1>3, <1>4, <1>5, <1>6, <1>7 DEF PipeInv

\* The request's inspection finds nothing to block and rewrites what it redacts.
LEMMA InspectStep ==
    ASSUME PipeInv, Inspect
    PROVE  PipeInv'
<1> USE DEF Unanswered, Unsent, Uninspected, Unread, Inspected
<1> DEFINE form == IF DlpHit /\ cfg.dlp = "redact"
                   THEN IF cfg.reversible THEN "masked" ELSE "redacted" ELSE up.form
<1>1. /\ pc = "inspect" /\ pc' = "vault"
      /\ ~(WafHit /\ cfg.waf = "block") /\ ~(DlpHit /\ cfg.dlp = "block")
      /\ cfg' = cfg /\ req' = req /\ gate' = gate /\ body' = body /\ hold' = hold /\ down' = down /\ log' = log
      /\ found' = (IF WafHit \/ DlpHit THEN found + 1 ELSE found)
      /\ up' = [up EXCEPT !.reported = WafHit, !.form = form]
  BY DEF Inspect, Goto
<1>2. found = 0 /\ up \in UploadType /\ ~up.sent /\ up.stopped = "no"
  BY <1>1 DEF PipeInv, Way, Shape
<1>3. WafHit \in BOOLEAN /\ form \in {"raw", "redacted", "masked"}
  BY <1>2 DEF WafHit, UploadType
<1>4. /\ up' \in UploadType /\ (up'.reported <=> WafHit) /\ up'.form = form
      /\ up'.key = up.key /\ up'.sent = up.sent /\ up'.delivered = up.delivered /\ up'.next = up.next
      /\ up'.stopped = up.stopped
  <2> HIDE DEF form
  <2> DEFINE hit == WafHit
  <2>1. hit \in BOOLEAN /\ up' = [up EXCEPT !.reported = hit, !.form = form]
    BY <1>1, <1>3
  <2> HIDE DEF hit
  <2>2. up' \in UploadType /\ up'.reported = hit /\ up'.form = form
        /\ up'.key = up.key /\ up'.sent = up.sent /\ up'.delivered = up.delivered /\ up'.next = up.next
        /\ up'.stopped = up.stopped
    BY <1>2, <1>3, <2>1 DEF UploadType
  <2> QED
    BY <2>2 DEF hit
<1>5. found' = IF WindowHit THEN 1 ELSE 0
  BY <1>1, <1>2 DEF WindowHit
<1>6. /\ Config' /\ BodyMode' = BodyMode /\ WafHit' = WafHit /\ DlpHit' = DlpHit /\ WindowHit' = WindowHit
  BY <1>1, SameConfig DEF PipeInv
<1>7. Shape'
  BY <1>1, <1>4, <1>5 DEF PipeInv, Shape, Places
<1>8. Way'
  BY <1>1, <1>2, <1>4, <1>6 DEF PipeInv, Way
<1>9. Booked'
  BY <1>1 DEF PipeInv, Booked
<1>10. Upstream'
  <2>1. Screened'
    BY <1>1, <1>4, <1>6 DEF Screened
  <2>2. (up'.reported <=> WafHit') /\ ~up'.sent /\ up'.stopped = "no"
    BY <1>2, <1>4, <1>6
  <2>3. found' = (IF WindowHit' THEN 1 ELSE 0) /\ found' <= 1
    BY <1>5, <1>6
  <2> QED
    BY <1>1, <2>1, <2>2, <2>3 DEF Upstream
<1>11. Back'
  BY <1>1, BackKept DEF PipeInv
<1> QED
  BY <1>6, <1>7, <1>8, <1>9, <1>10, <1>11 DEF PipeInv

\* The caller's credential is exchanged for the provider's.
LEMMA VaultStep ==
    ASSUME PipeInv, Vault
    PROVE  PipeInv'
<1> USE DEF Unanswered, Unsent, Uninspected, Unread, Inspected
<1> DEFINE key == IF cfg.vault THEN "provider" ELSE up.key
<1>1. /\ pc = "vault" /\ pc' \in {"reserving", "build"}
      /\ cfg' = cfg /\ req' = req /\ gate' = gate /\ body' = body /\ found' = found /\ hold' = hold
      /\ down' = down /\ log' = log
      /\ up' = [up EXCEPT !.key = key]
  BY DEF Vault, Goto
<1>2. up \in UploadType /\ ~up.sent
  BY <1>1 DEF PipeInv, Way, Shape
<1>3. /\ up' \in UploadType /\ up'.key = key /\ up'.reported = up.reported /\ up'.form = up.form
      /\ up'.sent = up.sent /\ up'.delivered = up.delivered /\ up'.next = up.next /\ up'.stopped = up.stopped
  BY <1>1, <1>2 DEF UploadType
<1>4. /\ Config' /\ BodyMode' = BodyMode /\ WafHit' = WafHit /\ DlpHit' = DlpHit /\ WindowHit' = WindowHit
  BY <1>1, SameConfig DEF PipeInv
<1>5. Shape'
  BY <1>1, <1>3 DEF PipeInv, Shape, Places
<1>6. Way'
  BY <1>1, <1>2, <1>3, <1>4 DEF PipeInv, Way
<1>7. Booked'
  BY <1>1 DEF PipeInv, Booked
<1>8. Upstream'
  <2>1. Screened'
    BY <1>1, <1>3, <1>4 DEF PipeInv, Upstream, Screened
  <2>2. /\ (up'.reported <=> WafHit') /\ ~up'.sent /\ up'.stopped = "no"
        /\ found' = (IF WindowHit' THEN 1 ELSE 0) /\ found' <= 1
    BY <1>1, <1>2, <1>3, <1>4 DEF PipeInv, Upstream
  <2>3. cfg'.vault => up'.key = "provider"
    BY <1>1, <1>3
  <2> QED
    BY <1>1, <2>1, <2>2, <2>3 DEF Upstream
<1>9. Back'
  BY <1>1, BackKept DEF PipeInv
<1> QED
  BY <1>4, <1>5, <1>6, <1>7, <1>8, <1>9 DEF PipeInv

\* The budgets admit the request, and the guard holds the reservation.
LEMMA ReserveStep ==
    ASSUME PipeInv, Reserve
    PROVE  PipeInv'
<1> USE DEF Unanswered, Unsent, Uninspected, Unread, Inspected
<1>1. /\ pc = "reserving" /\ pc' = "build" /\ hold' = "held"
      /\ cfg' = cfg /\ req' = req /\ gate' = gate /\ body' = body /\ up' = up /\ found' = found
      /\ down' = down /\ log' = log
  BY DEF Reserve, Goto
<1>2. Config' /\ BodyMode' = BodyMode
  BY <1>1, SameConfig DEF PipeInv
<1>3. Shape'
  BY <1>1 DEF PipeInv, Shape, Places
<1>4. Way'
  BY <1>1, <1>2 DEF PipeInv, Way
<1>5. Booked'
  BY <1>1 DEF PipeInv, Booked
<1>6. Upstream'
  BY <1>1, UpstreamKept DEF PipeInv
<1>7. Back'
  BY <1>1, BackKept DEF PipeInv
<1> QED
  BY <1>2, <1>3, <1>4, <1>5, <1>6, <1>7 DEF PipeInv

----------------------------------------------------------------------------
(* What goes up. *)

\* The ordinary inspection finds what it sees and is there to find.
LEMMA WindowFinds ==
    ASSUME Config, req.hit # {}, req.hit \subseteq Seen, Inspector # "off"
    PROVE  /\ WindowHit /\ (req.by = "waf" => WafHit)
           /\ Inspector = "block" => (WafHit /\ cfg.waf = "block") \/ (DlpHit /\ cfg.dlp = "block")
           /\ Inspector = "redact" => DlpHit /\ cfg.dlp = "redact"
<1>1. cfg.waf \in {"off", "report", "block"} /\ req.by \in {"waf", "dlp"}
  BY DEF Config, PolicyType, ClientType
<1>2. CASE req.by = "waf"
  <2>1. Inspector = cfg.waf /\ (req.hit = {0} \/ WafReadsBody)
    BY <1>2 DEF Inspector
  <2>2. WafHit
    BY <1>2, <2>1 DEF WafHit
  <2> QED
    BY <1>1, <1>2, <2>1, <2>2 DEF WindowHit
<1>3. CASE req.by = "dlp"
  <2>1. Inspector = cfg.dlp /\ ScansRequest
    BY <1>3 DEF Inspector
  <2>2. DlpHit
    BY <1>3, <2>1 DEF DlpHit
  <2> QED
    BY <1>3, <2>1, <2>2 DEF WindowHit
<1> QED
  BY <1>1, <1>2, <1>3

\* What it found it saw.
LEMMA WindowSeen ==
    ASSUME WindowHit
    PROVE  req.hit # {} /\ req.hit \subseteq Seen /\ (req.by = "waf" => WafHit)
  BY DEF WindowHit, WafHit, DlpHit

\* The request head goes upstream.
LEMMA SendStep ==
    ASSUME PipeInv, Send
    PROVE  PipeInv'
<1> USE DEF Unanswered, Unsent, Uninspected, Unread, Inspected
<1> DEFINE n == IF body = "buffered" THEN req.len ELSE 0
           d == IF body = "buffered" THEN 0..req.len ELSE {0}
           m == IF body = "buffered" THEN req.len + 1 ELSE 1
<1>1. /\ pc = "build" /\ pc' = "sending"
      /\ cfg' = cfg /\ req' = req /\ gate' = gate /\ body' = body /\ found' = found /\ hold' = hold
      /\ down' = down /\ log' = log
      /\ up' = [up EXCEPT !.sent = TRUE, !.delivered = d, !.next = m]
  BY DEF Send, Goto
<1>2. Config /\ up \in UploadType /\ req.len \in Nat \ {0} /\ body # "none" /\ body = BodyMode
  BY <1>1 DEF PipeInv, Way, Shape, Config, ClientType
<1>3. d = 0..n /\ m = n + 1 /\ n \in 0..req.len /\ d \in SUBSET Nat /\ m \in Nat /\ m \in 1..(req.len + 1)
      /\ d \subseteq 0..req.len
  <2>1. CASE body = "buffered"
    BY <1>2, <2>1
  <2>2. CASE body # "buffered"
    <3>1. n = 0 /\ d = {0} /\ m = 1 /\ 0..0 = {0}
      BY <2>2
    <3> HIDE DEF n, d, m
    <3>2. d = 0..n /\ m = n + 1 /\ d \in SUBSET Nat /\ m \in Nat
      BY <3>1
    <3>3. n \in 0..req.len /\ m \in 1..(req.len + 1) /\ d \subseteq 0..req.len
      BY <1>2, <3>1
    <3> QED
      BY <3>2, <3>3
  <2> QED
    BY <2>1, <2>2
<1> HIDE DEF d, m
<1>4. /\ up' \in UploadType /\ up'.key = up.key /\ up'.reported = up.reported /\ up'.form = up.form
      /\ up'.sent /\ up'.delivered = d /\ up'.next = m /\ up'.stopped = up.stopped
  BY <1>1, <1>2, <1>3 DEF UploadType
<1>5. /\ Config' /\ BodyMode' = BodyMode /\ WafHit' = WafHit /\ DlpHit' = DlpHit /\ WindowHit' = WindowHit
      /\ Inspector' = Inspector /\ \A k : HitIn(k)' <=> HitIn(k)
  BY <1>1, SameConfig DEF PipeInv
<1>6. Shape'
  BY <1>1, <1>4 DEF PipeInv, Shape, Places
<1>7. Way'
  BY <1>1, <1>2, <1>3, <1>4, <1>5 DEF PipeInv, Way
<1>8. Booked'
  BY <1>1 DEF PipeInv, Booked
<1>9. Upstream'
  <2>1. /\ Screened /\ found = (IF WindowHit THEN 1 ELSE 0) /\ (up.reported <=> WafHit)
        /\ cfg.vault => up.key = "provider"
    BY <1>1 DEF PipeInv, Upstream
  <2>2. Screened'
    BY <1>1, <1>4, <1>5, <2>1 DEF Screened
  <2>3. HitIn(n) => req.hit # {} /\ req.hit \subseteq Seen
    <3>1. 0..n \subseteq Seen
      <4>1. CASE body = "buffered"
        BY <4>1 DEF Seen
      <4>2. CASE body # "buffered"
        BY <4>2 DEF Seen
      <4> QED
        BY <4>1, <4>2
    <3> QED
      BY <3>1 DEF HitIn
  <2>4. ASSUME HitIn(n), Inspector # "off"
        PROVE  found = 1 /\ Inspector # "block" /\ (req.by = "waf" => up.reported)
    <3>1. /\ WindowHit /\ (req.by = "waf" => WafHit)
          /\ Inspector = "block" => (WafHit /\ cfg.waf = "block") \/ (DlpHit /\ cfg.dlp = "block")
      BY <1>2, <2>3, <2>4, WindowFinds
    <3> QED
      BY <2>1, <3>1 DEF Screened
  <2>5. WindowHit => found = 1 /\ (req.by = "waf" => up.reported)
    BY <2>1, WindowSeen
  <2>6. up.reported => found = 1
    BY <2>1 DEF WindowHit
  <2>7. found = 1 => WindowHit
    BY <2>1
  <2> HIDE DEF n
  <2>8. ASSUME NEW k, k = n PROVE Swept(k)'
    BY <1>1, <1>3, <1>4, <1>5, <2>4, <2>5, <2>6, <2>7, <2>8 DEF Swept
  <2>9. \E k \in 0..req.len : Swept(k)'
    BY <1>3, <2>8
  <2> QED
    BY <1>1, <1>2, <1>4, <2>1, <2>2, <2>9 DEF Upstream, m
<1>10. Back'
  BY <1>1, BackKept DEF PipeInv
<1> QED
  BY <1>5, <1>6, <1>7, <1>8, <1>9, <1>10 DEF PipeInv

\* The tail inspector finds what the frame completes, and finds it once.
LEMMA TailFacts ==
    ASSUME Config, body \in {"streamed", "windowed"}, body = BodyMode, NEW n \in 0..req.len, n + 1 <= req.len,
           Swept(n), up.stopped = "no", found \in {0, 1}
    PROVE  LET f     == n + 1
               finds == body = "windowed" /\ f > 1 /\ TailFinds(f)
           IN  /\ finds => /\ found = 0 /\ HitIn(f)
                           /\ ~TailBlocks(f) => Inspector # "block"
               /\ HitIn(f) /\ Inspector # "off" => finds \/ HitIn(n) \/ (WindowHit /\ HitIn(1))
<1> DEFINE f == n + 1
           finds == body = "windowed" /\ f > 1 /\ TailFinds(f)
<1>1. /\ n \in Nat /\ f \in Nat /\ req.len \in Nat /\ req.hit \subseteq Nat
      /\ cfg.waf \in {"off", "report", "block"} /\ req.by \in {"waf", "dlp"}
  BY DEF Config, PolicyType, ClientType
<1>2. Seen = IF body = "windowed" THEN {0, 1} ELSE {0}
  BY DEF Seen
<1>3. ASSUME finds
      PROVE  found = 0 /\ HitIn(f) /\ (~TailBlocks(f) => Inspector # "block")
  <2>1. req.hit # {} /\ req.hit \subseteq {f - 1, f} \ {0} /\ f > 1
    BY <1>3 DEF TailFinds, InBuffer
  <2>2. HitIn(f)
    BY <1>1, <2>1 DEF HitIn
  <2>3. found = 0
    <3>1. SUFFICES ASSUME found = 1 PROVE FALSE
      OBVIOUS
    <3>2. (WindowHit \/ HitIn(n)) /\ (req.by = "waf" => up.reported)
      BY <3>1 DEF Swept
    <3>3. req.by = "dlp" /\ f \in req.hit
      BY <1>1, <1>3, <3>2 DEF TailFinds
    <3>4. f \notin 0..n /\ f \notin Seen
      BY <1>1, <1>2, <2>1
    <3>5. ~WindowHit /\ ~HitIn(n)
      BY <3>3, <3>4, WindowSeen DEF HitIn
    <3> QED
      BY <3>2, <3>5
  <2>4. ASSUME ~TailBlocks(f) PROVE Inspector # "block"
    <3>1. CASE req.by = "waf"
      <4>1. cfg.waf # "block" /\ WafReadsBody
        BY <1>3, <2>4, <3>1 DEF TailBlocks, TailFinds
      <4> QED
        BY <3>1, <4>1 DEF Inspector
    <3>2. CASE req.by = "dlp"
      <4>1. cfg.dlp # "block"
        BY <1>3, <2>4, <3>2 DEF TailBlocks
      <4> QED
        BY <3>2, <4>1 DEF Inspector
    <3> QED
      BY <1>1, <3>1, <3>2
  <2> QED
    BY <2>2, <2>3, <2>4
<1>4. ASSUME HitIn(f), Inspector # "off", ~HitIn(n), ~(WindowHit /\ HitIn(1))
      PROVE  finds
  <2>1. f \in req.hit /\ req.hit # {}
    BY <1>1, <1>4 DEF HitIn
  <2>2. 0 \notin req.hit /\ req.hit \subseteq {f - 1, f} \ {0}
    <3>1. req.hit # {0}
      BY <1>1, <2>1
    <3>2. 0 \notin req.hit
      BY <3>1 DEF Config
    <3>3. ASSUME NEW g \in req.hit PROVE g \in {f - 1, f} \ {0}
      <4>1. g \in Nat /\ g <= f /\ f <= g + 1 /\ g # 0
        BY <1>1, <1>4, <2>1, <3>2 DEF HitIn, Config
      <4> QED
        BY <1>1, <4>1
    <3> QED
      BY <3>2, <3>3
  <2>3. WafReadsBody \/ ScansRequest
    <3>1. req.hit # {0}
      BY <2>2
    <3> QED
      BY <1>4, <3>1 DEF Inspector
  <2>4. body = "windowed"
    BY <2>3 DEF BodyMode, StreamsRequest
  <2>5. f > 1
    <3>1. SUFFICES ASSUME f = 1 PROVE FALSE
      BY <1>1
    <3>2. req.hit \subseteq Seen
      BY <1>2, <2>2, <2>4, <3>1
    <3>3. WindowHit
      BY <1>4, <2>1, <3>2, WindowFinds
    <3> QED
      BY <1>4, <3>1, <3>3
  <2>6. TailFinds(f)
    <3>1. CASE req.by = "waf"
      <4>1. WafReadsBody
        BY <1>4, <2>2, <3>1 DEF Inspector
      <4>2. ~up.reported
        <5>1. SUFFICES ASSUME up.reported PROVE FALSE
          OBVIOUS
        <5>2. found = 1 /\ WindowHit
          BY <1>4, <5>1 DEF Swept
        <5>3. f \in Seen
          BY <2>1, <5>2, WindowSeen
        <5> QED
          BY <1>1, <1>2, <2>5, <5>3
      <4> QED
        BY <2>1, <2>2, <3>1, <4>1, <4>2 DEF TailFinds, InBuffer
    <3>2. CASE req.by = "dlp"
      <4>1. ScansRequest
        BY <1>4, <3>2 DEF Inspector
      <4> QED
        BY <2>1, <2>2, <3>2, <4>1 DEF TailFinds, InBuffer
    <3> QED
      BY <1>1, <3>1, <3>2
  <2> QED
    BY <2>4, <2>5, <2>6
<1> QED
  BY <1>3, <1>4

\* A frame of a streamed body is inspected and passed on, or stops the upload.
LEMMA UploadFrameStep ==
    ASSUME PipeInv, UploadFrame
    PROVE  PipeInv'
<1> USE DEF Unanswered, Unsent, Uninspected, Unread, Inspected
<1> DEFINE f     == up.next
           cut   == req.big /\ f = req.len
           finds == ~cut /\ body = "windowed" /\ f > 1 /\ TailFinds(f)
           blocks == finds /\ TailBlocks(f)
           rep   == up.reported \/ (finds /\ req.by = "waf")
<1>1. /\ up.sent /\ up.stopped = "no" /\ f <= req.len
      /\ cfg' = cfg /\ req' = req /\ pc' = pc /\ gate' = gate /\ body' = body /\ hold' = hold
      /\ down' = down /\ log' = log
      /\ found' = (IF finds THEN found + 1 ELSE found)
  BY DEF UploadFrame
<1>2. up' = IF cut THEN [up EXCEPT !.stopped = "cut"]
            ELSE IF blocks THEN [up EXCEPT !.stopped = "blocked"]
            ELSE [up EXCEPT !.delivered = @ \union {f}, !.next = f + 1, !.reported = rep]
  BY DEF UploadFrame
<1>3. /\ Config /\ Shape /\ up \in UploadType /\ req.len \in Nat \ {0} /\ req.by \in {"waf", "dlp"}
      /\ body \in {"none", "buffered", "streamed", "windowed"} /\ found \in {0, 1}
  BY DEF PipeInv, Shape, Config, ClientType, Upstream
<1>4. body \in {"streamed", "windowed"} /\ body = BodyMode /\ pc \notin Unsent
  BY <1>1, <1>3 DEF PipeInv, Way, Upstream
<1>5. PICK n \in 0..req.len : Swept(n)
  BY <1>1, <1>4 DEF PipeInv, Upstream
<1>6. f = n + 1 /\ n \in Nat /\ n + 1 \in 0..req.len
  BY <1>1, <1>3, <1>5 DEF Swept
<1>7. /\ Config' /\ BodyMode' = BodyMode /\ WafHit' = WafHit /\ DlpHit' = DlpHit /\ WindowHit' = WindowHit
      /\ Inspector' = Inspector /\ \A k : HitIn(k)' <=> HitIn(k)
  BY <1>1, SameConfig DEF PipeInv
<1>8. /\ finds => /\ found = 0 /\ HitIn(n + 1)
                  /\ ~blocks => Inspector # "block"
      /\ ~cut /\ HitIn(n + 1) /\ Inspector # "off" => finds \/ HitIn(n) \/ (WindowHit /\ HitIn(1))
  BY <1>1, <1>3, <1>4, <1>5, <1>6, TailFacts
<1>9. /\ HitIn(n) /\ Inspector # "off" => /\ found = 1 /\ Inspector # "block"
                                          /\ req.by = "waf" => up.reported
      /\ found = 1 => (WindowHit \/ HitIn(n)) /\ (req.by = "waf" => up.reported)
      /\ WindowHit => found = 1 /\ (req.by = "waf" => up.reported)
      /\ up.reported => found = 1
      /\ up.delivered = 0..n
  BY <1>1, <1>5 DEF Swept
<1>10. finds \in BOOLEAN /\ blocks \in BOOLEAN /\ cut \in BOOLEAN /\ rep \in BOOLEAN
       /\ (rep <=> up.reported \/ (finds /\ req.by = "waf")) /\ (finds => ~cut) /\ (blocks => finds)
  <2>1. cut \in BOOLEAN /\ blocks \in BOOLEAN /\ rep \in BOOLEAN
    BY <1>3 DEF Config, ClientType, UploadType
  <2> QED
    BY <2>1
<1> HIDE DEF finds, cut, blocks, rep, f
<1>11. found' \in {0, 1} /\ (found' = 1 <=> found = 1 \/ finds)
  BY <1>1, <1>3, <1>8, <1>10
<1>12. /\ up' \in UploadType /\ up'.sent /\ up'.key = up.key /\ up'.form = up.form
       /\ \/ /\ ~cut /\ ~blocks
             /\ up'.stopped = up.stopped /\ up'.delivered = up.delivered \union {f} /\ up'.next = f + 1
             /\ up'.reported = rep
          \/ /\ cut \/ blocks
             /\ up'.stopped = IF cut THEN "cut" ELSE "blocked"
             /\ up'.delivered = up.delivered /\ up'.next = up.next /\ up'.reported = up.reported
  <2>1. CASE cut
    BY <1>1, <1>2, <1>3, <2>1 DEF UploadType
  <2>2. CASE ~cut /\ blocks
    BY <1>1, <1>2, <1>3, <2>2 DEF UploadType
  <2>3. CASE ~cut /\ ~blocks
    <3>1. f + 1 \in Nat /\ up.delivered \union {f} \in SUBSET Nat
      BY <1>3, <1>6 DEF UploadType
    <3>2. up' = [up EXCEPT !.delivered = up.delivered \union {f}, !.next = f + 1, !.reported = rep]
      BY <1>2, <2>3
    <3> QED
      BY <1>1, <1>3, <1>10, <2>3, <3>1, <3>2 DEF UploadType
  <2> QED
    BY <1>10, <2>1, <2>2, <2>3
<1>13. Shape'
  BY <1>1, <1>3, <1>11, <1>12 DEF Shape
<1>14. Way'
  <2>1. up'.next \in 1..(req.len + 1) /\ up'.delivered \subseteq 0..req.len
    <3>1. up.next \in 1..(req.len + 1) /\ up.delivered \subseteq 0..req.len
      BY DEF PipeInv, Way
    <3> QED
      BY <1>3, <1>6, <1>12, <3>1
  <2> QED
    BY <1>1, <1>4, <1>7, <1>12, <2>1 DEF PipeInv, Way
<1>15. Booked'
  <2>1. Settled' = Settled
    BY <1>1 DEF Settled
  <2> QED
    BY <1>1, <2>1 DEF PipeInv, Booked
<1>16. \E k \in 0..req.len : Swept(k)'
  <2>1. CASE cut \/ blocks
    <3>1. HitIn(n) /\ Inspector # "off" => /\ found' = 1 /\ Inspector # "block"
                                           /\ req.by = "waf" => up'.reported
      BY <1>9, <1>11, <1>12, <2>1
    <3>2. found' = 1 /\ up'.stopped # "blocked" => (WindowHit \/ HitIn(n)) /\ (req.by = "waf" => up'.reported)
      <4>1. up'.stopped # "blocked" => cut
        BY <1>12, <2>1
      <4>2. cut /\ found' = 1 => found = 1
        BY <1>10, <1>11
      <4> QED
        BY <1>9, <1>12, <2>1, <4>1, <4>2
    <3>3. (WindowHit => found' = 1 /\ (req.by = "waf" => up'.reported)) /\ (up'.reported => found' = 1)
      BY <1>9, <1>11, <1>12, <2>1
    <3>4. up'.delivered = 0..n /\ up'.next = up.next /\ up.next \in {n + 1, req.len + 1}
      BY <1>5, <1>9, <1>12, <2>1 DEF Swept
    <3>5. Swept(n)'
      BY <1>1, <1>7, <3>1, <3>2, <3>3, <3>4 DEF Swept
    <3> QED
      BY <3>5
  <2>2. CASE ~cut /\ ~blocks
    <3>1. /\ up'.delivered = 0..(n + 1) /\ up'.next = (n + 1) + 1 /\ up'.stopped # "blocked"
          /\ up'.reported = rep
      <4>1. (0..n) \union {n + 1} = 0..(n + 1)
        BY <1>6
      <4> QED
        BY <1>1, <1>6, <1>9, <1>12, <2>2, <4>1
    <3>2. HitIn(n) => HitIn(n + 1)
      BY <1>6 DEF HitIn
    <3>3. ASSUME HitIn(n + 1), Inspector # "off"
          PROVE  found' = 1 /\ Inspector # "block" /\ (req.by = "waf" => up'.reported)
      <4>1. CASE finds
        BY <1>8, <1>10, <1>11, <2>2, <3>1, <4>1
      <4>2. CASE HitIn(n)
        BY <1>9, <1>10, <1>11, <3>1, <3>3, <4>2
      <4>3. CASE WindowHit
        <5>1. Inspector # "block"
          <6>1. Screened
            BY <1>1, <1>4 DEF PipeInv, Upstream
          <6>2. Inspector = "block" => (WafHit /\ cfg.waf = "block") \/ (DlpHit /\ cfg.dlp = "block")
            BY <1>3, <3>3, <4>3, WindowFinds, WindowSeen
          <6> QED
            BY <6>1, <6>2 DEF Screened
        <5> QED
          BY <1>9, <1>10, <1>11, <3>1, <4>3, <5>1
      <4> QED
        BY <1>8, <2>2, <3>3, <4>1, <4>2, <4>3
    <3>4. found' = 1 => (WindowHit \/ HitIn(n + 1)) /\ (req.by = "waf" => up'.reported)
      BY <1>8, <1>9, <1>10, <1>11, <3>1, <3>2
    <3>5. (WindowHit => found' = 1 /\ (req.by = "waf" => up'.reported)) /\ (up'.reported => found' = 1)
      BY <1>9, <1>10, <1>11, <3>1
    <3>6. ASSUME NEW k, k = n + 1 PROVE Swept(k)'
      BY <1>1, <1>6, <1>7, <3>1, <3>3, <3>4, <3>5, <3>6 DEF Swept
    <3> QED
      BY <1>6, <3>6
  <2> QED
    BY <2>1, <2>2
<1>17. Upstream'
  <2>1. Screened'
    BY <1>1, <1>4, <1>7, <1>12 DEF PipeInv, Upstream, Screened
  <2>2. cfg'.vault => up'.key = "provider"
    BY <1>1, <1>12 DEF PipeInv, Upstream
  <2>3. found' <= 1
    BY <1>11
  <2> QED
    BY <1>1, <1>4, <1>16, <2>1, <2>2, <2>3 DEF Upstream
<1>18. Back'
  <2>1. ScansAnswer' = ScansAnswer /\ RedactsStream' = RedactsStream
    BY <1>1, SameConfig
  <2> QED
    BY <1>1, <2>1 DEF PipeInv, Back, Keeps
<1> QED
  BY <1>7, <1>13, <1>14, <1>15, <1>17, <1>18 DEF PipeInv

----------------------------------------------------------------------------
(* What comes back. *)

\* The frames an answer may come in.
LEMMA AnswerFacts ==
    ASSUME down \in DownloadType, NEW answer \in Answers
    PROVE  /\ [down EXCEPT !.answer = answer] \in DownloadType
           /\ [down EXCEPT !.answer = answer].answer = answer
           /\ [down EXCEPT !.answer = answer].came = down.came
           /\ [down EXCEPT !.answer = answer].carry = down.carry
           /\ [down EXCEPT !.answer = answer].raw = down.raw
           /\ [down EXCEPT !.answer = answer].metered = down.metered
           /\ [down EXCEPT !.answer = answer].given = down.given
<1> HIDE DEF Answers
<1> QED
  BY DEF DownloadType

\* The answer's headers are in, and nothing of its body has gone out.
LEMMA ArrivesStep ==
    ASSUME PipeInv, NEW answer \in Answers, Decline(answer) \/ Collect(answer)
    PROVE  PipeInv'
<1> USE DEF Unanswered, Unsent, Uninspected, Unread, Inspected
<1>1. /\ \/ pc = "handshake" /\ pc' = "declined"
         \/ pc = "sending" /\ pc' = "collecting"
      /\ cfg' = cfg /\ req' = req /\ gate' = gate /\ body' = body /\ up' = up /\ found' = found /\ hold' = hold
      /\ log' = log /\ down' = [down EXCEPT !.answer = answer]
  BY DEF Decline, Collect, Goto
<1>2. down \in DownloadType
  BY DEF PipeInv, Shape
<1>3. /\ down' \in DownloadType /\ down'.answer = answer /\ down'.came = down.came /\ down'.carry = down.carry
      /\ down'.raw = down.raw /\ down'.metered = down.metered /\ down'.given = down.given
  BY <1>1, <1>2, AnswerFacts
<1>4. Config' /\ BodyMode' = BodyMode
  BY <1>1, SameConfig DEF PipeInv
<1>5. Shape'
  BY <1>1, <1>3 DEF PipeInv, Shape, Places
<1>6. Way'
  BY <1>1, <1>4 DEF PipeInv, Way
<1>7. Booked'
  BY <1>1, <1>3 DEF PipeInv, Booked
<1>8. Upstream'
  BY <1>1, UpstreamKept DEF PipeInv
<1>9. Back'
  <2>1. down.came = 0 /\ down.raw = {} /\ down.carry = {}
    BY <1>1 DEF PipeInv, Back
  <2> QED
    BY <1>1, <1>3, <2>1 DEF Back
<1> QED
  BY <1>4, <1>5, <1>6, <1>7, <1>8, <1>9 DEF PipeInv

\* An upgrade the upstream declines: its answer goes to the client and the record is closed.
LEMMA DeclinedStep ==
    ASSUME PipeInv, Declined
    PROVE  PipeInv'
<1> USE DEF Unanswered, Unsent, Uninspected, Unread, Inspected
<1>1. /\ pc = "declined" /\ pc' = "over"
      /\ cfg' = cfg /\ req' = req /\ gate' = gate /\ body' = body /\ up' = up /\ found' = found /\ hold' = hold
      /\ log' = Finished(FALSE) /\ down' = [down EXCEPT !.raw = AnswerFrames]
  BY DEF Declined, Goto
<1>2. down \in DownloadType /\ req.upgrade /\ log = Record /\ ~down.metered /\ ~down.given /\ hold = "none"
  BY <1>1 DEF PipeInv, Shape, Way, Booked
<1>3. down' \in DownloadType /\ down'.metered = down.metered /\ down'.given = down.given
  BY <1>1, <1>2 DEF DownloadType
<1>4. log' \in RecordType /\ log'.counted = 1 /\ log'.lines = 1 /\ ~log'.pending
  BY <1>1, <1>2, FinishedFacts, RecordFacts
<1>5. Config' /\ BodyMode' = BodyMode
  BY <1>1, SameConfig DEF PipeInv
<1>6. Shape'
  BY <1>1, <1>3, <1>4 DEF PipeInv, Shape, Places
<1>7. Way'
  BY <1>1, <1>5 DEF PipeInv, Way
<1>8. Booked'
  BY <1>1, <1>2, <1>3, <1>4 DEF Booked
<1>9. Upstream'
  BY <1>1, UpstreamKept DEF PipeInv
<1>10. Back'
  BY <1>1, <1>2 DEF Back, Keeps
<1> QED
  BY <1>5, <1>6, <1>7, <1>8, <1>9, <1>10 DEF PipeInv

\* The answer is handed to the client as a stream.
LEMMA StreamStep ==
    ASSUME PipeInv, NEW answer \in Answers, Stream(answer)
    PROVE  PipeInv'
<1> USE DEF Unanswered, Unsent, Uninspected, Unread, Inspected
<1>1. /\ pc = "sending" /\ pc' = "streaming"
      /\ cfg' = cfg /\ req' = req /\ gate' = gate /\ body' = body /\ up' = up /\ found' = found
      /\ log' = Finished(TRUE) /\ hold' = StreamedHold
      /\ down' = [down EXCEPT !.answer = answer, !.given = TRUE]
  BY DEF Stream, Goto
<1>2. /\ down \in DownloadType /\ log = Record /\ ~down.metered /\ hold \in {"none", "held"}
      /\ down.came = 0 /\ down.raw = {} /\ down.carry = {}
  BY <1>1 DEF PipeInv, Shape, Booked, Back
<1>3. /\ down' \in DownloadType /\ down'.came = 0 /\ down'.carry = {} /\ down'.raw = {} /\ ~down'.metered
      /\ down'.answer = answer
  <2> HIDE DEF Answers
  <2> QED
    BY <1>1, <1>2 DEF DownloadType
<1>4. log' \in RecordType /\ log'.counted = 1 /\ log'.lines = 0 /\ log'.pending /\ log'.bytes = 0
  BY <1>1, <1>2, FinishedFacts, RecordFacts
<1>5. hold' \in {"none", "stream"}
  BY <1>1, <1>2 DEF StreamedHold
<1>6. Config' /\ BodyMode' = BodyMode /\ ScansAnswer' = ScansAnswer
  BY <1>1, SameConfig DEF PipeInv
<1>7. Shape'
  BY <1>1, <1>3, <1>4, <1>5 DEF PipeInv, Shape, Places
<1>8. Way'
  BY <1>1, <1>6 DEF PipeInv, Way
<1>9. Booked'
  BY <1>1, <1>4, <1>5 DEF Booked
<1>10. Upstream'
  BY <1>1, UpstreamKept DEF PipeInv
<1>11. Back'
  <2>1. ScansAnswer => cfg.dlp # "block"
    BY DEF Stream, SseStream, StreamsAnyResponse
  <2>2. 1..0 = {}
    OBVIOUS
  <2>3. down'.answer.hit \intersect 1..down'.came = {}
    BY <1>3, <2>2
  <2> QED
    BY <1>1, <1>3, <1>6, <2>1, <2>3 DEF Back
<1> QED
  BY <1>6, <1>7, <1>8, <1>9, <1>10, <1>11 DEF PipeInv

\* The answer is collected whole, and the reservation taken out of its guard.
LEMMA CollectedStep ==
    ASSUME PipeInv, Collected
    PROVE  PipeInv'
<1> USE DEF Unanswered, Unsent, Uninspected, Unread, Inspected
<1> DEFINE metered == Model /\ down.answer.usage > 0
<1>1. /\ pc = "collecting"
      /\ cfg' = cfg /\ req' = req /\ gate' = gate /\ body' = body /\ up' = up /\ found' = found
      /\ log' = [log EXCEPT !.bytes = @ + 1] /\ down' = [down EXCEPT !.metered = metered]
      /\ \/ hold = "held" /\ hold' = "taken" /\ pc' = "committing"
         \/ hold # "held" /\ hold' = hold /\ pc' = "respond"
  BY DEF Collected, Goto
<1>2. /\ down \in DownloadType /\ log = Record /\ ~down.given /\ hold \in {"none", "held"}
      /\ down.came = 0 /\ down.raw = {} /\ down.carry = {}
  BY <1>1 DEF PipeInv, Shape, Booked, Back
<1>3. /\ down' \in DownloadType /\ down'.came = 0 /\ down'.carry = {} /\ down'.raw = {} /\ ~down'.given
  <2>1. metered \in BOOLEAN
    OBVIOUS
  <2> HIDE DEF Answers, metered
  <2> QED
    BY <1>1, <1>2, <2>1 DEF DownloadType
<1>4. log' \in RecordType /\ log'.counted = 0 /\ log'.lines = 0 /\ ~log'.pending /\ log'.bytes = 1
  <2>1. /\ log \in RecordType /\ log.counted = 0 /\ log.lines = 0 /\ ~log.pending
        /\ log.bytes + 1 = 1 /\ 1 \in 0..1
    BY <1>2, RecordFacts
  <2>2. log' = [log EXCEPT !.bytes = 1]
    BY <1>1, <2>1
  <2> QED
    BY <2>1, <2>2 DEF RecordType
<1>5. Config' /\ BodyMode' = BodyMode
  BY <1>1, SameConfig DEF PipeInv
<1>6. Shape'
  BY <1>1, <1>2, <1>3, <1>4 DEF PipeInv, Shape, Places
<1>7. Way'
  BY <1>1, <1>5 DEF PipeInv, Way
<1>8. Booked'
  BY <1>1, <1>2, <1>3, <1>4 DEF Booked
<1>9. Upstream'
  BY <1>1, UpstreamKept DEF PipeInv
<1>10. Back'
  BY <1>1, <1>3 DEF Back
<1> QED
  BY <1>5, <1>6, <1>7, <1>8, <1>9, <1>10 DEF PipeInv

\* The reservation of a collected answer is settled.
LEMMA CommittedStep ==
    ASSUME PipeInv, Committed
    PROVE  PipeInv'
<1> USE DEF Unanswered, Unsent, Uninspected, Unread, Inspected
<1>1. /\ pc = "committing" /\ pc' = "respond" /\ hold' = Settled
      /\ cfg' = cfg /\ req' = req /\ gate' = gate /\ body' = body /\ up' = up /\ found' = found
      /\ down' = down /\ log' = log
  BY DEF Committed, Goto
<1>2. Config' /\ BodyMode' = BodyMode
  BY <1>1, SameConfig DEF PipeInv
<1>3. Settled \in {"charged", "released"} /\ Settled' = Settled
  BY <1>1 DEF Settled
<1>4. Shape'
  BY <1>1, <1>3 DEF PipeInv, Shape, Places
<1>5. Way'
  BY <1>1, <1>2 DEF PipeInv, Way
<1>6. Booked'
  BY <1>1, <1>3 DEF PipeInv, Booked
<1>7. Upstream'
  BY <1>1, UpstreamKept DEF PipeInv
<1>8. Back'
  BY <1>1, BackKept DEF PipeInv
<1> QED
  BY <1>2, <1>4, <1>5, <1>6, <1>7, <1>8 DEF PipeInv

\* The answer's head, and a collected body in the form inspection left it, goes to the client.
LEMMA RespondStep ==
    ASSUME PipeInv, Respond
    PROVE  PipeInv'
<1> USE DEF Unanswered, Unsent, Uninspected, Unread, Inspected
<1>1. /\ pc = "respond" /\ pc' = "over"
      /\ cfg' = cfg /\ req' = req /\ gate' = gate /\ body' = body /\ up' = up /\ found' = found /\ hold' = hold
      /\ log' = Finished(FALSE) /\ down' = [down EXCEPT !.raw = Rewritten, !.given = TRUE]
  BY DEF Respond, Goto
<1>2. /\ down \in DownloadType /\ log \in RecordType /\ log.counted = 0 /\ log.lines = 0 /\ log.bytes = 1
      /\ hold \in {"none", Settled}
  BY <1>1 DEF PipeInv, Shape, Booked
<1>3. /\ down' \in DownloadType /\ down'.raw = Rewritten /\ down'.metered = down.metered
      /\ down'.answer = down.answer
  <2>1. Rewritten \in SUBSET AnswerFrames
    BY DEF Rewritten
  <2> HIDE DEF Rewritten, Answers, AnswerFrames
  <2> QED
    BY <1>1, <1>2, <2>1 DEF DownloadType
<1>4. log' \in RecordType /\ log'.counted = 1 /\ log'.lines = 1 /\ ~log'.pending /\ log'.bytes = 1
  BY <1>1, <1>2, FinishedFacts
<1>5. Config' /\ BodyMode' = BodyMode /\ ScansAnswer' = ScansAnswer
  BY <1>1, SameConfig DEF PipeInv
<1>6. Shape'
  BY <1>1, <1>3, <1>4 DEF PipeInv, Shape, Places
<1>7. Way'
  BY <1>1, <1>5 DEF PipeInv, Way
<1>8. Booked'
  <2>1. Settled' = Settled
    BY <1>3 DEF Settled
  <2> QED
    BY <1>1, <1>2, <1>3, <1>4, <2>1 DEF Booked
<1>9. Upstream'
  BY <1>1, UpstreamKept DEF PipeInv
<1>10. Back'
  <2>1. Keeps' => ScansAnswer /\ ~cfg.reversible /\ cfg.dlp \in {"block", "redact"}
    BY <1>1, <1>5 DEF Keeps
  <2>2. ScansAnswer /\ ~cfg.reversible /\ cfg.dlp \in {"block", "redact"} =>
           down.answer.hit \intersect Rewritten = {}
    BY DEF Rewritten
  <2> QED
    BY <1>1, <1>3, <2>1, <2>2 DEF Back
<1> QED
  BY <1>5, <1>6, <1>7, <1>8, <1>9, <1>10 DEF PipeInv

\* A frame of the answer, of which a scan may let go and hold back: what is found lies wholly in what is
\* still held back, or wholly in what was redacted.
LEMMA StreamFrameStep ==
    ASSUME PipeInv, StreamFrame
    PROVE  PipeInv'
<1> USE DEF Unanswered, Unsent, Uninspected, Unread, Inspected
<1> DEFINE f   == down.came + 1
           hit == down.answer.hit
           out == IF RedactsStream THEN Released(f) ELSE {f}
           carry == IF RedactsStream THEN (down.carry \union {f}) \ out ELSE {}
           raw == down.raw \union (out \ IF RedactsStream THEN Redacted(out) ELSE {})
           metered == Metered(out)
<1>1. /\ pc = "streaming" /\ pc' = pc /\ f <= Frames
      /\ cfg' = cfg /\ req' = req /\ gate' = gate /\ body' = body /\ up' = up /\ found' = found /\ hold' = hold
      /\ log' = log
      /\ down' = [down EXCEPT !.came = f, !.carry = carry, !.raw = raw, !.metered = metered]
  BY DEF StreamFrame
<1>2. down \in DownloadType /\ Frames \in Nat /\ down.came \in Nat
  BY PipelineAssumption DEF PipeInv, Shape, DownloadType
<1>3. /\ ScansAnswer => cfg.dlp # "block"
      /\ down.carry \subseteq 1..down.came
      /\ down.came = 0 => down.raw = {}
      /\ RedactsStream => \/ hit \intersect 1..down.came \subseteq down.carry
                          \/ hit \subseteq (1..down.came) \ down.carry
      /\ Keeps => hit \intersect down.raw = {}
  BY <1>1 DEF PipeInv, Back
<1>4. hit \subseteq 1..Frames /\ \A g, h \in hit : g <= h + 1
  BY <1>2 DEF DownloadType, Answers, AnswerFrames
<1>5. f \in 1..Frames /\ down.carry \subseteq 1..Frames /\ down.raw \subseteq 1..Frames
  BY <1>1, <1>2 DEF DownloadType, AnswerFrames
<1>6. out \subseteq down.carry \union {f}
  BY DEF Released
<1>7. carry \subseteq 1..Frames /\ raw \subseteq 1..Frames /\ metered \in BOOLEAN
  <2>1. metered \in BOOLEAN
    BY <1>2 DEF Metered, DownloadType
  <2> HIDE DEF out, f, metered
  <2>2. out \subseteq 1..Frames
    BY <1>5, <1>6
  <2> QED
    BY <1>5, <2>1, <2>2
<1>8. /\ down' \in DownloadType /\ down'.came = f /\ down'.carry = carry /\ down'.raw = raw
      /\ down'.answer = down.answer /\ down'.given = down.given
  <2>1. f \in 0..Frames
    BY <1>5
  <2> HIDE DEF f, carry, raw, metered, Answers
  <2> QED
    BY <1>1, <1>2, <1>7, <2>1 DEF DownloadType, AnswerFrames
<1>9. /\ Config' /\ BodyMode' = BodyMode /\ ScansAnswer' = ScansAnswer
      /\ RedactsStream' = RedactsStream
  BY <1>1, SameConfig DEF PipeInv
<1>10. Shape'
  BY <1>1, <1>8 DEF PipeInv, Shape
<1>11. Way'
  BY <1>1, <1>9 DEF PipeInv, Way
<1>12. Booked'
  BY <1>1, <1>8 DEF PipeInv, Booked
<1>13. Upstream'
  BY <1>1, UpstreamKept DEF PipeInv
<1>14. carry \subseteq 1..f
  <2>1. down.carry \union {f} \subseteq 1..f
    BY <1>2, <1>3
  <2> QED
    BY <2>1
<1>15. ASSUME RedactsStream
       PROVE  /\ hit \intersect raw = {}
              /\ \/ hit \intersect 1..f \subseteq carry
                 \/ hit \subseteq (1..f) \ carry
  <2>1. hit \intersect down.raw = {}
    <3>1. Keeps
      BY <1>1, <1>15 DEF RedactsStream, Keeps, PipeInv, Way
    <3> QED
      BY <1>3, <3>1
  <2>2. /\ out = {g \in down.carry : ~(g \in hit /\ f \in hit)}
        /\ carry = (down.carry \union {f}) \ out
        /\ raw = down.raw \union (out \ Redacted(out))
        /\ f \notin down.carry
    BY <1>2, <1>3, <1>15 DEF Released
  <2>3. Redacted(out) = IF hit \subseteq out THEN hit ELSE {}
    BY DEF Redacted
  <2>4. (1..f) = (1..down.came) \union {f} /\ f \notin 1..down.came
    BY <1>2
  <2> HIDE DEF out, carry, raw
  <2>5. CASE f \in hit
    <3>1. out \intersect hit = {} /\ carry = (down.carry \intersect hit) \union {f}
      BY <2>2, <2>5
    <3>2. hit \intersect 1..down.came \subseteq down.carry
      BY <1>3, <1>15, <2>4, <2>5
    <3> HIDE DEF f, hit
    <3> QED
      BY <2>1, <2>2, <2>4, <3>1, <3>2
  <2>6. CASE f \notin hit
    <3>1. out = down.carry /\ carry = {f}
      BY <2>2, <2>6
    <3>2. hit \subseteq 1..down.came \/ hit \intersect 1..down.came = {}
      <4>1. ASSUME NEW g \in hit, g \in 1..down.came, NEW h \in hit PROVE h \in 1..down.came
        BY <1>2, <1>4, <2>6, <4>1
      <4> QED
        BY <4>1
    <3>3. CASE hit \intersect 1..down.came = {}
      <4>1. hit \intersect 1..f = {} /\ hit \intersect down.carry = {}
        BY <1>3, <2>4, <2>6, <3>3
      <4> HIDE DEF f, hit
      <4> QED
        BY <2>1, <2>2, <3>1, <4>1
    <3>4. CASE hit \subseteq 1..down.came
      <4>1. hit \subseteq (1..f) \ carry
        BY <2>4, <2>6, <3>1, <3>4
      <4>2. hit \subseteq down.carry \/ hit \intersect down.carry = {}
        BY <1>3, <1>15, <3>4
      <4> HIDE DEF f, hit
      <4> QED
        BY <2>1, <2>2, <2>3, <3>1, <4>1, <4>2
    <3> QED
      BY <3>2, <3>3, <3>4
  <2> QED
    BY <2>5, <2>6
<1>16. Back'
  <2>1. Keeps' => RedactsStream
    <3>1. down'.came > 0
      BY <1>2, <1>8
    <3> QED
      BY <1>1, <1>3, <1>9, <3>1 DEF Keeps, RedactsStream
  <2>2. f # 0
    BY <1>2
  <2> HIDE DEF f, carry, raw, out
  <2> QED
    BY <1>1, <1>3, <1>8, <1>9, <1>14, <1>15, <2>1, <2>2 DEF Back
<1> QED
  BY <1>9, <1>10, <1>11, <1>12, <1>13, <1>16 DEF PipeInv

\* Dropping a streamed body settles its reservation by what was read of it, and writes its line.
LEMMA DropBodyStep ==
    ASSUME PipeInv, pc = "streaming", NEW metered \in BOOLEAN, DropBody(metered),
           down' \in DownloadType, down'.metered = metered, Back'
    PROVE  PipeInv'
<1> USE DEF Unanswered, Unsent, Uninspected, Unread, Inspected
<1>1. /\ pc' = "over" /\ cfg' = cfg /\ req' = req /\ gate' = gate /\ body' = body /\ up' = up /\ found' = found
      /\ hold' = IF hold # "stream" THEN hold ELSE IF metered THEN "charged" ELSE "released"
      /\ log' = [log EXCEPT !.bytes = @ + 1, !.pending = FALSE,
                            !.lines = IF log.pending THEN @ + 1 ELSE @]
  BY DEF DropBody, Goto
<1>2. /\ log \in RecordType /\ log.counted = 1 /\ log.lines = 0 /\ log.pending /\ log.bytes = 0
      /\ hold \in {"none", "stream"}
  BY DEF PipeInv, Shape, Booked
<1>3. log' \in RecordType /\ log'.counted = 1 /\ log'.lines = 1 /\ ~log'.pending /\ log'.bytes = 1
  <2>1. log.bytes + 1 = 1 /\ log.lines + 1 = 1 /\ 1 \in 0..1
    BY <1>2
  <2>2. log' = [log EXCEPT !.bytes = 1, !.pending = FALSE, !.lines = 1]
    BY <1>1, <1>2, <2>1
  <2> QED
    BY <1>2, <2>1, <2>2 DEF RecordType
<1>4. Settled' = (IF metered THEN "charged" ELSE "released") /\ hold' \in {"none", Settled'}
  BY <1>1, <1>2 DEF Settled
<1>5. Config' /\ BodyMode' = BodyMode
  BY <1>1, SameConfig DEF PipeInv
<1>6. Shape'
  BY <1>1, <1>3, <1>4 DEF PipeInv, Shape, Places
<1>7. Way'
  BY <1>1, <1>5 DEF PipeInv, Way
<1>8. Booked'
  BY <1>1, <1>3, <1>4 DEF Booked
<1>9. Upstream'
  BY <1>1, UpstreamKept DEF PipeInv
<1> QED
  BY <1>5, <1>6, <1>7, <1>8, <1>9 DEF PipeInv

\* The stream's last frame closes the record.
LEMMA StreamEndsStep ==
    ASSUME PipeInv, StreamEnds
    PROVE  PipeInv'
<1> DEFINE hit == down.answer.hit
           raw == down.raw \union (down.carry \ Redacted(down.carry))
           metered == Metered(down.carry)
<1>1. /\ pc = "streaming" /\ down.came = Frames /\ DropBody(metered)
      /\ pc' = "over" /\ cfg' = cfg /\ req' = req
      /\ down' = [down EXCEPT !.carry = {}, !.raw = raw, !.metered = metered]
  BY DEF StreamEnds, DropBody, Goto
<1>2. down \in DownloadType /\ Frames \in Nat \ {0} /\ hit \subseteq 1..Frames
  BY PipelineAssumption DEF PipeInv, Shape, DownloadType, Answers, AnswerFrames
<1>3. metered \in BOOLEAN /\ raw \subseteq 1..Frames
  BY <1>2 DEF Metered, DownloadType, AnswerFrames
<1>4. /\ down' \in DownloadType /\ down'.metered = metered /\ down'.raw = raw /\ down'.came = down.came
      /\ down'.answer = down.answer
  <2> HIDE DEF raw, metered, Answers
  <2> QED
    BY <1>1, <1>2, <1>3 DEF DownloadType, AnswerFrames
<1>5. Back'
  <2>1. ScansAnswer' = ScansAnswer
    BY <1>1, SameConfig
  <2>2. Keeps' => Keeps /\ RedactsStream
    BY <1>1, <1>2, <1>4, <2>1 DEF Keeps, RedactsStream, PipeInv, Back
  <2>3. ASSUME Keeps, RedactsStream PROVE hit \intersect raw = {}
    <3>1. hit \intersect down.raw = {} /\ (hit \subseteq down.carry \/ hit \intersect down.carry = {})
      BY <1>1, <1>2, <2>3 DEF PipeInv, Back
    <3>2. Redacted(down.carry) = IF hit \subseteq down.carry THEN hit ELSE {}
      BY DEF Redacted
    <3> HIDE DEF hit
    <3> QED
      BY <3>1, <3>2
  <2> HIDE DEF raw
  <2> QED
    BY <1>1, <1>4, <2>2, <2>3 DEF Back
<1> HIDE DEF metered
<1> QED
  BY <1>1, <1>3, <1>4, <1>5, DropBodyStep

\* A stream cut by the client, the upstream or inspection closes the record just as well.
LEMMA StreamCutStep ==
    ASSUME PipeInv, StreamCut
    PROVE  PipeInv'
<1>1. /\ pc = "streaming" /\ DropBody(down.metered)
      /\ pc' = "over" /\ cfg' = cfg /\ req' = req /\ down' = [down EXCEPT !.carry = {}]
  BY DEF StreamCut, DropBody, Goto
<1>2. down \in DownloadType
  BY DEF PipeInv, Shape
<1>3. /\ down' \in DownloadType /\ down'.metered = down.metered /\ down'.raw = down.raw
      /\ down'.came = down.came /\ down'.answer = down.answer /\ down.metered \in BOOLEAN
  <2> HIDE DEF Answers
  <2> QED
    BY <1>1, <1>2 DEF DownloadType
<1>4. Back'
  <2>1. ScansAnswer' = ScansAnswer
    BY <1>1, SameConfig
  <2> QED
    BY <1>1, <1>3, <2>1 DEF PipeInv, Back, Keeps
<1> QED
  BY <1>1, <1>3, <1>4, DropBodyStep

\* A task that is dropped takes its guard with it, and the upload stops; only what `commit` took is lost.
LEMMA CancelStep ==
    ASSUME PipeInv, Cancel
    PROVE  PipeInv'
<1> USE DEF Unanswered, Unsent, Uninspected, Unread, Inspected
<1>1. /\ Awaiting /\ pc' = "gone" /\ up' = [up EXCEPT !.next = req.len + 1]
      /\ hold' = IF hold = "taken" THEN "leaked" ELSE DropGuard
      /\ cfg' = cfg /\ req' = req /\ gate' = gate /\ body' = body /\ found' = found /\ down' = down
      /\ log' = log
  BY DEF Cancel, Goto
<1>2. pc \in {"gates", "body", "reserving", "sending", "collecting", "committing", "handshake", "declined"}
  BY <1>1 DEF Awaiting
<1>3. /\ log \in RecordType /\ log.counted = 0 /\ log.lines = 0 /\ ~log.pending
      /\ hold \in {"none", "held", "taken"} /\ up \in UploadType /\ req.len \in Nat \ {0}
  BY <1>2, RecordFacts DEF PipeInv, Shape, Booked, Config, ClientType
<1>4. /\ up' \in UploadType /\ up'.key = up.key /\ up'.form = up.form /\ up'.sent = up.sent
      /\ up'.delivered = up.delivered /\ up'.next = req.len + 1 /\ up'.stopped = up.stopped
      /\ up'.reported = up.reported
  <2>1. req.len + 1 \in Nat
    BY <1>3
  <2> QED
    BY <1>1, <1>3, <2>1 DEF UploadType
<1>5. hold' \in {"none", "released", "leaked"}
  BY <1>1, <1>3 DEF DropGuard
<1>6. Config' /\ BodyMode' = BodyMode
  BY <1>1, SameConfig DEF PipeInv
<1>7. Shape'
  BY <1>1, <1>4, <1>5 DEF PipeInv, Shape, Places
<1>8. Way'
  <2>1. req.len + 1 \in 1..(req.len + 1)
    BY <1>3
  <2> QED
    BY <1>1, <1>4, <1>6, <2>1 DEF PipeInv, Way
<1>9. Booked'
  BY <1>1, <1>3, <1>5 DEF Booked
<1>10. Upstream'
  <2>1. /\ WafHitsPath' = WafHitsPath /\ WafHit' = WafHit /\ DlpHit' = DlpHit /\ WindowHit' = WindowHit
        /\ Inspector' = Inspector /\ \A n : HitIn(n)' <=> HitIn(n)
    BY <1>1, SameConfig
  <2>2. Screened' <=> Screened
    BY <1>1, <1>4, <2>1 DEF Screened
  <2>3. ASSUME NEW n, Swept(n) PROVE Swept(n)'
    BY <1>1, <1>4, <2>1, <2>3 DEF Swept
  <2> QED
    BY <1>1, <1>4, <2>1, <2>2, <2>3 DEF PipeInv, Upstream
<1>11. Back'
  BY <1>1, <1>2, BackKept DEF PipeInv
<1> QED
  BY <1>6, <1>7, <1>8, <1>9, <1>10, <1>11 DEF PipeInv

----------------------------------------------------------------------------
(* The theorems. *)

\* Every step keeps the invariant: one lemma above per action.
LEMMA NextInv ==
    ASSUME PipeInv, [Next]_vars
    PROVE  PipeInv'
<1>1. CASE UNCHANGED vars
  <2>1. /\ cfg' = cfg /\ req' = req /\ pc' = pc /\ gate' = gate /\ body' = body /\ up' = up /\ found' = found
        /\ hold' = hold /\ down' = down /\ log' = log
    BY <1>1 DEF vars
  <2>2. /\ Config' /\ BodyMode' = BodyMode /\ ScansAnswer' = ScansAnswer
        /\ RedactsStream' = RedactsStream
    BY <2>1, SameConfig DEF PipeInv
  <2>3. Shape'
    BY <2>1 DEF PipeInv, Shape
  <2>4. Way'
    BY <2>1, <2>2 DEF PipeInv, Way
  <2>5. Booked'
    BY <2>1 DEF PipeInv, Booked, Settled
  <2>6. Upstream'
    BY <2>1, UpstreamKept DEF PipeInv
  <2>7. Back'
    BY <2>1, <2>2 DEF PipeInv, Back, Keeps
  <2> QED
    BY <2>2, <2>3, <2>4, <2>5, <2>6, <2>7 DEF PipeInv
<1>2. CASE Refusals
  BY <1>2, RefusalStep
<1>3. CASE \E answer \in Answers : Decline(answer) \/ Stream(answer) \/ Collect(answer)
  BY <1>3, ArrivesStep, StreamStep
<1>4. CASE Accept \/ Pass \/ Upgrade \/ ReadBody \/ Inspect \/ Vault \/ Reserve \/ Send \/ UploadFrame
  BY <1>4, AcceptStep, PassStep, UpgradeStep, ReadBodyStep, InspectStep, VaultStep, ReserveStep, SendStep,
     UploadFrameStep
<1>5. CASE Declined \/ Collected \/ Committed \/ Respond \/ StreamFrame \/ StreamEnds \/ StreamCut \/ Cancel
  BY <1>5, DeclinedStep, CollectedStep, CommittedStep, RespondStep, StreamFrameStep, StreamEndsStep,
     StreamCutStep, CancelStep
<1> QED
  BY <1>1, <1>2, <1>3, <1>4, <1>5 DEF Next, Refusals

\* The inductive invariant holds in every reachable state.
LEMMA InvAlways == Spec => []PipeInv
<1>1. Init => PipeInv
  BY InitInv
<1>2. PipeInv /\ [Next]_vars => PipeInv'
  BY NextInv
<1> QED
  BY <1>1, <1>2, PTL DEF Spec

\* What was delivered whole was found, if anything inspects it, and is nothing to block or to rewrite.
LEMMA DeliveredFacts ==
    ASSUME PipeInv, HitDelivered
    PROVE  /\ Inspector # "off" => found = 1
           /\ Inspector # "block"
           /\ Inspector = "redact" => up.form # "raw"
<1>1. /\ Config /\ req.hit # {} /\ req.hit \subseteq up.delivered /\ req.by \in {"waf", "dlp"}
      /\ cfg.waf \in {"off", "report", "block"} /\ req.len \in Nat
  BY DEF PipeInv, HitDelivered, Config, ClientType, PolicyType
<1>2. up.sent
  BY <1>1 DEF PipeInv, Way, Shape, UploadType
<1>3. CASE body = "none"
  <2>1. up.delivered = {0} /\ (WafHitsPath => found = 1 /\ cfg.waf # "block")
    BY <1>2, <1>3 DEF PipeInv, Upstream
  <2>2. req.hit = {0} /\ req.by = "waf"
    BY <1>1, <2>1 DEF Config
  <2>3. Inspector = cfg.waf
    BY <2>2 DEF Inspector
  <2> QED
    BY <1>1, <2>1, <2>2, <2>3 DEF WafHitsPath
<1>4. CASE body # "none"
  <2>1. Screened /\ body = BodyMode
    BY <1>2, <1>4 DEF PipeInv, Upstream, Way
  <2>2. PICK n \in 0..req.len : Swept(n)
    BY <1>2, <1>4 DEF PipeInv, Upstream
  <2>3. HitIn(n)
    BY <1>1, <2>2 DEF Swept, HitIn
  <2>4. Inspector # "off" => found = 1 /\ Inspector # "block"
    BY <2>2, <2>3 DEF Swept
  <2>5. ASSUME Inspector = "redact" PROVE up.form # "raw"
    <3>1. req.by = "dlp" /\ ScansRequest /\ cfg.dlp = "redact"
      BY <1>1, <2>5 DEF Inspector
    <3>2. body = "buffered"
      BY <1>4, <2>1, <3>1 DEF BodyMode, StreamsRequest, InspectsWindow
    <3>3. DlpHit
      BY <1>1, <3>1, <3>2 DEF DlpHit, Seen, Config
    <3> QED
      BY <2>1, <3>1, <3>3 DEF Screened
  <2> QED
    BY <2>4, <2>5
<1> QED
  BY <1>3, <1>4

\* What goes upstream went through the policy: what a blocking WAF or DLP would find never reaches the
\* upstream whole, however the body is read, what DLP rewrites never reaches it as it was, and with a
\* vault nothing goes up under the client's own key (handle_inner, StreamedRequestBody::poll_frame).
THEOREM PolicyFirst == Spec => []SentUnderPolicy
<1>1. PipeInv => SentUnderPolicy
  <2> SUFFICES ASSUME PipeInv PROVE SentUnderPolicy
    OBVIOUS
  <2>1. InspectedBeforeSent
    BY DeliveredFacts DEF InspectedBeforeSent
  <2>2. KeySwapped
    BY DEF PipeInv, Upstream, KeySwapped
  <2> QED
    BY <2>1, <2>2 DEF SentUnderPolicy
<1> QED
  BY <1>1, InvAlways, PTL

\* What DLP withholds or redacts of an answer never reaches the client whole as the upstream sent it,
\* whether the answer is read whole or streamed through the redactor's carry (CountingBody).
THEOREM KeptBack == Spec => []WithheldFromClient
<1>1. PipeInv => WithheldFromClient
  <2> SUFFICES ASSUME PipeInv, KeepsBack, down.answer.hit # {}, ~req.upgrade
               PROVE  ~(down.answer.hit \subseteq down.raw)
    BY DEF WithheldFromClient
  <2>1. Keeps
    BY DEF KeepsBack, Keeps
  <2>2. down.answer.hit \intersect down.raw = {}
    BY <2>1 DEF PipeInv, Back
  <2> QED
    BY <2>2
<1> QED
  BY <1>1, InvAlways, PTL

\* Whoever ends a request and however, what was found in it is counted once, its reservation is settled
\* by what was read of its answer, it is counted once and has one access line (handle, BudgetGuard,
\* CountingBody); only a task dropped inside `commit` leaves a reservation behind.
THEOREM AllAccounted == Spec => []AccountedOnce
<1>1. PipeInv => AccountedOnce
  <2> SUFFICES ASSUME PipeInv PROVE AccountedOnce
    OBVIOUS
  <2>1. found \in {0, 1}
    BY DEF PipeInv, Shape, Upstream
  <2>2. TypeOK
    <3>1. up \in [key : {"client", "provider"}, form : {"raw", "redacted", "masked"}, sent : BOOLEAN,
                  delivered : SUBSET (0..req.len), next : 1..(req.len + 1),
                  stopped : {"no", "cut", "blocked"}, reported : BOOLEAN]
      BY DEF PipeInv, Shape, Way, UploadType
    <3> HIDE DEF Answers, AnswerFrames
    <3> QED
      BY <2>1, <3>1 DEF PipeInv, Config, Shape, Places, DownloadType, RecordType, TypeOK
  <2>3. FoundOnce
    BY <2>1, DeliveredFacts DEF FoundOnce
  <2>4. SettledOnce
    BY DEF PipeInv, Booked, SettledOnce, Settled
  <2>5. OneLine
    <3> USE DEF Unanswered, Unsent, Uninspected, Unread, Inspected
    <3>1. /\ \/ log.counted = 0 /\ log.lines = 0 /\ ~log.pending
             \/ log.counted = 1 /\ log.lines = 1 /\ ~log.pending
             \/ log.counted = 1 /\ log.lines = 0 /\ log.pending
          /\ pc = "over" => log.counted = 1 /\ ~log.pending
          /\ pc = "over" /\ down.given => log.bytes = 1
      BY RecordFacts DEF PipeInv, Shape, Places, Booked
    <3> QED
      BY <3>1 DEF OneLine
  <2> QED
    BY <2>2, <2>3, <2>4, <2>5 DEF AccountedOnce
<1> QED
  BY <1>1, InvAlways, PTL

----------------------------------------------------------------------------
(* Answers.  A cookie's own parts come first, and attributes are added to it. *)

Cookies(T) == Seq(T) \ {<<>>}
Added(a) == [name |-> a, value |-> ""]

\* One more attribute.
OneMore(T, s, a, t) ==
    /\ t \in Cookies(T) /\ Len(t) = Len(s) + 1
    /\ \A k \in 1..Len(s) : t[k] = s[k]
    /\ \A b : b # a => AttributeAt(t, b) = AttributeAt(s, b)
    /\ AttributeAt(s, a) = {} => AttributeAt(t, a) = {Len(s) + 1}

\* An attribute behind a cookie.
LEMMA Behind ==
    ASSUME NEW T, NEW s \in Cookies(T), NEW a, NEW e \in T, e = Added(a), NEW t, t = s \o <<e>>
    PROVE  OneMore(T, s, a, t)
<1>1. e \in T /\ e.name = a
  BY DEF Added
<1>2. s \in Seq(T) /\ Len(s) \in Nat /\ Len(s) >= 1
  <2>1. s \in Seq(T) /\ s # <<>>
    BY DEF Cookies
  <2> QED
    BY <2>1, EmptySeq
<1>3. <<e>> \in Seq(T) /\ Len(<<e>>) = 1 /\ <<e>>[1] = e
  BY <1>1
<1>4. t \in Seq(T) /\ Len(t) = Len(s) + 1
      /\ \A k \in 1..Len(s) + 1 : t[k] = IF k <= Len(s) THEN s[k] ELSE <<e>>[k - Len(s)]
  BY <1>2, <1>3, ConcatProperties
<1>5. \A k \in 1..Len(s) : t[k] = s[k]
  BY <1>2, <1>4
<1>6. t[Len(s) + 1] = e
  <2>1. Len(s) + 1 \in 1..Len(s) + 1 /\ ~(Len(s) + 1 <= Len(s)) /\ Len(s) + 1 - Len(s) = 1
    BY <1>2
  <2> QED
    BY <1>3, <1>4, <2>1
<1>7. \A k \in 2..Len(t) : k \in 2..Len(s) \/ k = Len(s) + 1
  BY <1>2, <1>4
<1>8. \A k \in 2..Len(s) : k \in 2..Len(t) /\ k \in 1..Len(s)
  BY <1>2, <1>4
<1>9. ASSUME NEW b, b # a PROVE AttributeAt(t, b) = AttributeAt(s, b)
  <2>1. t[Len(s) + 1].name # b
    BY <1>1, <1>6, <1>9
  <2> QED
    BY <1>5, <1>7, <1>8, <2>1 DEF AttributeAt
<1>10. ASSUME AttributeAt(s, a) = {} PROVE AttributeAt(t, a) = {Len(s) + 1}
  <2>1. \A k \in 2..Len(s) : s[k].name # a
    BY <1>10 DEF AttributeAt
  <2>2. Len(s) + 1 \in 2..Len(t) /\ t[Len(s) + 1].name = a
    BY <1>1, <1>2, <1>4, <1>6
  <2> QED
    BY <1>5, <1>7, <1>8, <2>1, <2>2 DEF AttributeAt
<1>11. t # <<>>
  BY <1>2, <1>4
<1>12. t \in Cookies(T)
  BY <1>4, <1>11 DEF Cookies
<1> QED
  BY <1>4, <1>5, <1>9, <1>10, <1>12 DEF OneMore

\* A cookie that has become `r`, with one more attribute unless it has it or it is not wanted.
With(s, r, a, wanted) ==
    r \o (IF wanted THEN IF a \in {x.name : x \in Attributes(s)} THEN <<>> ELSE <<Added(a)>> ELSE <<>>)

\* What holds of a cookie and of what it becomes, attribute by attribute.
Extends(T, s, t) == t \in Cookies(T) /\ Len(s) <= Len(t) /\ \A k \in 1..Len(s) : t[k] = s[k]

\* An attribute that is wanted, behind what the cookie has become: where it was, or once at the end.  The
\* other attributes stay where they are.
LEMMA AttributeStep ==
    ASSUME NEW T, NEW s \in Cookies(T), NEW r, Extends(T, s, r), NEW a, Added(a) \in T, NEW wanted \in BOOLEAN,
           AttributeAt(r, a) = AttributeAt(s, a), NEW t, t = With(s, r, a, wanted)
    PROVE  /\ Extends(T, s, t)
           /\ \A b : b # a => AttributeAt(t, b) = AttributeAt(r, b)
           /\ wanted => AddedOnce(s, t, a)
           /\ Len(r) <= Len(t)
<1> DEFINE has == a \in {x.name : x \in Attributes(s)}
<1>t. t = r \o (IF wanted THEN IF has THEN <<>> ELSE <<Added(a)>> ELSE <<>>)
  BY DEF With
<1>1. has <=> AttributeAt(s, a) # {}
  <2>1. has <=> \E k \in 2..Len(s) : s[k].name = a
    BY DEF Attributes
  <2> HIDE DEF has
  <2> QED
    BY <2>1 DEF AttributeAt
<1>2. r \in Cookies(T) /\ r \in Seq(T) /\ Len(r) \in Nat /\ Len(s) \in Nat /\ Len(s) <= Len(r)
  BY DEF Extends, Cookies
<1> HIDE DEF has
<1>3. CASE ~wanted \/ has
  <2>1. t = r \o <<>>
    BY <1>3, <1>t
  <2>2. r \o <<>> = r
    BY <1>2, ConcatEmptySeq
  <2>3. t = r
    BY <2>1, <2>2
  <2>4. wanted => AddedOnce(s, t, a)
    BY <1>1, <1>3, <2>3 DEF AddedOnce
  <2>5. Extends(T, s, t) /\ Len(r) <= Len(t) /\ \A b : b # a => AttributeAt(t, b) = AttributeAt(r, b)
    BY <1>2, <2>3
  <2> QED
    BY <2>4, <2>5
<1>4. CASE wanted /\ ~has
  <2>1. t = r \o <<Added(a)>>
    BY <1>4, <1>t
  <2>2. /\ t \in Cookies(T) /\ Len(t) = Len(r) + 1
        /\ \A k \in 1..Len(r) : t[k] = r[k]
        /\ \A b : b # a => AttributeAt(t, b) = AttributeAt(r, b)
        /\ AttributeAt(r, a) = {} => AttributeAt(t, a) = {Len(r) + 1}
    <3>1. r \in Cookies(T) /\ Added(a) \in T
      BY <1>2
    <3>2. PICK e \in T : e = Added(a)
      BY <3>1
    <3>3. t = r \o <<e>>
      BY <2>1, <3>2
    <3>4. OneMore(T, r, a, t)
      BY <3>1, <3>2, <3>3, Behind, Zenon
    <3> QED
      BY <3>4 DEF OneMore
  <2>3. \A k \in 1..Len(s) : k \in 1..Len(r)
    BY <1>2
  <2>4. Extends(T, s, t) /\ Len(r) <= Len(t)
    BY <1>2, <2>2, <2>3 DEF Extends
  <2>5. AttributeAt(s, a) = {} /\ AttributeAt(t, a) = {Len(r) + 1} /\ Len(r) + 1 \in (Len(s) + 1)..Len(t)
    <3>1. AttributeAt(s, a) = {}
      BY <1>1, <1>4
    <3>2. AttributeAt(t, a) = {Len(r) + 1}
      BY <2>2, <3>1
    <3>3. Len(r) + 1 \in (Len(s) + 1)..(Len(r) + 1)
      BY <1>2
    <3> QED
      BY <2>2, <3>1, <3>2, <3>3
  <2>6. AddedOnce(s, t, a)
    BY <2>5 DEF AddedOnce
  <2> QED
    BY <2>2, <2>4, <2>6
<1> QED
  BY <1>3, <1>4

\* A hardened cookie.
LEMMA HardenedIs ==
    ASSUME NEW c, NEW s, IsCookie(s)
    PROVE  LET t == HardenCookie(c, s)
           IN /\ Len(s) <= Len(t) /\ \A k \in 1..Len(s) : t[k] = s[k]
              /\ AddedOnce(s, t, "secure") /\ AddedOnce(s, t, "samesite")
              /\ c.httponly /\ t[1].name \notin c.exempt => AddedOnce(s, t, "httponly")
<1>1. PICK wanted \in BOOLEAN : wanted = (c.httponly /\ s[1].name \notin c.exempt)
  <2>1. (c.httponly /\ s[1].name \notin c.exempt) \in BOOLEAN
    OBVIOUS
  <2> QED
    BY <2>1, Zenon
<1> DEFINE T == CookieParts(s) \cup {Added("secure"), Added("httponly"), Added("samesite")}
<1>0. s \in Cookies(T) /\ Added("secure") \in T /\ Added("httponly") \in T /\ Added("samesite") \in T
  <2>1. s \in Seq(CookieParts(s)) /\ s # <<>>
    BY DEF IsCookie
  <2>2. CookieParts(s) \subseteq T
    OBVIOUS
  <2>3. s \in Seq(T)
    <3> HIDE DEF T
    <3> QED
      BY <2>1, <2>2
  <2> QED
    BY <2>1, <2>3 DEF Cookies
<1> HIDE DEF T
<1>2. Extends(T, s, s)
  BY <1>0 DEF Extends, Cookies
<1>y. PICK yes \in BOOLEAN : yes
  OBVIOUS
<1>t1. PICK t1 : t1 = With(s, s, "secure", yes)
  OBVIOUS
<1>3. /\ Extends(T, s, t1) /\ AddedOnce(s, t1, "secure")
      /\ \A b : b # "secure" => AttributeAt(t1, b) = AttributeAt(s, b)
  <2>1. /\ Extends(T, s, t1) /\ (yes => AddedOnce(s, t1, "secure"))
        /\ \A b : b # "secure" => AttributeAt(t1, b) = AttributeAt(s, b)
    BY <1>0, <1>2, <1>t1, AttributeStep
  <2> QED
    BY <1>y, <2>1, Zenon
<1>4. AttributeAt(t1, "httponly") = AttributeAt(s, "httponly")
  BY <1>3
<1>t2. PICK t2 : t2 = With(s, t1, "httponly", wanted)
  OBVIOUS
<1>5. /\ Extends(T, s, t2) /\ (wanted => AddedOnce(s, t2, "httponly"))
      /\ \A b : b # "httponly" => AttributeAt(t2, b) = AttributeAt(t1, b)
      /\ Len(t1) <= Len(t2)
  BY <1>0, <1>3, <1>4, <1>t2, AttributeStep
<1>6. AttributeAt(t2, "samesite") = AttributeAt(s, "samesite")
  BY <1>3, <1>5
<1>t3. PICK t3 : t3 = With(s, t2, "samesite", yes)
  OBVIOUS
<1>7. /\ Extends(T, s, t3) /\ AddedOnce(s, t3, "samesite")
      /\ \A b : b # "samesite" => AttributeAt(t3, b) = AttributeAt(t2, b)
      /\ Len(t2) <= Len(t3)
  <2>1. /\ Extends(T, s, t3) /\ (yes => AddedOnce(s, t3, "samesite"))
        /\ \A b : b # "samesite" => AttributeAt(t3, b) = AttributeAt(t2, b)
        /\ Len(t2) <= Len(t3)
    BY <1>0, <1>5, <1>6, <1>t3, AttributeStep
  <2> QED
    BY <1>y, <2>1, Zenon
<1>8. t3 = HardenCookie(c, s)
  <2> DEFINE attr(a) == IF a \in {x.name : x \in Attributes(s)} THEN <<>> ELSE <<[name |-> a, value |-> ""]>>
  <2>1. HardenCookie(c, s) = s \o attr("secure") \o (IF wanted THEN attr("httponly") ELSE <<>>) \o attr("samesite")
    BY <1>1, Zenon DEF HardenCookie
  <2>2. t1 = s \o attr("secure") /\ t2 = t1 \o (IF wanted THEN attr("httponly") ELSE <<>>) /\ t3 = t2 \o attr("samesite")
    BY <1>y, <1>t1, <1>t2, <1>t3, Zenon DEF With, Added
  <2> HIDE DEF attr
  <2> QED
    BY <2>1, <2>2
<1>9. /\ AttributeAt(t3, "secure") = AttributeAt(t1, "secure") /\ AttributeAt(t3, "httponly") = AttributeAt(t2, "httponly")
      /\ Len(s) \in Nat /\ Len(t1) \in Nat /\ Len(t2) \in Nat /\ Len(t3) \in Nat
      /\ Len(t1) <= Len(t3) /\ Len(t2) <= Len(t3)
  <2>1. Len(s) \in Nat /\ Len(t1) \in Nat /\ Len(t2) \in Nat /\ Len(t3) \in Nat
    <3>1. s \in Seq(T) /\ t1 \in Seq(T) /\ t2 \in Seq(T) /\ t3 \in Seq(T)
      BY <1>0, <1>3, <1>5, <1>7, Zenon DEF Extends, Cookies
    <3> QED
      BY <3>1
  <2>2. AttributeAt(t3, "secure") = AttributeAt(t2, "secure") /\ AttributeAt(t2, "secure") = AttributeAt(t1, "secure")
        /\ AttributeAt(t3, "httponly") = AttributeAt(t2, "httponly")
    BY <1>5, <1>7
  <2> QED
    BY <1>5, <1>7, <2>1, <2>2
<1>10. AddedOnce(s, t3, "secure") /\ (wanted => AddedOnce(s, t3, "httponly"))
  <2>1. \A k : k \in (Len(s) + 1)..Len(t1) => k \in (Len(s) + 1)..Len(t3)
    BY <1>9
  <2>2. \A k : k \in (Len(s) + 1)..Len(t2) => k \in (Len(s) + 1)..Len(t3)
    BY <1>9
  <2> QED
    BY <1>3, <1>5, <1>9, <2>1, <2>2, Zenon DEF AddedOnce
<1>11. t3[1] = s[1]
  <2>1. 1 \in 1..Len(s)
    BY <1>0, EmptySeq DEF Cookies
  <2> QED
    BY <1>7, <2>1 DEF Extends
<1> QED
  BY <1>1, <1>7, <1>8, <1>10, <1>11 DEF Extends

\* What an answer that an origin is given may say of origins.
Proper(c, o, a) ==
    \/ a.allow = NoOrigin
    \/ c.any /\ a.allow = Star /\ ~a.credentials
    \/ ~c.any /\ a.allow = o /\ o.name \in c.origins

\* An answer that names an origin is not for others.
Varies(c, a) == c.any \/ a.allow = NoOrigin \/ a.vary

\* Its cookies are an upstream's, hardened where they are text.
SentOn(c, cookie) == IF ToStr(cookie) THEN HardenCookie(c, cookie) ELSE cookie
Hardened(c, a) ==
    c.secure_cookies =>
        \A i \in DOMAIN a.cookies : \E src \in UpAnswers :
            i \in DOMAIN src.cookies /\ a.cookies[i] = SentOn(c, src.cookies[i])

Fields == {"headers", "vary", "cookies", "allow", "credentials", "exposed"}

\* The cross-origin headers of an answer that had none.
LEMMA DecorateIs ==
    ASSUME NEW c, CorsOk(c), NEW o, NEW a, DOMAIN a = Fields, a.allow = NoOrigin, NEW d, d = Decorate(c, o, a)
    PROVE  /\ Proper(c, o, d) /\ Varies(c, d) /\ d.cookies = a.cookies
           /\ c.enabled /\ o # NoOrigin => d.allow = AllowOrigin(c, o)
<1>1. CASE ~c.enabled \/ o = NoOrigin \/ AllowOrigin(c, o) = NoOrigin
  <2>1. d = a
    BY <1>1 DEF Decorate
  <2> QED
    BY <1>1, <2>1 DEF Proper, Varies
<1>2. CASE ~(~c.enabled \/ o = NoOrigin \/ AllowOrigin(c, o) = NoOrigin)
  <2>1. PICK w : w = AllowOrigin(c, o)
    OBVIOUS
  <2>2. PICK v : v = (a.vary \/ ~c.any)
    OBVIOUS
  <2>3. d = [[a EXCEPT !.allow = w, !.credentials = c.credentials, !.vary = v] EXCEPT !.exposed = c.exposed]
    BY <1>2, <2>1, <2>2, Zenon DEF Decorate, SetOrigin
  <2>4. d.allow = w /\ d.credentials = c.credentials /\ d.vary = v /\ d.cookies = a.cookies
    BY <2>3 DEF Fields
  <2>5. w = IF c.any THEN Star ELSE IF o.name \in c.origins THEN o ELSE NoOrigin
    BY <2>1 DEF AllowOrigin
  <2>6. w # NoOrigin
    BY <1>2, <2>1
  <2>7. c.any => ~d.credentials
    BY <1>2, <2>4, Zenon DEF CorsOk
  <2>8. Proper(c, o, d)
    BY <2>4, <2>5, <2>6, <2>7, Zenon DEF Proper
  <2>9. Varies(c, d)
    <3>1. ~c.any => v
      BY <2>2
    <3> QED
      BY <2>4, <3>1, Zenon DEF Varies
  <2> QED
    BY <2>1, <2>4, <2>8, <2>9, Zenon
<1> QED
  BY <1>1, <1>2

\* An upstream's answer, hardened.
LEMMA HardenIs ==
    ASSUME NEW c, NEW src \in UpAnswers, NEW a, a = Harden(c, UpAnswer(src))
    PROVE  DOMAIN a = Fields /\ a.allow = NoOrigin /\ Hardened(c, a)
<1>1. PICK u : u = UpAnswer(src)
  OBVIOUS
<1>2. u = [headers |-> src.headers, vary |-> src.vary, cookies |-> src.cookies, allow |-> NoOrigin, credentials |-> FALSE, exposed |-> {}]
  BY <1>1 DEF UpAnswer, BareAnswer
<1>3. PICK h, v, w : /\ h = (u.headers \cup SecurityHeaders(c)) \ c.strip /\ v = (u.vary /\ "vary" \notin c.strip)
                     /\ w = IF "set-cookie" \in c.strip THEN <<>>
                            ELSE IF c.secure_cookies THEN [i \in DOMAIN u.cookies |-> SentOn(c, u.cookies[i])]
                            ELSE u.cookies
  OBVIOUS
<1>4. a = [u EXCEPT !.headers = h, !.vary = v, !.cookies = w]
  BY <1>1, <1>3, Zenon DEF Harden, SentOn
<1>5. DOMAIN a = Fields /\ a.allow = NoOrigin /\ a.cookies = w
  BY <1>2, <1>4 DEF Fields
<1>6. u.cookies = src.cookies
  BY <1>2
<1>7. ASSUME c.secure_cookies, NEW i \in DOMAIN a.cookies
      PROVE  i \in DOMAIN src.cookies /\ a.cookies[i] = SentOn(c, src.cookies[i])
  <2>0. "set-cookie" \notin c.strip
    <3>1. DOMAIN <<>> = {}
      OBVIOUS
    <3> QED
      BY <1>3, <1>5, <1>7, <3>1, Zenon
  <2>1. a.cookies = [k \in DOMAIN src.cookies |-> SentOn(c, src.cookies[k])]
    BY <1>3, <1>5, <1>6, <1>7, <2>0, Zenon
  <2> QED
    BY <1>7, <2>1
<1>8. Hardened(c, a)
  BY <1>7, Zenon DEF Hardened
<1> QED
  BY <1>5, <1>8

\* An answer without headers has nothing to harden.
LEMMA BareIs ==
    DOMAIN BareAnswer = Fields /\ BareAnswer.allow = NoOrigin /\ \A c : Hardened(c, BareAnswer)
<1>1. DOMAIN BareAnswer = Fields /\ BareAnswer.allow = NoOrigin /\ BareAnswer.cookies = <<>>
  BY DEF BareAnswer, Fields
<1>2. DOMAIN <<>> = {}
  OBVIOUS
<1> QED
  BY <1>1, <1>2 DEF Hardened

\* The browsers' inductive invariant.
GivenWell ==
    /\ Proper(rules, got.to, got.answer) /\ Hardened(rules, got.answer)
    /\ ~got.cached /\ ~got.preflight /\ got.to # NoOrigin /\ rules.enabled => got.answer.allow = AllowOrigin(rules, got.to)
CacheWell == \A k \in cache : Proper(rules, k.from, k.answer) /\ Varies(rules, k.answer) /\ Hardened(rules, k.answer)
AnswersInv == rules \in CorsPolicies /\ CorsOk(rules) /\ CacheWell /\ GivenWell

\* What got holds after an answer is given.
LEMMA GiveIs ==
    ASSUME NEW o, NEW a, NEW edge, NEW cached, Give(o, a, edge, cached)
    PROVE  got'.to = o /\ got'.answer = a /\ got'.cached = cached /\ got'.preflight = FALSE
  BY DEF Give

\* It holds at first.
LEMMA AnswersFirst ==
    ASSUME AnswersInit
    PROVE  AnswersInv
<1>1. rules \in CorsPolicies /\ CorsOk(rules) /\ cache = {} /\ got.to = NoOrigin /\ got.answer = BareAnswer
  BY DEF AnswersInit
<1>2. GivenWell
  BY <1>1, BareIs DEF GivenWell, Proper
<1> QED
  BY <1>1, <1>2 DEF AnswersInv, CacheWell

\* An upstream's answer is given and kept.
LEMMA AskUpstreamStep ==
    ASSUME AnswersInv, NEW o, AskUpstream(o)
    PROVE  AnswersInv'
<1>1. PICK src \in UpAnswers : LET a == Answered(rules, o, UpAnswer(src))
                             IN Give(o, a, FALSE, FALSE) /\ cache' = cache \cup {[from |-> o, answer |-> a]}
  BY DEF AskUpstream
<1>2. PICK a : a = Answered(rules, o, UpAnswer(src))
  OBVIOUS
<1>3. Give(o, a, FALSE, FALSE) /\ cache' = cache \cup {[from |-> o, answer |-> a]} /\ rules' = rules
  BY <1>1, <1>2 DEF AskUpstream
<1>4. PICK h : h = Harden(rules, UpAnswer(src))
  OBVIOUS
<1>5. DOMAIN h = Fields /\ h.allow = NoOrigin /\ Hardened(rules, h)
  BY <1>4, HardenIs
<1>6. a = Decorate(rules, o, h) /\ CorsOk(rules)
  BY <1>2, <1>4 DEF Answered, AnswersInv
<1>7. /\ Proper(rules, o, a) /\ Varies(rules, a) /\ a.cookies = h.cookies
      /\ rules.enabled /\ o # NoOrigin => a.allow = AllowOrigin(rules, o)
  BY <1>5, <1>6, DecorateIs
<1>8. Hardened(rules, a)
  BY <1>5, <1>7 DEF Hardened
<1>9. got'.to = o /\ got'.answer = a
  BY <1>3, GiveIs
<1>10. GivenWell'
  BY <1>3, <1>7, <1>8, <1>9 DEF GivenWell
<1>11. CacheWell'
  <2>1. SUFFICES ASSUME NEW k \in cache' PROVE Proper(rules, k.from, k.answer) /\ Varies(rules, k.answer) /\ Hardened(rules, k.answer)
    BY <1>3 DEF CacheWell
  <2>2. k \in cache \/ (k.from = o /\ k.answer = a)
    BY <1>3
  <2> QED
    BY <1>7, <1>8, <2>2 DEF AnswersInv, CacheWell
<1> QED
  BY <1>3, <1>10, <1>11 DEF AnswersInv

\* A refusal of the edge's own.
LEMMA RefusedAnswerStep ==
    ASSUME AnswersInv, NEW o, Refused(o)
    PROVE  AnswersInv'
<1>1. PICK a : a = EdgeAnswer(rules, o)
  OBVIOUS
<1>2. Give(o, a, TRUE, FALSE) /\ cache' = cache /\ rules' = rules
  BY <1>1 DEF Refused
<1>3. a = Decorate(rules, o, BareAnswer) /\ CorsOk(rules)
  BY <1>1 DEF EdgeAnswer, AnswersInv
<1>4. /\ Proper(rules, o, a) /\ Varies(rules, a) /\ a.cookies = BareAnswer.cookies
      /\ rules.enabled /\ o # NoOrigin => a.allow = AllowOrigin(rules, o)
  BY <1>3, BareIs, DecorateIs
<1>5. Hardened(rules, a)
  BY <1>4, BareIs DEF Hardened
<1>6. got'.to = o /\ got'.answer = a
  BY <1>2, GiveIs
<1>7. GivenWell'
  BY <1>2, <1>4, <1>5, <1>6 DEF GivenWell
<1> QED
  BY <1>2, <1>7 DEF AnswersInv, CacheWell

\* An answer of the cache.
LEMMA FromCacheStep ==
    ASSUME AnswersInv, NEW o, FromCache(o)
    PROVE  AnswersInv'
<1>1. PICK k \in Kept(o) : Give(o, k.answer, FALSE, TRUE) /\ cache' = cache /\ rules' = rules
  BY DEF FromCache
<1>2. k \in cache /\ (k.answer.vary => k.from = o)
  BY DEF Kept
<1>3. Proper(rules, k.from, k.answer) /\ Varies(rules, k.answer) /\ Hardened(rules, k.answer)
  BY <1>2 DEF AnswersInv, CacheWell
<1>4. Proper(rules, o, k.answer)
  BY <1>2, <1>3, Zenon DEF Proper, Varies
<1>5. got'.to = o /\ got'.answer = k.answer /\ got'.cached = TRUE
  BY <1>1, GiveIs
<1>6. GivenWell'
  BY <1>1, <1>3, <1>4, <1>5 DEF GivenWell
<1> QED
  BY <1>1, <1>6 DEF AnswersInv, CacheWell

\* A preflight.
LEMMA AskPreflightStep ==
    ASSUME AnswersInv, NEW o, AskPreflight(o)
    PROVE  AnswersInv'
<1>1. PICK wanted \in {{}, {"x-a"}, {"x-a", "x-b"}} :
        LET p == Preflight(rules, o, wanted)
        IN got' = [to |-> o, answer |-> [BareAnswer EXCEPT !.allow = p.allow], edge |-> TRUE, cached |-> FALSE,
                   granted |-> p.granted, preflight |-> TRUE]
  BY DEF AskPreflight
<1>2. PICK w, g : w = Preflight(rules, o, wanted).allow /\ g = Preflight(rules, o, wanted).granted
  OBVIOUS
<1>3. got' = [to |-> o, answer |-> [BareAnswer EXCEPT !.allow = w], edge |-> TRUE, cached |-> FALSE, granted |-> g, preflight |-> TRUE]
  BY <1>1, <1>2
<1>4. rules' = rules /\ cache' = cache /\ rules.enabled
  BY DEF AskPreflight
<1>5. PICK a : a = [BareAnswer EXCEPT !.allow = w]
  OBVIOUS
<1>6. got'.to = o /\ got'.answer = a /\ got'.preflight
  BY <1>3, <1>5
<1>7. a.allow = w /\ a.credentials = FALSE /\ a.cookies = BareAnswer.cookies
  BY <1>5 DEF BareAnswer
<1>8. w = AllowOrigin(rules, o)
  BY <1>2 DEF Preflight
<1>9. Proper(rules, o, a)
  BY <1>7, <1>8 DEF AllowOrigin, Proper
<1>10. Hardened(rules, a)
  BY <1>7, BareIs DEF Hardened
<1>11. GivenWell'
  BY <1>4, <1>6, <1>9, <1>10 DEF GivenWell
<1> QED
  BY <1>4, <1>11 DEF AnswersInv, CacheWell

\* What the invariant says to a browser.
LEMMA AnswersInvGives ==
    ASSUME AnswersInv
    PROVE  AnswersKept
<1>1. rules \in CorsPolicies /\ CorsOk(rules) /\ GivenWell
  BY DEF AnswersInv
<1>2. "*" \notin rules.origins
  BY <1>1, AnswersAssumption
<1>3. Star # NoOrigin /\ Star.name = "*"
  <2>1. Star.name = "*" /\ NoOrigin.name = ""
    BY DEF Star, NoOrigin
  <2> QED
    BY <2>1
<1>4. CorsIsolated
  BY <1>1, <1>2, <1>3 DEF GivenWell, Proper, CorsIsolated
<1>5. PreflightIsKept
  <2>1. SUFFICES ASSUME got.to # NoOrigin, rules.enabled, ~got.preflight, ~got.cached
                 PROVE  Preflight(rules, got.to, {}).allow # NoOrigin <=> Readable(got.to, got.answer, rules.credentials)
    BY DEF PreflightIsKept
  <2>2. got.answer.allow = AllowOrigin(rules, got.to)
    BY <1>1, <2>1 DEF GivenWell
  <2>3. Preflight(rules, got.to, {}).allow = AllowOrigin(rules, got.to)
    BY DEF Preflight
  <2>4. rules.any => ~rules.credentials
    BY <1>1, <2>1, Zenon DEF CorsOk
  <2>5. AllowOrigin(rules, got.to) = IF rules.any THEN Star ELSE IF got.to.name \in rules.origins THEN got.to ELSE NoOrigin
    BY DEF AllowOrigin
  <2> QED
    BY <1>3, <2>1, <2>2, <2>3, <2>4, <2>5, Zenon DEF Readable
<1>6. CookiesHardened
  <2>1. SUFFICES ASSUME rules.secure_cookies, NEW i \in DOMAIN got.answer.cookies
                 PROVE  \E src \in UpAnswers :
                          LET cookie == got.answer.cookies[i]
                              sent == src.cookies[i]
                          IN /\ i \in DOMAIN src.cookies
                             /\ Len(sent) <= Len(cookie) /\ \A k \in 1..Len(sent) : cookie[k] = sent[k]
                             /\ IF ToStr(sent)
                                THEN /\ AddedOnce(sent, cookie, "secure") /\ AddedOnce(sent, cookie, "samesite")
                                     /\ rules.httponly /\ cookie[1].name \notin rules.exempt =>
                                           AddedOnce(sent, cookie, "httponly")
                                ELSE cookie = sent
    BY DEF CookiesHardened
  <2>2. PICK src \in UpAnswers : i \in DOMAIN src.cookies /\ got.answer.cookies[i] = SentOn(rules, src.cookies[i])
    BY <1>1, <2>1 DEF GivenWell, Hardened
  <2>3. PICK s, t : s = src.cookies[i] /\ t = SentOn(rules, s)
    OBVIOUS
  <2>4. IsCookie(s)
    BY <2>2, <2>3, AnswersAssumption
  <2>5. /\ Len(s) <= Len(t) /\ \A k \in 1..Len(s) : t[k] = s[k]
        /\ IF ToStr(s)
           THEN /\ AddedOnce(s, t, "secure") /\ AddedOnce(s, t, "samesite")
                /\ rules.httponly /\ t[1].name \notin rules.exempt => AddedOnce(s, t, "httponly")
           ELSE t = s
    <3>1. CASE ToStr(s)
      <4>1. t = HardenCookie(rules, s)
        BY <2>3, <3>1 DEF SentOn
      <4> QED
        BY <2>4, <3>1, <4>1, HardenedIs
    <3>2. CASE ~ToStr(s)
      <4>1. t = s
        BY <2>3, <3>2 DEF SentOn
      <4>2. Len(s) \in Nat
        BY <2>4 DEF IsCookie
      <4> QED
        BY <3>2, <4>1, <4>2
    <3> QED
      BY <3>1, <3>2
  <2> WITNESS src \in UpAnswers
  <2> QED
    BY <2>2, <2>3, <2>5
<1> QED
  BY <1>4, <1>5, <1>6 DEF AnswersKept

\* Through any cache that several origins share, a browser is shown only its own origin or any, never with
\* credentials for any, an origin whose preflight passes can read what it then asks for and no other can,
\* and every cookie an upstream sets arrives hardened, its own parts as they were (decorate_origin in
\* src/cors.rs, harden_response in src/proxy.rs).  For every policy that loads, origin and answer.
THEOREM BrowsersAreTold == AnswersSpec => []AnswersKept
<1>1. AnswersInit => AnswersInv
  BY AnswersFirst
<1>2. AnswersInv /\ [AnswersNext]_answerVars => AnswersInv'
  <2> SUFFICES ASSUME AnswersInv, [AnswersNext]_answerVars PROVE AnswersInv'
    OBVIOUS
  <2>1. CASE UNCHANGED answerVars
    BY <2>1 DEF answerVars, AnswersInv, CacheWell, GivenWell
  <2>2. CASE AnswersNext
    BY <2>2, AskUpstreamStep, RefusedAnswerStep, FromCacheStep, AskPreflightStep DEF AnswersNext
  <2> QED
    BY <2>1, <2>2
<1>3. AnswersInv => AnswersKept
  BY AnswersInvGives
<1> QED
  BY <1>1, <1>2, <1>3, PTL DEF AnswersSpec
=============================================================================
