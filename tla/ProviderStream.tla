--------------------------- MODULE ProviderStream ---------------------------
(***************************************************************************)
(* One streamed completion, from the provider's events to the caller's     *)
(* (dataplane/internal/adapters/anthropic, adapters/openaicompat,          *)
(* httpapi/server.go streamCompletion, httpapi/errors.go).  The provider   *)
(* may fail, stop short or say anything; the caller may hang up.           *)
(*                                                                         *)
(* A payload is its position among the provider's data lines.  Token       *)
(* counts are by class, as core.TokenUsage has them.                       *)
(***************************************************************************)
EXTENDS Naturals, Sequences

CONSTANTS Reports,        \* usage a provider may report, as it reports it
          MaxLines        \* lines of one stream

ASSUME StreamAssumption ==
  /\ Reports \subseteq [prompt: Nat, cached: Nat, write: Nat, output: Nat]
  /\ MaxLines \in Nat

VARIABLES dialect,        \* "anthropic" or "openai"
          pc,             \* "start", "relay", "flush" or "done"
          lines,          \* history: what the provider has sent
          finished, usage,    \* the adapter's stream
          upstream,       \* the provider's body is open
          relayed,        \* the payloads the caller has been sent
          signal,         \* how the response ended for the caller
          recorded,       \* what Finish was called with, in order
          seen            \* streamCompletion's own usage

streamVars == <<dialect, pc, lines, finished, usage, upstream, relayed, signal, recorded, seen>>

NoUsage == [input |-> 0, cached |-> 0, write |-> 0, output |-> 0]

StreamInit ==
  /\ dialect \in {"anthropic", "openai"}
  /\ pc = "start"
  /\ lines = <<>>
  /\ finished = FALSE /\ usage = NoUsage /\ upstream = FALSE
  /\ relayed = <<>> /\ signal = "none" /\ recorded = <<>> /\ seen = NoUsage

-----------------------------------------------------------------------------
(* Starting the stream *)

NoError == ""                  \* the code of a stream that ended well

\* core.Error: the code, and whether another deployment may be tried.
Error(code, retryable) == [code |-> code, retryable |-> retryable]

\* upstreamError: an answer the provider refused the request with.
upstreamError(status) == Error("upstream_error", status = 429 \/ status >= 500)

\* Provider.send: no answer.  A cancelled context's own error has no code.
sendError(cause) ==
  CASE cause = "deadline" -> Error("upstream_timeout", TRUE)
    [] cause = "canceled" -> Error("internal", FALSE)
    [] cause = "body" -> Error("invalid_request", FALSE)
    [] OTHER -> Error("upstream_error", TRUE)

statusByCode ==
  [unauthenticated |-> 401, forbidden |-> 403, trust_tier_denied |-> 403,
   invalid_request |-> 400, model_not_found |-> 404, endpoint_unsupported |-> 404,
   no_candidates |-> 503, rate_limited |-> 429, budget_exhausted |-> 402,
   guardrail_denied |-> 422, upstream_error |-> 502, upstream_timeout |-> 504,
   unavailable |-> 503, internal |-> 500]
writeError(e) ==
  [status |-> IF e.code \in DOMAIN statusByCode THEN statusByCode[e.code] ELSE 500,
   code |-> e.code]

\* HandleStream returns an error and nothing has been written.  It has emitted
\* the usage event itself.
Refused(e) ==
  /\ pc = "start"
  /\ signal' = "status"
  /\ recorded' = Append(recorded, [usage |-> NoUsage, code |-> e.code,
                                   status |-> writeError(e).status])
  /\ pc' = "done"
  /\ UNCHANGED <<dialect, lines, finished, usage, upstream, relayed, seen>>

Begin ==
  /\ pc = "start"
  /\ upstream' = TRUE
  /\ pc' = "relay"
  /\ UNCHANGED <<dialect, lines, finished, usage, relayed, signal, recorded, seen>>

-----------------------------------------------------------------------------
(* Lines of the provider, and what Next makes of each *)

Line(kind) == [kind |-> kind, report |-> <<>>]
Reporting(kind, report) == [kind |-> kind, report |-> <<report>>]

\* "data" is any other payload, one that does not parse included.
AnthropicLines ==
  {Line(k) : k \in {"data", "start", "delta", "stop"}}
    \cup {Reporting(k, r) : k \in {"start", "delta"}, r \in Reports}
OpenAILines ==
  {Line(k) : k \in {"data", "stop"}} \cup {Reporting("data", r) : r \in Reports}
Lines == IF dialect = "anthropic" THEN AnthropicLines ELSE OpenAILines

\* anthropicUsage.normalized: the classes are apart already.
normalized(r) == [input |-> r.prompt, cached |-> r.cached, write |-> r.write, output |-> r.output]
\* usageFrom: cached tokens are counted in the prompt's.
usageFrom(r) ==
  [input |-> IF r.prompt > r.cached THEN r.prompt - r.cached ELSE 0,
   cached |-> r.cached, write |-> 0, output |-> r.output]

\* Mutant of AnthropicUsage: a later report replaces the earlier one.
AnthropicUsageLast(l) == IF l.report = <<>> THEN usage ELSE normalized(l.report[1])

\* message_start begins the count; of a message_delta only what it has is taken.
AnthropicUsage(l) ==
  IF l.report = <<>> THEN usage
  ELSE LET u == normalized(l.report[1])
       IN  IF l.kind = "start" THEN u
           ELSE [class \in DOMAIN u |-> IF u[class] > 0 THEN u[class] ELSE usage[class]]
OpenAIUsage(l) ==
  IF l.report = <<>> THEN usage
  ELSE LET u == usageFrom(l.report[1]) IN IF u.input # 0 \/ u.output # 0 THEN u ELSE usage
Counted(l) == IF dialect = "anthropic" THEN AnthropicUsage(l) ELSE OpenAIUsage(l)

\* The terminator of openai has no payload to relay; message_stop is one.
HasPayload(l) == l.kind # "stop" \/ dialect = "anthropic"

\* The deferred calls of streamCompletion: Finish, then Close.
Finish(u, code) ==
  /\ recorded' = Append(recorded, [usage |-> u, code |-> code, status |-> 200])
  /\ upstream' = FALSE
  /\ pc' = "done"

\* Next skips a blank, comment or event line and goes on scanning.
Skip ==
  /\ pc = "relay" /\ ~finished /\ Len(lines) < MaxLines
  /\ lines' = Append(lines, Line("skip"))
  /\ UNCHANGED <<dialect, pc, finished, usage, upstream, relayed, signal, recorded, seen>>

\* Next returns a chunk, which is relayed, or found to have nobody to go to.
\* Only a final chunk carries usage.  What the restorer holds back of a chunk is
\* the subject of Pii; here it passes every chunk on.
Relay(l) ==
  /\ pc = "relay" /\ ~finished /\ Len(lines) < MaxLines
  /\ lines' = Append(lines, l)
  /\ usage' = Counted(l)
  /\ finished' = (l.kind = "stop")
  /\ seen' = IF l.kind = "stop" /\ (usage.input # 0 \/ usage.output # 0) THEN usage ELSE seen
  /\ \/ /\ relayed' = IF HasPayload(l) THEN Append(relayed, Len(lines) + 1) ELSE relayed
        /\ UNCHANGED <<pc, signal, recorded, upstream>>
     \/ /\ HasPayload(l)
        /\ signal' = "gone"
        /\ Finish(seen', "upstream_error")
        /\ UNCHANGED relayed
  /\ UNCHANGED dialect

\* Mutant of Breaks: a body that ends is a stream that ended.
BreaksAsEnd(code) ==
  /\ pc = "relay" /\ ~finished
  /\ pc' = "flush"
  /\ UNCHANGED <<dialect, lines, finished, usage, upstream, relayed, signal, recorded, seen>>

\* Next returns an error: the body ends or breaks without a terminator, a line
\* is too long, anthropic reports an error, the caller's context is done.
Breaks(code) ==
  /\ pc = "relay" /\ ~finished
  /\ signal' = "error"
  /\ Finish(seen, code)
  /\ UNCHANGED <<dialect, lines, finished, usage, relayed, seen>>

\* After the terminator Next returns io.EOF, unless the context is done.
EndOfStream ==
  /\ pc = "relay" /\ finished
  /\ \/ pc' = "flush" /\ UNCHANGED <<signal, recorded, upstream>>
     \/ signal' = "error" /\ Finish(seen, "internal")
  /\ UNCHANGED <<dialect, lines, finished, usage, relayed, seen>>

\* The restorer's tail and [DONE] are written; a caller who is gone is not told.
Done ==
  /\ pc = "flush"
  /\ signal' \in {"done", "gone"}
  /\ Finish(seen, NoError)
  /\ UNCHANGED <<dialect, lines, finished, usage, relayed, seen>>

StreamNext ==
  \/ \E cause \in {"deadline", "canceled", "body", "network"} : Refused(sendError(cause))
  \/ \E status \in {400, 429, 500} : Refused(upstreamError(status))
  \/ Begin
  \/ Skip
  \/ \E l \in Lines : Relay(l)
  \/ \E code \in {"upstream_error", "internal"} : Breaks(code)
  \/ EndOfStream
  \/ Done

StreamSafety == StreamInit /\ [][StreamNext]_streamVars

-----------------------------------------------------------------------------
(* Properties *)

Payload(i) == lines[i].kind # "skip" /\ HasPayload(lines[i])
Terminated == lines # <<>> /\ lines[Len(lines)].kind = "stop"

\* The lines that report a class; an openai report is a report of every class.
With(class) ==
  {i \in DOMAIN lines : /\ lines[i].report # <<>>
                        /\ dialect = "anthropic" => lines[i].report[1][class] > 0}
Reported(class) ==
  IF With(class) = {} THEN 0
  ELSE lines[CHOOSE i \in With(class) : \A j \in With(class) : j <= i].report[1][class]

\* The provider keeps to its protocol: a message starts once, before its deltas.
Conforms ==
  \A i, j \in DOMAIN lines :
    lines[j].kind = "start" /\ i < j => lines[i].kind = "skip"

\* A caller is told that a stream is complete only when the provider said so:
\* [DONE] comes after the provider's own terminator and every payload before it,
\* in order and none twice; a stream that stops short, however it does, ends in
\* an error event; before the first byte it is an error status instead; whatever
\* happens there is one usage record of it and the provider's body is closed
\* (stream.Next of both adapters, streamCompletion).
CompleteMeansTerminated ==
  /\ \A i, j \in DOMAIN relayed : i < j => relayed[i] < relayed[j]
  /\ signal = "done" =>
       /\ Terminated
       /\ {relayed[n] : n \in DOMAIN relayed} = {i \in DOMAIN lines : Payload(i)}
  /\ signal = "status" => relayed = <<>> /\ recorded[1].status >= 400
  /\ pc = "done" <=> Len(recorded) = 1
  /\ pc = "done" => ~upstream /\ signal # "none"
  /\ Len(recorded) <= 1

\* A stream that ends well is billed for what its provider reported: of every
\* class the last count given, tokens read from a cache taken out of the prompt
\* where the dialect counts them in it and no more of them than there are, and
\* none of them dropped or counted twice
\* (AnthropicUsage, usageFrom, streamCompletion's usage).
BilledAsReported ==
  signal = "done" /\ Conforms /\ Reported("output") > 0 =>
    LET u == recorded[1].usage
    IN  /\ u.output = Reported("output")
        /\ u.cached = Reported("cached")
        /\ IF dialect = "anthropic"
           THEN u.input = Reported("prompt") /\ u.write = Reported("write")
           ELSE Reported("cached") <= Reported("prompt") =>
                  u.input + u.cached = Reported("prompt")
=============================================================================
