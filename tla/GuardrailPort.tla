--------------------------- MODULE GuardrailPort ---------------------------
(***************************************************************************)
(* What one call of a guardrail component returns, by how the component    *)
(* runs: compiled in (adapters/secretscan, adapters/injectionheuristics),  *)
(* on a socket (adapters/guardrailsidecar) or as a WASM module             *)
(* (adapters/wasmguardrail over wasm).  An untrusted component answers     *)
(* with anything; the adapter turns the answer into a verdict or an error. *)
(***************************************************************************)

\* What a component's response carries: a verdict word, a payload or none.
Payloads == {"nil", "input", "rewritten"}
Response == [verdict: {"allow", "deny", "mutate", "other"},
             payload: Payloads, reason: BOOLEAN]

\* GuardrailResult, or the error in its place.  `canceled' is whether the error
\* wraps context.Canceled.
Failure(code, cancel) == [err |-> code, canceled |-> cancel]
Result(word, payload, reason) ==
  [err |-> "none", verdict |-> word, payload |-> payload, reason |-> reason]
Failed(result) == result.err # "none"

\* Neither an unknown verdict, nor a mutate without a payload, nor a payload
\* with another verdict is an answer.
toResult(r) ==
  IF \/ r.verdict = "other"
     \/ (r.verdict = "mutate") # (r.payload # "nil")
  THEN Failure("unavailable", FALSE)
  ELSE Result(r.verdict, r.payload, r.reason)

-----------------------------------------------------------------------------
(* Compiled in: a pattern is in the first maxScanBytes of the payload or none is *)

BuiltinInspect(expired, matched) ==
  IF expired THEN Failure("internal", FALSE)
  ELSE Result(IF matched THEN "deny" ELSE "allow", "nil", matched)

-----------------------------------------------------------------------------
(* On a socket.  An exchange x: whether the call is `answered', the         *)
(* `status', whether the `body' `parses' as JSON of the right shape within  *)
(* the limit.                                                               *)

SidecarInspect(x, cancel) ==
  IF ~x.answered THEN Failure("unavailable", cancel)
  ELSE IF x.status # 200 \/ ~x.parses THEN Failure("unavailable", FALSE)
  ELSE toResult(x.body)

-----------------------------------------------------------------------------
(* As a WASM module, in an instance of its own for the call.  What the guest *)
(* does: `starts' (_initialize returned), where alloc points, what handle    *)
(* does, and where the packed (pointer, length) it returns points.           *)

Places == {"inside", "outside"}
Guest == [starts: BOOLEAN,
          alloc: Places \cup {"traps", "values"},
          handle: {"returns", "traps", "values"},
          packed: Places \cup {"over"},   \* over: length > MaxOutputBytes
          parses: BOOLEAN, body: Response]

\* Module.Compile: the bytes are a module and export alloc and handle.
Module == [valid: BOOLEAN, exports: SUBSET {"alloc", "handle", "_initialize"}]
Compiles(m) == m.valid /\ {"alloc", "handle"} \subseteq m.exports

wrapGuestError(expired, cancel) ==
  Failure(IF expired THEN "upstream_timeout" ELSE "unavailable", cancel)

\* Module.writeInput.
writeInput(g, expired, cancel) ==
  CASE g.alloc = "traps" -> wrapGuestError(expired, cancel)
    [] g.alloc = "values" -> Failure("internal", FALSE)
    [] g.alloc = "outside" -> Failure("invalid_request", FALSE)
    [] OTHER -> [err |-> "none"]

readOutput(g) ==
  IF g.packed # "inside" THEN Failure("invalid_request", FALSE) ELSE [err |-> "none"]

\* Module.Call: a failure to start is reported as unavailable whatever the
\* cause was.  An expired context traps whatever guest code runs.
Call(g, expired, cancel) ==
  LET placed == writeInput(g, expired, cancel)
  IN  CASE ~g.starts -> Failure("unavailable", cancel)
        [] g.starts /\ Failed(placed) -> placed
        [] g.starts /\ ~Failed(placed) /\ g.handle = "traps" ->
             wrapGuestError(expired, cancel)
        [] g.starts /\ ~Failed(placed) /\ g.handle = "values" ->
             Failure("internal", FALSE)
        [] OTHER -> readOutput(g)

WasmInspect(g, expired, cancel) ==
  LET output == Call(g, expired, cancel)
  IN  IF Failed(output) THEN output
      ELSE IF ~g.parses THEN Failure("unavailable", FALSE)
      ELSE toResult(g.body)

\* What the module itself said, for a history: the whole call went through and
\* the response is one the protocol allows.
WasmSaid(g) ==
  IF /\ g.starts /\ g.alloc = "inside" /\ g.handle = "returns"
     /\ g.packed = "inside" /\ g.parses
     /\ g.body.verdict \in {"allow", "deny", "mutate"}
     /\ g.body.verdict = "mutate" <=> g.body.payload # "nil"
  THEN g.body.verdict ELSE "nothing"
=============================================================================
