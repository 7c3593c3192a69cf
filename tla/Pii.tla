--------------------------------- MODULE Pii ---------------------------------
(***************************************************************************)
(* Tokenising personal data and putting it back (dataplane/internal/pii):  *)
(* what the detectors found is merged and replaced by placeholders, and    *)
(* the response, which arrives in chunks cut anywhere, is restored as it   *)
(* is relayed.  The model's answer is the payload it was sent.             *)
(*                                                                         *)
(* A text is a sequence of characters.  A placeholder's kind and number    *)
(* are one character, so a placeholder is five: [[1]].                     *)
(***************************************************************************)
EXTENDS Integers, Sequences, FiniteSets, SequencesExt

CONSTANTS Payloads,            \* the texts to protect
          MaxMatches,          \* matches the detectors find in one
          MaxPlaceholderLen

VARIABLES payload,
          whole,         \* the transformed text, and the response
          replacements,  \* placeholder to original
          arrived,       \* characters of the response that have arrived
          held,          \* Restorer.held
          misses,        \* Restorer.misses
          received,      \* what the caller has been sent
          ended          \* Flush has been called

piiVars == <<payload, whole, replacements, arrived, held, misses, received, ended>>

-----------------------------------------------------------------------------
(* Detecting and transforming *)

\* A match covers the characters from .start to before .end.
Matches(text) == {[start |-> s, end |-> e] : s \in 1 .. Len(text), e \in 2 .. Len(text) + 1}
Found(text) ==
  {f \in UNION {[1 .. n -> Matches(text)] : n \in 0 .. MaxMatches} :
     \A i \in DOMAIN f : f[i].start < f[i].end}

\* sortByStart is stable.
sortByStart(found) ==
  LET before(i, j) == \/ found[i].start < found[j].start
                      \/ found[i].start = found[j].start /\ i < j
      order == SetToSortSeq(DOMAIN found, before)
  IN  [i \in DOMAIN found |-> found[order[i]]]

withoutOverlaps(found) ==
  FoldLeft(LAMBDA kept, m : IF kept # <<>> /\ m.start < Last(kept).end
                            THEN kept ELSE Append(kept, m),
           <<>>, sortByStart(found))

Placeholder(n) == <<"[", "[", ToString(n), "]", "]">>

\* TransformMatches under the tokenize strategy.
TransformMatches(text, matches) ==
  LET step(acc, m) ==
        [out |-> acc.out \o SubSeq(text, acc.last, m.start - 1) \o Placeholder(acc.n + 1),
         last |-> m.end, n |-> acc.n + 1]
      done == FoldLeft(step, [out |-> <<>>, last |-> 1, n |-> 0], matches)
  IN  [payload |-> done.out \o SubSeq(text, done.last, Len(text)),
       replacements |-> [p \in {Placeholder(i) : i \in DOMAIN matches} |->
                           LET m == matches[CHOOSE i \in DOMAIN matches : p = Placeholder(i)]
                           IN  SubSeq(text, m.start, m.end - 1)]]

-----------------------------------------------------------------------------
(* Restoring *)

\* placeholderPattern at position i.
IsPlaceholder(text, i) ==
  /\ i + 4 <= Len(text)
  /\ text[i] = "[" /\ text[i + 1] = "[" /\ text[i + 3] = "]" /\ text[i + 4] = "]"
  /\ text[i + 2] \notin {"[", "]", "v"}

\* Restore, and Restorer.substitute, which also counts the placeholders nobody
\* issued.
Replaced(text, i) ==
  LET p == SubSeq(text, i, i + 4) IN IF p \in DOMAIN replacements THEN replacements[p] ELSE p
substitute(text) ==
  LET from[i \in 1 .. Len(text) + 5] ==
        IF i > Len(text) THEN <<>>
        ELSE IF IsPlaceholder(text, i) THEN Replaced(text, i) \o from[i + 5]
        ELSE <<text[i]>> \o from[i + 1]
  IN  from[1]
Unissued(text) ==
  Cardinality({i \in 1 .. Len(text) :
    IsPlaceholder(text, i) /\ SubSeq(text, i, i + 4) \notin DOMAIN replacements})

Active == replacements # <<>>

Opens(tail) == {i \in 1 .. Len(tail) - 1 : tail[i] = "[" /\ tail[i + 1] = "["}
Closes(tail, i) == \E j \in i .. Len(tail) - 1 : tail[j] = "]" /\ tail[j + 1] = "]"

\* Mutant of pendingTail: a lone bracket at the end of a chunk is let go.
PendingPair(text) ==
  LET reach == IF MaxPlaceholderLen > Len(text) THEN Len(text) ELSE MaxPlaceholderLen
      tail == SubSeq(text, Len(text) - reach + 1, Len(text))
      unclosed == {i \in Opens(tail) : (\A j \in Opens(tail) : j <= i) /\ ~Closes(tail, i)}
  IN  IF unclosed # {} THEN reach - (CHOOSE i \in unclosed : TRUE) + 1 ELSE 0

\* pendingTail: how much of the text to hold back.
pendingTail(text) ==
  LET reach == IF MaxPlaceholderLen > Len(text) THEN Len(text) ELSE MaxPlaceholderLen
      tail == SubSeq(text, Len(text) - reach + 1, Len(text))
      unclosed == {i \in Opens(tail) : (\A j \in Opens(tail) : j <= i) /\ ~Closes(tail, i)}
  IN  IF unclosed # {} THEN reach - (CHOOSE i \in unclosed : TRUE) + 1
      ELSE IF text # <<>> /\ Last(text) = "[" THEN 1 ELSE 0

-----------------------------------------------------------------------------
PiiInit ==
  /\ payload \in Payloads
  /\ \E found \in Found(payload) :
       LET result == TransformMatches(payload, withoutOverlaps(found))
       IN  whole = result.payload /\ replacements = result.replacements
  /\ arrived = 0 /\ held = <<>> /\ misses = 0 /\ received = <<>> /\ ended = FALSE

\* Restorer.Push of the next chunk; a restorer that is not active relays it.
Push(n) ==
  LET chunk == SubSeq(whole, arrived + 1, arrived + n)
      text == held \o chunk
      safe == Len(text) - pendingTail(text)
      out == SubSeq(text, 1, safe)
  IN  /\ ~ended /\ arrived + n <= Len(whole)
      /\ arrived' = arrived + n
      /\ IF Active
         THEN /\ received' = received \o substitute(out)
              /\ misses' = misses + Unissued(out)
              /\ held' = SubSeq(text, safe + 1, Len(text))
         ELSE received' = received \o chunk /\ UNCHANGED <<held, misses>>
      /\ UNCHANGED <<payload, whole, replacements, ended>>

\* Restorer.Flush at the end of the stream.
Flush ==
  /\ ~ended /\ arrived = Len(whole)
  /\ ended' = TRUE
  /\ received' = received \o substitute(held)
  /\ misses' = misses + Unissued(held)
  /\ held' = <<>>
  /\ UNCHANGED <<payload, whole, replacements, arrived>>

PiiNext == (\E n \in 1 .. Len(whole) : Push(n)) \/ Flush

-----------------------------------------------------------------------------
(* Properties *)

HasPlaceholder(text) == \E i \in 1 .. Len(text) : IsPlaceholder(text, i)

\* Wherever the response is cut, the caller is sent what restoring it in one
\* piece gives: at the end exactly that, with every altered placeholder counted,
\* and on the way no more than a prefix of it, so that no piece of a placeholder
\* that was issued is ever relayed; and when the payload had nothing that looks
\* like a placeholder in it, an echo of it comes back as it was, whatever the
\* detectors found and however their matches overlap (DetectAll,
\* TransformMatches, Restorer).
RestoredExactly ==
  /\ IsPrefix(received, substitute(whole))
  /\ ended => /\ received = substitute(whole)
              /\ Active => misses = Unissued(whole)
              /\ ~HasPlaceholder(payload) => received = payload
=============================================================================
