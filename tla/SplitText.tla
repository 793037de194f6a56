------------------------------ MODULE SplitText ------------------------------
(***************************************************************************)
(* EmbeddingClient.split_text (embeddings/client.py): a text is cut into   *)
(* spans that each fit the limits of one input, together with a prefix.    *)
(*                                                                         *)
(* Characters take bytes and tokens of their own; some pairs make a single *)
(* token, across the end of the prefix too, so that the count of a slice   *)
(* is not monotone in its length, and some characters make no token at     *)
(* all. Offsets count from 0, as in Python.                                *)
(***************************************************************************)
EXTENDS Naturals, Sequences, FiniteSets, SequencesExt

CONSTANTS Char, Texts, Contexts,
          Limits,       \* records [chars, bytes, tokens, reserved, special, ids]; 0 is None
          BytesOf, TokensOf,   \* of a character
          Merged,       \* pairs of characters that make one token
          Density       \* of max_window: 8 in the code

\* A text is not empty: split_text raises ValueError for one that is.
SplitAssumption ==
  /\ \A s \in Texts : s \in Seq(Char) /\ s # <<>>
  /\ \A s \in Contexts : s \in Seq(Char)
  /\ Limits \subseteq [chars : Nat, bytes : Nat, tokens : Nat, reserved : Nat, special : Nat, ids : BOOLEAN]
  /\ BytesOf \in [Char -> Nat \ {0}] /\ TokensOf \in [Char -> Nat]
  /\ Merged \subseteq Char \X Char /\ Density \in Nat \ {0}

VARIABLES
  text, prefix, limit,   \* of the call
  pc,        \* slice, fit, merge, done or refused
  start, window, body,   \* locals of split_text
  spans,     \* what it has found, as [start, end]
  result, pending, next  \* locals of _merge_tokenless_spans: pending is a start, or Len(text)

vars == <<text, prefix, limit, pc, start, window, body, spans, result, pending, next>>

-----------------------------------------------------------------------------
Least(a, b) == IF a < b THEN a ELSE b
Greatest(a, b) == IF a < b THEN b ELSE a

\* s[i:j]
Slice(s, i, j) == SubSeq(s, i + 1, Least(j, Len(s)))

Utf8Length(s) ==
  LET sum[n \in 0 .. Len(s)] == IF n = 0 THEN 0 ELSE sum[n - 1] + BytesOf[s[n]]
  IN sum[Len(s)]

\* What place a character has in its token: 2 after one with which it makes a token.
PlaceInToken(s) ==
  LET nth[i \in 0 .. Len(s)] ==
        IF i > 1 /\ nth[i - 1] = 1 /\ <<s[i - 1], s[i]>> \in Merged THEN 2 ELSE 1
  IN nth

\* The ends of the tokens that end with a character, special ones left out, and of all.
EndsAt(s, i) ==
  IF PlaceInToken(s)[i] = 2 THEN <<i>>
  ELSE IF i < Len(s) /\ PlaceInToken(s)[i + 1] = 2 THEN <<>>
  ELSE [n \in 1 .. TokensOf[s[i]] |-> i]

Encoded(s) == FlattenSeq([i \in DOMAIN s |-> EndsAt(s, i)])

TokenCount(s) == Len(Encoded(s)) + limit.special

\* _validate_formatted does not raise, for what is large and for what has no token.
Sized(s) ==
  /\ limit.chars > 0 => Len(s) <= limit.chars
  /\ limit.bytes > 0 => Utf8Length(s) <= limit.bytes

WithinLimits(s) ==
  Sized(s) /\ (limit.tokens > 0 => TokenCount(s) + limit.reserved <= limit.tokens)

Valid(s) == WithinLimits(s) /\ (limit.ids => TokenCount(s) > 0)

\* encode()[:n].decode(errors="ignore")
Truncated(s, n) == Slice(s, 0, CHOOSE k \in 0 .. Len(s) :
  Utf8Length(Slice(s, 0, k)) <= n /\ (k < Len(s) => Utf8Length(Slice(s, 0, k + 1)) > n))

CharBudget == IF limit.chars > 0 THEN limit.chars - Len(prefix) ELSE Len(text)
ByteBudget == limit.bytes - Utf8Length(prefix)
TokenBudget == limit.tokens - limit.reserved

NoRoom ==
  \/ limit.chars > 0 /\ limit.chars <= Len(prefix)
  \/ limit.bytes > 0 /\ limit.bytes <= Utf8Length(prefix)

MaxWindow ==
  LET tokens == Least(CharBudget, IF limit.tokens > 0 THEN limit.tokens * Density ELSE Len(text))
  IN IF limit.bytes > 0 THEN Least(tokens, ByteBudget) ELSE tokens

\* Mutant of TokenBoundary: the end of the body counts as a boundary.
TokenBoundaryAtEnd(b) ==
  LET ends == Encoded(prefix \o b)
      room == IF TokenBudget < limit.special THEN 0 ELSE TokenBudget - limit.special
      inside == {ends[n] - Len(prefix) : n \in
                   {n \in 1 .. Least(room, Len(ends)) : ends[n] > Len(prefix)}}
  IN IF inside = {} THEN 0 ELSE CHOOSE e \in inside : \A f \in inside : f <= e

\* _token_boundary: the last end of a token within the budget that is inside the body.
TokenBoundary(b) ==
  LET ends == Encoded(prefix \o b)
      room == IF TokenBudget < limit.special THEN 0 ELSE TokenBudget - limit.special
      inside == {ends[n] - Len(prefix) : n \in
                   {n \in 1 .. Least(room, Len(ends)) :
                      ends[n] > Len(prefix) /\ ends[n] < Len(prefix) + Len(b)}}
  IN IF inside = {} THEN 0 ELSE CHOOSE e \in inside : \A f \in inside : f <= e

Init ==
  /\ text \in Texts /\ prefix \in Contexts /\ limit \in Limits
  /\ pc = IF NoRoom THEN "refused" ELSE "slice"
  /\ start = 0 /\ window = MaxWindow /\ body = <<>>
  /\ spans = <<>> /\ result = <<>> /\ pending = Len(text) /\ next = 1

-----------------------------------------------------------------------------
splitting == <<text, prefix, limit, start, window, body, spans>>

\* A window of the source, cut to the bytes that are left.
CutWindow ==
  /\ pc = "slice" /\ start < Len(text)
  /\ LET w == Slice(text, start, start + window)
     IN body' = IF limit.bytes > 0 THEN Truncated(w, ByteBudget) ELSE w
  /\ pc' = "fit"
  /\ UNCHANGED <<text, prefix, limit, start, window, spans, result, pending, next>>

TooManyTokens == limit.tokens > 0 /\ TokenCount(prefix \o body) > TokenBudget

\* Mutant of Shrink: the slice ends at the boundary without being counted again.
ShrinkOnce ==
  /\ pc = "fit" /\ body # <<>> /\ TooManyTokens
  /\ LET end == TokenBoundary(body)
         cut == IF end > 0 THEN end ELSE Len(body) \div 2
     IN IF cut = 0 THEN body' = <<>> /\ UNCHANGED <<start, spans, pc>>
        ELSE /\ body' = Slice(body, 0, cut) /\ pc' = "slice"
             /\ spans' = Append(spans, [start |-> start, end |-> start + cut])
             /\ start' = start + cut
  /\ UNCHANGED <<text, prefix, limit, window, result, pending, next>>

\* Mutant of Shrink: without a boundary inside the slice, the text is refused.
ShrinkToBoundary ==
  /\ pc = "fit" /\ body # <<>> /\ TooManyTokens
  /\ body' = Slice(body, 0, TokenBoundary(body))
  /\ UNCHANGED <<text, prefix, limit, pc, start, window, spans, result, pending, next>>

\* Too many tokens: the slice ends at a token, or is halved, and is counted again.
Shrink ==
  /\ pc = "fit" /\ body # <<>> /\ TooManyTokens
  /\ LET end == TokenBoundary(body)
     IN body' = Slice(body, 0, IF end > 0 THEN end ELSE Len(body) \div 2)
  /\ UNCHANGED <<text, prefix, limit, pc, start, window, spans, result, pending, next>>

\* Mutant of Emit: the next window may be empty.
EmitEmptyWindow ==
  /\ pc = "fit" /\ body # <<>> /\ ~TooManyTokens
  /\ window' = IF limit.tokens > 0
               THEN Least(MaxWindow, (Len(body) * TokenBudget) \div (1 + TokenCount(prefix \o body)))
               ELSE window
  /\ spans' = Append(spans, [start |-> start, end |-> start + Len(body)])
  /\ start' = start + Len(body) /\ pc' = "slice"
  /\ UNCHANGED <<text, prefix, limit, body, result, pending, next>>

\* The slice is a span; the next window follows the density of its tokens.
Emit ==
  /\ pc = "fit" /\ body # <<>> /\ ~TooManyTokens
  /\ IF limit.tokens > 0
     THEN LET alone == TokenCount(prefix)
              here == TokenCount(prefix \o body)
              bodyTokens == IF here > alone THEN here - alone ELSE 1
              usable == IF TokenBudget > alone THEN TokenBudget - alone ELSE 1
          IN window' = Least(MaxWindow, Greatest(1, (Len(body) * usable) \div bodyTokens))
     ELSE UNCHANGED window
  /\ spans' = Append(spans, [start |-> start, end |-> start + Len(body)])
  /\ start' = start + Len(body) /\ pc' = "slice"
  /\ UNCHANGED <<text, prefix, limit, body, result, pending, next>>

\* Not even one character fits.
Refuse ==
  /\ pc = "fit" /\ body = <<>>
  /\ pc' = "refused"
  /\ UNCHANGED <<splitting, result, pending, next>>

\* The whole text is cut; token ids need spans with at least one token each.
Finish ==
  /\ pc = "slice" /\ start = Len(text)
  /\ IF limit.ids THEN pc' = "merge" /\ UNCHANGED result ELSE pc' = "done" /\ result' = spans
  /\ UNCHANGED <<splitting, pending, next>>

\* merge_previous: where the last span can end, at most at end, or 0.
MergePrevious(end) ==
  IF result = <<>> THEN 0
  ELSE LET from == Last(result).start
           e1 == IF limit.chars > 0 THEN Least(end, from + CharBudget) ELSE end
           e2 == IF limit.bytes > 0 THEN Least(e1, from + ByteBudget) ELSE e1
           merged == IF limit.bytes > 0 THEN Truncated(Slice(text, from, e2), ByteBudget)
                     ELSE Slice(text, from, e2)
       IN IF from + Len(merged) > Last(result).end /\ Valid(prefix \o merged)
          THEN from + Len(merged) ELSE 0

Extended(to) == IF to = 0 THEN result ELSE ReplaceAt(result, Len(result), [Last(result) EXCEPT !.end = to])

Tokenless(span) == TokenCount(prefix \o Slice(text, span.start, span.end)) = 0

\* A span without tokens waits for a neighbour.
Wait ==
  /\ pc = "merge" /\ next <= Len(spans) /\ Tokenless(spans[next])
  /\ pending' = Least(pending, spans[next].start) /\ next' = next + 1
  /\ UNCHANGED <<splitting, pc, result>>

\* Mutant of Resolve: what did not fit into the span before is dropped.
ResolveDropping ==
  /\ pc = "merge" /\ next <= Len(spans) /\ ~Tokenless(spans[next])
  /\ LET to == IF pending < Len(text) THEN MergePrevious(spans[next].start) ELSE 0
     IN result' = Append(Extended(to), spans[next])
  /\ pending' = Len(text) /\ next' = next + 1
  /\ UNCHANGED <<splitting, pc>>

\* A span with tokens: of the run before it, the span before takes what it can,
\* and this one the rest, if it fits.
Resolve ==
  /\ pc = "merge" /\ next <= Len(spans) /\ ~Tokenless(spans[next])
  /\ LET span == spans[next]
         to == IF pending < Len(text) THEN MergePrevious(span.start) ELSE 0
         from == IF pending = Len(text) THEN span.start ELSE IF to > 0 THEN to ELSE pending
     IN IF from = span.start \/ Valid(prefix \o Slice(text, from, span.end))
        THEN result' = Append(Extended(to), [start |-> from, end |-> span.end]) /\ UNCHANGED pc
        ELSE pc' = "refused" /\ UNCHANGED result
  /\ pending' = Len(text) /\ next' = next + 1
  /\ UNCHANGED splitting

\* A run without tokens at the end must fit into the last span.
FinishMerge ==
  /\ pc = "merge" /\ next > Len(spans)
  /\ IF pending = Len(text) THEN pc' = "done" /\ UNCHANGED result
     ELSE LET to == MergePrevious(Len(text))
          IN IF to = Len(text) THEN pc' = "done" /\ result' = Extended(to)
             ELSE pc' = "refused" /\ UNCHANGED result
  /\ UNCHANGED <<splitting, pending, next>>

Next == CutWindow \/ Shrink \/ Emit \/ Refuse \/ Finish \/ Wait \/ Resolve \/ FinishMerge

Spec == Init /\ [][Next]_vars /\ WF_vars(Next)

-----------------------------------------------------------------------------
TypeOK ==
  /\ pc \in {"slice", "fit", "merge", "done", "refused"}
  /\ start \in 0 .. Len(text) /\ pending \in 0 .. Len(text) /\ next \in 1 .. Len(spans) + 1
  /\ body \in Seq(Char) /\ pc # "refused" => window \in 1 .. MaxWindow
  /\ \A s \in ToSet(spans) \cup ToSet(result) : s.start < s.end /\ s.end <= Len(text)

(* "exact half-open source-character spans that partition the complete     *)
(* text": nothing is lost, moved or repeated.                              *)
Partition ==
  pc = "done" => FlattenSeq([i \in DOMAIN result |-> Slice(text, result[i].start, result[i].end)]) = text
                 /\ \A i \in 1 .. Len(result) - 1 : result[i].end = result[i + 1].start

(* "Every resulting input fits the configured limits, including any        *)
(* repeated contextual prefix": embedding a span is never refused.         *)
EveryInputFits ==
  pc = "done" => \A s \in ToSet(result) : Valid(prefix \o Slice(text, s.start, s.end))

Misfit == \E i \in 1 .. Len(text) : ~Valid(prefix \o <<text[i]>>)

(* A text of which no character is too large for the limits, and which has *)
(* a token everywhere, is not refused.                                     *)
OnlyMisfitsAreRefused == pc = "refused" => Misfit

(* Slices get smaller until they fit, and windows move on.                 *)
Terminates == <>(pc \in {"done", "refused"})

-----------------------------------------------------------------------------
(* The properties are not inductive; together with these facts about the   *)
(* spans, the slice that is fitted and what is merged they are.            *)
Span == [start : Nat, end : Nat]
Part(span) == Slice(text, span.start, span.end)

\* q leads from 0 to a, one span after the other.
Chain(q, a) ==
  /\ q = <<>> => a = 0
  /\ q # <<>> => q[1].start = 0 /\ q[Len(q)].end = a
  /\ \A i \in 1 .. Len(q) : q[i].start < q[i].end /\ q[i].end <= a
  /\ \A i \in 1 .. Len(q) - 1 : q[i].end = q[i + 1].start

ValuesOK ==
  /\ text \in Texts /\ prefix \in Contexts /\ limit \in Limits
  /\ pc \in {"slice", "fit", "merge", "done", "refused"}
  /\ start \in 0 .. Len(text) /\ pending \in 0 .. Len(text) /\ next \in 1 .. Len(spans) + 1
  /\ body \in Seq(Char) /\ spans \in Seq(Span) /\ result \in Seq(Span)

\* Every slice is cut from where the last span ends, and fits but for its tokens.
BodyInv ==
  /\ start < Len(text) /\ start + Len(body) <= Len(text)
  /\ body = Slice(text, start, start + Len(body)) /\ Sized(prefix \o body)
  /\ body = <<>> => Misfit

CutInv ==
  /\ pc # "refused" => ~NoRoom /\ window \in 1 .. MaxWindow
  /\ Chain(spans, start) /\ \A i \in 1 .. Len(spans) : WithinLimits(prefix \o Part(spans[i]))
  /\ pc = "fit" => BodyInv
  /\ pc \in {"slice", "fit"} => result = <<>> /\ next = 1 /\ pending = Len(text)

\* What is merged ends where a run without tokens began, or with the span before.
MergedTo ==
  IF pending < Len(text) THEN pending ELSE IF next = 1 THEN 0 ELSE spans[next - 1].end

MergeInv ==
  /\ pc = "merge" =>
       /\ limit.ids /\ start = Len(text) /\ Chain(result, MergedTo)
       /\ pending < Len(text) => Misfit /\ next > 1 /\ pending < spans[next - 1].end
  /\ \E a \in 0 .. Len(text) : Chain(result, a)
  /\ pc = "done" => Chain(result, Len(text))
  /\ pc \in {"merge", "done"} => \A i \in 1 .. Len(result) : Valid(prefix \o Part(result[i]))
  /\ pc = "refused" => Misfit

IInv == ValuesOK /\ CutInv /\ MergeInv
=============================================================================
