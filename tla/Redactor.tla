------------------------------ MODULE Redactor ------------------------------
(***************************************************************************)
(* fg-redact: the spans the patterns mark in a content, the rebuilt        *)
(* content of each redaction, and the engine's reveal.                     *)
(*                                                                         *)
(* Regular expressions and validators are not modelled.  A content is its  *)
(* size and, for every pattern, the matches of captures_iter in order: the *)
(* span [s, e) of the value and the validator's answer.  A byte of the     *)
(* content is <<"text", p>>; a replacement is one symbol <<tag, n>>.       *)
(***************************************************************************)
EXTENDS Flatten

CONSTANTS
  Patterns,     \* the pattern names, in the order of defs
  Credentials,  \* those of CREDENTIAL_PATTERNS
  Kept          \* how many characters last4 keeps

Names == {Patterns[i] : i \in DOMAIN Patterns}
Match == [s : Nat, e : Nat, valid : BOOLEAN]

ASSUME RedactorAssumption ==
  /\ Patterns \in Seq(Names) /\ IsInjective(Patterns) /\ Credentials \subseteq Names
  /\ {"text", "unrecoverable"} \cap Names = {} /\ Kept \in Nat

\* captures_iter goes left to right and its matches do not overlap.
Ordered(ms, size) ==
  /\ \A i \in DOMAIN ms : ms[i].s < ms[i].e /\ ms[i].e <= size
  /\ \A i, j \in DOMAIN ms : i < j => ms[i].e <= ms[j].s

Content(t) == [p \in 1 .. t.size |-> <<"text", p>>]

-----------------------------------------------------------------------------
(* Which spans are replaced.                                                  *)

\* The candidates in the order of the two loops of collect_spans_filtered.
Candidates(t, names) ==
  LET Tagged(n) ==
        [k \in DOMAIN t.found[n] |->
          [s |-> t.found[n][k].s, e |-> t.found[n][k].e, valid |-> t.found[n][k].valid, tag |-> n]]
  IN FlattenSeq([i \in DOMAIN Patterns |->
                  IF Patterns[i] \in names THEN Tagged(Patterns[i]) ELSE << >>])

Overlap(a, b) == a.s < b.e /\ a.e > b.s

Accept(accepted, m) ==
  IF ~m.valid \/ \E i \in DOMAIN accepted : Overlap(m, accepted[i])
  THEN accepted
  ELSE Append(accepted, m)

\* The matches in turn.
AcceptAll(ms) ==
  LET accepted[i \in 0 .. Len(ms)] ==
        IF i = 0 THEN << >> ELSE Accept(accepted[i - 1], ms[i])
  IN accepted[Len(ms)]

CollectSpansFiltered(t, names) == AcceptAll(Candidates(t, names))
CollectSpans(t) == CollectSpansFiltered(t, Names)

HasSensitive(t) == \E i \in DOMAIN Candidates(t, Names) : Candidates(t, Names)[i].valid

-----------------------------------------------------------------------------
(* The rebuilt contents.                                                      *)

ReplaceRange(out, m, mark) == SubSeq(out, 1, m.s) \o <<mark>> \o SubSeq(out, m.e + 1, Len(out))

\* sort_by_key: accepted spans do not overlap, so that their starts differ.
ByStart(spans) ==
  CHOOSE r \in Bijection(DOMAIN spans, Range(spans)) :
    \A i, j \in DOMAIN r : i < j => r[i].s <= r[j].s

\* From the last span to the first, so that the offsets ahead stay good.
Rebuild(content, byStart, marks) ==
  LET n == Len(byStart)
      out[i \in 1 .. n + 1] ==
        IF i > n THEN content ELSE ReplaceRange(out[i + 1], byStart[i], marks[i])
  IN out[1]

Tags(spans) == [i \in DOMAIN spans |-> <<spans[i].tag, 0>>]

RedactWithPatterns(t, names) ==
  LET spans == ByStart(CollectSpansFiltered(t, names)) IN Rebuild(Content(t), spans, Tags(spans))
RedactCredentials(t) == RedactWithPatterns(t, Credentials)

RedactCounted(t) ==
  LET spans == ByStart(CollectSpans(t))
  IN [redacted |-> Rebuild(Content(t), spans, Tags(spans)), count |-> Len(spans)]

\* The mark shows the value from this offset on: all of it, if it is short.
Last4(m) == IF m.e - m.s <= Kept THEN m.s ELSE m.e - Kept

RedactIrreversible(t) ==
  LET spans == ByStart(CollectSpans(t))
  IN Rebuild(Content(t), spans, [i \in DOMAIN spans |-> <<spans[i].tag, Last4(spans[i])>>])

\* Tokens are numbered in text order; token i stands for the i-th span.
RedactReversible_foundOrder(t) ==
  LET spans == CollectSpans(t)
      byPos == ByStart(spans)
      Found(i) == CHOOSE j \in DOMAIN spans : spans[j] = byPos[i]
  IN [redacted |-> Rebuild(Content(t), byPos, [i \in DOMAIN byPos |-> <<byPos[i].tag, Found(i)>>]),
      matches |-> [i \in DOMAIN byPos |-> SubSeq(Content(t), byPos[i].s + 1, byPos[i].e)]]
RedactReversible(t) ==
  LET byPos == ByStart(CollectSpans(t))
  IN [redacted |-> Rebuild(Content(t), byPos, [i \in DOMAIN byPos |-> <<byPos[i].tag, i>>]),
      matches |-> [i \in DOMAIN byPos |-> SubSeq(Content(t), byPos[i].s + 1, byPos[i].e)]]

-----------------------------------------------------------------------------
(* AuditEngine::reveal_tenant.                                                *)

ExtractPlaceholders(out) ==
  FlattenSeq([p \in DOMAIN out |->
               IF out[p][1] \in Names /\ out[p][2] > 0 THEN <<out[p]>> ELSE << >>])

Replace(out, symbol, by) ==
  FlattenSeq([p \in DOMAIN out |-> IF out[p] = symbol THEN by ELSE <<out[p]>>])

\* Each placeholder in turn: its original, or, where get_tenant fails, a mark.
RevealTenant(out, matches, failing) ==
  LET xs == ExtractPlaceholders(out)
      Original(x) == IF x[2] \in failing THEN << <<"unrecoverable", x[2]>> >> ELSE matches[x[2]]
      text[i \in 0 .. Len(xs)] ==
        IF i = 0 THEN out ELSE Replace(text[i - 1], xs[i], Original(xs[i]))
  IN text[Len(xs)]

-----------------------------------------------------------------------------
(* What redaction promises, span by span and byte by byte.                    *)

\* Of the valid candidates exactly those stay that meet no earlier one that
\* stays.
SpansRight(t, names) ==
  LET all == Candidates(t, names)
      spans == CollectSpansFiltered(t, names)
      In(m) == \E i \in DOMAIN spans : spans[i] = m IN
  /\ \A i \in DOMAIN spans, j \in DOMAIN spans : i # j => ~Overlap(spans[i], spans[j])
  /\ \A k \in DOMAIN all :
       In(all[k]) <=> /\ all[k].valid
                      /\ ~\E h \in 1 .. k - 1 : In(all[h]) /\ Overlap(all[h], all[k])

\* The content byte by byte: a span is its mark, a byte outside is kept.
LeftToRight(t, spans, mark) ==
  FlattenSeq([p \in 1 .. t.size |->
    IF \E m \in spans : m.s + 1 = p THEN mark[CHOOSE m \in spans : m.s + 1 = p]
    ELSE IF \E m \in spans : m.s < p /\ p <= m.e THEN << >>
    ELSE << <<"text", p>> >>])

RedactsExactly(t, names, out) ==
  LET spans == Range(CollectSpansFiltered(t, names))
  IN out = LeftToRight(t, spans, [m \in spans |-> << <<m.tag, 0>> >>])

\* The marks of redact_irreversible show the end of their own span.
ShowsOnlyEnds(t, out) ==
  LET spans == Range(CollectSpans(t))
  IN out = LeftToRight(t, spans, [m \in spans |-> << <<m.tag, Last4(m)>> >>])

\* Reveal gives every span back but those whose token cannot be read; the tokens
\* are numbered from left to right.
RevealsExactly(t) ==
  LET r == RedactReversible(t)
      spans == Range(CollectSpans(t)) IN
  \E number \in [spans -> DOMAIN r.matches] :
    /\ \A x, y \in spans : x.s < y.s => number[x] < number[y]
    /\ \A failing \in SUBSET (DOMAIN r.matches) :
         RevealTenant(r.redacted, r.matches, failing) =
           LeftToRight(t, spans, [m \in spans |->
             IF number[m] \in failing THEN << <<"unrecoverable", number[m]>> >>
             ELSE SubSeq(Content(t), m.s + 1, m.e)])
=============================================================================
