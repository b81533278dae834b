----------------------------- MODULE MCVerdict ------------------------------
(***************************************************************************)
(* Verdict for TLC.  Regex hits of every action and level, with every      *)
(* outcome of the other stages on short contents (Mixed), all commands of  *)
(* two segments and sources of two grammars (Scanned), and all contents of *)
(* a few bytes (Redacted).                                                 *)
(***************************************************************************)
EXTENDS Verdict

CONSTANTS
  MaxHits,    \* regex hits of one request
  MaxCalls,   \* calls one grammar reports
  MaxSize     \* bytes of a content

\* One pattern without a validator and two with; the last is a credential.
MCPatterns == <<"email", "ipv4", "aws_secret">>
MCCredentials == {"aws_secret"}

\* Every action and level in one scope, and rules of another scope where the
\* category depends on them.
RuleKinds ==
  {r \in Rule : r.scope = "command"
                \/ (r.scope = "filesystem" /\ r.action = "block" /\ r.risk \in {L3, L4})}

UpTo(n, S) == UNION {[1 .. k -> S] : k \in 0 .. n}

\* The words of a segment that do not split have no binary.
Segments == {s \in Segment : ~s.splits => s.binary = "none"}
NoCommand == [blank |-> TRUE, substitution |-> FALSE, unmodelled |-> FALSE, segments |-> << >>]
Plain(segments) == [NoCommand EXCEPT !.blank = FALSE, !.segments = segments]
Commands ==
  {NoCommand, [Plain(<< >>) EXCEPT !.substitution = TRUE],
   [Plain(<< >>) EXCEPT !.unmodelled = TRUE]} \cup {Plain(ss) : ss \in UpTo(2, Segments)}

NoSource == [blank |-> TRUE, large |-> FALSE, grammars |-> << >>]
Parsed(gs) == [NoSource EXCEPT !.blank = FALSE, !.grammars = gs]
Grammars == [calls : UpTo(MaxCalls, {L3, L4}), error : BOOLEAN]
Sources ==
  {NoSource, [Parsed(<< >>) EXCEPT !.large = TRUE]}
    \cup {Parsed(gs) : gs \in UpTo(2, Grammars) \ {<< >>}}

\* The ordered matches within n bytes.
Matches(n) ==
  {ms \in UpTo(2, [s : 0 .. n - 1, e : 1 .. n, valid : BOOLEAN]) : Ordered(ms, n)}
Texts ==
  [size : {MaxSize},
   found : {f \in [Names -> Matches(MaxSize)] : \A i \in DOMAIN f["email"] : f["email"][i].valid}]
NoMatch == [size |-> 1, found |-> [n \in Names |-> << >>]]
OneMatch ==
  [NoMatch EXCEPT !.found["email"] = << [s |-> 0, e |-> 1, valid |-> TRUE] >>]

Ask(method, type, rules, commands, sources, hints, texts) ==
  [method : {method}, type : {type}, regex : rules, command : commands,
   source : sources, hint : hints, text : texts]

Seg(splits, binary) ==
  [redirect |-> FALSE, splits |-> splits, inline |-> FALSE, target |-> FALSE, binary |-> binary]
Gram(calls, error) == [calls |-> calls, error |-> error]

Mixed ==
  LET hints == {"none", "read", "network"}
      texts == {NoMatch, OneMatch}
      rules == UpTo(MaxHits, RuleKinds)
      commands == {NoCommand, Plain(<<Seg(FALSE, "none"), Seg(TRUE, "unlisted")>>),
                   Plain(<<Seg(TRUE, "listed"), Seg(FALSE, "none")>>)}
      sources == {NoSource, Parsed(<<Gram(<<L3, L4>>, FALSE)>>), Parsed(<<Gram(<< >>, TRUE)>>)}
  IN Ask("evaluate", "shell", rules, commands, {NoSource}, hints, texts)
       \cup Ask("evaluate", "code", rules, {NoCommand}, sources, hints, texts)
       \cup Ask("evaluate", "text", rules, {NoCommand}, {NoSource}, hints, texts)
       \cup Ask("audit", "text", rules, {NoCommand}, {NoSource}, {"none"}, texts)

Scanned ==
  Ask("evaluate", "shell", {<< >>}, Commands, {NoSource}, {"none"}, {NoMatch})
    \cup Ask("evaluate", "code", {<< >>}, {NoCommand}, Sources, {"none"}, {NoMatch})

Redacted == Ask("evaluate", "text", {<< >>}, {NoCommand}, {NoSource}, {"none"}, Texts)

MCRequests == Mixed \cup Scanned \cup Redacted
=============================================================================
