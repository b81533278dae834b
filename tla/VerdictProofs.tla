--------------------------- MODULE VerdictProofs ----------------------------
(***************************************************************************)
(* Proofs about Verdict, for any rules, requests, patterns and contents: a *)
(* blocking hit prevails, the order of the rules does not matter, an ok    *)
(* answer is backed by the stored rows, and the content that is shown is   *)
(* redacted exactly. The facts about redaction are those of                *)
(* RedactionProofs.                                                        *)
(***************************************************************************)
EXTENDS RedactionProofs, Verdict

-----------------------------------------------------------------------------
(* The hits of a scan.                                                        *)

\* A hit: the rule and the stage that found it.
HitRec == [rule : Rule, stage : Stages]

\* The least number of a set.
LEMMA MinOf == ASSUME NEW T, T \subseteq Nat, T # {} PROVE Min(T) \in T
<1>1. \E x \in T : \A y \in T : x <= y
  BY Least, Zenon
<1>2. QED
  BY <1>1, Zenon DEF Min

\* check_segment answers a risk level.
LEMMA SegmentRisk == \A s : CheckSegment(s) \in Risks
BY DEF CheckSegment, Risks, L1, L3, L4

\* What the loop over the segments pushes.
LEMMA SegmentHitsAre ==
  ASSUME NEW segments \in Seq(Segment)
  PROVE  /\ SegmentHits(segments) \in Seq(Risks)
         /\ (\E i \in DOMAIN segments : CheckSegment(segments[i]) # L1) =>
              \E i \in DOMAIN SegmentHits(segments) : TRUE
<1> DEFINE One(i) == IF CheckSegment(segments[i]) = L1 THEN << >> ELSE <<CheckSegment(segments[i])>>
           ss == [i \in DOMAIN segments |-> One(i)]
<1>1. SegmentHits(segments) = FlattenSeq(ss)
  BY Zenon DEF SegmentHits
<1>2. DOMAIN segments = 1 .. Len(segments) /\ Len(segments) \in Nat
  OBVIOUS
<1>3. ASSUME NEW x \in Risks PROVE <<x>> \in Seq(Risks) /\ Has(<<x>>, x)
  BY DEF Has
<1>4. << >> \in Seq(Risks)
  OBVIOUS
<1>5. \A i \in DOMAIN segments : One(i) \in Seq(Risks)
  BY <1>3, <1>4, SegmentRisk, Zenon
<1>6. ss \in [1 .. Len(segments) -> Seq(Risks)] /\ DOMAIN ss = DOMAIN segments
  BY <1>2, <1>5, Zenon
<1>7. ASSUME NEW i \in DOMAIN segments, CheckSegment(segments[i]) # L1
      PROVE  Has(ss[i], CheckSegment(segments[i]))
  <2>1. ss[i] = <<CheckSegment(segments[i])>>
    BY <1>7, Zenon
  <2>2. QED
    BY <1>3, <2>1, SegmentRisk, Zenon
<1> HIDE DEF ss, One
<1>8. ss \in Seq(Seq(Risks))
  BY <1>2, <1>6, IsSeq, Zenon
<1>9. FlattenSeq(ss) \in Seq(Risks)
  BY <1>8, FlattenType, Zenon
<1>10. ASSUME NEW i \in DOMAIN segments, CheckSegment(segments[i]) # L1
       PROVE  \E j \in DOMAIN FlattenSeq(ss) : TRUE
  <2>1. \E j \in DOMAIN ss : Has(ss[j], CheckSegment(segments[i]))
    BY <1>6, <1>7, <1>10, Zenon
  <2>2. Has(FlattenSeq(ss), CheckSegment(segments[i]))
    BY <1>8, <2>1, FlattenHas, Zenon
  <2>3. QED
    BY <2>2, Zenon DEF Has
<1>11. QED
  BY <1>1, <1>9, <1>10, Zenon

\* The tokenizer reports risks, at least one when the command hides a command, is
\* not modelled or has a segment above the lowest risk.
LEMMA TokenizeIs ==
  ASSUME NEW c \in Command
  PROVE  /\ TokenizeCheck(c) \in Seq(Risks)
         /\ (/\ ~c.blank
             /\ \/ c.substitution \/ c.unmodelled
                \/ \E i \in DOMAIN c.segments : CheckSegment(c.segments[i]) # L1) =>
              \E i \in DOMAIN TokenizeCheck(c) : TRUE
<1>1. c.segments \in Seq(Segment)
  BY Zenon DEF Command
<1>2. << >> \in Seq(Risks) /\ <<L3>> \in Seq(Risks) /\ <<L4>> \in Seq(Risks)
  <2>1. L3 \in Risks /\ L4 \in Risks
    BY DEF L3, L4, Risks
  <2>2. ASSUME NEW x \in Risks PROVE <<x>> \in Seq(Risks)
    OBVIOUS
  <2>3. << >> \in Seq(Risks)
    OBVIOUS
  <2>4. QED
    BY <2>1, <2>2, <2>3, Zenon
<1>3. \A x : \E i \in DOMAIN <<x>> : TRUE
  <2>1. \A x : 1 \in DOMAIN <<x>>
    OBVIOUS
  <2>2. QED
    BY <2>1, Zenon
<1>4. CASE c.blank
  BY <1>2, <1>4, Zenon DEF TokenizeCheck
<1>5. CASE ~c.blank /\ c.substitution
  BY <1>2, <1>3, <1>5, Zenon DEF TokenizeCheck
<1>6. CASE ~c.blank /\ ~c.substitution /\ c.unmodelled
  BY <1>2, <1>3, <1>6, Zenon DEF TokenizeCheck
<1>7. CASE ~c.blank /\ ~c.substitution /\ ~c.unmodelled
  <2>1. TokenizeCheck(c) = SegmentHits(c.segments)
    BY <1>7, Zenon DEF TokenizeCheck
  <2>2. QED
    BY <1>1, <1>7, <2>1, SegmentHitsAre, Zenon
<1>8. QED
  BY <1>4, <1>5, <1>6, <1>7, Zenon

\* The semantic stage reports risks, at least one when the source is too large, no
\* grammar parses it or one that does finds a call.
LEMMA SemanticIs ==
  ASSUME NEW s \in Source
  PROVE  /\ SemanticCheck(s) \in Seq(Risks)
         /\ (/\ ~s.blank
             /\ \/ s.large \/ \A i \in DOMAIN s.grammars : s.grammars[i].error
                \/ \E i \in DOMAIN s.grammars : ~s.grammars[i].error /\ s.grammars[i].calls # << >>) =>
              \E i \in DOMAIN SemanticCheck(s) : TRUE
<1> DEFINE g == s.grammars
           clean == {i \in DOMAIN g : ~g[i].error}
           found == {i \in DOMAIN g : g[i].calls # << >>}
<1>1. g \in Seq(Grammar) /\ DOMAIN g = 1 .. Len(g) /\ DOMAIN g \subseteq Nat
  BY DEF Source
<1>2. \A i \in DOMAIN g : g[i] \in Grammar
  BY <1>1
<1>3. \A i \in DOMAIN g : g[i].calls \in Seq(Risks)
  <2>1. \A i \in DOMAIN g : g[i].calls \in Seq({L3, L4})
    BY <1>2, Zenon DEF Grammar
  <2>2. L3 \in Risks /\ L4 \in Risks
    BY DEF L3, L4, Risks
  <2>3. ASSUME NEW q \in Seq({L3, L4}) PROVE q \in Seq(Risks)
    BY <2>2
  <2>4. QED
    BY <2>1, <2>3, Zenon
<1>4. ASSUME NEW q \in Seq(Risks), q # << >> PROVE \E i \in DOMAIN q : TRUE
  <2>1. 1 \in DOMAIN q
    BY <1>4
  <2>2. QED
    BY <2>1, Zenon
<1>5. ASSUME NEW T, T \subseteq found, T # {}
      PROVE  g[Min(T)].calls \in Seq(Risks) /\ \E i \in DOMAIN g[Min(T)].calls : TRUE
  <2>1. T \subseteq Nat
    BY <1>1, <1>5, Zenon
  <2>2. Min(T) \in T
    BY <1>5, <2>1, MinOf, Zenon
  <2>3. Min(T) \in DOMAIN g /\ g[Min(T)].calls # << >>
    BY <1>5, <2>2, Zenon
  <2>4. QED
    BY <1>3, <1>4, <2>3, Zenon
<1>6. << >> \in Seq(Risks) /\ <<L2>> \in Seq(Risks) /\ \E i \in DOMAIN <<L2>> : TRUE
  <2>1. L2 \in Risks
    BY DEF L2, Risks
  <2>2. 1 \in DOMAIN <<L2>>
    OBVIOUS
  <2>3. << >> \in Seq(Risks) /\ <<L2>> \in Seq(Risks)
    BY <2>1
  <2>4. QED
    BY <2>2, <2>3, Zenon
<1>7. SemanticCheck(s) = IF s.blank THEN << >> ELSE IF s.large THEN <<L2>>
        ELSE IF clean \cap found # {} THEN g[Min(clean \cap found)].calls
        ELSE IF clean # {} THEN << >>
        ELSE IF found # {} THEN g[Min(found)].calls ELSE <<L2>>
  BY Zenon DEF SemanticCheck
<1>8. /\ clean \cap found \subseteq found /\ found \subseteq found
      /\ ((\A i \in DOMAIN g : g[i].error) => clean = {})
      /\ ((\E i \in DOMAIN g : ~g[i].error /\ g[i].calls # << >>) => clean \cap found # {})
  BY Zenon
<1> HIDE DEF g, clean, found
<1>9. SemanticCheck(s) \in Seq(Risks)
  BY <1>5, <1>6, <1>7, <1>8, Zenon
<1>10. ASSUME ~s.blank, \/ s.large \/ clean = {} \/ clean \cap found # {}
       PROVE  \E i \in DOMAIN SemanticCheck(s) : TRUE
  <2>0. clean = {} => clean \cap found = {}
    BY Zenon
  <2>1. CASE s.large
    BY <1>6, <1>7, <1>10, <2>1, Zenon
  <2>2. CASE ~s.large /\ clean \cap found # {}
    BY <1>5, <1>7, <1>8, <1>10, <2>2, Zenon
  <2>3. CASE ~s.large /\ clean = {} /\ found # {}
    BY <1>5, <1>7, <1>8, <1>10, <2>0, <2>3, Zenon
  <2>4. CASE ~s.large /\ clean = {} /\ found = {}
    BY <1>6, <1>7, <1>10, <2>0, <2>4, Zenon
  <2>5. QED
    BY <1>10, <2>1, <2>2, <2>3, <2>4, Zenon
<1>11. QED
  BY <1>8, <1>9, <1>10, Zenon DEF g

\* max_by finds a maximum of bounded keys.
LEMMA MaxByIs ==
  ASSUME NEW n \in Nat, n > 0, NEW keys \in [1 .. n -> 0 .. 63]
  PROVE  /\ MaxBy(keys) \in 1 .. n
         /\ \A j \in 1 .. n : keys[j] <= keys[MaxBy(keys)]
<1> DEFINE D == {63 - keys[j] : j \in 1 .. n}
<1>1. \A j \in 1 .. n : keys[j] \in 0 .. 63
  BY Zenon
<1>2. \A x \in 0 .. 63 : 63 - x \in Nat
  OBVIOUS
<1>3. D \subseteq Nat /\ D # {}
  <2>1. 1 \in 1 .. n
    OBVIOUS
  <2>2. QED
    BY <1>1, <1>2, <2>1, Zenon
<1>4. PICK d \in D : \A y \in D : d <= y
  <2> HIDE DEF D
  <2>1. QED
    BY <1>3, Least, Zenon
<1>5. PICK g \in 1 .. n : d = 63 - keys[g]
  BY <1>4, Zenon
<1>6. \A j \in 1 .. n : 63 - keys[g] <= 63 - keys[j]
  BY <1>4, <1>5, Zenon
<1>7. \A j \in 1 .. n : keys[j] <= keys[g]
  <2> SUFFICES ASSUME NEW j \in 1 .. n PROVE keys[j] <= keys[g]
    BY Zenon
  <2>1. keys[j] \in 0 .. 63 /\ keys[g] \in 0 .. 63 /\ 63 - keys[g] <= 63 - keys[j]
    BY <1>1, <1>6, Zenon
  <2>2. \A p, q \in 0 .. 63 : 63 - q <= 63 - p => p <= q
    OBVIOUS
  <2>3. QED
    BY <2>1, <2>2, Zenon
<1> DEFINE E == {j \in 1 .. n : keys[j] = keys[g]}
<1>8. E \in SUBSET (1 .. n) /\ E # {}
  BY Zenon
<1>9. Max(E) \in E /\ \A y \in E : Max(E) >= y
  <2> HIDE DEF E
  <2>1. QED
    BY <1>8, MaxOf, Zenon
<1> DEFINE m == Max(E)
<1>10. m \in 1 .. n /\ keys[m] = keys[g]
  BY <1>9, Zenon
<1>11. \A j \in 1 .. n : keys[j] = keys[m] => m >= j
  BY <1>9, <1>10, Zenon
<1> HIDE DEF m, E, D
<1>12. ASSUME NEW j \in 1 .. n PROVE keys[j] < keys[m] \/ (keys[j] = keys[m] /\ j <= m)
  <2>1. keys[j] \in 0 .. 63 /\ keys[m] \in 0 .. 63 /\ keys[j] <= keys[m]
    BY <1>1, <1>7, <1>10, Zenon
  <2>2. keys[j] = keys[m] => m >= j
    BY <1>11, Zenon
  <2>3. \A p, q \in 0 .. 63 : p <= q => p < q \/ p = q
    OBVIOUS
  <2>4. m >= j => j <= m
    <3>1. \A p, q \in 1 .. n : p >= q => q <= p
      BY Zenon
    <3>2. QED
      BY <1>10, <3>1, Zenon
  <2>5. QED
    BY <2>1, <2>2, <2>3, <2>4, Zenon
<1>13. DOMAIN keys = 1 .. n
  BY Zenon
<1> DEFINE x == MaxBy(keys)
<1>14. x \in 1 .. n /\ \A j \in 1 .. n : keys[j] < keys[x] \/ (keys[j] = keys[x] /\ j <= x)
  BY <1>10, <1>12, <1>13, Zenon DEF MaxBy
<1> HIDE DEF x
<1>15. ASSUME NEW j \in 1 .. n PROVE keys[j] <= keys[x]
  <2>1. keys[j] \in 0 .. 63 /\ keys[x] \in 0 .. 63 /\ (keys[j] < keys[x] \/ keys[j] = keys[x])
    BY <1>1, <1>14, Zenon
  <2>2. \A p, q \in 0 .. 63 : p < q \/ p = q => p <= q
    OBVIOUS
  <2>3. QED
    BY <2>1, <2>2, Zenon
<1>16. QED
  BY <1>14, <1>15, Zenon DEF x

\* The hits of the tokenizer or of the semantic stage.
BlockHits(risks, stage, scope) ==
  [i \in DOMAIN risks |-> Hit([action |-> "block", risk |-> risks[i], scope |-> scope], stage)]

\* Some hit blocks.
Blocking(s) == \E i \in DOMAIN s : s[i].rule.action = "block"

\* Every risk reported by one of the two stages becomes a blocking hit.
LEMMA BlockHitsAre ==
  ASSUME NEW risks \in Seq(Risks), NEW stage \in Stages, NEW scope \in Scopes
  PROVE  /\ BlockHits(risks, stage, scope) \in Seq(HitRec)
         /\ (\E i \in DOMAIN risks : TRUE) => Blocking(BlockHits(risks, stage, scope))
<1> DEFINE s == BlockHits(risks, stage, scope)
<1>1. DOMAIN risks = 1 .. Len(risks) /\ Len(risks) \in Nat /\ \A i \in DOMAIN risks : risks[i] \in Risks
  OBVIOUS
<1>2. ASSUME NEW k \in Risks
      PROVE  LET h == Hit([action |-> "block", risk |-> k, scope |-> scope], stage)
             IN h \in HitRec /\ h.rule.action = "block"
  BY Zenon DEF Hit, HitRec, Rule, Actions
<1>3. DOMAIN s = 1 .. Len(risks) /\
      \A i \in DOMAIN s : s[i] \in HitRec /\ s[i].rule.action = "block"
  BY <1>1, <1>2, Zenon DEF BlockHits
<1>4. s = [i \in 1 .. Len(risks) |-> s[i]]
  BY <1>1, Zenon DEF BlockHits
<1> HIDE DEF s
<1>5. s \in [1 .. Len(risks) -> HitRec]
  BY <1>3, <1>4, Zenon
<1>6. s \in Seq(HitRec)
  BY <1>1, <1>5, IsSeq, Zenon
<1>7. QED
  BY <1>1, <1>3, <1>6, Zenon DEF Blocking, s

\* A blocking hit of one stage is a blocking hit of the whole list.
LEMMA BlockingConcat ==
  ASSUME NEW u \in Seq(HitRec), NEW v \in Seq(HitRec)
  PROVE  /\ u \o v \in Seq(HitRec)
         /\ Blocking(u) \/ Blocking(v) => Blocking(u \o v)
<1>1. /\ Len(u) \in Nat /\ Len(v) \in Nat /\ DOMAIN u = 1 .. Len(u) /\ DOMAIN v = 1 .. Len(v)
      /\ DOMAIN (u \o v) = 1 .. Len(u) + Len(v)
      /\ \A i \in DOMAIN u : i \in DOMAIN (u \o v) /\ (u \o v)[i] = u[i]
      /\ \A i \in DOMAIN v : Len(u) + i \in DOMAIN (u \o v) /\ (u \o v)[Len(u) + i] = v[i]
  OBVIOUS
<1>2. u \o v \in Seq(HitRec)
  OBVIOUS
<1>3. QED
  BY <1>1, <1>2, Zenon DEF Blocking

\* What the scan of a request gives.
LEMMA HitsAre ==
  ASSUME NEW r \in Request
  PROVE  /\ EvaluateFullTyped(r) \in Seq(HitRec)
         /\ Objectionable(r) => Blocking(EvaluateFullTyped(r))
<1>1. /\ r.regex \in Seq(Rule) /\ r.command \in Command /\ r.source \in Source
  BY Zenon DEF Request
<1> DEFINE a == [i \in DOMAIN r.regex |-> Hit(r.regex[i], "regex")]
           b == IF RunTokenizer(r.type)
                THEN BlockHits(TokenizeCheck(r.command), "ast", "command") ELSE << >>
           c == IF RunSemantic(r.type)
                THEN BlockHits(SemanticCheck(r.source), "semantic", "content") ELSE << >>
<1>2. EvaluateFullTyped(r) = (a \o b) \o c
  BY Zenon DEF EvaluateFullTyped, BlockHits
<1>3. a \in Seq(HitRec)
  <2>1. DOMAIN r.regex = 1 .. Len(r.regex) /\ Len(r.regex) \in Nat /\ \A i \in DOMAIN r.regex : r.regex[i] \in Rule
    BY <1>1
  <2>2. ASSUME NEW x \in Rule PROVE Hit(x, "regex") \in HitRec
    BY Zenon DEF Hit, HitRec, Stages
  <2>3. a \in [1 .. Len(r.regex) -> HitRec]
    BY <2>1, <2>2, Zenon
  <2> HIDE DEF a
  <2>4. QED
    BY <2>1, <2>3, IsSeq, Zenon
<1>4. "ast" \in Stages /\ "semantic" \in Stages /\ "command" \in Scopes /\ "content" \in Scopes
  BY Zenon DEF Stages, Scopes
<1>5. << >> \in Seq(HitRec)
  OBVIOUS
<1>6. /\ BlockHits(TokenizeCheck(r.command), "ast", "command") \in Seq(HitRec)
      /\ BlockHits(SemanticCheck(r.source), "semantic", "content") \in Seq(HitRec)
  BY <1>1, <1>4, TokenizeIs, SemanticIs, BlockHitsAre, Zenon
<1>7. b \in Seq(HitRec) /\ c \in Seq(HitRec)
  BY <1>5, <1>6, Zenon
<1>8. ASSUME Objectionable(r) PROVE Blocking(b) \/ Blocking(c)
  <2>1. CASE /\ r.type = "shell" /\ ~r.command.blank
             /\ \/ r.command.substitution \/ r.command.unmodelled
                \/ \E i \in DOMAIN r.command.segments : CheckSegment(r.command.segments[i]) # L1
    <3>1. \E i \in DOMAIN TokenizeCheck(r.command) : TRUE
      BY <1>1, <2>1, TokenizeIs, Zenon
    <3>2. Blocking(BlockHits(TokenizeCheck(r.command), "ast", "command"))
      BY <1>1, <1>4, <3>1, TokenizeIs, BlockHitsAre, Zenon
    <3>3. QED
      BY <2>1, <3>2, Zenon DEF RunTokenizer
  <2>2. CASE /\ r.type = "code" /\ ~r.source.blank
             /\ LET g == r.source.grammars IN
                \/ r.source.large \/ \A i \in DOMAIN g : g[i].error
                \/ \E i \in DOMAIN g : ~g[i].error /\ g[i].calls # << >>
    <3>1. \E i \in DOMAIN SemanticCheck(r.source) : TRUE
      BY <1>1, <2>2, SemanticIs, Zenon
    <3>2. Blocking(BlockHits(SemanticCheck(r.source), "semantic", "content"))
      BY <1>1, <1>4, <3>1, SemanticIs, BlockHitsAre, Zenon
    <3>3. QED
      BY <2>2, <3>2, Zenon DEF RunSemantic
  <2>3. QED
    BY <1>8, <2>1, <2>2, Zenon DEF Objectionable
<1> HIDE DEF a, b, c
<1>9. a \o b \in Seq(HitRec) /\ (Blocking(b) => Blocking(a \o b))
  BY <1>3, <1>7, BlockingConcat, Zenon
<1>10. (a \o b) \o c \in Seq(HitRec) /\ (Blocking(a \o b) \/ Blocking(c) => Blocking((a \o b) \o c))
  BY <1>7, <1>9, BlockingConcat, Zenon
<1>11. QED
  BY <1>2, <1>8, <1>9, <1>10, Zenon

\* The sort key tells the action, the level and the stage of a hit apart, and a
\* hit that blocks is above every one that does not.
LEMMA KeyTells ==
  ASSUME NEW g \in HitRec, NEW h \in HitRec
  PROVE  /\ Key(g) \in 0 .. 63
         /\ Key(g) = Key(h) =>
              g.rule.action = h.rule.action /\ g.rule.risk = h.rule.risk /\ g.stage = h.stage
         /\ (g.rule.action = "block" /\ Key(g) <= Key(h)) =>
              h.rule.action = "block" /\ g.rule.risk <= h.rule.risk
<1>1. /\ g.rule.action \in Actions /\ g.rule.risk \in 0 .. 3 /\ g.stage \in Stages
      /\ h.rule.action \in Actions /\ h.rule.risk \in 0 .. 3 /\ h.stage \in Stages
  BY Zenon DEF HitRec, Rule, Risks
<1>2. \A a \in Actions : Severity(a) \in 0 .. 3
  BY DEF Actions, Severity
<1>3. \A a, b \in Actions : Severity(a) = Severity(b) => a = b
  BY DEF Actions, Severity
<1>4. \A a \in Actions : Severity(a) >= 3 <=> a = "block"
  BY DEF Actions, Severity
<1>5. \A s \in Stages : StageRank(s) \in 1 .. 3
  BY DEF Stages, StageRank
<1>6. \A s, t \in Stages : StageRank(s) = StageRank(t) => s = t
  BY DEF Stages, StageRank
<1> DEFINE a == Severity(g.rule.action)
           b == Severity(h.rule.action)
           k == g.rule.risk
           l == h.rule.risk
           s == StageRank(g.stage)
           t == StageRank(h.stage)
<1>8. /\ a \in 0 .. 3 /\ b \in 0 .. 3 /\ k \in 0 .. 3 /\ l \in 0 .. 3 /\ s \in 1 .. 3 /\ t \in 1 .. 3
  BY <1>1, <1>2, <1>5, Zenon
<1>9. Key(g) = a * 16 + k * 4 + s /\ Key(h) = b * 16 + l * 4 + t
  BY Zenon DEF Key
<1>10. /\ a = b => g.rule.action = h.rule.action
       /\ s = t => g.stage = h.stage
       /\ (a >= 3 <=> g.rule.action = "block")
       /\ (b >= 3 <=> h.rule.action = "block")
  BY <1>1, <1>3, <1>4, <1>6, Zenon
<1> HIDE DEF a, b, k, l, s, t
<1>13. /\ a * 16 + k * 4 + s \in 0 .. 63
       /\ a * 16 + k * 4 + s = b * 16 + l * 4 + t => a = b /\ k = l /\ s = t
       /\ (a >= 3 /\ a * 16 + k * 4 + s <= b * 16 + l * 4 + t) => b >= 3 /\ k <= l
  BY <1>8
<1>11. /\ Key(g) \in 0 .. 63
       /\ Key(g) = Key(h) => a = b /\ k = l /\ s = t
       /\ (a >= 3 /\ Key(g) <= Key(h)) => b >= 3 /\ k <= l
  BY <1>9, <1>13, Zenon
<1>12. QED
  BY <1>10, <1>11, Zenon DEF k, l

-----------------------------------------------------------------------------
(* The verdict of the hits.                                                   *)

\* A verdict, field by field.
Verd(a, k, st, re, ap, se, ca, rd, id) ==
  [action |-> a, risk |-> k, stage |-> st, reason |-> re, approval |-> ap, seatbelt |-> se,
   category |-> ca, redacted |-> rd, id |-> id]

\* The fields of a verdict, as a fact that is used by name.
HasFields(v, a, k, st, re, ap, se, ca, rd, id) ==
  /\ v.action = a /\ v.risk = k /\ v.stage = st /\ v.reason = re /\ v.approval = ap
  /\ v.seatbelt = se /\ v.category = ca /\ v.redacted = rd /\ v.id = id

\* A verdict has the fields it is built from.
LEMMA VerdFields ==
  ASSUME NEW a, NEW k, NEW st, NEW re, NEW ap, NEW se, NEW ca, NEW rd, NEW id
  PROVE  HasFields(Verd(a, k, st, re, ap, se, ca, rd, id), a, k, st, re, ap, se, ca, rd, id)
BY Zenon DEF Verd, HasFields

\* The verdict with one field, or with the action and the level, changed.
OneChanged(a, k, st, re, ap, se, ca, rd, id, x) ==
  LET v == Verd(a, k, st, re, ap, se, ca, rd, id)
  IN /\ [v EXCEPT !.action = x] = Verd(x, k, st, re, ap, se, ca, rd, id)
     /\ [v EXCEPT !.risk = x] = Verd(a, x, st, re, ap, se, ca, rd, id)
     /\ [v EXCEPT !.stage = x] = Verd(a, k, x, re, ap, se, ca, rd, id)
     /\ [v EXCEPT !.reason = x] = Verd(a, k, st, x, ap, se, ca, rd, id)
     /\ [v EXCEPT !.approval = x] = Verd(a, k, st, re, x, se, ca, rd, id)
     /\ [v EXCEPT !.seatbelt = x] = Verd(a, k, st, re, ap, x, ca, rd, id)
     /\ [v EXCEPT !.category = x] = Verd(a, k, st, re, ap, se, x, rd, id)
     /\ [v EXCEPT !.redacted = x] = Verd(a, k, st, re, ap, se, ca, x, id)
     /\ [v EXCEPT !.id = x] = Verd(a, k, st, re, ap, se, ca, rd, x)

\* A verdict after the changes of action and risk together.
TwoChanged(a, k, st, re, ap, se, ca, rd, id, x, y) ==
  LET v == Verd(a, k, st, re, ap, se, ca, rd, id)
  IN /\ [v EXCEPT !.risk = y, !.action = x] = Verd(x, y, st, re, ap, se, ca, rd, id)
     /\ [v EXCEPT !.action = x, !.risk = y] = Verd(x, y, st, re, ap, se, ca, rd, id)

\* A verdict with one or two fields changed, field by field.
LEMMA VerdExcept ==
  ASSUME NEW a, NEW k, NEW st, NEW re, NEW ap, NEW se, NEW ca, NEW rd, NEW id, NEW x, NEW y
  PROVE  /\ OneChanged(a, k, st, re, ap, se, ca, rd, id, x)
         /\ TwoChanged(a, k, st, re, ap, se, ca, rd, id, x, y)
<1> DEFINE v == Verd(a, k, st, re, ap, se, ca, rd, id)
           w == Verd(x, y, st, re, ap, se, ca, rd, id)
           va == Verd(x, k, st, re, ap, se, ca, rd, id)
           vk == Verd(a, y, st, re, ap, se, ca, rd, id)
<1>20. [v EXCEPT !.action = x] = Verd(x, k, st, re, ap, se, ca, rd, id)
  BY DEF Verd
<1>21. [v EXCEPT !.risk = x] = Verd(a, x, st, re, ap, se, ca, rd, id)
  BY DEF Verd
<1>22. [v EXCEPT !.stage = x] = Verd(a, k, x, re, ap, se, ca, rd, id)
  BY DEF Verd
<1>23. [v EXCEPT !.reason = x] = Verd(a, k, st, x, ap, se, ca, rd, id)
  BY DEF Verd
<1>24. [v EXCEPT !.approval = x] = Verd(a, k, st, re, x, se, ca, rd, id)
  BY DEF Verd
<1>25. [v EXCEPT !.seatbelt = x] = Verd(a, k, st, re, ap, x, ca, rd, id)
  BY DEF Verd
<1>26. [v EXCEPT !.category = x] = Verd(a, k, st, re, ap, se, x, rd, id)
  BY DEF Verd
<1>27. [v EXCEPT !.redacted = x] = Verd(a, k, st, re, ap, se, ca, x, id)
  BY DEF Verd
<1>28. [v EXCEPT !.id = x] = Verd(a, k, st, re, ap, se, ca, rd, x)
  BY DEF Verd
<1>4. [v EXCEPT !.action = x] = va
  BY DEF Verd
<1>5. [va EXCEPT !.risk = y] = w
  BY DEF Verd
<1>6. [v EXCEPT !.risk = y] = vk
  BY DEF Verd
<1>7. [vk EXCEPT !.action = x] = w
  BY DEF Verd
<1> HIDE DEF v, w, va, vk
<1>8. [v EXCEPT !.action = x, !.risk = y] = [[v EXCEPT !.action = x] EXCEPT !.risk = y]
  BY Zenon
<1>9. [v EXCEPT !.risk = y, !.action = x] = [[v EXCEPT !.risk = y] EXCEPT !.action = x]
  BY Zenon
<1>10. [v EXCEPT !.action = x, !.risk = y] = w
  BY <1>4, <1>5, <1>8, Zenon
<1>11. [v EXCEPT !.risk = y, !.action = x] = w
  BY <1>6, <1>7, <1>9, Zenon
<1>12. OneChanged(a, k, st, re, ap, se, ca, rd, id, x)
  BY <1>20, <1>21, <1>22, <1>23, <1>24, <1>25, <1>26, <1>27, <1>28, Zenon DEF OneChanged, v
<1>13. TwoChanged(a, k, st, re, ap, se, ca, rd, id, x, y)
  BY <1>10, <1>11, Zenon DEF TwoChanged, v, w
<1>14. QED
  BY <1>12, <1>13, Zenon

\* The action and the level the hint and the redaction make of a and k, and the
\* content the verdict shows.
RiskHinted(r, k) == IF HintRiskFloor(r.hint) > k THEN HintRiskFloor(r.hint) ELSE k
ActionHinted(r, a, k) == IF HintRiskFloor(r.hint) > k /\ a = "allow" THEN "redact" ELSE a
Hides(r, a, k) == RedactCounted(r.text).count > 0 /\ ActionHinted(r, a, k) = "allow"
RiskAfter(r, a, k) == IF Hides(r, a, k) THEN L2 ELSE RiskHinted(r, k)
ActionAfter(r, a, k) == IF Hides(r, a, k) THEN "redact" ELSE ActionHinted(r, a, k)
Shown(r) == IF RedactCounted(r.text).count > 0 THEN RedactCounted(r.text).redacted ELSE << >>

\* A verdict of the hits, and what the engine makes of it.
FromHits(s, a, k, st, re, ap, se) ==
  VerdictFromHits(s) = Verd(a, k, st, re, ap, se, "clean", << >>, FALSE)

\* The verdict of evaluate, from the one of the hits.
Evaluated(r, s, a, k, st, re, ap, se) ==
  Evaluate(r, s) = Verd(ActionAfter(r, a, k), RiskAfter(r, a, k), st, re, ap, se, InferCategory(s),
                        Shown(r), ap \/ ActionAfter(r, a, k) = "block")

\* What evaluate makes of the verdict of the hits: hints first, then the
\* redaction, the category and the action id.
LEMMA EvaluateIs ==
  ASSUME NEW r, NEW s, NEW a, NEW k, NEW st, NEW re, NEW ap, NEW se, FromHits(s, a, k, st, re, ap, se)
  PROVE  Evaluated(r, s, a, k, st, re, ap, se)
<1> DEFINE v0 == Verd(a, k, st, re, ap, se, "clean", << >>, FALSE)
           a1 == ActionHinted(r, a, k)
           k1 == RiskHinted(r, k)
           ca == InferCategory(s)
           v1 == Verd(a1, k1, st, re, ap, se, "clean", << >>, FALSE)
           v2 == Verd(a1, k1, st, re, ap, se, ca, << >>, FALSE)
           a2 == ActionAfter(r, a, k)
           k2 == RiskAfter(r, a, k)
           c == RedactCounted(r.text)
           v3 == Verd(a2, k2, st, re, ap, se, ca, Shown(r), FALSE)
<1>1. WithHint(v0, r.hint) = v1
  <2>1. v0.risk = k /\ v0.action = a
    BY Zenon DEF Verd
  <2>2. CASE HintRiskFloor(r.hint) > k
    <3>1. WithHint(v0, r.hint) =
            [v0 EXCEPT !.risk = HintRiskFloor(r.hint),
                       !.action = IF v0.action = "allow" THEN "redact" ELSE v0.action]
      BY Zenon, <2>1, <2>2 DEF WithHint, Verd
    <3>2. WithHint(v0, r.hint) = [v0 EXCEPT !.risk = k1, !.action = a1]
      <4>1. k1 = HintRiskFloor(r.hint) /\ a1 = IF v0.action = "allow" THEN "redact" ELSE v0.action
        BY <2>1, <2>2, Zenon DEF RiskHinted, ActionHinted
      <4> HIDE DEF v0, a1, k1
      <4>2. QED
        BY <3>1, <4>1, Zenon
    <3> HIDE DEF a1, k1
    <3>3. TwoChanged(a, k, st, re, ap, se, "clean", << >>, FALSE, a1, k1)
      BY VerdExcept, Zenon
    <3>4. QED
      BY <3>2, <3>3, Zenon DEF TwoChanged
  <2>3. CASE ~(HintRiskFloor(r.hint) > k)
    <3>1. WithHint(v0, r.hint) = v0
      BY <2>1, <2>3, Zenon DEF WithHint
    <3>2. a1 = a /\ k1 = k
      BY <2>3, Zenon DEF RiskHinted, ActionHinted
    <3> HIDE DEF a1, k1
    <3>3. QED
      BY <3>1, <3>2, Zenon
  <2>4. QED
    BY <2>2, <2>3, Zenon
<1> HIDE DEF a1, k1
<1>2. [v1 EXCEPT !.category = ca] = v2
  <2> HIDE DEF ca
  <2>1. OneChanged(a1, k1, st, re, ap, se, "clean", << >>, FALSE, ca)
    BY VerdExcept, Zenon
  <2>2. QED
    BY <2>1, Zenon DEF OneChanged
<1>3. WithRedaction(v2, r.text) = v3
  <2> HIDE DEF ca
  <2>1. v2.action = a1
    BY Zenon DEF Verd
  <2>2. CASE ~(c.count > 0)
    <3>1. WithRedaction(v2, r.text) = v2
      BY <2>2, Zenon DEF WithRedaction
    <3>2. a2 = a1 /\ k2 = k1 /\ Shown(r) = << >>
      BY <2>2, Zenon DEF ActionAfter, RiskAfter, Hides, Shown, a1, k1
    <3> HIDE DEF a2, k2
    <3>3. QED
      BY <3>1, <3>2, Zenon
  <2>3. CASE c.count > 0 /\ a1 = "allow"
    <3> DEFINE w == [v2 EXCEPT !.action = "redact", !.risk = L2]
    <3>1. WithRedaction(v2, r.text) = [w EXCEPT !.redacted = c.redacted]
      BY <2>1, <2>3, Zenon DEF WithRedaction
    <3>2. w = Verd("redact", L2, st, re, ap, se, ca, << >>, FALSE)
      <4>1. TwoChanged(a1, k1, st, re, ap, se, ca, << >>, FALSE, "redact", L2)
        BY VerdExcept, Zenon
      <4>2. QED
        BY <4>1, Zenon DEF TwoChanged
    <3>3. a2 = "redact" /\ k2 = L2 /\ Shown(r) = c.redacted
      BY <2>3, Zenon DEF ActionAfter, RiskAfter, Hides, Shown, a1, k1
    <3>4. \A x : [Verd("redact", L2, st, re, ap, se, ca, << >>, FALSE) EXCEPT !.redacted = x]
                 = Verd("redact", L2, st, re, ap, se, ca, x, FALSE)
      <4> TAKE x
      <4>1. OneChanged("redact", L2, st, re, ap, se, ca, << >>, FALSE, x)
        BY VerdExcept, Zenon
      <4>2. QED
        BY <4>1, Zenon DEF OneChanged
    <3> HIDE DEF a2, k2, w
    <3>5. QED
      BY <3>1, <3>2, <3>3, <3>4, Zenon
  <2>4. CASE c.count > 0 /\ a1 # "allow"
    <3>1. WithRedaction(v2, r.text) = [v2 EXCEPT !.redacted = c.redacted]
      BY <2>1, <2>4, Zenon DEF WithRedaction
    <3>3. a2 = a1 /\ k2 = k1 /\ Shown(r) = c.redacted
      BY <2>4, Zenon DEF ActionAfter, RiskAfter, Hides, Shown, a1, k1
    <3>4. \A x : [v2 EXCEPT !.redacted = x] = Verd(a1, k1, st, re, ap, se, ca, x, FALSE)
      <4> TAKE x
      <4>1. OneChanged(a1, k1, st, re, ap, se, ca, << >>, FALSE, x)
        BY VerdExcept, Zenon
      <4>2. QED
        BY <4>1, Zenon DEF OneChanged
    <3> HIDE DEF a2, k2, v2
    <3>5. QED
      BY <3>1, <3>3, <3>4, Zenon
  <2>5. QED
    BY <2>2, <2>3, <2>4, Zenon
<1>4. WithActionId(v3) = Verd(a2, k2, st, re, ap, se, ca, Shown(r), ap \/ a2 = "block")
  <2> HIDE DEF ca, a2, k2
  <2>1. v3.approval = ap /\ v3.action = a2
    BY Zenon DEF Verd
  <2>2. \A x : [v3 EXCEPT !.id = x] = Verd(a2, k2, st, re, ap, se, ca, Shown(r), x)
    <3> TAKE x
    <3>1. OneChanged(a2, k2, st, re, ap, se, ca, Shown(r), FALSE, x)
      BY VerdExcept, Zenon
    <3>2. QED
      BY <3>1, Zenon DEF OneChanged
  <2>3. WithActionId(v3) = [v3 EXCEPT !.id = (v3.approval \/ v3.action = "block")]
    BY Zenon DEF WithActionId
  <2> HIDE DEF v3
  <2>4. QED
    BY <2>1, <2>2, <2>3, Zenon
<1>5. VerdictFromHits(s) = v0
  BY Zenon DEF FromHits
<1>6. Evaluate(r, s) = WithActionId(WithRedaction(
        [WithHint(VerdictFromHits(s), r.hint) EXCEPT !.category = ca], r.text))
  BY Zenon DEF Evaluate
<1> HIDE DEF v0, v1, v2, v3, a2, k2, ca
<1>7. Evaluate(r, s) = Verd(a2, k2, st, re, ap, se, ca, Shown(r), ap \/ a2 = "block")
  BY <1>1, <1>2, <1>3, <1>4, <1>5, <1>6, Zenon
<1>8. QED
  BY <1>7, Zenon DEF Evaluated, a2, k2, ca

\* NoVerdict with the fields a hit gives.
FromHit(a, k, st, re, ap, se) ==
  [NoVerdict EXCEPT !.action = a, !.risk = k, !.stage = st, !.reason = re, !.approval = ap,
                    !.seatbelt = se] = Verd(a, k, st, re, ap, se, "clean", << >>, FALSE)

\* The verdict that verdict_from_hits builds of one hit, field by field.
LEMMA FromHitIs ==
  ASSUME NEW a, NEW k, NEW st, NEW re, NEW ap, NEW se PROVE FromHit(a, k, st, re, ap, se)
<1> DEFINE v0 == NoVerdict
           v1 == Verd(a, L1, "regex", 0, FALSE, FALSE, "clean", << >>, FALSE)
           v2 == Verd(a, k, "regex", 0, FALSE, FALSE, "clean", << >>, FALSE)
           v3 == Verd(a, k, st, 0, FALSE, FALSE, "clean", << >>, FALSE)
           v4 == Verd(a, k, st, re, FALSE, FALSE, "clean", << >>, FALSE)
           v5 == Verd(a, k, st, re, ap, FALSE, "clean", << >>, FALSE)
           v6 == Verd(a, k, st, re, ap, se, "clean", << >>, FALSE)
<1>0. v0 = Verd("allow", L1, "regex", 0, FALSE, FALSE, "clean", << >>, FALSE)
  BY Zenon DEF NoVerdict, Verd
<1> HIDE DEF v0
<1>1. [v0 EXCEPT !.action = a] = v1
  <2>1. OneChanged("allow", L1, "regex", 0, FALSE, FALSE, "clean", << >>, FALSE, a)
    BY VerdExcept, Zenon
  <2>2. QED
    BY <1>0, <2>1, Zenon DEF OneChanged
<1>2. [v1 EXCEPT !.risk = k] = v2
  <2>1. OneChanged(a, L1, "regex", 0, FALSE, FALSE, "clean", << >>, FALSE, k)
    BY VerdExcept, Zenon
  <2>2. QED
    BY <2>1, Zenon DEF OneChanged
<1>3. [v2 EXCEPT !.stage = st] = v3
  <2>1. OneChanged(a, k, "regex", 0, FALSE, FALSE, "clean", << >>, FALSE, st)
    BY VerdExcept, Zenon
  <2>2. QED
    BY <2>1, Zenon DEF OneChanged
<1>4. [v3 EXCEPT !.reason = re] = v4
  <2>1. OneChanged(a, k, st, 0, FALSE, FALSE, "clean", << >>, FALSE, re)
    BY VerdExcept, Zenon
  <2>2. QED
    BY <2>1, Zenon DEF OneChanged
<1>5. [v4 EXCEPT !.approval = ap] = v5
  <2>1. OneChanged(a, k, st, re, FALSE, FALSE, "clean", << >>, FALSE, ap)
    BY VerdExcept, Zenon
  <2>2. QED
    BY <2>1, Zenon DEF OneChanged
<1>6. [v5 EXCEPT !.seatbelt = se] = v6
  <2>1. OneChanged(a, k, st, re, ap, FALSE, "clean", << >>, FALSE, se)
    BY VerdExcept, Zenon
  <2>2. QED
    BY <2>1, Zenon DEF OneChanged
<1> HIDE DEF v1, v2, v3, v4, v5, v6
<1>7. [v0 EXCEPT !.action = a, !.risk = k, !.stage = st, !.reason = re, !.approval = ap,
                 !.seatbelt = se] =
      [[[[[[v0 EXCEPT !.action = a] EXCEPT !.risk = k] EXCEPT !.stage = st] EXCEPT !.reason = re]
         EXCEPT !.approval = ap] EXCEPT !.seatbelt = se]
  BY Zenon
<1>8. [v0 EXCEPT !.action = a, !.risk = k, !.stage = st, !.reason = re, !.approval = ap,
                 !.seatbelt = se] = v6
  BY <1>1, <1>2, <1>3, <1>4, <1>5, <1>6, <1>7, Zenon
<1>9. QED
  BY <1>8, Zenon DEF FromHit, v0, v6

\* h is at the top of the hits of s.
Top(s, h) == Has(s, h) /\ \A g : Has(s, g) => Key(g) <= Key(h)

\* The verdict of some hits is that of a top one.
LEMMA FromTop ==
  ASSUME NEW s \in Seq(HitRec), s # << >>
  PROVE  \E h \in HitRec, re \in Nat :
           /\ Top(s, h)
           /\ FromHits(s, h.rule.action, h.rule.risk, h.stage, re, h.rule.risk = L3,
                       h.rule.risk >= L3 \/ h.rule.action = "block")
<1> DEFINE n == Len(s)
           keys == [j \in DOMAIN s |-> Key(s[j])]
           i == MaxBy(keys)
           h == s[i]
<1>1. n \in Nat /\ n > 0 /\ DOMAIN s = 1 .. n /\ \A j \in 1 .. n : s[j] \in HitRec
  OBVIOUS
<1>2. \A j \in 1 .. n : Key(s[j]) \in 0 .. 63
  BY <1>1, KeyTells, Zenon
<1>3. keys \in [1 .. n -> 0 .. 63] /\ \A j \in 1 .. n : keys[j] = Key(s[j])
  BY <1>1, <1>2, Zenon
<1>4. i \in 1 .. n /\ \A j \in 1 .. n : keys[j] <= keys[i]
  <2> HIDE DEF keys, n
  <2>1. QED
    BY <1>1, <1>3, MaxByIs, Zenon
<1>5. i \in Nat /\ h \in HitRec
  <2>1. 1 .. n \subseteq Nat
    OBVIOUS
  <2> HIDE DEF n, keys, i
  <2>2. QED
    BY <1>1, <1>4, <2>1, Zenon
<1>6. Top(s, h)
  <2>1. \A j \in 1 .. n : Key(s[j]) <= Key(h)
    BY <1>3, <1>4, Zenon
  <2> HIDE DEF i, n
  <2>2. QED
    BY <1>1, <1>4, <2>1, Zenon DEF Top, Has
<1>7. VerdictFromHits(s) =
        [NoVerdict EXCEPT !.action = h.rule.action, !.risk = h.rule.risk, !.stage = h.stage,
                          !.reason = i, !.approval = (h.rule.risk = L3),
                          !.seatbelt = (h.rule.risk >= L3 \/ h.rule.action = "block")]
  BY Zenon DEF VerdictFromHits
<1> HIDE DEF i, h
<1>8. FromHit(h.rule.action, h.rule.risk, h.stage, i, h.rule.risk = L3,
              h.rule.risk >= L3 \/ h.rule.action = "block")
  BY FromHitIs, Zenon
<1>9. FromHits(s, h.rule.action, h.rule.risk, h.stage, i, h.rule.risk = L3,
               h.rule.risk >= L3 \/ h.rule.action = "block")
  BY <1>7, <1>8, Zenon DEF FromHits, FromHit
<1>10. QED
  BY <1>5, <1>6, <1>9, Zenon

\* Without a hit the verdict allows.
LEMMA FromNone == FromHits(<< >>, "allow", L1, "regex", 0, FALSE, FALSE)
BY Zenon DEF FromHits, VerdictFromHits, NoVerdict, Verd

\* Evaluate's fields, from those of the verdict of the hits.
LEMMA EvaluateFields ==
  ASSUME NEW r, NEW s, NEW a, NEW k, NEW st, NEW re, NEW ap, NEW se, FromHits(s, a, k, st, re, ap, se)
  PROVE  HasFields(Evaluate(r, s), ActionAfter(r, a, k), RiskAfter(r, a, k), st, re, ap, se,
                   InferCategory(s), Shown(r), ap \/ ActionAfter(r, a, k) = "block")
<1>1. Evaluated(r, s, a, k, st, re, ap, se)
  BY EvaluateIs, Zenon
<1>2. QED
  BY <1>1, VerdFields, Zenon DEF Evaluated

\* A hit that blocks makes the verdict block, at its level or above.
LEMMA EvaluateBlocks ==
  ASSUME NEW r, NEW s \in Seq(HitRec), Blocking(s)
  PROVE  LET v == Evaluate(r, s)
         IN /\ v.action = "block" /\ v.id /\ v.seatbelt
            /\ \A i \in DOMAIN s : s[i].rule.action = "block" => v.risk >= s[i].rule.risk
<1>1. s # << >>
  BY DEF Blocking
<1>2. PICK h \in HitRec, re \in Nat :
           /\ Top(s, h)
           /\ FromHits(s, h.rule.action, h.rule.risk, h.stage, re, h.rule.risk = L3,
                       h.rule.risk >= L3 \/ h.rule.action = "block")
  BY <1>1, FromTop, Zenon
<1>3. \A i \in DOMAIN s : s[i] \in HitRec
  OBVIOUS
<1>4. ASSUME NEW i \in DOMAIN s, s[i].rule.action = "block"
      PROVE  h.rule.action = "block" /\ s[i].rule.risk <= h.rule.risk
  <2>1. Key(s[i]) <= Key(h)
    BY <1>2, Zenon DEF Top, Has
  <2>2. QED
    BY <1>3, <1>4, <2>1, KeyTells, Zenon
<1>5. h.rule.action = "block"
  BY <1>4, Zenon DEF Blocking
<1> DEFINE v == Evaluate(r, s)
           k == h.rule.risk
<1>6. /\ v.action = ActionAfter(r, "block", k) /\ v.risk = RiskAfter(r, "block", k)
      /\ v.seatbelt = (k >= L3 \/ h.rule.action = "block")
      /\ v.id = (k = L3 \/ ActionAfter(r, "block", k) = "block")
  <2>1. HasFields(v, ActionAfter(r, h.rule.action, k), RiskAfter(r, h.rule.action, k), h.stage, re,
                  k = L3, k >= L3 \/ h.rule.action = "block", InferCategory(s), Shown(r),
                  k = L3 \/ ActionAfter(r, h.rule.action, k) = "block")
    BY <1>2, EvaluateFields, Zenon
  <2> HIDE DEF v, k
  <2>2. QED
    BY <1>5, <2>1, Zenon DEF HasFields
<1>7. "block" # "allow" /\ "block" # "redact"
  BY Zenon
<1>8. ActionHinted(r, "block", k) = "block"
  BY <1>7, Zenon DEF ActionHinted
<1>9. ActionAfter(r, "block", k) = "block" /\ RiskAfter(r, "block", k) = RiskHinted(r, k)
  BY <1>7, <1>8, Zenon DEF ActionAfter, RiskAfter, Hides
<1>10. k \in 0 .. 3
  BY Zenon DEF HitRec, Rule, Risks
<1>11. RiskHinted(r, k) \in 0 .. 3 /\ RiskHinted(r, k) >= k
  <2> HIDE DEF k
  <2>1. HintRiskFloor(r.hint) \in {0, 1}
    BY Zenon DEF HintRiskFloor, L1, L2
  <2>2. QED
    BY <1>10, <2>1 DEF RiskHinted
<1>12. ASSUME NEW i \in DOMAIN s, s[i].rule.action = "block" PROVE v.risk >= s[i].rule.risk
  <2>1. s[i].rule.risk <= k
    BY <1>4, <1>12, Zenon
  <2>2. s[i].rule.risk \in 0 .. 3
    BY <1>3, Zenon DEF HitRec, Rule, Risks
  <2>3. \A x, y, z \in 0 .. 3 : x <= y /\ z >= y => z >= x
    OBVIOUS
  <2>4. RiskHinted(r, k) >= s[i].rule.risk
    <3> HIDE DEF k
    <3>1. QED
      BY <1>10, <1>11, <2>1, <2>2, <2>3, Zenon
  <2> HIDE DEF v, k
  <2>5. QED
    BY <1>6, <1>9, <2>4, Zenon
<1>13. v.action = "block" /\ v.id /\ v.seatbelt
  <2> HIDE DEF v, k
  <2>1. QED
    BY <1>5, <1>6, <1>9, Zenon
<1>14. QED
  BY <1>12, <1>13, Zenon

\* Two verdicts that differ at most in what the order of the hits decides.
Same(v, w) ==
  <<w.action, w.risk, w.stage, w.approval, w.seatbelt, w.id>> =
  <<v.action, v.risk, v.stage, v.approval, v.seatbelt, v.id>>

\* Hits with the same members give the same action, level, stage and approval.
LEMMA EvaluateSame ==
  ASSUME NEW r, NEW s \in Seq(HitRec), NEW t \in Seq(HitRec), \A g : Has(s, g) <=> Has(t, g)
  PROVE  Same(Evaluate(r, s), Evaluate(r, t))
<1>1. CASE s = << >>
  <2>1. t = << >>
    <3>1. \A g : ~Has(s, g)
      BY <1>1 DEF Has
    <3>2. \A i \in DOMAIN t : Has(t, t[i])
      BY Zenon DEF Has
    <3>3. ~ \E i \in DOMAIN t : TRUE
      BY <3>1, <3>2, Zenon
    <3>4. t # << >> => 1 \in DOMAIN t
      OBVIOUS
    <3>5. QED
      BY <3>3, <3>4, Zenon
  <2>2. QED
    BY <1>1, <2>1, Zenon DEF Same
<1>2. CASE s # << >>
  <2>1. t # << >>
    <3>1. Has(s, s[1])
      BY <1>2 DEF Has
    <3>2. Has(t, s[1])
      BY <3>1, Zenon
    <3>3. QED
      BY <3>2 DEF Has
  <2>2. PICK g \in HitRec, x \in Nat :
           /\ Top(s, g)
           /\ FromHits(s, g.rule.action, g.rule.risk, g.stage, x, g.rule.risk = L3,
                       g.rule.risk >= L3 \/ g.rule.action = "block")
    BY <1>2, FromTop, Zenon
  <2>3. PICK h \in HitRec, y \in Nat :
           /\ Top(t, h)
           /\ FromHits(t, h.rule.action, h.rule.risk, h.stage, y, h.rule.risk = L3,
                       h.rule.risk >= L3 \/ h.rule.action = "block")
    BY <2>1, FromTop, Zenon
  <2>4. Key(g) <= Key(h) /\ Key(h) <= Key(g)
    BY <2>2, <2>3, Zenon DEF Top
  <2>5. Key(g) = Key(h)
    <3>1. Key(g) \in 0 .. 63 /\ Key(h) \in 0 .. 63
      BY KeyTells, Zenon
    <3>2. \A p, q \in 0 .. 63 : p <= q /\ q <= p => p = q
      OBVIOUS
    <3>3. QED
      BY <2>4, <3>1, <3>2, Zenon
  <2>6. h.rule.action = g.rule.action /\ h.rule.risk = g.rule.risk /\ h.stage = g.stage
    BY <2>5, KeyTells, Zenon
  <2> DEFINE a == g.rule.action
             k == g.rule.risk
             v == Evaluate(r, s)
             w == Evaluate(r, t)
  <2>7. HasFields(v, ActionAfter(r, a, k), RiskAfter(r, a, k), g.stage, x, k = L3,
                  k >= L3 \/ a = "block", InferCategory(s), Shown(r),
                  k = L3 \/ ActionAfter(r, a, k) = "block")
    BY <2>2, EvaluateFields, Zenon
  <2>8. FromHits(t, a, k, g.stage, y, k = L3, k >= L3 \/ a = "block")
    BY <2>3, <2>6, Zenon
  <2>9. HasFields(w, ActionAfter(r, a, k), RiskAfter(r, a, k), g.stage, y, k = L3,
                  k >= L3 \/ a = "block", InferCategory(t), Shown(r),
                  k = L3 \/ ActionAfter(r, a, k) = "block")
    BY <2>8, EvaluateFields, Zenon
  <2> HIDE DEF a, k, v, w
  <2>10. /\ w.action = v.action /\ w.risk = v.risk /\ w.stage = v.stage
         /\ w.approval = v.approval /\ w.seatbelt = v.seatbelt /\ w.id = v.id
    BY <2>7, <2>9, Zenon DEF HasFields
  <2>11. Same(v, w)
    BY <2>10, Zenon DEF Same
  <2>12. QED
    BY <2>11, Zenon DEF v, w
<1>3. QED
  BY <1>1, <1>2, Zenon

\* A list read from its end.
Reversed(s) == [i \in DOMAIN s |-> s[Len(s) + 1 - i]]

\* The hits in reverse order have the same members.
LEMMA ReversedHas ==
  ASSUME NEW X, NEW s \in Seq(X)
  PROVE  Reversed(s) \in Seq(X) /\ \A g : Has(s, g) <=> Has(Reversed(s), g)
<1> DEFINE n == Len(s)
           t == Reversed(s)
<1>1. n \in Nat /\ DOMAIN s = 1 .. n /\ \A i \in 1 .. n : s[i] \in X
  OBVIOUS
<1>2. \A i \in 1 .. n : n + 1 - i \in 1 .. n /\ n + 1 - (n + 1 - i) = i
  BY <1>1
<1>3. t \in [1 .. n -> X] /\ DOMAIN t = 1 .. n /\ \A i \in 1 .. n : t[i] = s[n + 1 - i]
  BY <1>1, <1>2, Zenon DEF Reversed
<1> HIDE DEF t, n
<1>4. t \in Seq(X)
  BY <1>1, <1>3, IsSeq, Zenon
<1>5. ASSUME NEW i \in 1 .. n PROVE Has(t, s[i]) /\ Has(s, t[i])
  <2>1. n + 1 - i \in 1 .. n /\ n + 1 - (n + 1 - i) = i
    BY <1>2, Zenon
  <2>2. t[n + 1 - i] = s[n + 1 - (n + 1 - i)] /\ t[i] = s[n + 1 - i]
    BY <1>3, <2>1, Zenon
  <2>3. t[n + 1 - i] = s[i]
    BY <2>1, <2>2, Zenon
  <2>4. Has(t, s[i])
    BY <1>3, <2>1, <2>3, Zenon DEF Has
  <2>5. Has(s, t[i])
    BY <1>1, <2>1, <2>2, Zenon DEF Has
  <2>6. QED
    BY <2>4, <2>5, Zenon
<1>6. \A g : Has(s, g) <=> Has(t, g)
  BY <1>1, <1>3, <1>5, Zenon DEF Has
<1>7. QED
  BY <1>4, <1>6, Zenon DEF t

-----------------------------------------------------------------------------
(* The properties of one evaluation.                                          *)

\* The inductive invariant of one evaluation: hits and verdict are what the scan
\* and the engine compute of the request, the pending row of an action id is
\* stored before the audit row is written, and an ok answer is the last step.
EvalInv ==
  /\ req \in Requests
  /\ phase \in {"idle", "scan", "put", "append", "done"}
  /\ phase # "idle" => hits = EvaluateFullTyped(req)
  /\ Judged => verdict = Evaluate(req, hits)
  /\ phase = "append" => (verdict.id => pending)
  /\ answer = "ok" =>
       /\ phase = "done" /\ (verdict.id => pending)
       /\ HighRisk(verdict) => audited = "sync"

\* EvalInv holds at the start and is kept by every step of the evaluation.
LEMMA EvalInvHolds == EvalSpec => []EvalInv
<1>1. EvalInit => EvalInv
  BY Zenon DEF EvalInit, EvalInv, Judged
<1>2. EvalInv /\ [EvalNext]_evalVars => EvalInv'
  <2> SUFFICES ASSUME EvalInv, [EvalNext]_evalVars PROVE EvalInv'
    BY Zenon
  <2> USE DEF EvalInv, Judged
  <2>1. CASE Scan
    BY <2>1, Zenon DEF Scan
  <2>2. CASE Judge
    <3>1. phase' = "put" \/ (phase' = "append" /\ ~verdict'.id)
      BY <2>2, Zenon DEF Judge
    <3>2. QED
      BY <2>2, <3>1, Zenon DEF Judge
  <2>3. CASE PutPending
    BY <2>3, Zenon DEF PutPending
  <2>4. CASE PutPendingFails
    BY <2>4, Zenon DEF PutPendingFails
  <2>5. CASE AppendAudit
    <3>1. HighRisk(verdict)' <=> HighRisk(verdict)
      BY <2>5, Zenon DEF AppendAudit, HighRisk
    <3>2. QED
      BY <2>5, <3>1, Zenon DEF AppendAudit
  <2>6. CASE AppendFails
    BY <2>6, Zenon DEF AppendFails
  <2>7. CASE UNCHANGED evalVars
    BY <2>7, Zenon DEF evalVars, HighRisk
  <2>8. QED
    BY <2>1, <2>2, <2>3, <2>4, <2>5, <2>6, <2>7, Zenon DEF EvalNext
<1>3. QED
  BY <1>1, <1>2, PTL DEF EvalSpec

\* The hits of a judged request.
LEMMA JudgedHits ==
  ASSUME EvalInv, Judged
  PROVE  /\ req \in Request /\ hits \in Seq(HitRec) /\ verdict = Evaluate(req, hits)
         /\ Objectionable(req) => Blocking(hits)
<1>1. req \in Request
  BY VerdictAssumption, Zenon DEF EvalInv
<1>2. hits = EvaluateFullTyped(req)
  BY Zenon DEF EvalInv, Judged
<1>3. verdict = Evaluate(req, hits)
  BY Zenon DEF EvalInv
<1>4. QED
  BY <1>1, <1>2, <1>3, HitsAre, Zenon

\* What one stage objects to prevails over the other hits, the hint and the
\* redaction, whatever the rules, the request and the stages' answers.
THEOREM BlocksPrevail == EvalSpec => []BlockPrevails
<1>1. EvalInv => BlockPrevails
  <2> DEFINE blocking == {h \in HitRules : h.action = "block"}
  <2> SUFFICES ASSUME EvalInv, Judged, blocking # {} \/ Objectionable(req)
               PROVE  /\ verdict.action = "block" /\ verdict.id /\ verdict.seatbelt
                      /\ Decision(verdict) = "block"
                      /\ \A h \in blocking : verdict.risk >= h.risk
    BY Zenon DEF BlockPrevails
  <2>1. \A h \in blocking : \E i \in DOMAIN hits : hits[i].rule = h /\ hits[i].rule.action = "block"
    BY Zenon DEF HitRules
  <2>2. Blocking(hits)
    BY <2>1, JudgedHits, Zenon DEF Blocking
  <2>3. /\ verdict.action = "block" /\ verdict.id /\ verdict.seatbelt
        /\ \A i \in DOMAIN hits : hits[i].rule.action = "block" => verdict.risk >= hits[i].rule.risk
    BY <2>2, JudgedHits, EvaluateBlocks, Zenon
  <2>4. Decision(verdict) = "block"
    BY Zenon, <2>3 DEF Decision
  <2> HIDE DEF blocking
  <2>5. \A h \in blocking : verdict.risk >= h.risk
    BY <2>1, <2>3, Zenon
  <2>6. QED
    BY <2>3, <2>4, <2>5, Zenon
<1>2. QED
  BY <1>1, EvalInvHolds, PTL

\* The order in which the stages push their hits does not matter.
THEOREM OrderIsFree == EvalSpec => []OrderFree
<1>1. EvalInv => OrderFree
  <2> DEFINE reversed == Reversed(hits)
  <2> SUFFICES ASSUME EvalInv, Judged PROVE Same(verdict, Evaluate(req, reversed))
    BY Zenon DEF OrderFree, Same, Reversed
  <2>1. hits \in Seq(HitRec) /\ verdict = Evaluate(req, hits)
    BY JudgedHits, Zenon
  <2>2. reversed \in Seq(HitRec) /\ \A g : Has(hits, g) <=> Has(reversed, g)
    BY <2>1, ReversedHas, Zenon
  <2> HIDE DEF reversed
  <2>3. Same(Evaluate(req, hits), Evaluate(req, reversed))
    BY <2>1, <2>2, EvaluateSame, Zenon
  <2>4. QED
    BY <2>1, <2>3, Zenon
<1>2. QED
  BY <1>1, EvalInvHolds, PTL

\* A verdict that goes out has its pending row and, where it is high-risk or
\* blocks, its audit row.
THEOREM AnswersAreBacked == EvalSpec => []AnswerBacked
<1>1. EvalInv => AnswerBacked
  BY Zenon DEF EvalInv, AnswerBacked, HighRisk
<1>2. QED
  BY <1>1, EvalInvHolds, PTL

\* The verdict shows what redact_counted rebuilds, if there is a span.
LEMMA VerdictShows ==
  ASSUME NEW r, NEW s \in Seq(HitRec) PROVE Evaluate(r, s).redacted = Shown(r)
<1>1. \E a, k, st, re, ap, se : FromHits(s, a, k, st, re, ap, se)
  BY FromTop, FromNone, Zenon
<1>2. PICK a, k, st, re, ap, se : FromHits(s, a, k, st, re, ap, se)
  BY <1>1, Zenon
<1>3. HasFields(Evaluate(r, s), ActionAfter(r, a, k), RiskAfter(r, a, k), st, re, ap, se,
                InferCategory(s), Shown(r), ap \/ ActionAfter(r, a, k) = "block")
  BY <1>2, EvaluateFields, Zenon
<1>4. QED
  BY <1>3, Zenon DEF HasFields

\* It is the content with every span replaced, and absent without a span.
LEMMA ShownIsExact ==
  ASSUME NEW r, Text(r.text)
  PROVE  IF HasSensitive(r.text) THEN RedactsExactly(r.text, Names, Shown(r)) ELSE Shown(r) = << >>
<1> DEFINE t == r.text
           spans == CollectSpansFiltered(t, Names)
           b == ByStart(spans)
<1>1. Line(b, t) /\ Len(b) = Len(spans)
  BY ByStartRight, Zenon
<1>2. RedactsExactly(t, Names, Rebuild(Content(t), b, Tags(b)))
  BY TagsExactly, Zenon
<1>3. spans = CollectSpans(t)
  BY Zenon DEF CollectSpans
<1>4. HasSensitive(t) <=> spans # << >>
  BY <1>3, SensitiveIsCounted, Zenon
<1>5. spans \in Seq(Span)
  <2>1. Settled(Candidates(t, Names), spans, Len(Candidates(t, Names)))
    BY SpansSettled, Zenon
  <2>2. QED
    BY <2>1, Zenon DEF Settled
<1>6. RedactCounted(t) = [redacted |-> Rebuild(Content(t), b, Tags(b)), count |-> Len(b)]
  BY <1>3, Zenon DEF RedactCounted
<1> HIDE DEF spans, b
<1>7. /\ RedactCounted(t).redacted = Rebuild(Content(t), b, Tags(b))
      /\ RedactCounted(t).count = Len(b)
  BY <1>6
<1>8. Len(spans) > 0 <=> spans # << >>
  BY <1>5
<1>9. RedactCounted(t).count > 0 <=> HasSensitive(t)
  BY <1>1, <1>4, <1>7, <1>8, Zenon
<1>10. QED
  BY <1>2, <1>7, <1>9, Zenon DEF Shown

\* Redaction replaces every accepted span and nothing else, in the verdict and
\* in the other redactions, and a reveal restores the content but for the tokens
\* it cannot read: for every list of patterns, every content and every matches.
THEOREM RedactionIsExact == EvalSpec => []RedactionExact
<1>1. EvalInv => RedactionExact
  <2> SUFFICES ASSUME EvalInv, phase = "done" PROVE RedactionExact
    BY Zenon DEF RedactionExact
  <2> DEFINE t == req.text
  <2>1. Judged
    BY Zenon DEF Judged
  <2>2. Text(t)
    <3>1. req \in Request /\ \A n \in Names : Ordered(req.text.found[n], req.text.size)
      BY VerdictAssumption, Zenon DEF EvalInv
    <3>2. QED
      BY <3>1, Zenon DEF Request, Text
  <2>3. \A names \in {Names, Credentials} : SpansRight(t, names)
    <3> HIDE DEF t
    <3>1. QED
      BY <2>2, SpansAreRight, Zenon
  <2>4. RedactsExactly(t, Credentials, RedactCredentials(t))
    <3> HIDE DEF t
    <3>1. QED
      BY <2>2, TagsExactly, Zenon DEF RedactCredentials, RedactWithPatterns
  <2>5. ShowsOnlyEnds(t, RedactIrreversible(t)) /\ RevealsExactly(t)
    <3> HIDE DEF t
    <3>1. QED
      BY <2>2, EndsExactly, RevealIsExact, Zenon
  <2>6. verdict.redacted = Shown(req)
    BY <2>1, JudgedHits, VerdictShows, Zenon
  <2>7. IF HasSensitive(t) THEN RedactsExactly(t, Names, Shown(req)) ELSE Shown(req) = << >>
    BY <2>2, ShownIsExact, Zenon
  <2>8. QED
    BY <2>3, <2>4, <2>5, <2>6, <2>7, Zenon DEF RedactionExact
<1>2. QED
  BY <1>1, EvalInvHolds, PTL
=============================================================================
