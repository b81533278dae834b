------------------------------ MODULE Verdict -------------------------------
(***************************************************************************)
(* One evaluation: the hits of the scan stages, the verdict fg-rules takes *)
(* from them, what AuditEngine::evaluate makes of it (category hint,       *)
(* redaction, pending action), and the guard.evaluate and guard.audit      *)
(* handlers that audit it and answer.                                      *)
(*                                                                         *)
(* The text of a content is not modelled: a request is known by the regex  *)
(* rules its content hits, by what the tokenizer and the semantic stage    *)
(* learn of it (ScanStages) and by the redactor's matches (Redactor).      *)
(***************************************************************************)
EXTENDS ScanStages, Redactor

CONSTANT Requests   \* the requests considered: a subset of Request

Actions == {"allow", "preview", "redact", "block"}
Risks == 0 .. 3                                  \* L1 .. L4, by rank
Stages == {"regex", "ast", "semantic"}
Scopes == {"command", "content", "network", "filesystem"}
Rule == [action : Actions, risk : Risks, scope : Scopes]

\* regex: the rules hit, in rule order.  guard.audit always evaluates text and
\* gives no hint.
Request ==
  [method : {"evaluate", "audit"}, type : {"shell", "code", "text"}, regex : Seq(Rule),
   command : Command, source : Source, hint : {"none", "read", "network"},
   text : [size : Nat, found : [Names -> Seq(Match)]]]

ASSUME VerdictAssumption ==
  \A r \in Requests :
    /\ r \in Request
    /\ r.method = "audit" => r.type = "text" /\ r.hint = "none"
    /\ \A n \in Names : Ordered(r.text.found[n], r.text.size)

VARIABLES
  phase,    \* of the call: "idle", "scan", "put", "append", "done"
  req,      \* the request
  hits,     \* the hits, in the order the stages push them
  verdict,
  pending,  \* is the pending action stored?
  audited,  \* "no", "sync" (in audit_events) or "queued"
  answer    \* "none", "ok" or "error"

evalVars == <<phase, req, hits, verdict, pending, audited, answer>>

NoVerdict == [action |-> "allow", risk |-> L1, stage |-> "regex", reason |-> 0,
              approval |-> FALSE, seatbelt |-> FALSE, category |-> "clean",
              redacted |-> << >>, id |-> FALSE]

-----------------------------------------------------------------------------
(* fg-core and fg-rules.                                                      *)

Severity(a) == CASE a = "allow" -> 0 [] a = "preview" -> 1
                 [] a = "redact" -> 2 [] a = "block" -> 3
StageRank(s) == CASE s = "regex" -> 3 [] s = "ast" -> 2 [] s = "semantic" -> 1

RunTokenizer(type) == type = "shell"
RunSemantic(type) == type = "code"

Hit(rule, stage) == [rule |-> rule, stage |-> stage]

\* evaluate_full_typed: regex for every content, tokens of shell, calls of code.
\* Every hit of the tokenizer and of the semantic stage blocks.
EvaluateFullTyped(r) ==
  LET Blocks(risks, stage, scope) ==
        [i \in DOMAIN risks |->
          Hit([action |-> "block", risk |-> risks[i], scope |-> scope], stage)]
  IN [i \in DOMAIN r.regex |-> Hit(r.regex[i], "regex")]
       \o (IF RunTokenizer(r.type) THEN Blocks(TokenizeCheck(r.command), "ast", "command")
                                   ELSE << >>)
       \o (IF RunSemantic(r.type) THEN Blocks(SemanticCheck(r.source), "semantic", "content")
                                  ELSE << >>)

\* The sort keys (severity, risk, stage) and (severity, risk), as numbers.
Key_lastHit(h) == 0
Key(h) == Severity(h.rule.action) * 16 + h.rule.risk * 4 + StageRank(h.stage)
CategoryKey(h) == Severity(h.rule.action) * 4 + h.rule.risk

\* Iterator::max_by returns the last of several maxima.
MaxBy(keys) ==
  CHOOSE i \in DOMAIN keys :
    \A j \in DOMAIN keys : keys[j] < keys[i] \/ (keys[j] = keys[i] /\ j <= i)

\* infer_category_from_hits; without a hit infer_category looks at the text.
InferCategory(s) ==
  IF s = << >> THEN "from content"
  ELSE LET top == s[MaxBy([j \in DOMAIN s |-> CategoryKey(s[j])])].rule
           write == top.action = "block" /\ top.risk = L4 IN
       CASE top.scope = "filesystem" -> IF write THEN "file_write" ELSE "file_read"
         [] OTHER -> top.scope

VerdictFromHits(s) ==
  IF s = << >> THEN NoVerdict
  ELSE LET i == MaxBy([j \in DOMAIN s |-> Key(s[j])])
           h == s[i].rule IN
       [NoVerdict EXCEPT !.action = h.action, !.risk = h.risk, !.stage = s[i].stage,
                         !.reason = i, !.approval = (h.risk = L3),
                         !.seatbelt = (h.risk >= L3 \/ h.action = "block")]

-----------------------------------------------------------------------------
(* AuditEngine::evaluate.                                                     *)

\* hint_risk_floor: L2 for the categories that execute, connect or write.
HintRiskFloor(hint) == IF hint = "network" THEN L2 ELSE L1

WithHint(v, hint) ==
  IF HintRiskFloor(hint) > v.risk
  THEN [v EXCEPT !.risk = HintRiskFloor(hint), !.action = IF @ = "allow" THEN "redact" ELSE @]
  ELSE v

\* A match of the redactor turns an allow into a redact of level L2.
WithRedaction(v, text) ==
  LET r == RedactCounted(text)
      w == IF v.action = "allow" THEN [v EXCEPT !.action = "redact", !.risk = L2] ELSE v
  IN IF r.count > 0 THEN [w EXCEPT !.redacted = r.redacted] ELSE v

WithActionId(v) == [v EXCEPT !.id = (v.approval \/ v.action = "block")]

Evaluate(r, s) ==
  WithActionId(WithRedaction(
    [WithHint(VerdictFromHits(s), r.hint) EXCEPT !.category = InferCategory(s)],
    r.text))

\* The same condition in append_event and in the handler.
HighRisk(v) == v.risk >= L3 \/ v.action = "block"

\* audit_event's three answers.
Decision(v) == CASE v.action = "block" -> "block"
                 [] v.action # "block" /\ v.approval -> "challenge"
                 [] OTHER -> "pass"

-----------------------------------------------------------------------------
EvalInit ==
  /\ phase = "idle" /\ hits = << >> /\ verdict = NoVerdict
  /\ req \in Requests
  /\ pending = FALSE /\ audited = "no" /\ answer = "none"

Scan ==
  /\ phase = "idle" /\ phase' = "scan"
  /\ hits' = EvaluateFullTyped(req)
  /\ UNCHANGED <<req, verdict, pending, audited, answer>>

Judge ==
  /\ phase = "scan" /\ verdict' = Evaluate(req, hits)
  /\ phase' = IF verdict'.id THEN "put" ELSE "append"
  /\ UNCHANGED <<req, hits, pending, audited, answer>>

PutPending ==
  /\ phase = "put" /\ pending' = TRUE /\ phase' = "append"
  /\ UNCHANGED <<req, hits, verdict, audited, answer>>

PutPendingFails_goesOn ==
  /\ phase = "put" /\ phase' = "append"
  /\ UNCHANGED <<req, hits, verdict, pending, audited, answer>>
PutPendingFails ==
  /\ phase = "put" /\ phase' = "done" /\ answer' = "error"
  /\ UNCHANGED <<req, hits, verdict, pending, audited>>

\* append_event: high risk in the call, the rest through the queue.
AppendAudit ==
  /\ phase = "append" /\ phase' = "done" /\ answer' = "ok"
  /\ audited' = IF HighRisk(verdict) THEN "sync" ELSE "queued"
  /\ UNCHANGED <<req, hits, verdict, pending>>

\* Only the synchronous insert can fail; then no verdict is given.
AppendFails ==
  /\ phase = "append" /\ HighRisk(verdict)
  /\ phase' = "done" /\ answer' = "error"
  /\ UNCHANGED <<req, hits, verdict, pending, audited>>

EvalNext == Scan \/ Judge \/ PutPending \/ PutPendingFails \/ AppendAudit \/ AppendFails

EvalSpec == EvalInit /\ [][EvalNext]_evalVars

-----------------------------------------------------------------------------
(* Properties.                                                                *)

Judged == phase \notin {"idle", "scan"}
HitRules == {hits[i].rule : i \in DOMAIN hits}

\* The content gives the scan of its type a reason to object: a command that is
\* refused whole or in one of its segments; a source too large to parse, one no
\* grammar parses, or one a grammar that parses it finds dangerous.
Objectionable(r) ==
  \/ /\ r.type = "shell" /\ ~r.command.blank
     /\ \/ r.command.substitution \/ r.command.unmodelled
        \/ \E i \in DOMAIN r.command.segments : CheckSegment(r.command.segments[i]) # L1
  \/ /\ r.type = "code" /\ ~r.source.blank
     /\ LET g == r.source.grammars IN
        \/ r.source.large \/ \A i \in DOMAIN g : g[i].error
        \/ \E i \in DOMAIN g : ~g[i].error /\ g[i].calls # << >>

\* What one stage objects to prevails over every other hit, over the hint and
\* over redaction: with a regex hit that says block, or a command or a source
\* to object to, the verdict blocks, at the highest level of the blocking hits,
\* and the guard.audit decision is block.
BlockPrevails ==
  LET blocking == {h \in HitRules : h.action = "block"} IN
  (Judged /\ (blocking # {} \/ Objectionable(req))) =>
    /\ verdict.action = "block" /\ verdict.id /\ verdict.seatbelt
    /\ Decision(verdict) = "block"
    /\ \A h \in blocking : verdict.risk >= h.risk

\* The verdict does not depend on the order in which the hits were pushed: the
\* reverse order gives the same action, level, stage and approval.
OrderFree ==
  LET reversed == [i \in DOMAIN hits |-> hits[Len(hits) + 1 - i]]
      w == Evaluate(req, reversed) IN
  Judged => <<w.action, w.risk, w.stage, w.approval, w.seatbelt, w.id>> =
            <<verdict.action, verdict.risk, verdict.stage, verdict.approval,
              verdict.seatbelt, verdict.id>>

\* A verdict that goes out is backed: its action_id has a pending row, and one
\* that is high-risk, or blocks, is in audit_events.
AnswerBacked ==
  answer = "ok" =>
    /\ verdict.id => pending
    /\ (verdict.risk >= L3 \/ verdict.action = "block") => audited = "sync"

\* Redaction loses nothing and hides what it should: of overlapping matches the
\* first pattern's stays, every accepted span and nothing else is replaced in
\* the verdict, in redact_credentials, redact_irreversible (whose marks show the
\* end of their value) and redact_reversible, and a reveal restores the content
\* but for the tokens it cannot read.  The verdict carries
\* a redacted content exactly when has_sensitive holds.
RedactionExact ==
  LET t == req.text IN
  phase = "done" =>
    /\ \A names \in {Names, Credentials} : SpansRight(t, names)
    /\ RedactsExactly(t, Credentials, RedactCredentials(t))
    /\ ShowsOnlyEnds(t, RedactIrreversible(t))
    /\ RevealsExactly(t)
    /\ IF HasSensitive(t) THEN RedactsExactly(t, Names, verdict.redacted)
       ELSE verdict.redacted = << >>
=============================================================================
