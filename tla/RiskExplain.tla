----------------------------- MODULE RiskExplain -----------------------------
(***************************************************************************)
(* The explanations of the risk engine: app/explain.py, which turns a      *)
(* snapshot into statements, and app/llm_explain.py, which lays the prose  *)
(* of a language model over them.                                          *)
(*                                                                         *)
(* Amounts are in the units they are rounded to in a snapshot: cents, a    *)
(* millionth of volatility, a ten-thousandth of Sharpe; differences are    *)
(* then exact and round() has nothing left to do.  A sentence is what it   *)
(* states; a metric's label and a key name the same thing.  A snapshot is  *)
(* complete, so the defaults of _f never apply.                            *)
(***************************************************************************)
EXTENDS Integers, Sequences, FiniteSets

LOCAL INSTANCE FiniteSetsExt
LOCAL INSTANCE SequencesExt

-----------------------------------------------------------------------------
(* explain.py *)

\* _vol_band
VolBand(volatility) ==
    CASE volatility <= 0 -> "not measurable yet"
      [] volatility \in 1..999 -> "very calm"
      [] volatility \in 1000..4999 -> "low"
      [] volatility \in 5000..19999 -> "moderate"
      [] volatility >= 20000 -> "elevated"

\* _sharpe_band
SharpeBand(sharpe, volatility) ==
    CASE volatility <= 0 -> "not measurable yet"
      [] volatility > 0 /\ sharpe >= 10000 -> "strong"
      [] volatility > 0 /\ sharpe \in 1..9999 -> "modestly positive"
      [] volatility > 0 /\ sharpe = 0 -> "flat"
      [] volatility > 0 /\ sharpe < 0 -> "negative"

Fact(key, value, plain) == [key |-> key, value |-> value, plain |-> plain]

\* _metrics: one entry per figure.
MetricFacts(s) ==
    << Fact("portfolio_value", s.portfolio_value, "worth"),
       Fact("pnl", s.pnl, IF s.pnl >= 0 THEN "up" ELSE "down"),
       Fact("volatility", s.volatility, VolBand(s.volatility)),
       Fact("var", s.var, IF s.var <= 0 THEN "not measurable yet" ELSE "measured"),
       Fact("sharpe", s.sharpe, SharpeBand(s.sharpe, s.volatility)) >>

Moved(key, from, to, up, down) ==
    [key |-> key, direction |-> IF to >= from THEN "up" ELSE "down",
     plain |-> IF to >= from THEN up ELSE down]

\* Mutated form: VaR is reported only when volatility has moved too.
ChangeFactsNested(current, previous) ==
    LET differs(key) == current[key] # previous[key]
        moved(key, up, down) == <<Moved(key, previous[key], current[key], up, down)>>
    IN  (IF differs("portfolio_value") THEN moved("portfolio_value", "rose", "fell") ELSE << >>)
        \o (IF differs("volatility")
            THEN moved("volatility", "VaR rose too", "VaR came down")
                 \o (IF differs("var") THEN moved("var", "size grew", "size shrank") ELSE << >>)
            ELSE << >>)

\* _changes: a move of VaR is a statement of its own only if volatility has
\* not moved; Sharpe is reported when it changes sign.
ChangeFacts(current, previous) ==
    LET differs(key) == current[key] # previous[key]
        moved(key, up, down) == <<Moved(key, previous[key], current[key], up, down)>>
    IN  (IF differs("portfolio_value") THEN moved("portfolio_value", "rose", "fell") ELSE << >>)
        \o (CASE differs("volatility") -> moved("volatility", "VaR rose too", "VaR came down")
              [] ~differs("volatility") /\ differs("var") -> moved("var", "size grew", "size shrank")
              [] OTHER -> << >>)
        \o (IF (current.sharpe >= 0) # (previous.sharpe >= 0)
            THEN moved("sharpe", "flipped positive", "turned negative") ELSE << >>)

\* _headline
Headline(s) == CASE s.pnl > 0 -> "up" [] s.pnl < 0 -> "down" [] s.pnl = 0 -> "flat"

\* _notes
Notes(s) ==
    <<"live figures", "parametric VaR">>
    \o (IF s.volatility <= 0 \/ s.var <= 0 THEN <<"not enough data yet">> ELSE << >>)

\* explain_snapshot; previous is a sequence of at most one snapshot.
ExplainSnapshot(current, previous) ==
    LET changes == IF previous = << >> THEN << >> ELSE ChangeFacts(current, previous[1])
    IN  [account_id |-> current.account_id,
         computed_at |-> current.computed_at,
         headline |-> Headline(current),
         summary |-> IF changes # << >> THEN "what changed" ELSE "what it means",
         metrics |-> MetricFacts(current),
         changes |-> changes,
         notes |-> Notes(current),
         mode |-> "rule"]

-----------------------------------------------------------------------------
(* llm_explain.py *)

\* The prose a reply holds for a key: its last entry for it that is not blank.
Prose(key, plain, entries) ==
    LET usable == {i \in DOMAIN entries : entries[i].key = key /\ entries[i].plain # ""}
    IN  IF usable = {} THEN plain ELSE entries[Max(usable)].plain

\* Mutated form: an entry of the reply replaces the metric's.
MergeEntries(facts, llm) ==
    [facts EXCEPT !.metrics = IF llm.metrics = << >> THEN @ ELSE llm.metrics,
                  !.mode = "llm"]

\* _merge: keys, values and directions stay those of the facts.
Merge(facts, llm) ==
    [account_id |-> facts.account_id,
     computed_at |-> facts.computed_at,
     headline |-> IF llm.headline # "" THEN llm.headline ELSE facts.headline,
     summary |-> IF llm.summary # "" THEN llm.summary ELSE facts.summary,
     metrics |-> [i \in DOMAIN facts.metrics |->
                    LET m == facts.metrics[i]
                    IN  Fact(m.key, m.value, Prose(m.key, m.plain, llm.metrics))],
     changes |-> [i \in DOMAIN facts.changes |->
                    LET c == facts.changes[i]
                    IN  [key |-> c.key, direction |-> c.direction,
                         plain |-> Prose(c.key, c.plain, llm.changes)]],
     notes |-> IF llm.notes # << >> THEN SelectSeq(llm.notes, LAMBDA n : n # "") ELSE facts.notes,
     mode |-> "llm"]

=============================================================================
