----------------------------- MODULE RiskScreen ------------------------------
(***************************************************************************)
(* The Risk screen of the dashboard over the two ways a snapshot reaches   *)
(* it: the REST answers of the risk engine (app/main.py) and the events of *)
(* the live feed.  The worker stores a snapshot, then publishes it; the    *)
(* screen prefers an event of the selected account to what it fetched,     *)
(* explains it, and on demand asks the server for a rewrite by a language  *)
(* model.                                                                  *)
(*                                                                         *)
(* A snapshot is named by its version, its place in the order the worker   *)
(* computes them, which stands for computed_at; 0 is no snapshot.  Left    *)
(* out: the VaR table and its own fetch, which shares the hook of the      *)
(* summary; the error notices; rendering; and the other screens.          *)
(***************************************************************************)
EXTENDS RiskExplain, FiniteSetsExt, Bags

CONSTANTS Accounts,       \* the accounts the worker computes and the user selects
          Snapshots,      \* the snapshots the worker may compute, a set for each turn
          Replies,        \* the JSON objects a language model may reply
          LogSize,        \* events StreamContext keeps (50)
          MaxFetches      \* bound on the summary fetches under way at once

ASSUME ScreenAssumption ==
    /\ Snapshots \in Seq(SUBSET [account_id : Accounts, portfolio_value : Int, pnl : Int,
                                 volatility : Int, var : Int, sharpe : Int])
    /\ LogSize \in Nat \ {0}
    /\ MaxFetches \in Nat \ {0}

VARIABLES llm,        \* the language model's configuration: off, without a key, or on
          made,       \* the snapshots computed so far
          store,      \* risk_snapshots: the latest stored version of each account
          stream,     \* the versions on risk.updates
          log,        \* riskLog: the events received, newest first
          account,    \* the selected account
          summary,    \* useAsync's state for /risk/summary
          fetches,    \* the bag of its fetches under way
          aiAvailable, \* the server advertises the rewrite
          aiOn,       \* the toggle
          ai          \* the narrative and its request

server == <<llm, made, store, stream>>
screen == <<log, account, summary, fetches, aiAvailable, aiOn, ai>>
vars == <<server, screen>>

NoRequest == [phase |-> "none"]
NoNarrative == [mode |-> "none"]
Unanswered == -1
Fetch(a) == SetToBag({[account |-> a, answer |-> Unanswered]})

-----------------------------------------------------------------------------
(* What the screen shows *)

\* live: the last event, if it is about the selected account.
Live ==
    IF log # << >> /\ made[log[1]].account_id = account THEN log[1] ELSE 0

\* s: the live snapshot, else what the last answered fetch left.
Shown == IF Live # 0 THEN Live ELSE summary.data

\* StateBlock renders the figures and the explanation.
Visible == Live # 0 \/ (~summary.loading /\ summary.data # 0)

\* Mutated form: the events of every account.
EveryPlace == DOMAIN log

\* accountLog: the places in the log of the events of the selected account.
AccountLog == {i \in DOMAIN log : made[log[i]].account_id = account}

\* previous: the second event of accountLog, as a sequence of at most one.
Previous ==
    LET older == AccountLog \ {Min(AccountLog)}
    IN  IF Live # 0 /\ older # {} THEN <<made[log[Min(older)]]>> ELSE << >>

\* ruleNarrative, by explain.js, the server's explain.py in the browser.
RuleNarrative == ExplainSnapshot(made[Shown], Previous)

\* Mutated form: a new snapshot is no reason to ask again.
EffectKeyUser == <<aiOn, account>>

\* The dependencies of the effect that asks for the rewrite.
EffectKey == <<aiOn, account, Shown>>

\* The effect, run when a dependency changes: its cleanup cancels a request
\* under way, and a new one starts if the toggle is on and there is a
\* snapshot.  Only a request that is not cancelled ends the spinner.
Render ==
    IF EffectKey' = EffectKey THEN UNCHANGED ai
    ELSE ai' = IF aiOn' /\ Shown' # 0
               THEN [narrative |-> ai.narrative, loading |-> TRUE,
                     request |-> [phase |-> "sent", account |-> account']]
               ELSE [narrative |-> NoNarrative, loading |-> ai.loading, request |-> NoRequest]

-----------------------------------------------------------------------------
Init ==
    /\ llm \in {"off", "no_key", "on"}
    /\ made = << >> /\ store = [a \in Accounts |-> 0] /\ stream = {}
    /\ log = << >>
    /\ account \in Accounts
    /\ summary = [loading |-> TRUE, data |-> 0]
    /\ fetches = Fetch(account)
    /\ aiAvailable = FALSE
    /\ aiOn = FALSE
    /\ ai = [narrative |-> NoNarrative, loading |-> FALSE, request |-> NoRequest]

Stamped(s, version) ==
    [account_id |-> s.account_id, computed_at |-> version,
     portfolio_value |-> s.portfolio_value, pnl |-> s.pnl,
     volatility |-> s.volatility, var |-> s.var, sharpe |-> s.sharpe]

\* The worker computes an account's snapshot and stores it.  A worker that
\* died before publishing the last one leaves it unpublished.
SaveSnapshot ==
    /\ Len(made) < Len(Snapshots)
    /\ \E s \in Snapshots[Len(made) + 1] :
           /\ made' = Append(made, Stamped(s, Len(made) + 1))
           /\ store' = [store EXCEPT ![s.account_id] = Len(made) + 1]
    /\ UNCHANGED <<llm, stream, screen>>

\* The worker publishes the snapshot it stored.
PublishSnapshot ==
    /\ made # << >> /\ Len(made) \notin stream
    /\ stream' = stream \cup {Len(made)}
    /\ UNCHANGED <<llm, made, store, screen>>

\* Mutated form: the log grows without end.
Everything(events) == events

\* The events StreamContext keeps.
Newest(events) == IF Len(events) > LogSize THEN SubSeq(events, 1, LogSize) ELSE events

\* An event reaches the browser: in order, those lost on the way skipped.
ReceiveEvent ==
    \E v \in stream :
        /\ \A i \in DOMAIN log : v > log[i]
        /\ log' = Newest(<<v>> \o log)
        /\ UNCHANGED <<server, account, summary, fetches, aiAvailable, aiOn>>
        /\ Render

-----------------------------------------------------------------------------
(* useAsync over /risk/summary *)

\* run: loading, the old data kept; nothing cancels an earlier fetch.
Run(a) ==
    /\ BagCardinality(fetches) < MaxFetches
    /\ fetches' = fetches (+) Fetch(a)
    /\ summary' = [loading |-> TRUE, data |-> summary.data]

\* The account selector: the hook depends on the account and runs again.
SelectAccount(a) ==
    /\ a # account
    /\ account' = a
    /\ Run(a)
    /\ UNCHANGED <<server, log, aiAvailable, aiOn>>
    /\ Render

\* The Refresh button.
Refresh == Run(account) /\ UNCHANGED <<server, log, account, aiAvailable, aiOn, ai>>

\* risk_summary: the stored snapshot; 0 is the 404.
ServeSummary(fetch) ==
    /\ fetch.answer = Unanswered
    /\ fetches' = (fetches (-) SetToBag({fetch}))
                  (+) SetToBag({[account |-> fetch.account, answer |-> store[fetch.account]]})
    /\ UNCHANGED <<server, log, account, summary, aiAvailable, aiOn, ai>>

\* An answer, or the failure of the call, sets the hook's state, whichever
\* account it was asked for and whichever fetch was started last.
ReceiveSummary(fetch) ==
    /\ \E answer \in {fetch.answer, 0} \ {Unanswered} :
           summary' = [loading |-> FALSE, data |-> answer]
    /\ fetches' = fetches (-) SetToBag({fetch})
    /\ UNCHANGED <<server, log, account, aiAvailable, aiOn>>
    /\ Render

-----------------------------------------------------------------------------
(* The rewrite by a language model *)

\* risk_explain_capabilities, asked for when the screen opens; a call that
\* fails offers nothing.  A missing key does not show.
ReceiveCapabilities ==
    /\ llm # "off"
    /\ aiAvailable' = TRUE
    /\ UNCHANGED <<server, log, account, summary, fetches, aiOn, ai>>

\* The toggle, shown with the explanation where the server offers it.
ToggleAi ==
    /\ aiAvailable /\ Visible
    /\ aiOn' = ~aiOn
    /\ UNCHANGED <<server, log, account, summary, fetches, aiAvailable>>
    /\ Render

\* risk_explain reads the stored snapshot.
ServeExplain ==
    /\ ai.request.phase = "sent"
    /\ store[ai.request.account] # 0
    /\ ai' = [narrative |-> ai.narrative, loading |-> ai.loading,
              request |-> [phase |-> "read", version |-> store[ai.request.account]]]
    /\ UNCHANGED <<server, log, account, summary, fetches, aiAvailable, aiOn>>

\* generate_llm_narrative: what a reply makes of the facts.  The others give
\* no narrative: no key, an unreachable model, JSON that is not an object.
LlmNarratives(facts) ==
    IF llm = "on" THEN {Merge(facts, reply) : reply \in Replies} ELSE {}

\* risk_explain answers the rewrite, or the rule-based facts without one
\* (llm_unavailable, which the screen does not read, is left out).
ExplainAnswers(v) ==
    LET facts == ExplainSnapshot(made[v], << >>)
    IN  {facts} \cup LlmNarratives(facts)

\* Mutated form: a failed request leaves the spinner on.
SettleKept(narrative) ==
    ai' = [narrative |-> narrative, loading |-> narrative.mode = "none",
           request |-> NoRequest]

\* The end of a request: the narrative is kept or dropped, the spinner off.
Settle(narrative) ==
    ai' = [narrative |-> narrative, loading |-> FALSE, request |-> NoRequest]

\* The answer arrives: only a rewrite replaces the rule-based text.
ReceiveExplain ==
    /\ ai.request.phase = "read"
    /\ \E answer \in ExplainAnswers(ai.request.version) :
           Settle(IF answer.mode = "llm" THEN answer ELSE NoNarrative)
    /\ UNCHANGED <<server, log, account, summary, fetches, aiAvailable, aiOn>>

\* The call fails: 404, an unreachable server, or the 500 that a reply
\* without choices causes, whose IndexError _call_chat_completions lets out.
ExplainFails ==
    /\ ai.request # NoRequest
    /\ Settle(NoNarrative)
    /\ UNCHANGED <<server, log, account, summary, fetches, aiAvailable, aiOn>>

-----------------------------------------------------------------------------
Next ==
    \/ SaveSnapshot
    \/ PublishSnapshot
    \/ ReceiveEvent
    \/ \E a \in Accounts : SelectAccount(a)
    \/ Refresh
    \/ \E fetch \in BagToSet(fetches) : ServeSummary(fetch) \/ ReceiveSummary(fetch)
    \/ ReceiveCapabilities
    \/ ToggleAi
    \/ ServeExplain
    \/ ReceiveExplain
    \/ ExplainFails

\* A request ends: the server serves it, the call to the model ends by its
\* timeout, and the browser gets the answer or gives up.
Spec == Init /\ [][Next]_vars /\ WF_vars(ServeExplain \/ ReceiveExplain \/ ExplainFails)

-----------------------------------------------------------------------------
(* Properties *)

Versions == 1..Len(made)

\* The store names an account's own snapshots, the log published ones, and
\* every answer under way a snapshot that exists.
TypeOK ==
    /\ llm \in {"off", "no_key", "on"}
    /\ made \in Seq([account_id : Accounts, computed_at : Nat, portfolio_value : Int,
                     pnl : Int, volatility : Int, var : Int, sharpe : Int])
    /\ store \in [Accounts -> 0..Len(made)]
    /\ stream \subseteq Versions
    /\ log \in Seq(stream) /\ Len(log) <= LogSize
    /\ account \in Accounts
    /\ summary.loading \in BOOLEAN /\ summary.data \in 0..Len(made)
    /\ \A fetch \in BagToSet(fetches) :
          fetch.account \in Accounts /\ fetch.answer \in -1..Len(made)
    /\ aiAvailable \in BOOLEAN /\ aiOn \in BOOLEAN /\ ai.loading \in BOOLEAN
    /\ ai.narrative.mode \in {"none", "llm"}
    /\ \/ ai.request = NoRequest
       \/ ai.request.phase = "sent" /\ ai.request.account \in Accounts
       \/ ai.request.phase = "read" /\ ai.request.version \in Versions

\* Whatever the language model replies, the metrics of the rewrite on the screen
\* have the keys and value fields of one snapshot of its account, and there is no
\* change; it exists only where the server is configured for it and the user
\* asked.  Its prose, which is what Risk.jsx shows, may state anything.
AnswersGrounded ==
    ai.narrative.mode = "llm" =>
        LET n == ai.narrative
            facts == MetricFacts(made[n.computed_at])
        IN  /\ llm = "on" /\ aiOn
            /\ n.computed_at \in Versions
            /\ n.account_id = made[n.computed_at].account_id
            /\ DOMAIN n.metrics = DOMAIN facts /\ DOMAIN n.changes = {}
            /\ \A i \in DOMAIN facts :
                  n.metrics[i].key = facts[i].key /\ n.metrics[i].value = facts[i].value

\* Once no request is under way, the rewrite beside the figures of the
\* selected account is about that account and no older than the figures:
\* a new snapshot asks again, and the store is written before the event.
ProseKeepsUp ==
    /\ ai.narrative.mode = "llm" /\ ai.request = NoRequest
    /\ Shown # 0
    /\ made[Shown].account_id = account
    => ai.narrative.account_id = account /\ ai.narrative.computed_at >= Shown

\* "What changed" compares the live snapshot with the one of the same account
\* received before it: each statement is of a figure that moved, in the
\* direction given; every move of value and volatility has its statement, and
\* so has a move of VaR while volatility stayed.  Not claimed: what the sentence
\* on volatility says of VaR (explain.py:213-222), which nothing compares with
\* VaR and which is wrong when VaR stayed, or moved the other way.
ChangesMatchFigures ==
    Live # 0 =>
        LET older == {i \in 2..Len(log) : made[log[i]].account_id = account}
            changes == RuleNarrative.changes
        IN  IF older = {} THEN changes = << >>
            ELSE LET before == made[log[CHOOSE i \in older : \A j \in older : i <= j]]
                     now == made[Live]
                 IN  /\ \A i \in DOMAIN changes :
                           /\ now[changes[i].key] # before[changes[i].key]
                           /\ (changes[i].direction = "up") <=>
                                 (now[changes[i].key] > before[changes[i].key])
                     /\ \A k \in {"portfolio_value", "volatility", "var"} :
                           now[k] # before[k] /\ (k = "var" => now.volatility = before.volatility)
                           => \E i \in DOMAIN changes : changes[i].key = k

\* A rewrite asked for and not superseded comes to an end, with a text or
\* with the notice that there is none: the spinner does not stay.
AiSettles ==
    <>[][UNCHANGED <<aiOn, account, Shown>>]_vars => <>[](aiOn /\ Shown # 0 => ~ai.loading)

=============================================================================
