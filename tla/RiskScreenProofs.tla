--------------------------- MODULE RiskScreenProofs ---------------------------
(***************************************************************************)
(* Theorems about RiskExplain and RiskScreen, for all accounts, figures    *)
(* and bounds, and whatever the language model may reply.                  *)
(***************************************************************************)
EXTENDS RiskScreen, FiniteLemmas, SequenceTheorems

-----------------------------------------------------------------------------
(* The explanations *)

\* _merge: whatever the reply, account, time, and each metric's key and value
\* stay those of the facts, in their order, and no change is added.
LEMMA MergeKeepsFacts ==
    ASSUME NEW facts, NEW llmReply
    PROVE  LET out == Merge(facts, llmReply)
           IN  /\ out.account_id = facts.account_id
               /\ out.computed_at = facts.computed_at
               /\ out.mode = "llm"
               /\ DOMAIN out.metrics = DOMAIN facts.metrics
               /\ DOMAIN out.changes = DOMAIN facts.changes
               /\ \A i \in DOMAIN facts.metrics :
                     /\ out.metrics[i].key = facts.metrics[i].key
                     /\ out.metrics[i].value = facts.metrics[i].value
               /\ \A i \in DOMAIN facts.changes :
                     /\ out.changes[i].key = facts.changes[i].key
                     /\ out.changes[i].direction = facts.changes[i].direction
BY DEF Merge, Fact

\* explain_snapshot without an earlier snapshot states the snapshot's metrics
\* and no change.
LEMMA ExplainAlone ==
    ASSUME NEW s
    PROVE  LET facts == ExplainSnapshot(s, << >>)
           IN  /\ facts.account_id = s.account_id
               /\ facts.computed_at = s.computed_at
               /\ facts.metrics = MetricFacts(s)
               /\ facts.changes = << >>
               /\ facts.mode = "rule"
BY DEF ExplainSnapshot

\* A statement has a figure that differs and the direction it moved in.
MatchesFigure(c, current, previous) ==
    /\ current[c.key] # previous[c.key]
    /\ (c.direction = "up") <=> (current[c.key] > previous[c.key])

\* A statement built from a figure that differs matches it.
LEMMA MovedMatches ==
    ASSUME NEW current, NEW previous, NEW key, NEW up, NEW down,
           current[key] \in Int, previous[key] \in Int, current[key] # previous[key]
    PROVE  MatchesFigure(Moved(key, previous[key], current[key], up, down), current, previous)
BY DEF Moved, MatchesFigure

\* What _changes may say of a figure.
Wordings == {"rose", "fell", "VaR rose too", "VaR came down", "size grew", "size shrank",
             "flipped positive", "turned negative"}

\* The statements that match the figures of two snapshots.
Statements(current, previous) ==
    {c \in [key : {"portfolio_value", "volatility", "var", "sharpe"},
            direction : {"up", "down"}, plain : Wordings] : MatchesFigure(c, current, previous)}

\* One statement, about one figure.
LEMMA OneStatement ==
    ASSUME NEW current, NEW previous, NEW up \in Wordings, NEW down \in Wordings,
           NEW key \in {"portfolio_value", "volatility", "var", "sharpe"},
           current[key] \in Int, previous[key] \in Int, current[key] # previous[key]
    PROVE  <<Moved(key, previous[key], current[key], up, down)>>
               \in Seq(Statements(current, previous))
PROOF
<1> DEFINE c == Moved(key, previous[key], current[key], up, down)
           S == Statements(current, previous)
<1>1. MatchesFigure(c, current, previous)
    BY MovedMatches
<1>2. c \in [key : {"portfolio_value", "volatility", "var", "sharpe"},
             direction : {"up", "down"}, plain : Wordings]
    BY DEF Moved
<1>3. c \in S
    BY <1>1, <1>2 DEF Statements
<1> HIDE DEF c, S
<1>4. <<c>> \in Seq(S)
    BY <1>3
<1> QED BY <1>4 DEF c, S

\* Three sequences one after the other: the elements are theirs, and the first
\* ones of the first two are there.
LEMMA InConcat ==
    ASSUME NEW S, NEW p \in Seq(S), NEW q \in Seq(S), NEW r \in Seq(S),
           NEW all, all = p \o q \o r
    PROVE  /\ all \in Seq(S)
           /\ p # << >> => 1 \in DOMAIN all /\ all[1] = p[1]
           /\ q # << >> => Len(p) + 1 \in DOMAIN all /\ all[Len(p) + 1] = q[1]
PROOF
<1> DEFINE pq == p \o q
<1>1. /\ pq \in Seq(S) /\ Len(pq) = Len(p) + Len(q)
      /\ p # << >> => Len(p) >= 1 /\ pq[1] = p[1]
      /\ q # << >> => Len(q) >= 1 /\ pq[Len(p) + 1] = q[1]
      /\ Len(p) \in Nat /\ Len(q) \in Nat /\ Len(r) \in Nat
    OBVIOUS
<1> HIDE DEF pq
<1>2. /\ all \in Seq(S)
      /\ Len(all) = Len(pq) + Len(r)
      /\ \A i \in 1..Len(all) : i <= Len(pq) => all[i] = pq[i]
    <2>1. all = pq \o r
        BY DEF pq
    <2>2. pq \in Seq(S)
        BY <1>1
    <2>3. pq \o r \in Seq(S)
        BY <2>2, ConcatProperties, Zenon
    <2>4. Len(pq \o r) = Len(pq) + Len(r)
        BY <2>2
    <2>5. \A i \in 1..(Len(pq) + Len(r)) : i <= Len(pq) => (pq \o r)[i] = pq[i]
        BY <2>2
    <2> QED BY <2>1, <2>3, <2>4, <2>5
<1>3. DOMAIN all = 1..Len(all) /\ Len(all) \in Nat
    BY <1>2
<1>4. p # << >> => 1 \in 1..Len(all) /\ 1 <= Len(pq)
    BY <1>1, <1>2
<1>5. q # << >> => Len(p) + 1 \in 1..Len(all) /\ Len(p) + 1 <= Len(pq)
    BY <1>1, <1>2
<1>6. p # << >> => all[1] = p[1]
    BY <1>1, <1>2, <1>4
<1>7. q # << >> => all[Len(p) + 1] = q[1]
    BY <1>1, <1>2, <1>5
<1> QED BY <1>2, <1>3, <1>4, <1>5, <1>6, <1>7

\* _changes: whatever the figures of two snapshots, each statement is about a
\* figure that differs and has the direction it moved in, every move of the
\* value and of volatility has a statement, and so has a move of VaR while
\* volatility stayed.  It is the figure a statement is filed under, not its
\* sentence: that on volatility goes on to VaR, whose own move nothing looks at.
THEOREM ChangeStatements ==
    ASSUME NEW current, NEW previous,
           \A k \in {"portfolio_value", "volatility", "var", "sharpe"} :
               current[k] \in Int /\ previous[k] \in Int
    PROVE  LET changes == ChangeFacts(current, previous)
           IN  /\ changes \in Seq(Statements(current, previous))
               /\ \A k \in {"portfolio_value", "volatility", "var"} :
                     current[k] # previous[k]
                     /\ (k = "var" => current["volatility"] = previous["volatility"])
                     => \E i \in DOMAIN changes : changes[i].key = k
PROOF
<1> DEFINE S == Statements(current, previous)
           said(key, up, down) == <<Moved(key, previous[key], current[key], up, down)>>
           value == IF current["portfolio_value"] # previous["portfolio_value"]
                    THEN said("portfolio_value", "rose", "fell") ELSE << >>
           risk == CASE current["volatility"] # previous["volatility"]
                            -> said("volatility", "VaR rose too", "VaR came down")
                     [] ~(current["volatility"] # previous["volatility"])
                            /\ current["var"] # previous["var"]
                            -> said("var", "size grew", "size shrank")
                     [] OTHER -> << >>
           sign == IF (current.sharpe >= 0) # (previous.sharpe >= 0)
                   THEN said("sharpe", "flipped positive", "turned negative") ELSE << >>
<1>1. ChangeFacts(current, previous) = value \o risk \o sign
    BY DEF ChangeFacts
<1>2. current["portfolio_value"] # previous["portfolio_value"]
      => said("portfolio_value", "rose", "fell") \in Seq(S)
    BY OneStatement DEF Wordings
<1>3. current["volatility"] # previous["volatility"]
      => said("volatility", "VaR rose too", "VaR came down") \in Seq(S)
    BY OneStatement DEF Wordings
<1>4. current["var"] # previous["var"] => said("var", "size grew", "size shrank") \in Seq(S)
    BY OneStatement DEF Wordings
<1>5. (current.sharpe >= 0) # (previous.sharpe >= 0)
      => said("sharpe", "flipped positive", "turned negative") \in Seq(S)
    <2>1. (current.sharpe >= 0) # (previous.sharpe >= 0) => current["sharpe"] # previous["sharpe"]
        OBVIOUS
    <2> QED BY <2>1, OneStatement DEF Wordings
<1>6. << >> \in Seq(S)
    OBVIOUS
<1>7. \A key, up, down : said(key, up, down) # << >> /\ said(key, up, down)[1].key = key
    BY DEF Moved
<1> HIDE DEF said, S
<1>8. value \in Seq(S) /\ sign \in Seq(S)
    BY <1>2, <1>5, <1>6
<1>9. risk \in Seq(S)
    BY <1>3, <1>4, <1>6
<1>10. current["portfolio_value"] # previous["portfolio_value"] =>
          value # << >> /\ value[1].key = "portfolio_value"
    BY <1>7
<1>11. current["volatility"] # previous["volatility"] =>
          risk # << >> /\ risk[1].key = "volatility"
    BY <1>7
<1>12. current["var"] # previous["var"] /\ current["volatility"] = previous["volatility"] =>
          risk # << >> /\ risk[1].key = "var"
    BY <1>7
<1> HIDE DEF value, risk, sign
<1> DEFINE changes == ChangeFacts(current, previous)
<1>13. /\ changes \in Seq(S)
       /\ value # << >> => 1 \in DOMAIN changes /\ changes[1] = value[1]
       /\ risk # << >> => /\ Len(value) + 1 \in DOMAIN changes
                          /\ changes[Len(value) + 1] = risk[1]
    <2>1. changes = value \o risk \o sign
        BY <1>1
    <2> HIDE DEF changes
    <2> QED BY <1>8, <1>9, <2>1, InConcat
<1> HIDE DEF changes
<1>14. current["portfolio_value"] # previous["portfolio_value"] =>
          \E i \in DOMAIN changes : changes[i].key = "portfolio_value"
    BY <1>10, <1>13
<1>15. current["volatility"] # previous["volatility"] =>
          \E i \in DOMAIN changes : changes[i].key = "volatility"
    BY <1>11, <1>13
<1>16. current["var"] # previous["var"] /\ current["volatility"] = previous["volatility"] =>
          \E i \in DOMAIN changes : changes[i].key = "var"
    BY <1>12, <1>13
<1>17. \A k \in {"portfolio_value", "volatility", "var"} :
          current[k] # previous[k]
          /\ (k = "var" => current["volatility"] = previous["volatility"])
          => \E i \in DOMAIN changes : changes[i].key = k
    BY <1>14, <1>15, <1>16
<1> QED BY <1>13, <1>17 DEF changes, S

-----------------------------------------------------------------------------
(* Shapes *)

\* TypeOK's part about the rewrite.
AiOK ==
    /\ ai.loading \in BOOLEAN
    /\ ai.narrative.mode \in {"none", "llm"}
    /\ \/ ai.request = NoRequest
       \/ ai.request.phase = "sent" /\ ai.request.account \in Accounts
       \/ ai.request.phase = "read" /\ ai.request.version \in Versions

\* What the server does leaves the screen's shape: versions only grow.
LEMMA VersionsGrow ==
    ASSUME ScreenAssumption, TypeOK, SaveSnapshot
    PROVE  /\ Len(made') = Len(made) + 1 /\ Len(made) \in Nat
           /\ made' \in Seq([account_id : Accounts, computed_at : Nat, portfolio_value : Int,
                             pnl : Int, volatility : Int, var : Int, sharpe : Int])
           /\ store' \in [Accounts -> 0..Len(made')]
           /\ \A v \in Versions : made'[v] = made[v]
           /\ \E a \in Accounts :
                 /\ made'[Len(made')].account_id = a
                 /\ store' = [store EXCEPT ![a] = Len(made')]
           /\ made'[Len(made')].computed_at = Len(made')
PROOF
<1>1. PICK s \in Snapshots[Len(made) + 1] :
          /\ made' = Append(made, Stamped(s, Len(made) + 1))
          /\ store' = [store EXCEPT ![s.account_id] = Len(made) + 1]
    BY DEF SaveSnapshot
<1>2. Len(made) \in Nat /\ Len(made) + 1 \in DOMAIN Snapshots
    BY DEF SaveSnapshot, ScreenAssumption, TypeOK
<1>3. s \in [account_id : Accounts, portfolio_value : Int, pnl : Int,
             volatility : Int, var : Int, sharpe : Int]
    BY <1>2 DEF ScreenAssumption
<1>4. /\ Stamped(s, Len(made) + 1) \in
            [account_id : Accounts, computed_at : Nat, portfolio_value : Int,
             pnl : Int, volatility : Int, var : Int, sharpe : Int]
      /\ Stamped(s, Len(made) + 1).account_id = s.account_id
      /\ Stamped(s, Len(made) + 1).computed_at = Len(made) + 1
    BY <1>2, <1>3 DEF Stamped
<1>5. /\ made' \in Seq([account_id : Accounts, computed_at : Nat, portfolio_value : Int,
                        pnl : Int, volatility : Int, var : Int, sharpe : Int])
      /\ Len(made') = Len(made) + 1
      /\ \A v \in Versions : made'[v] = made[v]
      /\ made'[Len(made) + 1] = Stamped(s, Len(made) + 1)
    <2> DEFINE new == Stamped(s, Len(made) + 1)
    <2> HIDE DEF new
    <2>1. made' = Append(made, new)
        BY <1>1 DEF new
    <2>2. new \in [account_id : Accounts, computed_at : Nat, portfolio_value : Int,
                   pnl : Int, volatility : Int, var : Int, sharpe : Int]
        BY <1>4 DEF new
    <2> QED BY <2>1, <2>2 DEF TypeOK, Versions, new
<1>6. store' \in [Accounts -> 0..Len(made')]
    <2>1. store \in [Accounts -> 0..Len(made)]
        BY DEF TypeOK
    <2>2. s.account_id \in Accounts
        BY <1>3
    <2>3. store' = [store EXCEPT ![s.account_id] = Len(made) + 1] /\ Len(made') = Len(made) + 1
        BY <1>1, <1>5
    <2> QED BY <2>1, <2>2, <2>3, <1>2
<1> QED BY <1>1, <1>2, <1>3, <1>4, <1>5, <1>6

\* The effect asks about the selected account or forgets its request.
LEMMA RenderKeepsAi ==
    ASSUME AiOK, account' \in Accounts, UNCHANGED made, Render
    PROVE  AiOK'
PROOF
<1>1. CASE EffectKey' = EffectKey
    <2>1. ai' = ai
        BY <1>1 DEF Render
    <2> QED BY <2>1 DEF AiOK, Versions
<1>2. CASE EffectKey' # EffectKey /\ aiOn' /\ Shown' # 0
    <2>1. ai' = [narrative |-> ai.narrative, loading |-> TRUE,
                 request |-> [phase |-> "sent", account |-> account']]
        BY <1>2 DEF Render
    <2> QED BY <2>1 DEF AiOK
<1>3. CASE EffectKey' # EffectKey /\ ~(aiOn' /\ Shown' # 0)
    BY <1>3 DEF Render, AiOK, NoNarrative
<1> QED BY <1>1, <1>2, <1>3

\* The end of a request leaves no request.
LEMMA SettleKeepsAi ==
    ASSUME NEW narrative, narrative.mode \in {"none", "llm"}, Settle(narrative)
    PROVE  AiOK'
BY DEF Settle, AiOK

\* The domain of a bag after one fetch comes or goes.
LEMMA BagMoves ==
    ASSUME NEW B, NEW e
    PROVE  /\ BagToSet(B (+) SetToBag({e})) = BagToSet(B) \cup {e}
           /\ BagToSet(B (-) SetToBag({e})) \subseteq BagToSet(B)
BY DEF BagToSet, SetToBag, (+), (-)

\* StreamContext keeps at most LogSize of its events, in their order.
LEMMA NewestKeeps ==
    ASSUME NEW S, NEW events \in Seq(S), ScreenAssumption
    PROVE  Newest(events) \in Seq(S) /\ Len(Newest(events)) <= LogSize
PROOF
<1>1. CASE Len(events) > LogSize
    <2>1. LogSize \in Nat /\ LogSize <= Len(events) /\ LogSize >= 1
        BY <1>1 DEF ScreenAssumption
    <2>2. /\ SubSeq(events, 1, LogSize) \in Seq(S)
          /\ Len(SubSeq(events, 1, LogSize)) = LogSize
        BY <2>1, SubSeqProperties
    <2> QED BY <1>1, <2>1, <2>2 DEF Newest
<1>2. CASE ~(Len(events) > LogSize)
    BY <1>2 DEF Newest, ScreenAssumption
<1> QED BY <1>1, <1>2

\* The screen as it opens.
LEMMA TypeInit == ScreenAssumption /\ Init => TypeOK
PROOF
<1> SUFFICES ASSUME ScreenAssumption, Init PROVE TypeOK
    OBVIOUS
<1>1. BagToSet(fetches) = {[account |-> account, answer |-> Unanswered]}
    BY DEF Init, Fetch, BagToSet, SetToBag
<1>2. /\ made \in Seq([account_id : Accounts, computed_at : Nat, portfolio_value : Int,
                       pnl : Int, volatility : Int, var : Int, sharpe : Int])
      /\ Len(made) = 0 /\ log \in Seq(stream) /\ Len(log) <= LogSize
    BY DEF Init, ScreenAssumption
<1>3. AiOK
    BY DEF Init, AiOK, NoNarrative
<1>4. /\ store \in [Accounts -> 0..Len(made)] /\ account \in Accounts
      /\ \A fetch \in BagToSet(fetches) :
            fetch.account \in Accounts /\ fetch.answer \in -1..Len(made)
    BY <1>1, <1>2 DEF Init, Unanswered
<1>5. summary.loading \in BOOLEAN /\ summary.data \in 0..Len(made)
    BY <1>2 DEF Init
<1>6. llm \in {"off", "no_key", "on"} /\ stream \subseteq Versions
      /\ aiAvailable \in BOOLEAN /\ aiOn \in BOOLEAN
    BY DEF Init
<1> QED BY <1>2, <1>3, <1>4, <1>5, <1>6 DEF TypeOK, AiOK

\* Each action of the worker, the server, the hook and the effect keeps the
\* shapes.
LEMMA TypeStep ==
    ASSUME ScreenAssumption, TypeOK, [Next]_vars
    PROVE  TypeOK'
PROOF
<1>0. AiOK /\ Len(made) \in Nat
    BY DEF TypeOK, AiOK
<1>1. CASE SaveSnapshot
    <2>1. /\ Len(made') = Len(made) + 1
          /\ made' \in Seq([account_id : Accounts, computed_at : Nat, portfolio_value : Int,
                            pnl : Int, volatility : Int, var : Int, sharpe : Int])
          /\ store' \in [Accounts -> 0..Len(made')]
        BY <1>1, VersionsGrow
    <2>2. UNCHANGED <<llm, stream, screen>>
        BY <1>1 DEF SaveSnapshot
    <2>3. Versions \subseteq Versions' /\ 0..Len(made) \subseteq 0..Len(made')
          /\ -1..Len(made) \subseteq -1..Len(made')
        <3> DEFINE n == Len(made)
                   m == Len(made')
        <3>1. n \in Nat /\ m = n + 1
            BY <2>1, <1>0
        <3> HIDE DEF n, m
        <3>2. 1..n \subseteq 1..m /\ 0..n \subseteq 0..m /\ -1..n \subseteq -1..m
            BY <3>1
        <3> QED BY <3>2 DEF Versions, n, m
    <2> QED BY <2>1, <2>2, <2>3 DEF TypeOK, screen
<1>2. CASE PublishSnapshot
    <2>1. Len(made) \in Versions
        BY <1>0, <1>2 DEF PublishSnapshot, Versions, TypeOK
    <2>2. stream' = stream \cup {Len(made)}
        BY <1>2 DEF PublishSnapshot
    <2>3. stream' \subseteq Versions /\ stream \subseteq stream'
        BY <2>1, <2>2 DEF TypeOK
    <2>4. log \in Seq(stream')
        <3>1. Len(log) \in Nat /\ DOMAIN log = 1..Len(log)
              /\ log = [i \in 1..Len(log) |-> log[i]]
              /\ \A i \in 1..Len(log) : log[i] \in stream
            BY DEF TypeOK
        <3>2. \A i \in 1..Len(log) : log[i] \in stream'
            BY <2>3, <3>1
        <3> QED BY <3>1, <3>2
    <2> QED BY <1>2, <2>3, <2>4 DEF PublishSnapshot, TypeOK, Versions, screen
<1>3. CASE ReceiveEvent
    <2>1. PICK v \in stream :
              /\ log' = Newest(<<v>> \o log)
              /\ UNCHANGED <<server, account, summary, fetches, aiAvailable, aiOn>>
              /\ Render
        BY <1>3 DEF ReceiveEvent
    <2>2. <<v>> \o log \in Seq(stream)
        BY DEF TypeOK
    <2>3. log' \in Seq(stream) /\ Len(log') <= LogSize
        BY <2>1, <2>2, NewestKeeps
    <2>4. AiOK'
        BY <1>0, <2>1, RenderKeepsAi DEF TypeOK, server
    <2> QED BY <2>1, <2>3, <2>4 DEF TypeOK, AiOK, server, Versions
<1>4. ASSUME NEW a \in Accounts, SelectAccount(a)
      PROVE  TypeOK'
    <2>1. /\ account' = a /\ UNCHANGED <<server, log, aiAvailable, aiOn>> /\ Render
          /\ fetches' = fetches (+) SetToBag({[account |-> a, answer |-> Unanswered]})
          /\ summary' = [loading |-> TRUE, data |-> summary.data]
        BY <1>4 DEF SelectAccount, Run, Fetch
    <2> DEFINE asked == [account |-> a, answer |-> Unanswered]
    <2>a. asked.account \in Accounts /\ asked.answer \in -1..Len(made)
        BY <1>0 DEF Unanswered, TypeOK
    <2>b. fetches' = fetches (+) SetToBag({asked})
        BY <2>1
    <2> HIDE DEF asked
    <2>c. BagToSet(fetches') = BagToSet(fetches) \cup {asked}
        BY <2>b, BagMoves
    <2>2. \A fetch \in BagToSet(fetches') :
              fetch.account \in Accounts /\ fetch.answer \in -1..Len(made)
        BY <2>a, <2>c DEF TypeOK
    <2>3. AiOK'
        BY <1>0, <2>1, RenderKeepsAi DEF server
    <2> QED BY <2>1, <2>2, <2>3 DEF TypeOK, AiOK, server, Versions
<1>5. CASE Refresh
    <2>1. /\ UNCHANGED <<server, log, account, aiAvailable, aiOn, ai>>
          /\ fetches' = fetches (+) SetToBag({[account |-> account, answer |-> Unanswered]})
          /\ summary' = [loading |-> TRUE, data |-> summary.data]
        BY <1>5 DEF Refresh, Run, Fetch
    <2> DEFINE asked == [account |-> account, answer |-> Unanswered]
    <2>a. asked.account \in Accounts /\ asked.answer \in -1..Len(made)
        BY <1>0 DEF Unanswered, TypeOK
    <2>b. fetches' = fetches (+) SetToBag({asked})
        BY <2>1
    <2> HIDE DEF asked
    <2>c. BagToSet(fetches') = BagToSet(fetches) \cup {asked}
        BY <2>b, BagMoves
    <2>2. \A fetch \in BagToSet(fetches') :
              fetch.account \in Accounts /\ fetch.answer \in -1..Len(made)
        BY <2>a, <2>c DEF TypeOK
    <2> QED BY <2>1, <2>2 DEF TypeOK, server, Versions
<1>6. ASSUME NEW fetch \in BagToSet(fetches), ServeSummary(fetch)
      PROVE  TypeOK'
    <2> DEFINE served == [account |-> fetch.account, answer |-> store[fetch.account]]
               rest == fetches (-) SetToBag({fetch})
    <2>1. /\ UNCHANGED <<server, log, account, summary, aiAvailable, aiOn, ai>>
          /\ fetches' = rest (+) SetToBag({served})
        BY <1>6 DEF ServeSummary
    <2>2. served.account \in Accounts /\ served.answer \in -1..Len(made)
        BY <1>0 DEF TypeOK
    <2>a. BagToSet(rest) \subseteq BagToSet(fetches)
        BY BagMoves
    <2> HIDE DEF served, rest
    <2>b. BagToSet(fetches') = BagToSet(rest) \cup {served}
        BY <2>1, BagMoves
    <2>3. BagToSet(fetches') \subseteq BagToSet(fetches) \cup {served}
        BY <2>a, <2>b
    <2>4. \A other \in BagToSet(fetches') :
              other.account \in Accounts /\ other.answer \in -1..Len(made)
        BY <2>2, <2>3 DEF TypeOK
    <2> QED BY <2>1, <2>4 DEF TypeOK, server, Versions
<1>7. ASSUME NEW fetch \in BagToSet(fetches), ReceiveSummary(fetch)
      PROVE  TypeOK'
    <2>1. PICK answer \in {fetch.answer, 0} \ {Unanswered} :
              summary' = [loading |-> FALSE, data |-> answer]
        BY <1>7 DEF ReceiveSummary
    <2>2. /\ fetches' = fetches (-) SetToBag({fetch})
          /\ UNCHANGED <<server, log, account, aiAvailable, aiOn>> /\ Render
        BY <1>7 DEF ReceiveSummary
    <2>3. answer \in 0..Len(made)
        BY <1>0 DEF TypeOK, Unanswered
    <2>4. BagToSet(fetches') \subseteq BagToSet(fetches)
        BY <2>2, BagMoves
    <2>5. AiOK'
        BY <1>0, <2>2, RenderKeepsAi DEF TypeOK, server
    <2> QED BY <2>1, <2>2, <2>3, <2>4, <2>5 DEF TypeOK, AiOK, server, Versions
<1>8. CASE ReceiveCapabilities
    BY <1>8 DEF ReceiveCapabilities, TypeOK, server, Versions
<1>9. CASE ToggleAi
    <2>1. /\ aiOn' = ~aiOn /\ Render
          /\ UNCHANGED <<server, log, account, summary, fetches, aiAvailable>>
        BY <1>9 DEF ToggleAi
    <2>2. AiOK'
        BY <1>0, <2>1, RenderKeepsAi DEF TypeOK, server
    <2> QED BY <2>1, <2>2 DEF TypeOK, AiOK, server, Versions
<1>10. CASE ServeExplain
    <2>1. /\ UNCHANGED <<server, log, account, summary, fetches, aiAvailable, aiOn>>
          /\ ai' = [narrative |-> ai.narrative, loading |-> ai.loading,
                    request |-> [phase |-> "read", version |-> store[ai.request.account]]]
          /\ store[ai.request.account] \in Versions
        BY <1>0, <1>10 DEF ServeExplain, TypeOK, NoRequest, Versions
    <2>2. AiOK'
        BY <1>0, <2>1 DEF AiOK, server, Versions
    <2> QED BY <2>1, <2>2 DEF TypeOK, AiOK, server, Versions
<1>11. CASE ReceiveExplain
    <2>1. PICK answer \in ExplainAnswers(ai.request.version) :
              Settle(IF answer.mode = "llm" THEN answer ELSE NoNarrative)
        BY <1>11 DEF ReceiveExplain
    <2>2. AiOK'
        BY <2>1, SettleKeepsAi DEF NoNarrative
    <2> QED BY <1>11, <2>2 DEF ReceiveExplain, TypeOK, AiOK, server, Versions
<1>12. CASE ExplainFails
    <2>1. AiOK'
        BY <1>12, SettleKeepsAi DEF ExplainFails, NoNarrative
    <2> QED BY <1>12, <2>1 DEF ExplainFails, TypeOK, AiOK, server, Versions
<1>13. CASE UNCHANGED vars
    BY <1>13 DEF vars, server, screen, TypeOK, Versions
<1> QED BY <1>1, <1>2, <1>3, <1>4, <1>5, <1>6, <1>7, <1>8, <1>9, <1>10, <1>11, <1>12, <1>13
        DEF Next

\* The variables of the screen, the worker and the server keep their shapes,
\* for every set of accounts, snapshots and replies.
THEOREM TypeCorrect == Spec => []TypeOK
PROOF
<1>1. Init => TypeOK
    BY TypeInit, ScreenAssumption
<1>2. TypeOK /\ [Next]_vars => TypeOK'
    BY TypeStep, ScreenAssumption
<1> QED BY <1>1, <1>2, PTL DEF Spec

-----------------------------------------------------------------------------
(* What the rewrite is about *)

\* The store holds, for each account, its latest snapshot.
StoreInv ==
    /\ \A v \in Versions : made[v].computed_at = v /\ store[made[v].account_id] >= v
    /\ \A a \in Accounts : store[a] # 0 => made[store[a]].account_id = a

\* The figures on the screen are of the selected account.
Fresh == Shown # 0 /\ made[Shown].account_id = account

\* A request under way is about the selected account, and what the server
\* read for it is no older than the figures.
RequestInv ==
    /\ ai.request # NoRequest => aiOn
    /\ ai.request.phase = "sent" => ai.request.account = account
    /\ ai.request.phase = "read" =>
          /\ made[ai.request.version].account_id = account
          /\ Fresh => ai.request.version >= Shown

\* The inductive invariant, with TypeOK.
IInv == StoreInv /\ RequestInv /\ AnswersGrounded /\ ProseKeepsUp

\* The figures on the screen and the newest event are snapshots that exist.
LEMMA ShownType ==
    ASSUME TypeOK
    PROVE  /\ Shown \in 0..Len(made) /\ Len(made) \in Nat
           /\ log # << >> => log[1] \in Versions
PROOF
<1>1. log # << >> => log[1] \in Versions
    <2>1. ASSUME log # << >> PROVE log[1] \in stream
        BY <2>1 DEF TypeOK
    <2> QED BY <2>1 DEF TypeOK
<1>2. Len(made) \in Nat
    BY DEF TypeOK
<1>3. Live \in 0..Len(made)
    BY <1>1, <1>2 DEF Live, Versions
<1> QED BY <1>1, <1>2, <1>3 DEF Shown, TypeOK

\* A step that changes neither what the effect depends on nor the rewrite.
LEMMA NothingNew ==
    ASSUME IInv, EffectKey' = EffectKey, UNCHANGED <<llm, made, store, ai>>
    PROVE  IInv'
PROOF
<1>1. aiOn' = aiOn /\ account' = account /\ Shown' = Shown
    BY DEF EffectKey
<1>2. StoreInv'
    BY DEF IInv, StoreInv, Versions
<1>3. RequestInv'
    BY <1>1 DEF IInv, RequestInv, Fresh
<1>4. AnswersGrounded'
    BY <1>1 DEF IInv, AnswersGrounded, Versions
<1>5. ProseKeepsUp'
    BY <1>1 DEF IInv, ProseKeepsUp
<1> QED BY <1>2, <1>3, <1>4, <1>5 DEF IInv

\* The effect starts over whenever something it depends on changes.
LEMMA RenderKeeps ==
    ASSUME IInv, Render, UNCHANGED <<llm, made, store>>
    PROVE  IInv'
PROOF
<1>1. CASE EffectKey' = EffectKey
    <2>1. ai' = ai
        BY <1>1 DEF Render
    <2> QED BY <1>1, <2>1, NothingNew
<1>2. StoreInv'
    BY DEF IInv, StoreInv, Versions
<1>3. CASE EffectKey' # EffectKey /\ aiOn' /\ Shown' # 0
    <2>1. ai' = [narrative |-> ai.narrative, loading |-> TRUE,
                 request |-> [phase |-> "sent", account |-> account']]
        BY <1>3 DEF Render
    <2>2. /\ ai'.narrative = ai.narrative
          /\ ai'.request.phase = "sent" /\ ai'.request.account = account'
          /\ ai'.request # NoRequest
        BY <2>1 DEF NoRequest
    <2>3. RequestInv'
        BY <2>2, <1>3 DEF RequestInv
    <2>4. AnswersGrounded'
        BY <2>2, <1>3 DEF IInv, AnswersGrounded, Versions
    <2>5. ProseKeepsUp'
        BY <2>2 DEF ProseKeepsUp
    <2> QED BY <1>2, <2>3, <2>4, <2>5 DEF IInv
<1>4. CASE EffectKey' # EffectKey /\ ~(aiOn' /\ Shown' # 0)
    <2>1. ai' = [narrative |-> NoNarrative, loading |-> ai.loading, request |-> NoRequest]
        BY <1>4 DEF Render
    <2>2. ai'.narrative.mode = "none" /\ ai'.request = NoRequest /\ ai'.request.phase = "none"
        BY <2>1 DEF NoNarrative, NoRequest
    <2> QED BY <1>2, <2>2 DEF IInv, RequestInv, AnswersGrounded, ProseKeepsUp
<1> QED BY <1>1, <1>3, <1>4

\* A new snapshot is stored: what is known of the older ones stays.
LEMMA SaveKeeps ==
    ASSUME ScreenAssumption, TypeOK, IInv, SaveSnapshot
    PROVE  IInv'
PROOF
<1>1. PICK a \in Accounts :
          /\ made'[Len(made')].account_id = a
          /\ store' = [store EXCEPT ![a] = Len(made')]
    BY VersionsGrow
<1>2. /\ Len(made') = Len(made) + 1 /\ Len(made) \in Nat
      /\ \A v \in Versions : made'[v] = made[v]
      /\ made'[Len(made')].computed_at = Len(made')
    BY VersionsGrow
<1>3. UNCHANGED <<llm, log, account, summary, aiOn, ai>>
    BY DEF SaveSnapshot, screen
<1>4. Shown' = Shown
    <2>1. Live' = Live
        BY <1>2, <1>3, ShownType DEF Live
    <2> QED BY <2>1, <1>3 DEF Shown
<1>5. Shown # 0 => Shown \in Versions
    BY ShownType DEF Versions
<1>6. Versions' = Versions \cup {Len(made')} /\ Len(made') \notin Versions
    BY <1>2 DEF Versions
<1>7. StoreInv'
    <2>1. store \in [Accounts -> 0..Len(made)]
          /\ \A v \in Versions : made[v].account_id \in Accounts
        <3>1. store \in [Accounts -> 0..Len(made)]
            BY DEF TypeOK
        <3>2. \A v \in Versions : made[v] \in
                  [account_id : Accounts, computed_at : Nat, portfolio_value : Int,
                   pnl : Int, volatility : Int, var : Int, sharpe : Int]
            BY ElementOfSeq DEF TypeOK, Versions
        <3> QED BY <3>1, <3>2
    <2>2. ASSUME NEW v \in Versions'
          PROVE  made'[v].computed_at = v /\ store'[made'[v].account_id] >= v
        <3>1. CASE v = Len(made')
            BY <3>1, <1>1, <1>2, <2>1
        <3>2. CASE v \in Versions
            <4>1. made'[v] = made[v] /\ made[v].computed_at = v
                  /\ store[made[v].account_id] >= v /\ v <= Len(made) /\ v \in Nat
                BY <3>2, <1>2 DEF IInv, StoreInv, Versions
            <4>2. made[v].account_id \in Accounts
                BY <3>2, <2>1
            <4> QED BY <4>1, <4>2, <1>1, <1>2, <2>1
        <3> QED BY <3>1, <3>2, <1>6
    <2>3. ASSUME NEW b \in Accounts, store'[b] # 0
          PROVE  made'[store'[b]].account_id = b
        <3>1. CASE b = a
            BY <3>1, <1>1, <2>1
        <3>2. CASE b # a
            <4>1. store'[b] = store[b] /\ store[b] \in Versions
                BY <3>2, <2>3, <1>1, <1>2, <2>1 DEF Versions
            <4> QED BY <4>1, <1>2, <2>3 DEF IInv, StoreInv
        <3> QED BY <3>1, <3>2
    <2> QED BY <2>2, <2>3 DEF StoreInv
<1>8. RequestInv'
    <2>1. Fresh' = Fresh
        BY <1>2, <1>3, <1>4, <1>5 DEF Fresh
    <2>2. ai.request.phase = "read" => ai.request.version \in Versions
        BY DEF TypeOK, NoRequest
    <2> QED BY <1>2, <1>3, <1>4, <2>1, <2>2 DEF IInv, RequestInv
<1>9. AnswersGrounded'
    BY <1>2, <1>3, <1>6 DEF IInv, AnswersGrounded
<1>10. ProseKeepsUp'
    BY <1>2, <1>3, <1>4, <1>5 DEF IInv, ProseKeepsUp
<1> QED BY <1>7, <1>8, <1>9, <1>10 DEF IInv

\* The server reads the latest snapshot of the account asked about: no older
\* than the figures, if these are the account's.
LEMMA ServeKeeps ==
    ASSUME TypeOK, IInv, ServeExplain
    PROVE  IInv'
PROOF
<1> DEFINE version == store[ai.request.account]
<1>1. /\ UNCHANGED <<server, log, account, summary, fetches, aiAvailable, aiOn>>
      /\ ai' = [narrative |-> ai.narrative, loading |-> ai.loading,
                request |-> [phase |-> "read", version |-> version]]
      /\ ai.request.phase = "sent" /\ version # 0
    BY DEF ServeExplain
<1>2. Shown' = Shown /\ Versions' = Versions
    BY <1>1 DEF Shown, Live, Versions, server
<1>3. account \in Accounts /\ ai.request.account = account /\ aiOn
    BY <1>1 DEF IInv, RequestInv, NoRequest, TypeOK
<1>4. made[version].account_id = account
    BY <1>1, <1>3 DEF IInv, StoreInv
<1>5. Fresh => version >= Shown
    BY <1>3, ShownType DEF Fresh, IInv, StoreInv, Versions
<1> HIDE DEF version
<1>6. /\ ai'.narrative = ai.narrative /\ ai'.request # NoRequest
      /\ ai'.request.phase = "read" /\ ai'.request.version = version
    BY <1>1 DEF NoRequest
<1>7. StoreInv'
    BY <1>1, <1>2 DEF IInv, StoreInv, server
<1>8. RequestInv'
    BY <1>1, <1>2, <1>3, <1>4, <1>5, <1>6 DEF RequestInv, Fresh, server
<1>9. AnswersGrounded'
    BY <1>1, <1>2, <1>6 DEF IInv, AnswersGrounded, server
<1>10. ProseKeepsUp'
    BY <1>6 DEF ProseKeepsUp
<1> QED BY <1>7, <1>8, <1>9, <1>10 DEF IInv

\* A request ends: what it leaves holds of the narrative it leaves.
LEMMA SettleKeeps ==
    ASSUME IInv, NEW narrative, Settle(narrative),
           UNCHANGED <<server, log, account, summary, fetches, aiAvailable, aiOn>>,
           narrative.mode = "llm" =>
               /\ llm = "on" /\ aiOn
               /\ narrative.computed_at \in Versions
               /\ narrative.account_id = made[narrative.computed_at].account_id
               /\ DOMAIN narrative.metrics = DOMAIN MetricFacts(made[narrative.computed_at])
               /\ DOMAIN narrative.changes = {}
               /\ \A i \in DOMAIN MetricFacts(made[narrative.computed_at]) :
                     /\ narrative.metrics[i].key =
                            MetricFacts(made[narrative.computed_at])[i].key
                     /\ narrative.metrics[i].value =
                            MetricFacts(made[narrative.computed_at])[i].value
               /\ narrative.account_id = account
               /\ Fresh => narrative.computed_at >= Shown
    PROVE  IInv'
PROOF
<1>1. Shown' = Shown /\ Versions' = Versions
    BY DEF Shown, Live, Versions, server
<1>2. ai'.narrative = narrative /\ ai'.request = NoRequest /\ ai'.request.phase = "none"
    BY DEF Settle, NoRequest
<1>3. StoreInv'
    BY <1>1 DEF IInv, StoreInv, server
<1>4. RequestInv'
    BY <1>2 DEF RequestInv
<1>5. AnswersGrounded'
    BY <1>1, <1>2 DEF AnswersGrounded, server
<1>6. ProseKeepsUp'
    BY <1>1, <1>2 DEF ProseKeepsUp, Fresh, server
<1> QED BY <1>3, <1>4, <1>5, <1>6 DEF IInv

\* An answer: the figures are those of the snapshot the server read, and the
\* words are the model's.
LEMMA AnswerKeeps ==
    ASSUME TypeOK, IInv, ReceiveExplain
    PROVE  IInv'
PROOF
<1> DEFINE version == ai.request.version
           facts == ExplainSnapshot(made[version], << >>)
<1>1. PICK answer \in {facts} \cup LlmNarratives(facts) :
          Settle(IF answer.mode = "llm" THEN answer ELSE NoNarrative)
    BY DEF ReceiveExplain, ExplainAnswers
<1>2. /\ UNCHANGED <<server, log, account, summary, fetches, aiAvailable, aiOn>>
      /\ ai.request.phase = "read"
    BY DEF ReceiveExplain
<1>3. version \in Versions /\ aiOn
    <2>1. ai.request # NoRequest
        BY <1>2 DEF NoRequest
    <2>2. version \in Versions
        BY <1>2, <2>1 DEF TypeOK
    <2> QED BY <2>1, <2>2 DEF IInv, RequestInv
<1>4. /\ made[version].account_id = account /\ made[version].computed_at = version
      /\ Fresh => version >= Shown
    BY <1>2, <1>3 DEF IInv, RequestInv, StoreInv
<1>5. /\ facts.account_id = account /\ facts.computed_at = version
      /\ facts.metrics = MetricFacts(made[version])
      /\ facts.changes = << >> /\ facts.mode = "rule"
    BY <1>4, ExplainAlone
<1>6. CASE answer.mode # "llm"
    <2>1. Settle(NoNarrative) /\ NoNarrative.mode # "llm"
        BY <1>1, <1>6 DEF NoNarrative
    <2> QED BY <1>2, <2>1, SettleKeeps
<1>7. CASE answer.mode = "llm"
    <2>1. answer \in LlmNarratives(facts) /\ Settle(answer)
        BY <1>1, <1>5, <1>7
    <2> HIDE DEF version, facts
    <2>2. PICK reply \in Replies : answer = Merge(facts, reply) /\ llm = "on"
        BY <2>1 DEF LlmNarratives
    <2>3. /\ answer.account_id = facts.account_id
          /\ answer.computed_at = facts.computed_at
          /\ DOMAIN answer.metrics = DOMAIN facts.metrics
          /\ DOMAIN answer.changes = DOMAIN facts.changes
          /\ \A i \in DOMAIN facts.metrics :
                /\ answer.metrics[i].key = facts.metrics[i].key
                /\ answer.metrics[i].value = facts.metrics[i].value
        BY <2>2, MergeKeepsFacts
    <2>4. DOMAIN answer.changes = {} /\ answer.account_id = account
          /\ answer.computed_at = version
        BY <1>5, <2>3
    <2> QED BY <1>2, <1>3, <1>4, <1>5, <2>1, <2>2, <2>3, <2>4, SettleKeeps
<1> QED BY <1>6, <1>7

\* Nothing is stored, asked or answered yet.
LEMMA InitKeeps == Init => IInv
PROOF
<1> SUFFICES ASSUME Init PROVE IInv
    OBVIOUS
<1>1. /\ ai.request = NoRequest /\ ai.request.phase = "none"
      /\ ai.narrative.mode = "none"
    BY DEF Init, NoRequest, NoNarrative
<1>2. Versions = {} /\ \A a \in Accounts : store[a] = 0
    BY DEF Init, Versions
<1>3. StoreInv
    BY <1>2 DEF StoreInv
<1> QED BY <1>1, <1>3 DEF IInv, RequestInv, AnswersGrounded, ProseKeepsUp

\* Each action keeps what relates the store, the request and the rewrite.
LEMMA IInvStep ==
    ASSUME ScreenAssumption, TypeOK, IInv, [Next]_vars
    PROVE  IInv'
PROOF
<1>1. CASE SaveSnapshot
    BY <1>1, SaveKeeps
<1>2. CASE PublishSnapshot
    <2>1. UNCHANGED <<llm, made, store, screen>>
        BY <1>2 DEF PublishSnapshot
    <2>2. EffectKey' = EffectKey
        BY <2>1 DEF EffectKey, Shown, Live, screen
    <2> QED BY <2>1, <2>2, NothingNew DEF screen
<1>3. CASE ReceiveEvent
    BY <1>3, RenderKeeps DEF ReceiveEvent, server
<1>4. CASE \E a \in Accounts : SelectAccount(a)
    BY <1>4, RenderKeeps DEF SelectAccount, server
<1>5. CASE Refresh
    <2>1. UNCHANGED <<server, log, account, aiAvailable, aiOn, ai>>
          /\ summary' = [loading |-> TRUE, data |-> summary.data]
        BY <1>5 DEF Refresh, Run
    <2>2. EffectKey' = EffectKey
        BY <2>1 DEF EffectKey, Shown, Live, server
    <2> QED BY <2>1, <2>2, NothingNew DEF server
<1>6. CASE \E fetch \in BagToSet(fetches) : ServeSummary(fetch)
    <2>1. UNCHANGED <<server, log, account, summary, aiAvailable, aiOn, ai>>
        BY <1>6 DEF ServeSummary
    <2>2. EffectKey' = EffectKey
        BY <2>1 DEF EffectKey, Shown, Live, server
    <2> QED BY <2>1, <2>2, NothingNew DEF server
<1>7. CASE \E fetch \in BagToSet(fetches) : ReceiveSummary(fetch)
    BY <1>7, RenderKeeps DEF ReceiveSummary, server
<1>8. CASE ReceiveCapabilities
    <2>1. UNCHANGED <<server, log, account, summary, fetches, aiOn, ai>>
        BY <1>8 DEF ReceiveCapabilities
    <2>2. EffectKey' = EffectKey
        BY <2>1 DEF EffectKey, Shown, Live, server
    <2> QED BY <2>1, <2>2, NothingNew DEF server
<1>9. CASE ToggleAi
    BY <1>9, RenderKeeps DEF ToggleAi, server
<1>10. CASE ServeExplain
    BY <1>10, ServeKeeps
<1>11. CASE ReceiveExplain
    BY <1>11, AnswerKeeps
<1>12. CASE ExplainFails
    <2>1. NoNarrative.mode # "llm"
        BY DEF NoNarrative
    <2> QED BY <1>12, <2>1, SettleKeeps DEF ExplainFails
<1>13. CASE UNCHANGED vars
    <2>1. EffectKey' = EffectKey
        BY <1>13 DEF vars, server, screen, EffectKey, Shown, Live
    <2> QED BY <1>13, <2>1, NothingNew DEF vars, server, screen
<1> QED BY <1>1, <1>2, <1>3, <1>4, <1>5, <1>6, <1>7, <1>8, <1>9, <1>10, <1>11, <1>12, <1>13
        DEF Next

\* The shapes, the store and the requests, together in every reachable state.
LEMMA Invariants == Spec => [](TypeOK /\ IInv)
PROOF
<1>1. Init => TypeOK /\ IInv
    BY TypeInit, InitKeeps, ScreenAssumption
<1>2. (TypeOK /\ IInv) /\ [Next]_vars => (TypeOK /\ IInv)'
    BY TypeStep, IInvStep, ScreenAssumption
<1> QED BY <1>1, <1>2, PTL DEF Spec

\* Whatever a language model replies, the rewrite the screen keeps has the metric
\* keys and value fields of one stored snapshot, whatever its prose says, and the
\* model was configured and asked for.
THEOREM Grounded == Spec => []AnswersGrounded
PROOF
<1>1. TypeOK /\ IInv => AnswersGrounded
    BY DEF IInv
<1> QED BY <1>1, Invariants, PTL

\* The rewrite beside the figures is never older than they are: the effect
\* asks again, and the worker stores a snapshot before it publishes it.
THEOREM KeepsUp == Spec => []ProseKeepsUp
PROOF
<1>1. TypeOK /\ IInv => ProseKeepsUp
    BY DEF IInv
<1> QED BY <1>1, Invariants, PTL

-----------------------------------------------------------------------------
(* What changed *)

\* previous is the newest event of the selected account but the live one.
LEMMA PreviousIsNext ==
    ASSUME TypeOK, Live # 0
    PROVE  LET older == {i \in 2..Len(log) : made[log[i]].account_id = account}
           IN  /\ older = {} => Previous = << >>
               /\ older # {} =>
                     LET next == CHOOSE i \in older : \A j \in older : i <= j
                     IN  next \in older /\ Previous = <<made[log[next]]>>
PROOF
<1> DEFINE older == {i \in 2..Len(log) : made[log[i]].account_id = account}
<1>1. DOMAIN log = 1..Len(log) /\ Len(log) \in Nat
    BY DEF TypeOK
<1>2. log # << >> /\ made[log[1]].account_id = account
    BY DEF Live
<1>3. 1 \in DOMAIN log
    BY <1>1, <1>2 DEF TypeOK
<1>4. 1 \in AccountLog /\ AccountLog \subseteq 1..Len(log)
    BY <1>1, <1>2, <1>3 DEF AccountLog
<1>5. Min(AccountLog) \in AccountLog /\ Min(AccountLog) <= 1
    <2>1. AccountLog \in SUBSET Nat /\ AccountLog # {}
        BY <1>1, <1>4
    <2> QED BY <1>4, <2>1, LeastNumber
<1>6. Min(AccountLog) = 1
    <2> DEFINE least == Min(AccountLog)
    <2>1. least \in 1..Len(log) /\ least <= 1
        BY <1>4, <1>5
    <2> HIDE DEF least
    <2>2. least = 1
        BY <1>1, <2>1
    <2> QED BY <2>2 DEF least
<1>7. AccountLog \ {Min(AccountLog)} = older
    <2>1. \A i : i \in 2..Len(log) <=> i \in 1..Len(log) /\ i # 1
        BY <1>1
    <2> QED BY <1>1, <1>6, <2>1 DEF AccountLog
<1>8. older \in SUBSET Nat
    BY <1>1
<1> HIDE DEF older
<1>9. Previous = IF older # {} THEN <<made[log[Min(older)]]>> ELSE << >>
    BY <1>7 DEF Previous
<1>10. older # {} => Min(older) \in older
    BY <1>8, LeastNumber
<1>11. Min(older) = CHOOSE i \in older : \A j \in older : i <= j
    BY DEF Min
<1> QED BY <1>9, <1>10, <1>11 DEF older

\* The log names snapshots that exist, and their figures are numbers.
LEMMA LoggedFigures ==
    ASSUME TypeOK
    PROVE  /\ \A i \in 1..Len(log) : log[i] \in DOMAIN made
           /\ \A v \in DOMAIN made :
                 \A k \in {"portfolio_value", "volatility", "var", "sharpe"} : made[v][k] \in Int
PROOF
<1> DEFINE S == [account_id : Accounts, computed_at : Nat, portfolio_value : Int,
                 pnl : Int, volatility : Int, var : Int, sharpe : Int]
<1>1. made \in Seq(S) /\ log \in Seq(stream) /\ stream \subseteq 1..Len(made)
    BY DEF TypeOK, Versions
<1>2. \A v \in S : \A k \in {"portfolio_value", "volatility", "var", "sharpe"} : v[k] \in Int
    OBVIOUS
<1> HIDE DEF S
<1>3. DOMAIN made = 1..Len(made) /\ \A v \in DOMAIN made : made[v] \in S
    BY <1>1, InSeq
<1>4. \A i \in 1..Len(log) : log[i] \in stream
    BY <1>1
<1> QED BY <1>1, <1>2, <1>3, <1>4

\* "What changed" is about the figures of the live snapshot and of the one of
\* the same account before it, and their moves: previous is the right event,
\* and _changes files its statements under what moved between the two.
THEOREM ChangesMatch == Spec => []ChangesMatchFigures
PROOF
<1>1. ASSUME TypeOK, Live # 0
      PROVE  LET older == {i \in 2..Len(log) : made[log[i]].account_id = account}
                 changes == RuleNarrative.changes
             IN  IF older = {} THEN changes = << >>
                 ELSE LET before == made[log[CHOOSE i \in older : \A j \in older : i <= j]]
                          now == made[Live]
                      IN  /\ \A i \in DOMAIN changes :
                                /\ now[changes[i].key] # before[changes[i].key]
                                /\ (changes[i].direction = "up") <=>
                                      (now[changes[i].key] > before[changes[i].key])
                          /\ \A k \in {"portfolio_value", "volatility", "var"} :
                                now[k] # before[k]
                                /\ (k = "var" => now["volatility"] = before["volatility"])
                                => \E i \in DOMAIN changes : changes[i].key = k
    <2> DEFINE older == {i \in 2..Len(log) : made[log[i]].account_id = account}
               next == CHOOSE i \in older : \A j \in older : i <= j
               changes == RuleNarrative.changes
               before == made[log[next]]
               now == made[Live]
    <2>1. /\ older = {} => Previous = << >>
          /\ older # {} => next \in older /\ Previous = <<before>>
        BY <1>1, PreviousIsNext
    <2>2. Shown = Live
        BY <1>1 DEF Shown
    <2>3. changes = IF Previous = << >> THEN << >> ELSE ChangeFacts(now, Previous[1])
        BY <2>2 DEF RuleNarrative, ExplainSnapshot
    <2>4. older = {} => changes = << >>
        BY <2>1, <2>3
    <2>5. ASSUME older # {}
          PROVE  /\ changes = ChangeFacts(now, before)
                 /\ \A k \in {"portfolio_value", "volatility", "var", "sharpe"} :
                       now[k] \in Int /\ before[k] \in Int
        <3>1. next \in 2..Len(log) /\ Previous = <<before>>
            BY <2>1, <2>5
        <3>2. \A i \in 1..Len(log) : log[i] \in DOMAIN made
            BY <1>1, LoggedFigures
        <3>3. \A v \in DOMAIN made :
                 \A k \in {"portfolio_value", "volatility", "var", "sharpe"} : made[v][k] \in Int
            BY <1>1, LoggedFigures
        <3>4. Len(log) \in Nat
            BY DEF TypeOK
        <3>5. log # << >> /\ Live = log[1]
            BY <1>1 DEF Live
        <3>6. 1 \in 1..Len(log) /\ next \in 1..Len(log)
            BY <3>1, <3>4
        <3> HIDE DEF changes, older, next
        <3>7. \A k \in {"portfolio_value", "volatility", "var", "sharpe"} :
                 now[k] \in Int /\ before[k] \in Int
            BY <3>2, <3>3, <3>5, <3>6
        <3>8. Previous # << >> /\ Previous[1] = before
            BY <3>1
        <3> QED BY <2>3, <3>7, <3>8
    <2> HIDE DEF older, next, before, now, changes
    <2>6. ASSUME older # {}
          PROVE  \A i \in DOMAIN changes : MatchesFigure(changes[i], now, before)
        <3>1. changes \in Seq(Statements(now, before))
            BY <2>5, <2>6, ChangeStatements
        <3>2. \A i \in DOMAIN changes : changes[i] \in Statements(now, before)
            BY <3>1
        <3> QED BY <3>2 DEF Statements
    <2>7. ASSUME older # {}
          PROVE  \A k \in {"portfolio_value", "volatility", "var"} :
                     now[k] # before[k]
                     /\ (k = "var" => now["volatility"] = before["volatility"])
                     => \E i \in DOMAIN changes : changes[i].key = k
        BY <2>5, <2>7, ChangeStatements
    <2>8. older = {} => changes = << >>
        BY <2>4
    <2> QED BY <2>6, <2>7, <2>8 DEF MatchesFigure, older, next, before, now, changes
<1>2. TypeOK => ChangesMatchFigures
    BY <1>1 DEF ChangesMatchFigures
<1> QED BY <1>2, TypeCorrect, PTL

=============================================================================
