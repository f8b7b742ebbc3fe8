--------------------------- MODULE EffectivelyOnce ---------------------------
(***************************************************************************)
(* The contract of a consumer of ledger.updates: entries of the log may    *)
(* be duplicates, but an event takes effect once, and the broker forgets   *)
(* an entry of the consumer's group only when its event has taken effect   *)
(* or the entry is no event at all.                                        *)
(***************************************************************************)
EXTENDS Integers, Sequences

CONSTANTS Events,       \* ids of well-formed events
          Garbage       \* entries that are not events

VARIABLES log,          \* the stream
          effects,      \* events that have taken effect, in that order
          forgotten     \* positions of the log never delivered again

vars == <<log, effects, forgotten>>

InSeq(x, s) == \E i \in DOMAIN s : s[i] = x

Init ==
    /\ log = << >>
    /\ effects = << >>
    /\ forgotten = {}

Arrive(x) ==
    /\ log' = Append(log, x)
    /\ UNCHANGED <<effects, forgotten>>

Apply(e) ==
    /\ InSeq(e, log)
    /\ ~InSeq(e, effects)
    /\ effects' = Append(effects, e)
    /\ UNCHANGED <<log, forgotten>>

Forget(i) ==
    /\ InSeq(log[i], effects) \/ log[i] \in Garbage
    /\ forgotten' = forgotten \cup {i}
    /\ UNCHANGED <<log, effects>>

Next ==
    \/ \E x \in Events \cup Garbage : Arrive(x)
    \/ \E e \in Events : Apply(e)
    \/ \E i \in DOMAIN log : Forget(i)

Spec == Init /\ [][Next]_vars

=============================================================================
