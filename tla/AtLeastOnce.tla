----------------------------- MODULE AtLeastOnce -----------------------------
(***************************************************************************)
(* The delivery contract between ledger-core and the consumers of          *)
(* ledger.updates: the log carries every committed event at least once,    *)
(* and never an event that was not committed.                              *)
(***************************************************************************)
EXTENDS Sequences

CONSTANT Events

VARIABLES committed,    \* events whose posting committed
          log,          \* the stream, with duplicates
          settled       \* events the producer will not publish for itself again

vars == <<committed, log, settled>>

OnLog(e) == \E i \in DOMAIN log : log[i] = e

Init ==
    /\ committed = {}
    /\ log = << >>
    /\ settled = {}

Commit(e) ==
    /\ e \notin committed
    /\ committed' = committed \cup {e}
    /\ UNCHANGED <<log, settled>>

Deliver(e) ==
    /\ e \in committed
    /\ log' = Append(log, e)
    /\ UNCHANGED <<committed, settled>>

Settle(e) ==
    /\ OnLog(e)
    /\ settled' = settled \cup {e}
    /\ UNCHANGED <<committed, log>>

Next == \E e \in Events : Commit(e) \/ Deliver(e) \/ Settle(e)

Spec == Init /\ [][Next]_vars

FairSpec == Spec /\ \A e \in Events : WF_vars(Deliver(e) /\ ~OnLog(e))

=============================================================================
