------------------------------- MODULE RunProof -------------------------------
(***************************************************************************)
(* poc/native-kill-restart/run_proof.py, main, over the processes of       *)
(* KillRestart: it runs relay_proc.py twice and then consumer_proc.py      *)
(* twice, each one to its end.  The first of each kills itself at a        *)
(* planned place; after each main asserts what has to hold by then, and    *)
(* gives up for good if it does not.                                       *)
(*                                                                         *)
(* script is where main is; or an operator runs the processes from the     *)
(* command line, several consumers at once, and may start any again or     *)
(* leave it.  In both a process may be killed from outside at any place,   *)
(* which main takes for a failure: Popen.wait does not return 137 then.    *)
(***************************************************************************)
EXTENDS KillRestart

CONSTANTS Consumer,     \* CONSUMER
          DieOn,        \* die_on, --die-after-publish of the first relay
          DieOnC        \* die_on_c, --die-before-ack-on of the first consumer

ASSUME ScriptAssumption ==
    /\ Consumer \in Consumers
    /\ {DieOn, DieOnC} \subseteq Rows
    /\ MaxKills >= 2

VARIABLE script

variables == <<vars, script>>

ByHand == script = "by hand"

\* A clean slate, for main or for an operator.
ProofInit == Init /\ script \in {"by hand", "relay 1"}

-----------------------------------------------------------------------------

\* run_child has returned and main asserts.
Asserts(holds, next) == script' = IF holds THEN next ELSE "failed"

\* The K-th row is published, its mark would be next; the first relay starts at
\* row 1, so the K-th row it publishes is row K.
RelayAtDeath == script = "relay 1" /\ relay.pc = "mark" /\ Head(relay.batch) = DieOn

RunRelay ==
    /\ script \in {"relay 1", "relay 2"}
    /\ StartRelay \/ XAdd \/ (MarkSent /\ ~RelayAtDeath)
    /\ UNCHANGED script

\* rc 137; die_on entries on the stream, the row of the last one not marked.
RelayDies ==
    /\ RelayAtDeath /\ KillRelay
    /\ Asserts(Len(stream) = DieOn /\ Cardinality(Rows \ sent) = Len(Trades) - (DieOn - 1), "relay 2")

\* rc 0 of the second relay; one entry more than events, no row unsent.
RelayReturns ==
    /\ script \in {"relay 1", "relay 2"}
    /\ RelayDrained
    /\ Asserts(script = "relay 2" /\ Len(stream) = Len(Trades) + 1 /\ sent = Rows, "consumer 1")

\* The K-th new entry is handled, its XACK would be next; the first consumer
\* reads the group from its start, so its K-th new entry is entry K.
ConsumerAtDeath ==
    /\ script = "consumer 1"
    /\ consumer[Consumer].pc = "ack" /\ consumer[Consumer].task = "new" /\ cursor = DieOnC

RunConsumer ==
    /\ script \in {"consumer 1", "consumer 2"}
    /\ \/ StartConsumer(Consumer)
       \/ ConsumerStep(Consumer) /\ ~Exit(Consumer) /\ ~ConsumerAtDeath
    /\ UNCHANGED script

\* rc 137; the entry is pending.
ConsumerDies ==
    /\ ConsumerAtDeath /\ KillConsumer(Consumer)
    /\ Asserts(pending # {}, "consumer 2")

\* rc 0 of the second consumer, and the done-when.
ConsumerReturns ==
    /\ script \in {"consumer 1", "consumer 2"}
    /\ Exit(Consumer)
    /\ Asserts(/\ script = "consumer 2"
               /\ ToSet(processed) = Rows /\ Len(processed) = Len(Trades)
               /\ pending = {}
               /\ proj_cash = BaselineCash(Rows) /\ proj_positions = BaselinePositions(Rows),
               "passed")

\* A SIGKILL from elsewhere fails the assertion on the exit code.
Killed ==
    /\ ~ByHand
    /\ KillRelay \/ \E c \in Consumers : KillConsumer(c)
    /\ script' = "killed"

\* The operator's processes.
AnyProcess == ByHand /\ Next /\ UNCHANGED script

-----------------------------------------------------------------------------

Main == RunRelay \/ RelayDies \/ RelayReturns \/ RunConsumer \/ ConsumerDies \/ ConsumerReturns

ProofNext == Main \/ Killed \/ AnyProcess

\* A process that runs goes on, and main starts the next.  The operator need not.
ProofSpec ==
    /\ ProofInit /\ [][ProofNext]_variables
    /\ WF_variables(Main)
    /\ WF_variables(ByHand /\ RelayStep /\ UNCHANGED script)
    /\ \A c \in Consumers : WF_variables(ByHand /\ ConsumerStep(c) /\ UNCHANGED script)

-----------------------------------------------------------------------------
(* Properties *)

\* main comes to its end, with PROOF PASSED unless something else than its own
\* plan kills a process: none of its assertions (run_proof.py:166-240) fails,
\* the two kills leave one repeated entry and one pending one, and the restarts
\* make up for both.  And by hand or not, whatever else is killed, whoever takes
\* the entry it works on, and however often others start: a process that runs
\* comes to an exit.
ProofEnds ==
    /\ ~ByHand ~> script \in {"passed", "killed"}
    /\ relay.pc # "down" ~> relay.pc = "down"
    /\ \A c \in Consumers : Running(c) ~> ~Running(c)

=============================================================================
