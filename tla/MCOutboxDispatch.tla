-------------------------- MODULE MCOutboxDispatch --------------------------
(* Instances of the outbox for TLC.                                        *)
EXTENDS OutboxDispatch

Entry         == [kind |-> "entry", optional |-> FALSE]
SourceRef     == [kind |-> "sourceRef", optional |-> FALSE]
OptionalEntry == [kind |-> "entry", optional |-> TRUE]
OpenDossier   == [kind |-> "openDossier", optional |-> FALSE]

\* A supplier invoice posted, an opportunity won.
MoneyFlows == <<<<Entry, SourceRef>>, <<OpenDossier>>>>
\* An optional handler before a plain one, an event nobody subscribes to.
MixedFlows == <<<<OptionalEntry, OpenDossier>>, <<>>>>
=============================================================================
