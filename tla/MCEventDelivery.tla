-------------------------- MODULE MCEventDelivery --------------------------
(* EventDelivery with at most two events, the first of which must be routed. *)
EXTENDS EventDelivery, TLC

CONSTANTS r1, r2, c1, c2

TwoEvents == {1, 2}
OneEvent == {1}
MCMustRoute == {1}
MCMailing == {1}
TwoRelays == {r1, r2}
OneRelay == {r1}
TwoConsumers == {c1, c2}
OneConsumer == {c1}

\* Relays are interchangeable, and so are listeners.
Symmetry == Permutations(Relays) \cup Permutations(Consumers)
=============================================================================
