------------------------------- MODULE Topics -------------------------------
(***************************************************************************)
(* The topics that connection_server, echo_exchange_server and             *)
(* event_listener bind their queues to, which all three work out in the    *)
(* same way from the options topic_0 to topic_3.  A topic is the set of    *)
(* routing keys it matches, and {} an option that was not given.           *)
(***************************************************************************)
EXTENDS Naturals, Sequences, FiniteSets

\* How many topics are given before the first that is not; the others are
\* never looked at.
Given(topics) ==
  Cardinality({i \in DOMAIN topics : \A j \in 1 .. i : topics[j] # {}})

\* The topics that are bound, one queue_bind after the other; "#", which matches
\* all keys, when topic_0 is not given.
Bindings(topics, keys) ==
  IF topics[1] = {} THEN <<keys>> ELSE SubSeq(topics, 1, Given(topics))

\* Whether a publication with this key goes to a queue with these bindings.
Matches(bindings, key) == \E i \in DOMAIN bindings : key \in bindings[i]
=============================================================================
