----------------------------- MODULE MCDelivery -------------------------------
EXTENDS DeliveryProps
CONSTANTS a, b, c, f, h1, h2
MCPriority == [p \in Producers |-> IF p = c THEN 1 ELSE 2]
MCChains == {<<"recovery", "logging", "metrics">>, <<"metrics", "recovery">>}
MCPublishers == Producers \cup {Feeder}
MCCasts == {{a, b, c, h1, "closer"}, {a, b, h1, h2, "closer", "clearer"}, {a, c, "reader"}}
=============================================================================
