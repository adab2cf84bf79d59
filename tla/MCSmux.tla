------------------------------- MODULE MCSmux -------------------------------
EXTENDS Smux

Scenario(vc, vs, wc, ws, keepers) ==
    [p \in Sides |-> IF p = "client"
                     THEN [ver |-> vc, write |-> wc, ticks |-> p \in keepers]
                     ELSE [ver |-> vs, write |-> ws, ticks |-> p \in keepers]]

\* A server that talks at once in version 1; a client that must wait for the
\* window in version 2 and may see the server close the session, and a server
\* that must wait for it; and two sides that do not speak the same version.
MCScenarios == {Scenario(1, 1, 0, 2, {"client"}),
                Scenario(2, 2, 3, 0, {"server"}), Scenario(2, 2, 0, 3, {}),
                Scenario(1, 2, 1, 0, Sides), Scenario(2, 1, 3, 0, Sides)}

\* The server has two frames to say.
MCEarly == {Scenario(1, 1, 0, 2, {"client"})}
=============================================================================
