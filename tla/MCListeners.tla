---------------------------- MODULE MCListeners ----------------------------
(***************************************************************************)
(* Names, rules, dead servers and static addresses for TLC.                *)
(***************************************************************************)
EXTENDS Listeners

MCNames == {"a.x", "b.x"}
MCKeys == MCNames \X {"A", "AAAA"}
MCDomains == [n \in MCNames |-> <<"x", n>>]

\* One of the names has a rule of its own below that of its domain.
MCDomainMap == [d \in {"x", "b.x"} |-> IF d = "x" THEN "office" ELSE "REJECT"]
MCDead == {{0}, {0, 1}}
MCRecords == {<<"b.x", "AAAA">>}

\* One address of the pool belongs to a host that is away.
MCHosts == [a \in {2} |-> "m3"]
=============================================================================
