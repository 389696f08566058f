---------------------------- MODULE MCDiscovery -----------------------------
(* Instances of Discovery for TLC. *)
EXTENDS Discovery

CONSTANTS l1, l2, t1, t2

A(type, binds, candidates, expected) ==
    [type |-> type, risky |-> type = "click", binds |-> binds, candidates |-> candidates,
     expected |-> expected, error |-> FALSE]

Done == A("finish", <<>>, <<>>, None)

MCAction ==
    {A("click", <<>>, <<l1, l2>>, None),
     A("extract", [output_name |-> "member"], <<l2>>, None),
     A("assert", <<>>, <<>>, t2),
     Done, [Done EXCEPT !.error = TRUE]}

\* The overlay replaces the locators of one step and the binding of another.
MCOverlay == [locators |-> [i \in {1} |-> <<l2>>], params |-> [i \in {0} |-> [url |-> "tenant_url"]]]
=============================================================================
