----------------------------- MODULE MCExecutor ------------------------------
(* Instances of Executor for TLC: the two workflows of the mock bank. *)
EXTENDS Executor

Goto(request) == [kind |-> "navigate", to |-> request, bound |-> TRUE]
Press(on, requests) ==
    [kind |-> "click", on |-> on, sends |-> [shown \in Bank!Pages |->
        IF shown \in on THEN requests[shown] ELSE {"none"}]]
On(kind, on) == [kind |-> kind, on |-> on, bound |-> TRUE]
Unbound(step) == [step EXCEPT !.bound = FALSE]

\* The submit buttons of the two forms, and a link to the form or to the search.
Button == [search |-> {"lookup"}, form |-> {"post"}]
Link == [detail |-> {"form"}, confirm |-> {"link"}, notfound |-> {"search"},
         denied |-> {"search"}, expired |-> {"search", "none"}]

\* A member's balance, by a direct link; the second also finds a cell elsewhere.
Balance(on) == <<Goto("link"), On("extract", on)>>

\* A sub-account, by way of the search page or straight from its form, with a
\* checkpoint that tells the confirmation from the form, with one that does not,
\* and with none.
Open == <<Goto("search"), Press({"search"}, Button), Press(DOMAIN Link, Link),
          On("fill", {"search", "form"}), Press({"form"}, Button)>>
Filled == <<Goto("form"), On("fill", {"form"}), Press({"form"}, Button)>>
Unchecked == <<Goto("form"), Press(DOMAIN Button, Button)>>
Sure == <<On("assert", {"confirm"})>>
Loose == <<On("assert", {"form", "confirm"})>>

C(artifact, member, inject, valid) ==
    [artifact |-> artifact, member |-> member, inject |-> inject, valid |-> valid]

One ==
    {C(Balance(on), m, j, TRUE) :
        on \in {{"detail"}, {"detail", "expired", "denied"}},
        m \in {"active", "restricted", "unknown"},
        j \in {"none", "timeout", "notfound", "permission"}}
    \cup {C(Unchecked \o end, m, "none", v) :
             end \in {Sure, Loose}, m \in {"active", "unknown"}, v \in BOOLEAN}
    \cup {C(Filled, "active", "none", TRUE), C(Open \o Sure, "restricted", "none", TRUE),
          C(<<Unbound(Goto("search"))>>, "active", "none", TRUE),
          C(<<Goto("search"), Unbound(On("select", {"search"}))>>, "active", "none", TRUE),
          C(<<Unbound(On("assert", {"blank"}))>>, "active", "none", TRUE)}

CONSTANTS r1, r2

\* One run of each workflow, which may submit the form once per try, and two runs
\* side by side.
MCCalls ==
    {[r \in Run |-> IF r = r1 THEN c ELSE C(<<>>, "active", "none", TRUE)] : c \in One}
    \cup {[r \in Run |-> C(Balance({"detail"}), IF r = r1 THEN "active" ELSE "unknown", "none", TRUE)]}
=============================================================================
