------------------------------- MODULE MCWidget -------------------------------
EXTENDS Widget

CONSTANTS a1, a2, c1, c2, c3, r1, r2

Kept(comment, status, route) ==
  [ comment |-> comment, status |-> status, route |-> route, narrow |-> FALSE,
    verdict |-> Null, copy |-> 0 ]

\* One annotation, checked and found vague; or one not yet submitted.
MCStores ==
  { [Nobody EXCEPT ![a1] = [Kept(c1, "pending", r1) EXCEPT !.verdict = [of |-> c1, refined |-> FALSE]]],
    [Nobody EXCEPT ![a1] = Kept(c2, "draft", r1)] }
=============================================================================
