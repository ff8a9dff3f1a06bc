----------------------------- MODULE MCCloudStore -----------------------------
EXTENDS CloudStore

CONSTANTS a, b, t1, t2, g1

Row(status, types) ==
  [ status |-> status, events |-> [i \in DOMAIN types |-> [type |-> types[i], id |-> 0]],
    rev |-> 1, life |-> 1, read |-> 1 ]

\* One annotation, not yet looked at.
MCTables == {[Nobody EXCEPT ![a] = Row("pending", <<"created">>)]}

\* An export made before: the annotation as the designer left it.
MCImport == [Nobody EXCEPT ![a] = [Row("pending", <<"created">>) EXCEPT !.rev = 0, !.life = 0, !.read = 0]]
=============================================================================
