---------------------------- MODULE MC_PseudoTypes ----------------------------
EXTENDS PseudoTypes

\* Group keys of distinct JSON values: numbers, booleans, a string, and
\* one-element arrays of a number and of a boolean.
MC_GroupKeys ==
    {Num(0), Num(1), Bool(TRUE), Bool(FALSE), Str("a"),
     List(<<Num(1)>>), List(<<Bool(TRUE)>>)}

\* A GROUPED_DATA object of two groups with distinct keys.
MC_Grouped(k1, k2) ==
    Obj([f \in {"$reql_type$", "data"} |->
           IF f = "data"
             THEN List(<<List(<<k1, Num(1)>>), List(<<k2, Num(2)>>)>>)
             ELSE Str("GROUPED_DATA")])

MC_Inputs == {MC_Grouped(k1, k2) : k1, k2 \in MC_GroupKeys} \ 
             {MC_Grouped(k, k) : k \in MC_GroupKeys}
=============================================================================
