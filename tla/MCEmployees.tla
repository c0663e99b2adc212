----------------------------- MODULE MCEmployees -----------------------------
(***************************************************************************)
(* The instance of Employees for TLC. Requests and values are              *)
(* interchangeable.                                                        *)
(***************************************************************************)
EXTENDS Employees, TLC

\* Bodies that name one column at most; an explicit null only in a plain one.
MCPatch ==
    {d \in Dto : \E c \in Column : \A b \in Column \ {c} : d[b] = Absent}
        \ {d \in Dto : \E c \in Unique : d[c] = Null}

Symmetry == Permutations(Request) \cup Permutations(Value)
=============================================================================
