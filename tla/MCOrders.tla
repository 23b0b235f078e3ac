------------------------------ MODULE MCOrders ------------------------------
(* TLC instances of module Orders.  The ids of each kind are interchangeable *)
(* unless a station tells lines apart.                                       *)
EXTENDS Orders, TLC

OneStation == [l \in Lines |-> CHOOSE s \in Stations : TRUE]
\* Every station cooks something.
EachStation == CHOOSE f \in [Lines -> Stations] :
                    \A s \in Stations : \E l \in Lines : f[l] = s

Symmetry == UNION {Permutations(Orders), Permutations(Tables),
                   Permutations(Lines), Permutations(Kots),
                   Permutations(Workers), Permutations(Crons)}
=============================================================================
