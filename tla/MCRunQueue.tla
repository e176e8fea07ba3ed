----------------------------- MODULE MCRunQueue -----------------------------
(***************************************************************************)
(* Two CPUs with rings of four slots and counters that start two below the *)
(* value at which they wrap: a full ring beside an empty one, with threads *)
(* waiting or in the global queue; two nearly full rings; or only `next'   *)
(* of the first CPU taken.                                                 *)
(***************************************************************************)
EXTENDS RunQueue, TLC

CONSTANTS c1, c2, t1, t2, t3, t4, t5, t6, t7, t8

MCPlacements ==
    LET Place(r1, r2, n1, g, w) == [ring |-> c1 :> r1 @@ c2 :> r2, next |-> c1 :> n1 @@ c2 :> None,
                                    current |-> c1 :> t1 @@ c2 :> t2, global |-> g, waiting |-> w]
    IN  {Place(<<t3, t4, t5, t6>>, << >>, None, << >>, {t7}),
         Place(<<t3, t4, t5, t6>>, << >>, None, <<t7, t8>>, {}),
         Place(<<t3, t4, t5>>, <<t6, t7, t8>>, None, << >>, {}),
         Place(<< >>, << >>, t3, << >>, {t4})}
=============================================================================
