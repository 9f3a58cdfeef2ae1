------------------------------ MODULE MCStartUp ------------------------------
(***************************************************************************)
(* The start of three servers by the script, with one retry and one server *)
(* that may exit, and a query of three exchanges over the EMP connections: *)
(* vectors that do not fit the buffers and vectors that do.                *)
(***************************************************************************)
EXTENDS EmpExchange

MCSize == [r \in 1 .. Rounds |-> IF r = 2 THEN 1 ELSE 3]

=============================================================================
