------------------------------ MODULE MCNames ------------------------------
(***************************************************************************)
(* Model checking of dotted names alone.                                   *)
(***************************************************************************)
EXTENDS Names

OwnColumns == ("a" :> 0) @@ ("b" :> 1) @@ ("1" :> 2)
SharedColumn == ("a" :> 0) @@ ("b" :> 0) @@ ("1" :> 2)
Numbers == "1" :> 1
=============================================================================
