------------------------------ MODULE MCEngine ------------------------------
(* A small instance of Engine: windows on both sides of four hours, and       *)
(* replies of up to three codes, enough to pass 100.                          *)
EXTENDS Engine

MCLiveness == {0, 7200, 14400, 86400}
=============================================================================
