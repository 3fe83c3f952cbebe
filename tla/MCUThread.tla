----------------------------- MODULE MCUThread -----------------------------
EXTENDS UThread

(* The program's three threads.                                            *)
Abc == <<"a", "b", "c">>
=============================================================================
