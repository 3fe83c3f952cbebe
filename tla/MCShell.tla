------------------------------ MODULE MCShell ------------------------------
EXTENDS ShellLine

(* All short lines.                                                        *)
ShortTexts == UNION {[1 .. k -> Symbols] : k \in 0 .. 5}

(*   w | w | w      w > w | w < w      ( w ; w ) | w     w ; w | w         *)
(*   w & ; w        ( w | w ) &        w w w w           w | ; w ) w       *)
(*   ( w & ) | w                                                           *)
Examples == {
  <<"w", "|", "w", "|", "w">>,
  <<"w", ">", "w", "|", "w", "<", "w">>,
  <<"(", "w", ";", "w", ")", "|", "w">>,
  <<"w", ";", "w", "|", "w">>,
  <<"w", "&", ";", "w">>,
  <<"(", "w", "|", "w", ")", "&">>,
  <<"(", "w", "&", ")", "|", "w">>,
  <<"w", "w", "w", "w">>,
  <<"w", "|", ";", "w", ")", "w">>}
=============================================================================
