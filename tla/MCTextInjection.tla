--------------------------- MODULE MCTextInjection --------------------------
(* TextInjection with texts that hold every class of character.             *)
EXTENDS TextInjection, TLC

TwoPhones == "p1" :> << <<"CR", "LF", "x">>, <<"x">>, <<"x", "x", "x", "x">> >>
          @@ "p2" :> << <<"x", "CTL", "CR">>, <<>> >>
=============================================================================
