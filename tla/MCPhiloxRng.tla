----------------------------- MODULE MCPhiloxRng -----------------------------
(* Two generators, of one event or of two; a counter word of one bit, so that *)
(* five draws of two words reach the wrap.                                  *)
EXTENDS PhiloxRng

MCEvents == {0, 1}
===============================================================================
