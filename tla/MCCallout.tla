------------------------------ MODULE MCCallout ------------------------------
(* Two functions in a table of three slots, intervals of up to three ticks, *)
(* and softclock up to two ticks late.                                      *)
EXTENDS Callout

==============================================================================
