---- MODULE MCFanOut ----
(***************************************************************************)
(* FanOut for TLC.  A document that is over matters to no create, whoever  *)
(* is in it: one stands for all of them.                                   *)
(***************************************************************************)
EXTENDS FanOut

CONSTANTS mine, public, private

MCDocs == [status : {"open"}, member : BOOLEAN] \union [status : {"over"}, member : {TRUE}]
====
