-------------------------- MODULE MCCascadePipeline --------------------------
(* CascadePipeline with a clock whose unit is a minute or more: a fault and  *)
(* its phases last a few ticks.                                              *)
EXTENDS CascadePipeline

MCSchedules == {<<0>>, <<4, 2>>}
=============================================================================
