------------------------------ MODULE MCMemoryLoop ------------------------------
(* Two matches of one machine, a second machine with a fact of its own, and    *)
(* answers of the LLM at and around the edges of the confidence scale.         *)
EXTENDS MemoryLoop, TLC

CONSTANTS a, b, f1, f2, g1, NotANumber

MCGroup == f1 :> a @@ f2 :> a @@ g1 :> b
MCMatchMachine == <<a, a>>
MCRetries == <<0, 1>>
MCAnswers == {[confidence |-> -10, anchors |-> 3],
              [confidence |-> 150, anchors |-> 0],
              [confidence |-> 70, anchors |-> 2],
              [confidence |-> NotANumber, anchors |-> 3]}
=============================================================================
