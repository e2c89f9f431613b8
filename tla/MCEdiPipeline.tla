-------------------------- MODULE MCEdiPipeline --------------------------
(* Small instances of EdiPipeline.                                        *)
EXTENDS EdiPipeline

CONSTANTS o1
==========================================================================
