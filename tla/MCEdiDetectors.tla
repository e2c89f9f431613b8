-------------------------- MODULE MCEdiDetectors --------------------------
(* Small instances of EdiDetectors.                                        *)
EXTENDS EdiDetectors

CONSTANTS o1, o2
===========================================================================
