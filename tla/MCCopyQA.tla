------------------------------ MODULE MCCopyQA ------------------------------
(* Small instances of CopyQA for TLC.                                        *)
EXTENDS CopyQA, TLC

CONSTANTS c1, c2, a1, a2

=============================================================================
