----------------------------- MODULE MCCtrlTask -----------------------------
(* Small instances of CtrlTask: lines longer than the line buffer, reads    *)
(* that cut a line anywhere.                                                *)
EXTENDS CtrlTask
=============================================================================
