---------------------------- MODULE MCLabelReads ----------------------------
(***************************************************************************)
(* Small instances of LabelReads for TLC: pages of two labels.             *)
(***************************************************************************)
EXTENDS LabelReads, TLC

CONSTANTS a, b, c, d

Fresh == {<<>>, <<a>>, <<a, b>>, <<a, b, c>>}

OneLabel == {<<a>>}
=============================================================================
