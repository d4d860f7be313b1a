---------------------------- MODULE MCSearchBox ----------------------------
(***************************************************************************)
(* SearchBox for TLC: a field that is empty, holds a prefix with and       *)
(* without a blank, or a query; lists of different lengths.                *)
(***************************************************************************)
EXTENDS SearchBox

MCTexts == {"", "i", "i ", "ip"}
MCTrim == [text \in MCTexts |-> IF text = "i " THEN "i" ELSE text]
MCLists == {<<>>, <<"ip">>, <<"ip", "i">>}
============================================================================
