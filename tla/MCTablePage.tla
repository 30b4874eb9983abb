------------------------------ MODULE MCTablePage ------------------------------
(* The instance of TablePage for TLC: tuples of one, two and three bytes. *)
EXTENDS TablePage

SmallTuples == {<<"a">>, <<"b", "c">>, <<"d", "e", "d">>}
=============================================================================
