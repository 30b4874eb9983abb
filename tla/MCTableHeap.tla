----------------------------- MODULE MCTableHeap -----------------------------
(* Instances of TableHeap for TLC. *)
EXTENDS TableHeap, TLC

\* A small and a large tuple, of which a page holds one, and one that is too
\* large for any page.
TupleSize == ("s" :> 1) @@ ("l" :> 2) @@ ("x" :> 3)

\* Small tuples, of which a page holds two, and a large one, which has a page to
\* itself: an update from one to the other is refused in a page of two.
TwoPerPage == ("s" :> 1) @@ ("l" :> 3)
=============================================================================
