--------------------------- MODULE MCChildDelivery ---------------------------
(* Instances of ChildDelivery for TLC; jobs are ordered, so no symmetry.    *)
EXTENDS ChildDelivery

FirstChild == {1}
ChildAndParent == {1, Parent}
==============================================================================
