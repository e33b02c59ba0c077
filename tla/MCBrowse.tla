------------------------------ MODULE MCBrowse ------------------------------
(* Places for Browse: at the position asked for, at the edge of the radius, *)
(* in a corner of the box, and east of the box within the radius.           *)
EXTENDS Browse

MCOffsets == {<<0, 0>>, <<2, 0>>, <<2, -2>>, <<0, 3>>, <<3, 0>>}
=============================================================================
