------------------------------ MODULE MCHeader -------------------------------
(***************************************************************************)
(* A small instance of Header: as in the code, the name of the rotate      *)
(* command is shorter than the cleared part of the body and the name of    *)
(* the depth test is longer.  Among the datagrams are both commands, a     *)
(* depth test cut short, an empty one and one that fills the buffer.       *)
(***************************************************************************)
EXTENDS Header

MCWidths == <<2, 2, 2, 1, 1, 1>>
MCRotateName == <<1, 2>>
MCDepthName == <<3, 2, 1, 3>>
MCDatagrams == {<<>>, <<1, 2>>, <<1, 2, 3>>, <<1>>, <<3, 2, 1, 3>>, <<3, 2, 1>>,
                <<2, 1, 2, 3, 3>>}
MCAddrs == {<<1, 3>>}
=============================================================================
