------------------------------ MODULE MCAntNet ------------------------------
(***************************************************************************)
(* Topologies on which AntNet is model-checked.                            *)
(***************************************************************************)
EXTENDS AntNetRefinement

\* 0 - 1 - 2: no loops, a dead end at each end.
LineNbr == (0 :> <<1>>) @@ (1 :> <<0, 2>>) @@ (2 :> <<1>>)

\* A triangle 0, 1, 2 with node 3 behind node 2: an ant for 3 can go round
\* the triangle as long as it lives.
PawNbr == (0 :> <<1, 2>>) @@ (1 :> <<0, 2>>) @@ (2 :> <<0, 1, 3>>) @@ (3 :> <<2>>)

\* A triangle 1, 2, 3 with tails 0 and 4: an ant between the tails closes
\* loops that do not pass its source, an ant from 1 or 2 loops that do.
BullNbr == (0 :> <<1>>) @@ (1 :> <<0, 2, 3>>) @@ (2 :> <<1, 3>>)
             @@ (3 :> <<1, 2, 4>>) @@ (4 :> <<3>>)

\* 0 - 1.
PairNbr == (0 :> <<1>>) @@ (1 :> <<0>>)

\* 0 - 1, with node 2 still isolated; the link that joins it, and the first
\* link a second time.
SplitNbr == (0 :> <<1>>) @@ (1 :> <<0>>) @@ (2 :> <<>>)
JoiningLinks == {<<1, 2>>, <<0, 1>>}

\* A triangle.
TriangleNbr == (0 :> <<1, 2>>) @@ (1 :> <<0, 2>>) @@ (2 :> <<0, 1>>)
=============================================================================
