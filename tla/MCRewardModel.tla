--------------------------- MODULE MCRewardModel ---------------------------
(* RewardModel with the hyperparameter episodes absent, in order, reversed, repeated *)
(* and out of range.                                                                 *)
EXTENDS RewardModel

MCRequests == {<<>>, <<1>>, <<1, 0>>, <<0, 0>>, <<2>>, <<0, -1>>}
MCFrames == {-1, 1, 2, 3, 4, 6}
MCPoints == {-1, 2, 4, 5}
=============================================================================
