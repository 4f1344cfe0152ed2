----------------------------- MODULE MCBroadcast -----------------------------
(***************************************************************************)
(* Cells of two units on a strip that reaches over the origin, two players *)
(* and two rooms of one worker.                                            *)
(***************************************************************************)
EXTENDS Broadcast

MCWorld == (-3 .. 2) \X (-1 .. 0)
MCSteps == {<<0, 0>>, <<1, 0>>, <<-1, 0>>, <<0, 1>>, <<0, -1>>}

=============================================================================
