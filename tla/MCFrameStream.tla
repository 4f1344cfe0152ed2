--------------------------- MODULE MCFrameStream ---------------------------
(***************************************************************************)
(* FrameStream for TLC.                                                    *)
(***************************************************************************)
EXTENDS FrameStream

\* A frame without a payload and one with the longest.
TwoFrames ==
  {[id |-> 1, flags |-> 0, seq |-> 6, payload |-> <<>>],
   [id |-> 2, flags |-> 0, seq |-> 9, payload |-> <<1, 2>>]}

\* One below the shortest frame, one above the longest.
EdgeLengths == {kHeaderSize - 1, kHeaderSize + kMaxPayload + 1}

OneResponse == {<<1, 2>>}

=============================================================================
