---------------------------- MODULE MCPortFrames ----------------------------
(* Bytes with two values: a frame holds up to three of them. *)
EXTENDS PortFrames

\* A command of one byte, and one that looks like the beginning of a frame.
MCCommands == {<<1>>, <<0, 1>>}

\* An answer that fits; one whose length is taken for 0; one that is cut after
\* its first byte and leaves four that look like frames.
MCAnswers == {<<0, 1>>, <<1, 0, 0, 1>>, <<1, 0, 1, 1, 0>>}
=============================================================================
