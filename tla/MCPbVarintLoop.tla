-------------------------- MODULE MCPbVarintLoop ---------------------------
(* Streams of up to twelve bytes; at each position the bytes at which the  *)
(* readers change their mind there.                                        *)
EXTENDS PbVarintLoop

\* Plain digits, with and without a byte to follow.
Plain == {1, 128, 255}
\* The fifth byte: four bits fit, more do not, with and without a successor.
Fifth == {0, 8, 15, 16, 127, 128, 136, 144, 240, 255}
\* Bytes that are padding, sign extension, or neither.
Sixth == {0, 1, 127, 128, 129, 255}

MCBytes == <<{0, 1, 128, 255}, Plain, {1, 255}, {0, 128}, Fifth,
             Sixth, {0, 127, 128, 255}, {128, 255}, {1, 128, 255},
             {0, 1, 2, 127, 128, 255}, {0, 1, 128}, {0, 128}>>
=============================================================================
