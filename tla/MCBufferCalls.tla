---------------------------- MODULE MCBufferCalls ----------------------------
(* A small Buffer for TLC: two cells in front, three behind, strings of up to *)
(* three bytes.                                                               *)
EXTENDS BufferCalls

(* Both sides of the limits of the three widths.                              *)
SampleInts == {-2147483647 - 1, -40000, -129, -128, -2, 0, 127, 128, 32767, 32768,
               2147483647}

ShortStrings == {<<>>, <<1>>, <<1, 2>>, <<2, 1, 1>>}

=============================================================================
