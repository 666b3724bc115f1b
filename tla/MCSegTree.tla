------------------------------ MODULE MCSegTree -----------------------------
(* Small instances of SegTree for TLC.                                    *)
EXTENDS SegTree

CONSTANTS t1, t2

MCThreads == {t1, t2}

\* W = 3: offsets and pointers are 0..7.  The passing runs keep ends below
\* 7 = 2^W - 1; the run on the top offset includes it.
MCOffsetsLow == {0, 2, 3, 5}
MCOffsetsAll == 0 .. 7
MCPtrs == {0, 5}
=============================================================================
