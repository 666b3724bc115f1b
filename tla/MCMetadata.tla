----------------------------- MODULE MCMetadata -----------------------------
(***************************************************************************)
(* Small instances of Metadata for TLC: two clients writing one file       *)
(* (fid 1) in stripes of two offsets over two metadata servers, and reads  *)
(* that hit one or two stripes.                                            *)
(***************************************************************************)
EXTENDS Metadata, TLC

CONSTANTS c1, c2

MCClients == {c1, c2}

\* c1 wrote offsets 0-1 at log address 0; c2 wrote 2-3 and then rewrote 0.
MCIndex ==
  (c1 :> << [fid |-> 1, pos |-> 0, mem |-> 0, len |-> 2] >>) @@
  (c2 :> << [fid |-> 1, pos |-> 2, mem |-> 0, len |-> 2],
            [fid |-> 1, pos |-> 0, mem |-> 2, len |-> 1] >>)

\* c1's write index holds one entry more than unifycr_keys has slots.
MCIndexLong ==
  (c1 :> << [fid |-> 1, pos |-> 0, mem |-> 0, len |-> 1],
            [fid |-> 1, pos |-> 1, mem |-> 1, len |-> 1],
            [fid |-> 1, pos |-> 2, mem |-> 2, len |-> 1] >>) @@
  (c2 :> << >>)

\* Each client created one file: gfid 1 and gfid 2.
MCAttrs == (c1 :> << 1 >>) @@ (c2 :> << 2 >>)

\* One request per batch, as MAX_META_PER_SEND = 2 leaves room for.
MCRequests ==
  { << [fid |-> 1, off |-> 0, len |-> 2] >>,
    << [fid |-> 1, off |-> 1, len |-> 3] >> }

\* A full batch of two requests, within MAX_META_PER_SEND = 2.
MCRequestsFull ==
  MCRequests \cup { << [fid |-> 1, off |-> 0, len |-> 1],
                       [fid |-> 1, off |-> 2, len |-> 2] >> }

\* What an earlier fsync of c1 and c2 left in the extent index.
MCInitExt ==
  { Entry("ext", [fid |-> 1, offset |-> 0], c1, 0, 2),
    Entry("ext", [fid |-> 1, offset |-> 2], c2, 0, 2) }

MCNoExt == {}

\* Three extents of fid 1 flushed before, more than msg_meta has slots:
\* c1 also wrote offset 1 on its own.
MCInitExtMany ==
  MCInitExt \cup { Entry("ext", [fid |-> 1, offset |-> 1], c1, 2, 1) }

\* One request over offsets 0-3 of fid 1, which covers all three.
MCRequestsWide == { << [fid |-> 1, off |-> 0, len |-> 4] >> }

\* An attribute get of a stored gfid and of one nobody created.
MCGfids == {1, 3}

MCNone == {}
MCFirst == {c1}
=============================================================================
