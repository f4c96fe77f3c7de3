----------------------------- MODULE MCRLPCodec -----------------------------
\* Instances of RLPCodec for TLC: items around every boundary of the encoding.
EXTENDS RLPCodec

Repeat(n) == [i \in 1..n |-> (7 * i) % 256]

MCByteStrings ==
  {<<>>, <<0>>, <<127>>, <<129>>, <<255>>, <<128, 0>>} \cup {Repeat(n) : n \in {54, 55, 56, 255, 256}}
MCWords == {1, 127, 129, 255, 256, 65535}

MCSingleBytes == {<<b>> : b \in {1, 127, 128, 129}}
MCNoWords == {}

=============================================================================
