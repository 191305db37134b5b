---------------------------- MODULE MCWSSession ----------------------------
(* WSSession on small sets of streams.  The module has no counters: the    *)
(* number of requests, reconnects and failures is unbounded in every run.  *)
EXTENDS WSSession

CONSTANTS s1, s2, s3

TwoStreams   == {s1, s2}
ThreeStreams == {s1, s2, s3}
=============================================================================
