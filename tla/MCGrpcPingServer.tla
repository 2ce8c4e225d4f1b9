--------------------------- MODULE MCGrpcPingServer ---------------------------
(* Small instances of GrpcPingServer.                                      *)
EXTENDS GrpcPingServer

CONSTANTS w1, w2

MCWorkers == {w1, w2}
=============================================================================
