---------------------------- MODULE MCHttpServer ----------------------------
(***************************************************************************)
(* Instances of HttpServer for TLC: writes on one stream.                    *)
(***************************************************************************)
EXTENDS HttpServer

CONSTANT stream

MCOn == [w \in Writes |-> stream]
=============================================================================
