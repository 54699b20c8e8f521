---------------------------- MODULE MCEmmcHost ----------------------------
(* EmmcHost on small instances: see the .cfg files.                        *)
EXTENDS EmmcHost
LinesFreed == {"free"}
LinesAny   == {"free", "stuck"}
=============================================================================
