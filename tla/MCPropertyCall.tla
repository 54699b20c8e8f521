-------------------------- MODULE MCPropertyCall --------------------------
(* Two addresses, with the message of the frame buffer or the board and    *)
(* with that of the clock.                                                 *)
EXTENDS PropertyCall

CONSTANTS b1, b2

MCBuffers == {b1, b2}
MCCallers == {[b \in MCBuffers |-> IF b = b1 THEN m ELSE "clock"] :
                m \in {"framebuffer", "board"}}
=============================================================================
