--------------------------- MODULE MCSocketReader ---------------------------
(* A small instance of SocketReader for TLC: an empty body, and one that     *)
(* looks like the beginning of a message.                                    *)
EXTENDS SocketReader

MCBodies == {<<>>, <<90, 0, 0, 0, 4, 68>>}
=============================================================================
