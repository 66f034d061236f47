----------------------------- MODULE MCSocketIO -----------------------------
(* Instances of SocketIO. *)
EXTENDS SocketIO

\* A number, an empty string and a longer one.
ThreeFrames == <<2, 0, 3>>
=============================================================================
