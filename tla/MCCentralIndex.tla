--------------------------- MODULE MCCentralIndex ---------------------------
(* An instance of CentralIndex: three handlers, two clients, two numbers. *)
EXTENDS CentralIndex

\* Two clients of one host, as the README's example starts them.
First == [host |-> 1, port |-> 1]
Second == [host |-> 1, port |-> 2]

\* The second connection gives the name of the first, as a client does that
\* quits and reconnects while its old handler has not run yet; the third has
\* a name of its own.
SharedPeers ==
  [h \in {"h1", "h2", "h3"} |-> IF h = "h3" THEN Second ELSE First]
=============================================================================
