--------------------------- MODULE MCIndexSession ---------------------------
(* Instances of IndexSession. *)
EXTENDS IndexSession

First == [host |-> 1, port |-> 1]
Second == [host |-> 1, port |-> 2]

\* Two clients, each with one file of its own.
TwoPeers == [s \in {"s1", "s2"} |-> IF s = "s1" THEN First ELSE Second]
OneFileEach == [s \in {"s1", "s2"} |-> IF s = "s1" THEN <<1>> ELSE <<2>>]
SameVersion == [s \in {"s1", "s2"} |-> 1]
NoRestart == [s \in {"s1", "s2"} |-> None]

\* A client that is started again on its directory, then with a program of
\* another version, and at last with no text for its host.
Runs == {"old", "blank", "s1", "s1b"}
Restarted == [s \in Runs |-> IF s = "blank" THEN [host |-> NoHost, port |-> 1] ELSE First]
OldVersion == [s \in Runs |-> IF s = "old" THEN 2 ELSE 1]
FileOfFirst == [s \in Runs |-> <<1>>]
AfterFirst == [s \in Runs |->
  CASE s = "s1" -> None [] s = "s1b" -> "s1" [] s = "old" -> "s1b" [] s = "blank" -> "old"]

\* A client that is started again, alone.
RestartedPeers == [s \in {"s1", "s1b"} |-> First]
RestartedVersions == [s \in {"s1", "s1b"} |-> 1]
RestartedFiles == [s \in {"s1", "s1b"} |-> <<1>>]
RestartAfter == [s \in {"s1", "s1b"} |-> IF s = "s1b" THEN "s1" ELSE None]
=============================================================================
