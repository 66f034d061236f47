--------------------------- MODULE MCPeerTransfer ---------------------------
(***************************************************************************)
(* Values of the constants of PeerTransfer for TLC: three clients, of      *)
(* which the first has most of the files and the second may be short of    *)
(* descriptors.                                                            *)
(***************************************************************************)
EXTENDS PeerTransfer

MCNodes == 1..3
MCFetches == {"f1", "f2"}
MCBy == [f1 |-> 2, f2 |-> 3]
MCAsks == [f1 |-> {1, 2}, f2 |-> {1, 2, 6, 7, 8, 9, 40000, 65537}]

\* A file for each thing that can be wrong with one: 8 has a zero and 9 a byte
\* that reads as the end; the other two have numbers that are no shorts.
MCFiles ==
  << (1 :> <<"a", "b">>) @@ (2 :> <<"c", "d">>) @@ (8 :> <<"e", "nul">>)
       @@ (9 :> <<"ff">>) @@ (40000 :> <<"h">>) @@ (65537 :> <<"i">>),
     (6 :> <<"j">>),
     [k \in {} |-> <<>>] >>
MCOthers == <<{7}, {}, {}>>

\* The second client had the second file in an earlier run.
MCStale == [k \in Numbers |-> IF k = 2 THEN {2} ELSE {}]
MCLimits == {<<4, 2, 4>>, <<4, 4, 4>>}
\* The first client quits, which leaves its files to those that have copies, or the
\* second, which may be back before the index has forgotten it.
MCQuitting == {{1}, {2}}

\* The second client is started again.
MCRestarting == {2}
NoRestart == {}
NoneStale == [k \in Numbers |-> {}]
CutLimits == {<<4, 4, 4>>}

\* One client gets a file with a byte of 255 in it from another.
CutFetches == {"f1"}
CutBy == [f1 |-> 2]
CutAsks == [f1 |-> {1, 9}]
=============================================================================
