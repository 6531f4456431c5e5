------------------------------- MODULE MCSync -------------------------------
(***************************************************************************)
(* Synchronisation: the downloader and the fetcher.  They share no state   *)
(* but the chain, of which each has its own view, so a behaviour is one of *)
(* one part; the other keeps its initial state.                            *)
(***************************************************************************)
EXTENDS Downloader, Fetcher

VARIABLE part

\* Downloader: a chain of up to three blocks.
MCScopes == {[peers |-> {"p1"}, height |-> 1, events |-> {"again", "bad"}],
             [peers |-> {"p1"}, height |-> 1, events |-> {"again", "late"}],
             [peers |-> {"p1"}, height |-> 2, events |-> {"bad"}],
             [peers |-> {"p1"}, height |-> 3, events |-> {"end"}],
             [peers |-> {"p1", "p2"}, height |-> 2, events |-> {"leave"}],
             [peers |-> {"p1", "p2"}, height |-> 2, events |-> {"late"}]}

\* Fetcher: two branches; b is lighter than c, and its parent x may be unknown.
MCPrev       == [g |-> "g", a |-> "g", x |-> "g", b |-> "x", c |-> "a"]
MCNumber     == [g |-> 0, a |-> 1, x |-> 1, b |-> 2, c |-> 2]
MCDifficulty == [g |-> 0, a |-> 2, x |-> 1, b |-> 3, c |-> 4]

syncVars == <<vars, fetchVars, part>>

Init ==
    /\ part \in {"download", "fetch"}
    /\ DownloadInit /\ FetcherInit
    /\ part # "download" => goal = 1 /\ events = {"start", "again", "late"}

Next ==
    \/ part = "download" /\ DownloadNext /\ UNCHANGED <<fetchVars, part>>
    \/ part = "fetch" /\ FetcherNext /\ UNCHANGED <<vars, part>>

Spec == Init /\ [][Next]_syncVars /\ DownloadFairness /\ FetcherFairness
=============================================================================
