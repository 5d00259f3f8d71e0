--------------------------- MODULE MCHostResolver ---------------------------
(***************************************************************************)
(* An instance of HostResolver for TLC: two threads, two hosts, and pools  *)
(* for both threads or, with one leaked, for one of them.                  *)
(***************************************************************************)
EXTENDS HostResolver, TLC

CONSTANTS t1, t2, h1, h2, a1, a2, p1, p2

MCResolves == h1 :> a1 @@ h2 :> a2

\* Exchanges the two hosts together with their addresses, which keeps Resolves.
Exchange == h1 :> h2 @@ h2 :> h1 @@ a1 :> a2 @@ a2 :> a1
Same == [v \in {h1, h2, a1, a2} |-> v]

\* The pools are interchangeable, and so are the hosts with their addresses.
MCSymmetry == {p @@ h : p \in Permutations({p1, p2}), h \in {Same, Exchange}}
=============================================================================
