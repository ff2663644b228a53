---------------------------- MODULE MCSiteSetup ----------------------------
(***************************************************************************)
(* Small instances of SiteSetup.                                           *)
(*                                                                         *)
(* Levels: a plant with an area, a machine with two components, and a card *)
(* on one.  People: one user of the second site, and one of both sites.    *)
(* Catalogs: an entry of each kind.  Positions: three of a site.           *)
(***************************************************************************)
EXTENDS SiteSetup

CONSTANTS s1, s2, m1, r1, r2, e1, e2, e3, d1, d2, d3, v1, v2, u1

User(email, site, digest) == [email |-> email, site |-> site, home |-> site, digest |-> digest]
TwoUsers == <<User(e1, s2, d1), User(e2, s1, d2)>>
TheirPosts == <<s1 :> 0 @@ s2 :> 1, s1 :> 1 @@ s2 :> 1>>

Row(superior, level, machine) ==
    [site |-> s1, superior |-> superior, level |-> level, status |-> "A", deleted |-> FALSE,
     machine |-> machine]
Plant == <<Row(0, 0, Nothing), Row(1, 1, m1), Row(2, 2, Nothing)>>
ItsCards == {[node |-> 3, area |-> 1, superior |-> 2, level |-> 2, path |-> <<1, 2, 3>>]}

Entry(kind, of) == [kind |-> kind, of |-> of, value |-> v1, active |-> TRUE, stamp |-> 0]
OfEachKind == <<Entry("type", Nothing), Entry("preclassifier", 1), Entry("priority", Nothing)>>

ThreePositions == [p \in 1 .. 3 |-> [site |-> s1, order |-> p]]

\* Of three requests that change levels the last runs alone, and behaviours are
\* followed until a level is torn.
FirstTear ==
    /\ torn = {} \/ Tree!Running = {}
    /\ subject = "levels" /\ calls > MaxCalls => Cardinality(Tree!Running) <= 1

Symmetry == Permutations(Requests)
=============================================================================
