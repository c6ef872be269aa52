----------------------------- MODULE MCResolve -----------------------------
(***************************************************************************)
(* Sources of every kind over a pool of five datasets and a cluster of     *)
(* claims and snapshots in two namespaces.  Names are numbers; those over  *)
(* 100 are too long for a label and are cut, so that 121 and 122 are       *)
(* labelled alike.                                                         *)
(***************************************************************************)
EXTENDS Resolve

Tank == <<20>>
Home == <<20, 21>>
Pvc1 == <<20, 22>>
Pvc2 == <<20, 23>>
Stage == <<20, 24>>
Under == <<20, 24, 21>>
Docs == <<20, 21, 25>>
Mine == <<30>>

MCStaging == Stage
MCManaged == {Pvc1, Pvc2}
MCLogicalOf == (Home :> 6) @@ (Pvc1 :> 3) @@ (Pvc2 :> 9) @@ (Stage :> 1) @@ (Under :> 1) @@ (Docs :> 1)

Cut(n) == IF n < 100 THEN n ELSE n \div 10
MCSanitize ==
    [raw \in {<<x>> : x \in {Selector, 21, 22, 23, 24, 25, 30, 1, 2, 121, 122}} \cup {1, 11} \X {1} |->
       [i \in DOMAIN raw |-> Cut(raw[i])]]
MCTooLong == {<<11, <<122>>>>}

Snap(d, name, time, txg) == [ds |-> d, name |-> name, time |-> time, txg |-> txg]
Auto(n) == <<1, n>>
Csi(n) == <<2, n>>
MCLater == {Snap(Home, Auto(3), 2, 5)}

Pool(set, false) ==
    [local |-> set, forged |-> false,
     snaps |-> {Snap(Home, Auto(1), 1, 1), Snap(Home, Auto(2), 1, 2), Snap(Home, <<3>>, 2, 4),
                Snap(Pvc1, Csi(1), 1, 1), Snap(Pvc1, Csi(2), 2, 3), Snap(Pvc2, Csi(1), 1, 1)}]
Selected == Pool({Home, Docs, Under}, {Pvc1})
Fabricated == Pool({Pvc2}, {<<20, 29>>})

Claims(cs) == {[ns |-> c[1], name |-> c[2], ds |-> c[3], bound |-> TRUE, picked |-> c[4]] : c \in cs}
VS(ns, name, pvc, ds, snap, ready, time) ==
    [ns |-> ns, name |-> name, pvc |-> pvc, ds |-> ds, snap |-> snap, ready |-> ready, time |-> time]
One == VS(1, 1, 1, Pvc1, Csi(1), TRUE, 1)
Unready == [claims |-> Claims({<<1, 1, Pvc1, TRUE>>, <<11, 1, Pvc2, TRUE>>}),
            vsnaps |-> {One, VS(1, 2, 1, Pvc1, Csi(2), FALSE, 2), VS(11, 1, 1, Pvc2, Csi(1), TRUE, 1)}]
Alike == [claims |-> Claims({<<1, 121, Pvc1, TRUE>>, <<11, 122, Pvc2, TRUE>>, <<1, 2, Home, FALSE>>}),
          vsnaps |-> {One, VS(1, 2, 1, Pvc1, Csi(2), TRUE, 2), VS(11, 1, 2, Pvc2, Csi(1), TRUE, 1)}]
Unclaimed == [claims |-> {}, vsnaps |-> {VS(11, 2, 122, Pvc2, Csi(1), TRUE, 2), VS(1, 3, NoPVC, Pvc1, Csi(1), TRUE, 1)}]

Path(d, snap) == [kind |-> "path", ds |-> d, snap |-> snap]
Newer(d, prefix) == [kind |-> "newest", ds |-> d, prefix |-> prefix]
Property(under) == [kind |-> "property", under |-> under]
NamedClaim(ns, name, label) == [kind |-> "claim", ns |-> ns, name |-> name, label |-> label]
Group(newest) == [kind |-> "group", newest |-> newest]

Case(ss, pool, cluster) == [sources |-> ss, pool |-> pool, cluster |-> cluster]

MCCases == {
    Case(<<Property(Tank)>>, Selected, Unclaimed),
    Case(<<Property(Tank)>>, Fabricated, Unclaimed),
    Case(<<Newer(Home, <<1>>), Property(Home)>>, Selected, Unclaimed),
    Case(<<Path(Home, Live), Group(TRUE)>>, Selected, Unready),
    Case(<<Group(TRUE)>>, Selected, Alike),
    Case(<<Group(TRUE)>>, Selected, Unclaimed),
    Case(<<Group(FALSE)>>, Selected, Alike),
    Case(<<Group(FALSE)>>, Selected, Unclaimed),
    Case(<<[kind |-> "claimSelector"]>>, Selected, Unready),
    Case(<<[kind |-> "claimSelector"]>>, Selected, Alike),
    Case(<<NamedClaim(1, 1, <<>>), [kind |-> "snapshot", ns |-> 1, name |-> 2]>>, Selected, Unready),
    Case(<<NamedClaim(1, 1, Mine), NamedClaim(11, 1, <<>>), Path(Home, Auto(1)), Path(Pvc2, Live)>>, Selected, Unready) }
=============================================================================
