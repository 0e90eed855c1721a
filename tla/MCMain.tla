------------------------------- MODULE MCMain -------------------------------
(* Instances of Main for TLC: release tags that meet at the edges of the    *)
(* order, under three versions: past a tag, a development build, unreadable. *)
EXTENDS Main

RC9      == <<<<"1", "0">>, <<"rc", "9">>>>
RC10     == <<<<"1", "0", "0">>, <<"rc", "10">>>>
RC9Ahead == <<<<"1", "0">>, <<"rc", "9">>, <<"5">>, <<"gab12">>, <<"dirty">>>>
Dev      == <<<<"1", "0">>, <<"DEV">>>>
Nightly  == <<<<"nightly">>>>

MCTags     == {RC9, RC10, Nightly}
MCRunning  == {RC9Ahead, Dev, Nightly}
MCRank     == Nightly :> 0 @@ Dev :> 1 @@ RC9 :> 2 @@ RC9Ahead :> 3 @@ RC10 :> 4
MCNumberOf == "0" :> 0 @@ "1" :> 1 @@ "5" :> 5 @@ "9" :> 9 @@ "10" :> 10
MCAscii    == "DEV" :> 0 @@ "dirty" :> 1 @@ "gab12" :> 2 @@ "nightly" :> 3 @@ "rc" :> 4
MCHashes   == {"gab12"}
MCDevWords == {"DEV"}
MCLevels   == {-4, 8}
=============================================================================
