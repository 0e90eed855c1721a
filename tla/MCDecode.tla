------------------------------ MODULE MCDecode ------------------------------
(* Instances of Decode for TLC.                                             *)
EXTENDS Decode

Blank  == [i \in 0..(ReportSize - 1) |-> 0]
Sample == [Blank EXCEPT ![0] = 151, ![3] = 2, ![4] = 1, ![6] = 4, ![8] = 1]
Echo   == [Blank EXCEPT ![0] = 48]

\* Values on both sides of every bound the code compares a byte with.
Edges == {<<0, 47>>, <<0, 63>>, <<0, 64>>, <<1, 1>>, <<2, 3>>, <<2, 4>>, <<37, 99>>, <<37, 100>>,
          <<37, 232>>, <<37, 233>>, <<3, 3>>, <<3, 4>>, <<4, 1>>, <<4, 4>>, <<4, 5>>, <<5, 4>>, <<5, 5>>,
          <<6, 11>>, <<6, 12>>, <<7, 1>>, <<7, 2>>, <<8, 2>>, <<8, 3>>,
          <<23, 1>>, <<24, 255>>, <<25, 1>>, <<26, 255>>}

\* Every base frame with up to two bytes moved to an edge.
Patched(base, edits) ==
  [i \in DOMAIN base |-> IF \E e \in edits : e[1] = i THEN (CHOOSE e \in edits : e[1] = i)[2] ELSE base[i]]
MCHeaders == {Patched(b, {e, f}) : b \in {Blank, Sample, Echo}, e \in Edges, f \in Edges} \cup {Blank, Sample, Echo}

\* Slots that start with every text of five NULs, controls, spaces or letters.
MCTexts == {[i \in 0..(ReportSize - 1) |-> IF i \in 40..44 THEN t[i - 39] ELSE 0] :
              t \in [1..5 -> {0, 7, 32, 65}]}

MCReports == MCHeaders \cup MCTexts
=============================================================================
