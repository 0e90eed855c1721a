------------------------------ MODULE Versions ------------------------------
(***************************************************************************)
(* Version texts and their order (internal/update/update.go, "pure logic"). *)
(* A text is what DisplayVersion leaves of it, without spaces and leading v, *)
(* split at "-" into pieces and these at "." into words: 1.0-rc.1 is         *)
(* <<<<"1","0">>, <<"rc","1">>>>.  What a word says is given by constants.  *)
(***************************************************************************)
EXTENDS Integers, Sequences, FiniteSetsExt, SequencesExt

CONSTANTS
  NumberOf,   \* [all-digit words -> Nat]
  Ascii,      \* [other words -> Nat]: their order under strings.Compare
  Hashes,     \* words "g" followed by four or more hex digits
  DevWords,   \* words that contain "dev" in any case
  MaxInt      \* where an absurdly long number saturates

ASSUME WordConstants ==
  /\ \A word \in DOMAIN NumberOf : NumberOf[word] \in Nat
  /\ \A word \in DOMAIN Ascii : Ascii[word] \in Nat
  /\ MaxInt \in Nat

IsNumber(word) == word \in DOMAIN NumberOf
Digits(word) == Min({NumberOf[word], MaxInt})

\* -1, 0 or 1, as Go's cmp.Compare.
Cmp(x, y) == IF x < y THEN -1 ELSE IF x > y THEN 1 ELSE 0

\* The first of a sequence of comparisons that is not a tie.
FirstOf(results) ==
  LET decisive == {i \in DOMAIN results : results[i] # 0}
  IN  IF decisive = {} THEN 0 ELSE results[Min(decisive)]

-----------------------------------------------------------------------------
(* ParseVersion.                                                            *)

Unparsed == [core |-> <<>>, pre |-> <<>>, ahead |-> 0]

\* A trailing -dirty does not count.
Clean(text) ==
  IF Len(text) > 1 /\ Last(text) = <<"dirty">> THEN Front(text) ELSE text

\* The tail -<commits>-g<hash> that git describe appends after a tag.
HasDescribeTail(text) ==
  /\ Len(text) > 2
  /\ Len(Last(text)) = 1 /\ Last(text)[1] \in Hashes
  /\ Len(text[Len(text) - 1]) = 1 /\ IsNumber(text[Len(text) - 1][1])

\* Only the first "-" splits: a later one is part of a pre-release word.
Rejoined(p, q) == Front(p) \o <<Last(p) \o "-" \o Head(q)>> \o Tail(q)

ParseVersion(text) ==
  LET clean == Clean(text)
      ahead == HasDescribeTail(clean)
      tag   == IF ahead THEN SubSeq(clean, 1, Len(clean) - 2) ELSE clean
      core  == tag[1]
  IN  IF \E i \in DOMAIN core : ~IsNumber(core[i]) THEN Unparsed
      ELSE [core  |-> [i \in DOMAIN core |-> Digits(core[i])],
            pre   |-> IF Len(tag) = 1 THEN <<>>
                      ELSE FoldLeft(Rejoined, tag[2], SubSeq(tag, 3, Len(tag))),
            ahead |-> IF ahead THEN Digits(clean[Len(clean) - 1][1]) ELSE 0]

-----------------------------------------------------------------------------
(* Compare.                                                                 *)

\* Missing parts count as 0.
At(xs, i) == IF i <= Len(xs) THEN xs[i] ELSE 0

\* Fault: numbers compare as text.
ComparePreIDAsText(x, y) ==
  LET order(w) == IF IsNumber(w) THEN NumberOf[w] % 10 ELSE 10 + Ascii[w]
  IN  Cmp(order(x), order(y))

\* Numbers before words, numbers by value, words by their characters.
ComparePreID(x, y) ==
  CASE IsNumber(x) /\ IsNumber(y)   -> Cmp(Digits(x), Digits(y))
    [] IsNumber(x) /\ ~IsNumber(y)  -> -1
    [] ~IsNumber(x) /\ IsNumber(y)  -> 1
    [] ~IsNumber(x) /\ ~IsNumber(y) -> Cmp(Ascii[x], Ascii[y])

\* A pre-release sits below its release.
CompareRelease(a, b) ==
  Cmp(IF a.pre = <<>> THEN 1 ELSE 0, IF b.pre = <<>> THEN 1 ELSE 0)

Compare(a, b) ==
  FirstOf(<<FirstOf([i \in 1..Max({Len(a.core), Len(b.core)}) |-> Cmp(At(a.core, i), At(b.core, i))]),
            CompareRelease(a, b),
            FirstOf([i \in 1..Min({Len(a.pre), Len(b.pre)}) |-> ComparePreID(a.pre[i], b.pre[i])]),
            Cmp(Len(a.pre), Len(b.pre)),
            Cmp(a.ahead, b.ahead)>>)

\* A version without a numeric core cannot be compared.
IsNewer(candidate, current) ==
  LET a == ParseVersion(candidate)
      b == ParseVersion(current)
  IN  a.core # <<>> /\ b.core # <<>> /\ Compare(a, b) > 0

IsDevVersion(text) ==
  \E i \in DOMAIN text : \E j \in DOMAIN text[i] : text[i][j] \in DevWords
=============================================================================
