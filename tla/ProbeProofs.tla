---------------------------- MODULE ProbeProofs -----------------------------
(***************************************************************************)
(* probe -samples keeps its promises, for any meter state, any targets, any  *)
(* number of channels and ranges, and any budgets that cover a turn of a    *)
(* key.  The argument: while nothing disturbs the line at most one answer    *)
(* is on its way, so that a state that is read is the meter's own; the plan  *)
(* keeps its shape as goals are taken off it; and every press brings the    *)
(* meter nearer to the goal, unless a fault made the probe press past it.   *)
(***************************************************************************)
EXTENDS Probe, TLAPS

MeterStates == [page : 1..PageCount, channel : 0..ChannelCount, range : 0..RangeCount]
Readings    == MeterStates \cup {Other}
Goals       == [kind : {"learn", "page", "channel", "range", "sweep"}, target : Int]

Types ==
  /\ meter \in MeterStates /\ original \in MeterStates \cup {NoSnapshot}
  /\ wire \in Seq(Readings) /\ reads \in Seq(Readings \cup {Gone})
  /\ plan \in Seq(Goals)
  /\ pc \in {"poll", "await", "press", "drain", "write", "answer"}
  /\ step \in Nat /\ tries \in Nat /\ faults \in Nat
  /\ targetChannel \in 0..ChannelCount /\ targetRange \in None..RangeCount
  /\ cycleModes \in BOOLEAN

\* A state the meter can be in is none of the readings that say nothing.
LEMMA Readable ==
  /\ \A m \in MeterStates :
       /\ m.page \in 1..PageCount /\ m.channel \in 0..ChannelCount /\ m.range \in 0..RangeCount
       /\ m # Other /\ m # Gone /\ m # NoSnapshot
  /\ Other # Gone
<1>1. Other.page = -1 /\ Gone.page = -2 /\ NoSnapshot.page = 0
  BY DEF Other, Gone, NoSnapshot, None
<1>2. \A m \in MeterStates : m.page \in 1..PageCount /\ m.channel \in 0..ChannelCount /\ m.range \in 0..RangeCount
  BY DEF MeterStates
<1> QED
  BY <1>1, <1>2

\* A sequence without its head.
LEMMA Rest ==
  ASSUME NEW S, NEW q \in Seq(S), q # <<>>
  PROVE  /\ Head(q) = q[1] /\ Head(q) \in S /\ Len(q) \in Nat /\ Len(q) >= 1
         /\ Tail(q) \in Seq(S) /\ Len(Tail(q)) = Len(q) - 1
         /\ \A i \in 1..Len(Tail(q)) : i + 1 \in 1..Len(q) /\ Tail(q)[i] = q[i + 1]
         /\ (Tail(q) = <<>> <=> Len(q) = 1)
<1>1. /\ Head(q) = q[1] /\ Head(q) \in S /\ Len(q) \in Nat /\ Len(q) >= 1
      /\ Tail(q) \in Seq(S) /\ Len(Tail(q)) = Len(q) - 1
  OBVIOUS
<1>2. \A i \in 1..Len(Tail(q)) : i + 1 \in 1..Len(q) /\ Tail(q)[i] = q[i + 1]
  BY <1>1
<1>3. Tail(q) = <<>> <=> Len(Tail(q)) = 0
  BY <1>1
<1> QED
  BY <1>1, <1>2, <1>3

\* What an OUT report does to the meter and the line.
LEMMA Sent ==
  ASSUME Types, NEW next \in MeterStates, NEW r \in Readings, Sends(next, r)
  PROVE  /\ meter' \in MeterStates /\ wire' \in Seq(Readings)
         /\ meter' \in {meter, next} /\ faults' \in Nat /\ faults' >= faults
         /\ plugged /\ pumping =>
              \/ meter' = next /\ wire' = Append(wire, r) /\ faults' = faults
              \/ wire' = wire /\ faults' = faults + 1
<1>1. meter \in MeterStates /\ wire \in Seq(Readings) /\ faults \in Nat
  BY DEF Types
<1>2. Append(wire, r) \in Seq(Readings)
  BY <1>1
<1>3. /\ meter' \in {meter, next}
      /\ wire' \in {wire, Append(wire, r)} /\ faults' \in {faults, faults + 1}
  BY DEF Sends, Fault
<1>4. plugged /\ pumping =>
        \/ meter' = next /\ wire' = Append(wire, r) /\ faults' = faults
        \/ wire' = wire /\ faults' = faults + 1
  BY DEF Sends, Fault
<1> QED
  BY <1>1, <1>2, <1>3, <1>4

\* One turn of a cycle of n + 1 states.
LEMMA Turn ==
  ASSUME NEW n \in Nat, NEW c \in 0..n
  PROVE  (c + 1) % (n + 1) = IF c = n THEN 0 ELSE c + 1
<1>1. CASE c = n
  BY <1>1
<1>2. CASE c # n
  <2>1. c + 1 \in 0..n /\ n + 1 \in Nat /\ n + 1 > 0 /\ c + 1 < n + 1
    BY <1>2
  <2> QED
    BY <1>2, <2>1
<1> QED
  BY <1>1, <1>2

-----------------------------------------------------------------------------
(* The shape of a plan.                                                     *)

GoalOK(g) ==
  \/ g.kind = "page" /\ g.target \in 1..PageCount
  \/ g.kind = "channel" /\ g.target = targetChannel /\ targetChannel > 0
  \/ g.kind = "range" /\ g.target = targetRange /\ targetRange # None
  \/ g.kind = "sweep" /\ (g.target # 0 => cycleModes)

\* Channel and range are set once each, in this order, on the power page, and
\* before the sweeps.
Before(g, h) ==
  h.kind \in {"channel", "range"} =>
    /\ g.kind \in {"page", "channel"} /\ g.kind # h.kind
    /\ g.kind = "page" => g.target = PowerSwr

\* The sweep of a page follows the goal of reaching it.
Follows(g, h) == h.kind = "sweep" /\ h.target # 0 => g = Goal("page", h.target)

Shaped(p) ==
  /\ \A i \in 1..Len(p) : GoalOK(p[i])
  /\ \A i, j \in 1..Len(p) : i < j => Before(p[i], p[j])
  /\ \A i, j \in 1..Len(p) : j = i + 1 => Follows(p[i], p[j])

LEMMA ShapedTail ==
  ASSUME NEW p \in Seq(Goals), p # <<>>, Shaped(p)
  PROVE  Shaped(Tail(p))
<1>1. \A i \in 1..Len(Tail(p)) : i + 1 \in 1..Len(p) /\ Tail(p)[i] = p[i + 1]
  BY Rest
<1>2. \A i \in 1..Len(Tail(p)) : i \in Int
  BY Rest
<1> QED
  BY <1>1, <1>2 DEF Shaped

\* Two parts of a plan fit together when every goal of the first may stand
\* before every goal of the second, and the second starts with no sweep of a
\* page, or the first ends with its page.
LEMMA ShapedJoin ==
  ASSUME NEW p \in Seq(Goals), NEW q \in Seq(Goals), Shaped(p), Shaped(q),
         \A i \in 1..Len(p), j \in 1..Len(q) : Before(p[i], q[j]),
         p # <<>> /\ q # <<>> => Follows(p[Len(p)], q[1])
  PROVE  p \o q \in Seq(Goals) /\ Shaped(p \o q)
<1> DEFINE r == p \o q  m == Len(p)  n == Len(q)
<1>1. /\ r \in Seq(Goals) /\ m \in Nat /\ n \in Nat /\ Len(r) = m + n
      /\ \A i \in 1..m : r[i] = p[i]
      /\ \A i \in (m + 1)..(m + n) : r[i] = q[i - m] /\ i - m \in 1..n
  OBVIOUS
<1> HIDE DEF r
<1>2. \A i \in 1..Len(r) : (i \in 1..m /\ r[i] = p[i]) \/ (i > m /\ i - m \in 1..n /\ r[i] = q[i - m])
  BY <1>1
<1>3. \A i \in 1..Len(r) : GoalOK(r[i])
  BY <1>2 DEF Shaped
<1>4. ASSUME NEW i \in 1..Len(r), NEW j \in 1..Len(r), i < j
      PROVE  Before(r[i], r[j])
  <2>1. CASE j \in 1..m
    BY <1>1, <1>2, <1>4, <2>1 DEF Shaped
  <2>2. CASE i \in 1..m /\ j > m
    <3>1. r[i] = p[i]
      BY <1>1, <2>2
    <3>2. j - m \in 1..n /\ r[j] = q[j - m]
      BY <1>1, <1>2, <2>2
    <3> QED
      BY <2>2, <3>1, <3>2
  <2>3. CASE i > m
    <3>1. i - m \in 1..n /\ j - m \in 1..n /\ i - m < j - m /\ r[i] = q[i - m] /\ r[j] = q[j - m]
      BY <1>1, <1>2, <1>4, <2>3
    <3> QED
      BY <3>1 DEF Shaped
  <2> QED
    BY <1>1, <1>2, <2>1, <2>2, <2>3
<1>5. ASSUME NEW i \in 1..Len(r), NEW j \in 1..Len(r), j = i + 1
      PROVE  Follows(r[i], r[j])
  <2>1. CASE j \in 1..m
    <3>1. i \in 1..m /\ r[i] = p[i] /\ r[j] = p[j]
      BY <1>1, <1>5, <2>1
    <3> QED
      BY <1>5, <2>1, <3>1 DEF Shaped
  <2>2. CASE i \in 1..m /\ j > m
    <3>1. i = m /\ j = m + 1 /\ r[i] = p[m] /\ r[j] = q[1] /\ n >= 1 /\ m >= 1
      BY <1>1, <1>2, <1>5, <2>2
    <3>2. p # <<>> /\ q # <<>>
      BY <3>1
    <3> QED
      BY <3>1, <3>2
  <2>3. CASE i > m
    <3>1. i - m \in 1..n /\ j - m \in 1..n /\ j - m = (i - m) + 1 /\ r[i] = q[i - m] /\ r[j] = q[j - m]
      BY <1>1, <1>2, <1>5, <2>3
    <3> QED
      BY <3>1 DEF Shaped
  <2> QED
    BY <1>1, <1>2, <2>1, <2>2, <2>3
<1>6. Shaped(r)
  BY <1>3, <1>4, <1>5 DEF Shaped
<1> QED
  BY <1>1, <1>6 DEF r

Has(p, kind) == \E i \in 1..Len(p) : p[i].kind = kind

\* A plan starts with something to do before the sweep of a page.
StartsWell(p) == p # <<>> => ~(p[1].kind = "sweep" /\ p[1].target # 0)

\* A part of the plan that is one goal, or nothing.
LEMMA ShapedOne ==
  ASSUME NEW g \in Goals, NEW q, q = <<>> \/ (q = <<g>> /\ GoalOK(g)), ~(g.kind = "sweep" /\ g.target # 0)
  PROVE  /\ q \in Seq(Goals) /\ Shaped(q) /\ StartsWell(q)
         /\ Len(q) = (IF q = <<>> THEN 0 ELSE 1) /\ \A i \in 1..Len(q) : q[i] = g
<1>1. CASE q = <<g>> /\ GoalOK(g)
  <2>1. q \in Seq(Goals) /\ Len(q) = 1 /\ q[1] = g /\ q # <<>>
    BY <1>1
  <2>2. \A i \in 1..Len(q) : i = 1
    BY <2>1
  <2>3. \A i, j \in 1..Len(q) : ~(i < j) /\ j # i + 1
    BY <2>2
  <2>4. Shaped(q)
    BY <1>1, <2>1, <2>2, <2>3 DEF Shaped
  <2> QED
    BY <1>1, <2>1, <2>2, <2>4 DEF StartsWell
<1>2. CASE q = <<>>
  <2>1. q \in Seq(Goals) /\ Len(q) = 0 /\ 1..0 = {}
    BY <1>2
  <2>2. Shaped(q) /\ StartsWell(q)
    BY <1>2, <2>1 DEF Shaped, StartsWell
  <2> QED
    BY <1>2, <2>1, <2>2
<1> QED
  BY <1>1, <1>2

\* What a joined plan has of its parts.
LEMMA Joined ==
  ASSUME NEW p \in Seq(Goals), NEW q \in Seq(Goals)
  PROVE  /\ p \o q \in Seq(Goals) /\ Len(p \o q) = Len(p) + Len(q)
         /\ \A i \in 1..Len(p \o q) : (i \in 1..Len(p) /\ (p \o q)[i] = p[i])
                                       \/ (i - Len(p) \in 1..Len(q) /\ (p \o q)[i] = q[i - Len(p)])
         /\ \A kind : Has(p, kind) \/ Has(q, kind) => Has(p \o q, kind)
         /\ StartsWell(p) /\ StartsWell(q) => StartsWell(p \o q)
         /\ p # <<>> => p \o q # <<>> /\ (p \o q)[1] = p[1]
         /\ q # <<>> => p \o q # <<>> /\ (p \o q)[Len(p \o q)] = q[Len(q)]
<1> DEFINE r == p \o q  m == Len(p)  n == Len(q)
<1>1. /\ r \in Seq(Goals) /\ m \in Nat /\ n \in Nat /\ Len(r) = m + n
      /\ \A i \in 1..m : r[i] = p[i]
      /\ \A i \in (m + 1)..(m + n) : r[i] = q[i - m] /\ i - m \in 1..n
  OBVIOUS
<1>2. (p # <<>> => m >= 1) /\ (q # <<>> => n >= 1) /\ (m = 0 => r = q) /\ (r # <<>> => m + n >= 1)
  OBVIOUS
<1> HIDE DEF r
<1>3. \A i \in 1..Len(r) : (i \in 1..m /\ r[i] = p[i]) \/ (i - m \in 1..n /\ r[i] = q[i - m])
  BY <1>1
<1>4. ASSUME NEW kind, Has(p, kind) \/ Has(q, kind) PROVE Has(r, kind)
  <2>1. CASE Has(p, kind)
    BY <1>1, <2>1 DEF Has
  <2>2. CASE Has(q, kind)
    <3>1. PICK j \in 1..n : q[j].kind = kind
      BY <2>2 DEF Has
    <3>2. m + j \in (m + 1)..(m + n) /\ m + j \in 1..Len(r) /\ (m + j) - m = j
      BY <1>1, <3>1
    <3>3. r[m + j] = q[j]
      BY <1>1, <3>2
    <3> QED
      BY <3>1, <3>2, <3>3 DEF Has
  <2> QED
    BY <1>4, <2>1, <2>2
<1>5. p # <<>> => r # <<>> /\ r[1] = p[1]
  BY <1>1, <1>2
<1>6. q # <<>> => r # <<>> /\ r[Len(r)] = q[Len(q)]
  <2> SUFFICES ASSUME q # <<>> PROVE r # <<>> /\ r[Len(r)] = q[Len(q)]
    OBVIOUS
  <2>1. n >= 1 /\ m + n \in (m + 1)..(m + n) /\ (m + n) - m = n
    BY <1>1, <1>2
  <2>2. r[m + n] = q[n]
    BY <1>1, <2>1
  <2> QED
    BY <1>1, <2>1, <2>2
<1>7. StartsWell(p) /\ StartsWell(q) => StartsWell(r)
  <2>1. CASE p # <<>>
    BY <1>5, <2>1 DEF StartsWell
  <2>2. CASE p = <<>>
    <3>1. r = q
      BY <1>2, <2>2
    <3> QED
      BY <3>1
  <2> QED
    BY <2>1, <2>2
<1> QED
  BY <1>1, <1>3, <1>4, <1>5, <1>6, <1>7 DEF r

\* What comes when channel and range are set may follow anything.
LEMMA LateJoin ==
  ASSUME NEW p \in Seq(Goals), NEW q \in Seq(Goals), Shaped(p), Shaped(q), StartsWell(q),
         \A j \in 1..Len(q) : q[j].kind \notin {"channel", "range"}
  PROVE  Shaped(p \o q)
<1>1. \A i \in 1..Len(p), j \in 1..Len(q) : Before(p[i], q[j])
  BY DEF Before
<1>2. p # <<>> /\ q # <<>> => Follows(p[Len(p)], q[1])
  BY DEF StartsWell, Follows
<1> QED
  BY <1>1, <1>2, ShapedJoin

\* The pages and their sweeps.
LEMMA CycleShaped ==
  ASSUME cycleModes
  PROVE  LET cycle == [i \in 1..2 * Len(SweptPages) |->
                        Goal(IF i % 2 = 1 THEN "page" ELSE "sweep", SweptPages[(i + 1) \div 2])]
         IN  /\ cycle \in Seq(Goals) /\ Shaped(cycle) /\ StartsWell(cycle)
             /\ \A i \in 1..Len(cycle) : cycle[i].kind \in {"page", "sweep"}
<1> DEFINE cycle == [i \in 1..2 * Len(SweptPages) |->
                        Goal(IF i % 2 = 1 THEN "page" ELSE "sweep", SweptPages[(i + 1) \div 2])]
<1>1. 2 * Len(SweptPages) = 6
  BY DEF SweptPages
<1>2. /\ cycle[1] = Goal("page", 1) /\ cycle[2] = Goal("sweep", 1)
      /\ cycle[3] = Goal("page", 2) /\ cycle[4] = Goal("sweep", 2)
      /\ cycle[5] = Goal("page", 3) /\ cycle[6] = Goal("sweep", 3)
  BY <1>1 DEF SweptPages
<1>3. DOMAIN cycle = 1..6 /\ \A i \in 1..6 : i = 1 \/ i = 2 \/ i = 3 \/ i = 4 \/ i = 5 \/ i = 6
  BY <1>1
<1>4. \A k \in {"page", "sweep"}, t \in 1..3 :
        Goal(k, t) \in Goals /\ Goal(k, t).kind = k /\ Goal(k, t).target = t
  BY DEF Goal, Goals
<1>5. cycle = [i \in 1..6 |-> cycle[i]] /\ \A i \in 1..6 : cycle[i] \in Goals
  BY <1>1, <1>2, <1>3, <1>4
<1> HIDE DEF cycle
<1>6. cycle \in Seq(Goals) /\ Len(cycle) = 6
  BY <1>5
<1>7. \A i \in 1..6 : cycle[i].kind \in {"page", "sweep"} /\ GoalOK(cycle[i])
  BY <1>2, <1>3, <1>4 DEF GoalOK, PageCount
<1>8. \A i, j \in 1..6 : j = i + 1 => Follows(cycle[i], cycle[j])
  <2> SUFFICES ASSUME NEW i \in 1..6, NEW j \in 1..6, j = i + 1 PROVE Follows(cycle[i], cycle[j])
    OBVIOUS
  <2>1. i \in 1..5 /\ j = i + 1
    OBVIOUS
  <2>2. i = 1 \/ i = 2 \/ i = 3 \/ i = 4 \/ i = 5
    BY <2>1
  <2> QED
    BY <1>2, <1>4, <2>1, <2>2 DEF Follows
<1>9. Shaped(cycle)
  BY <1>6, <1>7, <1>8 DEF Shaped, Before
<1>10. StartsWell(cycle)
  BY <1>2, <1>4 DEF StartsWell
<1> QED
  BY <1>6, <1>7, <1>9, <1>10 DEF cycle

\* The plan that follows from the first snapshot, or from none.
LEMMA PlanShaped ==
  ASSUME Types, NEW s \in MeterStates \cup {NoSnapshot}
  PROVE  /\ Plan(s) \in Seq(Goals) /\ Shaped(Plan(s)) /\ StartsWell(Plan(s))
         /\ targetChannel > 0 => Has(Plan(s), "channel")
         /\ targetRange # None => Has(Plan(s), "range")
         /\ NeedsSwitch(s) => Plan(s)[1] = Goal("page", PowerSwr)
         /\ cycleModes /\ s # NoSnapshot =>
              Plan(s) # <<>> /\ Plan(s)[Len(Plan(s))] = Goal("page", s.page)
<1> DEFINE gA == Goal("page", PowerSwr)  gB == Goal("channel", targetChannel)
           gC == Goal("range", targetRange)  gD == Goal("sweep", 0)  gL == Goal("page", s.page)
           cycle == [i \in 1..2 * Len(SweptPages) |->
                      Goal(IF i % 2 = 1 THEN "page" ELSE "sweep", SweptPages[(i + 1) \div 2])]
           A == If(NeedsSwitch(s), <<gA>>)  B == If(targetChannel > 0, <<gB>>)
           C == If(targetRange # None, <<gC>>)  K == If(cycleModes, cycle)
           D == If(~cycleModes, <<gD>>)  L == If(cycleModes /\ s # NoSnapshot, <<gL>>)
<1>1. Plan(s) = A \o B \o C \o K \o D \o L
  BY DEF Plan
<1>2. /\ targetChannel \in Int /\ targetRange \in Int /\ cycleModes \in BOOLEAN
      /\ s # NoSnapshot => s.page \in 1..PageCount /\ s.page \in Int
  BY ProbeConstants, Readable DEF Types, None, PageCount
<1>3. /\ gA \in Goals /\ gB \in Goals /\ gC \in Goals /\ gD \in Goals /\ (s # NoSnapshot => gL \in Goals)
      /\ gA.kind = "page" /\ gB.kind = "channel" /\ gC.kind = "range" /\ gD.kind = "sweep" /\ gL.kind = "page"
      /\ gA.target = PowerSwr /\ gB.target = targetChannel /\ gC.target = targetRange
      /\ gD.target = 0 /\ gL.target = s.page
  BY <1>2 DEF Goal, Goals, PowerSwr
<1>4. /\ GoalOK(gA) /\ (targetChannel > 0 => GoalOK(gB)) /\ (targetRange # None => GoalOK(gC))
      /\ GoalOK(gD) /\ (s # NoSnapshot => GoalOK(gL))
  BY <1>2, <1>3 DEF GoalOK, PageCount, PowerSwr
<1>5. /\ A = <<>> \/ (A = <<gA>> /\ GoalOK(gA))
      /\ B = <<>> \/ (B = <<gB>> /\ GoalOK(gB))
      /\ C = <<>> \/ (C = <<gC>> /\ GoalOK(gC))
      /\ D = <<>> \/ (D = <<gD>> /\ GoalOK(gD))
      /\ L = <<>> \/ (L = <<gL>> /\ GoalOK(gL) /\ gL \in Goals)
  BY <1>3, <1>4 DEF If
<1>6. /\ NeedsSwitch(s) => A = <<gA>>
      /\ targetChannel > 0 => B = <<gB>>
      /\ targetRange # None => C = <<gC>>
      /\ cycleModes /\ s # NoSnapshot => L = <<gL>>
  BY DEF If
<1>7. /\ K \in Seq(Goals) /\ Shaped(K) /\ StartsWell(K)
      /\ \A i \in 1..Len(K) : K[i].kind \in {"page", "sweep"}
  <2>1. CASE cycleModes
    BY <2>1, CycleShaped DEF If
  <2>2. CASE ~cycleModes
    <3>1. K = <<>>
      BY <2>2 DEF If
    <3>2. <<>> \in Seq(Goals) /\ Len(<<>>) = 0 /\ 1..0 = {}
      OBVIOUS
    <3> QED
      BY <3>1, <3>2 DEF Shaped, StartsWell
  <2> QED
    BY <1>2, <2>1, <2>2
<1> HIDE DEF gA, gB, gC, gD, gL, A, B, C, D, K, L
<1>8. /\ A \in Seq(Goals) /\ Shaped(A) /\ StartsWell(A) /\ \A i \in 1..Len(A) : A[i] = gA
      /\ B \in Seq(Goals) /\ Shaped(B) /\ StartsWell(B) /\ \A i \in 1..Len(B) : B[i] = gB
      /\ C \in Seq(Goals) /\ Shaped(C) /\ StartsWell(C) /\ \A i \in 1..Len(C) : C[i] = gC
      /\ D \in Seq(Goals) /\ Shaped(D) /\ StartsWell(D) /\ \A i \in 1..Len(D) : D[i] = gD
  BY <1>3, <1>5, ShapedOne
<1>9. L \in Seq(Goals) /\ Shaped(L) /\ StartsWell(L) /\ \A i \in 1..Len(L) : L[i] = gL
  <2>1. CASE L = <<>>
    BY <1>3, <2>1, ShapedOne
  <2>2. CASE L = <<gL>> /\ GoalOK(gL) /\ gL \in Goals
    BY <1>3, <2>2, ShapedOne
  <2> QED
    BY <1>5, <2>1, <2>2
<1> DEFINE AB == A \o B
<1>10. /\ AB \in Seq(Goals) /\ StartsWell(AB) /\ \A i \in 1..Len(AB) : AB[i] = gA \/ AB[i] = gB
       /\ Has(B, "channel") => Has(AB, "channel")
       /\ A # <<>> => AB # <<>> /\ AB[1] = A[1]
  <2>1. \A i \in 1..Len(AB) : (i \in 1..Len(A) /\ AB[i] = A[i]) \/ (i - Len(A) \in 1..Len(B) /\ AB[i] = B[i - Len(A)])
    BY <1>8, Joined
  <2>2. \A i \in 1..Len(AB) : AB[i] = gA \/ AB[i] = gB
    BY <1>8, <2>1
  <2> QED
    BY <1>8, <2>2, Joined
<1>11. Shaped(AB)
  <2>1. \A i \in 1..Len(A), j \in 1..Len(B) : Before(A[i], B[j])
    BY <1>3, <1>8 DEF Before
  <2>2. A # <<>> /\ B # <<>> => Follows(A[Len(A)], B[1])
    <3>1. B # <<>> => 1 \in 1..Len(B)
      BY <1>8
    <3> QED
      BY <1>3, <1>8, <3>1 DEF Follows
  <2> QED
    BY <1>8, <2>1, <2>2, ShapedJoin
<1> HIDE DEF AB
<1> DEFINE ABC == AB \o C
<1>12. /\ ABC \in Seq(Goals) /\ StartsWell(ABC)
       /\ Has(AB, "channel") => Has(ABC, "channel")
       /\ Has(C, "range") => Has(ABC, "range")
       /\ AB # <<>> => ABC # <<>> /\ ABC[1] = AB[1]
  BY <1>8, <1>10, Joined
<1>13. Shaped(ABC)
  <2>1. \A i \in 1..Len(AB), j \in 1..Len(C) : Before(AB[i], C[j])
    BY <1>3, <1>8, <1>10 DEF Before
  <2>2. AB # <<>> /\ C # <<>> => Follows(AB[Len(AB)], C[1])
    <3>1. C # <<>> => 1 \in 1..Len(C)
      BY <1>8
    <3> QED
      BY <1>3, <1>8, <3>1 DEF Follows
  <2> QED
    BY <1>8, <1>10, <1>11, <2>1, <2>2, ShapedJoin
<1> HIDE DEF ABC
<1> DEFINE M == ABC \o K
<1>14. /\ M \in Seq(Goals) /\ Shaped(M) /\ StartsWell(M)
       /\ \A kind : Has(ABC, kind) => Has(M, kind)
       /\ ABC # <<>> => M # <<>> /\ M[1] = ABC[1]
  BY <1>7, <1>12, <1>13, Joined, LateJoin
<1> HIDE DEF M
<1> DEFINE N == M \o D
<1>15. /\ N \in Seq(Goals) /\ Shaped(N) /\ StartsWell(N)
       /\ \A kind : Has(M, kind) => Has(N, kind)
       /\ M # <<>> => N # <<>> /\ N[1] = M[1]
  BY <1>3, <1>8, <1>14, Joined, LateJoin
<1> HIDE DEF N
<1> DEFINE P == N \o L
<1>16. /\ P \in Seq(Goals) /\ Shaped(P) /\ StartsWell(P)
       /\ \A kind : Has(N, kind) => Has(P, kind)
       /\ N # <<>> => P # <<>> /\ P[1] = N[1]
       /\ L # <<>> => P # <<>> /\ P[Len(P)] = L[Len(L)]
  BY <1>3, <1>9, <1>15, Joined, LateJoin
<1> HIDE DEF P
<1>17. Plan(s) = P
  BY <1>1 DEF AB, ABC, M, N, P
<1>18. targetChannel > 0 => Has(P, "channel")
  <2> SUFFICES ASSUME targetChannel > 0 PROVE Has(P, "channel")
    OBVIOUS
  <2>1. B = <<gB>> /\ Len(<<gB>>) = 1 /\ <<gB>>[1] = gB
    BY <1>6
  <2>2. Has(B, "channel")
    BY <1>3, <2>1 DEF Has
  <2> QED
    BY <2>2, <1>10, <1>12, <1>14, <1>15, <1>16
<1>19. targetRange # None => Has(P, "range")
  <2> SUFFICES ASSUME targetRange # None PROVE Has(P, "range")
    OBVIOUS
  <2>1. C = <<gC>> /\ Len(<<gC>>) = 1 /\ <<gC>>[1] = gC
    BY <1>6
  <2>2. Has(C, "range")
    BY <1>3, <2>1 DEF Has
  <2> QED
    BY <2>2, <1>12, <1>14, <1>15, <1>16
<1>20. NeedsSwitch(s) => P[1] = gA
  <2> SUFFICES ASSUME NeedsSwitch(s) PROVE P[1] = gA
    OBVIOUS
  <2>1. A = <<gA>> /\ A # <<>> /\ A[1] = gA
    BY <1>6
  <2> QED
    BY <2>1, <1>10, <1>12, <1>14, <1>15, <1>16
<1>21. cycleModes /\ s # NoSnapshot => P # <<>> /\ P[Len(P)] = gL
  <2> SUFFICES ASSUME cycleModes, s # NoSnapshot PROVE P # <<>> /\ P[Len(P)] = gL
    OBVIOUS
  <2>1. L = <<gL>> /\ L # <<>> /\ Len(L) = 1 /\ L[1] = gL
    BY <1>6
  <2> QED
    BY <2>1, <1>16
<1> QED
  BY <1>16, <1>17, <1>18, <1>19, <1>20, <1>21 DEF gA, gL

-----------------------------------------------------------------------------
(* The steps of the probe.                                                  *)

\* What taking the first goal off the plan leaves; the sweep of a page that was
\* not reached goes with it.
LEMMA Advanced ==
  ASSUME Types, plan # <<>>, NEW reached \in BOOLEAN, Advance(Tail(plan), reached)
  PROVE  /\ plan' \in Seq(Goals) /\ step' = 0 /\ tries' = 0
         /\ pc' \in {"drain", "poll"} /\ (plan' = <<>> => pc' = "poll")
         /\ plan' # <<>> /\ Head(plan').kind = "sweep" => pc' = "drain"
         /\ \/ plan' = Tail(plan)
            \/ /\ ~reached /\ cycleModes /\ Tail(plan) # <<>> /\ Head(Tail(plan)).kind = "sweep"
               /\ plan' = Tail(Tail(plan))
         /\ reached => plan' = Tail(plan)
         /\ ~reached /\ cycleModes /\ Tail(plan) # <<>> /\ Head(Tail(plan)).kind = "sweep" =>
              plan' = Tail(Tail(plan))
<1>1. plan \in Seq(Goals) /\ Tail(plan) \in Seq(Goals)
  BY DEF Types
<1>2. Tail(plan) # <<>> => Tail(Tail(plan)) \in Seq(Goals)
  BY <1>1
<1>3. /\ step' = 0 /\ tries' = 0
      /\ plan' = IF ~reached /\ Tail(plan) # <<>> /\ Head(Tail(plan)).kind = "sweep" /\ cycleModes
                 THEN Tail(Tail(plan)) ELSE Tail(plan)
      /\ pc' = IF plan' # <<>> /\ (Aim.kind = "page" \/ Head(plan').kind = "sweep") THEN "drain" ELSE "poll"
  BY DEF Advance
<1> QED
  BY <1>1, <1>2, <1>3

\* A state that is read is one the meter can be in.
LEMMA ReadsReadings ==
  ASSUME Types, reads # <<>>
  PROVE  /\ Head(reads) \in MeterStates \cup {Other, Gone} /\ Head(reads) = reads[1]
         /\ Tail(reads) \in Seq(Readings \cup {Gone}) /\ Len(Tail(reads)) = Len(reads) - 1
         /\ Len(reads) \in Nat /\ Len(reads) >= 1
<1>1. reads \in Seq(Readings \cup {Gone})
  BY DEF Types
<1>2. /\ Head(reads) \in Readings \cup {Gone} /\ Head(reads) = reads[1]
      /\ Tail(reads) \in Seq(Readings \cup {Gone}) /\ Len(Tail(reads)) = Len(reads) - 1
      /\ Len(reads) \in Nat /\ Len(reads) >= 1
  BY <1>1, Rest
<1> QED
  BY <1>2 DEF Readings

\* One read of the await loop: a state of the meter is learnt, or none is, or
\* the loop goes on.
GoesOn == UNCHANGED <<plan, pc, step, original, warned>> /\ tries' \in Nat

LEMMA AwaitCases ==
  ASSUME Types, Await
  PROVE  /\ ~Ended /\ pc = "await"
         /\ UNCHANGED <<meter, wire, link, options, failed>>
         /\ \/ /\ reads # <<>> /\ reads' = Tail(reads) /\ UNCHANGED <<late, faults>>
               /\ \/ Head(reads) \in MeterStates /\ Learns(Head(reads))
                  \/ Head(reads) \in {Other, Gone} /\ (Learns(NoSnapshot) \/ GoesOn)
            \/ /\ reads = <<>> /\ reads' = reads /\ (Learns(NoSnapshot) \/ GoesOn)
               /\ \/ wire = <<>> /\ UNCHANGED <<late, faults>>
                  \/ wire # <<>> /\ Fault /\ late' = TRUE
            \/ interrupted /\ UNCHANGED <<reads, late, faults>> /\ Learns(NoSnapshot)
<1>1. ReadsNothing => Learns(NoSnapshot) \/ GoesOn
  <2>1. tries + 1 \in Nat
    BY DEF Types
  <2> QED
    BY <2>1 DEF ReadsNothing, GoesOn
<1>2. reads # <<>> => Head(reads) \in MeterStates \cup {Other, Gone}
  BY ReadsReadings
<1>3. CASE /\ reads # <<>> /\ reads' = Tail(reads) /\ UNCHANGED <<late, faults>>
           /\ CASE Head(reads) = Gone  -> Learns(NoSnapshot)
                [] Head(reads) = Other -> ReadsNothing
                [] OTHER               -> Learns(Head(reads))
  <2>1. CASE Head(reads) = Gone
    BY <1>3, <2>1, Readable DEF Await
  <2>2. CASE Head(reads) = Other
    BY <1>1, <1>3, <2>2, Readable DEF Await
  <2>3. CASE Head(reads) \in MeterStates
    BY <1>3, <2>3, Readable DEF Await
  <2> QED
    BY <1>2, <1>3, <2>1, <2>2, <2>3
<1>4. CASE /\ reads = <<>> /\ UNCHANGED reads
           /\ IF wire = <<>> THEN UNCHANGED <<late, faults>> ELSE Fault /\ late' = TRUE
           /\ ReadsNothing
  BY <1>1, <1>4 DEF Await
<1>5. CASE interrupted /\ UNCHANGED <<reads, late, faults>> /\ Learns(NoSnapshot)
  BY <1>5 DEF Await
<1> QED
  BY <1>3, <1>4, <1>5 DEF Await

\* What the probe does with what it learnt.
LEMMA LearnsCases ==
  ASSUME Types, ~Ended, NEW s \in MeterStates \cup {NoSnapshot}, Learns(s)
  PROVE  \/ /\ Aim.kind = "learn" /\ original' = s /\ plan' = Plan(s)
            /\ step' = 0 /\ tries' = 0 /\ UNCHANGED warned
            /\ pc' \in {"drain", "poll"} /\ (plan' = <<>> => pc' = "poll")
            /\ plan' # <<>> /\ Head(plan').kind = "sweep" => pc' = "drain"
         \/ Aim.kind # "learn" /\ UNCHANGED original /\ Hopeless(Aim, s) /\ GiveUp
         \/ /\ Aim.kind # "learn" /\ UNCHANGED original /\ Met(Aim, s) /\ ~Hopeless(Aim, s)
            /\ Advance(Tail(plan), TRUE) /\ UNCHANGED warned
         \/ Aim.kind # "learn" /\ UNCHANGED original /\ ~Met(Aim, s) /\ pc' = "press" /\ UNCHANGED <<plan, step, tries, warned>>
BY DEF Learns, Advance

\* A key press on the power page turns the channel and the range.
LEMMA PressedStates ==
  ASSUME Types, NEW key \in {"page", "channel", "range"}
  PROVE  /\ Pressed(key) \in MeterStates
         /\ key = "page" => /\ Pressed(key).page = IF meter.page = PageCount THEN 1 ELSE meter.page + 1
                            /\ Pressed(key).channel = meter.channel /\ Pressed(key).range = meter.range
         /\ key = "channel" =>
              /\ Pressed(key).page = meter.page /\ Pressed(key).range = meter.range
              /\ meter.page = PowerSwr =>
                   Pressed(key).channel = IF meter.channel = ChannelCount THEN 0 ELSE meter.channel + 1
         /\ key = "range" =>
              /\ Pressed(key).page = meter.page /\ Pressed(key).channel = meter.channel
              /\ meter.page = PowerSwr /\ meter.channel # 0 =>
                   Pressed(key).range = IF meter.range = RangeCount THEN 0 ELSE meter.range + 1
<1>0. /\ meter \in MeterStates /\ meter.page \in 1..PageCount
      /\ meter.channel \in 0..ChannelCount /\ meter.range \in 0..RangeCount
      /\ ChannelCount \in Nat /\ RangeCount \in Nat
  BY Readable, ProbeConstants DEF Types
<1>1. (meter.page % PageCount) + 1 = IF meter.page = PageCount THEN 1 ELSE meter.page + 1
  BY <1>0 DEF PageCount
<1>2. /\ (meter.channel + 1) % (ChannelCount + 1) = IF meter.channel = ChannelCount THEN 0 ELSE meter.channel + 1
      /\ (meter.range + 1) % (RangeCount + 1) = IF meter.range = RangeCount THEN 0 ELSE meter.range + 1
  BY <1>0, Turn
<1> DEFINE nextPage == (meter.page % PageCount) + 1
           nextChannel == (meter.channel + 1) % (ChannelCount + 1)
           nextRange == (meter.range + 1) % (RangeCount + 1)
<1>3. nextPage \in 1..PageCount /\ nextChannel \in 0..ChannelCount /\ nextRange \in 0..RangeCount
  <2>1. nextPage \in 1..PageCount
    BY <1>0, <1>1 DEF PageCount
  <2>2. nextChannel \in 0..ChannelCount
    BY <1>0, <1>2
  <2>3. nextRange \in 0..RangeCount
    BY <1>0, <1>2
  <2> QED
    BY <2>1, <2>2, <2>3
<1>4. /\ Pressed("page") = [meter EXCEPT !.page = nextPage]
      /\ Pressed("channel") = IF meter.page \in TracePages THEN meter ELSE [meter EXCEPT !.channel = nextChannel]
      /\ Pressed("range") = IF meter.page \in TracePages \/ meter.channel = 0 THEN meter
                            ELSE [meter EXCEPT !.range = nextRange]
  BY DEF Pressed
<1>5. PowerSwr \notin TracePages
  BY DEF PowerSwr, TracePages
<1> HIDE DEF nextPage, nextChannel, nextRange
<1>6. /\ [meter EXCEPT !.page = nextPage] \in MeterStates
      /\ [meter EXCEPT !.channel = nextChannel] \in MeterStates
      /\ [meter EXCEPT !.range = nextRange] \in MeterStates
  BY <1>0, <1>3 DEF MeterStates
<1>7. /\ [meter EXCEPT !.page = nextPage].page = nextPage
      /\ [meter EXCEPT !.page = nextPage].channel = meter.channel
      /\ [meter EXCEPT !.page = nextPage].range = meter.range
      /\ [meter EXCEPT !.channel = nextChannel].page = meter.page
      /\ [meter EXCEPT !.channel = nextChannel].channel = nextChannel
      /\ [meter EXCEPT !.channel = nextChannel].range = meter.range
      /\ [meter EXCEPT !.range = nextRange].page = meter.page
      /\ [meter EXCEPT !.range = nextRange].channel = meter.channel
      /\ [meter EXCEPT !.range = nextRange].range = nextRange
  BY <1>0 DEF MeterStates
<1>8. CASE key = "page"
  BY <1>1, <1>4, <1>6, <1>7, <1>8 DEF nextPage
<1>9. CASE key = "channel"
  BY <1>0, <1>2, <1>4, <1>5, <1>6, <1>7, <1>9 DEF nextChannel
<1>10. CASE key = "range"
  BY <1>0, <1>2, <1>4, <1>5, <1>6, <1>7, <1>10 DEF nextRange
<1> QED
  BY <1>8, <1>9, <1>10
-----------------------------------------------------------------------------
(* The goals ahead, and the place in the first.                             *)

Learning == plan = <<Goal("learn", 0)>>
Keys     == {"page", "channel", "range"}

PlanInv ==
  \/ Learning /\ original = NoSnapshot /\ warned = {} /\ pc \in {"poll", "await"}
  \/ Shaped(plan)

PcInv ==
  /\ plan = <<>> => pc = "poll"
  /\ plan # <<>> /\ ~Learning =>
       IF Aim.kind = "sweep" THEN pc \in {"drain", "write", "answer"}
       ELSE pc \in {"poll", "await", "press", "drain"}

\* The first goal of a plan.
LEMMA AimFacts ==
  ASSUME Types, PlanInv, PcInv, plan # <<>>
  PROVE  /\ Aim = plan[1] /\ Aim \in Goals /\ Len(plan) \in Nat /\ Len(plan) >= 1
         /\ Learning <=> Aim.kind = "learn"
         /\ Learning => pc \in {"poll", "await"} /\ original = NoSnapshot /\ warned = {}
         /\ ~Learning => Shaped(plan) /\ GoalOK(Aim) /\ Aim.kind \in Keys \cup {"sweep"}
         /\ pc = "press" => ~Learning /\ Aim.kind \in Keys
         /\ pc \in {"write", "answer"} => ~Learning /\ Aim.kind = "sweep"
         /\ pc = "drain" => ~Learning
<1>1. Aim = plan[1] /\ Aim \in Goals /\ Len(plan) \in Nat /\ Len(plan) >= 1
  BY Rest DEF Aim, Types
<1>2. Learning => Aim.kind = "learn"
  BY DEF Learning, Aim, Goal
<1>3. Shaped(plan) => GoalOK(Aim)
  BY <1>1 DEF Shaped
<1>4. GoalOK(Aim) => Aim.kind \in Keys \cup {"sweep"} /\ Aim.kind # "learn"
  BY DEF GoalOK, Keys
<1>5. ~Learning => Shaped(plan)
  BY DEF PlanInv
<1>6. Learning => original = NoSnapshot /\ warned = {} /\ pc \in {"poll", "await"}
  BY <1>2, <1>3, <1>4 DEF PlanInv
<1> QED
  BY <1>1, <1>2, <1>3, <1>4, <1>5, <1>6 DEF PcInv, Keys

\* The types of what the first goal's progress changes.
GoalTypes ==
  /\ plan \in Seq(Goals) /\ original \in MeterStates \cup {NoSnapshot}
  /\ pc \in {"poll", "await", "press", "drain", "write", "answer"}
  /\ step \in Nat /\ tries \in Nat

LEMMA AdvancedTypes ==
  ASSUME Types, plan # <<>>, GiveUp \/ Advance(Tail(plan), TRUE), UNCHANGED original
  PROVE  GoalTypes'
<1>1. PICK reached \in BOOLEAN : Advance(Tail(plan), reached)
  BY DEF GiveUp
<1>2. plan' \in Seq(Goals) /\ step' = 0 /\ tries' = 0 /\ pc' \in {"drain", "poll"}
  BY <1>1, Advanced
<1>3. original \in MeterStates \cup {NoSnapshot}
  BY DEF Types
<1> QED
  BY <1>2, <1>3 DEF GoalTypes

LEMMA LearnsTypes ==
  ASSUME Types, ~Ended, NEW s \in MeterStates \cup {NoSnapshot}, Learns(s)
  PROVE  GoalTypes'
<1>1. plan # <<>> /\ Types
  BY DEF Ended
<1>2. GoalTypes
  BY DEF Types, GoalTypes
<1>3. CASE /\ original' = s /\ plan' = Plan(s) /\ step' = 0 /\ tries' = 0 /\ pc' \in {"drain", "poll"}
  BY <1>3, PlanShaped DEF GoalTypes
<1>4. CASE UNCHANGED original /\ GiveUp
  BY <1>1, <1>4, AdvancedTypes
<1>5. CASE UNCHANGED original /\ Advance(Tail(plan), TRUE)
  BY <1>1, <1>5, AdvancedTypes
<1>6. CASE UNCHANGED original /\ pc' = "press" /\ UNCHANGED <<plan, step, tries>>
  BY <1>2, <1>6 DEF GoalTypes
<1> QED
  BY <1>3, <1>4, <1>5, <1>6, LearnsCases

\* Pump moves one reading, or ends.
LEMMA Pumped ==
  ASSUME Types, Pump
  PROVE  wire' \in Seq(Readings) /\ reads' \in Seq(Readings \cup {Gone})
<1>1. wire \in Seq(Readings) /\ reads \in Seq(Readings \cup {Gone})
  BY DEF Types
<1>2. wire # <<>> => Head(wire) \in Readings /\ Tail(wire) \in Seq(Readings)
  BY <1>1, Rest
<1>3. <<>> \in Seq(Readings) /\ Append(reads, Gone) \in Seq(Readings \cup {Gone})
  BY <1>1
<1>4. wire # <<>> => Append(reads, Head(wire)) \in Seq(Readings \cup {Gone})
  BY <1>1, <1>2
<1>5. /\ wire' \in {wire, <<>>} \/ (wire # <<>> /\ wire' = Tail(wire))
      /\ \/ reads' \in {reads, Append(reads, Gone)}
         \/ wire # <<>> /\ reads' = Append(reads, Head(wire))
  BY DEF Pump
<1> QED
  BY <1>1, <1>2, <1>3, <1>4, <1>5

LEMMA TypesStep ==
  ASSUME Types, PlanInv, PcInv, [Next]_vars
  PROVE  Types'
<1>0. /\ GoalTypes /\ meter \in MeterStates /\ wire \in Seq(Readings) /\ reads \in Seq(Readings \cup {Gone})
      /\ faults \in Nat /\ <<>> \in Seq(Readings) /\ <<>> \in Seq(Readings \cup {Gone})
      /\ meter \in Readings /\ Other \in Readings
      /\ reads # <<>> => Tail(reads) \in Seq(Readings \cup {Gone})
  <2>1. meter \in MeterStates /\ wire \in Seq(Readings) /\ reads \in Seq(Readings \cup {Gone}) /\ faults \in Nat
    BY DEF Types
  <2>2. reads # <<>> => Tail(reads) \in Seq(Readings \cup {Gone})
    BY ReadsReadings
  <2>3. GoalTypes
    BY DEF Types, GoalTypes
  <2> QED
    BY <2>1, <2>2, <2>3 DEF Readings
<1>1. UNCHANGED options
  BY DEF Next, Unplug, Interrupt, Pump, Poll, Await, Press, Drain, Write, Answer, vars
<1>2. Fault => faults' \in Nat
  BY <1>0 DEF Fault
<1>3. CASE Unplug \/ Interrupt
  <2>1. UNCHANGED <<meter, reads, plan, pc, step, tries, original>> /\ wire' \in {wire, <<>>} /\ Fault
    BY <1>3 DEF Unplug, Interrupt
  <2> QED
    BY <1>0, <1>1, <1>2, <2>1 DEF Types, GoalTypes, options
<1>4. CASE Pump
  <2>1. UNCHANGED <<meter, plan, pc, step, tries, original, faults>>
    BY <1>4 DEF Pump
  <2> QED
    BY <1>0, <1>1, <1>4, <2>1, Pumped DEF Types, GoalTypes, options
<1>5. CASE Poll
  <2>1. /\ Sends(meter, meter) /\ pc' = "await" /\ tries' = 0
        /\ UNCHANGED <<reads, plan, step, original>>
    BY <1>5 DEF Poll
  <2>2. meter' \in MeterStates /\ wire' \in Seq(Readings) /\ faults' \in Nat
    BY <1>0, <2>1, Sent
  <2> QED
    BY <1>0, <1>1, <2>1, <2>2 DEF Types, GoalTypes, options
<1>6. CASE Await
  <2>1. /\ ~Ended /\ UNCHANGED <<meter, wire>>
        /\ reads' = reads \/ (reads # <<>> /\ reads' = Tail(reads))
        /\ faults' = faults \/ Fault
        /\ (\E s \in MeterStates \cup {NoSnapshot} : Learns(s)) \/ GoesOn
    BY <1>6, AwaitCases
  <2>2. GoalTypes'
    BY <1>0, <2>1, LearnsTypes DEF GoesOn, GoalTypes
  <2> QED
    BY <1>0, <1>1, <1>2, <2>1, <2>2 DEF Types, GoalTypes, options
<1>7. CASE Press
  <2>1. plan # <<>> /\ Aim.kind \in Keys /\ UNCHANGED <<reads, original>>
    BY <1>7, AimFacts DEF Press, Ended
  <2>2. CASE GiveUp /\ UNCHANGED <<meter, wire, faults>>
    <3>1. GoalTypes'
      BY <2>1, <2>2, AdvancedTypes
    <3> QED
      BY <1>0, <1>1, <2>1, <2>2, <3>1 DEF Types, GoalTypes, options
  <2>3. CASE Sends(Pressed(Aim.kind), Other) /\ step' = Counted /\ pc' = "drain" /\ UNCHANGED <<plan, tries>>
    <3>1. meter' \in MeterStates /\ wire' \in Seq(Readings) /\ faults' \in Nat
      <4>1. Pressed(Aim.kind) \in MeterStates
        BY <2>1, PressedStates DEF Keys
      <4> QED
        BY <1>0, <2>3, <4>1, Sent
    <3>2. step' \in Nat
      BY <1>0, <2>3 DEF Counted, GoalTypes
    <3> QED
      BY <1>0, <1>1, <2>1, <2>3, <3>1, <3>2 DEF Types, GoalTypes, options
  <2> QED
    BY <1>7, <2>2, <2>3 DEF Press
<1>8. CASE Drain
  <2>1. /\ plan # <<>> /\ UNCHANGED <<meter, wire, original>> /\ reads' \in {reads, <<>>}
        /\ faults' = faults \/ Fault
        /\ \/ GiveUp
           \/ pc' \in {"write", "poll"} /\ UNCHANGED <<plan, step, tries>>
    BY <1>8 DEF Drain, Ended
  <2>2. GoalTypes'
    <3>1. CASE GiveUp
      BY <2>1, <3>1, AdvancedTypes
    <3>2. CASE pc' \in {"write", "poll"} /\ UNCHANGED <<plan, step, tries>>
      BY <1>0, <2>1, <3>2 DEF GoalTypes
    <3> QED
      BY <2>1, <3>1, <3>2
  <2> QED
    BY <1>0, <1>1, <1>2, <2>1, <2>2 DEF Types, GoalTypes, options
<1>9. CASE Write
  <2>1. /\ UNCHANGED <<reads, plan, step, tries, original>> /\ pc' \in {pc, "answer"}
        /\ Sends(meter, meter) \/ Sends(meter, Other)
    BY <1>9 DEF Write
  <2>2. meter' \in MeterStates /\ wire' \in Seq(Readings) /\ faults' \in Nat
    BY <1>0, <2>1, Sent
  <2> QED
    BY <1>0, <1>1, <2>1, <2>2 DEF Types, GoalTypes, options
<1>10. CASE Answer
  <2>1. /\ plan # <<>> /\ UNCHANGED <<meter, wire, original>>
        /\ reads' = reads \/ (reads # <<>> /\ reads' = Tail(reads))
        /\ faults' = faults \/ Fault
        /\ Captured \/ UNCHANGED <<plan, pc, step, tries>>
    BY <1>10 DEF Answer, Ended, Fails
  <2>2. step + 1 \in Nat /\ tries + 1 \in Nat
    BY <1>0 DEF GoalTypes
  <2>3. GoalTypes'
    <3>1. CASE Advance(Tail(plan), TRUE)
      BY <2>1, <3>1, AdvancedTypes
    <3>2. CASE UNCHANGED plan /\ step' \in {step, step + 1} /\ tries' \in {0, tries, tries + 1} /\ pc' \in {pc, "write", "drain"}
      BY <1>0, <2>1, <2>2, <3>2 DEF GoalTypes
    <3> QED
      BY <2>1, <3>1, <3>2 DEF Captured
  <2> QED
    BY <1>0, <1>1, <1>2, <2>1, <2>3 DEF Types, GoalTypes, options
<1>11. CASE UNCHANGED vars
  BY <1>0, <1>1, <1>11 DEF vars, Types, GoalTypes, options
<1> QED
  BY <1>3, <1>4, <1>5, <1>6, <1>7, <1>8, <1>9, <1>10, <1>11 DEF Next

\* The shape of a plan does not depend on when it is looked at.
LEMMA ShapeKept ==
  ASSUME UNCHANGED options, Shaped(plan')
  PROVE  Shaped(plan)'
BY DEF Shaped, GoalOK, Before, Follows, options

\* A goal that ends leaves a plan of the same shape.
LEMMA EndShaped ==
  ASSUME Types, PlanInv, PcInv, plan # <<>>, ~Learning, UNCHANGED options,
         GiveUp \/ Advance(Tail(plan), TRUE)
  PROVE  PlanInv' /\ PcInv' /\ ~Learning'
<1>1. PICK reached \in BOOLEAN : Advance(Tail(plan), reached)
  BY DEF GiveUp
<1>2. plan \in Seq(Goals) /\ Shaped(plan) /\ Tail(plan) \in Seq(Goals) /\ Shaped(Tail(plan))
  BY AimFacts, ShapedTail, Rest DEF Types
<1>3. Tail(plan) # <<>> => Shaped(Tail(Tail(plan)))
  BY <1>2, ShapedTail
<1>4. /\ plan' \in Seq(Goals) /\ pc' \in {"drain", "poll"} /\ (plan' = <<>> => pc' = "poll")
      /\ plan' # <<>> /\ Head(plan').kind = "sweep" => pc' = "drain"
      /\ plan' = Tail(plan) \/ (Tail(plan) # <<>> /\ plan' = Tail(Tail(plan)))
  BY <1>1, Advanced
<1>5. Shaped(plan')
  BY <1>2, <1>3, <1>4
<1>6. Shaped(plan)'
  BY <1>5, ShapeKept
<1>7. PcInv'
  BY <1>4 DEF PcInv, Aim
<1>8. ~Learning'
  <2> SUFFICES ASSUME Learning' PROVE FALSE
    OBVIOUS
  <2>1. plan' = <<Goal("learn", 0)>> /\ Len(plan') = 1 /\ plan'[1] = Goal("learn", 0)
    BY DEF Learning
  <2>2. GoalOK(plan'[1])
    BY <1>5, <2>1 DEF Shaped
  <2> QED
    BY <2>1, <2>2 DEF GoalOK, Goal
<1> QED
  BY <1>6, <1>7, <1>8 DEF PlanInv

\* So does learning the meter's state.
LEMMA LearnShaped ==
  ASSUME Types, NEW s \in MeterStates \cup {NoSnapshot}, UNCHANGED options, plan' = Plan(s),
         pc' \in {"drain", "poll"}, plan' = <<>> => pc' = "poll",
         plan' # <<>> /\ Head(plan').kind = "sweep" => pc' = "drain"
  PROVE  PlanInv' /\ PcInv' /\ ~Learning'
<1>1. Shaped(plan')
  BY PlanShaped
<1>2. Shaped(plan)'
  BY <1>1, ShapeKept
<1>3. PcInv'
  BY DEF PcInv, Aim
<1>4. ~Learning'
  <2> SUFFICES ASSUME Learning' PROVE FALSE
    OBVIOUS
  <2>1. plan' = <<Goal("learn", 0)>> /\ Len(plan') = 1 /\ plan'[1] = Goal("learn", 0)
    BY DEF Learning
  <2>2. GoalOK(plan'[1])
    BY <1>1, <2>1 DEF Shaped
  <2> QED
    BY <2>1, <2>2 DEF GoalOK, Goal
<1> QED
  BY <1>2, <1>3, <1>4 DEF PlanInv

\* While a goal is first, the plan stands, and the place in the goal is one of
\* those of its kind.
LEMMA PlaceKept ==
  ASSUME Types, PlanInv, PcInv, plan # <<>>, UNCHANGED <<plan, options, original, warned>>,
         \/ Learning /\ pc' \in {"poll", "await"}
         \/ ~Learning /\ Aim.kind = "sweep" /\ pc' \in {"drain", "write", "answer"}
         \/ ~Learning /\ Aim.kind # "sweep" /\ pc' \in {"poll", "await", "press", "drain"}
  PROVE  PlanInv' /\ PcInv'
<1>1. Shaped(plan) => Shaped(plan)'
  BY ShapeKept
<1>2. (Learning <=> Learning') /\ Aim' = Aim
  BY DEF Learning, Aim
<1> QED
  BY <1>1, <1>2, AimFacts DEF PlanInv, PcInv

LEMMA LearnsPlan ==
  ASSUME Types, PlanInv, PcInv, ~Ended, pc = "await", UNCHANGED options,
         NEW s \in MeterStates \cup {NoSnapshot}, Learns(s)
  PROVE  PlanInv' /\ PcInv'
<1>0. plan # <<>>
  BY DEF Ended
<1>1. CASE /\ plan' = Plan(s) /\ pc' \in {"drain", "poll"} /\ (plan' = <<>> => pc' = "poll")
           /\ plan' # <<>> /\ Head(plan').kind = "sweep" => pc' = "drain"
  BY <1>1, LearnShaped
<1>2. CASE Aim.kind # "learn" /\ (GiveUp \/ Advance(Tail(plan), TRUE))
  BY <1>0, <1>2, AimFacts, EndShaped
<1>3. CASE Aim.kind # "learn" /\ UNCHANGED <<plan, original, warned>> /\ pc' = "press"
  <2>1. ~Learning /\ Aim.kind # "sweep"
    BY <1>0, <1>3, AimFacts DEF PcInv
  <2> QED
    BY <1>0, <1>3, <2>1, PlaceKept
<1> QED
  BY <1>1, <1>2, <1>3, LearnsCases

LEMMA PlanStep ==
  ASSUME Types, PlanInv, PcInv, [Next]_vars
  PROVE  PlanInv' /\ PcInv'
<1>1. UNCHANGED options
  BY DEF Next, Unplug, Interrupt, Pump, Poll, Await, Press, Drain, Write, Answer, vars
<1>2. CASE Unplug \/ Interrupt \/ Pump \/ UNCHANGED vars
  <2>1. UNCHANGED <<plan, pc, original, warned>>
    BY <1>2 DEF Unplug, Interrupt, Pump, vars
  <2>2. CASE plan # <<>>
    <3>1. pc' = pc
      BY <2>1
    <3> QED
      BY <1>1, <2>1, <2>2, <3>1, AimFacts, PlaceKept DEF PcInv
  <2>3. CASE plan = <<>>
    <3>1. Shaped(plan) => Shaped(plan)'
      BY <1>1, <2>1, ShapeKept
    <3>2. ~Learning
      BY <2>3 DEF Learning
    <3> QED
      BY <2>1, <2>3, <3>1, <3>2 DEF PlanInv, PcInv
  <2> QED
    BY <2>2, <2>3
<1>3. CASE Poll
  <2>1. plan # <<>> /\ pc = "poll" /\ pc' = "await" /\ UNCHANGED <<plan, original, warned>>
    BY <1>3 DEF Poll, Ended
  <2>2. Learning \/ (~Learning /\ Aim.kind # "sweep")
    BY <2>1 DEF PcInv
  <2> QED
    BY <1>1, <2>1, <2>2, PlaceKept
<1>4. CASE Await
  <2>1. ~Ended /\ pc = "await" /\ ((\E s \in MeterStates \cup {NoSnapshot} : Learns(s)) \/ GoesOn)
    BY <1>4, AwaitCases
  <2>2. CASE GoesOn
    <3>1. plan # <<>> /\ pc' = "await" /\ UNCHANGED <<plan, original, warned>>
      BY <2>1, <2>2 DEF Ended, GoesOn
    <3>2. Learning \/ (~Learning /\ Aim.kind # "sweep")
      BY <2>1, <3>1 DEF PcInv
    <3> QED
      BY <1>1, <3>1, <3>2, PlaceKept
  <2> QED
    BY <1>1, <2>1, <2>2, LearnsPlan
<1>5. CASE Press
  <2>1. /\ plan # <<>> /\ ~Learning /\ Aim.kind # "sweep"
        /\ GiveUp \/ (pc' = "drain" /\ UNCHANGED <<plan, original, warned>>)
    BY <1>5, AimFacts DEF Press, Ended, Keys
  <2> QED
    BY <1>1, <2>1, EndShaped, PlaceKept
<1>6. CASE Drain
  <2>1. /\ plan # <<>> /\ ~Learning
        /\ \/ GiveUp
           \/ UNCHANGED <<plan, original, warned>> /\ Aim.kind = "sweep" /\ pc' = "write"
           \/ UNCHANGED <<plan, original, warned>> /\ Aim.kind # "sweep" /\ pc' = "poll"
    BY <1>6, AimFacts DEF Drain, Ended
  <2> QED
    BY <1>1, <2>1, EndShaped, PlaceKept
<1>7. CASE Write
  <2>1. plan # <<>> /\ ~Learning /\ Aim.kind = "sweep" /\ pc' \in {"write", "answer"} /\ UNCHANGED <<plan, original, warned>>
    BY <1>7, AimFacts DEF Write, Ended
  <2> QED
    BY <1>1, <2>1, PlaceKept
<1>8. CASE Answer
  <2>1. /\ plan # <<>> /\ ~Learning /\ Aim.kind = "sweep" /\ UNCHANGED <<original, warned>>
        /\ Advance(Tail(plan), TRUE) \/ (UNCHANGED plan /\ pc' \in {"write", "drain", "answer"})
    BY <1>8, AimFacts DEF Answer, Ended, Captured, Fails
  <2> QED
    BY <1>1, <2>1, EndShaped, PlaceKept
<1> QED
  BY <1>2, <1>3, <1>4, <1>5, <1>6, <1>7, <1>8 DEF Next

-----------------------------------------------------------------------------
(* The line.                                                                *)

Quiet        == reads = <<>> /\ wire = <<>>
OneAnswer(r) == (reads = <<r>> /\ wire = <<>>) \/ (reads = <<>> /\ wire = <<r>>)

\* While nothing disturbs the line at most one answer is on its way, and what
\* the probe waits for is the meter's state.
LineInv ==
  Undisturbed =>
    /\ pumping
    /\ \/ Quiet
       \/ pc = "await" /\ OneAnswer(meter)
       \/ pc \in {"drain", "answer"} /\ \E r \in Readings : OneAnswer(r)

\* Without a fault the answer is there.
AnswerInv == faults = 0 => Undisturbed /\ (pc = "await" => OneAnswer(meter))

\* What was disturbed stays so.
LEMMA Disturbed ==
  ASSUME Types, [Next]_vars, Undisturbed'
  PROVE  Undisturbed /\ ~interrupted /\ ~interrupted' /\ plugged /\ late' = late
<1>1. plugged' => plugged
  BY DEF Next, Unplug, Interrupt, Pump, Poll, Await, Press, Drain, Write, Answer, vars, link
<1>2. ~interrupted' => ~interrupted
  BY DEF Next, Unplug, Interrupt, Pump, Poll, Await, Press, Drain, Write, Answer, vars, link
<1>3. late' = late \/ late' = TRUE
  BY AwaitCases DEF Next, Unplug, Interrupt, Pump, Poll, Press, Drain, Write, Answer, vars
<1> QED
  BY <1>1, <1>2, <1>3 DEF Undisturbed

LEMMA Single ==
  ASSUME NEW r, NEW q
  PROVE  /\ Append(<<>>, r) = <<r>> /\ Head(<<r>>) = r /\ Tail(<<r>>) = <<>> /\ <<r>> # <<>>
         /\ (<<r>> = <<q>> <=> r = q)
<1>1. /\ Append(<<>>, r) = <<r>> /\ Head(<<r>>) = r /\ Tail(<<r>>) = <<>>
  OBVIOUS
<1>2. Len(<<r>>) = 1 /\ <<r>>[1] = r /\ <<q>>[1] = q
  OBVIOUS
<1> QED
  BY <1>1, <1>2

\* An undisturbed wait ends with the meter's state, or with nothing when the
\* answer was lost.
LEMMA AwaitUndisturbed ==
  ASSUME Types, LineInv, Undisturbed, Undisturbed', Await
  PROVE  /\ UNCHANGED <<meter, options, link, failed, faults>> /\ Quiet'
         /\ \/ OneAnswer(meter) /\ Learns(meter)
            \/ Quiet /\ (Learns(NoSnapshot) \/ GoesOn)
<1>1. /\ meter \in MeterStates /\ meter \notin {Other, Gone} /\ pc = "await" /\ ~interrupted
      /\ Quiet \/ OneAnswer(meter)
      /\ UNCHANGED <<meter, wire, link, options, failed>> /\ late' # TRUE
  BY Readable, AwaitCases DEF Types, LineInv, Undisturbed
<1>2. CASE /\ reads # <<>> /\ reads' = Tail(reads) /\ UNCHANGED <<late, faults>>
           /\ \/ Head(reads) \in MeterStates /\ Learns(Head(reads))
              \/ Head(reads) \in {Other, Gone} /\ (Learns(NoSnapshot) \/ GoesOn)
  <2>1. reads = <<meter>> /\ wire = <<>>
    BY <1>1, <1>2 DEF Quiet, OneAnswer
  <2>2. Head(reads) = meter /\ Tail(reads) = <<>>
    BY <2>1, Single
  <2> QED
    BY <1>1, <1>2, <2>1, <2>2 DEF Quiet, OneAnswer
<1>3. CASE /\ reads = <<>> /\ reads' = reads /\ (Learns(NoSnapshot) \/ GoesOn)
           /\ wire = <<>> /\ UNCHANGED <<late, faults>>
  BY <1>1, <1>3 DEF Quiet
<1> QED
  BY <1>1, <1>2, <1>3, AwaitCases

\* The place a goal that ends leads to.
LEMMA EndPlace ==
  ASSUME Types, plan # <<>>, GiveUp \/ Advance(Tail(plan), TRUE)
  PROVE  pc' \in {"drain", "poll"} /\ step' = 0
<1>1. PICK reached \in BOOLEAN : Advance(Tail(plan), reached)
  BY DEF GiveUp
<1> QED
  BY <1>1, Advanced

LEMMA LearnsPlace ==
  ASSUME Types, ~Ended, NEW s \in MeterStates \cup {NoSnapshot}, Learns(s)
  PROVE  pc' \in {"drain", "poll", "press"}
<1>1. plan # <<>>
  BY DEF Ended
<1> QED
  BY <1>1, LearnsCases, EndPlace

LEMMA PumpUndisturbed ==
  ASSUME Types, Undisturbed, Pump, pumping'
  PROVE  /\ wire # <<>> /\ reads' = Append(reads, Head(wire)) /\ wire' = Tail(wire)
         /\ UNCHANGED <<meter, plugged, interrupted, options, plan, pc, step, tries, original, failed, faults, late, warned>>
BY DEF Pump, Undisturbed

LEMMA LineStep ==
  ASSUME Types, PlanInv, PcInv, LineInv, [Next]_vars, Undisturbed'
  PROVE  /\ pumping'
         /\ \/ Quiet'
            \/ pc' = "await" /\ OneAnswer(meter)'
            \/ pc' \in {"drain", "answer"} /\ (\E r \in Readings : OneAnswer(r))'
<1>0. /\ Undisturbed /\ ~interrupted /\ ~interrupted' /\ plugged /\ plugged' /\ pumping /\ late' # TRUE
      /\ meter \in MeterStates /\ meter \in Readings /\ Other \in Readings
  BY Disturbed DEF Undisturbed, LineInv, Types, Readings
<1>1. Quiet \/ (pc = "await" /\ OneAnswer(meter)) \/ (pc \in {"drain", "answer"} /\ \E r \in Readings : OneAnswer(r))
  BY <1>0 DEF LineInv
<1>2. CASE Unplug \/ Interrupt \/ UNCHANGED vars
  <2>1. UNCHANGED vars
    BY <1>0, <1>2 DEF Unplug, Interrupt
  <2> QED
    BY <1>0, <1>1, <2>1 DEF vars, link, Quiet, OneAnswer
<1>3. CASE Pump
  <2>1. /\ wire # <<>> /\ reads' = Append(reads, Head(wire)) /\ wire' = Tail(wire) /\ UNCHANGED <<meter, pc>>
        /\ pumping'
    BY <1>0, <1>3 DEF Pump
  <2>2. \A r : OneAnswer(r) => OneAnswer(r)'
    <3> SUFFICES ASSUME NEW r, OneAnswer(r) PROVE reads' = <<r>> /\ wire' = <<>>
      BY DEF OneAnswer
    <3>1. reads = <<>> /\ wire = <<r>>
      BY <2>1 DEF OneAnswer
    <3> QED
      BY <2>1, <3>1, Single
  <2>3. ~Quiet
    BY <2>1 DEF Quiet
  <2>4. OneAnswer(meter) => OneAnswer(meter)'
    BY <2>1, <2>2 DEF OneAnswer
  <2>5. (\E r \in Readings : OneAnswer(r)) => (\E r \in Readings : OneAnswer(r))'
    BY <2>2
  <2> QED
    BY <1>1, <2>1, <2>3, <2>4, <2>5
<1>4. CASE Poll
  <2>1. Quiet /\ pc' = "await" /\ UNCHANGED <<reads, pumping>> /\ Sends(meter, meter)
    BY <1>1, <1>4 DEF Poll, link
  <2>2. meter' = meter /\ (wire' = Append(wire, meter) \/ wire' = wire)
    BY <1>0, <2>1, Sent
  <2>3. wire' = <<meter>> \/ wire' = <<>>
    BY <2>1, <2>2, Single DEF Quiet
  <2> QED
    BY <1>0, <2>1, <2>2, <2>3 DEF Quiet, OneAnswer
<1>5. CASE Await
  BY <1>0, <1>5, AwaitUndisturbed DEF link
<1>6. CASE Press
  <2>1. /\ Quiet /\ pc' = "drain" /\ UNCHANGED <<reads, pumping>> /\ Sends(Pressed(Aim.kind), Other)
    BY <1>0, <1>1, <1>6 DEF Press, link
  <2>2. Pressed(Aim.kind) \in MeterStates
    BY <1>6, AimFacts, PressedStates DEF Press, Ended, Keys
  <2>3. wire' = Append(wire, Other) \/ wire' = wire
    BY <1>0, <2>1, <2>2, Sent
  <2>4. wire' = <<Other>> \/ wire' = <<>>
    BY <2>1, <2>3, Single DEF Quiet
  <2>5. Quiet' \/ OneAnswer(Other)'
    BY <2>1, <2>4 DEF Quiet, OneAnswer
  <2> QED
    BY <1>0, <2>1, <2>5 DEF OneAnswer
<1>7. CASE Drain
  BY <1>0, <1>7 DEF Drain, link, Quiet
<1>8. CASE Write
  <2>1. /\ Quiet /\ pc' = "answer" /\ UNCHANGED <<reads, pumping>>
        /\ \E r \in Readings : Sends(meter, r)
    BY <1>0, <1>1, <1>8 DEF Write, link
  <2>2. PICK r \in Readings : Sends(meter, r)
    BY <2>1
  <2>3. wire' = Append(wire, r) \/ wire' = wire
    BY <1>0, <2>2, Sent
  <2>4. wire' = <<r>> \/ wire' = <<>>
    BY <2>1, <2>3, Single DEF Quiet
  <2> QED
    BY <1>0, <2>1, <2>4 DEF Quiet, OneAnswer
<1>9. CASE Answer
  <2>1. /\ UNCHANGED <<wire, pumping>> /\ pc = "answer"
        /\ (reads # <<>> /\ reads' = Tail(reads)) \/ (reads = <<>> /\ reads' = reads /\ wire = <<>>)
    BY <1>0, <1>9 DEF Answer, link
  <2>2. reads' = <<>> /\ wire' = <<>>
    <3>1. \A r : reads = <<r>> => Tail(reads) = <<>>
      BY Single
    <3> QED
      BY <1>1, <2>1, <3>1 DEF Quiet, OneAnswer
  <2> QED
    BY <1>0, <2>1, <2>2 DEF Quiet
<1> QED
  BY <1>2, <1>3, <1>4, <1>5, <1>6, <1>7, <1>8, <1>9 DEF Next

-----------------------------------------------------------------------------
(* What a step does to the goals while nothing disturbs the line.           *)

SameGoal == UNCHANGED <<meter, plan, original, warned>>

Idles ==
  /\ SameGoal /\ UNCHANGED <<step, pc, faults>>
  /\ (Quiet' => Quiet) /\ (OneAnswer(meter) => OneAnswer(meter)')

Polls ==
  /\ pc = "poll" /\ pc' = "await" /\ SameGoal /\ UNCHANGED step /\ plan # <<>>
  /\ \/ OneAnswer(meter)' /\ ~Quiet' /\ faults' = faults
     \/ faults' = faults + 1

GoesToPress ==
  /\ pc = "await" /\ pc' = "press" /\ SameGoal /\ UNCHANGED <<step, faults>>
  /\ plan # <<>> /\ ~Learning /\ Aim.kind \in Keys
  /\ (Quiet /\ ~OneAnswer(meter)) \/ ~Met(Aim, meter)

Presses1 ==
  /\ pc = "press" /\ pc' = "drain" /\ UNCHANGED <<plan, original, warned>> /\ step' = step + 1
  /\ plan # <<>> /\ ~Learning /\ Aim.kind \in Keys
  /\ \/ meter' = Pressed(Aim.kind) /\ faults' = faults
     \/ meter' \in {meter, Pressed(Aim.kind)} /\ faults' = faults + 1

MovesOn ==
  /\ SameGoal /\ pc' \notin {"await", "press"} /\ plan # <<>> /\ ~Learning
  /\ Aim.kind = "sweep" \/ (pc = "drain" /\ UNCHANGED <<step, faults>>)

LearnsFirst(s) ==
  /\ Learning /\ pc = "await" /\ plan # <<>> /\ pc' \in {"drain", "poll"}
  /\ original' = s /\ plan' = Plan(s) /\ step' = 0 /\ UNCHANGED <<meter, warned, faults>>
  /\ s = meter \/ (s = NoSnapshot /\ ~OneAnswer(meter))

Reaches ==
  /\ ~Learning /\ plan # <<>> /\ Aim.kind \in Keys /\ Met(Aim, meter)
  /\ Advance(Tail(plan), TRUE) /\ UNCHANGED <<meter, original, warned, faults>>

Sweeps ==
  /\ ~Learning /\ plan # <<>> /\ Aim.kind = "sweep"
  /\ Advance(Tail(plan), TRUE) /\ UNCHANGED <<meter, original, warned>>

GivesUp ==
  /\ ~Learning /\ plan # <<>> /\ Aim.kind \in Keys
  /\ GiveUp /\ UNCHANGED <<meter, original, faults>>
  /\ \/ pc = "drain" /\ step = Budget(Aim)
     \/ pc = "await" /\ Aim.kind # "page" /\ (~OneAnswer(meter) \/ Hopeless(Aim, meter))

Steps ==
  \/ Idles \/ Polls \/ GoesToPress \/ Presses1 \/ MovesOn
  \/ \E s \in MeterStates \cup {NoSnapshot} : LearnsFirst(s)
  \/ Reaches \/ Sweeps \/ GivesUp

LEMMA QuietOrNot ==
  ASSUME NEW r
  PROVE  OneAnswer(r) => ~Quiet
BY Single DEF OneAnswer, Quiet

\* What is learnt while nothing disturbs the line.
LEMMA LearnsSteps ==
  ASSUME Types, PlanInv, PcInv, ~Ended, pc = "await", UNCHANGED <<meter, faults>>,
         NEW s \in MeterStates \cup {NoSnapshot}, Learns(s),
         (s = meter /\ OneAnswer(meter)) \/ (s = NoSnapshot /\ Quiet)
  PROVE  Steps
<1>0. /\ plan # <<>> /\ (Learning <=> Aim.kind = "learn")
      /\ s = meter \/ (s = NoSnapshot /\ ~OneAnswer(meter))
      /\ ~Learning => Aim.kind \in Keys /\ GoalOK(Aim)
      /\ meter \in MeterStates
  BY AimFacts, QuietOrNot DEF Ended, PcInv, Types
<1>1. CASE /\ Aim.kind = "learn" /\ original' = s /\ plan' = Plan(s)
           /\ step' = 0 /\ UNCHANGED warned /\ pc' \in {"drain", "poll"}
  <2>1. LearnsFirst(s)
    BY <1>0, <1>1 DEF LearnsFirst
  <2> QED
    BY <2>1 DEF Steps
<1>2. CASE Aim.kind # "learn" /\ UNCHANGED original /\ Hopeless(Aim, s) /\ GiveUp
  <2>1. Aim.kind # "page"
    BY <1>2 DEF Hopeless
  <2>2. GivesUp
    BY <1>0, <1>2, <2>1 DEF GivesUp
  <2> QED
    BY <2>2 DEF Steps
<1>3. CASE Aim.kind # "learn" /\ UNCHANGED original /\ Met(Aim, s) /\ Advance(Tail(plan), TRUE) /\ UNCHANGED warned /\ s = meter
  <2>1. Reaches
    BY <1>0, <1>3 DEF Reaches
  <2> QED
    BY <2>1 DEF Steps
<1>4. CASE Aim.kind # "learn" /\ UNCHANGED original /\ ~Met(Aim, s) /\ pc' = "press" /\ UNCHANGED <<plan, step, tries, warned>>
  <2>1. GoesToPress
    BY <1>0, <1>4, QuietOrNot DEF GoesToPress, SameGoal
  <2> QED
    BY <2>1 DEF Steps
<1>5. CASE s = NoSnapshot /\ Aim.kind # "learn" /\ Met(Aim, s) /\ Advance(Tail(plan), TRUE) /\ ~Hopeless(Aim, s)
  <2>1. Aim.kind = "page" /\ Aim.target \in 1..PageCount
    BY <1>0, <1>5 DEF Hopeless, GoalOK
  <2>2. s.page = Aim.target
    BY <1>5, <2>1 DEF Met
  <2>3. s.page = 0
    BY <1>5 DEF NoSnapshot
  <2> QED
    BY <2>1, <2>2, <2>3 DEF PageCount
<1> QED
  BY <1>0, <1>1, <1>2, <1>3, <1>4, <1>5, LearnsCases

LEMMA StepsCovered ==
  ASSUME Types, PlanInv, PcInv, LineInv, [Next]_vars, Undisturbed'
  PROVE  Steps /\ faults' \in Nat /\ faults' >= faults /\ UNCHANGED options /\ Undisturbed
<1>0. /\ Undisturbed /\ ~interrupted /\ ~interrupted' /\ plugged /\ plugged' /\ pumping /\ late' # TRUE
      /\ meter \in MeterStates /\ meter \in Readings /\ faults \in Nat
  BY Disturbed DEF Undisturbed, LineInv, Types, Readings
<1>1. UNCHANGED options
  BY DEF Next, Unplug, Interrupt, Pump, Poll, Await, Press, Drain, Write, Answer, vars
<1>2. CASE Unplug \/ Interrupt \/ UNCHANGED vars
  <2>1. UNCHANGED vars
    BY <1>0, <1>2 DEF Unplug, Interrupt
  <2>2. Idles
    BY <2>1 DEF vars, link, Idles, SameGoal, Quiet, OneAnswer
  <2> QED
    BY <1>0, <1>1, <2>1, <2>2 DEF Steps, vars
<1>3. CASE Pump
  <2>1. /\ wire # <<>> /\ reads' = Append(reads, Head(wire)) /\ wire' = Tail(wire)
        /\ UNCHANGED <<meter, plan, original, warned, step, pc, faults>>
    BY <1>0, <1>3 DEF Pump
  <2>2. OneAnswer(meter) => OneAnswer(meter)'
    <3> SUFFICES ASSUME OneAnswer(meter) PROVE reads' = <<meter>> /\ wire' = <<>>
      BY <2>1 DEF OneAnswer
    <3>1. reads = <<>> /\ wire = <<meter>>
      BY <2>1 DEF OneAnswer
    <3> QED
      BY <2>1, <3>1, Single
  <2>3. ~Quiet'
    <3>1. reads \in Seq(Readings \cup {Gone}) /\ Head(wire) \in Readings \cup {Gone}
      BY <2>1, Rest DEF Types
    <3>2. Len(Append(reads, Head(wire))) = Len(reads) + 1 /\ Len(reads) \in Nat
      BY <3>1
    <3>3. Append(reads, Head(wire)) # <<>>
      BY <3>2
    <3> QED
      BY <2>1, <3>3 DEF Quiet
  <2>4. Idles
    BY <2>1, <2>2, <2>3 DEF Idles, SameGoal
  <2> QED
    BY <1>0, <1>1, <2>1, <2>4 DEF Steps
<1>4. CASE Poll
  <2>1. /\ Quiet /\ pc = "poll" /\ pc' = "await" /\ UNCHANGED <<reads, plan, original, warned, step>> /\ Sends(meter, meter)
        /\ plan # <<>>
    BY <1>0, <1>4 DEF Poll, LineInv, Ended
  <2>2. /\ meter' = meter /\ faults' \in Nat
        /\ (wire' = Append(wire, meter) /\ faults' = faults) \/ faults' = faults + 1
    BY <1>0, <2>1, Sent
  <2>3. (wire' = <<meter'>> /\ faults' = faults) \/ faults' = faults + 1
    BY <2>1, <2>2, Single DEF Quiet
  <2>4. wire' = <<meter'>> => OneAnswer(meter)' /\ ~Quiet'
    BY <2>1, Single DEF Quiet, OneAnswer
  <2>5. Polls
    BY <2>1, <2>2, <2>3, <2>4 DEF Polls, SameGoal
  <2> QED
    BY <1>0, <1>1, <2>2, <2>3, <2>5 DEF Steps
<1>5. CASE Await
  <2>1. /\ UNCHANGED <<meter, faults>> /\ Quiet' /\ ~Ended /\ pc = "await"
        /\ (OneAnswer(meter) /\ Learns(meter)) \/ (Quiet /\ (Learns(NoSnapshot) \/ GoesOn))
    BY <1>0, <1>5, AwaitUndisturbed, AwaitCases
  <2>2. CASE OneAnswer(meter) /\ Learns(meter)
    BY <1>0, <1>1, <2>1, <2>2, LearnsSteps
  <2>3. CASE Quiet /\ Learns(NoSnapshot)
    BY <1>0, <1>1, <2>1, <2>3, LearnsSteps
  <2>4. CASE Quiet /\ GoesOn
    <3>1. Idles
      BY <2>1, <2>4, QuietOrNot DEF GoesOn, Idles, SameGoal
    <3> QED
      BY <1>0, <1>1, <2>1, <3>1 DEF Steps
  <2> QED
    BY <2>1, <2>2, <2>3, <2>4
<1>6. CASE Press
  <2>1. /\ plan # <<>> /\ ~Learning /\ Aim.kind \in Keys /\ pc = "press" /\ pc' = "drain"
        /\ UNCHANGED <<plan, original, warned>> /\ Sends(Pressed(Aim.kind), Other) /\ step' = step + 1
    BY <1>0, <1>6, AimFacts DEF Press, Ended, Counted
  <2>2. Pressed(Aim.kind) \in MeterStates /\ Other \in Readings
    BY <2>1, PressedStates DEF Keys, Readings
  <2>3. /\ meter' \in {meter, Pressed(Aim.kind)} /\ faults' \in Nat
        /\ (meter' = Pressed(Aim.kind) /\ faults' = faults) \/ faults' = faults + 1
    BY <1>0, <2>1, <2>2, Sent
  <2>4. Presses1
    BY <2>1, <2>3 DEF Presses1
  <2> QED
    BY <1>0, <1>1, <2>3, <2>4 DEF Steps
<1>7. CASE Drain
  <2>1. /\ plan # <<>> /\ ~Learning /\ UNCHANGED <<meter, original, faults>> /\ pc = "drain"
        /\ \/ Aim.kind = "sweep" /\ pc' = "write" /\ UNCHANGED <<plan, step, tries, warned>>
           \/ Aim.kind # "sweep" /\ step = Budget(Aim) /\ GiveUp
           \/ Aim.kind # "sweep" /\ step < Budget(Aim) /\ pc' = "poll" /\ UNCHANGED <<plan, step, tries, warned>>
    BY <1>0, <1>7, AimFacts DEF Drain, Ended
  <2>2. MovesOn \/ GivesUp
    BY <2>1, AimFacts DEF MovesOn, GivesUp, SameGoal
  <2> QED
    BY <1>0, <1>1, <2>1, <2>2 DEF Steps
<1>8. CASE Write
  <2>1. /\ plan # <<>> /\ ~Learning /\ Aim.kind = "sweep" /\ pc' = "answer"
        /\ UNCHANGED <<plan, original, warned>> /\ \E r \in Readings : Sends(meter, r)
    BY <1>0, <1>8, AimFacts DEF Write, Ended, Readings
  <2>2. meter' = meter /\ faults' \in Nat /\ faults' >= faults
    BY <1>0, <2>1, Sent
  <2>3. MovesOn
    BY <2>1, <2>2 DEF MovesOn, SameGoal
  <2> QED
    BY <1>0, <1>1, <2>2, <2>3 DEF Steps
<1>9. CASE Answer
  <2>1. /\ plan # <<>> /\ ~Learning /\ Aim.kind = "sweep"
        /\ UNCHANGED <<meter, original, warned>> /\ (faults' = faults \/ Fault)
        /\ Advance(Tail(plan), TRUE) \/ (UNCHANGED plan /\ pc' \in {"write", "drain", pc})
    BY <1>9, AimFacts DEF Answer, Ended, Captured, Fails
  <2>2. faults' \in Nat /\ faults' >= faults
    BY <1>0, <2>1 DEF Fault
  <2>3. pc = "answer"
    BY <1>9 DEF Answer
  <2>4. MovesOn \/ Sweeps
    BY <2>1, <2>3 DEF MovesOn, Sweeps, SameGoal
  <2> QED
    BY <1>0, <1>1, <2>2, <2>4 DEF Steps
<1> QED
  BY <1>2, <1>3, <1>4, <1>5, <1>6, <1>7, <1>8, <1>9 DEF Next

\* Without a fault nothing disturbs the line, and an answer is waited for only
\* while it is on its way.
LEMMA FaultsGrow ==
  ASSUME Types, [Next]_vars
  PROVE  faults' >= faults
<1>1. faults \in Nat /\ faults >= faults /\ faults + 1 >= faults
  BY DEF Types
<1>2. faults' = faults \/ faults' = faults + 1
  BY AwaitCases DEF Next, Unplug, Interrupt, Pump, Poll, Press, Drain, Write, Answer, vars, Sends, Fault
<1> QED
  BY <1>1, <1>2

LEMMA NoFault ==
  ASSUME Types, AnswerInv, [Next]_vars, faults' = 0
  PROVE  faults = 0 /\ Undisturbed /\ Undisturbed'
<1>1. faults = 0 /\ Undisturbed
  BY FaultsGrow DEF Types, AnswerInv
<1>2. ~Fault
  BY <1>1 DEF Fault
<1>3. plugged' = plugged /\ interrupted' = interrupted
  BY <1>2 DEF Next, Unplug, Interrupt, Pump, Poll, Await, Press, Drain, Write, Answer, vars, link
<1>4. late' = late
  BY <1>2, AwaitCases DEF Next, Unplug, Interrupt, Pump, Poll, Press, Drain, Write, Answer, vars
<1> QED
  BY <1>1, <1>3, <1>4 DEF Undisturbed

LEMMA AnswerStep ==
  ASSUME Types, PlanInv, PcInv, LineInv, AnswerInv, [Next]_vars, faults' = 0
  PROVE  pc' = "await" => OneAnswer(meter)'
<1>1. faults = 0 /\ Undisturbed'
  BY NoFault
<1>2. pc = "await" => OneAnswer(meter)
  BY <1>1 DEF AnswerInv
<1>3. Steps /\ UNCHANGED options
  BY <1>1, StepsCovered
<1>4. \/ Idles \/ Polls \/ pc' # "await"
  <2>1. Reaches \/ Sweeps \/ GivesUp => pc' # "await"
    BY EndPlace DEF Reaches, Sweeps, GivesUp
  <2> QED
    BY <1>3, <2>1 DEF Steps, GoesToPress, Presses1, MovesOn, LearnsFirst
<1> QED
  BY <1>1, <1>2, <1>4 DEF Idles, Polls

-----------------------------------------------------------------------------
(* The way to a page.                                                       *)

\* The presses that lead from one state of a cycle of n states to another.
Away(from, to, n) == IF from <= to THEN to - from ELSE to - from + n

LEMMA AwayOne ==
  ASSUME NEW n \in Nat, NEW from \in 0..n, NEW to \in 0..n
  PROVE  /\ Away(from, to, n + 1) \in 0..n /\ (Away(from, to, n + 1) = 0 <=> from = to)
BY DEF Away

PageAway == Away(meter.page, Aim.target, PageCount)

\* The probe is going to press a key that leads away from the goal, and once
\* around.
Astray ==
  \/ pc = "await" /\ Quiet
  \/ pc = "press" /\ PageAway = 0

\* Each fault costs at most one turn of the page key.
Turns == PageCount * faults

PageInv ==
  Undisturbed /\ plan # <<>> /\ Aim.kind = "page" =>
    PageAway + step + (IF Astray THEN PageCount ELSE 0) <= PageCount - 1 + Turns

\* The page a goal asks for.
LEMMA NextPage ==
  ASSUME Types', PlanInv', plan' # <<>>, Aim'.kind = "page"
  PROVE  /\ Aim'.target \in 1..PageCount /\ meter'.page \in 1..PageCount
         /\ PageAway' \in 0..(PageCount - 1)
<1>1. Aim' = plan'[1] /\ Len(plan') \in Nat /\ Len(plan') >= 1 /\ meter' \in MeterStates
  <2>1. plan' \in Seq(Goals) /\ meter' \in MeterStates
    BY DEF Types
  <2> QED
    BY <2>1, Rest DEF Aim
<1>2. Learning' => Aim'.kind = "learn"
  BY DEF Learning, Aim, Goal
<1>3. Aim'.target \in 1..PageCount
  BY <1>1, <1>2 DEF PlanInv, Shaped, GoalOK
<1>4. meter'.page \in 1..PageCount
  BY <1>1, Readable
<1>5. PageAway' \in 0..(PageCount - 1)
  BY <1>3, <1>4 DEF PageAway, Away, PageCount
<1> QED
  BY <1>3, <1>4, <1>5

LEMMA ThisPage ==
  ASSUME Types, PlanInv, plan # <<>>, Aim.kind = "page"
  PROVE  /\ Aim.target \in 1..PageCount /\ meter.page \in 1..PageCount /\ PageAway \in 0..(PageCount - 1)
         /\ PageAway = 0 <=> meter.page = Aim.target
         /\ Away(Pressed("page").page, Aim.target, PageCount) =
              IF PageAway = 0 THEN PageCount - 1 ELSE PageAway - 1
<1>1. Aim = plan[1] /\ Len(plan) \in Nat /\ Len(plan) >= 1 /\ meter \in MeterStates
  BY Rest DEF Aim, Types
<1>2. Learning => Aim.kind = "learn"
  BY DEF Learning, Aim, Goal
<1>3. Aim.target \in 1..PageCount
  BY <1>1, <1>2 DEF PlanInv, Shaped, GoalOK
<1>4. meter.page \in 1..PageCount
  BY <1>1, Readable
<1>6. Pressed("page").page = IF meter.page = PageCount THEN 1 ELSE meter.page + 1
  BY PressedStates
<1>7. Away(Pressed("page").page, Aim.target, PageCount) = IF PageAway = 0 THEN PageCount - 1 ELSE PageAway - 1
  BY <1>3, <1>4, <1>6 DEF PageAway, Away, PageCount
<1>8. PageAway \in 0..(PageCount - 1) /\ (PageAway = 0 <=> meter.page = Aim.target)
  BY <1>3, <1>4 DEF PageAway, Away, PageCount
<1> QED
  BY <1>3, <1>4, <1>7, <1>8

LEMMA TurnsGrow ==
  ASSUME faults \in Nat, faults' \in Nat
  PROVE  /\ Turns \in Nat /\ Turns' \in Nat
         /\ faults' = faults => Turns' = Turns
         /\ faults' = faults + 1 => Turns' = Turns + PageCount
<1>1. \A f \in Nat : PageCount * f \in Nat
  BY DEF PageCount
<1>2. \A f \in Nat : PageCount * (f + 1) = PageCount * f + PageCount
  BY DEF PageCount
<1>3. Turns = PageCount * faults /\ Turns' = PageCount * faults'
  BY DEF Turns
<1> QED
  BY <1>1, <1>2, <1>3

LEMMA PageStep ==
  ASSUME Types, Types', PlanInv, PlanInv', PcInv, Undisturbed, Steps, faults' >= faults, PageInv,
         plan' # <<>>, Aim'.kind = "page"
  PROVE  PageAway' + step' + (IF Astray' THEN PageCount ELSE 0) <= PageCount - 1 + Turns'
<1>0. /\ faults \in Nat /\ faults' \in Nat /\ step \in Nat /\ step' \in Nat
      /\ PageAway' \in 0..(PageCount - 1) /\ PageCount = 4
      /\ Turns \in Nat /\ Turns' \in Nat
      /\ (faults' = faults => Turns' = Turns) /\ (faults' = faults + 1 => Turns' = Turns + PageCount)
  <2>1. faults \in Nat /\ faults' \in Nat /\ step \in Nat /\ step' \in Nat /\ PageAway' \in 0..(PageCount - 1)
    BY NextPage DEF Types
  <2>2. PageCount = 4
    BY DEF PageCount
  <2> QED
    BY <2>1, <2>2, TurnsGrow
<1>1. ASSUME step' = 0, pc' \in {"drain", "poll"}
      PROVE  PageAway' + step' + (IF Astray' THEN PageCount ELSE 0) <= PageCount - 1 + Turns'
  <2>1. (IF Astray' THEN PageCount ELSE 0) = 0
    BY <1>1 DEF Astray
  <2>2. \A a \in 0..(PageCount - 1), b \in Nat : a + 0 + 0 <= PageCount - 1 + b
    BY DEF PageCount
  <2> QED
    BY <1>0, <1>1, <2>1, <2>2
<1>2. ASSUME plan' = plan
      PROVE  /\ Aim' = Aim /\ plan # <<>> /\ Aim.kind = "page" /\ PageAway \in 0..(PageCount - 1)
             /\ PageAway + step + (IF Astray THEN PageCount ELSE 0) <= PageCount - 1 + Turns
             /\ meter' = meter => PageAway' = PageAway
  <2>1. Aim' = Aim /\ plan # <<>> /\ Aim.kind = "page"
    BY <1>2 DEF Aim
  <2> QED
    BY <2>1, ThisPage DEF PageInv, PageAway
<1>3. CASE Idles
  <2>1. plan' = plan /\ meter' = meter /\ step' = step /\ faults' = faults /\ pc' = pc /\ (Quiet' => Quiet)
    BY <1>3 DEF Idles, SameGoal
  <2>2. PageAway' = PageAway
    BY <1>2, <2>1
  <2>3. Astray' => Astray
    BY <2>1, <2>2 DEF Astray
  <2> QED
    BY <1>0, <1>2, <2>1, <2>2, <2>3
<1>4. CASE Polls
  <2>1. (~Quiet' /\ faults' = faults) \/ faults' = faults + 1
    BY <1>4 DEF Polls, SameGoal
  <2>2. plan' = plan /\ meter' = meter /\ step' = step /\ pc' = "await"
    BY <1>4 DEF Polls, SameGoal
  <2>3. ~Quiet' => ~Astray'
    BY <2>2 DEF Astray
  <2> QED
    BY <1>0, <1>2, <2>1, <2>2, <2>3
<1>5. CASE GoesToPress
  <2>1. /\ plan' = plan /\ meter' = meter /\ step' = step /\ faults' = faults
        /\ pc = "await" /\ pc' = "press" /\ (Quiet \/ ~Met(Aim, meter))
    BY <1>5 DEF GoesToPress, SameGoal
  <2>2. plan' = plan /\ meter' = meter /\ step' = step /\ faults' = faults /\ pc = "await" /\ pc' = "press"
    BY <1>5 DEF GoesToPress, SameGoal
  <2>3. Astray' => Astray
    <3>1. PageAway' = PageAway /\ (Astray' => PageAway = 0)
      BY <1>2, <2>2 DEF Astray
    <3>2. PageAway = 0 => Met(Aim, meter)
      BY <1>2, <2>2, ThisPage DEF Met
    <3> QED
      BY <2>1, <2>2, <3>1, <3>2 DEF Astray
  <2> QED
    BY <1>0, <1>2, <2>2, <2>3
<1>6. CASE Presses1
  <2>1. /\ plan' = plan /\ step' = step + 1 /\ pc = "press" /\ pc' = "drain"
        /\ \/ meter' = Pressed(Aim.kind) /\ faults' = faults
           \/ meter' \in {meter, Pressed(Aim.kind)} /\ faults' = faults + 1
    BY <1>6 DEF Presses1
  <2>2. ~Astray' /\ (Astray <=> PageAway = 0)
    BY <2>1 DEF Astray
  <2>3. meter' = Pressed("page") => PageAway' = IF PageAway = 0 THEN PageCount - 1 ELSE PageAway - 1
    BY <1>2, <2>1, ThisPage DEF PageAway
  <2>4. CASE meter' = Pressed("page") /\ faults' \in {faults, faults + 1}
    <3>1. (IF Astray' THEN PageCount ELSE 0) = 0
      BY <2>2
    <3>2. PageAway + step + (IF PageAway = 0 THEN PageCount ELSE 0) <= PageCount - 1 + Turns
      BY <1>2, <2>1, <2>2
    <3>3. PageAway' + step' <= PageCount - 1 + Turns
      <4>1. \A a \in 0..(PageCount - 1), n, t \in Nat :
              a + n + (IF a = 0 THEN PageCount ELSE 0) <= PageCount - 1 + t =>
                (IF a = 0 THEN PageCount - 1 ELSE a - 1) + (n + 1) <= PageCount - 1 + t
        BY DEF PageCount
      <4>2. PageAway' = (IF PageAway = 0 THEN PageCount - 1 ELSE PageAway - 1) /\ step' = step + 1
        BY <2>1, <2>3, <2>4
      <4>3. PageAway \in 0..(PageCount - 1)
        BY <1>2, <2>1
      <4> QED
        BY <1>0, <3>2, <4>1, <4>2, <4>3
    <3>4. Turns <= Turns'
      BY <1>0, <2>4
    <3>5. \A a, n, t, u \in Nat :
            a + n <= PageCount - 1 + t /\ t <= u => a + n + 0 <= PageCount - 1 + u
      BY DEF PageCount
    <3>6. PageAway' \in Nat
      BY <1>0
    <3> QED
      BY <1>0, <3>1, <3>3, <3>4, <3>5, <3>6
  <2>5. CASE meter' = meter /\ faults' = faults + 1
    BY <1>0, <1>2, <2>1, <2>2, <2>5
  <2> QED
    BY <1>2, <2>1, <2>4, <2>5
<1>7. CASE MovesOn
  <2>1. plan' = plan /\ meter' = meter /\ pc' \notin {"await", "press"}
    BY <1>7 DEF MovesOn, SameGoal
  <2>2. step' = step /\ faults' = faults
    BY <1>2, <1>7, <2>1 DEF MovesOn
  <2>3. ~Astray'
    BY <2>1 DEF Astray
  <2> QED
    BY <1>0, <1>2, <2>1, <2>2, <2>3
<1>8. CASE \E s \in MeterStates \cup {NoSnapshot} : LearnsFirst(s)
  BY <1>1, <1>8 DEF LearnsFirst
<1>9. CASE Reaches \/ Sweeps \/ GivesUp
  BY <1>1, <1>9, EndPlace DEF Reaches, Sweeps, GivesUp
<1> QED
  BY <1>3, <1>4, <1>5, <1>6, <1>7, <1>8, <1>9 DEF Steps

-----------------------------------------------------------------------------
(* What is reached, and what is left to reach.                              *)

\* What a goal that ends leaves: the plan without its first k goals.
Leaves(k, reached) ==
  /\ Len(plan') = Len(plan) - k /\ Len(plan') \in Nat
  /\ \A i \in 1..Len(plan') : i + k \in 1..Len(plan) /\ plan'[i] = plan[i + k]
  /\ k = 2 => ~reached /\ Len(plan) >= 2 /\ plan[2].kind = "sweep"
  /\ k = 1 /\ ~reached /\ Len(plan) >= 2 => ~(plan[2].kind = "sweep" /\ cycleModes)
  /\ plan' # <<>> <=> Len(plan') >= 1
  /\ plan' # <<>> => Aim' = plan'[1]

LEMMA LeftOver ==
  ASSUME Types, plan # <<>>, NEW reached \in BOOLEAN, Advance(Tail(plan), reached)
  PROVE  \E k \in {1, 2} : Leaves(k, reached)
<1>1. /\ plan \in Seq(Goals) /\ Len(plan) \in Nat /\ Len(plan) >= 1
      /\ Tail(plan) \in Seq(Goals) /\ Len(Tail(plan)) = Len(plan) - 1
      /\ \A i \in 1..Len(Tail(plan)) : i + 1 \in 1..Len(plan) /\ Tail(plan)[i] = plan[i + 1]
      /\ Tail(plan) = <<>> <=> Len(plan) = 1
  BY Rest DEF Types
<1>2. Tail(plan) # <<>> => Len(plan) >= 2 /\ Head(Tail(plan)) = plan[2]
  <2> SUFFICES ASSUME Tail(plan) # <<>> PROVE Len(plan) >= 2 /\ Head(Tail(plan)) = plan[2]
    OBVIOUS
  <2>1. Head(Tail(plan)) = Tail(plan)[1] /\ Len(Tail(plan)) >= 1
    BY <1>1, Rest
  <2> QED
    BY <1>1, <2>1
<1>3. plan' \in Seq(Goals) /\ Len(plan') \in Nat /\ (plan' # <<>> <=> Len(plan') >= 1) /\ (plan' # <<>> => Aim' = plan'[1])
  <2>1. plan' \in Seq(Goals)
    BY Advanced
  <2>2. plan' # <<>> => Head(plan') = plan'[1] /\ Len(plan') >= 1
    BY <2>1, Rest
  <2>3. Len(plan') \in Nat /\ (plan' = <<>> => Len(plan') = 0)
    BY <2>1
  <2> QED
    BY <2>1, <2>2, <2>3 DEF Aim
<1>4. CASE plan' = Tail(plan) /\ (~reached /\ Len(plan) >= 2 => ~(plan[2].kind = "sweep" /\ cycleModes))
  <2>1. Leaves(1, reached)
    BY <1>1, <1>3, <1>4 DEF Leaves
  <2> QED
    BY <2>1
<1>5. CASE ~reached /\ Tail(plan) # <<>> /\ Head(Tail(plan)).kind = "sweep" /\ plan' = Tail(Tail(plan))
  <2>1. /\ Len(plan') = Len(Tail(plan)) - 1
        /\ \A i \in 1..Len(plan') : i + 1 \in 1..Len(Tail(plan)) /\ plan'[i] = Tail(plan)[i + 1]
    BY <1>1, <1>5, Rest
  <2>2. Len(plan') = Len(plan) - 2
    BY <1>1, <2>1
  <2>3. ASSUME NEW i \in 1..Len(plan') PROVE i + 2 \in 1..Len(plan) /\ plan'[i] = plan[i + 2]
    <3>1. i + 1 \in 1..Len(Tail(plan)) /\ plan'[i] = Tail(plan)[i + 1]
      BY <2>1
    <3>2. (i + 1) + 1 \in 1..Len(plan) /\ Tail(plan)[i + 1] = plan[(i + 1) + 1]
      BY <1>1, <3>1
    <3>3. (i + 1) + 1 = i + 2
      OBVIOUS
    <3> QED
      BY <3>1, <3>2, <3>3
  <2>4. ~reached /\ Len(plan) >= 2 /\ plan[2].kind = "sweep"
    BY <1>2, <1>5
  <2>5. Leaves(2, reached)
    BY <1>3, <2>2, <2>3, <2>4 DEF Leaves
  <2> QED
    BY <2>5
<1>6. \/ plan' = Tail(plan) /\ (~reached /\ Len(plan) >= 2 => ~(plan[2].kind = "sweep" /\ cycleModes))
      \/ ~reached /\ Tail(plan) # <<>> /\ Head(Tail(plan)).kind = "sweep" /\ plan' = Tail(Tail(plan))
  <2>1. Len(plan) >= 2 => Tail(plan) # <<>>
    BY <1>1
  <2> QED
    BY <1>2, <2>1, Advanced
<1> QED
  BY <1>4, <1>5, <1>6

\* The sweep of a page begins on that page and stays there.
SweepInv ==
  Undisturbed /\ plan # <<>> /\ Aim.kind = "sweep" /\ Aim.target # 0 => meter.page = Aim.target

LEMMA SweepStep ==
  ASSUME Types, PlanInv, PcInv, Undisturbed, Steps, SweepInv,
         plan' # <<>>, Aim'.kind = "sweep", Aim'.target # 0
  PROVE  meter'.page = Aim'.target
<1>1. CASE SameGoal \/ Presses1
  <2>1. plan' = plan /\ Aim' = Aim
    BY <1>1 DEF SameGoal, Presses1, Aim
  <2>2. meter' = meter
    BY <1>1, <2>1 DEF SameGoal, Presses1, Keys
  <2> QED
    BY <2>1, <2>2 DEF SweepInv
<1>2. ASSUME NEW s \in MeterStates \cup {NoSnapshot}, LearnsFirst(s) PROVE FALSE
  <2>1. plan' = Plan(s) /\ plan' \in Seq(Goals) /\ StartsWell(plan')
    BY <1>2, PlanShaped DEF LearnsFirst
  <2>2. Aim' = plan'[1]
    BY <2>1, Rest DEF Aim
  <2> QED
    BY <2>1, <2>2 DEF StartsWell
<1>3. ~Learning /\ plan # <<>> => Aim = plan[1] /\ Shaped(plan) /\ Len(plan) \in Nat /\ Len(plan) >= 1
  BY AimFacts
<1>4. CASE Reaches \/ Sweeps
  <2>1. ~Learning /\ plan # <<>> /\ Advance(Tail(plan), TRUE) /\ meter' = meter
    BY <1>4 DEF Reaches, Sweeps
  <2>2. Len(plan) >= 2 /\ Aim' = plan[2]
    <3>1. \E k \in {1, 2} : Leaves(k, TRUE)
      BY <2>1, LeftOver
    <3>2. Leaves(1, TRUE)
      BY <3>1 DEF Leaves
    <3> QED
      BY <1>3, <2>1, <3>2 DEF Leaves
  <2>3. 1 \in 1..Len(plan) /\ 2 \in 1..Len(plan) /\ 2 = 1 + 1
    BY <1>3, <2>1, <2>2
  <2>4. Follows(plan[1], plan[2])
    BY <1>3, <2>1, <2>3 DEF Shaped
  <2>5. Aim = Goal("page", Aim'.target)
    BY <1>3, <2>1, <2>2, <2>4 DEF Follows
  <2>6. Aim.kind = "page" /\ Aim.target = Aim'.target
    BY <2>5 DEF Goal
  <2> QED
    BY <1>4, <2>1, <2>6 DEF Reaches, Sweeps, Met
<1>5. CASE GivesUp
  <2>1. ~Learning /\ plan # <<>> /\ Advance(Tail(plan), FALSE)
    BY <1>5 DEF GivesUp, GiveUp
  <2>2. PICK k \in {1, 2} : Leaves(k, FALSE)
    BY <2>1, LeftOver
  <2>3. Aim' = plan[1 + k] /\ 1 + k \in 1..Len(plan) /\ k \in 1..Len(plan)
    BY <1>3, <2>1, <2>2 DEF Leaves
  <2>4. GoalOK(plan[1 + k]) /\ Follows(plan[k], plan[1 + k])
    BY <1>3, <2>1, <2>3 DEF Shaped
  <2>5. cycleModes
    BY <2>3, <2>4 DEF GoalOK
  <2>6. plan[k].kind = "page"
    BY <2>3, <2>4 DEF Follows, Goal
  <2> QED
    BY <1>3, <2>1, <2>2, <2>3, <2>5, <2>6 DEF Leaves
<1> QED
  BY <1>1, <1>2, <1>4, <1>5 DEF Steps, Idles, Polls, GoesToPress, MovesOn

\* Once its goal is behind, the channel and the range are those asked for.
ReachedInv ==
  Undisturbed /\ ~Learning =>
    /\ targetChannel > 0 /\ "channel" \notin warned /\ ~Has(plan, "channel") =>
         meter.channel = targetChannel
    /\ targetRange # None /\ "range" \notin warned /\ ~Has(plan, "range") =>
         meter.range = targetRange

\* A goal other than the first, and than the sweep that goes with it, stays.
LEMMA HasStill ==
  ASSUME Types, plan # <<>>, GiveUp \/ Advance(Tail(plan), TRUE), NEW kind, Aim.kind # kind, kind # "sweep", Has(plan, kind)
  PROVE  Has(plan', kind)
<1>1. PICK reached \in BOOLEAN : Advance(Tail(plan), reached)
  BY DEF GiveUp
<1>2. PICK k \in {1, 2} : Leaves(k, reached)
  BY <1>1, LeftOver
<1>3. PICK i \in 1..Len(plan) : plan[i].kind = kind
  BY DEF Has
<1>4. Aim = plan[1] /\ Len(plan) \in Nat
  BY Rest DEF Aim, Types
<1>5. i # 1 /\ (k = 2 => i # 2)
  BY <1>2, <1>3, <1>4 DEF Leaves
<1>6. i - k \in 1..Len(plan') /\ (i - k) + k = i
  BY <1>2, <1>4, <1>5 DEF Leaves
<1>7. plan'[i - k] = plan[i]
  BY <1>2, <1>6 DEF Leaves
<1> QED
  BY <1>3, <1>6, <1>7 DEF Has

LEMMA ReachedStep ==
  ASSUME Types, PlanInv, PcInv, Undisturbed, Steps, UNCHANGED options, ReachedInv, ~Learning'
  PROVE  /\ targetChannel > 0 /\ "channel" \notin warned' /\ ~Has(plan', "channel") =>
              meter'.channel = targetChannel
         /\ targetRange # None /\ "range" \notin warned' /\ ~Has(plan', "range") =>
              meter'.range = targetRange
<1>1. CASE SameGoal
  <2>1. plan' = plan /\ meter' = meter /\ warned' = warned /\ ~Learning
    BY <1>1 DEF SameGoal, Learning
  <2> QED
    BY <2>1 DEF ReachedInv
<1>2. CASE Presses1
  <2>1. /\ plan' = plan /\ warned' = warned /\ ~Learning /\ plan # <<>> /\ Aim.kind \in Keys
        /\ meter' \in {meter, Pressed(Aim.kind)}
    BY <1>2 DEF Presses1
  <2>2. \A kind : Aim.kind = kind => Has(plan, kind)
    <3>1. Aim = plan[1] /\ 1 \in 1..Len(plan)
      BY <2>1, AimFacts
    <3> QED
      BY <3>1 DEF Has
  <2>3. /\ Aim.kind # "channel" => meter'.channel = meter.channel
        /\ Aim.kind # "range" => meter'.range = meter.range
    BY <2>1, PressedStates DEF Keys
  <2> QED
    BY <2>1, <2>2, <2>3 DEF ReachedInv
<1>3. ASSUME NEW s \in MeterStates \cup {NoSnapshot}, LearnsFirst(s)
      PROVE  /\ targetChannel > 0 => Has(plan', "channel")
             /\ targetRange # None => Has(plan', "range")
  BY <1>3, PlanShaped DEF LearnsFirst
<1>4. CASE Reaches \/ Sweeps \/ GivesUp
  <2>1. /\ ~Learning /\ plan # <<>> /\ meter' = meter /\ (GiveUp \/ Advance(Tail(plan), TRUE))
        /\ \/ warned' = warned /\ (Aim.kind = "sweep" \/ Met(Aim, meter))
           \/ warned' = warned \cup {Aim.kind}
    BY <1>4 DEF Reaches, Sweeps, GivesUp, GiveUp
  <2>2. GoalOK(Aim)
    BY <2>1, AimFacts
  <2>3. ASSUME NEW kind \in {"channel", "range"}, ~Has(plan', kind), Aim.kind # kind PROVE ~Has(plan, kind)
    BY <2>1, <2>3, HasStill
  <2>4. targetChannel > 0 /\ "channel" \notin warned' /\ ~Has(plan', "channel") => meter.channel = targetChannel
    <3> SUFFICES ASSUME targetChannel > 0, "channel" \notin warned', ~Has(plan', "channel")
                 PROVE  meter.channel = targetChannel
      OBVIOUS
    <3>1. CASE Aim.kind = "channel"
      <4>1. Met(Aim, meter) /\ Aim.target = targetChannel
        BY <2>1, <2>2, <3>1 DEF GoalOK
      <4> QED
        BY <3>1, <4>1 DEF Met
    <3>2. CASE Aim.kind # "channel"
      BY <2>1, <2>3, <3>2 DEF ReachedInv
    <3> QED
      BY <3>1, <3>2
  <2>5. targetRange # None /\ "range" \notin warned' /\ ~Has(plan', "range") => meter.range = targetRange
    <3> SUFFICES ASSUME targetRange # None, "range" \notin warned', ~Has(plan', "range")
                 PROVE  meter.range = targetRange
      OBVIOUS
    <3>1. CASE Aim.kind = "range"
      <4>1. Met(Aim, meter) /\ Aim.target = targetRange
        BY <2>1, <2>2, <3>1 DEF GoalOK
      <4> QED
        BY <3>1, <4>1 DEF Met
    <3>2. CASE Aim.kind # "range"
      BY <2>1, <2>3, <3>2 DEF ReachedInv
    <3> QED
      BY <3>1, <3>2
  <2> QED
    BY <2>1, <2>4, <2>5
<1> QED
  BY <1>1, <1>2, <1>3, <1>4 DEF Steps, Idles, Polls, GoesToPress, MovesOn

-----------------------------------------------------------------------------
(* Back to the page the meter was found on.                                 *)

\* The budget of the page key covers what was lost.
Covered == PageCount * (faults + 1) <= ModeSteps

RestoreInv ==
  Undisturbed /\ Covered /\ cycleModes /\ original # NoSnapshot =>
    IF plan = <<>> THEN meter.page = original.page
    ELSE plan[Len(plan)] = Goal("page", original.page)

\* Then no page is given up.
LEMMA PageReached ==
  ASSUME Types, PlanInv, PcInv, Undisturbed, PageInv, Covered, GivesUp
  PROVE  Aim.kind \in {"channel", "range"}
<1> SUFFICES ASSUME Aim.kind = "page" PROVE FALSE
  BY DEF GivesUp, Keys
<1>1. plan # <<>> /\ step = ModeSteps
  BY DEF GivesUp, Budget
<1>2. PageAway \in 0..(PageCount - 1) /\ step \in Nat /\ faults \in Nat
  BY <1>1, ThisPage DEF Types
<1>3. PageAway + step + (IF Astray THEN PageCount ELSE 0) <= PageCount - 1 + Turns
  BY <1>1 DEF PageInv
<1>4. Turns \in Nat /\ Turns + PageCount <= ModeSteps
  <2>1. \A f \in Nat : PageCount * f \in Nat /\ PageCount * (f + 1) = PageCount * f + PageCount
    BY DEF PageCount
  <2> QED
    BY <1>2, <2>1 DEF Covered, Turns
<1>5. \A a, t, m \in Nat : ~(a + m <= PageCount - 1 + t /\ t + PageCount <= m)
  BY DEF PageCount
<1>6. PageAway + step <= PageCount - 1 + Turns
  BY <1>2, <1>3, <1>4 DEF PageCount
<1>7. PageAway \in Nat
  BY <1>2
<1> QED
  BY <1>1, <1>2, <1>4, <1>5, <1>6, <1>7

\* The last goal of a plan that goes on is the last one still.
LEMMA LastStill ==
  ASSUME Types, plan # <<>>, GiveUp \/ Advance(Tail(plan), TRUE),
         plan[Len(plan)].kind = "page", plan' # <<>> \/ Aim.kind # "page"
  PROVE  plan' # <<>> /\ plan'[Len(plan')] = plan[Len(plan)]
<1>1. PICK reached \in BOOLEAN : Advance(Tail(plan), reached)
  BY DEF GiveUp
<1>2. PICK k \in {1, 2} : Leaves(k, reached)
  BY <1>1, LeftOver
<1>3. Aim = plan[1] /\ Len(plan) \in Nat /\ Len(plan) >= 1
  BY Rest DEF Aim, Types
<1>4. Len(plan') >= 1 => plan'[Len(plan')] = plan[Len(plan)]
  <2> SUFFICES ASSUME Len(plan') >= 1 PROVE plan'[Len(plan')] = plan[Len(plan)]
    OBVIOUS
  <2>1. Len(plan') \in 1..Len(plan') /\ Len(plan') + k = Len(plan)
    BY <1>2, <1>3 DEF Leaves
  <2> QED
    BY <1>2, <2>1 DEF Leaves
<1>5. Len(plan') = 0 => k = Len(plan)
  BY <1>2, <1>3 DEF Leaves
<1>6. ~(Len(plan') = 0)
  <2> SUFFICES ASSUME Len(plan') = 0 PROVE FALSE
    OBVIOUS
  <2>1. Aim.kind # "page"
    BY <1>2 DEF Leaves
  <2>2. k = 2 => plan[2].kind = "sweep"
    BY <1>2 DEF Leaves
  <2> QED
    BY <1>3, <1>5, <2>1, <2>2
<1> QED
  BY <1>2, <1>4, <1>6 DEF Leaves

LEMMA RestoreStep ==
  ASSUME Types, PlanInv, PcInv, Undisturbed, Steps, UNCHANGED options, faults' \in Nat, faults' >= faults,
         PageInv, RestoreInv, Covered', cycleModes', original' # NoSnapshot
  PROVE  IF plan' = <<>> THEN meter'.page = original'.page
         ELSE plan'[Len(plan')] = Goal("page", original'.page)
<1>1. Covered /\ cycleModes
  <2>1. \A f, g \in Nat, m \in Nat : g >= f /\ PageCount * (g + 1) <= m => PageCount * (f + 1) <= m
    BY DEF PageCount
  <2> QED
    BY <2>1, ProbeConstants DEF Types, Covered, options
<1>2. CASE SameGoal \/ Presses1
  <2>1. plan' = plan /\ original' = original /\ (plan = <<>> => meter' = meter)
    BY <1>2 DEF SameGoal, Presses1
  <2> QED
    BY <1>1, <2>1 DEF RestoreInv
<1>3. ASSUME NEW s \in MeterStates \cup {NoSnapshot}, LearnsFirst(s)
      PROVE  plan' # <<>> /\ plan'[Len(plan')] = Goal("page", original'.page)
  BY <1>1, <1>3, PlanShaped DEF LearnsFirst
<1>4. CASE Reaches \/ Sweeps \/ GivesUp
  <2>1. /\ ~Learning /\ plan # <<>> /\ meter' = meter /\ original' = original
        /\ GiveUp \/ Advance(Tail(plan), TRUE)
        /\ Aim.kind = "page" => Reaches
    BY <1>1, <1>4, PageReached DEF Reaches, Sweeps, GivesUp
  <2>2. plan[Len(plan)] = Goal("page", original.page)
    BY <1>1, <2>1 DEF RestoreInv
  <2>3. plan[Len(plan)].kind = "page" /\ plan[Len(plan)].target = original.page
    BY <2>2 DEF Goal
  <2>4. CASE plan' # <<>> \/ Aim.kind # "page"
    BY <2>1, <2>2, <2>3, <2>4, LastStill
  <2>5. CASE plan' = <<>> /\ Aim.kind = "page"
    <3>1. Advance(Tail(plan), TRUE) /\ Met(Aim, meter)
      BY <2>1, <2>5 DEF Reaches
    <3>2. PICK k \in {1, 2} : Leaves(k, TRUE)
      BY <2>1, <3>1, LeftOver
    <3>3. Aim = plan[Len(plan)]
      BY <2>1, <2>5, <3>2, AimFacts DEF Leaves
    <3> QED
      BY <2>1, <2>3, <2>5, <3>1, <3>3 DEF Met
  <2> QED
    BY <2>4, <2>5
<1> QED
  BY <1>2, <1>3, <1>4 DEF Steps, Idles, Polls, GoesToPress, MovesOn

-----------------------------------------------------------------------------
(* Without a fault nothing is given up.                                     *)

\* A range needs a manual channel.
Possible == targetRange # None => targetChannel > 0 \/ original.channel > 0

ChannelAway == Away(meter.channel, targetChannel, ChannelCount + 1)
RangeAway   == Away(meter.range, targetRange, RangeCount + 1)

ChannelFound == ~Learning /\ targetChannel = 0 => meter.channel = original.channel
OnPowerPage  == plan # <<>> /\ Aim.kind \in {"channel", "range"} => meter.page = PowerSwr
ChannelNear  == plan # <<>> /\ Aim.kind = "channel" =>
                  ChannelAway + step <= ChannelCount /\ (pc = "press" => meter.channel # targetChannel)
RangeNear    == plan # <<>> /\ Aim.kind = "range" /\ Possible =>
                  RangeAway + step <= RangeCount /\ (pc = "press" => meter.range # targetRange)

SmoothInv ==
  faults = 0 => ChannelFound /\ OnPowerPage /\ ChannelNear /\ RangeNear /\ (Possible => warned = {})

\* What the steps below start from.
Smooth ==
  /\ Types /\ PlanInv /\ PcInv /\ Undisturbed /\ faults = 0
  /\ AnswerInv /\ PageInv /\ ReachedInv /\ SmoothInv

LEMMA SmoothFacts ==
  ASSUME Smooth
  PROVE  /\ Types /\ PlanInv /\ PcInv /\ Undisturbed /\ faults = 0 /\ PageInv /\ Covered
         /\ pc = "await" => OneAnswer(meter) /\ ~Quiet
         /\ ChannelFound /\ OnPowerPage /\ ChannelNear /\ RangeNear /\ (Possible => warned = {})
         /\ meter \in MeterStates /\ meter.channel \in 0..ChannelCount /\ meter.range \in 0..RangeCount
         /\ targetChannel \in 0..ChannelCount /\ targetRange \in None..RangeCount /\ step \in Nat
         /\ ChannelCount \in Nat /\ RangeCount \in Nat
         /\ plan # <<>> /\ ~Learning => Aim = plan[1] /\ GoalOK(Aim) /\ Shaped(plan)
<1>1. Types /\ PlanInv /\ PcInv /\ Undisturbed /\ faults = 0 /\ PageInv
  BY DEF Smooth
<1>2. Covered
  <2>1. PageCount * (0 + 1) = PageCount
    BY DEF PageCount
  <2> QED
    BY <1>1, <2>1, ProbeBudgets DEF Covered
<1>3. pc = "await" => OneAnswer(meter) /\ ~Quiet
  BY QuietOrNot DEF Smooth, AnswerInv
<1>4. meter \in MeterStates /\ meter.channel \in 0..ChannelCount /\ meter.range \in 0..RangeCount
  BY <1>1, Readable DEF Types
<1>5. /\ targetChannel \in 0..ChannelCount /\ targetRange \in None..RangeCount /\ step \in Nat
      /\ ChannelCount \in Nat /\ RangeCount \in Nat
  BY <1>1, ProbeConstants DEF Types
<1>6. plan # <<>> /\ ~Learning => Aim = plan[1] /\ GoalOK(Aim) /\ Shaped(plan)
  BY <1>1, AimFacts
<1>7. ChannelFound /\ OnPowerPage /\ ChannelNear /\ RangeNear /\ (Possible => warned = {})
  BY DEF Smooth, SmoothInv
<1> QED
  BY <1>1, <1>2, <1>3, <1>4, <1>5, <1>6, <1>7

\* The range is set on a manual channel.
LEMMA Manual ==
  ASSUME Smooth, Possible, plan # <<>>, ~Learning, Aim.kind = "range"
  PROVE  meter.channel # 0
<1>1. Aim = plan[1] /\ GoalOK(Aim) /\ Shaped(plan) /\ Len(plan) \in Nat /\ Len(plan) >= 1
  BY SmoothFacts, AimFacts
<1>2. targetRange # None
  BY <1>1 DEF GoalOK
<1>3. ~Has(plan, "channel")
  <2> SUFFICES ASSUME NEW i \in 1..Len(plan), plan[i].kind = "channel" PROVE FALSE
    BY DEF Has
  <2>1. i # 1 /\ 1 \in 1..Len(plan) /\ 1 < i
    BY <1>1
  <2>2. Before(plan[1], plan[i])
    BY <1>1, <2>1 DEF Shaped
  <2> QED
    BY <1>1, <2>2 DEF Before
<1>4. CASE targetChannel > 0
  <2>1. meter.channel = targetChannel
    BY <1>3, <1>4, SmoothFacts DEF Smooth, ReachedInv
  <2> QED
    BY <1>4, <2>1, SmoothFacts
<1>5. CASE ~(targetChannel > 0)
  <2>1. targetChannel = 0 /\ original.channel > 0
    BY <1>2, <1>5, SmoothFacts DEF Possible
  <2>2. meter.channel = original.channel
    BY <2>1, SmoothFacts DEF ChannelFound
  <2> QED
    BY <2>1, <2>2, SmoothFacts
<1> QED
  BY <1>4, <1>5

\* Nothing is given up while a range is possible; and what is given up is no page.
LEMMA NoneGivenUp ==
  ASSUME Smooth, GivesUp
  PROVE  Aim.kind = "range" /\ ~Possible
<1>0. plan # <<>> /\ ~Learning
  BY DEF GivesUp
<1>1. Aim.kind \in {"channel", "range"}
  BY SmoothFacts, PageReached
<1>2. /\ \/ pc = "drain" /\ step = Budget(Aim)
         \/ pc = "await" /\ Hopeless(Aim, meter)
  BY SmoothFacts DEF GivesUp
<1>3. meter # NoSnapshot
  BY SmoothFacts, Readable
<1>4. Aim.kind # "channel"
  <2> SUFFICES ASSUME Aim.kind = "channel" PROVE FALSE
    OBVIOUS
  <2>1. step = ChannelSteps
    BY <1>2, <1>3 DEF Hopeless, Budget
  <2>2. ChannelAway + step <= ChannelCount /\ ChannelAway \in 0..ChannelCount
    BY <1>0, SmoothFacts, AwayOne DEF ChannelNear, ChannelAway
  <2> QED
    BY <2>1, <2>2, SmoothFacts, ProbeBudgets, ProbeConstants
<1>5. ASSUME Possible, Aim.kind = "range" PROVE FALSE
  <2>1. meter.channel # 0
    BY <1>0, <1>5, Manual
  <2>2. step = RangeSteps
    BY <1>2, <1>3, <1>5, <2>1 DEF Hopeless, Budget
  <2>3. targetRange \in 0..RangeCount
    BY <1>0, <1>5, SmoothFacts DEF GoalOK, None
  <2>4. RangeAway + step <= RangeCount /\ RangeAway \in 0..RangeCount
    BY <1>0, <1>5, <2>3, SmoothFacts, AwayOne DEF RangeNear, RangeAway
  <2> QED
    BY <2>2, <2>4, SmoothFacts, ProbeBudgets, ProbeConstants
<1> QED
  BY <1>1, <1>4, <1>5

\* Every step, without a fault.
LEMMA SmoothSteps ==
  ASSUME Smooth, Steps, faults' = 0
  PROVE  \/ Idles \/ GoesToPress \/ MovesOn
         \/ Polls
         \/ Presses1 /\ meter' = Pressed(Aim.kind)
         \/ LearnsFirst(meter)
         \/ Reaches \/ Sweeps
         \/ GivesUp /\ Aim.kind = "range" /\ ~Possible
<1>1. faults = 0
  BY SmoothFacts
<1>2. Presses1 => meter' = Pressed(Aim.kind)
  BY <1>1 DEF Presses1
<1>3. \A s : LearnsFirst(s) => LearnsFirst(meter)
  BY SmoothFacts DEF LearnsFirst
<1> QED
  BY <1>2, <1>3, NoneGivenUp DEF Steps

LEMMA ChannelFoundStep ==
  ASSUME Smooth, Steps, faults' = 0, ~Learning', targetChannel = 0
  PROVE  meter'.channel = original'.channel
<1>1. ~Learning => meter.channel = original.channel
  BY SmoothFacts DEF ChannelFound
<1>2. CASE SameGoal
  BY <1>1, <1>2 DEF SameGoal, Learning
<1>3. CASE Presses1 /\ meter' = Pressed(Aim.kind)
  <2>1. /\ plan # <<>> /\ ~Learning /\ Aim.kind \in Keys /\ original' = original
    BY <1>3 DEF Presses1
  <2>2. Aim.kind # "channel"
    BY <2>1, SmoothFacts DEF GoalOK
  <2> QED
    BY <1>1, <1>3, <2>1, <2>2, SmoothFacts, PressedStates DEF Keys
<1>4. CASE LearnsFirst(meter)
  BY <1>4 DEF LearnsFirst
<1>5. CASE Reaches \/ Sweeps \/ GivesUp
  BY <1>1, <1>5 DEF Reaches, Sweeps, GivesUp
<1> QED
  BY <1>2, <1>3, <1>4, <1>5, SmoothSteps DEF Idles, Polls, GoesToPress, MovesOn

LEMMA OnPowerPageStep ==
  ASSUME Smooth, Types', Steps, faults' = 0, plan' # <<>>, Aim'.kind \in {"channel", "range"}
  PROVE  meter'.page = PowerSwr
<1>1. CASE SameGoal \/ (Presses1 /\ meter' = Pressed(Aim.kind))
  <2>1. plan' = plan /\ Aim' = Aim /\ plan # <<>> /\ Aim.kind \in {"channel", "range"}
    BY <1>1 DEF SameGoal, Presses1, Aim
  <2>2. meter'.page = meter.page
    BY <1>1, <2>1, SmoothFacts, PressedStates DEF SameGoal
  <2> QED
    BY <2>1, <2>2, SmoothFacts DEF OnPowerPage
<1>2. CASE LearnsFirst(meter)
  <2>1. plan' = Plan(meter) /\ meter' = meter /\ meter \in MeterStates /\ meter # NoSnapshot
    BY <1>2, SmoothFacts, Readable DEF LearnsFirst
  <2>2. Shaped(plan') /\ plan' \in Seq(Goals) /\ (NeedsSwitch(meter) => plan'[1] = Goal("page", PowerSwr))
    BY <2>1, SmoothFacts, PlanShaped
  <2>3. Aim' = plan'[1] /\ 1 \in 1..Len(plan')
    BY <2>2, Rest DEF Aim
  <2>4. GoalOK(Aim')
    BY <2>2, <2>3 DEF Shaped
  <2>5. ~NeedsSwitch(meter)
    BY <2>2, <2>3 DEF Goal
  <2>6. targetChannel > 0 \/ targetRange # None
    BY <2>4 DEF GoalOK
  <2> QED
    BY <2>1, <2>5, <2>6 DEF NeedsSwitch
<1>3. CASE Reaches \/ Sweeps \/ GivesUp
  <2>1. /\ ~Learning /\ plan # <<>> /\ meter' = meter /\ (GiveUp \/ Advance(Tail(plan), TRUE))
        /\ Aim.kind = "page" => Met(Aim, meter)
    BY <1>3, NoneGivenUp DEF Reaches, Sweeps, GivesUp
  <2>2. PICK reached \in BOOLEAN : Advance(Tail(plan), reached)
    BY <2>1 DEF GiveUp
  <2>3. PICK k \in {1, 2} : Leaves(k, reached)
    BY <2>1, <2>2, SmoothFacts, LeftOver
  <2>4. Aim = plan[1] /\ Shaped(plan) /\ Len(plan) \in Nat /\ Len(plan) >= 1
    BY <2>1, SmoothFacts, AimFacts
  <2>5. Aim' = plan[1 + k] /\ 1 + k \in 1..Len(plan) /\ 1 \in 1..Len(plan) /\ 1 < 1 + k
    BY <2>3, <2>4 DEF Leaves
  <2>6. Before(Aim, Aim')
    BY <2>4, <2>5 DEF Shaped
  <2>7. Aim.kind \in {"page", "channel"} /\ (Aim.kind = "page" => Aim.target = PowerSwr)
    BY <2>6 DEF Before
  <2> QED
    BY <2>1, <2>7, SmoothFacts DEF Met, OnPowerPage
<1> QED
  BY <1>1, <1>2, <1>3, SmoothSteps DEF Idles, Polls, GoesToPress, MovesOn

\* A new goal starts with no press.
LEMMA NewGoal ==
  ASSUME Types, LearnsFirst(meter) \/ Reaches \/ Sweeps \/ GivesUp
  PROVE  step' = 0 /\ pc' # "press"
<1>1. Reaches \/ Sweeps \/ GivesUp => step' = 0 /\ pc' \in {"drain", "poll"}
  BY EndPlace DEF Reaches, Sweeps, GivesUp
<1> QED
  BY <1>1 DEF LearnsFirst

LEMMA ChannelNearStep ==
  ASSUME Smooth, Types', PlanInv', Steps, UNCHANGED options, faults' = 0, plan' # <<>>, Aim'.kind = "channel"
  PROVE  ChannelAway' + step' <= ChannelCount /\ (pc' = "press" => meter'.channel # targetChannel)
<1>0. /\ meter.channel \in 0..ChannelCount /\ meter'.channel \in 0..ChannelCount
      /\ targetChannel \in 0..ChannelCount /\ ChannelCount \in Nat /\ step \in Nat
      /\ ChannelAway' = Away(meter'.channel, targetChannel, ChannelCount + 1)
      /\ ChannelAway' \in 0..ChannelCount /\ ChannelAway \in 0..ChannelCount
  <2>1. meter'.channel \in 0..ChannelCount
    BY Readable DEF Types
  <2>2. targetChannel' = targetChannel
    BY DEF options
  <2> QED
    BY <2>1, <2>2, SmoothFacts, AwayOne DEF ChannelAway
<1>1. ASSUME plan' = plan
      PROVE  /\ plan # <<>> /\ ~Learning /\ Aim.kind = "channel" /\ ChannelAway + step <= ChannelCount
             /\ pc = "press" => meter.channel # targetChannel
             /\ Aim.target = targetChannel /\ meter.page = PowerSwr
  <2>1. plan # <<>> /\ Aim.kind = "channel"
    BY <1>1 DEF Aim
  <2>2. ~Learning
    BY <2>1 DEF Learning, Aim, Goal
  <2> QED
    BY <2>1, <2>2, SmoothFacts DEF ChannelNear, OnPowerPage, GoalOK
<1>2. CASE Idles \/ Polls \/ GoesToPress \/ MovesOn
  <2>1. plan' = plan /\ meter' = meter /\ ChannelAway' = ChannelAway
    BY <1>0, <1>2 DEF Idles, Polls, GoesToPress, MovesOn, SameGoal, ChannelAway
  <2>2. step' = step
    BY <1>1, <1>2, <2>1 DEF Idles, Polls, GoesToPress, MovesOn
  <2>3. GoesToPress => ~Met(Aim, meter)
    BY SmoothFacts DEF GoesToPress
  <2>4. pc' = "press" => meter.channel # targetChannel
    BY <1>1, <1>2, <2>1, <2>3 DEF Idles, Polls, GoesToPress, MovesOn, Met
  <2> QED
    BY <1>0, <1>1, <2>1, <2>2, <2>4
<1>3. CASE Presses1 /\ meter' = Pressed(Aim.kind)
  <2>1. plan' = plan /\ step' = step + 1 /\ pc = "press" /\ pc' = "drain"
    BY <1>3 DEF Presses1
  <2>2. meter'.channel = IF meter.channel = ChannelCount THEN 0 ELSE meter.channel + 1
    BY <1>1, <1>3, <2>1, SmoothFacts, PressedStates
  <2>3. ChannelAway' = ChannelAway - 1
    <3>1. meter.channel # targetChannel
      BY <1>1, <2>1
    <3>2. Away(meter'.channel, targetChannel, ChannelCount + 1) = Away(meter.channel, targetChannel, ChannelCount + 1) - 1
      BY <1>0, <2>2, <3>1 DEF Away
    <3> QED
      BY <1>0, <3>2 DEF ChannelAway
  <2> QED
    BY <1>0, <1>1, <2>1, <2>3
<1>4. CASE step' = 0 /\ pc' # "press"
  BY <1>0, <1>4
<1> QED
  BY <1>2, <1>3, <1>4, SmoothSteps, NewGoal, SmoothFacts

LEMMA RangeNearStep ==
  ASSUME Smooth, Types', PlanInv', Steps, UNCHANGED options, faults' = 0, plan' # <<>>, Aim'.kind = "range", Possible'
  PROVE  RangeAway' + step' <= RangeCount /\ (pc' = "press" => meter'.range # targetRange)
<1>0. /\ meter.range \in 0..RangeCount /\ meter'.range \in 0..RangeCount
      /\ targetRange \in 0..RangeCount /\ RangeCount \in Nat /\ step \in Nat
      /\ RangeAway' = Away(meter'.range, targetRange, RangeCount + 1)
      /\ RangeAway' \in 0..RangeCount /\ RangeAway \in 0..RangeCount
  <2>1. meter'.range \in 0..RangeCount
    BY Readable DEF Types
  <2>2. targetRange' = targetRange
    BY DEF options
  <2>3. targetRange # None
    <3>1. Aim' = plan'[1] /\ 1 \in 1..Len(plan')
      BY Rest DEF Aim, Types
    <3>2. Learning' => Aim'.kind = "learn"
      BY DEF Learning, Aim, Goal
    <3> QED
      BY <2>2, <3>1, <3>2 DEF PlanInv, Shaped, GoalOK
  <2>4. targetRange \in 0..RangeCount
    BY <2>3, SmoothFacts DEF None
  <2> QED
    BY <2>1, <2>2, <2>4, SmoothFacts, AwayOne DEF RangeAway
<1>1. ASSUME plan' = plan, original' = original
      PROVE  /\ plan # <<>> /\ ~Learning /\ Aim.kind = "range" /\ RangeAway + step <= RangeCount
             /\ pc = "press" => meter.range # targetRange
             /\ Aim.target = targetRange /\ meter.page = PowerSwr
  <2>1. plan # <<>> /\ Aim.kind = "range"
    BY <1>1 DEF Aim
  <2>2. ~Learning
    BY <2>1 DEF Learning, Aim, Goal
  <2>3. Possible
    BY <1>1 DEF Possible, options
  <2> QED
    BY <2>1, <2>2, <2>3, SmoothFacts DEF RangeNear, OnPowerPage, GoalOK
<1>2. CASE Idles \/ Polls \/ GoesToPress \/ MovesOn
  <2>1. plan' = plan /\ original' = original /\ meter' = meter /\ RangeAway' = RangeAway
    BY <1>0, <1>2 DEF Idles, Polls, GoesToPress, MovesOn, SameGoal, RangeAway
  <2>2. step' = step
    BY <1>1, <1>2, <2>1 DEF Idles, Polls, GoesToPress, MovesOn
  <2>3. GoesToPress => ~Met(Aim, meter)
    BY SmoothFacts DEF GoesToPress
  <2>4. pc' = "press" => meter.range # targetRange
    BY <1>1, <1>2, <2>1, <2>3 DEF Idles, Polls, GoesToPress, MovesOn, Met
  <2> QED
    BY <1>0, <1>1, <2>1, <2>2, <2>4
<1>3. CASE Presses1 /\ meter' = Pressed(Aim.kind)
  <2>1. plan' = plan /\ original' = original /\ step' = step + 1 /\ pc = "press" /\ pc' = "drain"
    BY <1>3 DEF Presses1
  <2>2. meter'.range = IF meter.range = RangeCount THEN 0 ELSE meter.range + 1
    <3>1. meter.channel # 0
      <4>1. Possible
        BY <2>1 DEF Possible, options
      <4> QED
        BY <1>1, <2>1, <4>1, Manual
    <3> QED
      BY <1>1, <1>3, <2>1, <3>1, SmoothFacts, PressedStates
  <2>3. RangeAway' = RangeAway - 1
    <3>1. meter.range # targetRange
      BY <1>1, <2>1
    <3>2. Away(meter'.range, targetRange, RangeCount + 1) = Away(meter.range, targetRange, RangeCount + 1) - 1
      BY <1>0, <2>2, <3>1 DEF Away
    <3> QED
      BY <1>0, <3>2 DEF RangeAway
  <2> QED
    BY <1>0, <1>1, <2>1, <2>3
<1>4. CASE step' = 0 /\ pc' # "press"
  BY <1>0, <1>4
<1> QED
  BY <1>2, <1>3, <1>4, SmoothSteps, NewGoal, SmoothFacts

LEMMA NoWarningStep ==
  ASSUME Smooth, Steps, UNCHANGED options, faults' = 0, Possible'
  PROVE  warned' = {}
<1>1. Possible => warned = {}
  BY SmoothFacts
<1>2. original' = original => Possible
  BY DEF Possible, options
<1>3. CASE LearnsFirst(meter)
  <2>1. Learning /\ warned' = warned /\ plan # <<>>
    BY <1>3 DEF LearnsFirst
  <2> QED
    BY <2>1, SmoothFacts, AimFacts
<1>4. original' = original \/ LearnsFirst(meter)
  BY SmoothSteps DEF Idles, Polls, GoesToPress, MovesOn, SameGoal, Presses1, Reaches, Sweeps, GivesUp
<1>5. warned' = warned \/ (GivesUp /\ ~Possible)
  BY SmoothSteps DEF Idles, Polls, GoesToPress, MovesOn, SameGoal, Presses1, Reaches, Sweeps, LearnsFirst
<1> QED
  BY <1>1, <1>2, <1>3, <1>4, <1>5

-----------------------------------------------------------------------------
(* The inductive invariant and the theorems.                                *)

GoalInv ==
  /\ PageInv /\ SweepInv /\ ReachedInv /\ RestoreInv /\ SmoothInv

ProbeInv ==
  /\ Types /\ PlanInv /\ PcInv /\ LineInv /\ AnswerInv
  /\ GoalInv

LEMMA ProbeInit ==
  ASSUME Init
  PROVE  ProbeInv
<1>1. Types
  <2>1. meter \in MeterStates /\ targetChannel \in 0..ChannelCount /\ targetRange \in None..RangeCount
    BY ProbeConstants DEF Init, MeterStates
  <2>2. Goal("learn", 0) \in Goals
    BY DEF Goal, Goals
  <2>3. plan \in Seq(Goals) /\ wire \in Seq(Readings) /\ reads \in Seq(Readings \cup {Gone})
    BY <2>2 DEF Init
  <2> QED
    BY <2>1, <2>3 DEF Init, Types
<1>2. Learning /\ plan # <<>> /\ Aim.kind = "learn"
  BY DEF Init, Learning, Aim, Goal
<1>3. PlanInv /\ PcInv
  BY <1>2 DEF Init, PlanInv, PcInv
<1>4. LineInv /\ AnswerInv
  BY DEF Init, LineInv, AnswerInv, Undisturbed, Quiet
<1>5. GoalInv
  BY <1>2 DEF Init, GoalInv, PageInv, SweepInv, ReachedInv, RestoreInv, SmoothInv,
              ChannelFound, OnPowerPage, ChannelNear, RangeNear
<1> QED
  BY <1>1, <1>3, <1>4, <1>5 DEF ProbeInv

LEMMA ProbeStep ==
  ASSUME ProbeInv, [Next]_vars
  PROVE  ProbeInv'
<1>1. Types' /\ PlanInv' /\ PcInv'
  BY TypesStep, PlanStep DEF ProbeInv
<1>2. LineInv'
  BY LineStep, Disturbed DEF ProbeInv, LineInv
<1>3. AnswerInv'
  <2> SUFFICES ASSUME faults' = 0 PROVE Undisturbed' /\ (pc' = "await" => OneAnswer(meter)')
    BY DEF AnswerInv
  <2> QED
    BY NoFault, AnswerStep DEF ProbeInv
<1>4. Undisturbed' => /\ Steps /\ faults' \in Nat /\ faults' >= faults /\ UNCHANGED options /\ Undisturbed
                      /\ Types /\ PlanInv /\ PcInv /\ GoalInv
  BY StepsCovered DEF ProbeInv
<1>5. PageInv'
  BY <1>1, <1>4, PageStep DEF GoalInv, PageInv
<1>6. SweepInv'
  BY <1>4, SweepStep DEF GoalInv, SweepInv
<1>7. ReachedInv'
  <2> SUFFICES ASSUME Undisturbed', ~Learning'
               PROVE  /\ (targetChannel > 0 /\ "channel" \notin warned /\ ~Has(plan, "channel") => meter.channel = targetChannel)'
                      /\ (targetRange # None /\ "range" \notin warned /\ ~Has(plan, "range") => meter.range = targetRange)'
    BY DEF ReachedInv
  <2>1. targetChannel' = targetChannel /\ targetRange' = targetRange
    BY <1>4 DEF options
  <2>2. Has(plan, "channel")' = Has(plan', "channel") /\ Has(plan, "range")' = Has(plan', "range")
    BY DEF Has
  <2>3. /\ targetChannel > 0 /\ "channel" \notin warned' /\ ~Has(plan', "channel") => meter'.channel = targetChannel
        /\ targetRange # None /\ "range" \notin warned' /\ ~Has(plan', "range") => meter'.range = targetRange
    BY <1>4, ReachedStep DEF GoalInv
  <2> QED
    BY <2>1, <2>2, <2>3
<1>8. RestoreInv'
  BY <1>4, RestoreStep DEF GoalInv, RestoreInv
<1>9. SmoothInv'
  <2> SUFFICES ASSUME faults' = 0
               PROVE  ChannelFound' /\ OnPowerPage' /\ ChannelNear' /\ RangeNear' /\ (Possible' => warned' = {})
    BY DEF SmoothInv
  <2>1. Smooth /\ Steps /\ UNCHANGED options
    BY <1>4, NoFault DEF ProbeInv, GoalInv, Smooth
  <2>2. targetChannel' = targetChannel /\ targetRange' = targetRange
    BY <2>1 DEF options
  <2>3. ChannelFound'
    BY <2>1, <2>2, ChannelFoundStep DEF ChannelFound
  <2>4. OnPowerPage'
    BY <1>1, <2>1, OnPowerPageStep DEF OnPowerPage
  <2>5. ChannelNear'
    BY <1>1, <2>1, <2>2, ChannelNearStep DEF ChannelNear
  <2>6. RangeNear'
    BY <1>1, <2>1, <2>2, RangeNearStep DEF RangeNear
  <2>7. Possible' => warned' = {}
    BY <2>1, NoWarningStep
  <2> QED
    BY <2>3, <2>4, <2>5, <2>6, <2>7
<1>10. GoalInv'
  BY <1>5, <1>6, <1>7, <1>8, <1>9 DEF GoalInv
<1> QED
  BY <1>1, <1>2, <1>3, <1>10 DEF ProbeInv

THEOREM ProbeInvariant == Spec => []ProbeInv
<1>1. Init => ProbeInv
  BY ProbeInit
<1>2. ProbeInv /\ [Next]_vars => ProbeInv'
  BY ProbeStep
<1> QED
  BY <1>1, <1>2, PTL DEF Spec

\* However the meter was found, whatever was asked for and whatever was lost:
\* what is printed under a page's heading was captured on that page, and on the
\* channel and range asked for unless the probe said it could not reach them.
THEOREM SweepsAsPromised == Spec => []SweepAsPromised
<1>1. ProbeInv => SweepAsPromised
  <2> SUFFICES ASSUME ProbeInv, Undisturbed, ~Ended, Aim.kind = "sweep"
               PROVE  /\ Aim.target # 0 => meter.page = Aim.target
                      /\ targetChannel > 0 /\ "channel" \notin warned => meter.channel = targetChannel
                      /\ targetRange # None /\ "range" \notin warned => meter.range = targetRange
    BY DEF SweepAsPromised
  <2>1. plan # <<>> /\ Types /\ PlanInv /\ PcInv /\ SweepInv /\ ReachedInv
    BY DEF ProbeInv, GoalInv, Ended
  <2>2. Aim = plan[1] /\ Shaped(plan) /\ ~Learning /\ Len(plan) \in Nat /\ Len(plan) >= 1
    BY <2>1, AimFacts
  <2>3. ASSUME NEW kind \in {"channel", "range"} PROVE ~Has(plan, kind)
    <3> SUFFICES ASSUME NEW i \in 1..Len(plan), plan[i].kind = kind PROVE FALSE
      BY DEF Has
    <3>1. i # 1 /\ 1 \in 1..Len(plan) /\ 1 < i
      BY <2>2
    <3>2. Before(plan[1], plan[i])
      BY <2>2, <3>1 DEF Shaped
    <3> QED
      BY <2>2, <3>2 DEF Before
  <2> QED
    BY <2>1, <2>2, <2>3 DEF SweepInv, ReachedInv
<1> QED
  BY <1>1, ProbeInvariant, PTL

\* As long as nothing goes wrong, and a range asked for has a manual channel, no
\* goal is given up: the presses allowed are enough on every way round the keys.
THEOREM NothingGivenUpSmoothly == Spec => []NothingGivenUp
<1>1. ProbeInv => NothingGivenUp
  BY DEF ProbeInv, GoalInv, SmoothInv, Possible, NothingGivenUp
<1> QED
  BY <1>1, ProbeInvariant, PTL

\* A probe that ends leaves the meter on the page it found it on, also when
\* faults made it press past a page, as long as the presses allowed cover one
\* more turn of the page key for each fault: with 8 presses, one fault.
THEOREM RestoredWithinBudget == Spec => [](PageCount * (faults + 1) <= ModeSteps => Restored)
<1>1. ProbeInv => (PageCount * (faults + 1) <= ModeSteps => Restored)
  BY DEF ProbeInv, GoalInv, RestoreInv, Covered, Restored
<1> QED
  BY <1>1, ProbeInvariant, PTL

FaultsInBound == faults \in Nat /\ faults <= MaxFaults

LEMMA FaultsBounded == Spec => []FaultsInBound
<1>1. Init => FaultsInBound
  BY ProbeConstants DEF Init, FaultsInBound
<1>2. FaultsInBound /\ ProbeInv /\ [Next]_vars => FaultsInBound'
  <2> SUFFICES ASSUME FaultsInBound, Types, [Next]_vars PROVE FaultsInBound'
    BY DEF ProbeInv
  <2>1. faults' = faults \/ Fault
    BY AwaitCases DEF Next, Unplug, Interrupt, Pump, Poll, Press, Drain, Write, Answer, vars, Sends
  <2> QED
    BY <2>1, ProbeConstants DEF Fault, FaultsInBound
<1> QED
  BY <1>1, <1>2, ProbeInvariant, PTL DEF Spec

\* So it is whenever the presses allowed cover all the faults there can be.
COROLLARY PageRestored ==
  ASSUME PageCount * (MaxFaults + 1) <= ModeSteps
  PROVE  Spec => []Restored
<1>1. FaultsInBound => PageCount * (faults + 1) <= ModeSteps
  <2>1. \A f, g, m \in Nat : f <= g /\ PageCount * (g + 1) <= m => PageCount * (f + 1) <= m
    BY DEF PageCount
  <2> QED
    BY <2>1, ProbeConstants DEF FaultsInBound
<1> QED
  BY <1>1, RestoredWithinBudget, FaultsBounded, PTL
=============================================================================
