-------------------------- MODULE TradeJournalProofs ------------------------
(***************************************************************************)
(* What the operators of TradeJournal return, and what one more line does  *)
(* to it: the facts about data that the proofs about GuardedBroker use.    *)
(* Sums over a finite set are reasoned about by the least subset that      *)
(* would break the claim, the strict subsets of a finite set being well    *)
(* founded.                                                                *)
(***************************************************************************)
EXTENDS TradeJournal, FiniteSetTheorems, TLAPS

-----------------------------------------------------------------------------
(* The lines written are lines of the journal.                             *)

(* An intent is a line of the journal.                                     *)
LEMMA IntentLineType ==
  ASSUME NEW c \in Coids, NEW r \in Requests, NEW t \in Nat
  PROVE  IntentLine(c, r, t) \in Line
BY DEF IntentLine, Line, Kinds, Statuses

(* An outcome is a line of the journal.                                    *)
LEMMA OutcomeLineType ==
  ASSUME NEW c \in Coids \cup {NoCoid}, NEW r \in Requests, NEW isDry \in BOOLEAN,
         NEW wasSent \in BOOLEAN, NEW hasOid \in BOOLEAN, NEW st \in Statuses,
         NEW t \in Nat
  PROVE  OutcomeLine(c, r, isDry, wasSent, hasOid, st, t) \in Line
BY DEF OutcomeLine, Line, Kinds

(* So is a resolution.                                                     *)
LEMMA ResolutionLineType ==
  ASSUME NEW c \in Coids, NEW hasOid \in BOOLEAN, NEW st \in Statuses, NEW t \in Nat
  PROVE  ResolutionLine(c, hasOid, st, t) \in Line
BY DEF ResolutionLine, Line, Kinds

-----------------------------------------------------------------------------
(* Least and greatest positions.                                           *)

(* Naturals, if there are any, have a least one.                           *)
LEMMA MinIsLeast ==
  ASSUME NEW S \in SUBSET Nat, S # {}
  PROVE  Min(S) \in S /\ \A i \in S : Min(S) <= i
<1> DEFINE R == OpToRel(<, Nat)
<1>1. IsWellFoundedOn(R, Nat)
  BY NatLessThanWellFounded
<1>2. \A i, k \in Nat : i < k => <<i, k>> \in R
  BY DEF OpToRel
<1> HIDE DEF R
<1>3. PICK m \in S : \A i \in S : ~(<<i, m>> \in R)
  BY <1>1, WFMin
<1>4. ASSUME NEW i \in S PROVE m <= i
  <2>1. ~(<<i, m>> \in R)
    BY <1>3
  <2>2. m \in Nat /\ i \in Nat
    OBVIOUS
  <2>3. ~(i < m)
    BY <1>2, <2>1, <2>2
  <2> QED BY <2>2, <2>3
<1> QED BY <1>4 DEF Min

(* Positions in a sequence, if there are any, have a greatest one.         *)
LEMMA MaxIsThere ==
  ASSUME NEW n \in Nat, NEW S \in SUBSET (1 .. n), S # {}
  PROVE  Max(S) \in S
<1> DEFINE U == {k \in Nat : \A i \in S : i <= k}
<1>1. U \in SUBSET Nat /\ n \in U
  OBVIOUS
<1>2. Min(U) \in U /\ \A k \in U : Min(U) <= k
  BY <1>1, MinIsLeast
<1> DEFINE m == Min(U)
<1>3. m \in Nat /\ \A i \in S : i \in 1 .. n /\ i <= m
  BY <1>2
<1>4. m \in S
  <2>1. ASSUME m \notin S PROVE FALSE
    <3>1. \A i \in S : i <= m - 1
      BY <1>3, <2>1
    <3>2. m - 1 \in Nat
      <4>1. PICK i \in S : TRUE
        OBVIOUS
      <4>2. i \in 1 .. n /\ i <= m - 1
        BY <1>3, <3>1
      <4> QED BY <1>3, <4>2
    <3>3. m - 1 \in U
      BY <3>1, <3>2
    <3> HIDE DEF U
    <3> QED BY <1>2, <1>3, <3>3
  <2> QED BY <2>1
<1> HIDE DEF m
<1>5. \A i \in S : m >= i
  BY <1>3
<1> QED BY <1>4, <1>5 DEF Max

-----------------------------------------------------------------------------
(* What appending a line does to the journal.                              *)

(* Append keeps the old lines in place and puts the new one last.          *)
LEMMA Appended ==
  ASSUME NEW j \in Seq(Line), NEW line \in Line, NEW k, k = Append(j, line)
  PROVE  /\ Len(j) \in Nat
         /\ DOMAIN j = 1 .. Len(j)
         /\ DOMAIN k = 1 .. Len(j) + 1
         /\ \A i \in DOMAIN j : k[i] = j[i]
         /\ k[Len(j) + 1] = line
OBVIOUS

(* What one more line does to the answers of the journal.                  *)

SettledDispatches(j) == {c \in Coids : IsSent(j, c) /\ IsResolved(j, c)}

(* One more line belongs to the order it names and to no other.            *)
LEMMA AppendedLinesOf ==
  ASSUME NEW j \in Seq(Line), NEW line \in Line, NEW c \in Coids
  PROVE  /\ line.coid # c => LinesOf(Append(j, line), c) = LinesOf(j, c)
         /\ line.coid = c =>
              LinesOf(Append(j, line), c) = LinesOf(j, c) \cup {Len(j) + 1}
         /\ Append(j, line)[Len(j) + 1] = line
<1> DEFINE k == Append(j, line)
<1>0. /\ DOMAIN j = 1 .. Len(j) /\ Len(j) \in Nat
      /\ DOMAIN k = 1 .. Len(j) + 1
      /\ \A i \in DOMAIN j : k[i] = j[i]
      /\ k[Len(j) + 1] = line
  OBVIOUS
<1> HIDE DEF k
<1>1. \A i \in DOMAIN k : i \in DOMAIN j \/ i = Len(j) + 1
  BY <1>0
<1>2. \A i \in LinesOf(j, c) : k[i] = j[i] /\ i \in DOMAIN k
  BY <1>0 DEF LinesOf
<1>3. Len(j) + 1 \in DOMAIN k /\ Len(j) + 1 \notin DOMAIN j
  BY <1>0
<1>4. /\ line.coid # c => LinesOf(k, c) = LinesOf(j, c)
      /\ line.coid = c => LinesOf(k, c) = LinesOf(j, c) \cup {Len(j) + 1}
  BY <1>0, <1>1, <1>2, <1>3 DEF LinesOf
<1> QED BY <1>0, <1>2, <1>4 DEF k

(* No line of the order was written in a dry run.                          *)
AllReal(j, c) == \A i \in LinesOf(j, c) : ~j[i].dry

(* What a line of the order itself adds to the answers about it.           *)
LEMMA AppendedOwn ==
  ASSUME NEW j \in Seq(Line), NEW line \in Line, NEW c \in Coids, line.coid = c
  PROVE  /\ IsSent(Append(j, line), c) <=> IsSent(j, c) \/ line.sent
         /\ IsResolved(Append(j, line), c) <=> IsResolved(j, c) \/ Settles(line)
         /\ AllReal(Append(j, line), c) <=> AllReal(j, c) /\ ~line.dry
<1> DEFINE k == Append(j, line)
<1>0. ASSUME NEW i \in LinesOf(j, c) PROVE k[i] = j[i]
  <2>1. i \in 1 .. Len(j)
    BY DEF LinesOf
  <2> QED BY <2>1
<1>1. LinesOf(k, c) = LinesOf(j, c) \cup {Len(j) + 1} /\ k[Len(j) + 1] = line
  BY AppendedLinesOf
<1> HIDE DEF k
<1>2. IsSent(k, c) <=> IsSent(j, c) \/ line.sent
  BY <1>0, <1>1 DEF IsSent
<1>3. IsResolved(k, c) <=> IsResolved(j, c) \/ Settles(line)
  BY <1>0, <1>1 DEF IsResolved
<1>4. AllReal(k, c) <=> AllReal(j, c) /\ ~line.dry
  BY <1>0, <1>1 DEF AllReal
<1> QED BY <1>2, <1>3, <1>4 DEF k

(* A line of another order adds nothing.                                   *)
LEMMA AppendedOther ==
  ASSUME NEW j \in Seq(Line), NEW line \in Line, NEW c \in Coids, line.coid # c
  PROVE  /\ IsSent(Append(j, line), c) <=> IsSent(j, c)
         /\ IsResolved(Append(j, line), c) <=> IsResolved(j, c)
         /\ AllReal(Append(j, line), c) <=> AllReal(j, c)
<1> DEFINE k == Append(j, line)
<1>0. ASSUME NEW i \in LinesOf(j, c) PROVE k[i] = j[i]
  <2>1. i \in 1 .. Len(j)
    BY DEF LinesOf
  <2> QED BY <2>1
<1>1. LinesOf(k, c) = LinesOf(j, c)
  BY AppendedLinesOf
<1> HIDE DEF k
<1>2. IsSent(k, c) <=> IsSent(j, c)
  BY <1>0, <1>1 DEF IsSent
<1>3. IsResolved(k, c) <=> IsResolved(j, c)
  BY <1>0, <1>1 DEF IsResolved
<1>4. AllReal(k, c) <=> AllReal(j, c)
  BY <1>0, <1>1 DEF AllReal
<1> QED BY <1>2, <1>3, <1>4 DEF k

(* A line without a cOID changes no answer about any order.                *)
LEMMA AppendAnonymous ==
  ASSUME NEW j \in Seq(Line), NEW line \in Line, line.coid = NoCoid
  PROVE  /\ UnresolvedDispatches(Append(j, line)) = UnresolvedDispatches(j)
         /\ SettledDispatches(Append(j, line)) = SettledDispatches(j)
<1> DEFINE k == Append(j, line)
<1>1. ASSUME NEW d \in Coids
      PROVE  /\ IsSent(k, d) <=> IsSent(j, d)
             /\ IsResolved(k, d) <=> IsResolved(j, d)
             /\ AllReal(k, d) <=> AllReal(j, d)
  <2>1. line.coid # d
    BY CoidAssumption
  <2> QED BY <2>1, AppendedOther
<1> HIDE DEF k
<1>2. /\ UnresolvedDispatches(k) = UnresolvedDispatches(j)
      /\ SettledDispatches(k) = SettledDispatches(j)
  BY <1>1 DEF UnresolvedDispatches, SettledDispatches, AllReal
<1> QED BY <1>2 DEF k

(* A later line of a dispatched order can only settle it.                  *)
LEMMA AppendLater ==
  ASSUME NEW j \in Seq(Line), NEW c \in Coids, NEW line \in Line, line.coid = c,
         ~line.dry, IsSent(j, c), AllReal(j, c)
  PROVE  \/ /\ UnresolvedDispatches(Append(j, line)) = UnresolvedDispatches(j)
            /\ SettledDispatches(Append(j, line)) = SettledDispatches(j)
         \/ /\ c \in UnresolvedDispatches(j)
            /\ UnresolvedDispatches(Append(j, line)) = UnresolvedDispatches(j) \ {c}
            /\ SettledDispatches(Append(j, line)) = SettledDispatches(j) \cup {c}
<1> DEFINE k == Append(j, line)
<1>1. ASSUME NEW d \in Coids, d # c
      PROVE  /\ IsSent(k, d) <=> IsSent(j, d)
             /\ IsResolved(k, d) <=> IsResolved(j, d)
             /\ AllReal(k, d) <=> AllReal(j, d)
  BY <1>1, AppendedOther
<1>2. IsSent(k, c) /\ AllReal(k, c) /\ (IsResolved(k, c) <=> IsResolved(j, c) \/ Settles(line))
  BY AppendedOwn
<1> HIDE DEF k
<1>3. CASE ~Settles(line) \/ IsResolved(j, c)
  <2>1. /\ UnresolvedDispatches(k) = UnresolvedDispatches(j)
        /\ SettledDispatches(k) = SettledDispatches(j)
    BY <1>1, <1>2, <1>3 DEF UnresolvedDispatches, SettledDispatches, AllReal
  <2> QED BY <2>1 DEF k
<1>4. CASE Settles(line) /\ ~IsResolved(j, c)
  <2>1. /\ c \in UnresolvedDispatches(j)
        /\ UnresolvedDispatches(k) = UnresolvedDispatches(j) \ {c}
        /\ SettledDispatches(k) = SettledDispatches(j) \cup {c}
    BY <1>1, <1>2, <1>4 DEF UnresolvedDispatches, SettledDispatches, AllReal
  <2> QED BY <2>1 DEF k
<1> QED BY <1>3, <1>4

(* The first line of an order, its intent, puts it in doubt.               *)
LEMMA AppendIntent ==
  ASSUME NEW j \in Seq(Line), NEW c \in Coids, NEW line \in Line, line.coid = c,
         line.sent, ~line.dry, ~Settles(line), LinesOf(j, c) = {}
  PROVE  /\ UnresolvedDispatches(Append(j, line)) = UnresolvedDispatches(j) \cup {c}
         /\ SettledDispatches(Append(j, line)) = SettledDispatches(j)
<1> DEFINE k == Append(j, line)
<1>1. ASSUME NEW d \in Coids, d # c
      PROVE  /\ IsSent(k, d) <=> IsSent(j, d)
             /\ IsResolved(k, d) <=> IsResolved(j, d)
             /\ AllReal(k, d) <=> AllReal(j, d)
  BY <1>1, AppendedOther
<1>2. ~IsSent(j, c) /\ ~IsResolved(j, c) /\ AllReal(j, c)
  BY DEF IsSent, IsResolved, AllReal
<1>3. IsSent(k, c) /\ AllReal(k, c) /\ ~IsResolved(k, c)
  BY <1>2, AppendedOwn
<1> HIDE DEF k
<1>4. /\ UnresolvedDispatches(k) = UnresolvedDispatches(j) \cup {c}
      /\ SettledDispatches(k) = SettledDispatches(j)
  BY <1>1, <1>2, <1>3 DEF UnresolvedDispatches, SettledDispatches, AllReal
<1> QED BY <1>4 DEF k

-----------------------------------------------------------------------------
(* The first line that says an order was sent, and the lines that say it   *)
(* moved no money.                                                         *)

SentLines(j, c) == {i \in LinesOf(j, c) : j[i].sent}
FirstSent(j, c) == j[Min(SentLines(j, c))]
IsFreed(j, c) == \E i \in LinesOf(j, c) : j[i].status \in NoMoneyStatuses

(* An order that was sent has a first line that says so.                   *)
LEMMA FirstSentIsThere ==
  ASSUME NEW j \in Seq(Line), NEW c \in Coids, IsSent(j, c)
  PROVE  /\ Min(SentLines(j, c)) \in SentLines(j, c)
         /\ Min(SentLines(j, c)) \in DOMAIN j
         /\ \A i \in SentLines(j, c) : Min(SentLines(j, c)) <= i
<1>1. SentLines(j, c) \in SUBSET Nat /\ SentLines(j, c) # {}
  BY DEF SentLines, LinesOf, IsSent
<1>2. SentLines(j, c) \subseteq DOMAIN j
  BY DEF SentLines, LinesOf
<1> QED BY <1>1, <1>2, MinIsLeast

(* Once there, it stays the first.                                         *)
LEMMA FirstSentStays ==
  ASSUME NEW j \in Seq(Line), NEW line \in Line, NEW c \in Coids, IsSent(j, c)
  PROVE  /\ IsSent(Append(j, line), c)
         /\ FirstSent(Append(j, line), c) = FirstSent(j, c)
<1> DEFINE k == Append(j, line)
           m == Min(SentLines(j, c))
<1>1. k \in Seq(Line) /\ IsSent(k, c)
  BY AppendedOwn, AppendedOther
<1>2. /\ Len(j) \in Nat
      /\ DOMAIN j = 1 .. Len(j)
      /\ DOMAIN k = 1 .. Len(j) + 1
      /\ \A i \in DOMAIN j : k[i] = j[i]
  BY Appended
<1> HIDE DEF k
<1>3. m \in SentLines(j, c) /\ m \in DOMAIN j /\ \A i \in SentLines(j, c) : m <= i
  BY FirstSentIsThere
<1> HIDE DEF m
<1>4. m \in SentLines(k, c)
  BY <1>2, <1>3 DEF SentLines, LinesOf
<1>5. \A i \in SentLines(k, c) : m <= i
  BY <1>2, <1>3 DEF SentLines, LinesOf
<1>6. Min(SentLines(k, c)) = m
  <2>1. /\ Min(SentLines(k, c)) \in SentLines(k, c)
        /\ \A i \in SentLines(k, c) : Min(SentLines(k, c)) <= i
        /\ SentLines(k, c) \subseteq DOMAIN k
    BY <1>1, FirstSentIsThere DEF SentLines, LinesOf
  <2> QED BY <1>2, <1>4, <1>5, <2>1
<1>7. FirstSent(k, c) = FirstSent(j, c)
  BY <1>2, <1>3, <1>6 DEF FirstSent, m
<1> QED BY <1>1, <1>7 DEF k

(* The line that first says so is the first.                               *)
LEMMA FirstSentAppended ==
  ASSUME NEW j \in Seq(Line), NEW line \in Line, NEW c \in Coids,
         ~IsSent(j, c), line.coid = c, line.sent
  PROVE  IsSent(Append(j, line), c) /\ FirstSent(Append(j, line), c) = line
<1> DEFINE k == Append(j, line)
<1>1. k \in Seq(Line) /\ IsSent(k, c)
  BY AppendedOwn
<1>2. /\ Len(j) \in Nat
      /\ DOMAIN j = 1 .. Len(j)
      /\ DOMAIN k = 1 .. Len(j) + 1
      /\ \A i \in DOMAIN j : k[i] = j[i]
      /\ k[Len(j) + 1] = line
  BY Appended
<1> HIDE DEF k
<1>3. \A i \in SentLines(k, c) : i = Len(j) + 1
  BY <1>2 DEF SentLines, LinesOf, IsSent
<1>4. Min(SentLines(k, c)) = Len(j) + 1
  BY <1>1, <1>3, FirstSentIsThere
<1> QED BY <1>1, <1>2, <1>4 DEF FirstSent, k

(* A line without news of a dispatch sends nothing.                        *)
LEMMA UnsentAppended ==
  ASSUME NEW j \in Seq(Line), NEW line \in Line, NEW c \in Coids,
         ~IsSent(j, c), ~(line.sent /\ line.coid = c)
  PROVE  ~IsSent(Append(j, line), c)
BY AppendedOwn, AppendedOther

(* An order once freed stays freed.                                        *)
LEMMA FreedStays ==
  ASSUME NEW j \in Seq(Line), NEW line \in Line, NEW c, IsFreed(j, c)
  PROVE  IsFreed(Append(j, line), c)
<1> DEFINE k == Append(j, line)
<1>1. /\ DOMAIN j = 1 .. Len(j) /\ Len(j) \in Nat
      /\ DOMAIN k = 1 .. Len(j) + 1
      /\ \A i \in DOMAIN j : k[i] = j[i]
  BY Appended
<1> HIDE DEF k
<1>2. IsFreed(k, c)
  BY <1>1 DEF IsFreed, LinesOf
<1> QED BY <1>2 DEF k

(* The fate the duplicate guard reads off the journal is one of its lines. *)
LEMMA FateIsFreed ==
  ASSUME NEW j \in Seq(Line), NEW c, FateIsNoMoney(j, c)
  PROVE  IsFreed(j, c)
<1> DEFINE fates == {i \in RecentLines(j) \cap LinesOf(j, c) : j[i].kind # "intent"}
<1>1. fates # {} /\ j[Max(fates)].status \in NoMoneyStatuses
  BY DEF FateIsNoMoney
<1>2. Len(j) \in Nat /\ fates \in SUBSET (1 .. Len(j))
  BY DEF LinesOf
<1>3. Max(fates) \in fates
  <2> HIDE DEF fates
  <2> QED BY <1>1, <1>2, MaxIsThere
<1> QED BY <1>1, <1>3 DEF IsFreed

(* So is the status that gives a buy's budget back.                        *)
LEMMA NoMoneyIsFreed ==
  ASSUME NEW j \in Seq(Line), NEW c, ResolvedAsNoMoney(j, c)
  PROVE  IsFreed(j, c)
<1> DEFINE marks == {i \in LinesOf(j, c) : j[i].kind = "resolution"}
<1>1. marks # {} /\ j[Max(marks)].status \in NoMoneyStatuses
  BY DEF ResolvedAsNoMoney
<1>2. Len(j) \in Nat /\ marks \in SUBSET (1 .. Len(j))
  BY DEF LinesOf
<1>3. Max(marks) \in marks
  <2> HIDE DEF marks
  <2> QED BY <1>1, <1>2, MaxIsThere
<1> QED BY <1>1, <1>3 DEF IsFreed

-----------------------------------------------------------------------------
(* Sums.                                                                   *)

Pick(s) == CHOOSE x \in s : TRUE

(* g is the table of the sums of f over the subsets of S.                  *)
SumTable(g, f, S) ==
  g = [s \in SUBSET S |-> IF s = {} THEN 0 ELSE f[Pick(s)] + g[s \ {Pick(s)}]]

(* A set that is not empty has the element picked from it.                 *)
LEMMA PickType ==
  ASSUME NEW s, s # {}
  PROVE  Pick(s) \in s
BY DEF Pick

(* Of any subsets of a finite set one has no other among its own subsets.  *)
LEMMA LeastSubset ==
  ASSUME NEW S, IsFiniteSet(S), NEW B, B \subseteq SUBSET S, B # {}
  PROVE  \E m \in B : \A s \in B : ~(s \subseteq m /\ s # m)
<1> DEFINE R == StrictSubsetOrdering(S)
<1>1. IsWellFoundedOn(R, SUBSET S)
  BY FS_StrictSubsetOrderingWellFounded, FS_FiniteSubsetsOfFinite
<1> HIDE DEF R
<1>2. PICK m \in B : \A s \in B : ~(<<s, m>> \in R)
  BY <1>1, WFMin
<1>3. \A s \in B : s \subseteq m /\ s # m => <<s, m>> \in R
  BY DEF R, StrictSubsetOrdering
<1>4. \A s \in B : ~(s \subseteq m /\ s # m)
  BY <1>2, <1>3
<1> QED BY <1>4

(* Two tables agree wherever both say something.                           *)
LEMMA TableUnique ==
  ASSUME NEW f, NEW S, IsFiniteSet(S), NEW T \in SUBSET S,
         NEW g, SumTable(g, f, S), NEW h, SumTable(h, f, T)
  PROVE  \A s \in SUBSET T : g[s] = h[s]
<1> DEFINE B == {s \in SUBSET T : g[s] # h[s]}
<1> SUFFICES ASSUME B # {} PROVE FALSE
  OBVIOUS
<1>1. PICK m \in B : \A s \in B : ~(s \subseteq m /\ s # m)
  <2>1. B \subseteq SUBSET S
    OBVIOUS
  <2> HIDE DEF B
  <2> QED BY <2>1, LeastSubset
<1> DEFINE p == Pick(m)
<1>2. g[m] = IF m = {} THEN 0 ELSE f[p] + g[m \ {p}]
  BY DEF SumTable
<1>3. h[m] = IF m = {} THEN 0 ELSE f[p] + h[m \ {p}]
  BY DEF SumTable
<1>4. CASE m = {}
  BY <1>2, <1>3, <1>4
<1>5. CASE m # {}
  <2>1. p \in m
    BY <1>5, PickType
  <2>2. m \ {p} \in SUBSET T /\ m \ {p} \subseteq m /\ m \ {p} # m
    BY <2>1
  <2>3. g[m \ {p}] = h[m \ {p}]
    BY <1>1, <2>2
  <2> HIDE DEF p
  <2>4. g[m] # h[m]
    BY <1>1
  <2> QED BY <1>2, <1>3, <1>5, <2>3, <2>4
<1> QED BY <1>4, <1>5

(* The community module's sum is read off such a table.                    *)
LEMMA SumByTable ==
  ASSUME NEW f, NEW S
  PROVE  SumFunctionOnSet(f, S) = (CHOOSE g : SumTable(g, f, S))[S]
BY DEF SumFunctionOnSet, FoldFunctionOnSet, MapThenFoldSet, SumTable, Pick

(* A finite set has such a table.                                          *)
LEMMA TableExists ==
  ASSUME NEW f, NEW S, IsFiniteSet(S)
  PROVE  \E g : SumTable(g, f, S)
<1> DEFINE B == {T \in SUBSET S : ~\E g : SumTable(g, f, T)}
<1> SUFFICES ASSUME B # {} PROVE FALSE
  OBVIOUS
<1>1. PICK m \in B : \A s \in B : ~(s \subseteq m /\ s # m)
  <2>1. B \subseteq SUBSET S
    OBVIOUS
  <2> HIDE DEF B
  <2> QED BY <2>1, LeastSubset
<1>2. \A t \in SUBSET m : t # m => \E g : SumTable(g, f, t)
  BY <1>1
<1> DEFINE tab(t) == CHOOSE g : SumTable(g, f, t)
<1>3. \A t \in SUBSET m : t # m => SumTable(tab(t), f, t)
  BY <1>2
<1> DEFINE g == [s \in SUBSET m |->
                   IF s = {} THEN 0 ELSE f[Pick(s)] + SumFunctionOnSet(f, s \ {Pick(s)})]
<1>4. ASSUME NEW t \in SUBSET m, t # m PROVE g[t] = SumFunctionOnSet(f, t)
  <2>1. SumTable(tab(t), f, t)
    BY <1>3, <1>4
  <2>2. SumFunctionOnSet(f, t) = tab(t)[t]
    BY SumByTable
  <2>3. tab(t)[t] = IF t = {} THEN 0 ELSE f[Pick(t)] + tab(t)[t \ {Pick(t)}]
    <3> HIDE DEF tab
    <3> QED BY <2>1 DEF SumTable
  <2>4. ASSUME t # {} PROVE tab(t)[t \ {Pick(t)}] = SumFunctionOnSet(f, t \ {Pick(t)})
    <3> DEFINE u == t \ {Pick(t)}
    <3>1. u \in SUBSET t /\ u \in SUBSET m /\ u # m
      BY <2>4, PickType
    <3>2. SumTable(tab(u), f, u)
      BY <1>3, <3>1
    <3>3. IsFiniteSet(t)
      BY FS_Subset
    <3>4. SumFunctionOnSet(f, u) = tab(u)[u]
      BY SumByTable
    <3> HIDE DEF u, tab
    <3>5. tab(t)[u] = tab(u)[u]
      BY <2>1, <3>1, <3>2, <3>3, TableUnique
    <3> QED BY <3>4, <3>5 DEF u
  <2> HIDE DEF tab
  <2> QED BY <2>2, <2>3, <2>4
<1>5. SumTable(g, f, m)
  <2>1. ASSUME NEW s \in SUBSET m, s # {} PROVE g[s \ {Pick(s)}] = SumFunctionOnSet(f, s \ {Pick(s)})
    <3>1. s \ {Pick(s)} \in SUBSET m /\ s \ {Pick(s)} # m
      BY <2>1, PickType
    <3> HIDE DEF g
    <3> QED BY <1>4, <3>1
  <2>2. g = [s \in SUBSET m |-> IF s = {} THEN 0 ELSE f[Pick(s)] + g[s \ {Pick(s)}]]
    BY <2>1
  <2> HIDE DEF g
  <2> QED BY <2>2 DEF SumTable
<1> QED BY <1>1, <1>5


(* A sum over a finite set takes its elements one by one.                  *)
LEMMA SumUnfolds ==
  ASSUME NEW f, NEW S, IsFiniteSet(S)
  PROVE  /\ SumFunctionOnSet(f, {}) = 0
         /\ S # {} => Pick(S) \in S /\ SumFunctionOnSet(f, S) = f[Pick(S)] + SumFunctionOnSet(f, S \ {Pick(S)})
<1> DEFINE tab(t) == CHOOSE g : SumTable(g, f, t)
<1>1. ASSUME NEW t \in SUBSET S PROVE SumTable(tab(t), f, t) /\ SumFunctionOnSet(f, t) = tab(t)[t]
  <2>1. \E g : SumTable(g, f, t)
    BY TableExists, FS_Subset
  <2> QED BY <2>1, SumByTable
<1>2. SumFunctionOnSet(f, {}) = 0
  <2>1. SumTable(tab({}), f, {}) /\ SumFunctionOnSet(f, {}) = tab({})[{}]
    BY <1>1
  <2> HIDE DEF tab
  <2> QED BY <2>1 DEF SumTable
<1>3. ASSUME S # {} PROVE Pick(S) \in S /\ SumFunctionOnSet(f, S) = f[Pick(S)] + SumFunctionOnSet(f, S \ {Pick(S)})
  <2> DEFINE u == S \ {Pick(S)}
  <2>1. u \in SUBSET S /\ S \in SUBSET S
    OBVIOUS
  <2>2. SumTable(tab(u), f, u) /\ SumFunctionOnSet(f, u) = tab(u)[u]
    BY <1>1, <2>1
  <2>3. SumTable(tab(S), f, S) /\ SumFunctionOnSet(f, S) = tab(S)[S]
    BY <1>1, <2>1
  <2> HIDE DEF tab
  <2>4. tab(S)[S] = f[Pick(S)] + tab(S)[u]
    BY <1>3, <2>3 DEF SumTable
  <2> HIDE DEF u
  <2>5. tab(S)[u] = tab(u)[u]
    BY <2>1, <2>2, <2>3, TableUnique
  <2> QED BY <1>3, <2>2, <2>3, <2>4, <2>5, PickType DEF u
<1> QED BY <1>2, <1>3

(* The sum of naturals is a natural.                                       *)
LEMMA SumType ==
  ASSUME NEW f, NEW S, IsFiniteSet(S), \A x \in S : f[x] \in Nat
  PROVE  SumFunctionOnSet(f, S) \in Nat
<1> DEFINE B == {s \in SUBSET S : SumFunctionOnSet(f, s) \notin Nat}
<1> SUFFICES ASSUME B # {} PROVE FALSE
  OBVIOUS
<1>1. PICK m \in B : \A s \in B : ~(s \subseteq m /\ s # m)
  <2>1. B \subseteq SUBSET S
    OBVIOUS
  <2> HIDE DEF B
  <2> QED BY <2>1, LeastSubset
<1>2. IsFiniteSet(m) /\ m \subseteq S /\ SumFunctionOnSet(f, m) \notin Nat
  BY FS_Subset
<1>3. m # {}
  <2>1. SumFunctionOnSet(f, {}) = 0
    BY SumUnfolds
  <2> QED BY <1>2, <2>1
<1>4. Pick(m) \in m /\ SumFunctionOnSet(f, m) = f[Pick(m)] + SumFunctionOnSet(f, m \ {Pick(m)})
  BY <1>2, <1>3, SumUnfolds
<1>5. SumFunctionOnSet(f, m \ {Pick(m)}) \in Nat
  BY <1>1, <1>2, <1>4
<1> QED BY <1>2, <1>4, <1>5

(* It does not matter which element is taken first.                        *)
LEMMA SumTakes ==
  ASSUME NEW f, NEW S, IsFiniteSet(S), \A x \in S : f[x] \in Nat, NEW x \in S
  PROVE  SumFunctionOnSet(f, S) = f[x] + SumFunctionOnSet(f, S \ {x})
<1> DEFINE B == {s \in SUBSET S : \E y \in s : SumFunctionOnSet(f, s) # f[y] + SumFunctionOnSet(f, s \ {y})}
<1> SUFFICES ASSUME B # {} PROVE FALSE
  OBVIOUS
<1>1. PICK m \in B : \A s \in B : ~(s \subseteq m /\ s # m)
  <2>1. B \subseteq SUBSET S
    OBVIOUS
  <2> HIDE DEF B
  <2> QED BY <2>1, LeastSubset
<1>2. IsFiniteSet(m) /\ m \subseteq S
  BY FS_Subset
<1>3. PICK y \in m : SumFunctionOnSet(f, m) # f[y] + SumFunctionOnSet(f, m \ {y})
  OBVIOUS
<1> DEFINE p == Pick(m)
<1>4. p \in m /\ SumFunctionOnSet(f, m) = f[p] + SumFunctionOnSet(f, m \ {p})
  BY <1>2, <1>3, SumUnfolds
<1>5. p # y
  BY <1>3, <1>4
<1>6. ASSUME NEW s \in SUBSET m, s # m, NEW z \in s PROVE SumFunctionOnSet(f, s) = f[z] + SumFunctionOnSet(f, s \ {z})
  BY <1>1, <1>2, <1>6
<1> HIDE DEF B, p
<1>7. SumFunctionOnSet(f, m \ {p}) = f[y] + SumFunctionOnSet(f, (m \ {p}) \ {y})
  BY <1>3, <1>4, <1>5, <1>6
<1>8. SumFunctionOnSet(f, m \ {y}) = f[p] + SumFunctionOnSet(f, (m \ {y}) \ {p})
  BY <1>3, <1>4, <1>5, <1>6
<1>9. (m \ {p}) \ {y} = (m \ {y}) \ {p}
  OBVIOUS
<1>10. SumFunctionOnSet(f, (m \ {p}) \ {y}) \in Nat
  <2>1. IsFiniteSet((m \ {p}) \ {y}) /\ \A z \in (m \ {p}) \ {y} : f[z] \in Nat
    BY <1>2, FS_RemoveElement
  <2> QED BY <2>1, SumType
<1>11. f[p] \in Nat /\ f[y] \in Nat
  BY <1>2, <1>4
<1> QED BY <1>3, <1>4, <1>7, <1>8, <1>9, <1>10, <1>11

(* What one set sums to is at most what another does, if each element      *)
(* counts there for as much, or here for nothing.                          *)
LEMMA SumBound ==
  ASSUME NEW f, NEW S, IsFiniteSet(S), \A x \in S : f[x] \in Nat,
         NEW g, NEW T, IsFiniteSet(T), \A x \in T : g[x] \in Nat,
         \A x \in S \ T : f[x] = 0,
         \A x \in S \cap T : f[x] <= g[x]
  PROVE  SumFunctionOnSet(f, S) <= SumFunctionOnSet(g, T)
<1> DEFINE Covers(s, t) == /\ \A x \in s \ t : f[x] = 0
                           /\ \A x \in s \cap t : f[x] <= g[x]
<1> DEFINE B == {s \in SUBSET S : \E t \in SUBSET T : Covers(s, t) /\ ~(SumFunctionOnSet(f, s) <= SumFunctionOnSet(g, t))}
<1> SUFFICES ASSUME B # {} PROVE FALSE
  OBVIOUS
<1>1. PICK m \in B : \A s \in B : ~(s \subseteq m /\ s # m)
  <2>1. B \subseteq SUBSET S
    OBVIOUS
  <2> HIDE DEF B
  <2> QED BY <2>1, LeastSubset
<1>2. PICK t \in SUBSET T : Covers(m, t) /\ ~(SumFunctionOnSet(f, m) <= SumFunctionOnSet(g, t))
  OBVIOUS
<1>3. IsFiniteSet(m) /\ m \subseteq S /\ IsFiniteSet(t) /\ t \subseteq T
  BY FS_Subset
<1>4. SumFunctionOnSet(g, t) \in Nat
  BY <1>3, SumType
<1>5. m # {}
  <2>1. SumFunctionOnSet(f, {}) = 0
    BY SumUnfolds
  <2> HIDE DEF Covers
  <2> QED BY <1>2, <1>4, <2>1
<1>6. PICK x \in m : SumFunctionOnSet(f, m) = f[x] + SumFunctionOnSet(f, m \ {x})
  BY <1>3, <1>5, SumUnfolds
<1>7. m \ {x} \subseteq m /\ m \ {x} # m /\ m \ {x} \in SUBSET S
  BY <1>3
<1>8. \A u \in SUBSET T : Covers(m \ {x}, u) => SumFunctionOnSet(f, m \ {x}) <= SumFunctionOnSet(g, u)
  BY <1>1, <1>7
<1>9. SumFunctionOnSet(f, m \ {x}) \in Nat /\ f[x] \in Nat
  <2>1. IsFiniteSet(m \ {x}) /\ \A y \in m \ {x} : f[y] \in Nat
    BY <1>3, FS_RemoveElement
  <2> QED BY <1>3, <2>1, SumType
<1> HIDE DEF B
<1>10. CASE x \in t
  <2>1. Covers(m \ {x}, t \ {x}) /\ t \ {x} \in SUBSET T
    BY <1>2
  <2>2. SumFunctionOnSet(g, t) = g[x] + SumFunctionOnSet(g, t \ {x})
    BY <1>3, <1>10, SumTakes
  <2>3. SumFunctionOnSet(g, t \ {x}) \in Nat /\ g[x] \in Nat
    <3>1. IsFiniteSet(t \ {x}) /\ \A y \in t \ {x} : g[y] \in Nat
      BY <1>3, FS_RemoveElement
    <3> QED BY <1>3, <1>10, <3>1, SumType
  <2>4. f[x] <= g[x]
    BY <1>2, <1>10
  <2>5. SumFunctionOnSet(f, m \ {x}) <= SumFunctionOnSet(g, t \ {x})
    BY <1>8, <2>1
  <2> HIDE DEF Covers
  <2> QED BY <1>2, <1>4, <1>6, <1>9, <2>2, <2>3, <2>4, <2>5
<1>11. CASE x \notin t
  <2>1. Covers(m \ {x}, t) /\ f[x] = 0
    BY <1>2, <1>11
  <2>2. SumFunctionOnSet(f, m \ {x}) <= SumFunctionOnSet(g, t)
    BY <1>8, <2>1
  <2> HIDE DEF Covers
  <2> QED BY <1>2, <1>4, <1>6, <1>9, <2>1, <2>2
<1> QED BY <1>10, <1>11

-----------------------------------------------------------------------------
(* What the daily limit counts.                                            *)

(* The lines of each order but its resolutions carry the order's request,  *)
(* and only they say that it was sent.                                     *)
CarriesRequests(j, r) ==
  \A i \in DOMAIN j :
    /\ j[i].coid \in Coids /\ j[i].kind # "resolution" => j[i].request = r[j[i].coid]
    /\ j[i].sent => j[i].coid \in Coids /\ j[i].kind # "resolution"

(* The buys sent on the day that the journal does not call off.            *)
Committed(j, r, day) ==
  {c \in Coids : /\ IsSent(j, c) /\ ~IsFreed(j, c)
                 /\ r[c].side = "BUY" /\ Day(FirstSent(j, c).time) = day}

Notionals(r) == [c \in Coids |-> r[c].notional]

(* The orders that have lines are finitely many.                           *)
LEMMA OrdersAreFinite ==
  ASSUME NEW j \in Seq(Line), NEW S \in SUBSET Coids, \A c \in S : LinesOf(j, c) # {}
  PROVE  IsFiniteSet(S)
<1> DEFINE D == {i \in DOMAIN j : j[i].coid \in S}
           f == [i \in D |-> j[i].coid]
<1>1. Len(j) \in Nat /\ DOMAIN j = 1 .. Len(j)
  OBVIOUS
<1>2. IsFiniteSet(D)
  <2>1. IsFiniteSet(1 .. Len(j)) /\ D \in SUBSET (1 .. Len(j))
    BY <1>1, FS_Interval
  <2> HIDE DEF D
  <2> QED BY <2>1, FS_Subset
<1>3. f \in Surjection(D, S)
  BY DEF Surjection, LinesOf
<1> HIDE DEF D, f
<1> QED BY <1>2, <1>3, FS_Surjection

(* The guard's sum counts every buy it has to answer for, and in full.     *)
LEMMA CommittedIsSpent ==
  ASSUME NEW j \in Seq(Line), NEW r \in [Coids -> Requests], CarriesRequests(j, r), NEW day
  PROVE  /\ SumFunctionOnSet(Notionals(r), Committed(j, r, day)) <= SpentOn(j, day)
         /\ SpentOn(j, day) \in Nat
<1> USE RequestAssumption
<1> DEFINE C == Committed(j, r, day)
           counted == CountedBuys(j, day)
           first == [c \in counted |-> j[Min(BuyLines(j, c, day))].request.notional]
<1>1. IsFiniteSet(C) /\ IsFiniteSet(counted)
  <2>1. C \in SUBSET Coids /\ counted \in SUBSET Coids
    BY DEF Committed, CountedBuys
  <2>2. \A c \in C : LinesOf(j, c) # {}
    BY DEF Committed, IsSent
  <2>3. \A c \in counted : LinesOf(j, c) # {}
    BY DEF CountedBuys, BuyLines
  <2> HIDE DEF C, counted
  <2> QED BY <2>1, <2>2, <2>3, OrdersAreFinite
<1>2. ASSUME NEW c \in counted
      PROVE  /\ Min(BuyLines(j, c, day)) \in BuyLines(j, c, day)
             /\ first[c] = r[c].notional
  <2> DEFINE B == BuyLines(j, c, day)
  <2>1. B \in SUBSET Nat /\ B # {} /\ c \in Coids
    BY DEF CountedBuys, BuyLines, LinesOf
  <2>2. Min(B) \in B
    <3> HIDE DEF B
    <3> QED BY <2>1, MinIsLeast
  <2>3. j[Min(B)].request = r[c]
    BY <2>1, <2>2 DEF BuyLines, LinesOf, CarriesRequests
  <2> QED BY <2>2, <2>3
<1>3. ASSUME NEW c \in C \ counted PROVE Notionals(r)[c] = 0
  <2>1. c \in Coids /\ IsSent(j, c) /\ ~IsFreed(j, c) /\ r[c].side = "BUY"
        /\ Day(FirstSent(j, c).time) = day
    BY DEF Committed
  <2> DEFINE m == Min(SentLines(j, c))
  <2>2. m \in LinesOf(j, c) /\ j[m].sent /\ Day(j[m].time) = day
    BY <2>1, FirstSentIsThere DEF SentLines, FirstSent
  <2>3. j[m].kind # "resolution" /\ j[m].request = r[c]
    BY <2>1, <2>2 DEF LinesOf, CarriesRequests
  <2>4. \A i \in BuyLines(j, c, day) : j[i].status \notin NoMoneyStatuses
    BY <2>1 DEF BuyLines, IsFreed
  <2>5. ~ResolvedAsNoMoney(j, c)
    BY <2>1, NoMoneyIsFreed
  <2>6. m \notin BuyLines(j, c, day)
    BY <2>1, <2>2, <2>4, <2>5 DEF CountedBuys
  <2>7. ~(r[c].notional > 0) /\ r[c].notional \in Nat
    BY <2>1, <2>2, <2>3, <2>6 DEF BuyLines
  <2> QED BY <2>1, <2>7 DEF Notionals
<1>4. \A c \in C : Notionals(r)[c] \in Nat
  BY DEF Committed, Notionals
<1>5. \A c \in counted : first[c] \in Nat /\ c \in Coids
  BY <1>2 DEF CountedBuys
<1>6. \A c \in C \cap counted : Notionals(r)[c] <= first[c]
  BY <1>2, <1>5 DEF Notionals
<1>7. SumFunctionOnSet(Notionals(r), C) <= SumFunctionOnSet(first, counted)
  <2> HIDE DEF C, counted, first
  <2> QED BY <1>1, <1>3, <1>4, <1>5, <1>6, SumBound
<1>8. SpentOn(j, day) = SumFunctionOnSet(first, counted)
  BY DEF SpentOn, SumFunction
<1>9. SumFunctionOnSet(first, counted) \in Nat
  <2> HIDE DEF counted, first
  <2> QED BY <1>1, <1>5, SumType
<1> QED BY <1>7, <1>8, <1>9

(* One buy more adds its notional and no more to what a day is charged.    *)
LEMMA SumGrows ==
  ASSUME NEW f, NEW S, IsFiniteSet(S), NEW c, \A x \in S \cup {c} : f[x] \in Nat
  PROVE  SumFunctionOnSet(f, S \cup {c}) <= f[c] + SumFunctionOnSet(f, S)
<1>1. IsFiniteSet(S \cup {c}) /\ IsFiniteSet((S \cup {c}) \ {c})
  BY FS_AddElement, FS_RemoveElement
<1>2. SumFunctionOnSet(f, S \cup {c}) = f[c] + SumFunctionOnSet(f, (S \cup {c}) \ {c})
  BY <1>1, SumTakes
<1>3. SumFunctionOnSet(f, (S \cup {c}) \ {c}) <= SumFunctionOnSet(f, S)
  BY <1>1, SumBound
<1>4. SumFunctionOnSet(f, S) \in Nat /\ SumFunctionOnSet(f, (S \cup {c}) \ {c}) \in Nat
  BY <1>1, SumType
<1> QED BY <1>2, <1>3, <1>4

(* A day that has begun was not there before.                              *)
LEMMA DaysPass ==
  ASSUME NEW t \in Nat, NEW n \in Nat, t <= n
  PROVE  Day(t) \in Nat /\ Day(t) <= Day(n)
<1>1. DayLength \in Nat /\ DayLength > 0
  BY JournalBounds
<1> QED BY <1>1 DEF Day

=============================================================================
