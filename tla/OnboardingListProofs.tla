------------------------ MODULE OnboardingListProofs ------------------------
(***************************************************************************)
(* Who turns the pages of the list misses no more applications than came   *)
(* meanwhile, and only the oldest, for any number of applications.         *)
(*                                                                         *)
(* The argument: what is still to be seen has at least as many newer       *)
(* applications as pages were turned, and the last page is turned when     *)
(* there are as many pages as there were applications.                     *)
(***************************************************************************)
EXTENDS OnboardingProofs, WellFoundedInduction

(* Applications are numbers, in the order of their creation.               *)
LEMMA AppNumbers ==
  /\ \A a \in App : a \in Nat /\ NumApps - a \in Nat
  /\ \A a, b, c \in App : /\ a <= b => ~(a > b)
                          /\ a <= b /\ c > b => c > a
  BY NumAppsAssumption DEF App

(* Some of the applications have a last one.                               *)
LEMMA LastOf ==
  ASSUME NEW T, T \subseteq App, T # {}
  PROVE  \E m \in T : \A a \in T : a <= m
<1>. DEFINE Before(a) == NumApps - a
            D == { Before(a) : a \in T }
<1>1. IsWellFoundedOn(OpToRel(<, Nat), Nat)
  BY NatLessThanWellFounded
<1>2. D \subseteq Nat /\ D # {}
  BY AppNumbers
<1>3. PICK d \in D : \A e \in D : ~(<< e, d >> \in OpToRel(<, Nat))
  BY <1>1, <1>2, WFMin
<1>4. \A e \in D : ~(e < d)
  BY <1>2, <1>3 DEF OpToRel
<1>5. PICK m \in T : d = Before(m)
  OBVIOUS
<1>6. \A a \in T : ~(Before(a) < Before(m))
  BY <1>4, <1>5
<1>. QED  BY <1>6, NumAppsAssumption DEF App

(* If every one of some applications of a list has t newer ones in it, the *)
(* list has t more than them.                                              *)
LEMMA NewerThanAll ==
  ASSUME NEW S, S \subseteq App, NEW T, T \subseteq S, T # {}, NEW t \in Nat,
         \A m \in T : t <= Cardinality({ b \in S : b > m })
  PROVE  Cardinality(T) + t <= Cardinality(S)
<1>1. PICK m \in T : \A a \in T : a <= m
  BY LastOf
<1>. DEFINE N == { b \in S : b > m }
<1>2. IsFiniteSet(S)
  BY FiniteHere, FS_Subset
<1>3. /\ IsFiniteSet(T) /\ IsFiniteSet(N)
      /\ Cardinality(T) \in Nat /\ Cardinality(N) \in Nat /\ Cardinality(S) \in Nat
  BY <1>2, FS_Subset, FS_CardinalityType
<1>4. T \cap N = {}
  <2>1. \A a \in T : a \in App /\ m \in App /\ a <= m
    BY <1>1
  <2>. QED  BY <2>1, AppNumbers
<1>5. /\ IsFiniteSet(T \cup N)
      /\ Cardinality(T \cup N) = Cardinality(T) + Cardinality(N) - Cardinality(T \cap N)
  BY <1>3, FS_Union
<1>6. Cardinality(T \cap N) = 0
  BY <1>4, FS_EmptySet
<1>7. (T \cup N) \in SUBSET S
  OBVIOUS
<1>8. Cardinality(T \cup N) <= Cardinality(S)
  BY <1>2, <1>7, FS_Subset
<1>9. t <= Cardinality(N)
  OBVIOUS
<1>. HIDE DEF N
<1>. QED  BY <1>3, <1>5, <1>6, <1>8, <1>9

(* How many are newer is a number, and more with more in the list.         *)
LEMMA NewerCounted ==
  ASSUME NEW S, S \subseteq App, NEW R, R \subseteq S, NEW m
  PROVE  /\ Cardinality({ b \in S : b > m }) \in Nat
         /\ Cardinality({ b \in R : b > m }) \in Nat
         /\ Cardinality({ b \in R : b > m }) <= Cardinality({ b \in S : b > m })
<1>. DEFINE NS == { b \in S : b > m }
            NR == { b \in R : b > m }
<1>1. NS \in SUBSET App /\ NR \in SUBSET NS
  OBVIOUS
<1>. HIDE DEF NS, NR
<1>2. IsFiniteSet(NS)
  BY <1>1, FiniteHere, FS_Subset
<1>3. IsFiniteSet(NR) /\ Cardinality(NR) <= Cardinality(NS)
  BY <1>1, <1>2, FS_Subset
<1>4. Cardinality(NS) \in Nat /\ Cardinality(NR) \in Nat
  BY <1>2, <1>3, FS_CardinalityType
<1>. QED  BY <1>3, <1>4 DEF NS, NR

(* An older application has more newer ones.                               *)
LEMMA OlderHasMore ==
  ASSUME NEW S, S \subseteq App, NEW m \in S, NEW a \in S, a <= m
  PROVE  Cardinality({ b \in S : b > m }) <= Cardinality({ b \in S : b > a })
<1>. DEFINE NM == { b \in S : b > m }
            NA == { b \in S : b > a }
<1>1. NA \in SUBSET App /\ NM \in SUBSET NA
  <2>1. \A b \in S : b \in App /\ m \in App /\ a \in App
    OBVIOUS
  <2>. QED  BY <2>1, AppNumbers
<1>. HIDE DEF NA, NM
<1>2. IsFiniteSet(NA)
  BY <1>1, FiniteHere, FS_Subset
<1>3. Cardinality(NM) <= Cardinality(NA)
  BY <1>1, <1>2, FS_Subset
<1>. QED  BY <1>3 DEF NA, NM
-----------------------------------------------------------------------------
LEMMA InitWalk == Init => WalkInv
  BY DEF Init, WalkInv

(* As long as nothing is taken back, the list only grows.                  *)
LEMMA ListGrows ==
  ASSUME TypeOK, TypeOK', RowsInv, AheadInv, [Next]_vars,
         faults' \cap { "rollback", "crash" } = {}
  PROVE  /\ faults \cap { "rollback", "crash" } = {}
         /\ Stored(view) \subseteq Stored(view')
<1>1. faults \subseteq faults' /\ ~Restores
  BY StepDatabase DEF DatabaseMove, Restores, CrashAndRecover, Fault
<1>2. \A a \in App : view.row[a] # NoRow => view'.row[a] # NoRow
  BY <1>1, RowsStay
<1>. QED  BY <1>1, <1>2 DEF Stored

(* What the one who turns the pages knows, while others submit.            *)
LEMMA WatchedWalk ==
  ASSUME TypeOK, TypeOK', RowsInv, AheadInv, WalkInv, [Next]_vars, UNCHANGED walk
  PROVE  WalkInv'
<1>1. walk.at = "off" => walk.seen = {} /\ walk.offset = 0
  BY DEF WalkInv
<1>. SUFFICES ASSUME faults' \cap { "rollback", "crash" } = {}, walk.at # "off"
              PROVE  WalkInv'
  BY <1>1 DEF WalkInv
<1>2. /\ faults \cap { "rollback", "crash" } = {}
      /\ Stored(view) \subseteq Stored(view') /\ Stored(view') \subseteq App
  BY ListGrows, ListedFinite
<1>3. /\ walk.there \subseteq Stored(view)
      /\ \A m \in Missed, a \in walk.there \ Missed : m < a
      /\ walk.at # "end" => \A m \in Missed : walk.offset <= Cardinality(Newer(m))
      /\ walk.at = "page" => Cardinality(walk.there) <= walk.total
      /\ walk.at = "end" =>
           Cardinality(Missed) <= Cardinality(Stored(view) \ walk.there)
  BY <1>2 DEF WalkInv
<1>4. Missed' = Missed
  BY DEF Missed
<1>5. \A m : /\ Cardinality(Newer(m)) \in Nat /\ Cardinality(Newer(m)') \in Nat
             /\ Cardinality(Newer(m)) <= Cardinality(Newer(m)')
  <2>. SUFFICES ASSUME NEW m
                PROVE  /\ Cardinality({ b \in Stored(view) : b > m }) \in Nat
                       /\ Cardinality({ b \in Stored(view') : b > m }) \in Nat
                       /\ Cardinality({ b \in Stored(view) : b > m }) <=
                            Cardinality({ b \in Stored(view') : b > m })
    BY DEF Newer
  <2>. QED  BY <1>2, NewerCounted
<1>6. walk.offset \in Nat
  BY NumAppsAssumption DEF TypeOK
<1>7. walk.at # "end" => \A m \in Missed' : walk'.offset <= Cardinality(Newer(m)')
  <2>. SUFFICES ASSUME walk.at # "end", NEW m \in Missed
                PROVE  walk.offset <= Cardinality(Newer(m)')
    BY <1>4
  <2>1. walk.offset <= Cardinality(Newer(m))
    BY <1>3
  <2>. QED  BY <1>5, <1>6, <2>1
<1>8. walk.at = "end" =>
        Cardinality(Missed') <= Cardinality(Stored(view') \ walk'.there)
  <2>. DEFINE Came == Stored(view) \ walk.there
              Came2 == Stored(view') \ walk.there
  <2>1. Came \in SUBSET Came2 /\ Came2 \in SUBSET App /\ Missed \in SUBSET App
    BY <1>2, <1>3 DEF Missed
  <2>. HIDE DEF Came, Came2
  <2>2. IsFiniteSet(Came2) /\ IsFiniteSet(Missed)
    BY <2>1, FiniteHere, FS_Subset
  <2>3. IsFiniteSet(Came) /\ Cardinality(Came) <= Cardinality(Came2)
    BY <2>1, <2>2, FS_Subset
  <2>4. /\ Cardinality(Came) \in Nat /\ Cardinality(Came2) \in Nat
        /\ Cardinality(Missed) \in Nat
    BY <2>2, <2>3, FS_CardinalityType
  <2>5. walk.at = "end" => Cardinality(Missed) <= Cardinality(Came)
    BY <1>3 DEF Came
  <2>6. walk.at = "end" => Cardinality(Missed) <= Cardinality(Came2)
    BY <2>3, <2>4, <2>5
  <2>. QED  BY <1>4, <2>6 DEF Came2
<1>. QED  BY <1>2, <1>3, <1>4, <1>7, <1>8 DEF WalkInv

(* The number of pages is that of the applications at the moment.          *)
LEMMA CountedWalk ==
  ASSUME TypeOK, WalkInv, CountApplications
  PROVE  WalkInv'
<1>1. walk \in WalkType
  BY DEF TypeOK, WalkType
<1>2. /\ walk.at \in { "off", "count" } /\ UNCHANGED << view, faults >>
      /\ walk'.at = "page" /\ walk'.total = Cardinality(Stored(view))
      /\ walk'.seen = walk.seen /\ walk'.offset = walk.offset
      /\ walk'.there = IF walk.at = "off" THEN Stored(view) ELSE walk.there
  BY <1>1 DEF CountApplications, WalkType, server, database
<1>. SUFFICES ASSUME faults \cap { "rollback", "crash" } = {} PROVE WalkInv'
  BY <1>2 DEF WalkInv
<1>3. CASE walk.at = "off"
  <2>1. walk.seen = {} /\ walk.offset = 0
    BY <1>3 DEF WalkInv
  <2>2. walk'.there = Stored(view) /\ Missed' = Stored(view)
    BY <1>2, <1>3, <2>1 DEF Missed
  <2>3. \A m : Cardinality(Newer(m)') \in Nat
    <3>1. \A m : Newer(m)' = { b \in Stored(view) : b > m }
      BY <1>2 DEF Newer, Stored
    <3>. QED  BY <3>1, ListedFinite, NewerCounted
  <2>4. Cardinality(Stored(view)) \in Nat
    BY ListedFinite, NumAppsAssumption
  <2>5. Stored(view') = Stored(view)
    BY <1>2 DEF Stored
  <2>. QED  BY <1>2, <2>1, <2>2, <2>3, <2>4, <2>5 DEF WalkInv
<1>4. CASE walk.at = "count"
  <2>1. /\ walk.there \subseteq Stored(view)
        /\ \A m \in Missed, a \in walk.there \ Missed : m < a
        /\ \A m \in Missed : walk.offset <= Cardinality(Newer(m))
    BY <1>4 DEF WalkInv
  <2>2. walk'.there = walk.there /\ Missed' = Missed
    BY <1>2, <1>4 DEF Missed
  <2>3. Stored(view') = Stored(view) /\ \A m : Newer(m)' = Newer(m)
    BY <1>2 DEF Stored, Newer
  <2>4. Cardinality(walk.there) <= Cardinality(Stored(view))
    <3>1. walk.there \in SUBSET Stored(view)
      BY <2>1
    <3>. QED  BY <3>1, ListedFinite, FS_Subset
  <2>. QED  BY <1>2, <2>1, <2>2, <2>3, <2>4 DEF WalkInv
<1>. QED  BY <1>2, <1>3, <1>4

(* The next page: what is on it is older than all that was seen, and newer *)
(* than all that is still to be seen.                                      *)
LEMMA TurnedWalk ==
  ASSUME TypeOK, WalkInv, ReadPage
  PROVE  WalkInv'
<1>. DEFINE S == Stored(view)
            onPage == PageAt(walk.offset)
            New(m) == Cardinality({ b \in S : b > m })
<1>1. walk \in WalkType
  BY DEF TypeOK, WalkType
<1>2. /\ walk.at = "page" /\ UNCHANGED << view, faults >>
      /\ walk'.seen = walk.seen \cup onPage /\ walk'.there = walk.there
      /\ HasNext(walk.offset, walk.total) =>
           walk'.offset = walk.offset + 1 /\ walk'.at = "count"
      /\ ~HasNext(walk.offset, walk.total) => walk'.at = "end"
  BY <1>1 DEF ReadPage, WalkType, server, database
<1>. SUFFICES ASSUME faults \cap { "rollback", "crash" } = {} PROVE WalkInv'
  BY <1>2 DEF WalkInv
<1>3. /\ walk.there \subseteq S /\ S \subseteq App
      /\ \A m \in Missed, a \in walk.there \ Missed : m < a
      /\ \A m \in Missed : walk.offset <= New(m)
      /\ Cardinality(walk.there) <= walk.total
  BY <1>2, ListedFinite DEF WalkInv, Newer
<1>4. /\ walk.offset \in Nat /\ walk.total \in Nat
      /\ \A m : New(m) \in Nat
  <2>1. walk.offset \in Nat /\ walk.total \in Nat
    BY <1>1, NumAppsAssumption DEF WalkType
  <2>. QED  BY <1>3, <2>1, NewerCounted
<1>5. /\ Missed' = Missed \ onPage /\ Missed \subseteq walk.there
      /\ onPage = { a \in S : New(a) = walk.offset }
  BY <1>2 DEF Missed, PageAt
<1>6. S' = S /\ \A m : Cardinality(Newer(m)') = New(m)
  BY <1>2 DEF Stored, Newer
<1>7. \A m \in Missed' : walk.offset + 1 <= New(m)
  <2>. SUFFICES ASSUME NEW m \in Missed' PROVE walk.offset + 1 <= New(m)
    OBVIOUS
  <2>1. m \in S /\ m \in Missed /\ New(m) # walk.offset
    BY <1>3, <1>5
  <2>. QED  BY <1>3, <1>4, <2>1
<1>8. ASSUME NEW m \in Missed', NEW a \in walk.there \ Missed'
      PROVE  m < a
  <2>1. CASE a \in walk.there \ Missed
    BY <1>3, <1>5, <2>1
  <2>2. CASE a \in onPage
    <3>1. m \in S /\ a \in S /\ New(a) = walk.offset /\ walk.offset + 1 <= New(m)
      BY <1>3, <1>5, <1>7, <2>2
    <3>2. a <= m => New(m) <= New(a)
      BY <1>3, <3>1, OlderHasMore
    <3>. QED  BY <1>3, <1>4, <3>1, <3>2 DEF App
  <2>. QED  BY <1>5, <2>1, <2>2
<1>9. ~HasNext(walk.offset, walk.total) =>
        Cardinality(Missed') <= Cardinality(S \ walk.there)
  <2>. SUFFICES ASSUME ~HasNext(walk.offset, walk.total)
                PROVE  Cardinality(Missed') <= Cardinality(S \ walk.there)
    OBVIOUS
  <2>. DEFINE M == Missed'
              t == Cardinality(walk.there)
  <2>1. M \subseteq S
    BY <1>3, <1>5
  <2>2. /\ IsFiniteSet(S) /\ IsFiniteSet(walk.there) /\ t \in Nat
        /\ Cardinality(S) \in Nat
    BY <1>3, FiniteHere, FS_Subset, FS_CardinalityType
  <2>3. t <= walk.offset + 1
    BY <1>3, <1>4, <2>2 DEF HasNext
  <2>4. IsFiniteSet(S \ walk.there) /\ Cardinality(S \ walk.there) = Cardinality(S) - t
    <3>1. Cardinality(S \ walk.there) = Cardinality(S) - Cardinality(S \cap walk.there)
      BY <2>2, FS_Difference
    <3>2. S \cap walk.there = walk.there
      BY <1>3
    <3>. QED  BY <2>2, <3>1, <3>2, FS_Difference
  <2>5. Cardinality(S \ walk.there) \in Nat
    BY <2>4, FS_CardinalityType
  <2>6. CASE M = {}
    BY <2>5, <2>6, FS_EmptySet
  <2>7. CASE M # {}
    <3>1. \A m \in M : t <= New(m)
      BY <1>4, <1>7, <2>2, <2>3
    <3>2. Cardinality(M) + t <= Cardinality(S)
      BY <1>3, <2>1, <2>2, <2>7, <3>1, NewerThanAll
    <3>3. Cardinality(M) \in Nat
      BY <2>1, <2>2, FS_Subset, FS_CardinalityType
    <3>. QED  BY <2>2, <2>4, <3>2, <3>3
  <2>. QED  BY <2>6, <2>7
<1>. HIDE DEF New, onPage
<1>. QED  BY <1>2, <1>3, <1>4, <1>6, <1>7, <1>8, <1>9 DEF WalkInv, Missed

LEMMA StepWalk ==
  ASSUME TypeOK, TypeOK', RowsInv, AheadInv, WalkInv, [Next]_vars
  PROVE  WalkInv'
<1>1. CASE CrashAndRecover
  <2>1. "crash" \in faults'
    BY <1>1 DEF CrashAndRecover, Fault
  <2>2. walk'.at = "off" => walk'.seen = {} /\ walk'.offset = 0
    BY <1>1 DEF CrashAndRecover, WalkInv
  <2>. QED  BY <2>1, <2>2 DEF WalkInv
<1>. QED  BY <1>1, WatchedWalk, CountedWalk, TurnedWalk, OnlyThese

(* What the one who turns the pages knows holds in every reachable state.  *)
THEOREM WalkInvariance == Spec => [](IInv /\ WalkInv)
<1>1. Init => WalkInv
  BY InitWalk
<1>2. IInv /\ IInv' /\ WalkInv /\ [Next]_vars => WalkInv'
  BY StepWalk DEF IInv
<1>. QED  BY <1>1, <1>2, Invariance, PTL DEF Spec

(* Who turns the pages of the list misses no more applications than came   *)
(* meanwhile, and only the oldest (store.py 134-231, ApplicationsPage.tsx  *)
(* 98-123).                                                                *)
THEOREM OnlyOldestMissed == Spec => []WalkMissesOldest
<1>1. WalkInv => WalkMissesOldest
  BY DEF WalkInv, WalkMissesOldest, Missed
<1>. QED  BY <1>1, WalkInvariance, PTL
=============================================================================
