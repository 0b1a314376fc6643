----------------------------- MODULE ImportProofs -----------------------------
(***************************************************************************)
(* The imports that read page by page leave nothing behind (FeedCycles,    *)
(* PaymentDays, SeriesImport), and the series import never shows days that *)
(* are half written.                                                       *)
(*                                                                         *)
(* What all have in common: a lease may lapse under a run that works on,   *)
(* so nothing is said of who holds it.  Each cursor, saved or in a run's   *)
(* hands, is shown to have left behind only what is stored; a cursor that  *)
(* was honest stays so, because the providers only add and the stores only *)
(* grow.  Then it does not matter whose cursor is saved last.  Only the    *)
(* series import writes more than its own rows, and needs its lease.       *)
(*                                                                         *)
(* The bank feed, last, may be cut off and connected anew, and a request   *)
(* may go on with what it read of the feed before: its theorems say what   *)
(* such a request can still do.                                            *)
(***************************************************************************)
EXTENDS FeedCycles, PaymentDays, SeriesImport, BankFeed, FiniteSetTheorems,
        WellFoundedInduction, TLAPS

\* A nonempty set of numbers has a least element.
LEMMA LeastNumber ==
  ASSUME NEW T, T \subseteq Nat, T # {}
  PROVE  \E x \in T : \A y \in T : x <= y
<1>1. PICK x \in T : \A y \in T : <<y, x>> \notin OpToRel(<, Nat)
  BY NatLessThanWellFounded, WFMin, Zenon
<1>2. ASSUME NEW y \in T PROVE ~(y < x)
  <2>1. <<y, x>> \in Nat \X Nat OBVIOUS
  <2> QED BY <1>1, <2>1, Zenon DEF OpToRel
<1>3. \A y \in T : x <= y BY <1>2
<1> QED BY <1>3

\* A nonempty bounded set of numbers has a greatest element.
LEMMA GreatestNumber ==
  ASSUME NEW n \in Nat, NEW T, T \subseteq 0..n, T # {}
  PROVE  \E x \in T : \A y \in T : y <= x
<1> DEFINE D == {n - x : x \in T}
<1>1. D \subseteq Nat BY SMT
<1>2. D # {}
  <2>1. PICK x : x \in T OBVIOUS
  <2>2. n - x \in D BY <2>1
  <2> QED BY <2>2
<1>3. PICK d \in D : \A e \in D : d <= e BY <1>1, <1>2, LeastNumber
<1>4. PICK x \in T : d = n - x BY <1>3
<1>5. ASSUME NEW y \in T PROVE y <= x
  <2>1. n - y \in D OBVIOUS
  <2>2. n - x <= n - y BY <1>3, <1>4, <2>1
  <2> QED BY <2>2
<1> QED BY <1>5

-----------------------------------------------------------------------------
(* Feeds page by page.                                                      *)

\* Where the cycle goes on after the page in hand.
NextAt(p, f) ==
    IF provider = "clover" THEN p.cursor.at[f] + Cardinality(p.page[f])
    ELSE LastOf(f, p.page[f])

\* With its page, a run's cursor has left nothing behind in a feed.
Covers(p, f) ==
    /\ f \in p.ended \/ NextAt(p, f) <= MaxRecords
    /\ \A i \in 1..p.cursor.from[f] :
          \/ i \in stored[f] \cup p.page[f]
          \/ f \notin p.ended /\ i \in Ahead(f, NextAt(p, f))

FeedFits(p) ==
    /\ Keeps(p.read) /\ p.cursor.at = p.read.at /\ p.cursor.complete = p.read.complete
    /\ p.ended \cap p.toFetch = {}
    /\ \A f \in p.toFetch : p.cursor.from[f] = p.read.from[f]
    /\ \A f \in Feeds : p.usable[f] \subseteq p.page[f]
    /\ provider = "shopify" => p.usable = p.page
    /\ p.pc = "read" => p.toFetch = Feeds
    /\ p.pc \in {"write", "renew", "save"} => p.toFetch = {}
    /\ \A f \in Feeds \ p.toFetch : Covers(p, f) /\ (p.cursor.complete[f] => f \in p.ended)
    /\ p.pc \in {"renew", "save"} => \A f \in Feeds : p.usable[f] \subseteq stored[f]

FeedInv ==
    /\ FeedTypeOK /\ CursorsAreHonest /\ CycleIsWhole
    /\ provider = "shopify" => \A f \in Feeds : bad[f] = {}
    /\ \A r \in ImportRuns, p \in Locals : run[r] = p => FeedFits(p)
-----------------------------------------------------------------------------
\* What a list holds behind a position.
LEMMA AheadIs ==
  ASSUME NEW f, NEW at
  PROVE  /\ newest[f] /\ provider = "clover" => Ahead(f, at) = {i \in 1..born[f] : i <= born[f] - at}
         /\ newest[f] /\ provider # "clover" => Ahead(f, at) = {i \in 1..born[f] : at = 0 \/ i < at}
         /\ ~newest[f] => Ahead(f, at) = {i \in 1..born[f] : i > at}
BY DEF Ahead

LEMMA InAhead ==
  ASSUME NEW f, NEW at, born[f] \in Nat
  PROVE  /\ Ahead(f, at) \subseteq 1..born[f] /\ IsFiniteSet(Ahead(f, at))
         /\ Ahead(f, at) \subseteq Nat \ {0}
<1>1. Ahead(f, at) \subseteq 1..born[f] BY DEF Ahead
<1>2. IsFiniteSet(1..born[f]) BY FS_Interval
<1> QED BY <1>1, <1>2, FS_Subset

LEMMA AheadGrows ==
  ASSUME NEW f, NEW at \in Nat, born[f] \in Nat, born'[f] \in Nat, born[f] <= born'[f],
         UNCHANGED << provider, newest >>
  PROVE  Ahead(f, at) \subseteq Ahead(f, at)'
<1>1. /\ newest[f] /\ provider = "clover" => Ahead(f, at)' = {i \in 1..born'[f] : i <= born'[f] - at}
      /\ newest[f] /\ provider # "clover" => Ahead(f, at)' = {i \in 1..born'[f] : at = 0 \/ i < at}
      /\ ~newest[f] => Ahead(f, at)' = {i \in 1..born'[f] : i > at}
  BY DEF Ahead
<1> QED BY <1>1, AheadIs

\* Of a list, a page is the beginning.
LEMMA PageFirst ==
  ASSUME NEW f, NEW at, born[f] \in Nat
  PROVE  /\ Page(f, at) \subseteq Ahead(f, at)
         /\ \A i \in Ahead(f, at) \ Page(f, at), j \in Page(f, at) : Before(f, j, i)
<1>1. Page(f, at) \subseteq Ahead(f, at) BY DEF Page
<1>2. ASSUME NEW i \in Ahead(f, at) \ Page(f, at), NEW j \in Page(f, at), ~Before(f, j, i)
      PROVE  FALSE
  <2> DEFINE Earlier(k) == {l \in Ahead(f, at) : Before(f, l, k)}
  <2>1. i # j /\ i \in Nat /\ j \in Nat BY <1>1, <1>2, InAhead
  <2>2. Earlier(i) \subseteq Earlier(j)
    BY <1>2, <2>1, InAhead DEF Before
  <2>3. IsFiniteSet(Earlier(j)) /\ IsFiniteSet(Earlier(i)) BY InAhead, FS_Subset
  <2>4. Cardinality(Earlier(i)) <= Cardinality(Earlier(j)) BY <2>2, <2>3, FS_Subset
  <2>5. Cardinality(Earlier(j)) < PageSize /\ ~(Cardinality(Earlier(i)) < PageSize)
    BY <1>2 DEF Page
  <2>6. Cardinality(Earlier(i)) \in Nat /\ Cardinality(Earlier(j)) \in Nat
    BY <2>3, FS_CardinalityType
  <2> HIDE DEF Earlier
  <2> QED BY <2>4, <2>5, <2>6, FeedAssumption
<1> QED BY <1>1, <1>2

\* A list ends with a page that is not full.
LEMMA PageNotFull ==
  ASSUME NEW f, NEW at, born[f] \in Nat, Cardinality(Page(f, at)) < PageSize
  PROVE  Page(f, at) = Ahead(f, at)
<1> DEFINE Rest == Ahead(f, at) \ Page(f, at)
<1> SUFFICES ASSUME Rest # {} PROVE FALSE
  BY PageFirst
<1>1. Rest \subseteq Nat /\ Rest \subseteq 0..born[f] BY InAhead
<1>2. PICK i \in Rest : \A j \in Rest : ~Before(f, j, i)
  <2>1. CASE newest[f]
    <3>1. PICK i \in Rest : \A j \in Rest : j <= i BY <1>1, GreatestNumber
    <3> QED BY <1>1, <2>1, <3>1 DEF Before
  <2>2. CASE ~newest[f]
    <3>1. PICK i \in Rest : \A j \in Rest : i <= j BY <1>1, LeastNumber
    <3> QED BY <1>1, <2>2, <3>1 DEF Before
  <2> QED BY <2>1, <2>2
<1> DEFINE Earlier == {l \in Ahead(f, at) : Before(f, l, i)}
<1>3. Earlier \subseteq Page(f, at) BY <1>2
<1>4. IsFiniteSet(Page(f, at)) BY PageFirst, InAhead, FS_Subset
<1>5. /\ Cardinality(Earlier) <= Cardinality(Page(f, at)) /\ Cardinality(Earlier) \in Nat
      /\ Cardinality(Page(f, at)) \in Nat
  BY <1>3, <1>4, FS_Subset, FS_CardinalityType
<1>6. ~(Cardinality(Earlier) < PageSize) BY DEF Page
<1> HIDE DEF Earlier
<1> QED BY <1>5, <1>6, FeedAssumption

\* The last of a page that is not empty.
LEMMA LastOfPage ==
  ASSUME NEW f, NEW n \in Nat, NEW page, page \subseteq 1..n, page # {}
  PROVE  /\ LastOf(f, page) \in page
         /\ \A j \in page : j = LastOf(f, page) \/ Before(f, j, LastOf(f, page))
<1>1. \E i \in page : \A j \in page : j = i \/ Before(f, j, i)
  <2>1. page \subseteq Nat /\ page \subseteq 0..n OBVIOUS
  <2>2. CASE newest[f]
    <3>1. PICK i \in page : \A j \in page : i <= j BY <2>1, LeastNumber
    <3> QED BY <2>1, <2>2, <3>1 DEF Before
  <2>3. CASE ~newest[f]
    <3>1. PICK i \in page : \A j \in page : j <= i BY <2>1, GreatestNumber
    <3> QED BY <2>1, <2>3, <3>1 DEF Before
  <2> QED BY <2>2, <2>3
<1> QED BY <1>1 DEF LastOf

\* What a page leaves is ahead of the position after it.
LEMMA RestIsAhead ==
  ASSUME NEW f, NEW at \in 0..MaxRecords, born[f] \in 0..MaxRecords,
         NEW i \in Ahead(f, at) \ Page(f, at), NEW next,
         next = IF provider = "clover" THEN at + Cardinality(Page(f, at))
                ELSE LastOf(f, Page(f, at))
  PROVE  i \in Ahead(f, next)
<1> DEFINE P == Page(f, at)
<1>1. /\ born[f] \in Nat /\ P \subseteq Ahead(f, at) /\ \A j \in P : Before(f, j, i)
      /\ P \subseteq 1..born[f] /\ i \in 1..born[f] /\ i \in Ahead(f, at)
  BY PageFirst, InAhead, FeedAssumption
<1> HIDE DEF P
<1>2. CASE provider # "clover"
  <2>1. next = LastOf(f, P) BY <1>2 DEF P
  <2>2. CASE P = {}
    <3>1. next = 0 BY <2>1, <2>2 DEF LastOf
    <3> QED BY <1>1, <1>2, <3>1, AheadIs
  <2>3. CASE P # {}
    <3>1. next \in P BY <1>1, <2>1, <2>3, LastOfPage
    <3>2. Before(f, next, i) /\ next \in Nat BY <1>1, <3>1
    <3> QED BY <1>1, <1>2, <3>2, AheadIs DEF Before
  <2> QED BY <2>2, <2>3
<1>3. CASE provider = "clover"
  <2>1. next = at + Cardinality(P) BY <1>3 DEF P
  <2>2. CASE newest[f]
    <3>1. P \subseteq i + 1 .. born[f] - at
      BY <1>1, <1>3, <2>2, AheadIs DEF Before
    <3>2. i <= born[f] - at BY <1>1, <1>3, <2>2, AheadIs
    <3>3. /\ IsFiniteSet(i + 1 .. born[f] - at)
          /\ Cardinality(i + 1 .. born[f] - at) = born[f] - at - i
      <4>1. PICK a \in Int, b \in Int : a = i + 1 /\ b = born[f] - at BY <1>1
      <4>2. Cardinality(a .. b) = (IF a > b THEN 0 ELSE b - a + 1) /\ IsFiniteSet(a .. b)
        BY FS_Interval
      <4> QED BY <1>1, <3>2, <4>1, <4>2
    <3>4. Cardinality(P) <= born[f] - at - i /\ Cardinality(P) \in Nat
      <4>1. IsFiniteSet(P) /\ Cardinality(P) <= Cardinality(i + 1 .. born[f] - at)
        BY <3>1, <3>3, FS_Subset
      <4> QED BY <3>3, <4>1, FS_CardinalityType
    <3>5. i <= born[f] - next BY <1>1, <2>1, <3>4
    <3> QED BY <1>1, <1>3, <2>2, <3>5, AheadIs
  <2>3. CASE ~newest[f]
    <3>1. P \subseteq at + 1 .. i - 1
      BY <1>1, <2>3, AheadIs DEF Before
    <3>2. i > at BY <1>1, <2>3, AheadIs
    <3>3. IsFiniteSet(at + 1 .. i - 1) /\ Cardinality(at + 1 .. i - 1) = i - 1 - at
      <4>1. PICK a \in Int, b \in Int : a = at + 1 /\ b = i - 1 BY <1>1
      <4>2. Cardinality(a .. b) = (IF a > b THEN 0 ELSE b - a + 1) /\ IsFiniteSet(a .. b)
        BY FS_Interval
      <4> QED BY <1>1, <3>2, <4>1, <4>2
    <3>4. Cardinality(P) <= i - 1 - at /\ Cardinality(P) \in Nat
      <4>1. IsFiniteSet(P) /\ Cardinality(P) <= Cardinality(at + 1 .. i - 1)
        BY <3>1, <3>3, FS_Subset
      <4> QED BY <3>3, <4>1, FS_CardinalityType
    <3>5. i > next BY <1>1, <2>1, <3>4
    <3> QED BY <1>1, <2>3, <3>5, AheadIs
  <2> QED BY <2>2, <2>3
<1> QED BY <1>2, <1>3
\* An offset does not pass the end of its list.
LEMMA OffsetTyped ==
  ASSUME NEW f, NEW at \in 0..MaxRecords, born[f] \in 0..MaxRecords,
         ~(Cardinality(Page(f, at)) < PageSize), newest[f] \in BOOLEAN, provider = "clover"
  PROVE  at + Cardinality(Page(f, at)) <= MaxRecords
<1> DEFINE P == Page(f, at)
<1>1. born[f] \in Nat /\ P \subseteq Ahead(f, at)
  BY PageFirst, FeedAssumption
<1>2. PICK a \in Int, b \in Int : /\ a = IF newest[f] THEN 1 ELSE at + 1
                                 /\ b = IF newest[f] THEN born[f] - at ELSE born[f]
  <2>1. (IF newest[f] THEN 1 ELSE at + 1) \in Int /\ (IF newest[f] THEN born[f] - at ELSE born[f]) \in Int
    BY <1>1, FeedAssumption
  <2> QED BY <2>1
<1>3. P \subseteq a .. b BY <1>1, <1>2, AheadIs
<1>4. Cardinality(a .. b) = (IF a > b THEN 0 ELSE b - a + 1) /\ IsFiniteSet(a .. b)
  BY FS_Interval
<1>5. Cardinality(P) <= Cardinality(a .. b) /\ Cardinality(P) \in Nat
  BY <1>3, <1>4, FS_Subset, FS_CardinalityType
<1>6. Cardinality(P) # 0 BY <1>5, FeedAssumption
<1> HIDE DEF P
<1>7. ~(a > b) BY <1>4, <1>5, <1>6
<1>8. b - a + 1 = born[f] - at BY <1>1, <1>2
<1>9. at + Cardinality(P) <= MaxRecords BY <1>1, <1>4, <1>5, <1>7, <1>8, FeedAssumption
<1> QED BY <1>9 DEF P
-----------------------------------------------------------------------------
LEMMA FeedTyped ==
  ASSUME FeedInv
  PROVE  /\ provider \in {"stripe", "clover", "shopify"}
         /\ newest \in [Feeds -> BOOLEAN] /\ born \in [Feeds -> 0..MaxRecords]
         /\ bad \in [Feeds -> SUBSET Records] /\ stored \in [Feeds -> SUBSET Records]
         /\ conn \in [owner : ImportRuns \cup {NoRun}, live : BOOLEAN, cursor : Cursors]
         /\ conn.live => conn.owner # NoRun
         /\ run \in [ImportRuns -> {Idle} \cup Locals] /\ Idle \notin Locals
         /\ \A r \in ImportRuns : run[r] # Idle => run[r] \in Locals /\ FeedFits(run[r])
         /\ whole \in [Feeds -> 0..MaxRecords]
         /\ conn.cursor \in Cursors /\ Keeps(conn.cursor) /\ CycleIsWhole
         /\ \A f \in Feeds : born[f] \in Nat
<1>1. Idle \notin Locals BY DEF Idle, Locals
<1> QED BY <1>1, FeedAssumption DEF FeedInv, FeedTypeOK, CursorsAreHonest

LEMMA LocalsTyped ==
  ASSUME NEW p \in Locals
  PROVE  /\ p.cursor \in Cursors /\ p.read \in Cursors
         /\ p.page \in [Feeds -> SUBSET Records] /\ p.usable \in [Feeds -> SUBSET Records]
         /\ p.toFetch \subseteq Feeds /\ p.ended \subseteq Feeds
         /\ \A f \in Feeds : p.page[f] \subseteq 1..MaxRecords
BY DEF Locals, Records

LEMMA CursorTyped ==
  ASSUME NEW c \in Cursors, NEW f \in Feeds
  PROVE  c.at[f] \in 0..MaxRecords /\ c.complete[f] \in BOOLEAN /\ c.from[f] \in 0..MaxRecords
BY DEF Cursors

LEMMA LastTyped ==
  ASSUME NEW f, NEW page, page \subseteq Records
  PROVE  LastOf(f, page) \in 0..MaxRecords
<1>1. CASE page = {} BY <1>1, FeedAssumption DEF LastOf
<1>2. CASE page # {}
  <2>1. PICK n \in Nat : n = MaxRecords BY FeedAssumption
  <2>2. page \subseteq 1..n BY <2>1 DEF Records
  <2>3. LastOf(f, page) \in 1..n BY <1>2, <2>2, LastOfPage
  <2>4. 1..n \subseteq 0..MaxRecords BY <2>1
  <2> QED BY <2>3, <2>4
<1> QED BY <1>1, <1>2

LEMMA NextTyped ==
  ASSUME NEW p \in Locals, NEW f \in Feeds
  PROVE  NextAt(p, f) \in Nat
<1>1. p.page[f] \subseteq Records /\ p.page[f] \subseteq 1..MaxRecords
      /\ p.cursor.at[f] \in Nat
  BY LocalsTyped, CursorTyped, FeedAssumption DEF Locals
<1>2. IsFiniteSet(p.page[f])
  <2>1. IsFiniteSet(1..MaxRecords) BY FS_Interval, FeedAssumption
  <2> QED BY <1>1, <2>1, FS_Subset
<1>3. Cardinality(p.page[f]) \in Nat BY <1>2, FS_CardinalityType
<1> QED BY <1>1, <1>3, LastTyped, FeedAssumption DEF NextAt

\* The lists grow, and so does what is stored.
Grows ==
    /\ UNCHANGED << provider, newest >>
    /\ \A f \in Feeds : born'[f] \in Nat /\ born[f] <= born'[f] /\ stored[f] \subseteq stored'[f]

LEMMA KeepsStays ==
  ASSUME FeedInv, Grows, NEW c \in Cursors, Keeps(c)
  PROVE  Keeps(c)'
<1>1. ASSUME NEW f \in Feeds, NEW i \in 1..c.from[f]
      PROVE  i \in stored'[f] \/ (~c.complete[f] /\ i \in Ahead(f, c.at[f])')
  <2>1. c.at[f] \in Nat BY CursorTyped, FeedAssumption
  <2>2. Ahead(f, c.at[f]) \subseteq Ahead(f, c.at[f])'
    BY <2>1, FeedTyped, AheadGrows DEF Grows
  <2>3. i \in stored[f] \/ (~c.complete[f] /\ i \in Ahead(f, c.at[f]))
    BY <1>1 DEF Keeps
  <2> QED BY <2>2, <2>3 DEF Grows
<1> QED BY <1>1 DEF Keeps

LEMMA CoversStays ==
  ASSUME FeedInv, Grows, NEW p \in Locals, NEW f \in Feeds, Covers(p, f)
  PROVE  Covers(p, f)'
<1>1. PICK n \in Nat : n = NextAt(p, f) BY NextTyped
<1>2. NextAt(p, f)' = n
  BY <1>1 DEF NextAt, LastOf, Before, Grows
<1>3. Ahead(f, n) \subseteq Ahead(f, n)'
  BY FeedTyped, AheadGrows DEF Grows
<1>4. ASSUME NEW i \in 1..p.cursor.from[f]
      PROVE  i \in stored'[f] \cup p.page[f] \/ (f \notin p.ended /\ i \in Ahead(f, n)')
  BY <1>1, <1>3, <1>4 DEF Covers, Grows
<1>5. f \in p.ended \/ n <= MaxRecords BY <1>1 DEF Covers
<1> QED BY <1>2, <1>4, <1>5 DEF Covers

LEMMA FeedFitsStays ==
  ASSUME FeedInv, Grows, NEW p \in Locals, FeedFits(p)
  PROVE  FeedFits(p)'
<1>1. Keeps(p.read)' BY KeepsStays, LocalsTyped DEF FeedFits
<1>2. \A f \in Feeds \ p.toFetch : Covers(p, f)' BY CoversStays DEF FeedFits
<1>3. p.pc \in {"renew", "save"} => \A f \in Feeds : p.usable[f] \subseteq stored'[f]
  BY DEF FeedFits, Grows
<1> QED BY <1>1, <1>2, <1>3 DEF FeedFits, Grows

\* What stays of the invariant as the world goes on and one run moves.
LEMMA RunMoves ==
  ASSUME FeedInv, Grows, NEW r \in ImportRuns, NEW p, run' = [run EXCEPT ![r] = p],
         p = Idle \/ (p \in Locals /\ FeedFits(p)'),
         FeedTypeOK', CursorsAreHonest', CycleIsWhole',
         provider' = "shopify" => \A f \in Feeds : bad'[f] = {}
  PROVE  FeedInv'
<1>1. ASSUME NEW q \in ImportRuns, NEW z \in Locals, run'[q] = z PROVE FeedFits(z)'
  <2>1. CASE q = r BY <2>1, <1>1, FeedTyped
  <2>2. CASE q # r
    <3>1. run[q] = z BY <1>1, <2>2, FeedTyped
    <3> QED BY <3>1, FeedTyped, FeedFitsStays
  <2> QED BY <2>1, <2>2
<1> QED BY <1>1 DEF FeedInv

LEMMA NobodyMoves ==
  ASSUME FeedInv, Grows, UNCHANGED << run, stored, whole >>, FeedTypeOK',
         conn'.cursor = conn.cursor,
         provider' = "shopify" => \A f \in Feeds : bad'[f] = {}
  PROVE  FeedInv'
<1>1. ASSUME NEW q \in ImportRuns, NEW z \in Locals, run'[q] = z PROVE FeedFits(z)'
  BY <1>1, FeedTyped, FeedFitsStays
<1>2. PICK c \in Cursors : c = conn.cursor BY FeedTyped
<1>3. Keeps(c)' BY <1>2, FeedTyped, KeepsStays
<1>4. CursorsAreHonest' BY <1>2, <1>3 DEF CursorsAreHonest, Keeps
<1>5. CycleIsWhole' BY FeedTyped DEF CycleIsWhole
<1> QED BY <1>1, <1>4, <1>5 DEF FeedInv

\* The lease is taken, lapses or is given back.
FeedReleases ==
    /\ conn' \in [owner : ImportRuns \cup {NoRun}, live : BOOLEAN, cursor : Cursors]
    /\ conn'.cursor = conn.cursor /\ (conn'.live => conn'.owner # NoRun)

LEMMA FeedLeaseTyped ==
  ASSUME FeedInv
  PROVE  /\ \A r \in ImportRuns :
               conn' = [conn EXCEPT !.owner = r, !.live = TRUE] => FeedReleases
         /\ conn' = [conn EXCEPT !.owner = NoRun, !.live = FALSE] => FeedReleases
         /\ conn' = [conn EXCEPT !.live = FALSE] => FeedReleases
         /\ UNCHANGED conn => FeedReleases
BY FeedTyped, FeedAssumption DEF FeedReleases

\* A step of run r that saves no cursor.
LEMMA FeedRunStep ==
  ASSUME FeedInv, NEW r \in ImportRuns, NEW p, run' = [run EXCEPT ![r] = p],
         p = Idle \/ (p \in Locals /\ FeedFits(p)'),
         UNCHANGED << provider, newest, born, bad, whole >>, FeedReleases,
         stored' \in [Feeds -> SUBSET Records], \A f \in Feeds : stored[f] \subseteq stored'[f]
  PROVE  FeedInv'
<1>1. Grows BY FeedTyped DEF Grows
<1>2. FeedTypeOK'
  <2>1. run' \in [ImportRuns -> {Idle} \cup Locals] BY FeedTyped
  <2> QED BY <2>1, FeedTyped DEF FeedTypeOK, FeedReleases
<1>3. PICK c \in Cursors : c = conn.cursor BY FeedTyped
<1>4. Keeps(c)' BY <1>1, <1>3, FeedTyped, KeepsStays
<1>5. CursorsAreHonest' BY <1>3, <1>4 DEF CursorsAreHonest, Keeps, FeedReleases
<1>6. CycleIsWhole' BY FeedTyped DEF CycleIsWhole
<1> QED BY <1>1, <1>2, <1>5, <1>6, RunMoves DEF FeedInv

\* The run ends.
LEMMA RunEnds ==
  ASSUME FeedInv, NEW r \in ImportRuns, run' = [run EXCEPT ![r] = Idle],
         UNCHANGED << provider, newest, born, bad, whole >>, FeedReleases,
         stored' \in [Feeds -> SUBSET Records], \A f \in Feeds : stored[f] \subseteq stored'[f]
  PROVE  FeedInv'
<1>1. PICK p : p = Idle OBVIOUS
<1>2. run' = [run EXCEPT ![r] = p] /\ (p = Idle \/ (p \in Locals /\ FeedFits(p)')) BY <1>1
<1> QED BY <1>2, FeedRunStep

\* The run goes on to another step with the same locals.
LEMMA RunGoes ==
  ASSUME FeedInv, NEW r \in ImportRuns, run[r] \in Locals, NEW to \in Steps, to # "read",
         run' = [run EXCEPT ![r].pc = to],
         UNCHANGED << provider, newest, born, bad, whole >>, FeedReleases,
         stored' \in [Feeds -> SUBSET Records], \A f \in Feeds : stored[f] \subseteq stored'[f],
         to \in {"write", "renew", "save"} => run[r].toFetch = {},
         to \in {"renew", "save"} => \A f \in Feeds : run[r].usable[f] \subseteq stored'[f]
  PROVE  FeedInv'
<1>1. PICK p : p = [run[r] EXCEPT !.pc = to] OBVIOUS
<1>2. PICK q : q = run[r] OBVIOUS
<1>3. /\ p \in Locals /\ p.pc = to /\ p.cursor = q.cursor /\ p.read = q.read
      /\ p.page = q.page /\ p.usable = q.usable /\ p.toFetch = q.toFetch /\ p.ended = q.ended
  BY <1>1, <1>2 DEF Locals
<1>4. Grows BY FeedTyped DEF Grows
<1>5. FeedFits(q)' BY <1>2, <1>4, FeedTyped, FeedFitsStays
<1>6. \A f \in Feeds : NextAt(p, f)' = NextAt(q, f)' BY <1>3 DEF NextAt
<1>7. \A f \in Feeds \ p.toFetch : Covers(p, f)' BY <1>3, <1>5, <1>6 DEF FeedFits, Covers
<1>8. FeedFits(p)' BY <1>2, <1>3, <1>5, <1>7 DEF FeedFits
<1>9. run' = [run EXCEPT ![r] = p] BY <1>1, FeedTyped
<1> QED BY <1>3, <1>8, <1>9, FeedRunStep
-----------------------------------------------------------------------------
LEMMA ProviderStep ==
  ASSUME FeedInv, LeaseExpires \/ \E f \in Feeds : Create(f) \/ Correct(f)
  PROVE  FeedInv'
<1>1. ASSUME NEW f \in Feeds, Create(f) PROVE FeedInv'
  <2>1. /\ born' = [born EXCEPT ![f] = @ + 1] /\ born[f] < MaxRecords
        /\ UNCHANGED << provider, newest, bad, conn, stored, run, whole >>
    BY <1>1 DEF Create
  <2>2. born' \in [Feeds -> 0..MaxRecords] BY <2>1, FeedTyped, FeedAssumption
  <2>3. Grows BY <2>1, <2>2, FeedTyped, FeedAssumption DEF Grows
  <2>4. FeedTypeOK' BY <2>1, <2>2, FeedTyped DEF FeedTypeOK
  <2> QED BY <2>1, <2>3, <2>4, NobodyMoves DEF FeedInv
<1>2. ASSUME NEW f \in Feeds, Correct(f) PROVE FeedInv'
  <2>1. /\ bad' = [bad EXCEPT ![f] = {}]
        /\ UNCHANGED << provider, newest, born, conn, stored, run, whole >>
    BY <1>2 DEF Correct
  <2>2. Grows BY <2>1, FeedTyped DEF Grows
  <2>3. bad' \in [Feeds -> SUBSET Records] BY <2>1, FeedTyped
  <2>4. FeedTypeOK' BY <2>1, <2>3, FeedTyped DEF FeedTypeOK
  <2>5. provider' = "shopify" => \A g \in Feeds : bad'[g] = {} BY <2>1, FeedTyped DEF FeedInv
  <2> QED BY <2>1, <2>2, <2>4, <2>5, NobodyMoves
<1>3. ASSUME LeaseExpires PROVE FeedInv'
  <2>1. /\ conn' = [conn EXCEPT !.live = FALSE]
        /\ UNCHANGED << provider, newest, born, bad, stored, run, whole >>
    BY <1>3 DEF LeaseExpires
  <2>2. Grows /\ FeedReleases BY <2>1, FeedTyped, FeedLeaseTyped DEF Grows
  <2>3. FeedTypeOK' BY <2>1, <2>2, FeedTyped DEF FeedTypeOK, FeedReleases
  <2> QED BY <2>1, <2>2, <2>3, NobodyMoves DEF FeedInv, FeedReleases
<1> QED BY <1>1, <1>2, <1>3

LEMMA EndStep ==
  ASSUME FeedInv, NEW r \in ImportRuns, WriteSome(r) \/ Fail(r) \/ Die(r)
  PROVE  FeedInv'
<1>1. CASE Fail(r) \/ Die(r)
  <2>1. FeedReleases BY <1>1, FeedLeaseTyped DEF Fail, Die
  <2> QED BY <1>1, <2>1, FeedTyped, RunEnds DEF Fail, Die
<1>2. CASE WriteSome(r)
  <2>1. FeedReleases BY <1>2, FeedLeaseTyped DEF WriteSome
  <2>2. /\ run' = [run EXCEPT ![r] = Idle]
        /\ UNCHANGED << provider, newest, born, bad, whole >>
    BY <1>2 DEF WriteSome
  <2>3. PICK f \in Feeds, some \in SUBSET Records : stored' = [stored EXCEPT ![f] = @ \cup some]
    BY <1>2 DEF WriteSome
  <2>4. /\ stored' \in [Feeds -> SUBSET Records]
        /\ \A g \in Feeds : stored[g] \subseteq stored'[g]
    BY <2>3, FeedTyped
  <2> QED BY <2>1, <2>2, <2>4, RunEnds
<1> QED BY <1>1, <1>2

LEMMA GoStep ==
  ASSUME FeedInv, NEW r \in ImportRuns,
         TakeLease(r) \/ RenewAfterFetch(r) \/ WriteRecords(r) \/ RenewBeforeSave(r)
  PROVE  FeedInv'
<1>1. /\ run[r].pc \in {"read", "fetch", "write", "renew"}
      /\ UNCHANGED << provider, newest, born, bad, whole >>
  BY DEF TakeLease, RenewAfterFetch, WriteRecords, RenewBeforeSave, Go
<1>2. run[r] \in Locals /\ FeedFits(run[r]) BY <1>1, FeedTyped DEF Idle
<1>3. CASE TakeLease(r)
  <2>1. CASE conn.live BY <1>3, <2>1, FeedTyped, FeedLeaseTyped, RunEnds DEF TakeLease
  <2>2. CASE ~conn.live
    <3>1. /\ conn' = [conn EXCEPT !.owner = r, !.live = TRUE]
          /\ run' = [run EXCEPT ![r].pc = "fetch"] /\ UNCHANGED stored
      BY <1>3, <2>2 DEF TakeLease, Go
    <3>2. FeedReleases BY <3>1, FeedLeaseTyped
    <3> QED BY <1>1, <1>2, <3>1, <3>2, FeedTyped, RunGoes DEF Steps
  <2> QED BY <2>1, <2>2
<1>4. CASE RenewAfterFetch(r)
  <2>1. run' = [run EXCEPT ![r].pc = "write"] /\ UNCHANGED << conn, stored >>
        /\ run[r].toFetch = {}
    BY <1>4 DEF RenewAfterFetch, Go
  <2> QED BY <1>1, <1>2, <2>1, FeedTyped, FeedLeaseTyped, RunGoes DEF Steps
<1>5. CASE WriteRecords(r)
  <2>1. /\ run' = [run EXCEPT ![r].pc = "renew"] /\ UNCHANGED conn /\ run[r].pc = "write"
        /\ stored' = [f \in Feeds |-> stored[f] \cup run[r].usable[f]]
    BY <1>5 DEF WriteRecords, Go
  <2>2. run[r].toFetch = {} BY <1>2, <2>1 DEF FeedFits
  <2>3. run[r].usable \in [Feeds -> SUBSET Records] BY <1>2, LocalsTyped
  <2>4. /\ stored' \in [Feeds -> SUBSET Records]
        /\ \A f \in Feeds : stored[f] \subseteq stored'[f] /\ run[r].usable[f] \subseteq stored'[f]
    BY <2>1, <2>3, FeedTyped
  <2> QED BY <1>1, <1>2, <2>1, <2>2, <2>4, FeedLeaseTyped, RunGoes DEF Steps
<1>6. CASE RenewBeforeSave(r)
  <2>1. run' = [run EXCEPT ![r].pc = "save"] /\ UNCHANGED << conn, stored >>
        /\ run[r].pc = "renew"
    BY <1>6 DEF RenewBeforeSave, Go
  <2> QED BY <1>1, <1>2, <2>1, FeedTyped, FeedLeaseTyped, RunGoes DEF Steps, FeedFits
<1> QED BY <1>3, <1>4, <1>5, <1>6

LEMMA ReadCursorStep ==
  ASSUME FeedInv, NEW r \in ImportRuns, ReadCursor(r)
  PROVE  FeedInv'
<1> DEFINE none == [f \in Feeds |-> {}]
<1>1. PICK p : p = [pc |-> "read", cursor |-> conn.cursor, read |-> conn.cursor,
                    page |-> none, usable |-> none, toFetch |-> Feeds, ended |-> {}]
  OBVIOUS
<1>2. p \in Locals BY <1>1, FeedTyped DEF Locals, Steps
<1>3. Grows BY FeedTyped DEF ReadCursor, Grows
<1>4. PICK c \in Cursors : c = conn.cursor BY FeedTyped
<1>5. Keeps(c)' BY <1>3, <1>4, FeedTyped, KeepsStays
<1>6. FeedFits(p)' BY <1>1, <1>4, <1>5 DEF FeedFits
<1>7. run' = [run EXCEPT ![r] = p] BY <1>1 DEF ReadCursor
<1> QED BY <1>2, <1>6, <1>7, FeedTyped, FeedLeaseTyped, FeedRunStep DEF ReadCursor

LEMMA FetchFeedStep ==
  ASSUME FeedInv, NEW r \in ImportRuns, NEW f \in Feeds, FetchFeed(r, f)
  PROVE  FeedInv'
<1> DEFINE c == run[r].cursor
           page == IF c.complete[f] THEN {} ELSE Page(f, c.at[f])
           ends == IF provider = "clover" THEN Cardinality(page) < PageSize
                   ELSE c.complete[f] \/ page = Ahead(f, c.at[f])
<1>a. /\ run[r].pc = "fetch" /\ f \in run[r].toFetch
      /\ UNCHANGED << provider, newest, born, bad, conn, stored, whole >>
      /\ run' = [run EXCEPT
              ![r].toFetch = @ \ {f},
              ![r].page[f] = page, ![r].usable[f] = page \ bad[f],
              ![r].ended = IF ends THEN @ \cup {f} ELSE @,
              ![r].cursor.from[f] = IF c.complete[f] \/ c.at[f] # 0 THEN @ ELSE born[f]]
  BY DEF FetchFeed
<1>b. /\ run[r].pc = "fetch" /\ f \in run[r].toFetch
      /\ UNCHANGED << provider, newest, born, bad, conn, stored, whole >>
  BY <1>a
<1>1. run[r] \in Locals /\ FeedFits(run[r]) BY <1>b, FeedTyped DEF Idle
<1>2. PICK q \in Locals : q = run[r] BY <1>1
<1>3. PICK P : P = page OBVIOUS
<1>4. PICK from : from = IF c.complete[f] \/ c.at[f] # 0 THEN c.from[f] ELSE born[f] OBVIOUS
<1>5. PICK E : E = IF ends THEN q.ended \cup {f} ELSE q.ended OBVIOUS
<1>6. /\ c \in Cursors /\ c = q.cursor /\ c.at[f] \in 0..MaxRecords /\ c.from[f] \in 0..MaxRecords
      /\ born[f] \in 0..MaxRecords /\ born[f] \in Nat
  BY <1>2, LocalsTyped, CursorTyped, FeedTyped
<1>7. P \subseteq Records /\ P \subseteq Ahead(f, c.at[f]) /\ from \in 0..MaxRecords
  <2>1. page \subseteq Ahead(f, c.at[f]) BY <1>6, PageFirst
  <2>2. Ahead(f, c.at[f]) \subseteq 1..born[f] BY <1>6, InAhead
  <2> HIDE DEF page, c
  <2> QED BY <1>3, <1>4, <1>6, <2>1, <2>2, FeedAssumption DEF Records
<1>8. PICK d : d = [q.cursor EXCEPT !.from = [q.cursor.from EXCEPT ![f] = from]] OBVIOUS
<1>9. PICK p : p = [q EXCEPT !.toFetch = q.toFetch \ {f}, !.page = [q.page EXCEPT ![f] = P],
                             !.usable = [q.usable EXCEPT ![f] = P \ bad[f]],
                             !.ended = E, !.cursor = d]
  OBVIOUS
<1>10. /\ d \in Cursors /\ d.at = q.cursor.at /\ d.complete = q.cursor.complete
       /\ d.from[f] = from /\ \A g \in Feeds \ {f} : d.from[g] = q.cursor.from[g]
  <2> HIDE DEF c
  <2> QED BY <1>6, <1>7, <1>8 DEF Cursors
<1>11. /\ p \in Locals /\ p.pc = "fetch" /\ p.toFetch = q.toFetch \ {f} /\ p.cursor = d
       /\ p.page = [q.page EXCEPT ![f] = P] /\ p.usable = [q.usable EXCEPT ![f] = P \ bad[f]]
       /\ p.ended = E /\ p.read = q.read
  <2>1. q.page \in [Feeds -> SUBSET Records] /\ q.usable \in [Feeds -> SUBSET Records]
        /\ q.ended \subseteq Feeds /\ q.toFetch \subseteq Feeds
    BY LocalsTyped
  <2>2. E \subseteq Feeds BY <1>5, <2>1
  <2>3. /\ [q.page EXCEPT ![f] = P] \in [Feeds -> SUBSET Records]
        /\ [q.usable EXCEPT ![f] = P \ bad[f]] \in [Feeds -> SUBSET Records]
    BY <1>7, <2>1
  <2>4. q.pc = "fetch" BY <1>2, <1>b
  <2> QED BY <1>9, <1>10, <2>1, <2>2, <2>3, <2>4 DEF Locals
<1>12. run' = [run EXCEPT ![r] = p]
  <2>1. run \in [ImportRuns -> {Idle} \cup Locals] BY FeedTyped
  <2>2. run' = [run EXCEPT
              ![r].toFetch = @ \ {f},
              ![r].page[f] = P, ![r].usable[f] = P \ bad[f],
              ![r].ended = IF ends THEN @ \cup {f} ELSE @,
              ![r].cursor.from[f] = from]
    BY <1>3, <1>4, <1>a, <1>2, <1>6
  <2> HIDE DEF c, page, ends
  <2>3. run'[r] = p BY <1>2, <1>5, <1>8, <1>9, <2>1, <2>2 DEF Locals
  <2>4. \A x \in ImportRuns \ {r} : run'[x] = run[x] BY <2>1, <2>2
  <2>5. run' = [x \in ImportRuns |-> run'[x]] BY <2>1, <2>2, ZenonT(120)
  <2> QED BY <2>1, <2>3, <2>4, <2>5
<1>13. /\ p.page[f] = P /\ \A g \in Feeds \ {f} : p.page[g] = q.page[g]
       /\ p.usable[f] = P \ bad[f] /\ \A g \in Feeds \ {f} : p.usable[g] = q.usable[g]
  BY <1>11, LocalsTyped
<1>14. FeedFits(q) /\ Keeps(q.read) /\ c.at = q.read.at /\ c.complete = q.read.complete
       /\ c.from[f] = q.read.from[f]
  BY <1>1, <1>2, <1>b DEF FeedFits
<1>15. Covers(p, f) /\ (p.cursor.complete[f] => f \in p.ended)
  <2>1. f \in p.ended <=> ends \/ f \in q.ended BY <1>5, <1>11
  <2>2. NextAt(p, f) = IF provider = "clover" THEN c.at[f] + Cardinality(P) ELSE LastOf(f, P)
    BY <1>6, <1>10, <1>11, <1>13 DEF NextAt
  <2>3. ASSUME c.complete[f] PROVE ends
    <3>1. page = {} BY <2>3
    <3>2. Cardinality(page) = 0 BY <3>1, FS_EmptySet
    <3> QED BY <2>3, <3>2, FeedAssumption
  <2>4. ASSUME NEW i \in 1..from, i \notin stored[f] \cup P
        PROVE  ~ends /\ i \in Ahead(f, NextAt(p, f))
    <3>1. ~c.complete[f] /\ i \in Ahead(f, c.at[f])
      <4>1. CASE c.complete[f] \/ c.at[f] # 0
        <5>1. i \in 1..q.read.from[f] BY <1>4, <1>14, <2>4, <4>1
        <5> QED BY <1>14, <2>4, <5>1 DEF Keeps
      <4>2. CASE ~c.complete[f] /\ c.at[f] = 0
        <5>1. i \in 1..born[f] BY <1>4, <2>4, <4>2
        <5>2. newest[f] \in BOOLEAN BY FeedTyped
        <5>3. Ahead(f, 0) = 1..born[f]
          <6>1. /\ {k \in 1..born[f] : k <= born[f] - 0} = 1..born[f]
                /\ {k \in 1..born[f] : 0 = 0 \/ k < 0} = 1..born[f]
                /\ {k \in 1..born[f] : k > 0} = 1..born[f]
            BY <1>6
          <6> QED BY <5>2, <6>1, AheadIs
        <5> QED BY <4>2, <5>1, <5>3
      <4> QED BY <4>1, <4>2
    <3>2. P = Page(f, c.at[f]) BY <1>3, <3>1
    <3>3. ~ends
      <4>1. CASE provider = "clover"
        <5>1. ends => Page(f, c.at[f]) = Ahead(f, c.at[f])
          BY <1>6, <3>1, <4>1, PageNotFull
        <5> QED BY <2>4, <3>1, <3>2, <5>1
      <4>2. CASE provider # "clover" BY <1>3, <2>4, <3>1, <4>2
      <4> QED BY <4>1, <4>2
    <3>4. i \in Ahead(f, c.at[f]) \ Page(f, c.at[f]) BY <2>4, <3>1, <3>2
    <3>5. i \in Ahead(f, NextAt(p, f))
      <4> HIDE DEF c
      <4> QED BY <1>6, <2>2, <3>2, <3>4, RestIsAhead
    <3> QED BY <3>3, <3>5
  <2>5. f \notin q.ended BY <1>b, <1>2, <1>14 DEF FeedFits
  <2>6. p.cursor.from[f] = from /\ p.cursor.complete[f] = c.complete[f] /\ p.page[f] = P
    <3> HIDE DEF c
    <3> QED BY <1>6, <1>10, <1>11, <1>13
  <2>7. f \in p.ended <=> ends BY <2>1, <2>5
  <2>e. ~ends => ~c.complete[f] /\ (provider = "clover" => ~(Cardinality(page) < PageSize))
    BY <2>3
  <2>d. ~ends => P = Page(f, c.at[f]) BY <1>3, <2>e
  <2>g. ~ends /\ provider = "clover" => ~(Cardinality(P) < PageSize) BY <1>3, <2>e
  <2> HIDE DEF c, page, ends
  <2>8. ASSUME NEW i \in 1..p.cursor.from[f]
        PROVE  \/ i \in stored[f] \cup p.page[f]
               \/ f \notin p.ended /\ i \in Ahead(f, NextAt(p, f))
    BY <2>4, <2>6, <2>7
  <2>9. p.cursor.complete[f] => f \in p.ended BY <2>3, <2>6, <2>7
  <2>10. f \in p.ended \/ NextAt(p, f) <= MaxRecords
    <3>1. CASE f \in p.ended BY <3>1
    <3>2. CASE f \notin p.ended /\ provider = "clover"
      <4>1. P = Page(f, c.at[f]) /\ ~(Cardinality(Page(f, c.at[f])) < PageSize)
        BY <2>7, <2>d, <2>g, <3>2
      <4>2. newest[f] \in BOOLEAN BY FeedTyped
      <4>3. c.at[f] + Cardinality(P) <= MaxRecords BY <1>6, <3>2, <4>1, <4>2, OffsetTyped
      <4> QED BY <2>2, <3>2, <4>3
    <3>3. CASE provider # "clover"
      <4>1. LastOf(f, P) \in 0..MaxRecords BY <1>7, LastTyped
      <4> QED BY <2>2, <3>3, <4>1, FeedAssumption
    <3> QED BY <3>1, <3>2, <3>3
  <2> QED BY <2>8, <2>9, <2>10 DEF Covers
<1>16. ASSUME NEW g \in Feeds \ p.toFetch, g # f
       PROVE  Covers(p, g) /\ (p.cursor.complete[g] => g \in p.ended)
  <2>1. g \in Feeds \ q.toFetch BY <1>11, <1>16
  <2>2. Covers(q, g) /\ (q.cursor.complete[g] => g \in q.ended) BY <1>14, <2>1 DEF FeedFits
  <2>3. /\ p.page[g] = q.page[g] /\ p.cursor.from[g] = q.cursor.from[g]
        /\ p.cursor.at = q.cursor.at /\ p.cursor.complete = q.cursor.complete
        /\ (g \in p.ended <=> g \in q.ended)
    BY <1>5, <1>10, <1>11, <1>13, <1>16
  <2>4. NextAt(p, g) = NextAt(q, g) BY <2>3 DEF NextAt
  <2> QED BY <2>2, <2>3, <2>4 DEF Covers
<1>17. FeedFits(p)
  <2>1. p.cursor.at = p.read.at /\ p.cursor.complete = p.read.complete
    BY <1>6, <1>10, <1>11, <1>14
  <2>2. p.ended \cap p.toFetch = {} BY <1>5, <1>11, <1>14 DEF FeedFits
  <2>3. \A g \in p.toFetch : p.cursor.from[g] = p.read.from[g]
    BY <1>10, <1>11, <1>14, LocalsTyped DEF FeedFits
  <2>4. \A g \in Feeds : p.usable[g] \subseteq p.page[g] BY <1>13, <1>14 DEF FeedFits
  <2>5. provider = "shopify" => p.usable = p.page
    <3> SUFFICES ASSUME provider = "shopify" PROVE p.usable = p.page
      OBVIOUS
    <3>1. q.usable = q.page /\ bad[f] = {} BY <1>14 DEF FeedFits, FeedInv
    <3>2. P \ bad[f] = P BY <3>1
    <3> QED BY <1>11, <3>1, <3>2
  <2>6. Keeps(p.read) BY <1>11, <1>14
  <2>7. \A g \in Feeds \ p.toFetch : Covers(p, g) /\ (p.cursor.complete[g] => g \in p.ended)
    BY <1>15, <1>16
  <2> QED BY <1>11, <2>1, <2>2, <2>3, <2>4, <2>5, <2>6, <2>7 DEF FeedFits
<1>18. Grows BY <1>b, FeedTyped DEF Grows
<1>19. FeedFits(p)' BY <1>11, <1>17, <1>18, FeedFitsStays
<1> QED BY <1>b, <1>11, <1>12, <1>19, FeedTyped, FeedLeaseTyped, FeedRunStep

\* The cursor that a run saves has left nothing behind.
LEMMA NextKeeps ==
  ASSUME FeedInv, NEW r \in ImportRuns, run[r] \in Locals, FeedFits(run[r]), run[r].pc = "save"
  PROVE  /\ NextCursor(r) \in Cursors /\ Keeps(NextCursor(r))
         /\ Complete(r) /\ ~Warned(r) => \A f \in Feeds : 1..run[r].cursor.from[f] \subseteq stored[f]
<1>1. PICK p \in Locals : p = run[r] OBVIOUS
<1>2. /\ p.cursor \in Cursors /\ p.read \in Cursors /\ p.ended \subseteq Feeds
      /\ p.page \in [Feeds -> SUBSET Records] /\ p.usable \in [Feeds -> SUBSET Records]
  BY LocalsTyped
<1>3. /\ FeedFits(p) /\ p.pc = "save" /\ p.toFetch = {} /\ Keeps(p.read)
      /\ \A f \in Feeds : Covers(p, f) /\ p.usable[f] \subseteq stored[f]
      /\ \A f \in Feeds : p.cursor.complete[f] => f \in p.ended
  BY <1>1 DEF FeedFits
<1>4. Warned(r) <=> p.usable # p.page BY <1>1 DEF Warned
<1>5. Complete(r) <=> p.ended = Feeds BY <1>1 DEF Complete
<1>6. Fresh \in Cursors /\ Keeps(Fresh)
  BY FeedAssumption DEF Fresh, Cursors, Keeps
<1>7. ASSUME ~Warned(r), NEW f \in Feeds, NEW i \in 1..p.cursor.from[f]
      PROVE  i \in stored[f] \/ (f \notin p.ended /\ i \in Ahead(f, NextAt(p, f)))
  BY <1>3, <1>4, <1>7 DEF Covers
<1>f. Complete(r) /\ ~Warned(r) => \A f \in Feeds : 1..run[r].cursor.from[f] \subseteq stored[f]
  BY <1>1, <1>5, <1>7
\* A cursor with these marks is as good as the page.
<1>8. ASSUME ~Warned(r), NEW c \in Cursors, c.from = p.cursor.from,
             \A f \in Feeds : f \notin p.ended => ~c.complete[f] /\ c.at[f] = NextAt(p, f)
      PROVE  Keeps(c)
  BY <1>7, <1>8 DEF Keeps
<1>9. ASSUME NEW f \in Feeds PROVE LastOf(f, p.page[f]) \in 0..MaxRecords
  BY <1>2, LastTyped
<1>10. CASE provider = "stripe"
  <2>1. CASE Warned(r) BY <1>1, <1>2, <1>3, <1>10, <2>1 DEF NextCursor, StripeCursor
  <2>2. CASE ~Warned(r) /\ Complete(r)
    <3>1. NextCursor(r) = Fresh BY <1>10, <2>2 DEF NextCursor, StripeCursor
    <3> QED BY <1>6, <1>f, <3>1
  <2>3. CASE ~Warned(r) /\ ~Complete(r)
    <3>1. PICK marks : marks = [f \in Feeds |-> f \in p.ended] OBVIOUS
    <3>2. PICK ats : ats = [f \in Feeds |-> IF f \in p.ended THEN 0 ELSE LastOf(f, p.page[f])]
      OBVIOUS
    <3>3. PICK c : c = [p.cursor EXCEPT !.complete = marks, !.at = ats] OBVIOUS
    <3>4. NextCursor(r) = c
      BY <1>1, <1>10, <2>3, <3>1, <3>2, <3>3 DEF NextCursor, StripeCursor
    <3>5. marks \in [Feeds -> BOOLEAN] /\ ats \in [Feeds -> 0..MaxRecords]
      BY <1>9, <3>1, <3>2, FeedAssumption
    <3>6. c \in Cursors /\ c.from = p.cursor.from /\ c.complete = marks /\ c.at = ats
      BY <1>2, <3>3, <3>5 DEF Cursors
    <3>7. \A f \in Feeds : f \notin p.ended => ~c.complete[f] /\ c.at[f] = NextAt(p, f)
      BY <1>10, <3>1, <3>2, <3>6 DEF NextAt
    <3> QED BY <1>8, <2>3, <3>4, <3>6, <3>7
  <2> QED BY <1>1, <1>3, <1>5, <1>7, <2>1, <2>2, <2>3
<1>11. CASE provider = "clover"
  <2>1. CASE Warned(r) BY <1>1, <1>2, <1>3, <1>11, <2>1 DEF NextCursor, CloverCursor
  <2>2. CASE ~Warned(r) /\ Complete(r)
    <3>1. NextCursor(r) = Fresh BY <1>11, <2>2 DEF NextCursor, CloverCursor, CloverCheckpoint
    <3> QED BY <1>6, <1>f, <3>1
  <2>3. CASE ~Warned(r) /\ ~Complete(r)
    <3>1. PICK marks : marks = [f \in Feeds |-> p.cursor.complete[f] \/ f \in p.ended] OBVIOUS
    <3>2. PICK ats : ats = [f \in Feeds |->
                               IF p.cursor.complete[f] \/ f \in p.ended THEN p.cursor.at[f]
                               ELSE p.cursor.at[f] + Cardinality(p.page[f])]
      OBVIOUS
    <3>3. PICK c : c = [p.cursor EXCEPT !.complete = marks, !.at = ats] OBVIOUS
    <3>4. NextCursor(r) = c
      BY <1>1, <1>2, <1>11, <2>3, <3>1, <3>2, <3>3
      DEF NextCursor, CloverCursor, CloverCheckpoint, Cursors
    <3>5. marks \in [Feeds -> BOOLEAN] /\ ats \in [Feeds -> 0..MaxRecords]
      <4>1. ASSUME NEW f \in Feeds PROVE ats[f] \in 0..MaxRecords
        <5>1. p.cursor.at[f] \in 0..MaxRecords BY <1>2, CursorTyped
        <5>2. f \notin p.ended => NextAt(p, f) <= MaxRecords BY <1>3 DEF Covers
        <5>3. NextAt(p, f) \in Nat /\ NextAt(p, f) = p.cursor.at[f] + Cardinality(p.page[f])
          BY <1>11, NextTyped DEF NextAt
        <5> QED BY <3>2, <5>1, <5>2, <5>3, FeedAssumption
      <4>2. marks \in [Feeds -> BOOLEAN]
        BY <1>2, <3>1 DEF Cursors
      <4> QED BY <3>2, <4>1, <4>2
    <3>6. c \in Cursors /\ c.from = p.cursor.from /\ c.complete = marks /\ c.at = ats
      BY <1>2, <3>3, <3>5 DEF Cursors
    <3>7. \A f \in Feeds : f \notin p.ended => ~c.complete[f] /\ c.at[f] = NextAt(p, f)
      <4> SUFFICES ASSUME NEW f \in Feeds, f \notin p.ended
                   PROVE  ~c.complete[f] /\ c.at[f] = NextAt(p, f)
        OBVIOUS
      <4>1. ~p.cursor.complete[f] BY <1>3
      <4>2. ~marks[f] BY <3>1, <4>1
      <4>3. ats[f] = p.cursor.at[f] + Cardinality(p.page[f]) BY <3>2, <4>1
      <4> QED BY <1>11, <3>6, <4>2, <4>3 DEF NextAt
    <3> QED BY <1>8, <2>3, <3>4, <3>6, <3>7
  <2> QED BY <1>1, <1>3, <1>5, <1>7, <2>1, <2>2, <2>3
<1>12. CASE provider = "shopify"
  <2>1. ~Warned(r) BY <1>3, <1>4, <1>12 DEF FeedFits
  <2>2. CASE Complete(r)
    <3>1. NextCursor(r) = Fresh BY <1>12, <2>2 DEF NextCursor, ShopifyCursor
    <3> QED BY <1>6, <1>f, <3>1
  <2>3. CASE ~Complete(r)
    <3>1. PICK marks : marks = [f \in Feeds |-> f \in p.ended] OBVIOUS
    <3>2. PICK ats : ats = [f \in Feeds |-> LastOf(f, p.page[f])] OBVIOUS
    <3>3. PICK c : c = [p.cursor EXCEPT !.complete = marks, !.at = ats] OBVIOUS
    <3>4. NextCursor(r) = c
      BY <1>1, <1>12, <2>3, <3>1, <3>2, <3>3 DEF NextCursor, ShopifyCursor
    <3>5. marks \in [Feeds -> BOOLEAN] /\ ats \in [Feeds -> 0..MaxRecords]
      BY <1>9, <3>1, <3>2, FeedAssumption
    <3>6. c \in Cursors /\ c.from = p.cursor.from /\ c.complete = marks /\ c.at = ats
      BY <1>2, <3>3, <3>5 DEF Cursors
    <3>7. \A f \in Feeds : f \notin p.ended => ~c.complete[f] /\ c.at[f] = NextAt(p, f)
      BY <1>12, <3>1, <3>2, <3>6 DEF NextAt
    <3>8. Keeps(c) BY <1>8, <2>1, <3>6, <3>7
    <3> QED BY <2>3, <3>4, <3>6, <3>8
  <2> QED BY <1>1, <1>3, <1>5, <1>7, <2>1, <2>2, <2>3
<1> QED BY <1>10, <1>11, <1>12, FeedTyped

LEMMA SaveCursorStep ==
  ASSUME FeedInv, NEW r \in ImportRuns, SaveCursor(r)
  PROVE  FeedInv'
<1>1. /\ run[r].pc = "save" /\ run' = [run EXCEPT ![r] = Idle]
      /\ conn' = [owner |-> NoRun, live |-> FALSE, cursor |-> NextCursor(r)]
      /\ whole' = IF Complete(r) /\ ~Warned(r) THEN run[r].cursor.from ELSE whole
      /\ UNCHANGED << provider, newest, born, bad, stored >>
  BY DEF SaveCursor
<1>2. run[r] \in Locals /\ FeedFits(run[r]) BY <1>1, FeedTyped DEF Idle
<1>3. PICK c \in Cursors : c = NextCursor(r) /\ Keeps(c)
  BY <1>1, <1>2, NextKeeps
<1>4. Grows BY <1>1, FeedTyped DEF Grows
<1>5. CursorsAreHonest' BY <1>1, <1>3, <1>4, KeepsStays DEF CursorsAreHonest, Keeps
<1>6. CASE Complete(r) /\ ~Warned(r)
  <2>1. whole' = run[r].cursor.from BY <1>1, <1>6
  <2>2. run[r].cursor.from \in [Feeds -> 0..MaxRecords] BY <1>2 DEF Locals, Cursors
  <2>3. \A f \in Feeds : 1..run[r].cursor.from[f] \subseteq stored[f]
    BY <1>1, <1>2, <1>6, NextKeeps
  <2>4. CycleIsWhole' BY <1>1, <2>1, <2>3 DEF CycleIsWhole
  <2>5. FeedTypeOK' BY <1>1, <1>3, <2>1, <2>2, FeedTyped DEF FeedTypeOK
  <2> QED BY <1>1, <1>4, <1>5, <2>4, <2>5, RunMoves DEF FeedInv
<1>7. CASE ~(Complete(r) /\ ~Warned(r))
  <2>1. whole' = whole BY <1>1, <1>7
  <2>2. CycleIsWhole' BY <1>1, <2>1, FeedTyped DEF CycleIsWhole
  <2>3. FeedTypeOK' BY <1>1, <1>3, <2>1, FeedTyped DEF FeedTypeOK
  <2> QED BY <1>1, <1>4, <1>5, <2>2, <2>3, RunMoves DEF FeedInv
<1> QED BY <1>6, <1>7

LEMMA FeedStart == FeedInit => FeedInv
<1> SUFFICES ASSUME FeedInit PROVE FeedInv
  OBVIOUS
<1>1. 0 \in 0..MaxRecords /\ 1..0 = {} BY FeedAssumption
<1>2. Fresh \in Cursors /\ Keeps(Fresh)
  BY <1>1 DEF Fresh, Cursors, Keeps
<1>3. FeedTypeOK
  <2>1. bad \in [Feeds -> SUBSET Records] BY FeedAssumption DEF FeedInit, Records
  <2> QED BY <1>1, <1>2, <2>1 DEF FeedInit, FeedTypeOK
<1>4. CycleIsWhole BY <1>1 DEF FeedInit, CycleIsWhole
<1>5. CursorsAreHonest BY <1>2 DEF FeedInit, CursorsAreHonest
<1>6. Idle \notin Locals BY DEF Idle, Locals
<1>7. \A r \in ImportRuns : run[r] = Idle BY DEF FeedInit
<1>8. provider = "shopify" => \A f \in Feeds : bad[f] = {} BY DEF FeedInit
<1> QED BY <1>3, <1>4, <1>5, <1>6, <1>7, <1>8 DEF FeedInv

LEMMA FeedStep ==
  ASSUME FeedInv, [FeedNext]_feedVars
  PROVE  FeedInv'
<1>1. CASE UNCHANGED feedVars
  <2>1. UNCHANGED << provider, newest, born, bad, conn, stored, run, whole >> BY <1>1 DEF feedVars
  <2>2. Grows BY <2>1, FeedTyped DEF Grows
  <2>3. FeedTypeOK' BY <2>1, FeedTyped DEF FeedTypeOK
  <2> QED BY <2>1, <2>2, <2>3, NobodyMoves DEF FeedInv
<1>2. ASSUME NEW r \in ImportRuns,
             ReadCursor(r) \/ TakeLease(r) \/ RenewAfterFetch(r) \/ WriteRecords(r)
             \/ WriteSome(r) \/ RenewBeforeSave(r) \/ SaveCursor(r) \/ Fail(r) \/ Die(r)
             \/ \E f \in Feeds : FetchFeed(r, f)
      PROVE  FeedInv'
  BY <1>2, ReadCursorStep, GoStep, EndStep, SaveCursorStep, FetchFeedStep
<1> QED BY <1>1, <1>2, ProviderStep DEF FeedNext

\* Stripe, Clover and Shopify (sync/stripe.ts, clover.ts, shopify-pos.ts) read their
\* feeds without a gap: with any number of runs that overlap, of the records there
\* were when a cycle reached a feed, each is stored or still ahead of the saved
\* cursor, and a cycle that ends has stored what its feeds held.
THEOREM NoRecordIsSkipped == FeedSpec => []FeedsAreSound
<1>1. FeedInv => FeedsAreSound BY DEF FeedInv, FeedsAreSound
<1>2. FeedInv /\ [FeedNext]_feedVars => FeedInv' BY FeedStep
<1> QED BY <1>1, <1>2, FeedStart, PTL DEF FeedSpec

-----------------------------------------------------------------------------
(* Payments day by day.                                                     *)

\* Days in numbers.
LEMMA DayNumber ==
  ASSUME NEW t \in Nat \ {0}
  PROVE  DayOf(t) \in Nat \ {0} /\ FirstOf(DayOf(t)) <= t /\ t <= LastOfDay(DayOf(t))
BY PaymentAssumption DEF DayOf, FirstOf, LastOfDay

LEMMA DaysGrow ==
  ASSUME NEW t \in Nat \ {0}, NEW u \in Nat \ {0}, t <= u
  PROVE  DayOf(t) <= DayOf(u)
BY PaymentAssumption DEF DayOf

LEMMA DaysApart ==
  ASSUME NEW d \in Nat, NEW e \in Nat, d <= e
  PROVE  LastOfDay(d) \in Nat /\ LastOfDay(e) \in Nat /\ LastOfDay(d) <= LastOfDay(e)
BY PaymentAssumption DEF LastOfDay

LEMMA Smaller ==
  ASSUME NEW a \in Nat, NEW b \in Nat
  PROVE  Min({a, b}) = IF a <= b THEN a ELSE b
BY DEF Min

\* A cursor that has passed over nothing: it is not ahead of the present day,
\* and what it has left behind is staged.
Reached(c) ==
    /\ c.day <= DayOf(now) /\ c.at < now /\ c.end < now
    /\ \A t \in payments : DayOf(t) < c.day => t \in received
    /\ \A t \in payments : FirstOf(c.day) <= t /\ t <= c.at => t \in received

\* The cursor of a run, which may have left its last day.
ReachedIn(c, today) ==
    /\ c.day <= today + 1 /\ c.at < now /\ c.end < now
    /\ \A t \in payments : DayOf(t) < c.day /\ DayOf(t) < today => t \in received
    /\ c.day > today => c.at = Never
    /\ \A t \in payments : FirstOf(c.day) <= t /\ t <= c.at => t \in received

\* The page in hand closes the gap up to the cursor, or to the end of the window.
ReachedWith(c, today, page) ==
    /\ c.day <= today /\ c.at < now /\ c.end < now /\ page \subseteq payments
    /\ \A t \in payments : DayOf(t) < c.day => t \in received
    /\ \A t \in payments :
          FirstOf(c.day) <= t /\ t <= (IF c.at # Never THEN c.at ELSE c.end)
          => t \in received \cup page

DayFits(p) ==
    /\ Reached(p.before) /\ p.today <= DayOf(now)
    /\ p.pc = "read" => Reached(p.cursor)
    /\ p.pc \in {"read", "day"} => ~p.warned
    /\ p.pc = "day" => ReachedIn(p.cursor, p.today)
    /\ p.pc = "page" => ReachedWith(p.cursor, p.today, p.page)
    /\ p.pc = "save" /\ ~p.warned => ReachedIn(p.cursor, p.today)

PaymentInv ==
    /\ PaymentTypeOK /\ Reached(account.cursor)
    /\ \A r \in PaymentRuns, p \in Passes : pass[r] = p => DayFits(p)
-----------------------------------------------------------------------------
\* Time goes on, a payment is made now, and more is staged.
Onwards ==
    /\ now' \in Nat \ {0} /\ now <= now'
    /\ payments' \subseteq payments \cup {now} /\ payments \subseteq payments'
    /\ received \subseteq received'

LEMMA DayTyped ==
  ASSUME PaymentInv
  PROVE  /\ now \in Nat \ {0} /\ now \in Moments
         /\ payments \subseteq Moments /\ payments \subseteq Nat \ {0}
         /\ received \subseteq payments /\ unclear \subseteq payments
         /\ account.cursor \in DayCursors
         /\ account \in [owner : PaymentRuns \cup {NoPaymentRun}, live : BOOLEAN,
                         cursor : DayCursors]
         /\ pass \in [PaymentRuns -> {Waiting} \cup Passes]
         /\ \A r \in PaymentRuns : pass[r] # Waiting => pass[r] \in Passes /\ DayFits(pass[r])
         /\ Waiting \notin Passes
         /\ Reached(account.cursor)
         /\ account.live => account.owner # NoPaymentRun
<1>1. Waiting \notin Passes BY DEF Waiting, Passes
<1> QED BY <1>1, PaymentAssumption DEF PaymentInv, PaymentTypeOK, Moments

LEMMA DayCursorTyped ==
  ASSUME NEW c \in DayCursors
  PROVE  c.day \in Nat \ {0} /\ c.at \in Nat /\ c.end \in Nat
<1>1. DayOf(LastMoment) \in Nat BY DayNumber, PaymentAssumption
<1> QED BY <1>1, PaymentAssumption DEF DayCursors, Days, Moments, Never

LEMMA ReachedStays ==
  ASSUME PaymentInv, Onwards, NEW c \in DayCursors, Reached(c)
  PROVE  Reached(c)'
<1>1. c.day \in Nat \ {0} /\ c.at \in Nat /\ c.end \in Nat BY DayCursorTyped
<1>2. DayOf(now) <= DayOf(now') /\ DayOf(now) \in Nat /\ DayOf(now') \in Nat
  BY DayTyped, DaysGrow, DayNumber DEF Onwards
<1> QED BY <1>1, <1>2, DayTyped DEF Reached, Onwards

LEMMA DayFitsStays ==
  ASSUME PaymentInv, Onwards, NEW p \in Passes, DayFits(p)
  PROVE  DayFits(p)'
<1>1. p.cursor.day \in Nat \ {0} /\ p.cursor.at \in Nat /\ p.cursor.end \in Nat
  BY DayCursorTyped DEF Passes
<1>2. DayOf(now) <= DayOf(now') /\ DayOf(now) \in Nat /\ DayOf(now') \in Nat
  BY DayTyped, DaysGrow, DayNumber DEF Onwards
<1>3. p.today \in Nat
  BY DayNumber, PaymentAssumption DEF Passes, Days
<1>4. Reached(p.before)' /\ p.today <= DayOf(now')
  BY <1>2, <1>3, ReachedStays DEF DayFits, Passes
<1>5. p.pc = "read" => Reached(p.cursor)'
  BY ReachedStays DEF DayFits, Passes
<1>6. ReachedIn(p.cursor, p.today) /\ p.today <= DayOf(now) => ReachedIn(p.cursor, p.today)'
  BY <1>1, <1>2, <1>3, DayTyped DEF ReachedIn, Onwards
<1>7. ReachedWith(p.cursor, p.today, p.page) /\ p.today <= DayOf(now)
      => ReachedWith(p.cursor, p.today, p.page)'
  BY <1>1, <1>2, <1>3, DayTyped DEF ReachedWith, Onwards
<1> QED BY <1>4, <1>5, <1>6, <1>7 DEF DayFits

\* Others keep what fits them, whatever one run does.
LEMMA OtherPasses ==
  ASSUME PaymentInv, Onwards, NEW r \in PaymentRuns, NEW p, pass' = [pass EXCEPT ![r] = p],
         p = Waiting \/ (p \in Passes /\ DayFits(p)'),
         PaymentTypeOK', Reached(account.cursor)'
  PROVE  PaymentInv'
<1>1. ASSUME NEW q \in PaymentRuns, NEW z \in Passes, pass'[q] = z PROVE DayFits(z)'
  <2>1. CASE q = r BY <2>1, <1>1, DayTyped
  <2>2. CASE q # r
    <3>1. pass[q] = z BY <1>1, <2>2, DayTyped
    <3> QED BY <3>1, DayTyped, DayFitsStays
  <2> QED BY <2>1, <2>2
<1> QED BY <1>1 DEF PaymentInv

\* A step that takes nothing away and moves no run.
LEMMA NobodyPasses ==
  ASSUME PaymentInv, Onwards, UNCHANGED pass, PaymentTypeOK', Reached(account.cursor)'
  PROVE  PaymentInv'
<1>1. ASSUME NEW q \in PaymentRuns, NEW z \in Passes, pass'[q] = z PROVE DayFits(z)'
  BY <1>1, DayTyped, DayFitsStays
<1> QED BY <1>1 DEF PaymentInv

\* The saved cursor stands as long as nobody writes it.
LEMMA CursorStands ==
  ASSUME PaymentInv, Onwards, account'.cursor = account.cursor
  PROVE  Reached(account.cursor)'
<1>1. PICK c \in DayCursors : c = account.cursor BY DayTyped
<1>2. Reached(c)' BY <1>1, DayTyped, ReachedStays
<1> QED BY <1>1, <1>2 DEF Reached

\* The lease is taken, lapses or is given back.
DayReleases ==
    /\ account' \in [owner : PaymentRuns \cup {NoPaymentRun}, live : BOOLEAN,
                     cursor : DayCursors]
    /\ account'.cursor = account.cursor /\ (account'.live => account'.owner # NoPaymentRun)

LEMMA DayLeaseTyped ==
  ASSUME PaymentInv
  PROVE  /\ \A r \in PaymentRuns :
               account' = [account EXCEPT !.owner = r, !.live = TRUE] => DayReleases
         /\ account' = [account EXCEPT !.owner = NoPaymentRun, !.live = FALSE] => DayReleases
         /\ account' = [account EXCEPT !.live = FALSE] => DayReleases
         /\ UNCHANGED account => DayReleases
BY DayTyped, PaymentAssumption DEF DayReleases

\* What a step of run r leaves to show.
LEMMA DayRunStep ==
  ASSUME PaymentInv, NEW r \in PaymentRuns, NEW p,
         pass' = [pass EXCEPT ![r] = p], p = Waiting \/ (p \in Passes /\ DayFits(p)'),
         DayReleases, UNCHANGED << now, payments, unclear >>,
         received \subseteq received', received' \subseteq payments
  PROVE  PaymentInv'
<1>1. Onwards BY DayTyped DEF Onwards
<1>2. Reached(account.cursor)' BY <1>1, CursorStands DEF DayReleases
<1>3. PaymentTypeOK'
  <2>1. pass' \in [PaymentRuns -> {Waiting} \cup Passes] BY DayTyped
  <2> QED BY <2>1, DayTyped DEF PaymentTypeOK, DayReleases
<1> QED BY <1>1, <1>2, <1>3, OtherPasses

LEMMA Stopped ==
  ASSUME PaymentInv, NEW r \in PaymentRuns, pass' = [pass EXCEPT ![r] = Waiting],
         DayReleases, UNCHANGED << now, payments, unclear >>,
         received \subseteq received', received' \subseteq payments
  PROVE  PaymentInv'
<1>1. PICK p : p = Waiting OBVIOUS
<1>2. pass' = [pass EXCEPT ![r] = p] BY <1>1
<1>3. p = Waiting \/ (p \in Passes /\ DayFits(p)') BY <1>1
<1> QED BY <1>2, <1>3, DayRunStep

LEMMA WorldStep ==
  ASSUME PaymentInv, \/ \E problem \in BOOLEAN : Pay(problem)
                     \/ \E t \in payments : Alter(t)
                     \/ Reconcile \/ Tick \/ PaymentLeaseExpires
  PROVE  PaymentInv'
<1>1. ASSUME Pay(TRUE) \/ Pay(FALSE) PROVE PaymentInv'
  <2>1. /\ now' = now /\ payments' = payments \cup {now} /\ received' = received
        /\ pass' = pass /\ account' = account /\ unclear' \subseteq unclear \cup {now}
    BY <1>1 DEF Pay
  <2>2. Onwards BY <2>1, DayTyped DEF Onwards
  <2>3. PaymentTypeOK' BY <2>1, DayTyped DEF PaymentTypeOK
  <2> QED BY <2>1, <2>2, <2>3, CursorStands, NobodyPasses
<1>2. ASSUME (\E t \in payments : Alter(t)) \/ Reconcile PROVE PaymentInv'
  <2>1. /\ now' = now /\ payments' = payments /\ received' = received
        /\ pass' = pass /\ account' = account /\ unclear' \subseteq payments
    BY <1>2, DayTyped DEF Alter, Reconcile
  <2>2. Onwards BY <2>1, DayTyped DEF Onwards
  <2>3. PaymentTypeOK' BY <2>1, DayTyped DEF PaymentTypeOK
  <2> QED BY <2>1, <2>2, <2>3, CursorStands, NobodyPasses
<1>3. ASSUME Tick PROVE PaymentInv'
  <2>1. /\ now' = now + 1 /\ payments' = payments /\ received' = received
        /\ pass' = pass /\ account' = account /\ unclear' = unclear
        /\ now' \in Moments
    BY <1>3, DayTyped, PaymentAssumption DEF Tick, Moments
  <2>2. Onwards BY <2>1, DayTyped DEF Onwards
  <2>3. PaymentTypeOK' BY <2>1, DayTyped DEF PaymentTypeOK
  <2> QED BY <2>1, <2>2, <2>3, CursorStands, NobodyPasses
<1>4. ASSUME PaymentLeaseExpires PROVE PaymentInv'
  <2>1. /\ now' = now /\ payments' = payments /\ received' = received
        /\ pass' = pass /\ unclear' = unclear /\ account' = [account EXCEPT !.live = FALSE]
    BY <1>4 DEF PaymentLeaseExpires
  <2>2. Onwards /\ DayReleases BY <2>1, DayTyped, DayLeaseTyped DEF Onwards
  <2>3. PaymentTypeOK' BY <2>1, <2>2, DayTyped DEF PaymentTypeOK, DayReleases
  <2> QED BY <2>1, <2>2, <2>3, CursorStands, NobodyPasses DEF DayReleases
<1>5. \A problem \in BOOLEAN : problem = TRUE \/ problem = FALSE OBVIOUS
<1> QED BY <1>1, <1>2, <1>3, <1>4, <1>5

LEMMA StopStep ==
  ASSUME PaymentInv, NEW r \in PaymentRuns, StageSome(r) \/ FailPass(r) \/ DropPass(r)
  PROVE  PaymentInv'
<1>1. CASE StageSome(r)
  <2>1. pass[r] \in Passes /\ DayFits(pass[r]) /\ pass[r].pc = "page"
    BY <1>1, DayTyped DEF StageSome, Waiting
  <2>2. pass[r].page \subseteq payments BY <2>1 DEF DayFits, ReachedWith
  <2>3. received \subseteq received' /\ received' \subseteq payments
    BY <1>1, <2>2, DayTyped DEF StageSome
  <2> QED BY <1>1, <2>3, DayLeaseTyped, Stopped DEF StageSome
<1>2. CASE FailPass(r) BY <1>2, DayTyped, DayLeaseTyped, Stopped DEF FailPass
<1>3. CASE DropPass(r) BY <1>3, DayTyped, DayLeaseTyped, Stopped DEF DropPass
<1> QED BY <1>1, <1>2, <1>3

LEMMA ReadAccountStep ==
  ASSUME PaymentInv, NEW r \in PaymentRuns, ReadAccount(r)
  PROVE  PaymentInv'
<1> DEFINE p == [pc |-> "read", before |-> account.cursor, cursor |-> account.cursor,
                 page |-> {}, today |-> 1, done |-> 0, warned |-> FALSE]
<1>1. DayOf(now) \in Nat \ {0} /\ DayOf(LastMoment) \in Nat
  BY DayTyped, DayNumber, PaymentAssumption
<1>2. p \in Passes BY <1>1, DayTyped DEF Passes, Days
<1>3. Onwards BY DayTyped DEF ReadAccount, Onwards
<1>4. PICK c \in DayCursors : c = account.cursor BY DayTyped
<1>5. Reached(c)' BY <1>3, <1>4, DayTyped, ReachedStays
<1>6. PICK q : q = p OBVIOUS
<1>7. DayFits(q)'
  <2>1. q.before = c /\ q.cursor = c /\ q.pc = "read" /\ q.today = 1 /\ ~q.warned
    BY <1>4, <1>6
  <2>2. 1 <= DayOf(now)' BY <1>1 DEF ReadAccount, DayOf
  <2> QED BY <1>5, <2>1, <2>2 DEF DayFits
<1> QED BY <1>2, <1>6, <1>7, DayTyped, DayLeaseTyped, DayRunStep DEF ReadAccount

LEMMA LeaseAccountStep ==
  ASSUME PaymentInv, NEW r \in PaymentRuns, LeaseAccount(r)
  PROVE  PaymentInv'
<1>1. pass[r] \in Passes /\ DayFits(pass[r]) /\ pass[r].pc = "read"
  BY DayTyped DEF LeaseAccount, Waiting
<1>2. CASE account.live
  BY <1>2, DayTyped, DayLeaseTyped, Stopped DEF LeaseAccount
<1>3. CASE ~account.live
  <2>1. PICK q : q = [pass[r] EXCEPT !.pc = "day", !.today = DayOf(now)] OBVIOUS
  <2>2. /\ pass' = [pass EXCEPT ![r] = q]
        /\ account' = [account EXCEPT !.owner = r, !.live = TRUE]
        /\ UNCHANGED << now, payments, unclear, received >>
    BY <1>3, <2>1, DayTyped DEF LeaseAccount
  <2>3. DayOf(now) \in Days
    BY DayTyped, DayNumber, DaysGrow, PaymentAssumption DEF Days, Moments
  <2>4. q \in Passes BY <1>1, <2>1, <2>3 DEF Passes
  <2>5. /\ q.pc = "day" /\ q.today = DayOf(now) /\ q.cursor = pass[r].cursor
        /\ q.before = pass[r].before /\ q.warned = pass[r].warned
    BY <1>1, <2>1 DEF Passes
  <2>6. q.cursor.day \in Nat /\ DayOf(now) \in Nat
    BY <1>1, <2>3, <2>5, DayCursorTyped, DayNumber, DayTyped DEF Passes
  <2>7. Reached(q.before) /\ ReachedIn(q.cursor, q.today) /\ ~q.warned
    BY <1>1, <2>5, <2>6, DayTyped DEF DayFits, Reached, ReachedIn
  <2>8. DayFits(q) BY <2>5, <2>6, <2>7 DEF DayFits
  <2>9. Onwards BY <2>2, DayTyped DEF Onwards
  <2>10. DayFits(q)' BY <2>4, <2>8, <2>9, DayFitsStays
  <2> QED BY <2>2, <2>4, <2>10, DayTyped, DayLeaseTyped, DayRunStep
<1> QED BY <1>2, <1>3

LEMMA FetchDayStep ==
  ASSUME PaymentInv, NEW r \in PaymentRuns, FetchDay(r)
  PROVE  PaymentInv'
<1> DEFINE c == pass[r].cursor
           end == WindowEnd(c)
           list == Listed(c, end)
<1>a. /\ pass[r].pc = "day" /\ c.day <= pass[r].today
      /\ UNCHANGED << now, payments, unclear, account, received >>
  BY DEF FetchDay
<1>1. pass[r] \in Passes /\ DayFits(pass[r]) /\ pass[r].pc = "day"
  BY <1>a, DayTyped DEF Waiting
<1>2. PICK last \in list \cup {Never} :
         LET page == IF last = Never THEN list ELSE {t \in list : t <= last}
             more == page # list
         IN pass' = [pass EXCEPT ![r].pc = "page", ![r].page = page,
                                 ![r].cursor.at = IF more THEN last ELSE Never,
                                 ![r].cursor.end = end]
  BY DEF FetchDay
<1> DEFINE page == IF last = Never THEN list ELSE {t \in list : t <= last}
           more == page # list
<1>3. /\ c \in DayCursors /\ c.day \in Nat \ {0} /\ c.at \in Nat /\ c.end \in Nat
      /\ pass[r].today \in Nat /\ c.day <= pass[r].today
  <2>1. c \in DayCursors /\ pass[r].today \in Days BY <1>1 DEF Passes
  <2>2. pass[r].today \in Nat BY <2>1, DayNumber, PaymentAssumption DEF Days
  <2> HIDE DEF c
  <2> QED BY <1>a, <2>1, <2>2, DayCursorTyped
<1>4. end \in Nat /\ end < now /\ end \in Moments \cup {Never}
  <2>1. LastOfDay(c.day) \in Nat /\ now - 1 \in Nat
    BY <1>3, DaysApart, DayTyped
  <2>2. c.end < now BY <1>1 DEF DayFits, ReachedIn
  <2>3. Min({LastOfDay(c.day), now - 1}) = IF LastOfDay(c.day) <= now - 1
                                           THEN LastOfDay(c.day) ELSE now - 1
    BY <2>1, Smaller
  <2> HIDE DEF c
  <2>4. end \in Nat /\ end < now BY <1>3, <2>1, <2>2, <2>3, DayTyped DEF WindowEnd
  <2>5. now \in 1..LastMoment BY DayTyped DEF Moments
  <2> HIDE DEF end
  <2> QED BY <2>4, <2>5, PaymentAssumption DEF Moments, Never
<1>5. list \subseteq payments /\ \A t \in list : t <= end
  BY DEF Listed
<1>6. (more => last \in list) /\ page \subseteq list
  OBVIOUS
<1>7. PICK at : at = IF more THEN last ELSE Never OBVIOUS
<1>8. PICK d : d = [c EXCEPT !.at = at, !.end = end] OBVIOUS
<1>9. PICK q : q = [pass[r] EXCEPT !.pc = "page", !.page = page, !.cursor = d] OBVIOUS
<1>10. pass' = [pass EXCEPT ![r] = q]
  <2>1. pass' = [pass EXCEPT ![r].pc = "page", ![r].page = page,
                             ![r].cursor.at = at, ![r].cursor.end = end]
    BY <1>2, <1>7
  <2> HIDE DEF end, list, page, more
  <2>2. pass' = [pass EXCEPT ![r] = [pass[r] EXCEPT !.pc = "page", !.page = page,
                                     !.cursor = [pass[r].cursor EXCEPT !.at = at, !.end = end]]]
    <3>1. pass \in [PaymentRuns -> {Waiting} \cup Passes] /\ pass[r] \in Passes
      BY <1>1, DayTyped
    <3>2. PICK e : e = [pass[r] EXCEPT !.pc = "page", !.page = page, !.cursor =
                          [pass[r].cursor EXCEPT !.at = at, !.end = end]] OBVIOUS
    <3>3. pass'[r] = e
      BY <2>1, <3>1, <3>2 DEF Passes
    <3>4. \A x \in PaymentRuns \ {r} : pass'[x] = pass[x] BY <2>1, <3>1
    <3>5. pass' = [x \in PaymentRuns |-> pass'[x]] BY <2>1, <3>1
    <3> QED BY <3>1, <3>2, <3>3, <3>4, <3>5
  <2> QED BY <1>8, <1>9, <2>2
<1>11. at \in Moments \cup {Never} /\ at \in Nat /\ at < now
  <2> HIDE DEF end, list, page, more
  <2> QED BY <1>4, <1>5, <1>6, <1>7, DayTyped DEF Moments, Never
<1>12. d \in DayCursors /\ d.day = c.day /\ d.at = at /\ d.end = end
  <2> HIDE DEF end, list, page, more
  <2> QED BY <1>3, <1>4, <1>8, <1>11 DEF DayCursors
<1>13. /\ q \in Passes /\ q.pc = "page" /\ q.page = page /\ q.cursor = d
       /\ q.before = pass[r].before /\ q.today = pass[r].today
  <2> HIDE DEF end, list, c, more
  <2> QED BY <1>1, <1>5, <1>6, <1>9, <1>12, DayTyped DEF Passes, page
<1>14. ReachedWith(d, q.today, page)
  <2>1. ASSUME NEW t \in payments, FirstOf(d.day) <= t,
               t <= (IF d.at # Never THEN d.at ELSE d.end)
        PROVE  t \in received \cup page
    <3>1. CASE t <= c.at BY <1>1, <1>12, <2>1, <3>1 DEF DayFits, ReachedIn
    <3>2. CASE t > c.at
      <4>1. at # Never => at = last /\ last \in list BY <1>6, <1>7
      <4>2. t <= end
        <5> HIDE DEF c, end, list, page, more
        <5> QED BY <1>4, <1>5, <1>11, <1>12, <2>1, <4>1, DayTyped
      <4>3. t \in list BY <1>12, <2>1, <3>2, <4>2 DEF Listed
      <4>4. CASE at # Never BY <1>12, <2>1, <4>1, <4>3, <4>4
      <4>5. CASE at = Never
        <5>1. ~more
          <6>1. Never \notin list BY <1>5, DayTyped DEF Never
          <6> QED BY <1>6, <1>7, <4>5, <6>1
        <5> QED BY <4>3, <5>1
      <4> QED BY <4>4, <4>5
    <3> QED BY <1>3, <2>1, <3>1, <3>2, DayTyped
  <2>2. ASSUME NEW t \in payments, DayOf(t) < d.day PROVE t \in received
    <3>1. DayOf(t) \in Nat BY DayNumber, DayTyped
    <3> QED BY <1>1, <1>3, <1>12, <2>2, <3>1 DEF DayFits, ReachedIn
  <2>3. page \subseteq payments BY <1>5, <1>6
  <2> HIDE DEF c, end, list, page, more
  <2> QED BY <1>3, <1>4, <1>11, <1>12, <1>13, <2>1, <2>2, <2>3 DEF ReachedWith
<1>15. DayFits(q)
  <2> HIDE DEF c, end, list, page, more
  <2> QED BY <1>1, <1>13, <1>14 DEF DayFits
<1>16. Onwards BY <1>a, DayTyped DEF Onwards
<1>17. DayFits(q)' BY <1>13, <1>15, <1>16, DayFitsStays
<1> QED BY <1>a, <1>10, <1>13, <1>17, DayTyped, DayLeaseTyped, DayRunStep

LEMMA StageDayStep ==
  ASSUME PaymentInv, NEW r \in PaymentRuns, StageDay(r)
  PROVE  PaymentInv'
<1> DEFINE c == pass[r].cursor
           warned == pass[r].page \cap unclear # {}
           leaves == LeavesDay(r, warned)
<1>a. /\ pass[r].pc = "page" /\ received' = received \cup (pass[r].page \ unclear)
      /\ UNCHANGED << now, payments, unclear, account >>
      /\ pass' = [pass EXCEPT
              ![r].pc = IF leaves THEN "day" ELSE "save",
              ![r].page = {},
              ![r].warned = warned,
              ![r].done = IF leaves THEN @ + 1 ELSE @,
              ![r].cursor = IF leaves
                            THEN [day |-> c.day + 1, at |-> Never, end |-> Never]
                            ELSE IF c.at = Never THEN [c EXCEPT !.end = Never] ELSE c]
  BY DEF StageDay
<1>b. /\ pass[r].pc = "page" /\ received' = received \cup (pass[r].page \ unclear)
      /\ UNCHANGED << now, payments, unclear, account >>
  BY <1>a
<1>1. pass[r] \in Passes /\ DayFits(pass[r]) /\ ReachedWith(c, pass[r].today, pass[r].page)
  <2>1. pass[r] \in Passes /\ DayFits(pass[r]) BY <1>b, DayTyped DEF Waiting
  <2> QED BY <1>b, <2>1 DEF DayFits
<1>2. c \in DayCursors /\ pass[r].today \in Days /\ pass[r].done \in Nat
  BY <1>1 DEF Passes
<1>3. /\ c.day \in Nat \ {0} /\ c.at \in Nat /\ c.end \in Nat /\ pass[r].today \in Nat
      /\ c.day <= pass[r].today /\ pass[r].today <= DayOf(now) /\ DayOf(now) \in Nat
  BY <1>1, <1>2, DayCursorTyped, DayNumber, PaymentAssumption, DayTyped
  DEF Days, ReachedWith, DayFits
<1>4. PICK d : d = IF leaves THEN [day |-> c.day + 1, at |-> Never, end |-> Never]
                   ELSE IF c.at = Never THEN [c EXCEPT !.end = Never] ELSE c
  OBVIOUS
<1>5. PICK w \in BOOLEAN : w = warned OBVIOUS
<1>6. PICK q : q = [pass[r] EXCEPT !.pc = IF leaves THEN "day" ELSE "save", !.page = {},
                        !.warned = w, !.done = IF leaves THEN @ + 1 ELSE @, !.cursor = d]
  OBVIOUS
<1>7. pass' = [pass EXCEPT ![r] = q]
  <2>1. pass \in [PaymentRuns -> {Waiting} \cup Passes] /\ pass[r] \in Passes
    BY <1>1, DayTyped
  <2> HIDE DEF leaves
  <2>2. pass'[r] = q BY <1>a, <1>4, <1>5, <1>6, <2>1 DEF Passes
  <2>3. \A x \in PaymentRuns \ {r} : pass'[x] = pass[x] BY <1>a, <2>1
  <2>4. pass' = [x \in PaymentRuns |-> pass'[x]] BY <1>a, <2>1
  <2> QED BY <2>1, <2>2, <2>3, <2>4
<1>8. leaves <=> /\ ~w /\ c.at = Never
                 /\ ~(c.end < LastOfDay(c.day) /\ c.day < pass[r].today)
  BY <1>5 DEF LeavesDay
<1>9. d \in DayCursors /\ (~leaves => d.day = c.day /\ d.at = c.at /\ d.end \in {Never, c.end})
      /\ (leaves => d.day = c.day + 1 /\ d.at = Never /\ d.end = Never)
  <2>1. c.day + 1 \in Days
    <3>1. DayOf(now) <= DayOf(LastMoment) /\ DayOf(LastMoment) \in Nat
      BY DayTyped, DaysGrow, DayNumber, PaymentAssumption DEF Moments
    <3> HIDE DEF c
    <3> QED BY <1>3, <3>1 DEF Days
  <2> HIDE DEF leaves, c
  <2> QED BY <1>2, <1>4, <2>1 DEF DayCursors
<1>10. /\ q \in Passes /\ q.pc = (IF leaves THEN "day" ELSE "save") /\ q.cursor = d
       /\ q.before = pass[r].before /\ q.today = pass[r].today /\ q.warned = w
  <2> HIDE DEF leaves, warned
  <2>1. PICK n \in Nat : n = IF leaves THEN pass[r].done + 1 ELSE pass[r].done BY <1>2
  <2>2. q = [pass[r] EXCEPT !.pc = IF leaves THEN "day" ELSE "save", !.page = {},
                  !.warned = w, !.done = n, !.cursor = d]
    BY <1>6, <2>1
  <2> QED BY <1>1, <1>9, <2>2 DEF Passes
<1>11. Onwards BY <1>b, DayTyped DEF Onwards
<1>12. Reached(q.before)'
  BY <1>1, <1>10, <1>11, ReachedStays DEF Passes, DayFits
<1>13. ~w => ReachedIn(d, q.today)'
  <2> SUFFICES ASSUME ~w PROVE ReachedIn(d, q.today)'
    OBVIOUS
  <2>1. received' = received \cup pass[r].page BY <1>1, <1>5, <1>a
  <2>2. ASSUME NEW t \in payments, FirstOf(c.day) <= t,
               t <= (IF c.at # Never THEN c.at ELSE c.end)
        PROVE  t \in received'
    BY <1>1, <2>1, <2>2 DEF ReachedWith
  <2>3. ASSUME NEW t \in payments, DayOf(t) < c.day PROVE t \in received'
    BY <1>1, <2>1, <2>3 DEF ReachedWith
  <2>4. c.at < now /\ c.end < now /\ 0 < now BY <1>1, DayTyped DEF ReachedWith
  <2>5. CASE ~leaves
    <3>1. ASSUME NEW t \in payments, FirstOf(d.day) <= t, t <= d.at
          PROVE t \in received'
      <4>1. t # 0 /\ t \in Nat BY DayTyped
      <4>2. c.at # Never BY <1>3, <1>9, <2>5, <3>1, <4>1 DEF Never
      <4> QED BY <1>9, <2>2, <2>5, <3>1, <4>2
    <3> HIDE DEF c, leaves, warned
    <3> QED BY <1>a, <1>3, <1>9, <1>10, <2>3, <2>4, <2>5, <3>1 DEF ReachedIn, Never
  <2>6. CASE leaves
    <3>1. d.day = c.day + 1 /\ d.at = Never /\ d.end = Never /\ c.at = Never
      BY <1>8, <1>9, <2>6
    <3>2. ASSUME NEW t \in payments, DayOf(t) < d.day, DayOf(t) < q.today
          PROVE  t \in received'
      <4>1. /\ DayOf(t) \in Nat /\ t \in Nat \ {0}
            /\ FirstOf(DayOf(t)) <= t /\ t <= LastOfDay(DayOf(t))
        BY DayNumber, DayTyped
      <4>2. CASE DayOf(t) < c.day BY <2>3, <4>2
      <4>3. CASE ~(DayOf(t) < c.day)
        <5>1. DayOf(t) = c.day BY <1>3, <3>1, <3>2, <4>1, <4>3
        <5>2. ~(c.end < LastOfDay(c.day)) BY <1>8, <1>10, <2>6, <3>2, <5>1
        <5>3. LastOfDay(c.day) \in Nat BY <1>3, DaysApart
        <5>4. t <= c.end
          <6> HIDE DEF c
          <6> QED BY <1>3, <4>1, <5>1, <5>2, <5>3
        <5> QED BY <2>2, <3>1, <4>1, <5>1, <5>4
      <4> QED BY <4>2, <4>3
    <3>3. \A t \in payments : ~(t <= 0) BY DayTyped
    <3> HIDE DEF c, leaves, warned
    <3> QED BY <1>a, <1>3, <1>10, <2>4, <3>1, <3>2, <3>3 DEF ReachedIn, Never
  <2> QED BY <2>5, <2>6
<1>14. DayFits(q)'
  <2>1. leaves => ~w BY <1>8
  <2>2. q.today <= DayOf(now)' BY <1>a, <1>3, <1>10
  <2> HIDE DEF c, leaves, warned
  <2> QED BY <1>10, <1>12, <1>13, <2>1, <2>2 DEF DayFits
<1>15. received \subseteq received' /\ received' \subseteq payments
  BY <1>1, <1>a, DayTyped DEF ReachedWith
<1> QED BY <1>a, <1>7, <1>10, <1>14, <1>15, DayLeaseTyped, DayRunStep

LEMMA EndDaysStep ==
  ASSUME PaymentInv, NEW r \in PaymentRuns, EndDays(r)
  PROVE  PaymentInv'
<1>1. pass[r] \in Passes /\ DayFits(pass[r]) /\ pass[r].pc = "day"
  BY DayTyped DEF EndDays, Waiting
<1>2. PICK q : q = [pass[r] EXCEPT !.pc = "save"] OBVIOUS
<1>3. /\ q \in Passes /\ q.pc = "save" /\ q.cursor = pass[r].cursor
      /\ q.before = pass[r].before /\ q.today = pass[r].today
  BY <1>1, <1>2 DEF Passes
<1>4. Onwards BY DayTyped DEF EndDays, Onwards
<1>5. DayFits(q) BY <1>1, <1>3 DEF DayFits
<1>6. DayFits(q)' BY <1>3, <1>4, <1>5, DayFitsStays
<1> QED BY <1>2, <1>3, <1>6, DayTyped, DayLeaseTyped, DayRunStep DEF EndDays

LEMMA SaveDaysStep ==
  ASSUME PaymentInv, NEW r \in PaymentRuns, SaveDays(r)
  PROVE  PaymentInv'
<1>1. pass[r] \in Passes /\ DayFits(pass[r]) /\ pass[r].pc = "save"
  BY DayTyped DEF SaveDays, Waiting
<1> DEFINE c == pass[r].cursor
<1>2. PICK s : s = NextDays(r) OBVIOUS
<1>3. /\ c \in DayCursors /\ pass[r].before \in DayCursors /\ pass[r].today \in Days
      /\ c.day \in Nat \ {0} /\ c.at \in Nat /\ c.end \in Nat /\ pass[r].today \in Nat
      /\ DayOf(now) \in Nat
  <2>1. c \in DayCursors /\ pass[r].before \in DayCursors /\ pass[r].today \in Days
    BY <1>1 DEF Passes
  <2> HIDE DEF c
  <2> QED BY <2>1, DayCursorTyped, DayNumber, DayTyped, PaymentAssumption DEF Days
<1>4. s \in DayCursors /\ Reached(s)
  <2>1. CASE pass[r].warned BY <1>1, <1>2, <1>3, <2>1 DEF NextDays, DayFits
  <2>2. CASE ~pass[r].warned
    <3>1. PICK d : d = IF c.day <= pass[r].today THEN c.day ELSE pass[r].today OBVIOUS
    <3>2. s = [c EXCEPT !.day = d] BY <1>2, <1>3, <2>2, <3>1, Smaller DEF NextDays
    <3>3. ReachedIn(c, pass[r].today) /\ pass[r].today <= DayOf(now)
      BY <1>1, <2>2 DEF DayFits
    <3> HIDE DEF c
    <3>4. d \in Days /\ d \in Nat BY <1>3, <3>1 DEF DayCursors
    <3>5. s \in DayCursors /\ s.day = d /\ s.at = c.at /\ s.end = c.end
      BY <1>3, <3>2, <3>4 DEF DayCursors
    <3>6. ASSUME NEW t \in payments, DayOf(t) < s.day PROVE t \in received
      <4>1. DayOf(t) \in Nat BY DayNumber, DayTyped
      <4> QED BY <1>3, <3>1, <3>3, <3>5, <3>6, <4>1 DEF ReachedIn
    <3>7. ASSUME NEW t \in payments, FirstOf(s.day) <= t, t <= s.at PROVE t \in received
      <4>1. t \in Nat \ {0} BY DayTyped
      <4>2. c.at # Never BY <1>3, <3>5, <3>7, <4>1 DEF Never
      <4>3. d = c.day BY <1>3, <3>1, <3>3, <4>2 DEF ReachedIn
      <4> QED BY <3>3, <3>5, <3>7, <4>3 DEF ReachedIn
    <3>8. s.day <= DayOf(now) BY <1>3, <3>1, <3>3, <3>5
    <3> QED BY <3>3, <3>5, <3>6, <3>7, <3>8 DEF Reached, ReachedIn
  <2> QED BY <2>1, <2>2
<1>5. /\ account' = [owner |-> NoPaymentRun, live |-> FALSE, cursor |-> s]
      /\ pass' = [pass EXCEPT ![r] = Waiting]
      /\ UNCHANGED << now, payments, unclear, received >>
  BY <1>2 DEF SaveDays
<1>6. Onwards BY <1>5, DayTyped DEF Onwards
<1>7. Reached(s)' BY <1>4, <1>6, ReachedStays
<1>8. Reached(account.cursor)' BY <1>5, <1>7 DEF Reached
<1>9. PaymentTypeOK' BY <1>4, <1>5, DayTyped DEF PaymentTypeOK
<1>10. PICK p : p = Waiting OBVIOUS
<1> QED BY <1>5, <1>6, <1>8, <1>9, <1>10, OtherPasses

LEMMA PaymentStart == PaymentInit => PaymentInv
<1> SUFFICES ASSUME PaymentInit PROVE PaymentInv
  OBVIOUS
<1> DEFINE c == [day |-> 1, at |-> Never, end |-> Never]
<1>1. DayOf(1) = 1 /\ DayOf(LastMoment) \in Nat
  BY DayNumber, PaymentAssumption DEF DayOf
<1>2. c \in DayCursors BY <1>1, PaymentAssumption DEF DayCursors, Days
<1>3. PaymentTypeOK
  BY <1>2, PaymentAssumption DEF PaymentInit, PaymentTypeOK, Moments
<1>4. Reached(account.cursor) BY <1>1 DEF PaymentInit, Reached, Never
<1>5. Waiting \notin Passes BY DEF Waiting, Passes
<1> QED BY <1>3, <1>4, <1>5 DEF PaymentInit, PaymentInv

LEMMA PaymentStep ==
  ASSUME PaymentInv, [PaymentNext]_paymentVars
  PROVE  PaymentInv'
<1>1. CASE UNCHANGED paymentVars
  <2>1. Onwards /\ DayReleases /\ UNCHANGED pass /\ UNCHANGED << payments, unclear, received, now >>
    BY <1>1, DayTyped, DayLeaseTyped DEF paymentVars, Onwards
  <2>2. PaymentTypeOK' BY <2>1, DayTyped DEF PaymentTypeOK, DayReleases
  <2> QED BY <2>1, <2>2, NobodyPasses, CursorStands DEF DayReleases
<1>2. ASSUME NEW r \in PaymentRuns,
             ReadAccount(r) \/ LeaseAccount(r) \/ FetchDay(r) \/ StageDay(r) \/ StageSome(r)
             \/ EndDays(r) \/ SaveDays(r) \/ FailPass(r) \/ DropPass(r)
      PROVE  PaymentInv'
  BY <1>2, ReadAccountStep, LeaseAccountStep, FetchDayStep, StageDayStep, EndDaysStep,
     SaveDaysStep, StopStep
<1> QED BY <1>1, <1>2, WorldStep DEF PaymentNext

\* The Moneris import (sync/moneris.ts) passes no payment over: whatever runs
\* overlap, fail or are evicted, of the days that the saved cursor has left every
\* payment is staged, and of its own day all up to the place it has reached.
THEOREM NoPaymentIsPassedOver == PaymentSpec => []PaymentsAreWhole
<1>1. PaymentInv => PaymentsAreWhole
  BY DEF PaymentInv, PaymentsAreWhole, Reached, DaysLeftAreWhole, ChainsAreWhole
<1>2. PaymentInv /\ [PaymentNext]_paymentVars => PaymentInv'
  BY PaymentStep
<1> QED BY <1>1, <1>2, PaymentStart, PTL DEF PaymentSpec

-----------------------------------------------------------------------------
(* The series import's gate.                                                *)

\* The run will show what it imported.
Publishing(p) == (p.row.status = "approved" \/ p.row.authorized) /\ ~p.warned

\* What a run knows of the gate while the lease bears its name: whoever leaves
\* the days half written has hidden the source, and will not show it again; only
\* if another row than this was leased, it may not have.
GateFits(r, p) ==
    /\ p.pc \in {"read", "history", "recent", "rest", "stage", "hide"} => ~p.hidden
    /\ p.pc # "read" /\ shop.owner = r =>
          /\ ~p.stale =>
                /\ shop.status = "approved" => p.row.status = "approved" /\ ~p.hidden
                /\ p.row.status = "approved" /\ ~p.hidden => days = "whole" \/ exposed
                /\ p.pc \in {"delete", "insert"} =>
                      shop.status = "staging" /\ (p.row.status = "approved" => p.hidden)
          /\ p.pc \in {"hide", "delete", "insert"} \/ p.hidden => Publishing(p)
          /\ p.pc = "save" /\ Publishing(p) => days = "whole"

\* A cursor, and a run's sales in hand, will come to the newest version of a sale;
\* lost are the hours that its recent sweep does not reach.
Comes(c, got, lost, s) ==
    \/ changed[s] = kept[s] \/ << s, changed[s] >> \in got
    \/ ~c.allDone /\ s \in AheadOf(IF c.all # NoChain THEN c.all ELSE [after |-> 0, since |-> c.mark])
    \/ c.recent # NoChain /\ s \in AheadOf(c.recent)
    \/ changed[s] >= c.sweep \/ changed[s] \in missed \cup lost

ComesToAll(c, got, lost) == \A s \in Sales : changed[s] # 0 => Comes(c, got, lost, s)

\* A cursor that leaves nothing behind.
Honest(c) == c.sweep <= hour /\ ComesToAll(c, {}, {})

\* What a run knows of the sales, whoever holds the lease: the cursor it began
\* with was honest and still is, and the one it makes of it leaves nothing behind.
SaleFits(p) ==
    /\ Honest(p.was) /\ p.next.sweep <= hour
    /\ \A e \in p.got : e[2] <= changed[e[1]]
    /\ p.pc \in {"read", "history", "recent", "rest"} => ~p.warned
    /\ p.pc \in {"read", "history"} => p.next = p.was /\ p.got = {}
    /\ p.pc = "recent" => p.next.recent = p.was.recent /\ p.next.sweep = p.was.sweep
    /\ p.pc \in {"history", "recent", "rest", "stage"} =>
          p.warned \/ ComesToAll(p.next, p.got, Skipped(p.was, p.next))
    /\ p.pc \in {"hide", "delete", "insert", "save"} =>
          p.warned \/ ComesToAll(p.next, {}, Skipped(p.was, p.next))

SaleInv ==
    /\ SeriesTypeOK /\ Honest(shop.cursor)
    /\ \A s \in Sales : kept[s] <= changed[s]
    /\ \A r \in SeriesRuns, p \in Turns : turn[r] = p => SaleFits(p)

GateInv ==
    /\ SeriesTypeOK /\ GateIsClosed
    /\ \A r \in SeriesRuns, p \in Turns : turn[r] = p => GateFits(r, p)
-----------------------------------------------------------------------------
LEMMA SeriesTyped ==
  ASSUME SeriesTypeOK
  PROVE  /\ hour \in Hours /\ hour \in Nat /\ changed \in [Sales -> 0..hour] /\ odd \subseteq Sales
         /\ shop \in [owner : SeriesRuns \cup {NoSeries}, live : BOOLEAN,
                      status : {"staging", "approved"}, authorized : BOOLEAN,
                      reviewable : BOOLEAN, cursor : Checkpoints]
         /\ shop.live => shop.owner # NoSeries
         /\ kept \in [Sales -> Hours] /\ days \in {"whole", "partial"}
         /\ turn \in [SeriesRuns -> {Unstarted} \cup Turns] /\ Unstarted \notin Turns
         /\ exposed \in BOOLEAN /\ missed \subseteq Hours
         /\ \A r \in SeriesRuns : turn[r].pc # "idle" => turn[r] \in Turns
         /\ \A r \in SeriesRuns : turn[r] # Unstarted => turn[r] \in Turns
         /\ shop.cursor \in Checkpoints /\ shop.status \in {"staging", "approved"}
         /\ \A s \in Sales : s \in Nat \ {0} /\ changed[s] \in Nat /\ changed[s] <= hour
                             /\ changed[s] \in Hours /\ kept[s] \in Nat
<1>1. Unstarted \notin Turns BY DEF Unstarted, Turns
<1>2. hour \in Hours /\ hour \in Nat /\ \A n \in 0..hour : n \in Hours /\ n \in Nat /\ n <= hour
  BY SeriesAssumption DEF SeriesTypeOK, Hours
<1>3. \A s \in Sales : s \in Nat \ {0} BY SeriesAssumption DEF Sales
<1>4. \A n \in Hours : n \in Nat BY SeriesAssumption DEF Hours
<1>5. \A s \in Sales : changed[s] \in 0..hour /\ kept[s] \in Hours BY DEF SeriesTypeOK
<1>6. \A s \in Sales : changed[s] \in Nat /\ changed[s] <= hour /\ changed[s] \in Hours
                       /\ kept[s] \in Nat
  BY <1>2, <1>4, <1>5
<1>7. shop.cursor \in Checkpoints /\ shop.status \in {"staging", "approved"}
  BY DEF SeriesTypeOK
<1>8. \A r \in SeriesRuns : turn[r] \in {Unstarted} \cup Turns BY DEF SeriesTypeOK
<1>9. Unstarted.pc = "idle" BY DEF Unstarted
<1> QED BY <1>1, <1>2, <1>3, <1>6, <1>7, <1>8, <1>9 DEF SeriesTypeOK

LEMMA TurnTyped ==
  ASSUME NEW p \in Turns
  PROVE  /\ p.was \in Checkpoints /\ p.next \in Checkpoints /\ p.got \subseteq Sales \X Hours
         /\ p.warned \in BOOLEAN /\ p.hidden \in BOOLEAN /\ p.row.authorized \in BOOLEAN
         /\ p.row.status \in {"staging", "approved"} /\ p.stale \in BOOLEAN
BY DEF Turns

LEMMA CheckpointTyped ==
  ASSUME NEW c \in Checkpoints
  PROVE  /\ c.all \in Chains /\ c.recent \in Chains /\ c.mark \in Hours /\ c.sweep \in Hours
         /\ c.allDone \in BOOLEAN /\ c.restDone \in BOOLEAN /\ c.sweep \in Nat /\ c.mark \in Nat
BY SeriesAssumption DEF Checkpoints, Hours

\* Of the numbers of a bounded set, Min and Max are the first and the last.
LEMMA MinIs ==
  ASSUME NEW n \in Nat, NEW S, S \subseteq 0..n, S # {}
  PROVE  Min(S) \in S /\ \A x \in S : Min(S) <= x
<1>1. S \subseteq Nat OBVIOUS
<1>2. \E m \in S : \A x \in S : m <= x BY <1>1, LeastNumber
<1> QED BY <1>2 DEF Min

LEMMA MaxIs ==
  ASSUME NEW n \in Nat, NEW S, S \subseteq 0..n, S # {}
  PROVE  Max(S) \in S /\ \A x \in S : x <= Max(S)
<1>1. S \subseteq Nat OBVIOUS
<1>2. \E m \in S : \A x \in S : x <= m BY <1>1, GreatestNumber
<1>3. \E m \in S : \A x \in S : m >= x BY <1>1, <1>2
<1>4. Max(S) \in S /\ \A x \in S : Max(S) >= x BY <1>3 DEF Max
<1> QED BY <1>1, <1>4

\* Run r has a turn, and goes on with other locals.
Advances(r, q, p) ==
    /\ q \in Turns /\ q = turn[r] /\ p \in Turns /\ turn' = [turn EXCEPT ![r] = p]

\* The step alone moves.
LEMMA TurnGoes ==
  ASSUME SeriesTypeOK, NEW r \in SeriesRuns, turn[r] \in Turns,
         NEW to \in {"hide", "delete", "insert", "save"},
         turn' = [turn EXCEPT ![r].pc = to]
  PROVE  \E q \in Turns, p \in Turns :
            /\ Advances(r, q, p) /\ p.pc = to /\ p.row = q.row /\ p.was = q.was /\ p.next = q.next
            /\ p.got = q.got /\ p.warned = q.warned /\ p.hidden = q.hidden /\ p.stale = q.stale
<1>1. PICK q \in Turns : q = turn[r] OBVIOUS
<1>2. PICK p : p = [q EXCEPT !.pc = to] OBVIOUS
<1>3. /\ p \in Turns /\ p.pc = to /\ p.row = q.row /\ p.was = q.was /\ p.next = q.next
      /\ p.got = q.got /\ p.warned = q.warned /\ p.hidden = q.hidden /\ p.stale = q.stale
  BY <1>2 DEF Turns
<1>4. turn' = [turn EXCEPT ![r] = p] BY <1>1, <1>2, SeriesTyped
<1> QED BY <1>1, <1>3, <1>4 DEF Advances

LEMMA AheadIn ==
  ASSUME SeriesTypeOK, NEW c
  PROVE  /\ AheadOf(c) \subseteq Sales /\ AheadOf(c) \subseteq 0..LastSale
         /\ IsFiniteSet(AheadOf(c)) /\ LastSale \in Nat
<1>1. AheadOf(c) \subseteq 1..LastSale BY DEF AheadOf, Sales
<1>2. IsFiniteSet(1..LastSale) BY SeriesAssumption, FS_Interval
<1>3. 1..LastSale \subseteq 0..LastSale BY SeriesAssumption
<1> QED BY <1>1, <1>2, <1>3, FS_Subset, SeriesAssumption DEF Sales

\* A page and the chain behind it have all that the chain had ahead.
LEMMA ChainGoesOn ==
  ASSUME SeriesTypeOK, NEW c \in Chains
  PROVE  /\ PageOf(c) \subseteq Sales \X Hours /\ After(c) \in Chains
         /\ \A e \in PageOf(c) : e[2] = changed[e[1]]
         /\ \A s \in AheadOf(c) :
               \/ << s, changed[s] >> \in PageOf(c)
               \/ After(c) # NoChain /\ s \in AheadOf(After(c))
<1> DEFINE A == AheadOf(c)
<1>1. A \subseteq Sales /\ A \subseteq 0..LastSale /\ IsFiniteSet(A) /\ LastSale \in Nat
  BY AheadIn
<1>2. c.after \in 0..LastSale /\ c.since \in Hours BY DEF Chains
<1>3. NoChain \in Chains BY SeriesAssumption DEF NoChain, Chains, Hours
<1>4. CASE A = {}
  <2>1. Cardinality(A) = 0 BY <1>4, FS_EmptySet
  <2>2. PageOf(c) = {} /\ After(c) = NoChain BY <1>4, <2>1 DEF PageOf, After
  <2> QED BY <1>3, <1>4, <2>2
<1>5. CASE A # {}
  <2>1. PICK m : m = Min(A) OBVIOUS
  <2>2. m \in A /\ \A s \in A : m <= s BY <1>1, <1>5, <2>1, MinIs
  <2>3. m \in Sales /\ m \in Nat \ {0} /\ m \in 0..LastSale /\ changed[m] \in Hours
    BY <1>1, <2>2, SeriesTyped
  <2>4. PageOf(c) = {<< m, changed[m] >>} BY <1>5, <2>1 DEF PageOf
  <2>5. PICK d : d = [c EXCEPT !.after = m] OBVIOUS
  <2>6. d \in Chains /\ d.after = m /\ d.since = c.since /\ d # NoChain
    BY <2>3, <2>5 DEF Chains, NoChain
  <2>7. After(c) = IF Cardinality(A) <= 1 THEN NoChain ELSE d BY <2>1, <2>5 DEF After
  <2>8. ASSUME NEW s \in A, s # m PROVE After(c) # NoChain /\ s \in AheadOf(After(c))
    <3>1. {s, m} \subseteq A BY <2>2
    <3>2. Cardinality({s, m}) = 2 
      <4>1. IsFiniteSet({m}) /\ Cardinality({m}) = 1 BY FS_Singleton
      <4>2. Cardinality({m} \cup {s}) = Cardinality({m}) + 1 BY <2>8, <4>1, FS_AddElement
      <4>3. {m} \cup {s} = {s, m} OBVIOUS
      <4> QED BY <4>1, <4>2, <4>3
    <3>3. Cardinality({s, m}) <= Cardinality(A) BY <1>1, <3>1, FS_Subset
    <3>4. Cardinality(A) \in Nat BY <1>1, FS_CardinalityType
    <3>5. After(c) = d BY <2>7, <3>2, <3>3, <3>4
    <3>6. s > m BY <1>1, <2>2, <2>3, <2>8, SeriesTyped
    <3>7. s \in Sales /\ changed[s] # 0 /\ changed[s] >= c.since BY <2>8 DEF AheadOf
    <3> QED BY <2>6, <3>5, <3>6, <3>7 DEF AheadOf
  <2>9. After(c) \in Chains BY <1>3, <2>6, <2>7
  <2>10. ASSUME NEW s \in A
         PROVE  \/ << s, changed[s] >> \in PageOf(c)
                \/ After(c) # NoChain /\ s \in AheadOf(After(c))
    <3>1. CASE s = m BY <2>4, <3>1
    <3>2. CASE s # m BY <2>8, <3>2
    <3> QED BY <3>1, <3>2
  <2> QED BY <2>3, <2>4, <2>9, <2>10
<1> QED BY <1>4, <1>5

LEMMA HistoryRead ==
  ASSUME SeriesTypeOK, NEW r \in SeriesRuns, FetchHistory(r)
  PROVE  \E q \in Turns, p \in Turns, c \in Chains :
            /\ Advances(r, q, p) /\ q.pc = "history" /\ p.pc = "recent"
            /\ p.row = q.row /\ p.was = q.was /\ p.warned = q.warned /\ p.hidden = q.hidden
            /\ p.stale = q.stale
            /\ c = IF q.was.all # NoChain THEN q.was.all ELSE [after |-> 0, since |-> q.was.mark]
            /\ p.got = IF q.was.allDone THEN {} ELSE PageOf(c)
            /\ p.next.all = IF q.was.allDone THEN NoChain ELSE After(c)
            /\ p.next.allDone <=> q.was.allDone \/ After(c) = NoChain
            /\ p.next.recent = q.next.recent /\ p.next.mark = q.next.mark
            /\ p.next.sweep = q.next.sweep
<1>1. PICK q \in Turns : q = turn[r] /\ q.pc = "history"
  BY SeriesTyped DEF FetchHistory
<1>2. q.was \in Checkpoints /\ q.was.all \in Chains /\ q.was.mark \in Hours /\ q.next \in Checkpoints
  BY TurnTyped, CheckpointTyped
<1>3. PICK c : c = IF q.was.all # NoChain THEN q.was.all ELSE [after |-> 0, since |-> q.was.mark]
  OBVIOUS
<1>4. c \in Chains BY <1>2, <1>3, SeriesAssumption DEF Chains
<1>5. PICK got : got = IF q.was.allDone THEN {} ELSE PageOf(c) OBVIOUS
<1>6. PICK all : all = IF q.was.allDone THEN NoChain ELSE After(c) OBVIOUS
<1>7. PICK done \in BOOLEAN : done <=> q.was.allDone \/ After(c) = NoChain OBVIOUS
<1>8. got \subseteq Sales \X Hours /\ all \in Chains
  <2>1. NoChain \in Chains BY SeriesAssumption DEF NoChain, Chains, Hours
  <2> QED BY <1>4, <1>5, <1>6, <2>1, ChainGoesOn
<1>9. PICK n : n = [q.next EXCEPT !.all = all, !.allDone = done] OBVIOUS
<1>10. /\ n \in Checkpoints /\ n.all = all /\ n.allDone = done /\ n.recent = q.next.recent
       /\ n.mark = q.next.mark /\ n.sweep = q.next.sweep
  BY <1>2, <1>8, <1>9 DEF Checkpoints
<1>11. PICK p : p = [q EXCEPT !.pc = "recent", !.got = got, !.next = n] OBVIOUS
<1>12. /\ p \in Turns /\ p.pc = "recent" /\ p.got = got /\ p.next = n /\ p.row = q.row
       /\ p.was = q.was /\ p.warned = q.warned /\ p.hidden = q.hidden /\ p.stale = q.stale
  BY <1>8, <1>10, <1>11 DEF Turns
<1>13. turn' = [turn EXCEPT ![r].pc = "recent", ![r].got = got, ![r].next.all = all,
                            ![r].next.allDone = done]
  <2>1. (q.was.allDone \/ After(c) = NoChain) = done
    BY <1>2, <1>7, CheckpointTyped
  <2> QED BY <1>1, <1>3, <1>5, <1>6, <2>1 DEF FetchHistory
<1>14. turn' = [turn EXCEPT ![r] = p]
  <2>1. turn \in [SeriesRuns -> {Unstarted} \cup Turns] BY SeriesTyped
  <2>2. turn'[r] = p BY <1>1, <1>9, <1>11, <1>13, <2>1 DEF Turns, Checkpoints
  <2>3. \A x \in SeriesRuns \ {r} : turn'[x] = turn[x] BY <1>13, <2>1
  <2>4. turn' = [x \in SeriesRuns |-> turn'[x]] BY <1>13, <2>1
  <2> QED BY <2>1, <2>2, <2>3, <2>4
<1>15. Advances(r, q, p) BY <1>1, <1>12, <1>14 DEF Advances
<1> QED BY <1>1, <1>3, <1>4, <1>5, <1>6, <1>7, <1>10, <1>12, <1>15

LEMMA RecentRead ==
  ASSUME SeriesTypeOK, NEW r \in SeriesRuns, FetchRecent(r)
  PROVE  \E q \in Turns, p \in Turns, c \in Chains :
            /\ Advances(r, q, p) /\ q.pc = "recent" /\ p.pc = "rest"
            /\ p.row = q.row /\ p.was = q.was /\ p.warned = q.warned /\ p.hidden = q.hidden
            /\ p.stale = q.stale
            /\ c = IF q.was.recent # NoChain THEN q.was.recent ELSE [after |-> 0, since |-> DayAgo]
            /\ p.got = q.got \cup PageOf(c)
            /\ p.next.all = q.next.all /\ p.next.allDone = q.next.allDone
            /\ p.next.recent = After(c) /\ p.next.mark = q.next.mark
            /\ p.next.sweep = IF q.was.recent # NoChain THEN q.was.sweep ELSE hour
<1>1. PICK q \in Turns : q = turn[r] /\ q.pc = "recent"
  BY SeriesTyped DEF FetchRecent
<1>2. /\ q.was \in Checkpoints /\ q.was.recent \in Chains /\ q.was.sweep \in Hours
      /\ q.next \in Checkpoints /\ q.got \subseteq Sales \X Hours
  BY TurnTyped, CheckpointTyped
<1>3. PICK c : c = IF q.was.recent # NoChain THEN q.was.recent ELSE [after |-> 0, since |-> DayAgo]
  OBVIOUS
<1>4. c \in Chains
  <2>1. DayAgo \in Hours BY SeriesTyped, SeriesAssumption DEF DayAgo, Hours
  <2>2. 0 \in 0..LastSale BY SeriesAssumption
  <2> QED BY <1>2, <1>3, <2>1, <2>2 DEF Chains
<1>5. PICK got : got = q.got \cup PageOf(c) OBVIOUS
<1>6. PICK sweep : sweep = IF q.was.recent # NoChain THEN q.was.sweep ELSE hour OBVIOUS
<1>7. PICK after : after = After(c) OBVIOUS
<1>8. got \subseteq Sales \X Hours /\ after \in Chains /\ sweep \in Hours
  BY <1>2, <1>4, <1>5, <1>6, <1>7, ChainGoesOn, SeriesTyped
<1>9. PICK n : n = [q.next EXCEPT !.recent = after, !.sweep = sweep] OBVIOUS
<1>10. /\ n \in Checkpoints /\ n.all = q.next.all /\ n.allDone = q.next.allDone
       /\ n.recent = after /\ n.mark = q.next.mark /\ n.sweep = sweep
  BY <1>2, <1>8, <1>9 DEF Checkpoints
<1>11. PICK p : p = [q EXCEPT !.pc = "rest", !.got = got, !.next = n] OBVIOUS
<1>12. /\ p \in Turns /\ p.pc = "rest" /\ p.got = got /\ p.next = n /\ p.row = q.row
       /\ p.was = q.was /\ p.warned = q.warned /\ p.hidden = q.hidden /\ p.stale = q.stale
  BY <1>8, <1>10, <1>11 DEF Turns
<1>13. turn' = [turn EXCEPT ![r].pc = "rest", ![r].got = @ \cup PageOf(c),
                            ![r].next.recent = after, ![r].next.sweep = sweep]
  BY <1>1, <1>3, <1>6, <1>7 DEF FetchRecent, RecentChain
<1>14. turn' = [turn EXCEPT ![r] = p]
  <2>1. turn \in [SeriesRuns -> {Unstarted} \cup Turns] BY SeriesTyped
  <2>2. turn'[r] = p BY <1>1, <1>5, <1>9, <1>11, <1>13, <2>1 DEF Turns, Checkpoints
  <2>3. \A x \in SeriesRuns \ {r} : turn'[x] = turn[x] BY <1>13, <2>1
  <2>4. turn' = [x \in SeriesRuns |-> turn'[x]] BY <1>13, <2>1
  <2> QED BY <2>1, <2>2, <2>3, <2>4
<1>15. Advances(r, q, p) BY <1>1, <1>12, <1>14 DEF Advances
<1> QED BY <1>1, <1>3, <1>4, <1>5, <1>6, <1>7, <1>10, <1>12, <1>15

LEMMA RestRead ==
  ASSUME SeriesTypeOK, NEW r \in SeriesRuns, FetchRest(r)
  PROVE  \E q \in Turns, p \in Turns :
            /\ Advances(r, q, p) /\ q.pc = "rest" /\ p.pc = "stage"
            /\ p.row = q.row /\ p.was = q.was /\ p.hidden = q.hidden /\ p.stale = q.stale
            /\ p.warned <=> \E e \in q.got : e[1] \in odd
            /\ p.got = {e \in q.got : e[1] \notin odd}
            /\ p.next.all = q.next.all /\ (p.next.allDone => q.next.allDone)
            /\ p.next.recent = q.next.recent /\ p.next.mark = q.next.mark
            /\ p.next.sweep = q.next.sweep
<1>1. PICK q \in Turns : q = turn[r] /\ q.pc = "rest"
  BY SeriesTyped DEF FetchRest
<1>2. q.next \in Checkpoints /\ q.next.allDone \in BOOLEAN /\ q.got \subseteq Sales \X Hours
  BY TurnTyped, CheckpointTyped
<1>3. PICK done \in BOOLEAN, covered \in BOOLEAN :
        turn' = [turn EXCEPT ![r].pc = "stage",
                 ![r].next.restDone = done,
                 ![r].next.allDone = @ /\ covered,
                 ![r].warned = \E e \in turn[r].got : e[1] \in odd,
                 ![r].got = {e \in @ : e[1] \notin odd}]
  BY DEF FetchRest
<1>4. PICK got : got = {e \in q.got : e[1] \notin odd} OBVIOUS
<1>5. PICK warned \in BOOLEAN : warned = \E e \in q.got : e[1] \in odd OBVIOUS
<1>6. PICK all \in BOOLEAN : all = (q.next.allDone /\ covered) OBVIOUS
<1>7. PICK n : n = [q.next EXCEPT !.restDone = done, !.allDone = all] OBVIOUS
<1>8. /\ n \in Checkpoints /\ n.all = q.next.all /\ n.allDone = all
      /\ n.recent = q.next.recent /\ n.mark = q.next.mark /\ n.sweep = q.next.sweep
  BY <1>2, <1>7 DEF Checkpoints
<1>9. got \subseteq Sales \X Hours BY <1>2, <1>4
<1>10. PICK p : p = [q EXCEPT !.pc = "stage", !.got = got, !.next = n, !.warned = warned] OBVIOUS
<1>11. /\ p \in Turns /\ p.pc = "stage" /\ p.got = got /\ p.next = n /\ p.row = q.row
       /\ p.was = q.was /\ p.warned = warned /\ p.hidden = q.hidden /\ p.stale = q.stale
  BY <1>8, <1>9, <1>10 DEF Turns
<1>12. turn' = [turn EXCEPT ![r].pc = "stage", ![r].next.restDone = done,
                            ![r].next.allDone = all, ![r].warned = warned, ![r].got = got]
  BY <1>1, <1>3, <1>4, <1>5, <1>6, SeriesTyped
<1>13. turn' = [turn EXCEPT ![r] = p]
  <2>1. turn \in [SeriesRuns -> {Unstarted} \cup Turns] BY SeriesTyped
  <2>2. turn'[r] = p BY <1>1, <1>7, <1>10, <1>12, <2>1 DEF Turns, Checkpoints
  <2>3. \A x \in SeriesRuns \ {r} : turn'[x] = turn[x] BY <1>12, <2>1
  <2>4. turn' = [x \in SeriesRuns |-> turn'[x]] BY <1>12, <2>1
  <2> QED BY <2>1, <2>2, <2>3, <2>4
<1>14. Advances(r, q, p) BY <1>1, <1>11, <1>13 DEF Advances
<1> QED BY <1>1, <1>4, <1>5, <1>6, <1>8, <1>11, <1>14

\* A run that ends leaves the others as they are.
LEMMA TurnsTyped ==
  ASSUME SeriesTypeOK, NEW r \in SeriesRuns, NEW p \in {Unstarted} \cup Turns,
         turn' = [turn EXCEPT ![r] = p]
  PROVE  /\ turn' \in [SeriesRuns -> {Unstarted} \cup Turns] /\ turn'[r] = p
         /\ \A z \in SeriesRuns \ {r} : turn'[z] = turn[z]
BY SeriesTyped

\* The run's turn is over.
LEMMA TurnEnds ==
  ASSUME SeriesTypeOK, NEW r \in SeriesRuns, turn' = [turn EXCEPT ![r] = Unstarted]
  PROVE  /\ turn' \in [SeriesRuns -> {Unstarted} \cup Turns] /\ turn'[r] = Unstarted
         /\ \A z \in SeriesRuns \ {r} : turn'[z] = turn[z]
<1>1. PICK p : p = Unstarted OBVIOUS
<1> QED BY <1>1, TurnsTyped

LEMMA WorldTyped ==
  ASSUME SeriesTypeOK,
         \/ \E s \in Sales : Change(s)
         \/ PutRight \/ HourPasses \/ Exclude \/ Authorize \/ ShopLeaseExpires
  PROVE  SeriesTypeOK'
<1>1. ASSUME NEW s \in Sales, Change(s) PROVE SeriesTypeOK'
  <2>1. changed' \in [Sales -> 0..hour] BY <1>1, SeriesTyped DEF Change
  <2> QED BY <1>1, <2>1, SeriesTyped DEF Change, SeriesTypeOK
<1>2. CASE PutRight BY <1>2, SeriesTyped DEF PutRight, SeriesTypeOK
<1>3. CASE HourPasses
  <2>1. hour' \in Hours /\ hour' = hour + 1
    BY <1>3, SeriesTyped, SeriesAssumption DEF HourPasses, Hours
  <2>2. changed \in [Sales -> 0..hour'] BY <2>1, SeriesTyped
  <2> QED BY <1>3, <2>1, <2>2, SeriesTyped DEF HourPasses, SeriesTypeOK
<1>4. CASE Exclude BY <1>4, SeriesTyped DEF Exclude, SeriesTypeOK
<1>5. CASE Authorize BY <1>5, SeriesTyped DEF Authorize, SeriesTypeOK
<1>6. CASE ShopLeaseExpires BY <1>6, SeriesTyped DEF ShopLeaseExpires, SeriesTypeOK
<1> QED BY <1>1, <1>2, <1>3, <1>4, <1>5, <1>6

LEMMA ReadShopIs ==
  ASSUME SeriesTypeOK, NEW r \in SeriesRuns, ReadShop(r)
  PROVE  \E p \in Turns :
            /\ turn' = [turn EXCEPT ![r] = p] /\ p.pc = "read" /\ p.row = RowOf(shop)
            /\ p.was = shop.cursor /\ p.next = shop.cursor /\ p.got = {}
            /\ ~p.warned /\ ~p.hidden
<1>1. PICK p : p = [pc |-> "read", row |-> RowOf(shop), was |-> shop.cursor,
                    next |-> shop.cursor, got |-> {}, warned |-> FALSE, hidden |-> FALSE,
                    stale |-> FALSE]
  OBVIOUS
<1>2. p \in Turns BY <1>1, SeriesTyped DEF Turns, RowOf
<1> QED BY <1>1, <1>2 DEF ReadShop

\* Steps that only move the step of the run.
LEMMA StepMoves ==
  ASSUME SeriesTypeOK, NEW r \in SeriesRuns,
         StageSales(r) \/ DeleteDays(r) \/ InsertDays(r)
  PROVE  \E q \in Turns, p \in Turns :
            /\ Advances(r, q, p) /\ p.row = q.row /\ p.was = q.was /\ p.next = q.next
            /\ p.got = q.got /\ p.warned = q.warned /\ p.hidden = q.hidden /\ p.stale = q.stale
            /\ StageSales(r) => q.pc = "stage" /\ p.pc = IF ~Publishes(r) THEN "save"
                                      ELSE IF turn[r].row.status = "approved" THEN "hide"
                                      ELSE "delete"
            /\ DeleteDays(r) => q.pc = "delete" /\ p.pc = "insert"
            /\ InsertDays(r) => q.pc = "insert" /\ p.pc = "save"
<1>1. PICK q : q = turn[r] OBVIOUS
<1>p. /\ StageSales(r) => q.pc = "stage"
      /\ DeleteDays(r) => q.pc = "delete"
      /\ InsertDays(r) => q.pc = "insert"
  BY <1>1 DEF StageSales, DeleteDays, InsertDays
<1>t. ASSUME NEW to \in {"hide", "delete", "insert", "save"}, q \in Turns,
             turn' = [turn EXCEPT ![r].pc = to]
      PROVE  \E p \in Turns :
                /\ Advances(r, q, p) /\ p.row = q.row /\ p.was = q.was /\ p.next = q.next
                /\ p.got = q.got /\ p.warned = q.warned /\ p.hidden = q.hidden
                /\ p.stale = q.stale /\ p.pc = to
  <2>1. PICK z \in Turns, p \in Turns :
           /\ Advances(r, z, p) /\ p.pc = to /\ p.row = z.row /\ p.was = z.was /\ p.next = z.next
           /\ p.got = z.got /\ p.warned = z.warned /\ p.hidden = z.hidden /\ p.stale = z.stale
    BY <1>1, <1>t, TurnGoes
  <2>2. z = q BY <1>1, <2>1 DEF Advances
  <2> QED BY <2>1, <2>2
<1>3. CASE StageSales(r)
  <2>1. PICK to \in {"save", "hide", "delete"} :
          to = IF ~Publishes(r) THEN "save"
               ELSE IF turn[r].row.status = "approved" THEN "hide" ELSE "delete"
    OBVIOUS
  <2>2. turn' = [turn EXCEPT ![r].pc = to] /\ q.pc = "stage" /\ q \in Turns
    BY <1>1, <1>3, <2>1, SeriesTyped DEF StageSales
  <2> QED BY <1>p, <1>t, <2>1, <2>2
<1>4. CASE DeleteDays(r)
  <2>1. turn' = [turn EXCEPT ![r].pc = "insert"] /\ q.pc = "delete" /\ q \in Turns
    BY <1>1, <1>4, SeriesTyped DEF DeleteDays
  <2> QED BY <1>p, <1>t, <2>1
<1>5. CASE InsertDays(r)
  <2>1. turn' = [turn EXCEPT ![r].pc = "save"] /\ q.pc = "insert" /\ q \in Turns
    BY <1>1, <1>5, SeriesTyped DEF InsertDays
  <2> QED BY <1>p, <1>t, <2>1
<1> QED BY <1>3, <1>4, <1>5

\* The lease is taken, of the row that was read or of another.
LEMMA LeaseIs ==
  ASSUME SeriesTypeOK, NEW r \in SeriesRuns, LeaseShop(r), ~shop.live
  PROVE  \E q \in Turns, p \in Turns :
            /\ Advances(r, q, p) /\ p.row = q.row /\ p.was = q.was /\ p.next = q.next
            /\ p.got = q.got /\ p.warned = q.warned /\ p.hidden = q.hidden
            /\ p.stale <=> q.row # RowOf(shop)
            /\ q.pc = "read" /\ p.pc = "history"
<1>1. PICK q \in Turns : q = turn[r] /\ q.pc = "read" BY SeriesTyped DEF LeaseShop
<1>2. PICK s \in BOOLEAN : s = (q.row # RowOf(shop)) OBVIOUS
<1>3. PICK p : p = [q EXCEPT !.pc = "history", !.stale = s] OBVIOUS
<1>4. /\ p \in Turns /\ p.pc = "history" /\ p.row = q.row /\ p.was = q.was /\ p.next = q.next
      /\ p.got = q.got /\ p.warned = q.warned /\ p.hidden = q.hidden /\ p.stale = s
  BY <1>3 DEF Turns
<1>5. turn' = [turn EXCEPT ![r].pc = "history", ![r].stale = s]
  BY <1>1, <1>2 DEF LeaseShop
<1>6. turn' = [turn EXCEPT ![r] = p] BY <1>1, <1>3, <1>5, SeriesTyped
<1> QED BY <1>1, <1>2, <1>4, <1>6 DEF Advances

LEMMA HideIs ==
  ASSUME SeriesTypeOK, NEW r \in SeriesRuns, HideSource(r)
  PROVE  \E q \in Turns, p \in Turns :
            /\ Advances(r, q, p) /\ p.row = q.row /\ p.was = q.was /\ p.next = q.next
            /\ p.got = q.got /\ p.warned = q.warned /\ p.hidden /\ p.stale = q.stale
            /\ q.pc = "hide" /\ p.pc = "delete"
<1>1. PICK q \in Turns : q = turn[r] /\ q.pc = "hide" BY SeriesTyped DEF HideSource
<1>2. PICK p : p = [q EXCEPT !.pc = "delete", !.hidden = TRUE] OBVIOUS
<1>3. /\ p \in Turns /\ p.pc = "delete" /\ p.row = q.row /\ p.was = q.was /\ p.next = q.next
      /\ p.got = q.got /\ p.warned = q.warned /\ p.hidden /\ p.stale = q.stale
  BY <1>2 DEF Turns
<1>4. turn' = [turn EXCEPT ![r] = p]
  BY <1>1, <1>2, SeriesTyped DEF HideSource
<1> QED BY <1>1, <1>3, <1>4 DEF Advances

\* What a run stages is the newest it knows of.
LEMMA StagedIs ==
  ASSUME SeriesTypeOK, NEW r \in SeriesRuns, StageSales(r)
  PROVE  /\ kept' \in [Sales -> Hours]
         /\ \A s \in Sales :
               /\ kept[s] <= kept'[s]
               /\ \A v \in Hours : << s, v >> \in turn[r].got => v <= kept'[s]
               /\ kept'[s] = kept[s] \/ << s, kept'[s] >> \in turn[r].got
<1>1. kept' = [s \in Sales |-> Max({kept[s]} \cup {v \in Hours : << s, v >> \in turn[r].got})]
  BY DEF StageSales
<1>2. ASSUME NEW s \in Sales
      PROVE  /\ kept'[s] \in Hours /\ kept[s] <= kept'[s]
             /\ \A v \in Hours : << s, v >> \in turn[r].got => v <= kept'[s]
             /\ kept'[s] = kept[s] \/ << s, kept'[s] >> \in turn[r].got
  <2> DEFINE S == {kept[s]} \cup {v \in Hours : << s, v >> \in turn[r].got}
  <2>1. kept[s] \in Hours BY SeriesTyped
  <2>2. S \subseteq 0..LastHour /\ S # {} /\ LastHour \in Nat
    BY <2>1, SeriesAssumption DEF Hours
  <2>3. Max(S) \in S /\ \A x \in S : x <= Max(S) BY <2>2, MaxIs
  <2>4. kept'[s] = Max(S) BY <1>1
  <2> HIDE DEF S
  <2>5. kept'[s] \in S /\ \A x \in S : x <= kept'[s] BY <2>3, <2>4
  <2> QED BY <2>1, <2>5 DEF S
<1> QED BY <1>1, <1>2

LEMMA NextCheckpointTyped ==
  ASSUME SeriesTypeOK, NEW r \in SeriesRuns, turn[r] \in Turns
  PROVE  NextCheckpoint(r) \in Checkpoints
<1>1. PICK next \in Checkpoints : next = turn[r].next BY TurnTyped
<1>2. NoChain \in Chains BY SeriesAssumption DEF NoChain, Chains, Hours
<1>3. [NoCheckpoint EXCEPT !.mark = hour, !.sweep = next.sweep] \in Checkpoints
  BY <1>1, <1>2, SeriesTyped, CheckpointTyped DEF NoCheckpoint, Checkpoints
<1> QED BY <1>1, <1>3 DEF NextCheckpoint

LEMMA SeriesTypeStep ==
  ASSUME SeriesTypeOK, [SeriesNext]_seriesVars
  PROVE  SeriesTypeOK'
<1>1. CASE UNCHANGED seriesVars BY <1>1 DEF seriesVars, SeriesTypeOK, Renewed
<1>2. ASSUME NEW r \in SeriesRuns, ReadShop(r) PROVE SeriesTypeOK'
  BY <1>2, ReadShopIs, TurnsTyped, SeriesTyped, ZenonT(60) DEF ReadShop, SeriesTypeOK
<1>3. ASSUME NEW r \in SeriesRuns, LeaseShop(r) PROVE SeriesTypeOK'
  <2>1. CASE shop.live
    BY <1>3, <2>1, TurnEnds, SeriesTyped DEF LeaseShop, SeriesTypeOK
  <2>2. CASE ~shop.live
    <3>1. turn' \in [SeriesRuns -> {Unstarted} \cup Turns]
      BY <1>3, <2>2, LeaseIs, TurnsTyped DEF Advances
    <3> QED BY <1>3, <2>2, <3>1, SeriesTyped, SeriesAssumption DEF LeaseShop, SeriesTypeOK
  <2> QED BY <2>1, <2>2
<1>4. ASSUME NEW r \in SeriesRuns, FetchHistory(r) \/ FetchRecent(r) \/ FetchRest(r)
      PROVE  SeriesTypeOK'
  <2>1. turn' \in [SeriesRuns -> {Unstarted} \cup Turns]
    BY <1>4, HistoryRead, RecentRead, RestRead, TurnsTyped DEF Advances
  <2>2. UNCHANGED << hour, changed, odd, shop, kept, days, exposed, missed >>
    BY <1>4 DEF FetchHistory, FetchRecent, FetchRest
  <2> QED BY <2>1, <2>2, SeriesTyped DEF SeriesTypeOK
<1>5. ASSUME NEW r \in SeriesRuns, StageSales(r) PROVE SeriesTypeOK'
  <2>1. turn' \in [SeriesRuns -> {Unstarted} \cup Turns]
    BY <1>5, StepMoves, TurnsTyped DEF Advances
  <2> QED BY <1>5, <2>1, StagedIs, SeriesTyped DEF StageSales, SeriesTypeOK
<1>6. ASSUME NEW r \in SeriesRuns, HideSource(r) PROVE SeriesTypeOK'
  <2>1. turn' \in [SeriesRuns -> {Unstarted} \cup Turns]
    BY <1>6, HideIs, TurnsTyped DEF Advances
  <2> QED BY <1>6, <2>1, SeriesTyped DEF HideSource, SeriesTypeOK
<1>7. ASSUME NEW r \in SeriesRuns, DeleteDays(r) \/ InsertDays(r) PROVE SeriesTypeOK'
  <2>1. turn' \in [SeriesRuns -> {Unstarted} \cup Turns]
    BY <1>7, StepMoves, TurnsTyped DEF Advances
  <2>2. exposed' \in BOOLEAN
    <3>1. turn[r] \in Turns BY <1>7, SeriesTyped DEF DeleteDays, InsertDays
    <3> QED BY <1>7, <3>1, TurnTyped DEF DeleteDays, InsertDays
  <2> QED BY <1>7, <2>1, <2>2, SeriesTyped DEF DeleteDays, InsertDays, SeriesTypeOK
<1>8. ASSUME NEW r \in SeriesRuns, SaveShop(r) PROVE SeriesTypeOK'
  <2>1. /\ turn' = [turn EXCEPT ![r] = Unstarted] /\ turn[r].pc = "save"
        /\ UNCHANGED << hour, changed, odd, kept, days >>
    BY <1>8 DEF SaveShop
  <2>2. PICK q \in Turns : q = turn[r] BY <2>1, SeriesTyped
  <2>3. NextCheckpoint(r) \in Checkpoints BY <2>2, NextCheckpointTyped
  <2>4. shop' \in [owner : SeriesRuns \cup {NoSeries}, live : BOOLEAN,
                    status : {"staging", "approved"}, authorized : BOOLEAN,
                    reviewable : BOOLEAN, cursor : Checkpoints] /\ ~shop'.live
    <3>1. PICK approved \in BOOLEAN : approved = (Publishes(r) \/ q.row.status = "approved")
      OBVIOUS
    <3>2. PICK c \in Checkpoints : c = IF q.warned THEN q.was ELSE NextCheckpoint(r)
      BY <2>3, TurnTyped
    <3>3. q.row.authorized \in BOOLEAN /\ q.warned \in BOOLEAN BY TurnTyped
    <3>4. shop' = [owner |-> NoSeries, live |-> FALSE,
                   status |-> IF approved THEN "approved" ELSE "staging",
                   authorized |-> ~approved /\ q.row.authorized,
                   reviewable |-> ~q.warned, cursor |-> c]
      BY <1>8, <2>2, <3>1, <3>2 DEF SaveShop
    <3> QED BY <3>3, <3>4
  <2>5. turn' \in [SeriesRuns -> {Unstarted} \cup Turns] BY <2>1, TurnEnds
  <2>6. exposed' \in BOOLEAN /\ missed' \subseteq Hours
    BY <1>8, <2>2, SeriesTyped, TurnTyped DEF SaveShop, StillExposed, Skipped
  <2> QED BY <2>1, <2>4, <2>5, <2>6, SeriesTyped DEF SeriesTypeOK
<1>9. ASSUME NEW r \in SeriesRuns, FailTurn(r) \/ DropTurn(r) PROVE SeriesTypeOK'
  <2>1. /\ turn' = [turn EXCEPT ![r] = Unstarted] /\ turn[r].pc # "idle"
        /\ UNCHANGED << hour, changed, odd, kept, days >>
    BY <1>9, SeriesTyped DEF FailTurn, DropTurn, Turns
  <2>2. PICK q \in Turns : q = turn[r] BY <2>1, SeriesTyped
  <2>3. shop' \in [owner : SeriesRuns \cup {NoSeries}, live : BOOLEAN,
                    status : {"staging", "approved"}, authorized : BOOLEAN,
                    reviewable : BOOLEAN, cursor : Checkpoints]
        /\ (shop'.live => shop'.owner # NoSeries)
    <3>1. CASE FailTurn(r) /\ shop.owner = r
      <4>1. PICK status \in {"staging", "approved"}, a \in BOOLEAN :
              /\ status = IF q.hidden THEN "staging" ELSE q.row.status
              /\ a = (q.hidden \/ q.row.authorized)
        BY TurnTyped
      <4>2. shop' = [shop EXCEPT !.owner = NoSeries, !.live = FALSE, !.reviewable = FALSE,
                                 !.status = status, !.authorized = a]
        BY <2>2, <3>1, <4>1 DEF FailTurn
      <4> QED BY <4>2, SeriesTyped
    <3>2. CASE UNCHANGED shop BY <3>2, SeriesTyped
    <3> QED BY <1>9, <3>1, <3>2 DEF FailTurn, DropTurn
  <2>4. turn' \in [SeriesRuns -> {Unstarted} \cup Turns] BY <2>1, TurnEnds
  <2>5. exposed' \in BOOLEAN /\ missed' \subseteq Hours
    BY <1>9, SeriesTyped DEF FailTurn, DropTurn, StillExposed
  <2> QED BY <2>1, <2>3, <2>4, <2>5, SeriesTyped DEF SeriesTypeOK
<1> QED BY <1>1, <1>2, <1>3, <1>4, <1>5, <1>6, <1>7, <1>8, <1>9, WorldTyped DEF SeriesNext
-----------------------------------------------------------------------------
(* The gate.                                                                *)

\* The world, or a run that has no business with the row, moves.
LEMMA GateOthers ==
  ASSUME GateInv, NEW z \in SeriesRuns, NEW p \in Turns, turn[z] = p,
         \/ shop'.owner # z
         \/ /\ UNCHANGED << days, exposed >> /\ shop'.owner \in {shop.owner, NoSeries}
            /\ shop'.status \in {shop.status, "staging"}
  PROVE  GateFits(z, p)'
<1>1. GateFits(z, p) /\ z # NoSeries BY SeriesAssumption DEF GateInv
<1> QED BY <1>1 DEF GateFits, Publishing

LEMMA GateWorld ==
  ASSUME GateInv, UNCHANGED << turn, days, exposed >>, shop'.owner \in {shop.owner, NoSeries},
         shop'.status \in {shop.status, "staging"}, SeriesTypeOK'
  PROVE  GateInv'
<1>1. ASSUME NEW z \in SeriesRuns, NEW p \in Turns, turn'[z] = p PROVE GateFits(z, p)'
  BY <1>1, GateOthers
<1>2. GateIsClosed' BY DEF GateIsClosed, GateInv
<1> QED BY <1>1, <1>2 DEF GateInv

LEMMA GateTurn ==
  ASSUME GateInv, NEW r \in SeriesRuns, NEW p, turn' = [turn EXCEPT ![r] = p],
         p = Unstarted \/ (p \in Turns /\ GateFits(r, p)'),
         \/ shop'.owner \in {r, NoSeries}
         \/ UNCHANGED << shop, days, exposed >>,
         SeriesTypeOK', GateIsClosed'
  PROVE  GateInv'
<1>1. ASSUME NEW z \in SeriesRuns, NEW q \in Turns, turn'[z] = q PROVE GateFits(z, q)'
  <2>1. SeriesTypeOK /\ Unstarted \notin Turns /\ NoSeries \notin SeriesRuns
    BY SeriesTyped, SeriesAssumption DEF GateInv
  <2>2. CASE z = r BY <1>1, <2>1, <2>2, TurnsTyped
  <2>3. CASE z # r
    <3>1. turn[z] = q BY <1>1, <2>1, <2>3, TurnsTyped
    <3> QED BY <2>1, <2>3, <3>1, GateOthers
  <2> QED BY <2>2, <2>3
<1> QED BY <1>1 DEF GateInv

\* Under a lease that is the run's own, only the run touches the row and the days.
LEMMA GateStep ==
  ASSUME GateInv, [SeriesNext]_seriesVars
  PROVE  GateInv'
<1>0. /\ SeriesTypeOK /\ SeriesTypeOK' /\ GateIsClosed /\ Unstarted \notin Turns
      /\ NoSeries \notin SeriesRuns
      /\ \A r \in SeriesRuns : turn[r] \in Turns => GateFits(r, turn[r])
  BY SeriesTypeStep, SeriesTyped, SeriesAssumption DEF GateInv
<1>1. CASE UNCHANGED seriesVars BY <1>0, <1>1, GateWorld DEF seriesVars
<1>2. CASE \/ \E s \in Sales : Change(s)
           \/ PutRight \/ HourPasses \/ Exclude \/ Authorize \/ ShopLeaseExpires
  <2>1. /\ UNCHANGED << turn, days, exposed >> /\ shop'.owner \in {shop.owner, NoSeries}
        /\ shop'.status \in {shop.status, "staging"}
    BY <1>0, <1>2, SeriesTyped
    DEF Change, PutRight, HourPasses, Exclude, Authorize, ShopLeaseExpires
  <2> QED BY <1>0, <2>1, GateWorld
<1>3. ASSUME NEW r \in SeriesRuns, ReadShop(r) PROVE GateInv'
  <2>1. PICK p \in Turns : turn' = [turn EXCEPT ![r] = p] /\ p.pc = "read" /\ ~p.hidden
    BY <1>0, <1>3, ReadShopIs
  <2>2. GateFits(r, p)' BY <2>1 DEF GateFits
  <2>3. UNCHANGED << shop, days, exposed >> BY <1>3 DEF ReadShop
  <2> QED BY <1>0, <2>1, <2>2, <2>3, GateTurn DEF GateIsClosed
<1>4. ASSUME NEW r \in SeriesRuns, LeaseShop(r) PROVE GateInv'
  <2>1. CASE shop.live
    <3>1. PICK p : p = Unstarted OBVIOUS
    <3>2. turn' = [turn EXCEPT ![r] = p] /\ UNCHANGED << shop, days, exposed >>
      BY <1>4, <2>1, <3>1 DEF LeaseShop
    <3> QED BY <1>0, <3>1, <3>2, GateTurn DEF GateIsClosed
  <2>2. CASE ~shop.live
    <3>1. PICK q \in Turns, p \in Turns :
            /\ Advances(r, q, p) /\ p.row = q.row /\ p.hidden = q.hidden
            /\ p.stale <=> q.row # RowOf(shop)
            /\ q.pc = "read" /\ p.pc = "history"
      BY <1>0, <1>4, <2>2, LeaseIs
    <3>2. /\ shop' = [shop EXCEPT !.owner = r, !.live = TRUE] /\ UNCHANGED << days, exposed >>
          /\ ~q.hidden
      BY <1>0, <1>4, <2>2, <3>1 DEF LeaseShop, Advances, GateFits
    <3>3. /\ ~p.stale => q.row.status = shop.status
          /\ shop'.status = shop.status /\ shop'.owner = r
      BY <1>0, <3>1, <3>2, SeriesTyped DEF RowOf
    <3>4. GateFits(r, p)' BY <1>0, <3>1, <3>2, <3>3 DEF GateFits, GateIsClosed
    <3>5. GateIsClosed' BY <1>0, <3>2, <3>3 DEF GateIsClosed
    <3> QED BY <1>0, <3>1, <3>3, <3>4, <3>5, GateTurn DEF Advances
  <2> QED BY <2>1, <2>2
<1>5. ASSUME NEW r \in SeriesRuns, FetchHistory(r) \/ FetchRecent(r) \/ FetchRest(r)
      PROVE  GateInv'
  <2>1. PICK q \in Turns, p \in Turns :
          /\ Advances(r, q, p) /\ p.row = q.row /\ p.hidden = q.hidden /\ p.stale = q.stale
          /\ q.pc \in {"history", "recent", "rest"} /\ p.pc \in {"recent", "rest", "stage"}
    BY <1>0, <1>5, HistoryRead, RecentRead, RestRead
  <2>2. UNCHANGED << shop, days, exposed >> BY <1>5 DEF FetchHistory, FetchRecent, FetchRest
  <2>3. GateFits(r, q) BY <1>0, <2>1 DEF Advances
  <2>4. GateFits(r, p)' BY <2>1, <2>2, <2>3 DEF GateFits
  <2> QED BY <1>0, <2>1, <2>2, <2>4, GateTurn DEF Advances, GateIsClosed
<1>6. ASSUME NEW r \in SeriesRuns, StageSales(r) PROVE GateInv'
  <2>1. PICK q \in Turns, p \in Turns :
          /\ Advances(r, q, p) /\ p.row = q.row /\ p.hidden = q.hidden /\ p.warned = q.warned
          /\ p.stale = q.stale
          /\ q.pc = "stage" /\ p.pc = IF ~Publishes(r) THEN "save"
                                      ELSE IF turn[r].row.status = "approved" THEN "hide"
                                      ELSE "delete"
    BY <1>0, <1>6, StepMoves
  <2>2. UNCHANGED << shop, days, exposed >> BY <1>6 DEF StageSales
  <2>3. GateFits(r, q) /\ q = turn[r] BY <1>0, <2>1 DEF Advances
  <2>4. Publishes(r) <=> Publishing(p) BY <2>1, <2>3 DEF Publishes, Publishing
  <2>5. p.row.status \in {"approved", "staging"} /\ shop.status \in {"approved", "staging"}
    BY <1>0, TurnTyped, SeriesTyped
  <2>6. GateFits(r, p)' BY <2>1, <2>2, <2>3, <2>4, <2>5 DEF GateFits, Publishing
  <2> QED BY <1>0, <2>1, <2>2, <2>6, GateTurn DEF Advances, GateIsClosed
<1>7. ASSUME NEW r \in SeriesRuns, HideSource(r) PROVE GateInv'
  <2>1. PICK q \in Turns, p \in Turns :
          /\ Advances(r, q, p) /\ p.row = q.row /\ p.warned = q.warned /\ p.hidden
          /\ p.stale = q.stale
          /\ q.pc = "hide" /\ p.pc = "delete"
    BY <1>0, <1>7, HideIs
  <2>2. /\ shop.owner = r /\ UNCHANGED << days, exposed >>
        /\ shop' = [shop EXCEPT !.status = "staging", !.authorized = TRUE]
    BY <1>7 DEF HideSource
  <2>3. shop'.owner = r /\ shop'.status = "staging" BY <1>0, <2>2, SeriesTyped
  <2>4. GateFits(r, q) BY <1>0, <2>1 DEF Advances
  <2>5. Publishing(p) BY <2>1, <2>2, <2>4 DEF GateFits, Publishing
  <2>6. GateFits(r, p)' BY <2>1, <2>3, <2>5 DEF GateFits, Publishing
  <2>7. GateIsClosed' BY <2>3 DEF GateIsClosed
  <2> QED BY <1>0, <2>1, <2>3, <2>6, <2>7, GateTurn DEF Advances
<1>8. ASSUME NEW r \in SeriesRuns, DeleteDays(r) \/ InsertDays(r) PROVE GateInv'
  <2>1. PICK q \in Turns, p \in Turns :
          /\ Advances(r, q, p) /\ p.row = q.row /\ p.hidden = q.hidden /\ p.warned = q.warned
          /\ p.stale = q.stale
          /\ DeleteDays(r) => q.pc = "delete" /\ p.pc = "insert"
          /\ InsertDays(r) => q.pc = "insert" /\ p.pc = "save"
    BY <1>0, <1>8, StepMoves
  <2>2. /\ shop.owner = r /\ UNCHANGED shop
        /\ InsertDays(r) => days' = "whole"
        /\ DeleteDays(r) => exposed' = (turn[r].stale /\ shop.status = "approved")
    BY <1>8 DEF DeleteDays, InsertDays, Renewed
  <2>3. GateFits(r, q) /\ q = turn[r] BY <1>0, <2>1 DEF Advances
  <2>4. /\ ~p.stale => shop.status = "staging" /\ (p.row.status = "approved" => p.hidden)
        /\ Publishing(p)
    BY <1>8, <2>1, <2>2, <2>3 DEF GateFits, Publishing
  <2>5. GateFits(r, p)' BY <1>8, <2>1, <2>2, <2>4 DEF GateFits, Publishing
  <2>6. GateIsClosed'
    <3>1. CASE InsertDays(r) BY <2>2, <3>1 DEF GateIsClosed
    <3>2. CASE DeleteDays(r) BY <2>1, <2>2, <2>3, <2>4, <3>2 DEF GateIsClosed
    <3> QED BY <1>8, <3>1, <3>2
  <2> QED BY <1>0, <2>1, <2>2, <2>5, <2>6, GateTurn DEF Advances
<1>9. ASSUME NEW r \in SeriesRuns, SaveShop(r) PROVE GateInv'
  <2>1. PICK p : p = Unstarted OBVIOUS
  <2>2. /\ turn' = [turn EXCEPT ![r] = p] /\ turn[r].pc = "save" /\ shop.owner = r
        /\ UNCHANGED days
        /\ shop'.owner = NoSeries
        /\ exposed' = StillExposed(r, shop'.status)
        /\ shop'.status = "approved" => Publishes(r) \/ turn[r].row.status = "approved"
    BY <1>9, <2>1 DEF SaveShop, Renewed
  <2>3. turn[r] \in Turns /\ GateFits(r, turn[r]) BY <1>0, <2>2, SeriesTyped
  <2>4. shop'.status = "approved" => days = "whole" \/ exposed \/ turn[r].stale
    <3>1. Publishes(r) <=> Publishing(turn[r]) BY DEF Publishes, Publishing
    <3> QED BY <2>2, <2>3, <3>1 DEF GateFits, Publishing
  <2>5. GateIsClosed' BY <1>0, <2>2, <2>4, SeriesTyped DEF GateIsClosed, StillExposed
  <2> QED BY <1>0, <2>1, <2>2, <2>5, GateTurn
<1>10. ASSUME NEW r \in SeriesRuns, FailTurn(r) \/ DropTurn(r) PROVE GateInv'
  <2>1. PICK p : p = Unstarted OBVIOUS
  <2>2. turn' = [turn EXCEPT ![r] = p] /\ UNCHANGED days
    BY <1>10, <2>1 DEF FailTurn, DropTurn
  <2>3. CASE FailTurn(r) /\ shop.owner = r
    <3>1. turn[r].pc \notin {"idle", "read"} BY <2>3 DEF FailTurn
    <3>2. turn[r] \in Turns /\ GateFits(r, turn[r]) BY <1>0, <3>1, SeriesTyped
    <3>3. /\ shop'.owner = NoSeries
          /\ shop'.status = IF turn[r].hidden THEN "staging" ELSE turn[r].row.status
          /\ exposed' = StillExposed(r, shop'.status)
      BY <1>0, <2>3, SeriesTyped DEF FailTurn
    <3>5. shop'.status = "approved" => days = "whole" \/ exposed \/ turn[r].stale
      BY <2>3, <3>1, <3>2, <3>3 DEF GateFits
    <3>4. GateIsClosed' BY <1>0, <2>2, <3>3, <3>5, SeriesTyped DEF GateIsClosed, StillExposed
    <3> QED BY <1>0, <2>1, <2>2, <3>3, <3>4, GateTurn
  <2>4. CASE UNCHANGED << shop, exposed >>
    BY <1>0, <2>1, <2>2, <2>4, GateTurn DEF GateIsClosed
  <2> QED BY <1>10, <2>3, <2>4 DEF FailTurn, DropTurn
<1> QED BY <1>1, <1>2, <1>3, <1>4, <1>5, <1>6, <1>7, <1>8, <1>9, <1>10 DEF SeriesNext

LEMMA GateStart == SeriesInit => GateInv
<1> SUFFICES ASSUME SeriesInit PROVE GateInv
  OBVIOUS
<1>1. NoChain \in Chains BY SeriesAssumption DEF NoChain, Chains, Hours
<1>2. NoCheckpoint \in Checkpoints
  BY <1>1, SeriesAssumption DEF NoCheckpoint, Checkpoints, Hours
<1>h. exposed \in BOOLEAN /\ missed \subseteq Hours BY DEF SeriesInit
<1>s. hour \in Hours /\ changed \in [Sales -> 0..hour] /\ odd \subseteq Sales
      /\ kept \in [Sales -> Hours] /\ days \in {"whole", "partial"}
  BY SeriesAssumption DEF SeriesInit, Hours, Sales
<1>3. SeriesTypeOK
  BY <1>2, <1>h, <1>s, SeriesAssumption DEF SeriesInit, SeriesTypeOK
<1>4. Unstarted \notin Turns BY DEF Unstarted, Turns
<1>5. GateIsClosed BY DEF SeriesInit, GateIsClosed
<1> QED BY <1>3, <1>4, <1>5 DEF SeriesInit, GateInv
-----------------------------------------------------------------------------
(* The sales.                                                               *)

\* Sales only get newer, and what is staged only comes nearer to the newest.
Onward ==
    /\ hour <= hour' /\ missed \subseteq missed'
    /\ \A s \in Sales :
          \/ changed'[s] = hour
          \/ changed'[s] = changed[s] /\ (kept[s] = changed[s] => kept'[s] = changed[s])

\* A sale that changes now is one of the hour, and the hour is not behind the
\* sweep: so whatever a cursor promised, it promises still.
LEMMA ComesStays ==
  ASSUME SeriesTypeOK, Onward, NEW c, c.sweep <= hour, NEW got, NEW lost,
         ComesToAll(c, got, lost)
  PROVE  ComesToAll(c, got, lost)'
<1> SUFFICES ASSUME NEW s \in Sales, changed'[s] # 0 PROVE Comes(c, got, lost, s)'
  BY DEF ComesToAll
<1>1. CASE changed'[s] = hour BY <1>1, SeriesTyped DEF Comes
<1>2. CASE changed'[s] = changed[s] /\ (kept[s] = changed[s] => kept'[s] = changed[s])
  <2>1. Comes(c, got, lost, s) BY <1>2 DEF ComesToAll
  <2>2. \A d : s \in AheadOf(d)' <=> s \in AheadOf(d) BY <1>2 DEF AheadOf
  <2>3. missed \subseteq missed' BY DEF Onward
  <2> QED BY <1>2, <2>1, <2>2, <2>3 DEF Comes
<1> QED BY <1>1, <1>2 DEF Onward

LEMMA HonestStays ==
  ASSUME SeriesTypeOK, SeriesTypeOK', Onward, NEW c \in Checkpoints, Honest(c)
  PROVE  Honest(c)'
<1>1. c.sweep \in Nat /\ hour \in Nat /\ hour' \in Nat
  BY CheckpointTyped, SeriesAssumption DEF SeriesTypeOK, Hours
<1> QED BY <1>1, ComesStays DEF Honest, Onward

LEMMA FitsStays ==
  ASSUME SeriesTypeOK, SeriesTypeOK', Onward, NEW p \in Turns, SaleFits(p)
  PROVE  SaleFits(p)'
<1>1. /\ p.was \in Checkpoints /\ p.next \in Checkpoints /\ p.next.sweep \in Nat
      /\ hour \in Nat /\ hour' \in Nat
  BY TurnTyped, CheckpointTyped, SeriesAssumption DEF SeriesTypeOK, Hours
<1>2. Honest(p.was)' BY <1>1, HonestStays DEF SaleFits
<1>3. p.next.sweep <= hour' BY <1>1 DEF SaleFits, Onward
<1>4. ASSUME NEW e \in p.got PROVE e[2] <= changed'[e[1]]
  <2>1. e[1] \in Sales /\ e[2] \in Nat BY SeriesAssumption, TurnTyped DEF Hours
  <2>2. e[2] <= changed[e[1]] BY DEF SaleFits
  <2>3. changed[e[1]] \in Nat /\ changed[e[1]] <= hour BY <2>1, SeriesTyped
  <2>4. changed'[e[1]] \in {hour, changed[e[1]]} BY <2>1 DEF Onward
  <2> QED BY <1>1, <2>1, <2>2, <2>3, <2>4
<1>5. ASSUME NEW got, ComesToAll(p.next, got, Skipped(p.was, p.next))
      PROVE  ComesToAll(p.next, got, Skipped(p.was, p.next))'
  <2>1. PICK lost : lost = Skipped(p.was, p.next) OBVIOUS
  <2>2. ComesToAll(p.next, got, lost)' BY <1>5, <2>1, ComesStays DEF SaleFits
  <2>3. Skipped(p.was, p.next)' = lost BY <2>1 DEF Skipped
  <2> QED BY <2>2, <2>3 DEF ComesToAll, Comes
<1> QED BY <1>2, <1>3, <1>4, <1>5 DEF SaleFits

\* The world goes on.
LEMMA SaleWorld ==
  ASSUME SaleInv,
         \/ UNCHANGED seriesVars
         \/ \E s \in Sales : Change(s)
         \/ PutRight \/ HourPasses \/ Exclude \/ Authorize \/ ShopLeaseExpires,
         SeriesTypeOK'
  PROVE  SaleInv'
<1>1. SeriesTypeOK BY DEF SaleInv
<1>2. UNCHANGED << turn, kept, missed >>
  BY DEF Change, PutRight, HourPasses, Exclude, Authorize, ShopLeaseExpires, seriesVars
<1>3. shop'.cursor = shop.cursor /\ shop.cursor \in Checkpoints
  BY <1>1, SeriesTyped
  DEF Change, PutRight, HourPasses, Exclude, Authorize, ShopLeaseExpires, seriesVars
<1>4. \A s \in Sales : changed'[s] = hour \/ changed'[s] = changed[s]
  <2>1. ASSUME NEW s \in Sales, Change(s) PROVE changed' = [changed EXCEPT ![s] = hour]
    BY <2>1 DEF Change
  <2>2. CASE UNCHANGED changed BY <2>2
  <2> QED
    BY <1>1, <2>1, <2>2, SeriesTyped
    DEF PutRight, HourPasses, Exclude, Authorize, ShopLeaseExpires, seriesVars
<1>5. hour <= hour'
  <2>1. CASE HourPasses BY <1>1, <2>1, SeriesTyped DEF HourPasses
  <2>2. CASE UNCHANGED hour BY <1>1, <2>2, SeriesTyped
  <2> QED
    BY <2>1, <2>2 DEF Change, PutRight, Exclude, Authorize, ShopLeaseExpires, seriesVars
<1>6. Onward BY <1>2, <1>4, <1>5 DEF Onward
<1>7. Honest(shop.cursor)'
  <2>1. PICK c \in Checkpoints : c = shop.cursor BY <1>3
  <2>2. Honest(c)' BY <1>1, <1>6, <2>1, HonestStays DEF SaleInv
  <2> QED BY <1>3, <2>1, <2>2 DEF Honest, ComesToAll, Comes
<1>8. \A s \in Sales : kept'[s] <= changed'[s]
  BY <1>1, <1>2, <1>4, SeriesTyped DEF SaleInv
<1>9. ASSUME NEW r \in SeriesRuns, NEW p \in Turns, turn'[r] = p PROVE SaleFits(p)'
  BY <1>1, <1>2, <1>6, <1>9, FitsStays DEF SaleInv
<1> QED BY <1>7, <1>8, <1>9 DEF SaleInv

\* A run moves; the others know what they knew.
LEMMA SaleTurn ==
  ASSUME SaleInv, Onward, NEW r \in SeriesRuns, NEW p, turn' = [turn EXCEPT ![r] = p],
         p = Unstarted \/ (p \in Turns /\ SaleFits(p)'),
         NEW c \in Checkpoints, shop'.cursor = c, Honest(c)',
         \A s \in Sales : kept'[s] <= changed'[s],
         SeriesTypeOK'
  PROVE  SaleInv'
<1>1. SeriesTypeOK /\ Unstarted \notin Turns BY SeriesTyped DEF SaleInv
<1>2. ASSUME NEW z \in SeriesRuns, NEW q \in Turns, turn'[z] = q PROVE SaleFits(q)'
  <2>1. CASE z = r BY <1>1, <1>2, <2>1, TurnsTyped
  <2>2. CASE z # r
    <3>1. turn[z] = q BY <1>1, <1>2, <2>2, TurnsTyped
    <3> QED BY <1>1, <3>1, FitsStays DEF SaleInv
  <2> QED BY <2>1, <2>2
<1>3. Honest(shop.cursor)' BY DEF Honest, ComesToAll, Comes
<1> QED BY <1>2, <1>3 DEF SaleInv

\* What has been read comes to no less than the cursor it was read with.
LEMMA HistoryComes ==
  ASSUME SaleInv, NEW r \in SeriesRuns, FetchHistory(r)
  PROVE  \E q \in Turns, p \in Turns : Advances(r, q, p) /\ SaleFits(p)
<1>1. PICK q \in Turns, p \in Turns, c \in Chains :
            /\ Advances(r, q, p) /\ q.pc = "history" /\ p.pc = "recent"
            /\ p.row = q.row /\ p.was = q.was /\ p.warned = q.warned /\ p.hidden = q.hidden
            /\ p.stale = q.stale
            /\ c = IF q.was.all # NoChain THEN q.was.all ELSE [after |-> 0, since |-> q.was.mark]
            /\ p.got = IF q.was.allDone THEN {} ELSE PageOf(c)
            /\ p.next.all = IF q.was.allDone THEN NoChain ELSE After(c)
            /\ p.next.allDone <=> q.was.allDone \/ After(c) = NoChain
            /\ p.next.recent = q.next.recent /\ p.next.mark = q.next.mark
            /\ p.next.sweep = q.next.sweep
  BY HistoryRead DEF SaleInv
<1>2. SeriesTypeOK /\ SaleFits(q) BY <1>1 DEF SaleInv, Advances
<1>3. /\ Honest(q.was) /\ q.next = q.was /\ ~q.warned /\ q.next.sweep <= hour
      /\ ComesToAll(q.was, {}, {})
  BY <1>1, <1>2 DEF SaleFits, Honest
<1>4. \A e \in p.got : e[2] <= changed[e[1]]
  <2>1. ASSUME NEW e \in p.got PROVE e[2] <= changed[e[1]]
    <3>1. e \in PageOf(c) BY <1>1, <2>1
    <3>2. e[2] = changed[e[1]] /\ e[1] \in Sales BY <1>2, <3>1, ChainGoesOn
    <3> QED BY <1>2, <3>2, SeriesTyped
  <2> QED BY <2>1
<1>5. ASSUME NEW s \in Sales, Comes(q.was, {}, {}, s), NEW lost
      PROVE  Comes(p.next, p.got, lost, s)
  <2>1. CASE ~q.was.allDone /\ s \in AheadOf(c)
    <3>1. << s, changed[s] >> \in PageOf(c) \/ (After(c) # NoChain /\ s \in AheadOf(After(c)))
      BY <1>2, <2>1, ChainGoesOn
    <3>2. p.got = PageOf(c) /\ p.next.all = After(c) /\ (p.next.allDone <=> After(c) = NoChain)
      BY <1>1, <2>1
    <3> QED BY <3>1, <3>2 DEF Comes
  <2>2. CASE ~(~q.was.allDone /\ s \in AheadOf(c))
    BY <1>1, <1>3, <1>5, <2>2 DEF Comes
  <2> QED BY <2>1, <2>2
<1>6. ComesToAll(p.next, p.got, Skipped(p.was, p.next)) BY <1>3, <1>5 DEF ComesToAll
<1>7. SaleFits(p) BY <1>1, <1>3, <1>4, <1>6 DEF SaleFits
<1> QED BY <1>1, <1>7

LEMMA RecentComes ==
  ASSUME SaleInv, NEW r \in SeriesRuns, FetchRecent(r)
  PROVE  \E q \in Turns, p \in Turns : Advances(r, q, p) /\ SaleFits(p)
<1>1. PICK q \in Turns, p \in Turns, c \in Chains :
            /\ Advances(r, q, p) /\ q.pc = "recent" /\ p.pc = "rest"
            /\ p.row = q.row /\ p.was = q.was /\ p.warned = q.warned /\ p.hidden = q.hidden
            /\ p.stale = q.stale
            /\ c = IF q.was.recent # NoChain THEN q.was.recent ELSE [after |-> 0, since |-> DayAgo]
            /\ p.got = q.got \cup PageOf(c)
            /\ p.next.all = q.next.all /\ p.next.allDone = q.next.allDone
            /\ p.next.recent = After(c) /\ p.next.mark = q.next.mark
            /\ p.next.sweep = IF q.was.recent # NoChain THEN q.was.sweep ELSE hour
  BY RecentRead DEF SaleInv
<1>2. SeriesTypeOK /\ SaleFits(q) BY <1>1 DEF SaleInv, Advances
<1>3. /\ Honest(q.was) /\ q.next.sweep = q.was.sweep /\ q.next.recent = q.was.recent
      /\ q.next.sweep <= hour /\ ~q.warned
      /\ \A e \in q.got : e[2] <= changed[e[1]]
      /\ ComesToAll(q.next, q.got, Skipped(q.was, q.next))
  BY <1>1, <1>2 DEF SaleFits
<1>4. /\ q.was.sweep \in Nat /\ hour \in Nat
      /\ \A s \in Sales : changed[s] \in Nat /\ changed[s] \in Hours
      /\ RecentHours \in Nat \ {0} /\ \A x \in Hours : x \in Nat
  BY <1>2, TurnTyped, CheckpointTyped, SeriesTyped, SeriesAssumption DEF Hours
<1>5. \A e \in p.got : e[2] <= changed[e[1]]
  <2>1. ASSUME NEW e \in PageOf(c) PROVE e[2] <= changed[e[1]]
    <3>1. e[2] = changed[e[1]] /\ e[1] \in Sales BY <1>2, <2>1, ChainGoesOn
    <3> QED BY <1>2, <3>1, SeriesTyped
  <2> QED BY <1>1, <1>3, <2>1
<1>6. Skipped(q.was, q.next) = {} BY <1>3, <1>4 DEF Skipped
<1>7. ASSUME NEW s \in Sales, changed[s] # 0, Comes(q.next, q.got, {}, s)
      PROVE  Comes(p.next, p.got, Skipped(p.was, p.next), s)
  <2>1. CASE s \in AheadOf(c)
    <3>1. << s, changed[s] >> \in PageOf(c) \/ (After(c) # NoChain /\ s \in AheadOf(After(c)))
      BY <1>2, <2>1, ChainGoesOn
    <3> QED BY <1>1, <3>1 DEF Comes
  <2>2. CASE s \notin AheadOf(c)
    <3>1. q.next.recent # NoChain => s \notin AheadOf(q.next.recent) BY <1>1, <1>3, <2>2
    <3>2. ASSUME changed[s] >= q.next.sweep
          PROVE  changed[s] >= p.next.sweep \/ changed[s] \in Skipped(p.was, p.next)
      <4>1. CASE q.was.recent # NoChain BY <1>1, <1>3, <3>2, <4>1
      <4>2. CASE q.was.recent = NoChain
        <5>1. c.after = 0 /\ c.since = DayAgo /\ p.next.sweep = hour BY <1>1, <4>2
        <5>2. changed[s] < DayAgo
          <6>1. DayAgo \in Nat BY <1>4 DEF DayAgo
          <6> QED BY <1>2, <1>4, <1>7, <2>2, <5>1, <6>1, SeriesTyped DEF AheadOf
        <5>3. changed[s] + RecentHours < hour BY <1>4, <5>2 DEF DayAgo
        <5> QED BY <1>1, <1>3, <1>4, <3>2, <5>1, <5>3 DEF Skipped
      <4> QED BY <4>1, <4>2
    <3> QED BY <1>1, <1>7, <3>1, <3>2 DEF Comes
  <2> QED BY <2>1, <2>2
<1>8. ComesToAll(p.next, p.got, Skipped(p.was, p.next)) BY <1>3, <1>6, <1>7 DEF ComesToAll
<1>9. p.next.sweep <= hour BY <1>1, <1>3, <1>4
<1>10. SaleFits(p) BY <1>1, <1>3, <1>5, <1>8, <1>9 DEF SaleFits
<1> QED BY <1>1, <1>10

LEMMA RestComes ==
  ASSUME SaleInv, NEW r \in SeriesRuns, FetchRest(r)
  PROVE  \E q \in Turns, p \in Turns : Advances(r, q, p) /\ SaleFits(p)
<1>1. PICK q \in Turns, p \in Turns :
            /\ Advances(r, q, p) /\ q.pc = "rest" /\ p.pc = "stage"
            /\ p.row = q.row /\ p.was = q.was /\ p.hidden = q.hidden /\ p.stale = q.stale
            /\ p.warned <=> \E e \in q.got : e[1] \in odd
            /\ p.got = {e \in q.got : e[1] \notin odd}
            /\ p.next.all = q.next.all /\ (p.next.allDone => q.next.allDone)
            /\ p.next.recent = q.next.recent /\ p.next.mark = q.next.mark
            /\ p.next.sweep = q.next.sweep
  BY RestRead DEF SaleInv
<1>2. SeriesTypeOK /\ SaleFits(q) BY <1>1 DEF SaleInv, Advances
<1>3. /\ Honest(q.was) /\ q.next.sweep <= hour /\ ~q.warned
      /\ \A e \in q.got : e[2] <= changed[e[1]]
      /\ ComesToAll(q.next, q.got, Skipped(q.was, q.next))
  BY <1>1, <1>2 DEF SaleFits
<1>4. Skipped(p.was, p.next) = Skipped(q.was, q.next) BY <1>1 DEF Skipped
<1>5. ASSUME ~p.warned PROVE ComesToAll(p.next, p.got, Skipped(p.was, p.next))
  <2>1. p.got = q.got BY <1>1, <1>5
  <2> QED BY <1>1, <1>3, <1>4, <2>1 DEF ComesToAll, Comes
<1>6. \A e \in p.got : e[2] <= changed[e[1]] BY <1>1, <1>3
<1>7. SaleFits(p) BY <1>1, <1>3, <1>5, <1>6 DEF SaleFits
<1> QED BY <1>1, <1>7

\* Of a chain that has ended, what it came to is staged.
LEMMA CheckpointComes ==
  ASSUME SaleInv, NEW r \in SeriesRuns, NEW q \in Turns, q = turn[r], q.pc = "save", ~q.warned
  PROVE  /\ ComesToAll(NextCheckpoint(r), {}, Skipped(q.was, q.next))
         /\ NextCheckpoint(r).sweep <= hour
<1>1. SeriesTypeOK /\ SaleFits(q) BY DEF SaleInv
<1>2. q.next.sweep <= hour /\ ComesToAll(q.next, {}, Skipped(q.was, q.next))
  BY <1>1 DEF SaleFits
<1>3. CASE q.next.allDone /\ q.next.restDone /\ q.next.recent = NoChain
  <2>1. PICK c : c = [NoCheckpoint EXCEPT !.mark = hour, !.sweep = q.next.sweep] OBVIOUS
  <2>2. c.sweep = q.next.sweep BY <2>1 DEF NoCheckpoint
  <2>3. NextCheckpoint(r) = c BY <1>3, <2>1 DEF NextCheckpoint
  <2>4. ComesToAll(c, {}, Skipped(q.was, q.next))
    BY <1>2, <1>3, <2>2 DEF ComesToAll, Comes
  <2> QED BY <1>2, <2>2, <2>3, <2>4
<1>4. CASE ~(q.next.allDone /\ q.next.restDone /\ q.next.recent = NoChain)
  <2>1. NextCheckpoint(r) = q.next BY <1>4 DEF NextCheckpoint
  <2> QED BY <1>2, <2>1
<1> QED BY <1>3, <1>4

\* A run leaves the sales, what is staged of them and the saved cursor alone.
LEMMA SaleQuiet ==
  ASSUME SaleInv, NEW r \in SeriesRuns, NEW p, turn' = [turn EXCEPT ![r] = p],
         p = Unstarted \/ (p \in Turns /\ SaleFits(p)),
         UNCHANGED << hour, changed, kept, missed >>, shop'.cursor = shop.cursor, SeriesTypeOK'
  PROVE  SaleInv'
<1>1. /\ SeriesTypeOK /\ shop.cursor \in Checkpoints /\ hour \in Nat
      /\ \A s \in Sales : kept'[s] <= changed'[s]
  BY SeriesTyped DEF SaleInv
<1>2. Onward BY <1>1 DEF Onward
<1>3. PICK c \in Checkpoints : c = shop.cursor BY <1>1
<1>4. Honest(c)' BY <1>1, <1>2, <1>3, HonestStays DEF SaleInv
<1>5. p \in Turns /\ SaleFits(p) => SaleFits(p)' BY <1>1, <1>2, FitsStays
<1> QED BY <1>1, <1>2, <1>3, <1>4, <1>5, SaleTurn

LEMMA SaleStep ==
  ASSUME SaleInv, [SeriesNext]_seriesVars
  PROVE  SaleInv'
<1>0. /\ SeriesTypeOK /\ SeriesTypeOK' /\ shop.cursor \in Checkpoints
      /\ \A z \in SeriesRuns : turn[z] \in Turns => SaleFits(turn[z])
      /\ hour \in Nat /\ \A s \in Sales : kept[s] <= changed[s]
  BY SeriesTypeStep, SeriesTyped DEF SaleInv
<1>1. ASSUME NEW r \in SeriesRuns, ReadShop(r) PROVE SaleInv'
  <2>1. PICK p \in Turns : /\ turn' = [turn EXCEPT ![r] = p] /\ p.pc = "read"
                           /\ p.was = shop.cursor /\ p.next = shop.cursor /\ p.got = {}
                           /\ ~p.warned
    BY <1>0, <1>1, ReadShopIs
  <2>2. SaleFits(p) BY <2>1 DEF SaleFits, SaleInv, Honest
  <2> QED BY <1>0, <1>1, <2>1, <2>2, SaleQuiet DEF ReadShop
<1>2. ASSUME NEW r \in SeriesRuns, LeaseShop(r) PROVE SaleInv'
  <2>1. UNCHANGED << hour, changed, kept, missed >> /\ shop'.cursor = shop.cursor
    BY <1>0, <1>2, SeriesTyped DEF LeaseShop
  <2>2. CASE shop.live
    <3>1. PICK p : p = Unstarted OBVIOUS
    <3> QED BY <1>0, <1>2, <2>1, <2>2, <3>1, SaleQuiet DEF LeaseShop
  <2>3. CASE ~shop.live
    <3>1. PICK q \in Turns, p \in Turns :
            /\ Advances(r, q, p) /\ p.was = q.was /\ p.next = q.next /\ p.got = q.got
            /\ p.warned = q.warned /\ q.pc = "read" /\ p.pc = "history"
      BY <1>0, <1>2, <2>3, LeaseIs
    <3>2. SaleFits(q) BY <1>0, <3>1 DEF Advances
    <3>3. p.next = p.was /\ p.got = {} BY <3>1, <3>2 DEF SaleFits
    <3>4. ComesToAll(p.next, p.got, Skipped(p.was, p.next))
      BY <3>1, <3>2, <3>3 DEF SaleFits, Honest, ComesToAll, Comes
    <3>5. SaleFits(p) BY <3>1, <3>2, <3>3, <3>4 DEF SaleFits
    <3> QED BY <1>0, <2>1, <3>1, <3>5, SaleQuiet DEF Advances
  <2> QED BY <2>2, <2>3
<1>3. ASSUME NEW r \in SeriesRuns, FetchHistory(r) \/ FetchRecent(r) \/ FetchRest(r)
      PROVE  SaleInv'
  <2>1. PICK q \in Turns, p \in Turns : Advances(r, q, p) /\ SaleFits(p)
    BY <1>3, HistoryComes, RecentComes, RestComes
  <2>2. UNCHANGED << hour, changed, kept, missed, shop >>
    BY <1>3 DEF FetchHistory, FetchRecent, FetchRest
  <2> QED BY <1>0, <2>1, <2>2, SaleQuiet DEF Advances
<1>4. ASSUME NEW r \in SeriesRuns, StageSales(r) PROVE SaleInv'
  <2>1. PICK q \in Turns, p \in Turns :
          /\ Advances(r, q, p) /\ p.was = q.was /\ p.next = q.next /\ p.got = q.got
          /\ p.warned = q.warned /\ q.pc = "stage" /\ p.pc \in {"save", "hide", "delete"}
    BY <1>0, <1>4, StepMoves
  <2>2. UNCHANGED << hour, changed, shop, missed >> /\ q = turn[r]
    BY <1>4, <2>1 DEF StageSales, Advances
  <2>3. SaleFits(q) BY <1>0, <2>1 DEF Advances
  <2>4. ASSUME NEW s \in Sales
        PROVE  /\ kept'[s] <= changed[s]
               /\ kept[s] = changed[s] \/ << s, changed[s] >> \in q.got => kept'[s] = changed[s]
    <3>1. /\ kept[s] <= kept'[s] /\ kept'[s] \in Nat /\ kept[s] \in Nat /\ changed[s] \in Nat
          /\ changed[s] \in Hours
          /\ \A v \in Hours : << s, v >> \in q.got => v <= kept'[s]
          /\ kept'[s] = kept[s] \/ << s, kept'[s] >> \in q.got
      BY <1>0, <1>4, <2>2, StagedIs, SeriesTyped, SeriesAssumption DEF Hours
    <3>2. kept'[s] <= changed[s] BY <1>0, <2>3, <3>1 DEF SaleFits
    <3> QED BY <3>1, <3>2
  <2>o. hour <= hour' BY <1>0, <2>2
  <2>5. Onward BY <2>2, <2>4, <2>o, Zenon DEF Onward
  <2>6. SaleFits(q)' BY <1>0, <2>3, <2>5, FitsStays
  <2>7. ASSUME ~q.warned
        PROVE  ComesToAll(p.next, {}, Skipped(p.was, p.next))'
    <3>1. ComesToAll(p.next, p.got, Skipped(p.was, p.next))'
      BY <2>1, <2>6, <2>7 DEF SaleFits
    <3>2. ASSUME NEW s \in Sales, << s, changed'[s] >> \in p.got PROVE kept'[s] = changed'[s]
      BY <2>1, <2>2, <2>4, <3>2
    <3> QED BY <3>1, <3>2 DEF ComesToAll, Comes
  <2>8. SaleFits(p)' BY <2>1, <2>6, <2>7 DEF SaleFits
  <2>9. PICK c \in Checkpoints : c = shop.cursor BY <1>0
  <2>10. Honest(c)' BY <1>0, <2>5, <2>9, HonestStays DEF SaleInv
  <2>11. \A s \in Sales : kept'[s] <= changed'[s] BY <2>2, <2>4
  <2>12. shop'.cursor = c /\ turn' = [turn EXCEPT ![r] = p] BY <2>1, <2>2, <2>9 DEF Advances
  <2> QED BY <1>0, <2>5, <2>8, <2>10, <2>11, <2>12, SaleTurn
<1>5. ASSUME NEW r \in SeriesRuns, HideSource(r) PROVE SaleInv'
  <2>1. PICK q \in Turns, p \in Turns :
          /\ Advances(r, q, p) /\ p.was = q.was /\ p.next = q.next /\ p.got = q.got
          /\ p.warned = q.warned /\ q.pc = "hide" /\ p.pc = "delete"
    BY <1>0, <1>5, HideIs
  <2>2. UNCHANGED << hour, changed, kept, missed >> /\ shop'.cursor = shop.cursor
    BY <1>0, <1>5, SeriesTyped DEF HideSource
  <2>3. SaleFits(q) BY <1>0, <2>1 DEF Advances
  <2>4. SaleFits(p) BY <2>1, <2>3 DEF SaleFits
  <2> QED BY <1>0, <2>1, <2>2, <2>4, SaleQuiet DEF Advances
<1>6. ASSUME NEW r \in SeriesRuns, DeleteDays(r) \/ InsertDays(r) PROVE SaleInv'
  <2>1. PICK q \in Turns, p \in Turns :
          /\ Advances(r, q, p) /\ p.was = q.was /\ p.next = q.next /\ p.got = q.got
          /\ p.warned = q.warned
          /\ DeleteDays(r) => q.pc = "delete" /\ p.pc = "insert"
          /\ InsertDays(r) => q.pc = "insert" /\ p.pc = "save"
    BY <1>0, <1>6, StepMoves
  <2>2. UNCHANGED << hour, changed, kept, missed, shop >>
    BY <1>6 DEF DeleteDays, InsertDays
  <2>3. SaleFits(q) BY <1>0, <2>1 DEF Advances
  <2>4. SaleFits(p) BY <1>6, <2>1, <2>3 DEF SaleFits
  <2> QED BY <1>0, <2>1, <2>2, <2>4, SaleQuiet DEF Advances
<1>7. ASSUME NEW r \in SeriesRuns, SaveShop(r) PROVE SaleInv'
  <2>1. /\ turn' = [turn EXCEPT ![r] = Unstarted] /\ turn[r].pc = "save"
        /\ UNCHANGED << hour, changed, kept >>
        /\ shop'.cursor = IF turn[r].warned THEN turn[r].was ELSE NextCheckpoint(r)
        /\ missed' = IF turn[r].warned THEN missed
                     ELSE missed \cup Skipped(turn[r].was, turn[r].next)
    BY <1>7 DEF SaveShop
  <2>2. PICK q \in Turns : q = turn[r] BY <1>0, <2>1, SeriesTyped
  <2>3. SaleFits(q) BY <1>0, <2>2
  <2>4. Onward BY <1>0, <2>1 DEF Onward
  <2>5. PICK c : c = shop'.cursor OBVIOUS
  <2>6. c \in Checkpoints BY <1>0, <2>5, SeriesTyped DEF SeriesTypeOK
  <2>7. Honest(c)'
    <3>1. CASE q.warned
      <4>1. c = q.was BY <2>1, <2>2, <2>5, <3>1
      <4>2. Honest(c) BY <2>3, <4>1 DEF SaleFits
      <4> QED BY <1>0, <2>4, <2>6, <4>2, HonestStays
    <3>2. CASE ~q.warned
      <4>1. c = NextCheckpoint(r) BY <2>1, <2>2, <2>5, <3>2
      <4>2. ComesToAll(c, {}, Skipped(q.was, q.next)) /\ c.sweep <= hour
        BY <2>1, <2>2, <3>2, <4>1, CheckpointComes
      <4>3. PICK lost : lost = Skipped(q.was, q.next) OBVIOUS
      <4>4. ComesToAll(c, {}, lost)' BY <1>0, <2>4, <4>2, <4>3, ComesStays
      <4>5. lost \subseteq missed' BY <2>1, <2>2, <3>2, <4>3
      <4>6. ComesToAll(c, {}, {})' BY <4>4, <4>5 DEF ComesToAll, Comes
      <4> QED BY <2>1, <4>2, <4>6 DEF Honest
    <3> QED BY <3>1, <3>2
  <2>8. \A s \in Sales : kept'[s] <= changed'[s] BY <1>0, <2>1
  <2>9. PICK p : p = Unstarted OBVIOUS
  <2> QED BY <1>0, <2>1, <2>4, <2>5, <2>6, <2>7, <2>8, <2>9, SaleTurn
<1>8. ASSUME NEW r \in SeriesRuns, FailTurn(r) \/ DropTurn(r) PROVE SaleInv'
  <2>1. PICK p : p = Unstarted OBVIOUS
  <2>2. /\ turn' = [turn EXCEPT ![r] = p] /\ UNCHANGED << hour, changed, kept, missed >>
        /\ shop'.cursor = shop.cursor
    BY <1>0, <1>8, <2>1, SeriesTyped DEF FailTurn, DropTurn
  <2> QED BY <1>0, <2>1, <2>2, SaleQuiet
<1> QED BY <1>0, <1>1, <1>2, <1>3, <1>4, <1>5, <1>6, <1>7, <1>8, SaleWorld DEF SeriesNext

LEMMA SaleStart == SeriesInit => SaleInv
<1> SUFFICES ASSUME SeriesInit PROVE SaleInv
  OBVIOUS
<1>1. SeriesTypeOK BY GateStart DEF GateInv
<1>2. Unstarted \notin Turns BY DEF Unstarted, Turns
<1>3. ComesToAll(shop.cursor, {}, {}) BY DEF SeriesInit, ComesToAll
<1>4. shop.cursor.sweep <= hour BY DEF SeriesInit, NoCheckpoint
<1>5. \A s \in Sales : kept[s] <= changed[s] BY DEF SeriesInit
<1> QED BY <1>1, <1>2, <1>3, <1>4, <1>5 DEF SeriesInit, SaleInv, Honest
-----------------------------------------------------------------------------
\* "Keep the existing publication gate closed": with any number of overlapping
\* runs, failures, evictions and decisions of the owner, an approved Lightspeed
\* source shows days that are deleted or half inserted only where a run did it
\* whose lease came after the row it had read was changed.
THEOREM TheGateStaysClosed == SeriesSpec => [](SeriesTypeOK /\ GateIsClosed)
<1>1. GateInv => SeriesTypeOK /\ GateIsClosed BY DEF GateInv
<1>2. GateInv /\ [SeriesNext]_seriesVars => GateInv' BY GateStep
<1> QED BY <1>1, <1>2, GateStart, PTL DEF SeriesSpec

\* Nothing strands behind a long history: whichever of the overlapping runs saves
\* its cursor last, however old the one it began with, the newest version of every
\* sale is staged or the saved cursor will still come to it, but for the hours
\* between two recent sweeps more than a day apart.
THEOREM NoSaleIsStranded == SeriesSpec => []SeriesIsSound
<1>1. GateInv /\ SaleInv => SeriesIsSound
  BY DEF GateInv, SaleInv, Honest, SeriesIsSound, SalesAreCovered, ComesToAll, Comes
<1>2. GateInv /\ SaleInv /\ [SeriesNext]_seriesVars => GateInv' /\ SaleInv'
  BY GateStep, SaleStep
<1>3. SeriesInit => GateInv /\ SaleInv BY GateStart, SaleStart
<1> QED BY <1>1, <1>2, <1>3, PTL DEF SeriesSpec

-----------------------------------------------------------------------------
(* The inductive invariant of the bank feed.                               *)

Online == feed.status \in {"connected", "error"}

ClaimPcs == {"claimed", "exchanged", "saved", "undo", "undone", "restore"}
ImportPcs == {"lease", "stage", "fetch", "write", "renewed", "remove", "drop", "revoke"}

\* The requests at work, by what they carry along.
Claims ==
    {c \in [pc : ClaimPcs \cup {"first", "report"}, was : {"not_connected", "revoked"},
            item : 0..MaxItems] :
        c.pc \in {"exchanged", "saved", "undo", "first", "report"} => c.item \in Items}
Imports == [pc : ImportPcs \cup {"report"}, use : {"import", "first", "disconnect"},
            item : Items, status : {"connected", "error"}, cursor : Counts, next : Counts,
            got : [BankLines -> Facts]]
Erasures == [pc : {"erase"}]
Approvals == [pc : {"approve"}, cursor : Counts, shown : BOOLEAN]

JobsTyped ==
    job \in [BankJobs -> {Unoccupied} \cup Claims \cup Imports \cup Erasures \cup Approvals]

FeedRows ==
    [status : {"not_connected", "pending", "connected", "error", "revoked"},
     item : 0..MaxItems, promotion : {"blocked", "staging", "approved"},
     cursor : Counts, synced : BOOLEAN, failed : BOOLEAN, erased : BOOLEAN,
     owner : BankJobs \cup {NoBankJob}, live : BOOLEAN]

Pasts == [lost : SUBSET Items, shown : BOOLEAN, furthest : Counts, late : SUBSET Rows,
          crossed : BOOLEAN]
PastTyped == past \in Pasts

\* The cursor belongs to a feed that is connected, and so does the item, which is the
\* latest.
FeedHolds ==
    /\ ~Online => feed.item = NoItem /\ feed.cursor = 0 /\ past.furthest = 0
    /\ Online => /\ ~feed.erased /\ feed.item \in Items /\ feed.item = plaid.latest
                 /\ token \in {NoItem, feed.item}
                 /\ plaid.active \subseteq past.lost \cup {feed.item}
    /\ Disconnected => token = NoItem /\ plaid.active \subseteq past.lost

\* One exchange at a time, and what it has got is the latest item.
ClaimHolds(j) ==
    job[j].pc \in ClaimPcs =>
        /\ feed.status = "pending"
        /\ \A k \in BankJobs : job[k].pc \in ClaimPcs => k = j
        /\ job[j].pc \in {"claimed", "undone", "restore"} => plaid.active \subseteq past.lost
        /\ job[j].pc \in {"claimed", "restore"} => token = NoItem
        /\ job[j].pc \in {"exchanged", "saved", "undo"} =>
              /\ job[j].item \in Items /\ job[j].item = plaid.latest
              /\ plaid.active \subseteq past.lost \cup {job[j].item}
              /\ token \in {NoItem, job[j].item}
              /\ \A k \in BankJobs : job[k].pc \in ImportPcs => job[k].item # job[j].item
              /\ \A m \in BankLines : lines[<<job[j].item, m>>] = Absent

\* An import of an item that is not the feed's any more can do no harm at Plaid; the
\* cursor that an import has read is not ahead of the feed's.
StaleIsHarmless ==
    \A j \in BankJobs :
        job[j].pc \in ImportPcs =>
            /\ job[j].item <= plaid.latest
            /\ job[j].item = feed.item \/ job[j].item \notin plaid.active
            /\ job[j].pc \in {"lease", "stage", "fetch"} /\ job[j].item = feed.item =>
                  job[j].cursor <= feed.cursor

\* One request disconnects, and it has given the item back.
DropHolds(j) ==
    job[j].pc \in {"drop", "revoke"} =>
        /\ Online /\ job[j].item = feed.item /\ job[j].item \notin plaid.active
        /\ \A k \in BankJobs : job[k].pc \in {"drop", "revoke"} => k = j
        /\ job[j].pc = "revoke" => token = NoItem

\* A movement is in the books, or its line was written late.
Matched(m) ==
    \/ <<feed.item, m>> \in past.late
    \/ lines[<<feed.item, m>>] = bank[m]
    \/ lines[<<feed.item, m>>] = Absent /\ bank[m].gone

\* The import that holds the lease: what it has yet to write, and what it has written.
WriterHolds(j) ==
    job[j].pc \in {"fetch", "write", "renewed"} /\ Owns(j) =>
        /\ job[j].item = feed.item
        /\ job[j].pc # "fetch" =>
              /\ feed.cursor <= job[j].next /\ job[j].next <= changes
              /\ \A m \in BankLines :
                    bank[m].at <= job[j].next =>
                        IF job[j].got[m] = Absent THEN Matched(m)
                                                  ELSE job[j].got[m] = bank[m]

BooksBounded ==
    /\ feed.cursor <= changes
    /\ \A m \in BankLines : bank[m].at <= changes /\ (bank[m].at = 0 => bank[m] = Absent)
    /\ \A i \in Items, m \in BankLines : i > plaid.latest => lines[<<i, m>>] = Absent

CursorMatches ==
    feed.item # NoItem => \A m \in BankLines : bank[m].at <= feed.cursor => Matched(m)

CursorFirm == feed.item # NoItem => feed.cursor >= past.furthest

ErasedIsEmpty == feed.erased => \A r \in Rows : r \in past.late \/ lines[r] = Absent

\* An approval under way is overtaken by every lease, so that no holder of one writes
\* what it has not shown; what is being imported is not approved.
ApprovalsHold ==
    /\ \A j \in BankJobs :
          /\ job[j].pc = "approve" => feed.owner = NoBankJob /\ job[j].shown
          /\ job[j].pc \in {"fetch", "write", "renewed"} /\ Owns(j) => feed.promotion # "approved"
    /\ ApprovedAsShown

BankTyped == BankTypeOK /\ JobsTyped /\ PastTyped

\* As long as no request has written over a row that was not its own.
BankInv ==
    /\ FeedHolds
    /\ \A j \in BankJobs : ClaimHolds(j) /\ DropHolds(j) /\ WriterHolds(j)
    /\ StaleIsHarmless /\ BooksBounded /\ CursorMatches /\ CursorFirm
    /\ ErasedIsEmpty

-----------------------------------------------------------------------------
(* Types.                                                                  *)

\* What a request carries follows from its step.
LEMMA KindsOfJobs ==
    ASSUME JobsTyped, NEW j \in BankJobs
    PROVE  /\ job[j].pc \in ClaimPcs \cup {"first"} => job[j] \in Claims
           /\ job[j].pc \in ImportPcs => job[j] \in Imports
           /\ job[j].pc = "report" => job[j] \in Claims \cup Imports
           /\ job[j].pc = "approve" => job[j] \in Approvals
           /\ job[j] # Unoccupied => job[j].pc # "idle"
  BY DEF JobsTyped, ClaimPcs, ImportPcs, Claims, Imports, Erasures, Approvals, Unoccupied

\* A request goes on, or is done.
LEMMA GoingOn ==
    ASSUME JobsTyped, NEW j \in BankJobs, NEW pc, To(j, pc),
           \/ job[j] \in Claims /\ pc \in ClaimPcs \cup {"first", "report"}
              /\ (pc \in {"exchanged", "saved", "undo", "first", "report"} =>
                    job[j].item \in Items)
           \/ job[j] \in Imports /\ pc \in ImportPcs \cup {"report"}
    PROVE  JobsTyped'
<1>1. [job[j] EXCEPT !.pc = pc] \in Claims \cup Imports
  BY DEF Claims, Imports
<1> QED
  BY <1>1 DEF JobsTyped, To

LEMMA Becoming ==
    ASSUME JobsTyped, NEW j \in BankJobs, NEW row,
           row \in {Unoccupied} \cup Claims \cup Imports \cup Erasures \cup Approvals
    PROVE  [job EXCEPT ![j] = row] \in
               [BankJobs -> {Unoccupied} \cup Claims \cup Imports \cup Erasures \cup Approvals]
  BY DEF JobsTyped

LEMMA Leaving ==
    ASSUME JobsTyped, NEW j \in BankJobs, Leave(j)
    PROVE  JobsTyped'
  BY Becoming DEF JobsTyped, Leave

LEMMA OvertakenTyped ==
    ASSUME NEW jobs \in [BankJobs -> {Unoccupied} \cup Claims \cup Imports \cup Erasures
                                         \cup Approvals]
    PROVE  Overtaken(jobs) \in [BankJobs -> {Unoccupied} \cup Claims \cup Imports \cup Erasures
                                         \cup Approvals]
  BY DEF Overtaken

LEMMA ReshownTyped ==
    ASSUME NEW jobs \in [BankJobs -> {Unoccupied} \cup Claims \cup Imports \cup Erasures
                                         \cup Approvals]
    PROVE  Reshown(jobs) \in [BankJobs -> {Unoccupied} \cup Claims \cup Imports \cup Erasures
                                         \cup Approvals]
<1>1. SUFFICES ASSUME NEW i \in BankJobs, jobs[i].pc = "approve"
               PROVE  [jobs[i] EXCEPT !.shown = FALSE] \in Approvals
  BY <1>1 DEF Reshown
<1>2. jobs[i] \in Approvals
  BY <1>1 DEF Claims, ClaimPcs, Imports, ImportPcs, Erasures, Unoccupied
<1> QED
  BY <1>2 DEF Approvals

LEMMA ReshownPcs ==
    ASSUME NEW jobs \in [BankJobs -> {Unoccupied} \cup Claims \cup Imports \cup Erasures
                                         \cup Approvals],
           NEW k \in BankJobs
    PROVE  /\ Reshown(jobs)[k].pc = jobs[k].pc
           /\ jobs[k].pc # "approve" => Reshown(jobs)[k] = jobs[k]
<1>1. CASE jobs[k].pc = "approve"
  <2>1. jobs[k] \in Approvals
    BY <1>1 DEF Claims, ClaimPcs, Imports, ImportPcs, Erasures, Unoccupied
  <2>2. Reshown(jobs)[k] = [jobs[k] EXCEPT !.shown = FALSE]
    BY <1>1 DEF Reshown
  <2> QED
    BY <1>1, <2>1, <2>2 DEF Approvals
<1>2. CASE jobs[k].pc # "approve"
  BY <1>2 DEF Reshown
<1> QED
  BY <1>1, <1>2

LEMMA AbsentTyped ==
    ASSUME BankAssumption
    PROVE  Absent \in Facts
  BY DEF Absent, Facts, Counts, BankAssumption

LEMMA BankChangesTyped ==
    ASSUME BankTyped, BankAssumption, NEW m \in BankLines, NEW gone \in BOOLEAN,
           BankChanges(m, gone)
    PROVE  BankTyped'
<1>1. JobsTyped'
  BY DEF BankChanges, BankTyped, JobsTyped
<1>2. BankTypeOK' /\ PastTyped'
  BY DEF BankChanges, BankTyped, BankTypeOK, PastTyped, Pasts, Counts, BankAssumption, Facts,
         Absent
<1> QED
  BY <1>1, <1>2 DEF BankTyped

LEMMA BankLeaseExpiresTyped ==
    ASSUME BankTyped, BankAssumption, BankLeaseExpires
    PROVE  BankTyped'
<1>1. JobsTyped'
  BY DEF BankLeaseExpires, BankTyped, JobsTyped
<1>2. BankTypeOK' /\ PastTyped'
  BY DEF BankLeaseExpires, BankTyped, BankTypeOK, PastTyped, Pasts
<1> QED
  BY <1>1, <1>2 DEF BankTyped

LEMMA ExcludeFeedTyped ==
    ASSUME BankTyped, BankAssumption, ExcludeFeed
    PROVE  BankTyped'
<1>1. JobsTyped'
  BY DEF ExcludeFeed, BankTyped, JobsTyped
<1>2. BankTypeOK' /\ PastTyped'
  BY DEF ExcludeFeed, BankTyped, BankTypeOK, PastTyped, Pasts
<1> QED
  BY <1>1, <1>2 DEF BankTyped

LEMMA NoticeTyped ==
    ASSUME BankTyped, BankAssumption, NEW repaired \in BOOLEAN, Notice(repaired)
    PROVE  BankTyped'
<1>1. JobsTyped'
  BY DEF Notice, NoItem, BankTyped, JobsTyped
<1>2. BankTypeOK' /\ PastTyped'
  BY DEF Notice, NoItem, BankTyped, BankTypeOK, PastTyped, Pasts
<1> QED
  BY <1>1, <1>2 DEF BankTyped

LEMMA ReadCredentialsTyped ==
    ASSUME BankTyped, BankAssumption, NEW j \in BankJobs,
           NEW use \in {"import", "first", "disconnect"}, ReadCredentials(j, use)
    PROVE  BankTyped'
<1>1. JobsTyped'
  <2>1. [pc |-> "lease", use |-> use, item |-> token, status |-> feed.status,
         cursor |-> feed.cursor, next |-> 0, got |-> NoFacts] \in Imports
    BY DEF ReadCredentials, Credentials, BankTyped, BankTypeOK, Imports, ImportPcs,
           Items, NoItem,
           Counts, Facts, NoFacts, Absent, BankAssumption
  <2> QED
    BY <2>1, Becoming DEF ReadCredentials, BankTyped, JobsTyped
<1>2. BankTypeOK' /\ PastTyped'
  BY DEF ReadCredentials, Credentials, NoFacts, Absent, NoItem, BankTyped, BankTypeOK,
         PastTyped, Pasts
<1> QED
  BY <1>1, <1>2 DEF BankTyped

LEMMA CredentialsGoneTyped ==
    ASSUME BankTyped, BankAssumption, NEW j \in BankJobs, CredentialsGone(j)
    PROVE  BankTyped'
<1>1. JobsTyped'
  <2>1. job[j] \in Claims /\ job[j].pc = "first"
    BY KindsOfJobs DEF CredentialsGone, At, BankTyped
  <2>2. job[j].item \in Items
    BY <2>1 DEF Claims
  <2> QED
    BY <2>1, <2>2, GoingOn DEF CredentialsGone, BankTyped
<1>2. BankTypeOK' /\ PastTyped'
  BY DEF CredentialsGone, At, To, Credentials, NoItem, BankTyped, BankTypeOK, PastTyped, Pasts
<1> QED
  BY <1>1, <1>2 DEF BankTyped

LEMMA LeaseFeedTyped ==
    ASSUME BankTyped, BankAssumption, NEW j \in BankJobs, LeaseFeed(j)
    PROVE  BankTyped'
<1>1. JobsTyped'
  <2>1. job[j] \in Imports
    BY KindsOfJobs DEF LeaseFeed, At, BankTyped, ImportPcs
  <2>2. CASE feed.live
    BY <2>1, <2>2, GoingOn, Leaving DEF LeaseFeed, BankTyped
  <2>3. CASE ~feed.live
    <3> DEFINE pc == IF job[j].use = "disconnect" THEN "remove" ELSE "stage"
    <3>1. [job[j] EXCEPT !.pc = pc] \in Imports
      BY <2>1 DEF Imports, ImportPcs
    <3>2. [job EXCEPT ![j] = [job[j] EXCEPT !.pc = pc]]
              \in [BankJobs -> {Unoccupied} \cup Claims \cup Imports \cup Erasures
                                           \cup Approvals]
      BY <3>1, Becoming DEF BankTyped
    <3>3. job' = Overtaken([job EXCEPT ![j] = [job[j] EXCEPT !.pc = pc]])
      BY <2>3 DEF LeaseFeed
    <3> HIDE DEF pc
    <3> QED
      BY <3>2, <3>3, OvertakenTyped DEF JobsTyped
  <2> QED
    BY <2>2, <2>3
<1>2. BankTypeOK' /\ PastTyped'
  BY DEF LeaseFeed, BankTyped, BankTypeOK, PastTyped, Pasts, BankAssumption
<1> QED
  BY <1>1, <1>2 DEF BankTyped

LEMMA StageFeedTyped ==
    ASSUME BankTyped, BankAssumption, NEW j \in BankJobs, StageFeed(j)
    PROVE  BankTyped'
<1>1. JobsTyped'
  BY KindsOfJobs, GoingOn, Leaving DEF StageFeed, At, To, Staged, Current, Owns,
         BankTyped, JobsTyped, ClaimPcs, ImportPcs, Leave
<1>2. BankTypeOK' /\ PastTyped'
  BY DEF StageFeed, At, To, Staged, Current, Owns, BankTyped, BankTypeOK, PastTyped, Pasts
<1> QED
  BY <1>1, <1>2 DEF BankTyped

LEMMA FetchChangesTyped ==
    ASSUME BankTyped, BankAssumption, NEW j \in BankJobs, FetchChanges(j)
    PROVE  BankTyped'
<1>1. JobsTyped'
  <2>1. job[j] \in Imports
    BY KindsOfJobs DEF FetchChanges, At, BankTyped, ImportPcs
  <2> DEFINE got == [m \in BankLines |-> IF bank[m].at > job[j].cursor THEN bank[m] ELSE Absent]
  <2>2. got \in [BankLines -> Facts] /\ changes \in Counts
    BY <2>1 DEF BankTyped, BankTypeOK, Facts, Absent, Counts, BankAssumption
  <2>3. job' = [job EXCEPT ![j] = [job[j] EXCEPT !.pc = "write", !.next = changes, !.got = got]]
    BY DEF FetchChanges, BankTyped, JobsTyped
  <2> HIDE DEF got
  <2>4. [job[j] EXCEPT !.pc = "write", !.next = changes, !.got = got] \in Imports
    BY <2>1, <2>2 DEF Imports, ImportPcs
  <2> QED
    BY <2>3, <2>4, Becoming DEF BankTyped, JobsTyped
<1>2. BankTypeOK' /\ PastTyped'
  BY DEF FetchChanges, At, LeaseHeld, Absent, Owns, BankTyped, BankTypeOK, PastTyped, Pasts
<1> QED
  BY <1>1, <1>2 DEF BankTyped

LEMMA RenewForWriteTyped ==
    ASSUME BankTyped, BankAssumption, NEW j \in BankJobs, RenewForWrite(j)
    PROVE  BankTyped'
<1>1. JobsTyped'
  BY KindsOfJobs, GoingOn DEF RenewForWrite, At, BankTyped, ImportPcs
<1>2. BankTypeOK' /\ PastTyped'
  BY DEF RenewForWrite, BankTyped, BankTypeOK, PastTyped, Pasts
<1> QED
  BY <1>1, <1>2 DEF BankTyped

LEMMA WriteLineTyped ==
    ASSUME BankTyped, BankAssumption, NEW j \in BankJobs, NEW m \in BankLines,
           WriteLine(j, m)
    PROVE  BankTyped'
<1>0. job[j] \in Imports
  BY KindsOfJobs DEF WriteLine, At, BankTyped, ImportPcs
<1>1. JobsTyped'
  <2> DEFINE row == [job[j] EXCEPT !.pc = "write", !.got = [job[j].got EXCEPT ![m] = Absent]]
  <2>1. [job[j].got EXCEPT ![m] = Absent] \in [BankLines -> Facts]
    BY <1>0, AbsentTyped DEF Imports
  <2>2. row \in Imports
    BY <1>0, <2>1 DEF Imports, ImportPcs
  <2> DEFINE jobs == [job EXCEPT ![j].pc = "write", ![j].got[m] = Absent]
  <2>3. jobs = [job EXCEPT ![j] = row]
    BY <1>0 DEF BankTyped, JobsTyped, Imports
  <2>4. job' = Reshown(jobs) \/ job' = jobs
    BY Zenon DEF WriteLine
  <2>5. jobs \in [BankJobs -> {Unoccupied} \cup Claims \cup Imports \cup Erasures
                                           \cup Approvals]
    BY <2>2, <2>3, Becoming DEF BankTyped
  <2>6. Reshown(jobs) \in [BankJobs -> {Unoccupied} \cup Claims \cup Imports \cup Erasures
                                           \cup Approvals]
    BY <2>5, ReshownTyped
  <2> QED
    BY Zenon, <2>4, <2>5, <2>6 DEF JobsTyped
<1>2. BankTypeOK' /\ PastTyped'
  <2>1. job[j].got[m] \in Facts /\ <<job[j].item, m>> \in Rows
    BY <1>0 DEF Imports, Rows
  <2>2. lines' \in [Rows -> Facts]
    BY <2>1, AbsentTyped DEF WriteLine, BankTyped, BankTypeOK
  <2>3. CASE Owns(j)
    <3>1. past' = [past EXCEPT !.shown = FALSE, !.late = @ \ {<<job[j].item, m>>}]
      BY <2>3 DEF WriteLine
    <3> QED
      BY <3>1, <2>2 DEF WriteLine, BankTyped, BankTypeOK, PastTyped, Pasts
  <2>4. CASE ~Owns(j)
    <3>1. past' = [past EXCEPT !.late = @ \cup {<<job[j].item, m>>}]
      BY <2>4 DEF WriteLine
    <3> QED
      BY <3>1, <2>1, <2>2 DEF WriteLine, BankTyped, BankTypeOK, PastTyped, Pasts
  <2> QED
    BY <2>3, <2>4
<1> QED
  BY <1>1, <1>2 DEF BankTyped

LEMMA FinishImportTyped ==
    ASSUME BankTyped, BankAssumption, NEW j \in BankJobs, FinishImport(j)
    PROVE  BankTyped'
<1>1. JobsTyped'
  BY Leaving DEF FinishImport, At, Leave, LeaseHeld, Unleased, Current, NoFacts, Absent,
         Owns, Unoccupied, BankTyped, JobsTyped
<1>2. BankTypeOK' /\ PastTyped'
  BY KindsOfJobs DEF FinishImport, At, Leave, LeaseHeld, Unleased, Current, NoFacts,
         Absent, Owns, Unoccupied, BankTyped, BankTypeOK, PastTyped, Pasts, Counts,
         BankAssumption, NoItem, Items, Claims, Imports, ClaimPcs, ImportPcs
<1> QED
  BY <1>1, <1>2 DEF BankTyped

LEMMA FailImportTyped ==
    ASSUME BankTyped, BankAssumption, NEW j \in BankJobs, NEW repair \in BOOLEAN,
           FailImport(j, repair)
    PROVE  BankTyped'
<1>1. JobsTyped'
  BY KindsOfJobs, GoingOn, Leaving DEF FailImport, At, To, Leave, Owns, Released,
         Unleased, Unoccupied, BankTyped, JobsTyped, ClaimPcs, ImportPcs
<1>2. BankTypeOK' /\ PastTyped'
  <2>1. job[j].status \in {"connected", "error"}
    BY KindsOfJobs DEF FailImport, BankTyped, ImportPcs, Imports
  <2>2. past' \in Pasts
    BY DEF FailImport, Crossing, BankTyped, PastTyped, Pasts
  <2>3. feed' \in FeedRows /\ (feed'.live => feed'.owner # NoBankJob)
    BY <2>1 DEF FailImport, Released, Unleased, Owns, BankTyped, BankTypeOK, FeedRows
  <2> QED
    BY <2>2, <2>3 DEF FailImport, BankTyped, BankTypeOK, PastTyped, Pasts, FeedRows
<1> QED
  BY <1>1, <1>2 DEF BankTyped

LEMMA ClaimFeedTyped ==
    ASSUME BankTyped, BankAssumption, NEW j \in BankJobs, ClaimFeed(j)
    PROVE  BankTyped'
<1>1. JobsTyped'
  <2> DEFINE row == [pc |-> "claimed", was |-> feed.status, item |-> NoItem]
  <2>1. row \in Claims
    BY DEF ClaimFeed, Disconnected, Claims, ClaimPcs, NoItem, BankAssumption
  <2>2. job' = Overtaken([job EXCEPT ![j] = row])
    BY DEF ClaimFeed
  <2> HIDE DEF row
  <2> QED
    BY <2>1, <2>2, Becoming, OvertakenTyped DEF BankTyped, JobsTyped
<1>2. BankTypeOK' /\ PastTyped'
  BY DEF ClaimFeed, Unleased, Unoccupied, Overtaken, Disconnected, NoItem,
         BankTyped, BankTypeOK, PastTyped, Pasts
<1> QED
  BY <1>1, <1>2 DEF BankTyped

LEMMA ExchangeTokenTyped ==
    ASSUME BankTyped, BankAssumption, NEW j \in BankJobs, ExchangeToken(j)
    PROVE  BankTyped'
<1>1. JobsTyped'
  <2>1. job[j] \in Claims
    BY KindsOfJobs DEF ExchangeToken, At, BankTyped, ClaimPcs
  <2>4. plaid.latest + 1 \in Items /\ plaid.latest + 1 \in 0..MaxItems
    BY DEF ExchangeToken, BankTyped, BankTypeOK, Items, BankAssumption
  <2>2. [job[j] EXCEPT !.pc = "exchanged", !.item = plaid.latest + 1] \in Claims
    BY <2>1, <2>4 DEF Claims, ClaimPcs
  <2>3. job' = [job EXCEPT ![j] = [job[j] EXCEPT !.pc = "exchanged", !.item = plaid.latest + 1]]
    BY DEF ExchangeToken, BankTyped, JobsTyped
  <2> QED
    BY <2>2, <2>3, Becoming DEF BankTyped, JobsTyped
<1>2. BankTypeOK' /\ PastTyped'
  BY KindsOfJobs DEF ExchangeToken, BankTyped, BankTypeOK, PastTyped, Pasts, At, Unleased,
         Released, Owns, Items, NoItem, Counts, Facts, NoFacts, Rows, NoRows, Absent,
         Claims, Imports, ClaimPcs, ImportPcs, BankAssumption, RestoreClaim,
         Disconnected, Staged
<1> QED
  BY <1>1, <1>2 DEF BankTyped

LEMMA ExchangeFailsTyped ==
    ASSUME BankTyped, BankAssumption, NEW j \in BankJobs, ExchangeFails(j)
    PROVE  BankTyped'
<1>1. JobsTyped'
  BY Leaving DEF ExchangeFails, At, Leave, RestoreClaim, NoItem, Unoccupied, BankTyped,
         JobsTyped
<1>2. BankTypeOK' /\ PastTyped'
  <2>1. job[j].was \in {"not_connected", "revoked"}
    BY KindsOfJobs DEF ExchangeFails, At, BankTyped, ClaimPcs, Claims
  <2>2. feed \in FeedRows /\ 0 \in 0..MaxItems /\ 0 \in Counts
    BY DEF BankTyped, BankTypeOK, FeedRows, Counts, BankAssumption
  <2>3. feed' \in FeedRows /\ feed'.owner = feed.owner /\ feed'.live = feed.live
    BY <2>1, <2>2 DEF ExchangeFails, RestoreClaim, FeedRows, NoItem
  <2> QED
    BY <2>3 DEF ExchangeFails, BankTyped, BankTypeOK, PastTyped, Pasts, FeedRows
<1> QED
  BY <1>1, <1>2 DEF BankTyped

LEMMA SaveTokenTyped ==
    ASSUME BankTyped, BankAssumption, NEW j \in BankJobs, SaveToken(j)
    PROVE  BankTyped'
<1>1. JobsTyped'
  <2>1. job[j] \in Claims /\ job[j].item \in Items
    BY KindsOfJobs DEF SaveToken, At, BankTyped, ClaimPcs, Claims
  <2> QED
    BY <2>1, GoingOn DEF SaveToken, BankTyped, ClaimPcs
<1>2. BankTypeOK' /\ PastTyped'
  BY KindsOfJobs DEF SaveToken, At, To, BankTyped, BankTypeOK, PastTyped, Pasts, Counts,
         BankAssumption, NoItem, Items, Claims, Imports, ClaimPcs, ImportPcs
<1> QED
  BY <1>1, <1>2 DEF BankTyped

LEMMA ConnectFeedTyped ==
    ASSUME BankTyped, BankAssumption, NEW j \in BankJobs, ConnectFeed(j)
    PROVE  BankTyped'
<1>1. JobsTyped'
  <2>1. job[j] \in Claims /\ job[j].item \in Items
    BY KindsOfJobs DEF ConnectFeed, At, BankTyped, ClaimPcs, Claims
  <2> QED
    BY <2>1, GoingOn DEF ConnectFeed, BankTyped
<1>2. BankTypeOK' /\ PastTyped'
  <2>1. job[j].item \in 0..MaxItems
    BY KindsOfJobs DEF ConnectFeed, At, BankTyped, ClaimPcs, Claims
  <2>2. feed \in FeedRows /\ 0 \in Counts
    BY DEF BankTyped, BankTypeOK, FeedRows, Counts, BankAssumption
  <2>3. feed' \in FeedRows /\ feed'.owner = feed.owner /\ feed'.live = feed.live
    BY <2>1, <2>2 DEF ConnectFeed, FeedRows
  <2>4. past' \in Pasts
    BY <2>2 DEF ConnectFeed, BankTyped, PastTyped, Pasts
  <2> QED
    BY <2>1, <2>3, <2>4 DEF ConnectFeed, BankTyped, BankTypeOK, PastTyped, Pasts, FeedRows
<1> QED
  BY <1>1, <1>2 DEF BankTyped

LEMMA GiveUpTyped ==
    ASSUME BankTyped, BankAssumption, NEW j \in BankJobs, GiveUp(j)
    PROVE  BankTyped'
<1>1. JobsTyped'
  <2>1. job[j] \in Claims /\ job[j].item \in Items
    BY KindsOfJobs DEF GiveUp, At, BankTyped, ClaimPcs, Claims
  <2> QED
    BY <2>1, GoingOn DEF GiveUp, BankTyped, ClaimPcs
<1>2. BankTypeOK' /\ PastTyped'
  BY DEF GiveUp, To, BankTyped, BankTypeOK, PastTyped, Pasts
<1> QED
  BY <1>1, <1>2 DEF BankTyped

LEMMA RemoveExchangedTyped ==
    ASSUME BankTyped, BankAssumption, NEW j \in BankJobs, RemoveExchanged(j)
    PROVE  BankTyped'
<1>1. JobsTyped'
  BY KindsOfJobs, GoingOn, Leaving DEF RemoveExchanged, At, To, BankTyped, JobsTyped,
         ClaimPcs, ImportPcs, Leave
<1>2. BankTypeOK' /\ PastTyped'
  BY DEF RemoveExchanged, At, To, BankTyped, BankTypeOK, PastTyped, Pasts
<1> QED
  BY <1>1, <1>2 DEF BankTyped

LEMMA RemovalFailsTyped ==
    ASSUME BankTyped, BankAssumption, NEW j \in BankJobs, RemovalFails(j)
    PROVE  BankTyped'
<1>1. JobsTyped'
  BY Leaving DEF RemovalFails, At, Leave, Unoccupied, BankTyped, JobsTyped
<1>2. BankTypeOK' /\ PastTyped'
  BY KindsOfJobs DEF RemovalFails, At, Leave, Unoccupied, BankTyped, BankTypeOK,
         PastTyped, Pasts, Counts, BankAssumption, NoItem, Items, Claims, Imports, ClaimPcs,
         ImportPcs
<1> QED
  BY <1>1, <1>2 DEF BankTyped

LEMMA DropExchangedTyped ==
    ASSUME BankTyped, BankAssumption, NEW j \in BankJobs, DropExchanged(j)
    PROVE  BankTyped'
<1>1. JobsTyped'
  BY KindsOfJobs, GoingOn, Leaving DEF DropExchanged, At, To, NoItem, BankTyped,
         JobsTyped, ClaimPcs, ImportPcs, Leave
<1>2. BankTypeOK' /\ PastTyped'
  BY DEF DropExchanged, At, To, NoItem, BankTyped, BankTypeOK, PastTyped, Pasts
<1> QED
  BY <1>1, <1>2 DEF BankTyped

LEMMA RestoreExchangedTyped ==
    ASSUME BankTyped, BankAssumption, NEW j \in BankJobs, RestoreExchanged(j)
    PROVE  BankTyped'
<1>1. JobsTyped'
  BY Leaving DEF RestoreExchanged, At, Leave, RestoreClaim, NoItem, Unoccupied,
         BankTyped, JobsTyped
<1>2. BankTypeOK' /\ PastTyped'
  <2>1. job[j].was \in {"not_connected", "revoked"}
    BY KindsOfJobs DEF RestoreExchanged, At, BankTyped, ClaimPcs, Claims
  <2>2. feed \in FeedRows /\ 0 \in 0..MaxItems /\ 0 \in Counts
    BY DEF BankTyped, BankTypeOK, FeedRows, Counts, BankAssumption
  <2>3. feed' \in FeedRows /\ feed'.owner = feed.owner /\ feed'.live = feed.live
    BY <2>1, <2>2 DEF RestoreExchanged, RestoreClaim, FeedRows, NoItem
  <2> QED
    BY <2>3 DEF RestoreExchanged, BankTyped, BankTypeOK, PastTyped, Pasts, FeedRows
<1> QED
  BY <1>1, <1>2 DEF BankTyped

LEMMA ReportTyped ==
    ASSUME BankTyped, BankAssumption, NEW j \in BankJobs, Report(j)
    PROVE  BankTyped'
<1>1. JobsTyped'
  BY Leaving DEF Report, At, Leave, Unoccupied, BankTyped, JobsTyped
<1>2. BankTypeOK' /\ PastTyped'
  <2>1. past' \in Pasts
    BY DEF Report, Crossing, BankTyped, PastTyped, Pasts
  <2>2. feed' \in FeedRows /\ feed'.owner = feed.owner /\ feed'.live = feed.live
    BY DEF Report, BankTyped, BankTypeOK, FeedRows
  <2> QED
    BY <2>1, <2>2 DEF Report, BankTyped, BankTypeOK, PastTyped, Pasts, FeedRows
<1> QED
  BY <1>1, <1>2 DEF BankTyped

LEMMA RemoveItemTyped ==
    ASSUME BankTyped, BankAssumption, NEW j \in BankJobs, RemoveItem(j)
    PROVE  BankTyped'
<1>1. JobsTyped'
  BY KindsOfJobs, GoingOn, Leaving DEF RemoveItem, At, To, BankTyped, JobsTyped,
         ClaimPcs, ImportPcs, Leave
<1>2. BankTypeOK' /\ PastTyped'
  BY DEF RemoveItem, At, To, BankTyped, BankTypeOK, PastTyped, Pasts
<1> QED
  BY <1>1, <1>2 DEF BankTyped

LEMMA DropTokenTyped ==
    ASSUME BankTyped, BankAssumption, NEW j \in BankJobs, DropToken(j)
    PROVE  BankTyped'
<1>1. JobsTyped'
  BY KindsOfJobs, GoingOn, Leaving DEF DropToken, At, To, NoItem, BankTyped, JobsTyped,
         ClaimPcs, ImportPcs, Leave
<1>2. BankTypeOK' /\ PastTyped'
  BY DEF DropToken, At, To, NoItem, BankTyped, BankTypeOK, PastTyped, Pasts
<1> QED
  BY <1>1, <1>2 DEF BankTyped

LEMMA RevokeFeedTyped ==
    ASSUME BankTyped, BankAssumption, NEW j \in BankJobs, RevokeFeed(j)
    PROVE  BankTyped'
<1>1. JobsTyped'
  BY Leaving DEF RevokeFeed, At, Leave, Owns, Unleased, NoItem, Unoccupied,
         BankTyped, JobsTyped
<1>2. BankTypeOK' /\ PastTyped'
  <2>1. feed \in FeedRows /\ 0 \in 0..MaxItems /\ 0 \in Counts
    BY DEF BankTyped, BankTypeOK, FeedRows, Counts, BankAssumption
  <2>2. feed' \in FeedRows /\ ~feed'.live
    BY <2>1 DEF RevokeFeed, Unleased, FeedRows, NoItem
  <2>3. past' \in Pasts
    BY <2>1 DEF RevokeFeed, BankTyped, PastTyped, Pasts
  <2> QED
    BY <2>2, <2>3 DEF RevokeFeed, BankTyped, BankTypeOK, PastTyped, Pasts, FeedRows
<1> QED
  BY <1>1, <1>2 DEF BankTyped

LEMMA DisconnectFailsTyped ==
    ASSUME BankTyped, BankAssumption, NEW j \in BankJobs, DisconnectFails(j)
    PROVE  BankTyped'
<1>1. JobsTyped'
  BY Leaving DEF DisconnectFails, Leave, Released, Owns, Unleased, Unoccupied,
         BankTyped, JobsTyped
<1>2. BankTypeOK' /\ PastTyped'
  BY DEF DisconnectFails, Leave, Released, Owns, Unleased, Unoccupied, BankTyped,
         BankTypeOK, PastTyped, Pasts
<1> QED
  BY <1>1, <1>2 DEF BankTyped

LEMMA CheckDisconnectedTyped ==
    ASSUME BankTyped, BankAssumption, NEW j \in BankJobs, CheckDisconnected(j)
    PROVE  BankTyped'
<1>1. JobsTyped'
  <2>1. [pc |-> "erase"] \in Erasures
    BY DEF Erasures
  <2> QED
    BY <2>1, Becoming DEF CheckDisconnected, BankTyped, JobsTyped
<1>2. BankTypeOK' /\ PastTyped'
  BY DEF CheckDisconnected, Unoccupied, Disconnected, BankTyped, BankTypeOK, PastTyped, Pasts
<1> QED
  BY <1>1, <1>2 DEF BankTyped

LEMMA EraseDataTyped ==
    ASSUME BankTyped, BankAssumption, NEW j \in BankJobs, EraseData(j)
    PROVE  BankTyped'
<1>1. JobsTyped'
  <2>1. JobsTyped => [job EXCEPT ![j] = Unoccupied]
                \in [BankJobs -> {Unoccupied} \cup Claims \cup Imports \cup Erasures
                                           \cup Approvals]
    BY Becoming
  <2> QED
    BY <2>1, OvertakenTyped, ReshownTyped DEF EraseData, BankTyped, JobsTyped
<1>2. BankTypeOK' /\ PastTyped'
  <2>1. NoRows \in [Rows -> Facts]
    BY AbsentTyped DEF NoRows
  <2>2. feed \in FeedRows /\ 0 \in 0..MaxItems /\ 0 \in Counts
    BY DEF BankTyped, BankTypeOK, FeedRows, Counts, BankAssumption
  <2>3. feed' \in FeedRows /\ ~feed'.live
    BY <2>2 DEF EraseData, Unleased, FeedRows, NoItem
  <2>4. past' \in Pasts
    BY DEF EraseData, BankTyped, PastTyped, Pasts
  <2> QED
    BY <2>1, <2>3, <2>4 DEF EraseData, BankTyped, BankTypeOK, PastTyped, Pasts, FeedRows,
           NoItem, BankAssumption
<1> QED
  BY <1>1, <1>2 DEF BankTyped

LEMMA ReadForApprovalTyped ==
    ASSUME BankTyped, BankAssumption, NEW j \in BankJobs, ReadForApproval(j)
    PROVE  BankTyped'
<1>1. JobsTyped'
  <2>1. [pc |-> "approve", cursor |-> feed.cursor, shown |-> TRUE] \in Approvals
    BY DEF BankTyped, BankTypeOK, Approvals
  <2> QED
    BY <2>1, Becoming DEF ReadForApproval, BankTyped, JobsTyped
<1>2. BankTypeOK' /\ PastTyped'
  BY DEF ReadForApproval, Unleased, Unoccupied, Approvable, BankTyped, BankTypeOK,
         PastTyped, Pasts
<1> QED
  BY <1>1, <1>2 DEF BankTyped

LEMMA ApproveFeedTyped ==
    ASSUME BankTyped, BankAssumption, NEW j \in BankJobs, ApproveFeed(j)
    PROVE  BankTyped'
<1>1. JobsTyped'
  BY Leaving DEF ApproveFeed, At, Leave, Approvable, Unoccupied, BankTyped, JobsTyped
<1>2. BankTypeOK' /\ PastTyped'
  <2>1. job[j].shown \in BOOLEAN
    BY KindsOfJobs DEF ApproveFeed, At, BankTyped, Approvals
  <2> QED
    BY <2>1 DEF ApproveFeed, BankTyped, BankTypeOK, PastTyped, Pasts
<1> QED
  BY <1>1, <1>2 DEF BankTyped

LEMMA EvictJobTyped ==
    ASSUME BankTyped, BankAssumption, NEW j \in BankJobs, EvictJob(j)
    PROVE  BankTyped'
<1>1. JobsTyped'
  BY Leaving DEF EvictJob, Leave, Unoccupied, BankTyped, JobsTyped
<1>2. BankTypeOK' /\ PastTyped'
  <2>1. job[j].pc \in {"exchanged", "saved", "undo"} => job[j].item \in Items
    BY KindsOfJobs DEF BankTyped, Claims, ClaimPcs
  <2> QED
    BY <2>1 DEF EvictJob, BankTyped, BankTypeOK, PastTyped, Pasts
<1> QED
  BY <1>1, <1>2 DEF BankTyped

-----------------------------------------------------------------------------
(* Approvals: these steps are for any order of requests and deliveries.      *)

LEMMA BankChangesApprovals ==
    ASSUME BankTyped, BankAssumption, ApprovalsHold, NEW m \in BankLines,
           NEW gone \in BOOLEAN, BankChanges(m, gone)
    PROVE  ApprovalsHold'
  BY DEF BankChanges, BankTyped, JobsTyped, ApprovalsHold, ApprovedAsShown, Owns,
         Unoccupied

LEMMA BankLeaseExpiresApprovals ==
    ASSUME BankTyped, BankAssumption, ApprovalsHold, BankLeaseExpires
    PROVE  ApprovalsHold'
  BY DEF BankLeaseExpires, BankTyped, JobsTyped, ApprovalsHold, ApprovedAsShown, Owns,
         Unoccupied

LEMMA ExcludeFeedApprovals ==
    ASSUME BankTyped, BankAssumption, ApprovalsHold, ExcludeFeed
    PROVE  ApprovalsHold'
  BY DEF ExcludeFeed, BankTyped, JobsTyped, ApprovalsHold, ApprovedAsShown, Owns,
         Unoccupied

LEMMA NoticeApprovals ==
    ASSUME BankTyped, BankAssumption, ApprovalsHold, NEW repaired \in BOOLEAN,
           Notice(repaired)
    PROVE  ApprovalsHold'
  BY DEF Notice, NoItem, BankTyped, JobsTyped, ApprovalsHold, ApprovedAsShown, Owns,
         Unoccupied

LEMMA ReadCredentialsApprovals ==
    ASSUME BankTyped, BankAssumption, ApprovalsHold, NEW j \in BankJobs,
           NEW use \in {"import", "first", "disconnect"}, ReadCredentials(j, use)
    PROVE  ApprovalsHold'
  BY DEF ReadCredentials, Credentials, NoFacts, Absent, NoItem, BankTyped, JobsTyped,
         ApprovalsHold, ApprovedAsShown, Owns, Unoccupied

LEMMA CredentialsGoneApprovals ==
    ASSUME BankTyped, BankAssumption, ApprovalsHold, NEW j \in BankJobs, CredentialsGone(j)
    PROVE  ApprovalsHold'
  BY DEF CredentialsGone, At, To, Credentials, NoItem, BankTyped, JobsTyped,
         ApprovalsHold, ApprovedAsShown, Owns, Unoccupied

LEMMA LeaseFeedApprovals ==
    ASSUME BankTyped, BankAssumption, ApprovalsHold, NEW j \in BankJobs, LeaseFeed(j)
    PROVE  ApprovalsHold'
  <1>0. job[j] \in Imports
    BY KindsOfJobs DEF LeaseFeed, BankTyped, At, ImportPcs
  <1>1. CASE feed.live
    BY <1>0, <1>1 DEF Imports, LeaseFeed, BankTyped, JobsTyped, ApprovalsHold,
           ApprovedAsShown, At, To, Leave, Owns,
                Unoccupied
  <1>2. CASE ~feed.live
    <2>1. \A k \in BankJobs : k # j =>
              job'[k] = IF job[k].pc = "approve" THEN Unoccupied ELSE job[k]
      BY <1>2 DEF LeaseFeed, BankTyped, JobsTyped, Overtaken
    <2>2. job'[j].pc \in {"remove", "stage"}
      BY <1>0, <1>2 DEF LeaseFeed, BankTyped, JobsTyped, Overtaken, Imports
    <2>3. feed'.owner = j /\ feed'.promotion = feed.promotion
      BY <1>2 DEF LeaseFeed, BankTyped, BankTypeOK
    <2>4. \A k \in BankJobs : job'[k].pc # "approve"
      BY <2>1, <2>2 DEF Unoccupied
    <2>5. \A k \in BankJobs : job'[k].pc \in {"fetch", "write", "renewed"} /\ feed'.owner = k => FALSE
      BY <2>1, <2>2, <2>3 DEF Unoccupied
    <2> QED
      BY <2>3, <2>4, <2>5 DEF LeaseFeed, ApprovalsHold, ApprovedAsShown, Owns
  <1> QED
    BY <1>1, <1>2

LEMMA StageFeedApprovals ==
    ASSUME BankTyped, BankAssumption, ApprovalsHold, NEW j \in BankJobs, StageFeed(j)
    PROVE  ApprovalsHold'
  BY DEF StageFeed, At, To, Staged, Current, Owns, BankTyped, JobsTyped, ApprovalsHold,
         ApprovedAsShown, Unoccupied

LEMMA FetchChangesApprovals ==
    ASSUME BankTyped, BankAssumption, ApprovalsHold, NEW j \in BankJobs, FetchChanges(j)
    PROVE  ApprovalsHold'
  BY DEF FetchChanges, At, LeaseHeld, Absent, Owns, BankTyped, JobsTyped, ApprovalsHold,
         ApprovedAsShown, Unoccupied

LEMMA RenewForWriteApprovals ==
    ASSUME BankTyped, BankAssumption, ApprovalsHold, NEW j \in BankJobs, RenewForWrite(j)
    PROVE  ApprovalsHold'
  BY DEF RenewForWrite, At, To, LeaseHeld, Owns, BankTyped, JobsTyped, ApprovalsHold,
         ApprovedAsShown, Unoccupied

\* Writing a line leaves the other requests where they are.
LEMMA WriteLineJobs ==
    ASSUME BankTyped, BankAssumption, NEW j \in BankJobs, NEW m \in BankLines, WriteLine(j, m)
    PROVE  /\ job[j] \in Imports /\ job[j].pc = "renewed" /\ job'[j].pc = "write"
           /\ \A k \in BankJobs : k # j => job'[k].pc = job[k].pc
           /\ \A k \in BankJobs : k # j /\ (job[k].pc # "approve" \/ ~Owns(j)) => job'[k] = job[k]
<1>1. job[j] \in Imports /\ job[j].pc = "renewed"
  BY KindsOfJobs DEF WriteLine, At, BankTyped, ImportPcs
<1> DEFINE jobs == [job EXCEPT ![j].pc = "write", ![j].got[m] = Absent]
           row == [job[j] EXCEPT !.pc = "write", !.got = [job[j].got EXCEPT ![m] = Absent]]
<1>2. job' = IF Owns(j) THEN Reshown(jobs) ELSE jobs
  BY DEF WriteLine
<1>3. [job[j].got EXCEPT ![m] = Absent] \in [BankLines -> Facts]
  BY <1>1, AbsentTyped DEF Imports
<1>4. row \in Imports /\ row.pc = "write"
  BY <1>1, <1>3 DEF Imports, ImportPcs
<1>5. jobs = [job EXCEPT ![j] = row]
  BY <1>1 DEF BankTyped, JobsTyped, Imports
<1> HIDE DEF row, jobs
<1>6. /\ jobs \in [BankJobs -> {Unoccupied} \cup Claims \cup Imports \cup Erasures \cup Approvals]
      /\ jobs[j].pc = "write" /\ \A k \in BankJobs : k # j => jobs[k] = job[k]
  BY <1>4, <1>5 DEF BankTyped, JobsTyped
<1>7. \A k \in BankJobs : /\ Reshown(jobs)[k].pc = jobs[k].pc
                          /\ jobs[k].pc # "approve" => Reshown(jobs)[k] = jobs[k]
  BY <1>6, ReshownPcs
<1> QED
  BY <1>1, <1>2, <1>6, <1>7

LEMMA WriteLineApprovals ==
    ASSUME BankTyped, BankAssumption, ApprovalsHold, NEW j \in BankJobs,
           NEW m \in BankLines, WriteLine(j, m)
    PROVE  ApprovalsHold'
<1>1. /\ job[j].pc = "renewed" /\ job'[j].pc = "write"
      /\ \A k \in BankJobs : k # j => job'[k].pc = job[k].pc
  BY WriteLineJobs
<1>2. feed' = feed
  BY DEF WriteLine
<1>3. CASE Owns(j)
  BY <1>1, <1>2, <1>3 DEF ApprovalsHold, ApprovedAsShown, Owns, BankAssumption
<1>4. CASE ~Owns(j)
  <2>1. past' = [past EXCEPT !.late = @ \cup {<<job[j].item, m>>}]
    BY <1>4 DEF WriteLine
  <2>2. past'.shown = past.shown
    BY <2>1 DEF BankTyped, PastTyped, Pasts
  <2>3. \A k \in BankJobs : k # j => job'[k] = job[k]
    BY <1>4, WriteLineJobs
  <2> QED
    BY <1>1, <1>2, <1>4, <2>2, <2>3 DEF ApprovalsHold, ApprovedAsShown, Owns
<1> QED
  BY <1>3, <1>4

LEMMA FinishImportApprovals ==
    ASSUME BankTyped, BankAssumption, ApprovalsHold, NEW j \in BankJobs, FinishImport(j)
    PROVE  ApprovalsHold'
  BY DEF FinishImport, At, Leave, LeaseHeld, Unleased, Current, NoFacts, Absent, Owns,
         Unoccupied, BankTyped, JobsTyped, ApprovalsHold, ApprovedAsShown

LEMMA FailImportApprovals ==
    ASSUME BankTyped, BankAssumption, ApprovalsHold, NEW j \in BankJobs,
           NEW repair \in BOOLEAN, FailImport(j, repair)
    PROVE  ApprovalsHold'
  <1>0. job[j] \in Imports
    BY KindsOfJobs DEF FailImport, BankTyped, At, ImportPcs
  <1>1. \A k \in BankJobs : k # j => job'[k] = job[k]
    BY DEF FailImport, BankTyped, JobsTyped, To, Leave
  <1>2. job'[j].pc \in {"report", "idle"}
    BY <1>0 DEF Imports, FailImport, BankTyped, JobsTyped, To, Leave, Unoccupied
  <1>3. CASE Owns(j)
    <2>1. feed'.owner = NoBankJob /\ feed'.promotion # "approved"
      BY <1>3 DEF FailImport, Released, Unleased, BankTyped, BankTypeOK
    <2> QED
      BY <1>1, <1>2, <2>1 DEF FailImport, ApprovalsHold, ApprovedAsShown, Owns,
             BankAssumption
  <1>4. CASE ~Owns(j)
    <2>1. feed' = feed /\ past'.shown = past.shown
      BY <1>4 DEF FailImport, Crossing, BankTyped, PastTyped, Pasts
    <2> QED
      BY <1>1, <1>2, <1>4, <2>1 DEF ApprovalsHold, ApprovedAsShown, Owns
  <1> QED
    BY <1>3, <1>4

LEMMA ClaimFeedApprovals ==
    ASSUME BankTyped, BankAssumption, ApprovalsHold, NEW j \in BankJobs, ClaimFeed(j)
    PROVE  ApprovalsHold'
  BY DEF ClaimFeed, Unleased, Unoccupied, Overtaken, Disconnected, NoItem,
         BankTyped, JobsTyped, ApprovalsHold, ApprovedAsShown, Owns

LEMMA ExchangeTokenApprovals ==
    ASSUME BankTyped, BankAssumption, ApprovalsHold, NEW j \in BankJobs, ExchangeToken(j)
    PROVE  ApprovalsHold'
  BY DEF ExchangeToken, At, NoFacts, Absent, BankTyped, JobsTyped, ApprovalsHold,
         ApprovedAsShown, Owns, Unoccupied

LEMMA ExchangeFailsApprovals ==
    ASSUME BankTyped, BankAssumption, ApprovalsHold, NEW j \in BankJobs, ExchangeFails(j)
    PROVE  ApprovalsHold'
  BY DEF ExchangeFails, At, Leave, RestoreClaim, NoItem, Unoccupied, BankTyped,
         JobsTyped, ApprovalsHold, ApprovedAsShown, Owns

LEMMA SaveTokenApprovals ==
    ASSUME BankTyped, BankAssumption, ApprovalsHold, NEW j \in BankJobs, SaveToken(j)
    PROVE  ApprovalsHold'
  BY DEF SaveToken, At, To, BankTyped, JobsTyped, ApprovalsHold, ApprovedAsShown, Owns,
         Unoccupied

LEMMA ConnectFeedApprovals ==
    ASSUME BankTyped, BankAssumption, ApprovalsHold, NEW j \in BankJobs, ConnectFeed(j)
    PROVE  ApprovalsHold'
  BY DEF ConnectFeed, At, To, BankTyped, JobsTyped, ApprovalsHold, ApprovedAsShown,
         Owns, Unoccupied

LEMMA GiveUpApprovals ==
    ASSUME BankTyped, BankAssumption, ApprovalsHold, NEW j \in BankJobs, GiveUp(j)
    PROVE  ApprovalsHold'
  BY DEF GiveUp, To, BankTyped, JobsTyped, ApprovalsHold, ApprovedAsShown, Owns,
         Unoccupied

LEMMA RemoveExchangedApprovals ==
    ASSUME BankTyped, BankAssumption, ApprovalsHold, NEW j \in BankJobs, RemoveExchanged(j)
    PROVE  ApprovalsHold'
  BY DEF RemoveExchanged, At, To, BankTyped, JobsTyped, ApprovalsHold, ApprovedAsShown,
         Owns, Unoccupied

LEMMA RemovalFailsApprovals ==
    ASSUME BankTyped, BankAssumption, ApprovalsHold, NEW j \in BankJobs, RemovalFails(j)
    PROVE  ApprovalsHold'
  BY DEF RemovalFails, At, Leave, Unoccupied, BankTyped, JobsTyped, ApprovalsHold,
         ApprovedAsShown, Owns

LEMMA DropExchangedApprovals ==
    ASSUME BankTyped, BankAssumption, ApprovalsHold, NEW j \in BankJobs, DropExchanged(j)
    PROVE  ApprovalsHold'
  BY DEF DropExchanged, At, To, NoItem, BankTyped, JobsTyped, ApprovalsHold,
         ApprovedAsShown, Owns, Unoccupied

LEMMA RestoreExchangedApprovals ==
    ASSUME BankTyped, BankAssumption, ApprovalsHold, NEW j \in BankJobs, RestoreExchanged(j)
    PROVE  ApprovalsHold'
  BY DEF RestoreExchanged, At, Leave, RestoreClaim, NoItem, Unoccupied, BankTyped,
         JobsTyped, ApprovalsHold, ApprovedAsShown, Owns

LEMMA ReportApprovals ==
    ASSUME BankTyped, BankAssumption, ApprovalsHold, NEW j \in BankJobs, Report(j)
    PROVE  ApprovalsHold'
  BY DEF Report, At, Leave, Unoccupied, BankTyped, JobsTyped, ApprovalsHold,
         ApprovedAsShown, Owns

LEMMA RemoveItemApprovals ==
    ASSUME BankTyped, BankAssumption, ApprovalsHold, NEW j \in BankJobs, RemoveItem(j)
    PROVE  ApprovalsHold'
  BY DEF RemoveItem, At, To, BankTyped, JobsTyped, ApprovalsHold, ApprovedAsShown, Owns,
         Unoccupied

LEMMA DropTokenApprovals ==
    ASSUME BankTyped, BankAssumption, ApprovalsHold, NEW j \in BankJobs, DropToken(j)
    PROVE  ApprovalsHold'
  BY DEF DropToken, At, To, NoItem, BankTyped, JobsTyped, ApprovalsHold,
         ApprovedAsShown, Owns, Unoccupied

LEMMA RevokeFeedApprovals ==
    ASSUME BankTyped, BankAssumption, ApprovalsHold, NEW j \in BankJobs, RevokeFeed(j)
    PROVE  ApprovalsHold'
  BY DEF RevokeFeed, At, Leave, Owns, Unleased, NoItem, Unoccupied, BankTyped,
         JobsTyped, ApprovalsHold, ApprovedAsShown

LEMMA DisconnectFailsApprovals ==
    ASSUME BankTyped, BankAssumption, ApprovalsHold, NEW j \in BankJobs, DisconnectFails(j)
    PROVE  ApprovalsHold'
  BY DEF DisconnectFails, Leave, Released, Owns, Unleased, Unoccupied, BankTyped,
         JobsTyped, ApprovalsHold, ApprovedAsShown

LEMMA CheckDisconnectedApprovals ==
    ASSUME BankTyped, BankAssumption, ApprovalsHold, NEW j \in BankJobs,
           CheckDisconnected(j)
    PROVE  ApprovalsHold'
  BY DEF CheckDisconnected, Unoccupied, Disconnected, BankTyped, JobsTyped,
         ApprovalsHold, ApprovedAsShown, Owns

LEMMA EraseDataApprovals ==
    ASSUME BankTyped, BankAssumption, ApprovalsHold, NEW j \in BankJobs, EraseData(j)
    PROVE  ApprovalsHold'
  BY DEF EraseData, At, Unleased, Unoccupied, Overtaken, Reshown, NoRows, NoItem,
         Absent, BankTyped, JobsTyped, ApprovalsHold, ApprovedAsShown, Owns

LEMMA ReadForApprovalApprovals ==
    ASSUME BankTyped, BankAssumption, ApprovalsHold, NEW j \in BankJobs, ReadForApproval(j)
    PROVE  ApprovalsHold'
  BY DEF ReadForApproval, Unleased, Unoccupied, Approvable, BankTyped, JobsTyped,
         ApprovalsHold, ApprovedAsShown, Owns

LEMMA ApproveFeedApprovals ==
    ASSUME BankTyped, BankAssumption, ApprovalsHold, NEW j \in BankJobs, ApproveFeed(j)
    PROVE  ApprovalsHold'
  BY DEF ApproveFeed, BankTyped, JobsTyped, BankTypeOK, PastTyped, Pasts, ApprovalsHold,
         ApprovedAsShown, At, To, Leave, Owns, LeaseHeld, Released, Unleased,
         Unoccupied, BankAssumption, RestoreClaim, Staged, Overtaken, Reshown

LEMMA EvictJobApprovals ==
    ASSUME BankTyped, BankAssumption, ApprovalsHold, NEW j \in BankJobs, EvictJob(j)
    PROVE  ApprovalsHold'
  BY DEF EvictJob, Leave, Unoccupied, BankTyped, JobsTyped, ApprovalsHold,
         ApprovedAsShown, Owns

-----------------------------------------------------------------------------
(* The other parts of the invariant.                                       *)

\* A step that changes neither Plaid nor the books, and of the feed at most the status
\* between two in which it is connected; some requests end, or have only to report.
LEMMA QuietKeeps ==
    ASSUME BankAssumption, BankInv,
           \A k \in BankJobs : \/ job'[k] \in {job[k], Unoccupied}
                               \/ job'[k].pc = "report",
           feed'.status = feed.status \/ (Online /\ Online'),
           feed'.item = feed.item, feed'.cursor = feed.cursor,
           feed'.erased = feed.erased, feed'.owner \in {feed.owner, NoBankJob},
           past'.lost = past.lost, past'.furthest = past.furthest, past'.late = past.late,
           UNCHANGED << plaid, bank, changes, token, lines >>
    PROVE  BankInv'
<1> USE DEF Unoccupied, Online, Disconnected, ClaimPcs, ImportPcs
<1>1. FeedHolds'
  BY DEF BankInv, FeedHolds
<1>2. ASSUME NEW i \in BankJobs PROVE ClaimHolds(i)'
  BY DEF BankInv, ClaimHolds
<1>3. ASSUME NEW i \in BankJobs PROVE DropHolds(i)'
  BY DEF BankInv, DropHolds
<1>4. ASSUME NEW i \in BankJobs PROVE WriterHolds(i)'
  BY DEF BankInv, WriterHolds, Owns, Matched, BankAssumption
<1>5. StaleIsHarmless'
  BY DEF BankInv, StaleIsHarmless
<1>6. BooksBounded' /\ CursorMatches' /\ CursorFirm' /\ ErasedIsEmpty'
  BY DEF BankInv, BooksBounded, CursorMatches, Matched, CursorFirm, ErasedIsEmpty
<1> QED
  BY <1>1, <1>2, <1>3, <1>4, <1>5, <1>6 DEF BankInv

\* Without an institution, nobody who holds the lease imports.
LEMMA NoWriterOffline ==
    ASSUME BankTyped, BankInv, ~Online, NEW i \in BankJobs,
           job[i].pc \in {"fetch", "write", "renewed"}
    PROVE  ~Owns(i)
<1>1. job[i] \in Imports
  BY KindsOfJobs DEF BankTyped, ImportPcs
<1>2. job[i].item # NoItem
  BY <1>1 DEF Imports, Items, NoItem
<1> QED
  BY <1>2 DEF BankInv, WriterHolds, FeedHolds

LEMMA BankChangesKeeps ==
    ASSUME BankTyped, BankAssumption, BankInv, NEW m \in BankLines, NEW gone \in BOOLEAN,
           BankChanges(m, gone)
    PROVE  BankInv'
<1>1. FeedHolds'
  BY DEF BankChanges, BankInv, FeedHolds, Online, Disconnected
<1>2. ASSUME NEW i \in BankJobs PROVE ClaimHolds(i)'
  BY DEF BankChanges, BankInv, ClaimHolds, ClaimPcs
<1>3. ASSUME NEW i \in BankJobs PROVE DropHolds(i)'
  BY DEF BankChanges, BankInv, DropHolds, Online
<1>4. ASSUME NEW i \in BankJobs PROVE WriterHolds(i)'
  <2>1. \A n \in BankLines : bank'[n] = IF n = m THEN [at |-> changes + 1, gone |-> gone]
                                               ELSE bank[n]
    BY DEF BankChanges, BankTyped, BankTypeOK
  <2>3. job[i].pc \in {"write", "renewed"} => job[i] \in Imports
    BY KindsOfJobs DEF BankTyped, ImportPcs
  <2>4. changes \in Nat /\ changes' = changes + 1
    BY DEF BankChanges, BankTyped, BankTypeOK, Counts, BankAssumption
  <2>5. job[i].pc \in {"write", "renewed"} => job[i].next \in Nat
    BY <2>3 DEF Imports, Counts, BankAssumption
  <2>6. WriterHolds(i)
    BY DEF BankInv
  <2> QED
    BY <2>1, <2>4, <2>5, <2>6 DEF WriterHolds, Owns, Matched, BankChanges
<1>5. StaleIsHarmless'
  BY DEF BankChanges, BankInv, StaleIsHarmless, ImportPcs
<1>6. BooksBounded'
  <2>1. \A n \in BankLines : bank'[n] = IF n = m THEN [at |-> changes + 1, gone |-> gone]
                                               ELSE bank[n]
    BY DEF BankChanges, BankTyped, BankTypeOK
  <2>2. changes \in Nat /\ changes' = changes + 1
    BY DEF BankChanges, BankTyped, BankTypeOK, Counts, BankAssumption
  <2>3. feed.cursor \in Nat /\ \A n \in BankLines : bank[n].at \in Nat
    BY DEF BankTyped, BankTypeOK, Counts, Facts, BankAssumption
  <2>4. BooksBounded
    BY DEF BankInv
  <2> QED
    BY <2>1, <2>2, <2>3, <2>4 DEF BooksBounded, BankChanges
<1>7. CursorMatches'
  <2>1. \A n \in BankLines : bank'[n] = IF n = m THEN [at |-> changes + 1, gone |-> gone]
                                               ELSE bank[n]
    BY DEF BankChanges, BankTyped, BankTypeOK
  <2>2. changes \in Nat /\ feed.cursor \in Nat /\ feed.cursor <= changes
    BY DEF BankTyped, BankTypeOK, Counts, BankAssumption, BankInv, BooksBounded
  <2> QED
    BY <2>1, <2>2 DEF BankChanges, BankInv, CursorMatches, Matched
<1>8. CursorFirm'
  BY DEF BankChanges, BankInv, CursorFirm
<1>9. ErasedIsEmpty'
  BY DEF BankChanges, BankInv, ErasedIsEmpty
<1> QED
  BY <1>1, <1>2, <1>3, <1>4, <1>5, <1>6, <1>7, <1>8, <1>9 DEF BankInv

LEMMA BankLeaseExpiresKeeps ==
    ASSUME BankTyped, BankAssumption, BankInv, BankLeaseExpires
    PROVE  BankInv'
<1>1. FeedHolds'
  BY DEF BankLeaseExpires, BankInv, FeedHolds, Online, Disconnected
<1>2. ASSUME NEW i \in BankJobs PROVE ClaimHolds(i)'
  BY DEF BankLeaseExpires, BankInv, ClaimHolds, ClaimPcs
<1>3. ASSUME NEW i \in BankJobs PROVE DropHolds(i)'
  BY DEF BankLeaseExpires, BankInv, DropHolds, Online
<1>4. ASSUME NEW i \in BankJobs PROVE WriterHolds(i)'
  BY DEF BankLeaseExpires, BankInv, WriterHolds, Owns, Matched
<1>5. StaleIsHarmless'
  BY DEF BankLeaseExpires, BankInv, StaleIsHarmless, ImportPcs
<1>6. BooksBounded' /\ CursorMatches' /\ CursorFirm' /\ ErasedIsEmpty'
  BY DEF BankLeaseExpires, BankInv, BooksBounded, CursorMatches, Matched,
         CursorFirm, ErasedIsEmpty
<1> QED
  BY <1>1, <1>2, <1>3, <1>4, <1>5, <1>6 DEF BankInv

LEMMA ExcludeFeedKeeps ==
    ASSUME BankTyped, BankAssumption, BankInv, ExcludeFeed
    PROVE  BankInv'
<1>1. FeedHolds'
  BY DEF ExcludeFeed, BankInv, FeedHolds, Online, Disconnected
<1>2. ASSUME NEW i \in BankJobs PROVE ClaimHolds(i)'
  BY DEF ExcludeFeed, BankInv, ClaimHolds, ClaimPcs
<1>3. ASSUME NEW i \in BankJobs PROVE DropHolds(i)'
  BY DEF ExcludeFeed, BankInv, DropHolds, Online
<1>4. ASSUME NEW i \in BankJobs PROVE WriterHolds(i)'
  BY DEF ExcludeFeed, BankInv, WriterHolds, Owns, Matched
<1>5. StaleIsHarmless'
  BY DEF ExcludeFeed, BankInv, StaleIsHarmless, ImportPcs
<1>6. BooksBounded' /\ CursorMatches' /\ CursorFirm' /\ ErasedIsEmpty'
  BY DEF ExcludeFeed, BankInv, BooksBounded, CursorMatches, Matched, CursorFirm,
         ErasedIsEmpty
<1> QED
  BY <1>1, <1>2, <1>3, <1>4, <1>5, <1>6 DEF BankInv

LEMMA NoticeKeeps ==
    ASSUME BankTyped, BankAssumption, BankInv, NEW repaired \in BOOLEAN, Notice(repaired)
    PROVE  BankInv'
<1>1. FeedHolds'
  BY DEF Notice, NoItem, BankInv, FeedHolds, Online, Disconnected
<1>2. ASSUME NEW i \in BankJobs PROVE ClaimHolds(i)'
  BY DEF Notice, NoItem, BankInv, ClaimHolds, ClaimPcs
<1>3. ASSUME NEW i \in BankJobs PROVE DropHolds(i)'
  BY DEF Notice, NoItem, BankInv, DropHolds, Online
<1>4. ASSUME NEW i \in BankJobs PROVE WriterHolds(i)'
  BY DEF Notice, NoItem, BankInv, WriterHolds, Owns, Matched
<1>5. StaleIsHarmless'
  BY DEF Notice, NoItem, BankInv, StaleIsHarmless, ImportPcs
<1>6. BooksBounded' /\ CursorMatches' /\ CursorFirm' /\ ErasedIsEmpty'
  BY DEF Notice, NoItem, BankInv, BooksBounded, CursorMatches, Matched,
         CursorFirm, ErasedIsEmpty
<1> QED
  BY <1>1, <1>2, <1>3, <1>4, <1>5, <1>6 DEF BankInv

LEMMA ReadCredentialsKeeps ==
    ASSUME BankTyped, BankAssumption, BankInv, NEW j \in BankJobs,
           NEW use \in {"import", "first", "disconnect"}, ReadCredentials(j, use)
    PROVE  BankInv'
<1>1. FeedHolds'
  BY DEF ReadCredentials, Credentials, NoFacts, Absent, NoItem, BankInv, FeedHolds,
         Online, Disconnected
<1>2. ASSUME NEW i \in BankJobs PROVE ClaimHolds(i)'
  BY DEF ReadCredentials, Credentials, NoFacts, Absent, NoItem, BankInv, ClaimHolds,
         ClaimPcs
<1>3. ASSUME NEW i \in BankJobs PROVE DropHolds(i)'
  BY DEF ReadCredentials, Credentials, NoFacts, Absent, NoItem, BankInv, DropHolds,
         Online
<1>4. ASSUME NEW i \in BankJobs PROVE WriterHolds(i)'
  BY DEF ReadCredentials, Credentials, NoFacts, Absent, NoItem, BankInv, WriterHolds,
         Owns, Matched
<1>5. StaleIsHarmless'
  BY DEF ReadCredentials, Credentials, NoFacts, Absent, NoItem, BankInv,
         StaleIsHarmless, ImportPcs, BankTyped, JobsTyped, BankTypeOK, PastTyped, Pasts,
         Unoccupied, BankAssumption, Counts, Items, FeedHolds, Online, Disconnected,
         ClaimHolds, ClaimPcs, DropHolds
<1>6. BooksBounded' /\ CursorMatches' /\ CursorFirm' /\ ErasedIsEmpty'
  BY DEF ReadCredentials, Credentials, NoFacts, Absent, NoItem, BankInv, BooksBounded,
         CursorMatches, Matched, CursorFirm, ErasedIsEmpty
<1> QED
  BY <1>1, <1>2, <1>3, <1>4, <1>5, <1>6 DEF BankInv

LEMMA CredentialsGoneKeeps ==
    ASSUME BankTyped, BankAssumption, BankInv, NEW j \in BankJobs, CredentialsGone(j)
    PROVE  BankInv'
<1>0. job[j] \in Claims
  BY KindsOfJobs DEF CredentialsGone, At, BankTyped, ClaimPcs, ImportPcs
<1>1. FeedHolds'
  BY DEF CredentialsGone, At, To, Credentials, NoItem, BankInv, FeedHolds, Online,
         Disconnected
<1>2. ASSUME NEW i \in BankJobs PROVE ClaimHolds(i)'
  <2>1. \A k \in BankJobs : k # j => job'[k] = job[k]
    BY DEF CredentialsGone, To, BankTyped, JobsTyped
  <2>2. job'[j].pc = "report"
    BY <1>0 DEF CredentialsGone, To, BankTyped, JobsTyped, Claims
  <2>3. UNCHANGED << plaid, feed, token, lines, past >>
    BY DEF CredentialsGone
  <2> QED
    BY <2>1, <2>2, <2>3 DEF BankInv, ClaimHolds, ClaimPcs, ImportPcs
<1>3. ASSUME NEW i \in BankJobs PROVE DropHolds(i)'
  BY DEF CredentialsGone, At, To, Credentials, NoItem, BankInv, DropHolds, Online
<1>4. ASSUME NEW i \in BankJobs PROVE WriterHolds(i)'
  BY DEF CredentialsGone, At, To, Credentials, NoItem, BankInv, WriterHolds, Owns,
         Matched
<1>5. StaleIsHarmless'
  BY DEF CredentialsGone, At, To, Credentials, NoItem, BankInv, StaleIsHarmless,
         ImportPcs
<1>6. BooksBounded' /\ CursorMatches' /\ CursorFirm' /\ ErasedIsEmpty'
  BY DEF CredentialsGone, At, To, Credentials, NoItem, BankInv, BooksBounded,
         CursorMatches, Matched, CursorFirm, ErasedIsEmpty
<1> QED
  BY <1>1, <1>2, <1>3, <1>4, <1>5, <1>6 DEF BankInv

LEMMA LeaseFeedKeeps ==
    ASSUME BankTyped, BankAssumption, BankInv, NEW j \in BankJobs, LeaseFeed(j)
    PROVE  BankInv'
<1>1. job[j] \in Imports /\ job[j].pc = "lease"
  BY KindsOfJobs DEF LeaseFeed, At, BankTyped, ImportPcs
<1>2. CASE feed.live
  <2>1. \A k \in BankJobs : k # j => job'[k] = job[k]
    BY <1>2 DEF LeaseFeed, To, Leave, BankTyped, JobsTyped
  <2>2. job'[j] = Unoccupied \/ job'[j].pc = "report"
    BY <1>1, <1>2 DEF LeaseFeed, To, Leave, BankTyped, JobsTyped, Imports, Unoccupied
  <2>3. UNCHANGED << plaid, bank, changes, feed, token, lines, past >>
    BY <1>2 DEF LeaseFeed
  <2> QED
    BY <2>1, <2>2, <2>3, QuietKeeps
<1>3. CASE ~feed.live
  <2>1. \A k \in BankJobs : k # j => job'[k] \in {job[k], Unoccupied}
    BY <1>3 DEF LeaseFeed, BankTyped, JobsTyped, Overtaken
  <2>2. /\ job'[j].pc \in {"remove", "stage"}
        /\ job'[j].item = job[j].item /\ job'[j].cursor = job[j].cursor
    BY <1>1, <1>3 DEF LeaseFeed, BankTyped, JobsTyped, Overtaken, Imports
  <2>3. /\ feed'.status = feed.status /\ feed'.item = feed.item /\ feed'.cursor = feed.cursor
        /\ feed'.erased = feed.erased /\ feed'.owner = j
    BY <1>3 DEF LeaseFeed, BankTyped, BankTypeOK
  <2>4. UNCHANGED << plaid, bank, changes, token, lines, past >>
    BY DEF LeaseFeed
  <2> USE DEF Unoccupied, Online, Disconnected, ClaimPcs, ImportPcs
  <2>5. FeedHolds'
    BY <1>1, <2>3, <2>4 DEF BankInv, FeedHolds
  <2>6. ASSUME NEW i \in BankJobs PROVE ClaimHolds(i)'
    BY <1>1, <2>1, <2>2, <2>3, <2>4 DEF BankInv, ClaimHolds
  <2>7. ASSUME NEW i \in BankJobs PROVE DropHolds(i)'
    BY <2>1, <2>2, <2>3, <2>4 DEF BankInv, DropHolds
  <2>8. ASSUME NEW i \in BankJobs PROVE WriterHolds(i)'
    BY <2>1, <2>2, <2>3, <2>4 DEF BankInv, WriterHolds, Owns
  <2>9. StaleIsHarmless'
    BY <1>1, <2>1, <2>2, <2>3, <2>4 DEF BankInv, StaleIsHarmless
  <2>10. BooksBounded' /\ CursorMatches' /\ CursorFirm' /\ ErasedIsEmpty'
    BY <2>3, <2>4 DEF BankInv, BooksBounded, CursorMatches, Matched, CursorFirm,
           ErasedIsEmpty
  <2> QED
    BY <2>5, <2>6, <2>7, <2>8, <2>9, <2>10 DEF BankInv
<1> QED
  BY <1>2, <1>3

LEMMA StageFeedKeeps ==
    ASSUME BankTyped, BankAssumption, BankInv, NEW j \in BankJobs, StageFeed(j)
    PROVE  BankInv'
<1>1. FeedHolds'
  BY DEF StageFeed, At, To, Staged, Current, Owns, BankInv, FeedHolds, Online,
         Disconnected
<1>2. ASSUME NEW i \in BankJobs PROVE ClaimHolds(i)'
  BY DEF StageFeed, At, To, Staged, Current, Owns, BankInv, ClaimHolds, ClaimPcs
<1>3. ASSUME NEW i \in BankJobs PROVE DropHolds(i)'
  BY DEF StageFeed, At, To, Staged, Current, Owns, BankInv, DropHolds, Online
<1>4. ASSUME NEW i \in BankJobs PROVE WriterHolds(i)'
  BY DEF StageFeed, At, To, Staged, Current, Owns, BankInv, WriterHolds, Matched
<1>5. StaleIsHarmless'
  BY DEF StageFeed, At, To, Staged, Current, Owns, BankInv, StaleIsHarmless, ImportPcs
<1>6. BooksBounded' /\ CursorMatches' /\ CursorFirm' /\ ErasedIsEmpty'
  BY DEF StageFeed, At, To, Staged, Current, Owns, BankInv, BooksBounded, CursorMatches,
         Matched, CursorFirm, ErasedIsEmpty
<1> QED
  BY <1>1, <1>2, <1>3, <1>4, <1>5, <1>6 DEF BankInv

LEMMA FetchChangesKeeps ==
    ASSUME BankTyped, BankAssumption, BankInv, NEW j \in BankJobs, FetchChanges(j)
    PROVE  BankInv'
<1>0. job[j] \in Imports
  BY KindsOfJobs DEF FetchChanges, At, BankTyped, ClaimPcs, ImportPcs
<1>1. FeedHolds'
  BY DEF FetchChanges, At, LeaseHeld, Absent, Owns, BankInv, FeedHolds, Online,
         Disconnected
<1>2. ASSUME NEW i \in BankJobs PROVE ClaimHolds(i)'
  BY <1>0 DEF FetchChanges, At, LeaseHeld, Absent, Owns, BankInv, ClaimHolds, ClaimPcs,
         BankTyped, JobsTyped, BankTypeOK, Imports, ImportPcs, PastTyped, Pasts, Unoccupied,
         NoItem, BankAssumption, Counts, Items
<1>3. ASSUME NEW i \in BankJobs PROVE DropHolds(i)'
  BY DEF FetchChanges, At, LeaseHeld, Absent, Owns, BankInv, DropHolds, Online,
         BankTyped, JobsTyped, Unoccupied
<1>4. ASSUME NEW i \in BankJobs PROVE WriterHolds(i)'
  <2>1. \A k \in BankJobs : k # j => job'[k] = job[k]
    BY DEF FetchChanges, BankTyped, JobsTyped
  <2>2. /\ job'[j].pc = "write" /\ job'[j].next = changes /\ job'[j].item = job[j].item
        /\ \A m \in BankLines : job'[j].got[m] = IF bank[m].at > job[j].cursor THEN bank[m]
                                                                               ELSE Absent
    BY <1>0 DEF FetchChanges, BankTyped, JobsTyped, Imports
  <2>3. UNCHANGED << bank, changes, feed, lines, past >>
    BY DEF FetchChanges
  <2>4. /\ job[j].item = feed.item /\ job[j].cursor <= feed.cursor /\ feed.cursor <= changes
        /\ feed.item # NoItem
    BY <1>0 DEF FetchChanges, At, LeaseHeld, BankInv, WriterHolds, StaleIsHarmless,
           ImportPcs,
                BooksBounded, Imports, Items, NoItem
  <2>5. job[j].cursor \in Nat /\ feed.cursor \in Nat /\ \A m \in BankLines : bank[m].at \in Nat
    BY <1>0 DEF Imports, BankTyped, BankTypeOK, Counts, Facts, BankAssumption
  <2>6. \A m \in BankLines : bank[m].at <= job[j].cursor => Matched(m)
    BY <2>4, <2>5 DEF BankInv, CursorMatches
  <2>7. \A m \in BankLines : Matched(m)' <=> Matched(m)
    BY <2>3 DEF Matched
  <2>8. \A m \in BankLines : bank[m].at > job[j].cursor => bank[m] # Absent
    BY <2>5 DEF Absent
  <2>9. \A m \in BankLines : IF job'[j].got[m] = Absent THEN Matched(m)
                                                        ELSE job'[j].got[m] = bank[m]
    BY <2>2, <2>5, <2>6, <2>8
  <2>10. CASE i = j
    <3>1. changes \in Nat /\ changes <= changes
      BY DEF BankTyped, BankTypeOK, Counts, BankAssumption
    <3>2. job'[j].item = feed'.item /\ feed'.cursor <= job'[j].next /\ job'[j].next <= changes'
      BY <2>2, <2>3, <2>4, <3>1
    <3>3. \A m \in BankLines : IF job'[j].got[m] = Absent THEN Matched(m)'
                                                        ELSE job'[j].got[m] = bank'[m]
      BY <2>3, <2>7, <2>9
    <3> QED
      BY <2>10, <3>2, <3>3 DEF WriterHolds
  <2>11. CASE i # j
    BY <2>1, <2>3, <2>7, <2>11 DEF BankInv, WriterHolds, Owns
  <2> QED
    BY <2>10, <2>11
<1>5. StaleIsHarmless'
  BY DEF FetchChanges, At, LeaseHeld, Absent, Owns, BankInv, StaleIsHarmless, ImportPcs,
         BankTyped, JobsTyped, Unoccupied
<1>6. BooksBounded' /\ CursorMatches' /\ CursorFirm' /\ ErasedIsEmpty'
  BY DEF FetchChanges, At, LeaseHeld, Absent, Owns, BankInv, BooksBounded,
         CursorMatches, Matched, CursorFirm, ErasedIsEmpty
<1> QED
  BY <1>1, <1>2, <1>3, <1>4, <1>5, <1>6 DEF BankInv

LEMMA RenewForWriteKeeps ==
    ASSUME BankTyped, BankAssumption, BankInv, NEW j \in BankJobs, RenewForWrite(j)
    PROVE  BankInv'
<1>0. job[j] \in Imports
  BY KindsOfJobs DEF RenewForWrite, At, BankTyped, ImportPcs
<1>1. \A k \in BankJobs : k # j => job'[k] = job[k]
  BY DEF RenewForWrite, To, BankTyped, JobsTyped
<1>2. /\ job[j].pc = "write" /\ job'[j].pc = "renewed"
      /\ job'[j].item = job[j].item /\ job'[j].next = job[j].next /\ job'[j].got = job[j].got
  BY <1>0 DEF RenewForWrite, At, To, BankTyped, JobsTyped, Imports
<1>3. UNCHANGED << plaid, bank, changes, feed, token, lines, past >>
  BY DEF RenewForWrite
<1>4. FeedHolds' /\ BooksBounded' /\ CursorMatches' /\ CursorFirm' /\ ErasedIsEmpty'
  BY <1>3 DEF BankInv, FeedHolds, Online, Disconnected, BooksBounded, CursorMatches, Matched,
         CursorFirm, ErasedIsEmpty
<1>5. ASSUME NEW i \in BankJobs PROVE ClaimHolds(i)'
  BY <1>1, <1>2, <1>3 DEF BankInv, ClaimHolds, ClaimPcs, ImportPcs
<1>6. ASSUME NEW i \in BankJobs PROVE DropHolds(i)'
  BY <1>1, <1>2, <1>3 DEF BankInv, DropHolds, Online
<1>7. ASSUME NEW i \in BankJobs PROVE WriterHolds(i)'
  BY <1>1, <1>2, <1>3 DEF BankInv, WriterHolds, Owns, Matched
<1>8. StaleIsHarmless'
  BY <1>1, <1>2, <1>3 DEF BankInv, StaleIsHarmless, ImportPcs
<1> QED
  BY <1>4, <1>5, <1>6, <1>7, <1>8 DEF BankInv

LEMMA WriteLineKeeps ==
    ASSUME BankTyped, BankAssumption, BankInv, NEW j \in BankJobs, NEW m \in BankLines,
           WriteLine(j, m)
    PROVE  BankInv'
<1> DEFINE row == <<job[j].item, m>>
           fact == IF job[j].got[m].gone /\ lines[row] = Absent THEN Absent ELSE job[j].got[m]
<1>1. job[j] \in Imports /\ job[j].pc = "renewed" /\ row \in Rows
  BY KindsOfJobs DEF WriteLine, At, BankTyped, ImportPcs, Imports, Rows
<1>2. UNCHANGED << plaid, bank, changes, feed, token >>
  BY DEF WriteLine
<1>3. \A k \in BankJobs : k # j =>
          job'[k] = job[k] \/ (job[k].pc = "approve" /\ job'[k].pc = "approve")
  BY WriteLineJobs
<1>4. /\ job'[j].pc = "write" /\ job'[j].next = job[j].next /\ job'[j].item = job[j].item
      /\ \A n \in BankLines : job'[j].got[n] = IF n = m THEN Absent ELSE job[j].got[n]
  BY <1>1 DEF WriteLine, Reshown, BankTyped, JobsTyped, Imports
<1>5. /\ past'.lost = past.lost /\ past'.furthest = past.furthest
      /\ past'.late = IF Owns(j) THEN past.late \ {row} ELSE past.late \cup {row}
  BY DEF WriteLine, BankTyped, PastTyped, Pasts
<1>6. lines' = [lines EXCEPT ![row] = fact] /\ lines \in [Rows -> Facts]
  BY DEF WriteLine, BankTyped, BankTypeOK
<1>7. \A r \in Rows : r # row => lines'[r] = lines[r] /\ (r \in past'.late <=> r \in past.late)
  BY <1>5, <1>6
<1>8. lines'[row] = fact /\ (row \in past'.late <=> ~Owns(j))
  BY <1>1, <1>5, <1>6
<1> HIDE DEF fact
<1>9. \A i \in Items, n \in BankLines : <<i, n>> \in Rows /\ (n # m => <<i, n>> # row)
  BY DEF Rows
<1>10. Owns(j) => /\ job[j].item = feed.item /\ feed.cursor <= job[j].next
                  /\ \A n \in BankLines :
                        bank[n].at <= job[j].next =>
                            IF job[j].got[n] = Absent THEN Matched(n) ELSE job[j].got[n] = bank[n]
  BY <1>1 DEF BankInv, WriterHolds
<1>11. job[j].got[m] # Absent
  BY DEF WriteLine
<1>12. ASSUME NEW n \in BankLines, n # m, feed.item \in Items PROVE Matched(n)' <=> Matched(n)
  BY <1>2, <1>7, <1>9, <1>12 DEF Matched
<1>13. ASSUME feed.item \in Items, job[j].item # feed.item, NEW n \in BankLines
       PROVE  Matched(n)' <=> Matched(n)
  <2>1. <<feed.item, n>> \in Rows /\ <<feed.item, n>> # row
    BY <1>13 DEF Rows
  <2> QED
    BY <1>2, <1>7, <2>1 DEF Matched
<1>14. ASSUME job[j].item = feed.item, bank[m].at <= job[j].next PROVE Matched(m)'
  <2>1. CASE Owns(j)
    BY <1>2, <1>8, <1>10, <1>11, <1>14, <2>1 DEF Matched, fact
  <2>2. CASE ~Owns(j)
    BY <1>2, <1>8, <1>14, <2>2 DEF Matched
  <2> QED
    BY <2>1, <2>2
<1>15. ASSUME job[j].item = feed.item, Matched(m) PROVE Matched(m)' \/ Owns(j)
  BY <1>2, <1>8, <1>15 DEF Matched
<1>16. FeedHolds' /\ CursorFirm'
  BY <1>2, <1>5 DEF BankInv, FeedHolds, Online, Disconnected, CursorFirm
<1>17. ASSUME NEW i \in BankJobs PROVE ClaimHolds(i)'
  <2>1. SUFFICES ASSUME job'[i].pc \in ClaimPcs PROVE ClaimHolds(i)'
    BY DEF ClaimHolds
  <2>2. i # j /\ job'[i] = job[i] /\ ClaimHolds(i)
    BY <1>3, <1>4, <2>1 DEF BankInv, ClaimPcs
  <2>3. \A k \in BankJobs : /\ job'[k].pc \in ClaimPcs => job[k].pc \in ClaimPcs
                            /\ job'[k].pc \in ImportPcs =>
                                  job[k].pc \in ImportPcs /\ job'[k].item = job[k].item
    BY <1>1, <1>3, <1>4 DEF ClaimPcs, ImportPcs
  <2>4. job[i].pc \in {"exchanged", "saved", "undo"} =>
            /\ job[i].item \in Items /\ job[i].item # job[j].item
            /\ \A n \in BankLines : lines'[<<job[i].item, n>>] = Absent
    <3>1. SUFFICES ASSUME job[i].pc \in {"exchanged", "saved", "undo"}
                   PROVE  /\ job[i].item \in Items /\ job[i].item # job[j].item
                          /\ \A n \in BankLines : lines'[<<job[i].item, n>>] = Absent
      OBVIOUS
    <3>2. /\ job[i].item \in Items /\ job[i].item # job[j].item
          /\ \A n \in BankLines : lines[<<job[i].item, n>>] = Absent
      BY <1>1, <2>1, <2>2, <3>1 DEF ClaimHolds, ClaimPcs, ImportPcs
    <3>3. \A n \in BankLines : <<job[i].item, n>> \in Rows /\ <<job[i].item, n>> # row
      BY <3>2 DEF Rows
    <3> QED
      BY <1>7, <3>2, <3>3
  <2> QED
    BY <1>2, <1>5, <2>1, <2>2, <2>3, <2>4 DEF ClaimHolds
<1>18. ASSUME NEW i \in BankJobs PROVE DropHolds(i)'
  BY <1>2, <1>3, <1>4 DEF BankInv, DropHolds, Online
<1>19. ASSUME NEW i \in BankJobs PROVE WriterHolds(i)'
  <2>1. SUFFICES ASSUME job'[i].pc \in {"fetch", "write", "renewed"}, Owns(i)'
                 PROVE  WriterHolds(i)'
    BY DEF WriterHolds
  <2>2. Owns(i) /\ WriterHolds(i) /\ job[i].pc \in {"fetch", "write", "renewed"}
    BY <1>1, <1>2, <1>3, <1>4, <2>1 DEF Owns, BankInv
  <2>3. job[i] \in Imports /\ feed.item = job[i].item /\ feed.item \in Items
    BY <2>2, KindsOfJobs DEF WriterHolds, BankTyped, ImportPcs, Imports
  <2>4. CASE i = j
    BY <1>1, <1>2, <1>4, <1>10, <1>12, <1>14, <2>2, <2>3, <2>4 DEF WriterHolds
  <2>5. CASE i # j
    <3>1. job'[i] = job[i] /\ ~Owns(j)
      BY <1>3, <2>2, <2>5 DEF Owns
    <3>2. ASSUME NEW n \in BankLines, Matched(n) PROVE Matched(n)'
      BY <1>12, <1>13, <1>15, <2>3, <3>1, <3>2
    <3> QED
      BY <1>2, <2>2, <3>1, <3>2 DEF WriterHolds
  <2> QED
    BY <2>4, <2>5
<1>20. StaleIsHarmless'
  BY <1>1, <1>2, <1>3, <1>4 DEF BankInv, StaleIsHarmless, ImportPcs
<1>21. BooksBounded'
  <2>1. job[j].item <= plaid.latest
    BY <1>1 DEF BankInv, StaleIsHarmless, ImportPcs
  <2>2. job[j].item \in Nat /\ plaid.latest \in Nat /\ Items \subseteq Nat
    BY <1>1 DEF Imports, Items, BankTyped, BankTypeOK
  <2>3. \A i \in Items, n \in BankLines :
            i > plaid.latest => <<i, n>> \in Rows /\ <<i, n>> # row
    BY <2>1, <2>2 DEF Rows
  <2> QED
    BY <1>2, <1>7, <2>3 DEF BankInv, BooksBounded
<1>22. CursorMatches'
  <2>1. SUFFICES ASSUME feed.item # NoItem, NEW n \in BankLines, bank[n].at <= feed.cursor
                 PROVE  Matched(n)'
    BY <1>2 DEF CursorMatches
  <2>2. feed.item \in Items /\ Matched(n)
    BY <2>1 DEF BankInv, FeedHolds, CursorMatches
  <2>3. CASE n # m \/ job[j].item # feed.item
    BY <1>12, <1>13, <2>2, <2>3
  <2>4. CASE n = m /\ job[j].item = feed.item /\ ~Owns(j)
    BY <1>15, <2>2, <2>4
  <2>5. CASE n = m /\ job[j].item = feed.item /\ Owns(j)
    <3>1. feed.cursor \in Nat /\ job[j].next \in Nat /\ bank[m].at \in Nat
      BY <1>1 DEF Imports, BankTyped, BankTypeOK, Counts, Facts, BankAssumption
    <3>2. bank[m].at <= job[j].next
      BY <1>10, <2>1, <2>5, <3>1
    <3> QED
      BY <1>14, <2>5, <3>2
  <2> QED
    BY <2>3, <2>4, <2>5
<1>23. ErasedIsEmpty'
  <2>1. SUFFICES ASSUME feed.erased PROVE ErasedIsEmpty'
    BY <1>2 DEF ErasedIsEmpty
  <2>2. ~Owns(j)
    BY <1>1, <1>10, <2>1 DEF BankInv, FeedHolds, Imports, Items, NoItem
  <2> QED
    BY <1>2, <1>7, <1>8, <2>1, <2>2 DEF BankInv, ErasedIsEmpty
<1> QED
  BY <1>16, <1>17, <1>18, <1>19, <1>20, <1>21, <1>22, <1>23 DEF BankInv

LEMMA FinishImportKeeps ==
    ASSUME BankTyped, BankAssumption, BankInv, NEW j \in BankJobs, FinishImport(j)
    PROVE  BankInv'
<1>0. job[j] \in Imports
  BY KindsOfJobs DEF FinishImport, At, BankTyped, ClaimPcs, ImportPcs
<1>1. FeedHolds'
  BY DEF FinishImport, At, Leave, Unleased, Current, NoFacts, Absent, Owns,
         Unoccupied, BankInv, FeedHolds, Online, Disconnected
<1>2. ASSUME NEW i \in BankJobs PROVE ClaimHolds(i)'
  BY DEF FinishImport, At, Leave, Unleased, Current, NoFacts, Absent, Owns,
         Unoccupied, BankInv, ClaimHolds, ClaimPcs
<1>3. ASSUME NEW i \in BankJobs PROVE DropHolds(i)'
  BY DEF FinishImport, At, Leave, Unleased, Current, NoFacts, Absent, Owns,
         Unoccupied, BankInv, DropHolds, Online
<1>4. ASSUME NEW i \in BankJobs PROVE WriterHolds(i)'
  BY DEF FinishImport, At, Leave, Unleased, Current, NoFacts, Absent, Owns,
         Unoccupied, BankInv, WriterHolds, Matched
<1>5. StaleIsHarmless'
  <2>1. \A k \in BankJobs : job'[k] = IF k = j THEN Unoccupied ELSE job[k]
    BY DEF FinishImport, Leave, BankTyped, JobsTyped
  <2>2. feed'.item = feed.item /\ feed'.cursor = job[j].next
    BY DEF FinishImport, Unleased, BankTyped, BankTypeOK
  <2>3. feed.cursor <= job[j].next
    BY DEF FinishImport, At, Current, BankInv, WriterHolds
  <2>4. \A k \in BankJobs : job[k].pc \in ImportPcs => job[k].cursor \in Nat
    BY KindsOfJobs DEF BankTyped, Imports, Counts, BankAssumption
  <2>5. feed.cursor \in Nat /\ job[j].next \in Nat
    BY <1>0 DEF Imports, BankTyped, BankTypeOK, Counts, BankAssumption
  <2>6. StaleIsHarmless
    BY DEF BankInv
  <2> QED
    BY <2>1, <2>2, <2>3, <2>4, <2>5, <2>6 DEF StaleIsHarmless, FinishImport, Unoccupied,
           ImportPcs
<1>6. BooksBounded'
  <2>1. feed'.item = feed.item /\ feed'.cursor = job[j].next
    BY DEF FinishImport, Unleased, BankTyped, BankTypeOK
  <2>2. job[j].next <= changes
    BY DEF FinishImport, At, Current, BankInv, WriterHolds
  <2> QED
    BY <2>1, <2>2 DEF FinishImport, BankInv, BooksBounded
<1>7. CursorMatches'
  <2>1. feed'.item = feed.item /\ feed'.cursor = job[j].next
    BY DEF FinishImport, Unleased, BankTyped, BankTypeOK
  <2>2. WriterHolds(j) /\ job[j].pc = "renewed" /\ Owns(j)
    BY DEF FinishImport, At, Current, BankInv
  <2>3. \A m \in BankLines : job[j].got[m] = Absent
    BY DEF FinishImport, NoFacts
  <2>4. \A m \in BankLines : bank[m].at <= job[j].next => Matched(m)
    BY <2>2, <2>3 DEF WriterHolds
  <2> QED
    BY <2>1, <2>4 DEF CursorMatches, Matched, FinishImport
<1>8. CursorFirm'
  <2>1. feed'.item = feed.item /\ feed'.cursor = job[j].next
    BY DEF FinishImport, Unleased, BankTyped, BankTypeOK
  <2>2. feed.cursor <= job[j].next
    BY DEF FinishImport, At, Current, BankInv, WriterHolds
  <2>3. past'.furthest = IF job[j].next > past.furthest THEN job[j].next ELSE past.furthest
    BY DEF FinishImport, BankTyped, PastTyped, Pasts
  <2>4. feed.cursor \in Nat /\ job[j].next \in Nat /\ past.furthest \in Nat
    BY <1>0 DEF Imports, BankTyped, BankTypeOK, PastTyped, Pasts, Counts, BankAssumption
  <2> QED
    BY <2>1, <2>2, <2>3, <2>4 DEF BankInv, CursorFirm
<1>9. ErasedIsEmpty'
  BY DEF FinishImport, At, Leave, Unleased, Current, NoFacts, Absent, Owns,
         Unoccupied, BankInv, ErasedIsEmpty
<1> QED
  BY <1>1, <1>2, <1>3, <1>4, <1>5, <1>6, <1>7, <1>8, <1>9 DEF BankInv

LEMMA FailImportKeeps ==
    ASSUME BankTyped, BankAssumption, BankInv, NEW j \in BankJobs, NEW repair \in BOOLEAN,
           FailImport(j, repair), ~past'.crossed
    PROVE  BankInv'
<1>1. job[j] \in Imports
  BY KindsOfJobs DEF FailImport, BankTyped, ImportPcs
<1>2. \A k \in BankJobs : k # j => job'[k] = job[k]
  BY DEF FailImport, To, Leave, BankTyped, JobsTyped
<1>3. job'[j] = Unoccupied \/ job'[j].pc = "report"
  BY <1>1 DEF FailImport, To, Leave, BankTyped, JobsTyped, Imports
<1>4. UNCHANGED << plaid, bank, changes, token, lines >>
  BY DEF FailImport
<1>5. /\ past'.lost = past.lost /\ past'.furthest = past.furthest /\ past'.late = past.late
      /\ Owns(j) => feed.item = job[j].item
  BY DEF FailImport, Crossing, BankTyped, PastTyped, Pasts
<1>6. CASE Owns(j)
  <2>1. Online
    BY <1>1, <1>5, <1>6 DEF BankInv, FeedHolds, Imports, Items, NoItem
  <2>2. feed' = [Unleased(feed) EXCEPT !.status = IF repair THEN "error" ELSE job[j].status,
                                       !.promotion = IF repair THEN "blocked" ELSE "staging",
                                       !.failed = TRUE]
    BY <1>6 DEF FailImport, Released
  <2>3. /\ feed'.status \in {"connected", "error"} /\ feed'.item = feed.item
        /\ feed'.cursor = feed.cursor /\ feed'.erased = feed.erased /\ feed'.owner = NoBankJob
    BY <1>1, <2>2 DEF Unleased, BankTyped, BankTypeOK, Imports
  <2>4. Online'
    BY <2>3 DEF Online
  <2> QED
    BY <1>2, <1>3, <1>4, <1>5, <2>1, <2>3, <2>4, QuietKeeps
<1>7. CASE ~Owns(j)
  <2>1. feed' = feed
    BY <1>7 DEF FailImport
  <2> QED
    BY <1>2, <1>3, <1>4, <1>5, <2>1, QuietKeeps
<1> QED
  BY <1>6, <1>7

LEMMA ClaimFeedKeeps ==
    ASSUME BankTyped, BankAssumption, BankInv, NEW j \in BankJobs, ClaimFeed(j)
    PROVE  BankInv'
<1>1. FeedHolds'
  BY DEF ClaimFeed, Unleased, Unoccupied, Overtaken, Disconnected, NoItem,
         BankInv, FeedHolds, Online
<1>2. ASSUME NEW i \in BankJobs PROVE ClaimHolds(i)'
  BY DEF ClaimFeed, Unleased, Unoccupied, Overtaken, Disconnected, NoItem,
         BankInv, ClaimHolds, ClaimPcs, BankTyped, JobsTyped, BankTypeOK, FeedHolds,
         Online, DropHolds
<1>3. ASSUME NEW i \in BankJobs PROVE DropHolds(i)'
  BY DEF ClaimFeed, Unleased, Unoccupied, Overtaken, Disconnected, NoItem,
         BankInv, DropHolds, Online
<1>4. ASSUME NEW i \in BankJobs PROVE WriterHolds(i)'
  BY DEF ClaimFeed, Unleased, Unoccupied, Overtaken, Disconnected, NoItem,
         BankInv, WriterHolds, Owns, Matched
<1>5. StaleIsHarmless'
  BY DEF ClaimFeed, Unleased, Unoccupied, Overtaken, Disconnected, NoItem,
         BankInv, StaleIsHarmless, ImportPcs
<1>6. BooksBounded' /\ CursorMatches' /\ CursorFirm' /\ ErasedIsEmpty'
  BY DEF ClaimFeed, Unleased, Unoccupied, Overtaken, Disconnected, NoItem,
         BankInv, BooksBounded, CursorMatches, Matched, CursorFirm, ErasedIsEmpty
<1> QED
  BY <1>1, <1>2, <1>3, <1>4, <1>5, <1>6 DEF BankInv

LEMMA ExchangeTokenKeeps ==
    ASSUME BankTyped, BankAssumption, BankInv, NEW j \in BankJobs, ExchangeToken(j)
    PROVE  BankInv'
<1>0. job[j] \in Claims
  BY KindsOfJobs DEF ExchangeToken, At, BankTyped, ClaimPcs, ImportPcs
<1>1. FeedHolds'
  BY <1>0 DEF ExchangeToken, At, NoFacts, Absent, BankInv, FeedHolds, Online,
         Disconnected, BankTyped, JobsTyped, BankTypeOK, Unoccupied, ClaimHolds,
         ClaimPcs, DropHolds
<1>2. ASSUME NEW i \in BankJobs PROVE ClaimHolds(i)'
  <2>1. \A k \in BankJobs : k # j => job'[k] = job[k]
    BY DEF ExchangeToken, BankTyped, JobsTyped
  <2>2. job'[j].pc = "exchanged" /\ job'[j].item = plaid.latest + 1
    BY <1>0 DEF ExchangeToken, BankTyped, JobsTyped, Claims
  <2>3. /\ plaid'.latest = plaid.latest + 1 /\ plaid'.active = plaid.active \cup {plaid.latest + 1}
        /\ UNCHANGED << feed, token, lines, past >>
    BY DEF ExchangeToken
  <2>4. ClaimHolds(j) /\ ClaimHolds(i) /\ job[j].pc = "claimed"
    BY DEF ExchangeToken, At, BankInv
  <2>5. plaid.latest \in Nat /\ plaid.latest + 1 \in Items
    BY DEF ExchangeToken, BankTyped, BankTypeOK, Items, BankAssumption
  <2>6. \A m \in BankLines : lines[<<plaid.latest + 1, m>>] = Absent
    BY <2>5 DEF BankInv, BooksBounded
  <2>7. \A k \in BankJobs : job[k].pc \in ImportPcs => job[k].item <= plaid.latest /\ job[k].item \in Nat
    BY KindsOfJobs DEF BankInv, StaleIsHarmless, BankTyped, Imports, Items
  <2>8. \A k \in BankJobs : job'[k].pc \in ImportPcs => job'[k].item # plaid.latest + 1
    BY <2>1, <2>2, <2>5, <2>7 DEF ImportPcs
  <2>9. CASE i = j
    BY <2>1, <2>2, <2>3, <2>4, <2>5, <2>6, <2>8, <2>9 DEF ClaimHolds, ClaimPcs
  <2>10. CASE i # j
    BY <2>1, <2>4, <2>10 DEF ClaimHolds, ClaimPcs
  <2> QED
    BY <2>9, <2>10
<1>3. ASSUME NEW i \in BankJobs PROVE DropHolds(i)'
  BY <1>0 DEF ExchangeToken, At, NoFacts, Absent, BankInv, DropHolds, Online, BankTyped,
         JobsTyped, BankTypeOK, Unoccupied, FeedHolds, Disconnected, ClaimHolds,
         ClaimPcs
<1>4. ASSUME NEW i \in BankJobs PROVE WriterHolds(i)'
  <2>1. ~Online
    BY DEF ExchangeToken, At, BankInv, ClaimHolds, ClaimPcs, Online
  <2>2. job'[i].pc = "exchanged" \/ job'[i].pc = job[i].pc
    BY <1>0 DEF ExchangeToken, BankTyped, JobsTyped, Claims
  <2> QED
    BY <2>1, <2>2, NoWriterOffline DEF ExchangeToken, WriterHolds, Owns
<1>5. StaleIsHarmless'
  <2>1. \A k \in BankJobs : k # j => job'[k] = job[k]
    BY DEF ExchangeToken, BankTyped, JobsTyped
  <2>2. job'[j].pc = "exchanged"
    BY <1>0 DEF ExchangeToken, BankTyped, JobsTyped, Claims
  <2>3. plaid'.latest = plaid.latest + 1 /\ plaid'.active = plaid.active \cup {plaid.latest + 1}
    BY DEF ExchangeToken
  <2>4. /\ plaid.latest \in Nat
        /\ \A k \in BankJobs : job[k].pc \in ImportPcs => job[k].item \in Nat
    BY KindsOfJobs DEF BankTyped, BankTypeOK, Imports, Items, BankAssumption
  <2>5. StaleIsHarmless
    BY DEF BankInv
  <2>6. SUFFICES ASSUME NEW k \in BankJobs, job'[k].pc \in ImportPcs
                 PROVE  /\ job'[k].item <= plaid'.latest
                        /\ job'[k].item = feed'.item \/ job'[k].item \notin plaid'.active
                        /\ job'[k].pc \in {"lease", "stage", "fetch"} /\ job'[k].item = feed'.item =>
                              job'[k].cursor <= feed'.cursor
    BY DEF StaleIsHarmless
  <2>7. job'[k] = job[k] /\ feed' = feed
    BY <2>1, <2>2, <2>6 DEF ExchangeToken, ImportPcs
  <2>8. job[k].item <= plaid.latest /\ job[k].item \in Nat
    BY <2>4, <2>5, <2>6, <2>7 DEF StaleIsHarmless
  <2> QED
    BY <2>3, <2>4, <2>5, <2>6, <2>7, <2>8 DEF StaleIsHarmless
<1>6. BooksBounded' /\ CursorMatches' /\ CursorFirm' /\ ErasedIsEmpty'
  BY <1>0 DEF ExchangeToken, At, NoFacts, Absent, BankInv, BooksBounded, CursorMatches,
         Matched, CursorFirm, ErasedIsEmpty, BankTyped, JobsTyped, BankTypeOK,
         Claims, ClaimPcs, PastTyped, Pasts, Unoccupied, NoItem, BankAssumption, Counts, Items,
         FeedHolds, Online, Disconnected, ClaimHolds, DropHolds
<1> QED
  BY <1>1, <1>2, <1>3, <1>4, <1>5, <1>6 DEF BankInv

LEMMA ExchangeFailsKeeps ==
    ASSUME BankTyped, BankAssumption, BankInv, NEW j \in BankJobs, ExchangeFails(j)
    PROVE  BankInv'
<1>0. job[j] \in Claims
  BY KindsOfJobs DEF ExchangeFails, At, BankTyped, ClaimPcs, ImportPcs
<1>1. FeedHolds'
  BY <1>0 DEF ExchangeFails, At, Leave, RestoreClaim, NoItem, Unoccupied, BankInv,
         FeedHolds, Online, Disconnected, BankTyped, JobsTyped, BankTypeOK, Claims,
         ClaimPcs, PastTyped, Pasts, BankAssumption, Counts, Items, ClaimHolds, DropHolds
<1>2. ASSUME NEW i \in BankJobs PROVE ClaimHolds(i)'
  BY DEF ExchangeFails, At, Leave, RestoreClaim, NoItem, Unoccupied, BankInv,
         ClaimHolds, ClaimPcs, BankTyped, JobsTyped
<1>3. ASSUME NEW i \in BankJobs PROVE DropHolds(i)'
  BY <1>0 DEF ExchangeFails, At, Leave, RestoreClaim, NoItem, Unoccupied, BankInv,
         DropHolds, Online, BankTyped, JobsTyped, BankTypeOK, FeedHolds, Disconnected,
         ClaimHolds, ClaimPcs
<1>4. ASSUME NEW i \in BankJobs PROVE WriterHolds(i)'
  BY <1>0 DEF ExchangeFails, At, Leave, RestoreClaim, NoItem, Unoccupied, BankInv,
         WriterHolds, Owns, Matched, BankTyped, JobsTyped, BankTypeOK, FeedHolds,
         Online, Disconnected, ClaimHolds, ClaimPcs, DropHolds
<1>5. StaleIsHarmless'
  BY <1>0 DEF ExchangeFails, At, Leave, RestoreClaim, NoItem, Unoccupied, BankInv,
         StaleIsHarmless, ImportPcs, BankTyped, JobsTyped, BankTypeOK, FeedHolds,
         Online, Disconnected, ClaimHolds, ClaimPcs, DropHolds
<1>6. BooksBounded' /\ CursorMatches' /\ CursorFirm' /\ ErasedIsEmpty'
  BY <1>0 DEF ExchangeFails, At, Leave, RestoreClaim, NoItem, Unoccupied, BankInv,
         BooksBounded, CursorMatches, Matched, CursorFirm, ErasedIsEmpty,
         BankTyped, JobsTyped, BankTypeOK, Claims, ClaimPcs, PastTyped, Pasts, BankAssumption,
         Counts, Items
<1> QED
  BY <1>1, <1>2, <1>3, <1>4, <1>5, <1>6 DEF BankInv

LEMMA SaveTokenKeeps ==
    ASSUME BankTyped, BankAssumption, BankInv, NEW j \in BankJobs, SaveToken(j)
    PROVE  BankInv'
<1>0. job[j] \in Claims
  BY KindsOfJobs DEF SaveToken, At, BankTyped, ClaimPcs, ImportPcs
<1>1. FeedHolds'
  BY <1>0 DEF SaveToken, At, To, BankInv, FeedHolds, Online, Disconnected, BankTyped,
         JobsTyped, BankTypeOK, Unoccupied, ClaimHolds, ClaimPcs, DropHolds
<1>2. ASSUME NEW i \in BankJobs PROVE ClaimHolds(i)'
  <2>1. \A k \in BankJobs : k # j => job'[k] = job[k]
    BY DEF SaveToken, To, BankTyped, JobsTyped
  <2>2. job'[j].pc = "saved" /\ job'[j].item = job[j].item
    BY <1>0 DEF SaveToken, To, BankTyped, JobsTyped, Claims
  <2>3. UNCHANGED << plaid, feed, lines, past >>
    BY DEF SaveToken
  <2>4. ClaimHolds(j) /\ ClaimHolds(i) /\ job[j].pc \in {"exchanged", "saved"}
    BY DEF SaveToken, At, BankInv
  <2>5. token' = job[j].item
    BY DEF SaveToken
  <2> QED
    BY <2>1, <2>2, <2>3, <2>4, <2>5 DEF ClaimHolds, ClaimPcs, ImportPcs
<1>3. ASSUME NEW i \in BankJobs PROVE DropHolds(i)'
  BY <1>0 DEF SaveToken, At, To, BankInv, DropHolds, Online, BankTyped, JobsTyped,
         BankTypeOK, Unoccupied, FeedHolds, Disconnected, ClaimHolds, ClaimPcs
<1>4. ASSUME NEW i \in BankJobs PROVE WriterHolds(i)'
  BY DEF SaveToken, At, To, BankInv, WriterHolds, Owns, Matched
<1>5. StaleIsHarmless'
  BY DEF SaveToken, At, To, BankInv, StaleIsHarmless, ImportPcs
<1>6. BooksBounded' /\ CursorMatches' /\ CursorFirm' /\ ErasedIsEmpty'
  BY DEF SaveToken, At, To, BankInv, BooksBounded, CursorMatches, Matched,
         CursorFirm, ErasedIsEmpty
<1> QED
  BY <1>1, <1>2, <1>3, <1>4, <1>5, <1>6 DEF BankInv

LEMMA ConnectFeedKeeps ==
    ASSUME BankTyped, BankAssumption, BankInv, NEW j \in BankJobs, ConnectFeed(j)
    PROVE  BankInv'
<1>0. job[j] \in Claims
  BY KindsOfJobs DEF ConnectFeed, At, BankTyped, ClaimPcs, ImportPcs
<1>1. FeedHolds'
  BY <1>0 DEF ConnectFeed, At, To, BankInv, FeedHolds, Online, Disconnected, BankTyped,
         JobsTyped, BankTypeOK, Unoccupied, ClaimHolds, ClaimPcs, DropHolds
<1>2. ASSUME NEW i \in BankJobs PROVE ClaimHolds(i)'
  BY DEF ConnectFeed, At, To, BankInv, ClaimHolds, ClaimPcs, BankTyped, JobsTyped,
         Unoccupied
<1>3. ASSUME NEW i \in BankJobs PROVE DropHolds(i)'
  BY DEF ConnectFeed, At, To, BankInv, DropHolds, Online
<1>4. ASSUME NEW i \in BankJobs PROVE WriterHolds(i)'
  <2>1. ~Online
    BY DEF ConnectFeed, Online
  <2>2. job'[i].pc = "first" \/ job'[i].pc = job[i].pc
    BY <1>0 DEF ConnectFeed, To, BankTyped, JobsTyped, Claims
  <2>3. feed'.owner = feed.owner
    BY DEF ConnectFeed, BankTyped, BankTypeOK
  <2> QED
    BY <2>1, <2>2, <2>3, NoWriterOffline DEF WriterHolds, Owns
<1>5. StaleIsHarmless'
  <2>1. \A k \in BankJobs : k # j => job'[k] = job[k]
    BY DEF ConnectFeed, To, BankTyped, JobsTyped
  <2>2. job'[j].pc \in {"first", "idle"}
    BY <1>0 DEF ConnectFeed, To, BankTyped, JobsTyped, Claims, Unoccupied
  <2>3. /\ feed.item = NoItem
        /\ \A k \in BankJobs : job[k].pc \in ImportPcs => job[k].item # NoItem
    BY KindsOfJobs DEF ConnectFeed, At, BankInv, FeedHolds, ClaimHolds, ClaimPcs,
           Online, BankTyped, Imports,
                       Items, NoItem
  <2>4. feed'.item = job[j].item /\ feed'.cursor = 0
    BY DEF ConnectFeed, BankInv, FeedHolds, ClaimHolds, ClaimPcs, At, Online, BankTyped,
           BankTypeOK
  <2>5. job[j].item = plaid.latest
    BY DEF ConnectFeed, BankInv, ClaimHolds, ClaimPcs, At
  <2>6. \A k \in BankJobs : job[k].pc \in ImportPcs => job[k].item # job[j].item
    BY DEF ConnectFeed, BankInv, ClaimHolds, ClaimPcs, At
  <2>7. StaleIsHarmless
    BY DEF BankInv
  <2> QED
    BY <2>1, <2>2, <2>3, <2>4, <2>5, <2>6, <2>7 DEF StaleIsHarmless, ConnectFeed, ImportPcs
<1>6. BooksBounded'
  BY <1>0 DEF ConnectFeed, At, To, BankInv, BooksBounded, BankTyped, JobsTyped,
         BankTypeOK, Claims, ClaimPcs, PastTyped, Pasts, Unoccupied, NoItem, BankAssumption,
         Counts, Items
<1>7. CursorMatches'
  <2>1. job[j].item \in Items /\ \A m \in BankLines : lines[<<job[j].item, m>>] = Absent
    BY DEF ConnectFeed, At, BankInv, ClaimHolds, ClaimPcs
  <2>2. feed'.item = job[j].item /\ feed'.cursor = 0
    BY DEF ConnectFeed, At, BankInv, FeedHolds, ClaimHolds, ClaimPcs, Online, BankTyped,
           BankTypeOK
  <2>3. \A m \in BankLines : bank[m].at <= 0 => bank[m] = Absent
    BY DEF BankInv, BooksBounded, BankTyped, BankTypeOK, Facts, Counts
  <2> QED
    BY <2>1, <2>2, <2>3 DEF ConnectFeed, CursorMatches, Matched
<1>8. CursorFirm'
  BY DEF ConnectFeed, At, To, BankInv, CursorFirm
<1>9. ErasedIsEmpty'
  BY DEF ConnectFeed, At, To, BankInv, ErasedIsEmpty
<1> QED
  BY <1>1, <1>2, <1>3, <1>4, <1>5, <1>6, <1>7, <1>8, <1>9 DEF BankInv

LEMMA GiveUpKeeps ==
    ASSUME BankTyped, BankAssumption, BankInv, NEW j \in BankJobs, GiveUp(j)
    PROVE  BankInv'
<1>0. job[j] \in Claims
  BY KindsOfJobs DEF GiveUp, At, BankTyped, ClaimPcs, ImportPcs
<1>1. FeedHolds'
  BY DEF GiveUp, To, BankInv, FeedHolds, Online, Disconnected
<1>2. ASSUME NEW i \in BankJobs PROVE ClaimHolds(i)'
  <2>1. \A k \in BankJobs : k # j => job'[k] = job[k]
    BY DEF GiveUp, To, BankTyped, JobsTyped
  <2>2. job'[j].pc = "undo" /\ job'[j].item = job[j].item
    BY <1>0 DEF GiveUp, To, BankTyped, JobsTyped, Claims
  <2>3. UNCHANGED << plaid, feed, lines, past >>
    BY DEF GiveUp
  <2>4. ClaimHolds(j) /\ ClaimHolds(i) /\ job[j].pc \in {"exchanged", "saved"}
    BY DEF GiveUp, At, BankInv
  <2>5. token' = token
    BY DEF GiveUp
  <2> QED
    BY <2>1, <2>2, <2>3, <2>4, <2>5 DEF ClaimHolds, ClaimPcs, ImportPcs
<1>3. ASSUME NEW i \in BankJobs PROVE DropHolds(i)'
  BY DEF GiveUp, To, BankInv, DropHolds, Online
<1>4. ASSUME NEW i \in BankJobs PROVE WriterHolds(i)'
  BY DEF GiveUp, To, BankInv, WriterHolds, Owns, Matched
<1>5. StaleIsHarmless'
  BY DEF GiveUp, To, BankInv, StaleIsHarmless, ImportPcs
<1>6. BooksBounded' /\ CursorMatches' /\ CursorFirm' /\ ErasedIsEmpty'
  BY DEF GiveUp, To, BankInv, BooksBounded, CursorMatches, Matched, CursorFirm,
         ErasedIsEmpty
<1> QED
  BY <1>1, <1>2, <1>3, <1>4, <1>5, <1>6 DEF BankInv

LEMMA RemoveExchangedKeeps ==
    ASSUME BankTyped, BankAssumption, BankInv, NEW j \in BankJobs, RemoveExchanged(j)
    PROVE  BankInv'
<1>1. FeedHolds'
  BY DEF RemoveExchanged, At, To, BankInv, FeedHolds, Online, Disconnected
<1>2. ASSUME NEW i \in BankJobs PROVE ClaimHolds(i)'
  BY DEF RemoveExchanged, At, To, BankInv, ClaimHolds, ClaimPcs
<1>3. ASSUME NEW i \in BankJobs PROVE DropHolds(i)'
  BY DEF RemoveExchanged, At, To, BankInv, DropHolds, Online
<1>4. ASSUME NEW i \in BankJobs PROVE WriterHolds(i)'
  BY DEF RemoveExchanged, At, To, BankInv, WriterHolds, Owns, Matched
<1>5. StaleIsHarmless'
  BY DEF RemoveExchanged, At, To, BankInv, StaleIsHarmless, ImportPcs
<1>6. BooksBounded' /\ CursorMatches' /\ CursorFirm' /\ ErasedIsEmpty'
  BY DEF RemoveExchanged, At, To, BankInv, BooksBounded, CursorMatches, Matched,
         CursorFirm, ErasedIsEmpty
<1> QED
  BY <1>1, <1>2, <1>3, <1>4, <1>5, <1>6 DEF BankInv

LEMMA RemovalFailsKeeps ==
    ASSUME BankTyped, BankAssumption, BankInv, NEW j \in BankJobs, RemovalFails(j)
    PROVE  BankInv'
<1>0. job[j] \in Claims
  BY KindsOfJobs DEF RemovalFails, At, BankTyped, ClaimPcs, ImportPcs
<1>1. FeedHolds'
  BY <1>0 DEF RemovalFails, At, Leave, Unoccupied, BankInv, FeedHolds, Online,
         Disconnected, BankTyped, JobsTyped, BankTypeOK, ClaimHolds, ClaimPcs,
         DropHolds
<1>2. ASSUME NEW i \in BankJobs PROVE ClaimHolds(i)'
  BY DEF RemovalFails, At, Leave, Unoccupied, BankInv, ClaimHolds, ClaimPcs, BankTyped,
         JobsTyped
<1>3. ASSUME NEW i \in BankJobs PROVE DropHolds(i)'
  BY <1>0 DEF RemovalFails, At, Leave, Unoccupied, BankInv, DropHolds, Online,
         BankTyped, JobsTyped, BankTypeOK, FeedHolds, Disconnected, ClaimHolds,
         ClaimPcs
<1>4. ASSUME NEW i \in BankJobs PROVE WriterHolds(i)'
  <2>1. ~Online
    BY DEF RemovalFails, At, BankInv, ClaimHolds, ClaimPcs, Online
  <2>2. job'[i].pc = "idle" \/ job'[i].pc = job[i].pc
    BY DEF RemovalFails, Leave, Unoccupied, BankTyped, JobsTyped
  <2>3. feed'.owner = feed.owner
    BY DEF RemovalFails, BankTyped, BankTypeOK
  <2> QED
    BY <2>1, <2>2, <2>3, NoWriterOffline DEF WriterHolds, Owns
<1>5. StaleIsHarmless'
  <2>1. \A k \in BankJobs : k # j => job'[k] = job[k]
    BY DEF RemovalFails, Leave, BankTyped, JobsTyped
  <2>2. job'[j].pc \in {"first", "idle"}
    BY <1>0 DEF RemovalFails, Leave, BankTyped, JobsTyped, Claims, Unoccupied
  <2>3. /\ feed.item = NoItem
        /\ \A k \in BankJobs : job[k].pc \in ImportPcs => job[k].item # NoItem
    BY KindsOfJobs DEF RemovalFails, At, BankInv, FeedHolds, ClaimHolds, ClaimPcs,
           Online, BankTyped, Imports,
                       Items, NoItem
  <2>4. feed'.item = job[j].item /\ feed'.cursor = 0
    BY DEF RemovalFails, BankInv, FeedHolds, ClaimHolds, ClaimPcs, At, Online,
           BankTyped, BankTypeOK
  <2>5. job[j].item = plaid.latest
    BY DEF RemovalFails, BankInv, ClaimHolds, ClaimPcs, At
  <2>6. \A k \in BankJobs : job[k].pc \in ImportPcs => job[k].item # job[j].item
    BY DEF RemovalFails, BankInv, ClaimHolds, ClaimPcs, At
  <2>7. StaleIsHarmless
    BY DEF BankInv
  <2> QED
    BY <2>1, <2>2, <2>3, <2>4, <2>5, <2>6, <2>7 DEF StaleIsHarmless, RemovalFails, ImportPcs
<1>6. BooksBounded'
  BY DEF RemovalFails, At, Leave, Unoccupied, BankInv, BooksBounded
<1>7. CursorMatches'
  <2>1. job[j].item \in Items /\ \A m \in BankLines : lines[<<job[j].item, m>>] = Absent
    BY DEF RemovalFails, At, BankInv, ClaimHolds, ClaimPcs
  <2>2. feed'.item = job[j].item /\ feed'.cursor = 0
    BY DEF RemovalFails, At, BankInv, FeedHolds, ClaimHolds, ClaimPcs, Online,
           BankTyped, BankTypeOK
  <2>3. \A m \in BankLines : bank[m].at <= 0 => bank[m] = Absent
    BY DEF BankInv, BooksBounded, BankTyped, BankTypeOK, Facts, Counts
  <2> QED
    BY <2>1, <2>2, <2>3 DEF RemovalFails, CursorMatches, Matched
<1>8. CursorFirm'
  BY <1>0 DEF RemovalFails, At, Leave, Unoccupied, BankInv, CursorFirm, BankTyped,
         JobsTyped, BankTypeOK, FeedHolds, Online, Disconnected, ClaimHolds, ClaimPcs,
         DropHolds
<1>9. ErasedIsEmpty'
  BY DEF RemovalFails, At, Leave, Unoccupied, BankInv, ErasedIsEmpty
<1> QED
  BY <1>1, <1>2, <1>3, <1>4, <1>5, <1>6, <1>7, <1>8, <1>9 DEF BankInv

LEMMA DropExchangedKeeps ==
    ASSUME BankTyped, BankAssumption, BankInv, NEW j \in BankJobs, DropExchanged(j)
    PROVE  BankInv'
<1>1. FeedHolds'
  BY DEF DropExchanged, At, To, NoItem, BankInv, FeedHolds, Online, Disconnected
<1>2. ASSUME NEW i \in BankJobs PROVE ClaimHolds(i)'
  BY DEF DropExchanged, At, To, NoItem, BankInv, ClaimHolds, ClaimPcs
<1>3. ASSUME NEW i \in BankJobs PROVE DropHolds(i)'
  BY DEF DropExchanged, At, To, NoItem, BankInv, DropHolds, Online
<1>4. ASSUME NEW i \in BankJobs PROVE WriterHolds(i)'
  BY DEF DropExchanged, At, To, NoItem, BankInv, WriterHolds, Owns, Matched
<1>5. StaleIsHarmless'
  BY DEF DropExchanged, At, To, NoItem, BankInv, StaleIsHarmless, ImportPcs
<1>6. BooksBounded' /\ CursorMatches' /\ CursorFirm' /\ ErasedIsEmpty'
  BY DEF DropExchanged, At, To, NoItem, BankInv, BooksBounded, CursorMatches, Matched,
         CursorFirm, ErasedIsEmpty
<1> QED
  BY <1>1, <1>2, <1>3, <1>4, <1>5, <1>6 DEF BankInv

LEMMA RestoreExchangedKeeps ==
    ASSUME BankTyped, BankAssumption, BankInv, NEW j \in BankJobs, RestoreExchanged(j)
    PROVE  BankInv'
<1>0. job[j] \in Claims
  BY KindsOfJobs DEF RestoreExchanged, At, BankTyped, ClaimPcs, ImportPcs
<1>1. FeedHolds'
  BY <1>0 DEF RestoreExchanged, At, Leave, RestoreClaim, NoItem, Unoccupied, BankInv,
         FeedHolds, Online, Disconnected, BankTyped, JobsTyped, BankTypeOK, Claims,
         ClaimPcs, PastTyped, Pasts, BankAssumption, Counts, Items, ClaimHolds, DropHolds
<1>2. ASSUME NEW i \in BankJobs PROVE ClaimHolds(i)'
  BY DEF RestoreExchanged, At, Leave, RestoreClaim, NoItem, Unoccupied, BankInv,
         ClaimHolds, ClaimPcs, BankTyped, JobsTyped
<1>3. ASSUME NEW i \in BankJobs PROVE DropHolds(i)'
  BY <1>0 DEF RestoreExchanged, At, Leave, RestoreClaim, NoItem, Unoccupied, BankInv,
         DropHolds, Online, BankTyped, JobsTyped, BankTypeOK, FeedHolds, Disconnected,
         ClaimHolds, ClaimPcs
<1>4. ASSUME NEW i \in BankJobs PROVE WriterHolds(i)'
  BY <1>0 DEF RestoreExchanged, At, Leave, RestoreClaim, NoItem, Unoccupied, BankInv,
         WriterHolds, Owns, Matched, BankTyped, JobsTyped, BankTypeOK, FeedHolds,
         Online, Disconnected, ClaimHolds, ClaimPcs, DropHolds
<1>5. StaleIsHarmless'
  BY <1>0 DEF RestoreExchanged, At, Leave, RestoreClaim, NoItem, Unoccupied, BankInv,
         StaleIsHarmless, ImportPcs, BankTyped, JobsTyped, BankTypeOK, FeedHolds,
         Online, Disconnected, ClaimHolds, ClaimPcs, DropHolds
<1>6. BooksBounded' /\ CursorMatches' /\ CursorFirm' /\ ErasedIsEmpty'
  BY <1>0 DEF RestoreExchanged, At, Leave, RestoreClaim, NoItem, Unoccupied, BankInv,
         BooksBounded, CursorMatches, Matched, CursorFirm, ErasedIsEmpty,
         BankTyped, JobsTyped, BankTypeOK, Claims, ClaimPcs, PastTyped, Pasts, BankAssumption,
         Counts, Items
<1> QED
  BY <1>1, <1>2, <1>3, <1>4, <1>5, <1>6 DEF BankInv

LEMMA ReportKeeps ==
    ASSUME BankTyped, BankAssumption, BankInv, NEW j \in BankJobs, Report(j), ~past'.crossed
    PROVE  BankInv'
<1>1. \A k \in BankJobs : job'[k] \in {job[k], Unoccupied}
  BY DEF Report, Leave, BankTyped, JobsTyped
<1>2. UNCHANGED << plaid, bank, changes, token, lines >>
  BY DEF Report
<1>3. /\ past'.lost = past.lost /\ past'.furthest = past.furthest /\ past'.late = past.late
      /\ feed.item = job[j].item
  BY DEF Report, Crossing, BankTyped, PastTyped, Pasts
<1>4. /\ feed'.status \in {"connected", "error"} /\ feed'.item = feed.item
      /\ feed'.cursor = feed.cursor /\ feed'.erased = feed.erased /\ feed'.owner = feed.owner
  BY DEF Report, BankTyped, BankTypeOK
<1>5. feed.item # NoItem
  BY <1>3, KindsOfJobs DEF Report, At, BankTyped, Claims, Imports, Items, NoItem
<1>6. Online /\ Online'
  BY <1>4, <1>5 DEF BankInv, FeedHolds, Online
<1> QED
  BY <1>1, <1>2, <1>3, <1>4, <1>6, QuietKeeps

LEMMA RemoveItemKeeps ==
    ASSUME BankTyped, BankAssumption, BankInv, NEW j \in BankJobs, RemoveItem(j)
    PROVE  BankInv'
<1>0. job[j] \in Imports
  BY KindsOfJobs DEF RemoveItem, At, BankTyped, ClaimPcs, ImportPcs
<1>1. FeedHolds'
  BY DEF RemoveItem, At, To, BankInv, FeedHolds, Online, Disconnected
<1>2. ASSUME NEW i \in BankJobs PROVE ClaimHolds(i)'
  BY <1>0 DEF RemoveItem, At, To, BankInv, ClaimHolds, ClaimPcs, BankTyped, JobsTyped,
         BankTypeOK, Imports, ImportPcs, PastTyped, Pasts, Unoccupied, NoItem, BankAssumption,
         Counts, Items
<1>3. ASSUME NEW i \in BankJobs PROVE DropHolds(i)'
  <2>1. \A k \in BankJobs : k # j => job'[k] = job[k]
    BY DEF RemoveItem, To, BankTyped, JobsTyped
  <2>2. job'[j].pc = "drop" /\ job'[j].item = job[j].item
    BY <1>0 DEF RemoveItem, To, BankTyped, JobsTyped, Imports
  <2>3. plaid'.active = plaid.active \ {job[j].item} /\ UNCHANGED << feed, token >>
    BY DEF RemoveItem, BankTyped, BankTypeOK
  <2>4. job[j].item = feed.item /\ feed.item \in plaid.active /\ feed.item # NoItem
    BY <1>0 DEF RemoveItem, At, BankInv, StaleIsHarmless, ImportPcs, Imports, Items, NoItem
  <2>5. Online
    BY <2>4 DEF BankInv, FeedHolds
  <2>6. \A k \in BankJobs : job[k].pc \notin {"drop", "revoke"}
    BY <2>4 DEF BankInv, DropHolds
  <2> QED
    BY <2>1, <2>2, <2>3, <2>4, <2>5, <2>6 DEF DropHolds, Online
<1>4. ASSUME NEW i \in BankJobs PROVE WriterHolds(i)'
  BY DEF RemoveItem, At, To, BankInv, WriterHolds, Owns, Matched
<1>5. StaleIsHarmless'
  BY DEF RemoveItem, At, To, BankInv, StaleIsHarmless, ImportPcs
<1>6. BooksBounded' /\ CursorMatches' /\ CursorFirm' /\ ErasedIsEmpty'
  BY DEF RemoveItem, At, To, BankInv, BooksBounded, CursorMatches, Matched,
         CursorFirm, ErasedIsEmpty
<1> QED
  BY <1>1, <1>2, <1>3, <1>4, <1>5, <1>6 DEF BankInv

LEMMA DropTokenKeeps ==
    ASSUME BankTyped, BankAssumption, BankInv, NEW j \in BankJobs, DropToken(j)
    PROVE  BankInv'
<1>0. job[j] \in Imports
  BY KindsOfJobs DEF DropToken, At, BankTyped, ClaimPcs, ImportPcs
<1>1. FeedHolds'
  BY DEF DropToken, At, To, NoItem, BankInv, FeedHolds, Online, Disconnected
<1>2. ASSUME NEW i \in BankJobs PROVE ClaimHolds(i)'
  BY <1>0 DEF DropToken, At, To, NoItem, BankInv, ClaimHolds, ClaimPcs, BankTyped,
         JobsTyped, BankTypeOK, Imports, ImportPcs, PastTyped, Pasts, Unoccupied,
         BankAssumption, Counts, Items
<1>3. ASSUME NEW i \in BankJobs PROVE DropHolds(i)'
  BY DEF DropToken, At, To, NoItem, BankInv, DropHolds, Online
<1>4. ASSUME NEW i \in BankJobs PROVE WriterHolds(i)'
  BY DEF DropToken, At, To, NoItem, BankInv, WriterHolds, Owns, Matched
<1>5. StaleIsHarmless'
  BY DEF DropToken, At, To, NoItem, BankInv, StaleIsHarmless, ImportPcs
<1>6. BooksBounded' /\ CursorMatches' /\ CursorFirm' /\ ErasedIsEmpty'
  BY DEF DropToken, At, To, NoItem, BankInv, BooksBounded, CursorMatches, Matched,
         CursorFirm, ErasedIsEmpty
<1> QED
  BY <1>1, <1>2, <1>3, <1>4, <1>5, <1>6 DEF BankInv

LEMMA RevokeFeedKeeps ==
    ASSUME BankTyped, BankAssumption, BankInv, NEW j \in BankJobs, RevokeFeed(j)
    PROVE  BankInv'
<1>0. job[j] \in Imports
  BY KindsOfJobs DEF RevokeFeed, At, BankTyped, ClaimPcs, ImportPcs
<1>1. FeedHolds'
  BY <1>0 DEF RevokeFeed, At, Leave, Owns, Unleased, NoItem, Unoccupied,
         BankInv, FeedHolds, Online, Disconnected, BankTyped, JobsTyped, BankTypeOK,
         ClaimHolds, ClaimPcs, DropHolds
<1>2. ASSUME NEW i \in BankJobs PROVE ClaimHolds(i)'
  BY <1>0 DEF RevokeFeed, At, Leave, Owns, Unleased, NoItem, Unoccupied,
         BankInv, ClaimHolds, ClaimPcs, BankTyped, JobsTyped, BankTypeOK, FeedHolds,
         Online, Disconnected, DropHolds
<1>3. ASSUME NEW i \in BankJobs PROVE DropHolds(i)'
  BY DEF RevokeFeed, At, Leave, Owns, Unleased, NoItem, Unoccupied, BankInv,
         DropHolds, Online, BankTyped, JobsTyped
<1>4. ASSUME NEW i \in BankJobs PROVE WriterHolds(i)'
  BY DEF RevokeFeed, At, Leave, Owns, Unleased, NoItem, Unoccupied, BankInv,
         WriterHolds, Matched
<1>5. StaleIsHarmless'
  <2>1. \A k \in BankJobs : k # j => job'[k] = job[k]
    BY DEF RevokeFeed, Leave, BankTyped, JobsTyped
  <2>2. job'[j].pc = "idle"
    BY DEF RevokeFeed, Leave, BankTyped, JobsTyped, Unoccupied
  <2>3. /\ feed'.item = NoItem
        /\ \A k \in BankJobs : job[k].pc \in ImportPcs => job[k].item # NoItem
    BY KindsOfJobs DEF RevokeFeed, Unleased, BankTyped, BankTypeOK, Imports, Items, NoItem
  <2>4. job[j].item = feed.item /\ job[j].item \notin plaid.active
    BY DEF RevokeFeed, At, BankInv, DropHolds
  <2>5. StaleIsHarmless
    BY DEF BankInv
  <2> QED
    BY <2>1, <2>2, <2>3, <2>4, <2>5 DEF StaleIsHarmless, RevokeFeed, ImportPcs
<1>6. BooksBounded' /\ CursorMatches' /\ CursorFirm' /\ ErasedIsEmpty'
  BY <1>0 DEF RevokeFeed, At, Leave, Owns, Unleased, NoItem, Unoccupied,
         BankInv, BooksBounded, CursorMatches, Matched, CursorFirm, ErasedIsEmpty,
         BankTyped, JobsTyped, BankTypeOK, Imports, ImportPcs, PastTyped, Pasts,
         BankAssumption, Counts, Items
<1> QED
  BY <1>1, <1>2, <1>3, <1>4, <1>5, <1>6 DEF BankInv

LEMMA DisconnectFailsKeeps ==
    ASSUME BankTyped, BankAssumption, BankInv, NEW j \in BankJobs, DisconnectFails(j)
    PROVE  BankInv'
<1>0. job[j] \in Imports
  BY KindsOfJobs DEF DisconnectFails, At, BankTyped, ClaimPcs, ImportPcs
<1>1. FeedHolds'
  BY DEF DisconnectFails, Leave, Released, Owns, Unleased, Unoccupied, BankInv,
         FeedHolds, Online, Disconnected
<1>2. ASSUME NEW i \in BankJobs PROVE ClaimHolds(i)'
  BY <1>0 DEF DisconnectFails, Leave, Released, Owns, Unleased, Unoccupied, BankInv,
         ClaimHolds, ClaimPcs, BankTyped, JobsTyped, BankTypeOK, Imports, ImportPcs,
         PastTyped, Pasts, NoItem, BankAssumption, Counts, Items
<1>3. ASSUME NEW i \in BankJobs PROVE DropHolds(i)'
  BY DEF DisconnectFails, Leave, Released, Owns, Unleased, Unoccupied, BankInv,
         DropHolds, Online
<1>4. ASSUME NEW i \in BankJobs PROVE WriterHolds(i)'
  BY DEF DisconnectFails, Leave, Released, Owns, Unleased, Unoccupied, BankInv,
         WriterHolds, Matched
<1>5. StaleIsHarmless'
  BY DEF DisconnectFails, Leave, Released, Owns, Unleased, Unoccupied, BankInv,
         StaleIsHarmless, ImportPcs
<1>6. BooksBounded' /\ CursorMatches' /\ CursorFirm' /\ ErasedIsEmpty'
  BY DEF DisconnectFails, Leave, Released, Owns, Unleased, Unoccupied, BankInv,
         BooksBounded, CursorMatches, Matched, CursorFirm, ErasedIsEmpty
<1> QED
  BY <1>1, <1>2, <1>3, <1>4, <1>5, <1>6 DEF BankInv

LEMMA CheckDisconnectedKeeps ==
    ASSUME BankTyped, BankAssumption, BankInv, NEW j \in BankJobs, CheckDisconnected(j)
    PROVE  BankInv'
<1>1. FeedHolds'
  BY DEF CheckDisconnected, Unoccupied, Disconnected, BankInv, FeedHolds, Online
<1>2. ASSUME NEW i \in BankJobs PROVE ClaimHolds(i)'
  BY DEF CheckDisconnected, Unoccupied, Disconnected, BankInv, ClaimHolds, ClaimPcs
<1>3. ASSUME NEW i \in BankJobs PROVE DropHolds(i)'
  BY DEF CheckDisconnected, Unoccupied, Disconnected, BankInv, DropHolds, Online
<1>4. ASSUME NEW i \in BankJobs PROVE WriterHolds(i)'
  BY DEF CheckDisconnected, Unoccupied, Disconnected, BankInv, WriterHolds, Owns,
         Matched
<1>5. StaleIsHarmless'
  BY DEF CheckDisconnected, Unoccupied, Disconnected, BankInv, StaleIsHarmless,
         ImportPcs
<1>6. BooksBounded' /\ CursorMatches' /\ CursorFirm' /\ ErasedIsEmpty'
  BY DEF CheckDisconnected, Unoccupied, Disconnected, BankInv, BooksBounded,
         CursorMatches, Matched, CursorFirm, ErasedIsEmpty
<1> QED
  BY <1>1, <1>2, <1>3, <1>4, <1>5, <1>6 DEF BankInv

LEMMA EraseDataKeeps ==
    ASSUME BankTyped, BankAssumption, BankInv, NEW j \in BankJobs, EraseData(j),
           ~past'.crossed
    PROVE  BankInv'
<1>a. Disconnected /\ past'.lost = past.lost /\ past'.furthest = past.furthest
  BY DEF EraseData, BankTyped, PastTyped, Pasts
<1>b. /\ feed'.status = "revoked" /\ feed'.item = NoItem /\ feed'.cursor = 0
      /\ feed'.owner = NoBankJob /\ token' = NoItem /\ plaid' = plaid
  BY DEF EraseData, Unleased, BankTyped, BankTypeOK
<1>c. ~Online /\ feed.item = NoItem /\ past.furthest = 0 /\ plaid.active \subseteq past.lost
  BY <1>a DEF BankInv, FeedHolds, Disconnected, Online
<1>d. \A k \in BankJobs : job'[k].pc # "idle" => k # j /\ (job'[k] = job[k] \/ job'[k].pc = "approve")
  BY DEF EraseData, Reshown, Overtaken, Unoccupied, BankTyped, JobsTyped
<1>1. FeedHolds'
  BY <1>a, <1>b, <1>c DEF FeedHolds, Online, Disconnected
<1>2. ASSUME NEW i \in BankJobs PROVE ClaimHolds(i)'
  <2>1. job[i].pc \notin ClaimPcs
    BY <1>a DEF BankInv, ClaimHolds, Disconnected
  <2> QED
    BY <2>1, <1>d DEF ClaimHolds, ClaimPcs
<1>3. ASSUME NEW i \in BankJobs PROVE DropHolds(i)'
  <2>1. job[i].pc \notin {"drop", "revoke"}
    BY <1>c DEF BankInv, DropHolds
  <2> QED
    BY <2>1, <1>d DEF DropHolds
<1>4. ASSUME NEW i \in BankJobs PROVE WriterHolds(i)'
  BY <1>b DEF WriterHolds, Owns, BankAssumption
<1>5. StaleIsHarmless'
  <2>1. SUFFICES ASSUME NEW k \in BankJobs, job'[k].pc \in ImportPcs
                 PROVE  /\ job'[k].item <= plaid'.latest
                        /\ job'[k].item # NoItem /\ job'[k].item \notin plaid'.active
    BY <1>b DEF StaleIsHarmless
  <2>2. job'[k] = job[k] /\ job[k].pc \in ImportPcs
    BY <2>1, <1>d DEF ImportPcs
  <2>3. job[k].item # NoItem
    BY <2>2, KindsOfJobs DEF BankTyped, Imports, Items, NoItem
  <2> QED
    BY <2>2, <2>3, <1>b, <1>c DEF BankInv, StaleIsHarmless
<1>6. BooksBounded'
  <2>1. feed'.cursor = 0
    BY DEF EraseData, Unleased, BankTyped, BankTypeOK
  <2>2. \A i \in Items, m \in BankLines : lines'[<<i, m>>] = Absent
    BY DEF EraseData, NoRows, Rows
  <2>3. changes \in Nat
    BY DEF BankTyped, BankTypeOK, Counts, BankAssumption
  <2> QED
    BY <2>1, <2>2, <2>3 DEF EraseData, BankInv, BooksBounded
<1>7. CursorMatches'
  BY DEF EraseData, At, Unleased, Unoccupied, Overtaken, Reshown, NoRows, NoItem,
         Absent, BankInv, CursorMatches, Matched
<1>8. CursorFirm'
  BY DEF EraseData, At, Unleased, Unoccupied, Overtaken, Reshown, NoRows, NoItem,
         Absent, BankInv, CursorFirm
<1>9. ErasedIsEmpty'
  BY DEF EraseData, At, Unleased, Unoccupied, Overtaken, Reshown, NoRows, NoItem,
         Absent, BankInv, ErasedIsEmpty
<1> QED
  BY <1>1, <1>2, <1>3, <1>4, <1>5, <1>6, <1>7, <1>8, <1>9 DEF BankInv

LEMMA ReadForApprovalKeeps ==
    ASSUME BankTyped, BankAssumption, BankInv, NEW j \in BankJobs, ReadForApproval(j)
    PROVE  BankInv'
<1>1. FeedHolds'
  BY DEF ReadForApproval, Unleased, Unoccupied, Approvable, BankInv, FeedHolds, Online,
         Disconnected
<1>2. ASSUME NEW i \in BankJobs PROVE ClaimHolds(i)'
  BY DEF ReadForApproval, Unleased, Unoccupied, Approvable, BankInv, ClaimHolds,
         ClaimPcs
<1>3. ASSUME NEW i \in BankJobs PROVE DropHolds(i)'
  BY DEF ReadForApproval, Unleased, Unoccupied, Approvable, BankInv, DropHolds, Online
<1>4. ASSUME NEW i \in BankJobs PROVE WriterHolds(i)'
  BY DEF ReadForApproval, Unleased, Unoccupied, Approvable, BankInv, WriterHolds, Owns,
         Matched
<1>5. StaleIsHarmless'
  BY DEF ReadForApproval, Unleased, Unoccupied, Approvable, BankInv, StaleIsHarmless,
         ImportPcs
<1>6. BooksBounded' /\ CursorMatches' /\ CursorFirm' /\ ErasedIsEmpty'
  BY DEF ReadForApproval, Unleased, Unoccupied, Approvable, BankInv, BooksBounded,
         CursorMatches, Matched, CursorFirm, ErasedIsEmpty
<1> QED
  BY <1>1, <1>2, <1>3, <1>4, <1>5, <1>6 DEF BankInv

LEMMA ApproveFeedKeeps ==
    ASSUME BankTyped, BankAssumption, BankInv, NEW j \in BankJobs, ApproveFeed(j)
    PROVE  BankInv'
<1>1. \A k \in BankJobs : job'[k] = IF k = j THEN Unoccupied ELSE job[k]
  BY DEF ApproveFeed, Leave, BankTyped, JobsTyped
<1>2. /\ feed'.status = feed.status /\ feed'.item = feed.item /\ feed'.cursor = feed.cursor
      /\ feed'.erased = feed.erased /\ feed'.owner = feed.owner
  BY DEF ApproveFeed, BankTyped, BankTypeOK
<1>3. past'.lost = past.lost /\ past'.furthest = past.furthest /\ past'.late = past.late
  BY DEF ApproveFeed, BankTyped, PastTyped, Pasts
<1>4. UNCHANGED << plaid, bank, changes, token, lines >>
  BY DEF ApproveFeed
<1> QED
  BY <1>1, <1>2, <1>3, <1>4, QuietKeeps

LEMMA EvictJobKeeps ==
    ASSUME BankTyped, BankAssumption, BankInv, NEW j \in BankJobs, EvictJob(j)
    PROVE  BankInv'
<1>1. FeedHolds'
  BY DEF EvictJob, Leave, Unoccupied, BankInv, FeedHolds, Online, Disconnected
<1>2. ASSUME NEW i \in BankJobs PROVE ClaimHolds(i)'
  <2>1. \A k \in BankJobs : job'[k] = IF k = j THEN Unoccupied ELSE job[k]
    BY DEF EvictJob, Leave, BankTyped, JobsTyped
  <2>2. past.lost \subseteq past'.lost
    BY DEF EvictJob, BankTyped, PastTyped, Pasts
  <2>3. UNCHANGED << plaid, feed, token, lines >> /\ ClaimHolds(i)
    BY DEF EvictJob, BankInv
  <2> QED
    BY <2>1, <2>2, <2>3 DEF ClaimHolds, ClaimPcs, ImportPcs, Unoccupied
<1>3. ASSUME NEW i \in BankJobs PROVE DropHolds(i)'
  BY DEF EvictJob, Leave, Unoccupied, BankInv, DropHolds, Online
<1>4. ASSUME NEW i \in BankJobs PROVE WriterHolds(i)'
  BY DEF EvictJob, Leave, Unoccupied, BankInv, WriterHolds, Owns, Matched
<1>5. StaleIsHarmless'
  BY DEF EvictJob, Leave, Unoccupied, BankInv, StaleIsHarmless, ImportPcs
<1>6. BooksBounded' /\ CursorMatches' /\ CursorFirm' /\ ErasedIsEmpty'
  BY DEF EvictJob, Leave, Unoccupied, BankInv, BooksBounded, CursorMatches, Matched,
         CursorFirm, ErasedIsEmpty
<1> QED
  BY <1>1, <1>2, <1>3, <1>4, <1>5, <1>6 DEF BankInv

-----------------------------------------------------------------------------
(* Theorems.                                                               *)

LEMMA BankInitHolds ==
    ASSUME BankInit
    PROVE  BankTyped /\ ApprovalsHold /\ BankInv
<1>1. BankTyped
  <2>1. NoFacts \in [BankLines -> Facts] /\ NoRows \in [Rows -> Facts]
    BY BankAssumption, AbsentTyped DEF NoFacts, NoRows
  <2> QED
    BY <2>1, BankAssumption DEF BankInit, BankTyped, BankTypeOK, JobsTyped, PastTyped, Pasts,
           NoItem,
                                Counts, BankAssumption
<1>2. ApprovalsHold
  BY DEF BankInit, ApprovalsHold, ApprovedAsShown, Unoccupied
<1>3. FeedHolds /\ StaleIsHarmless /\ CursorFirm /\ ErasedIsEmpty
  BY DEF BankInit, FeedHolds, Online, Disconnected, StaleIsHarmless,
         CursorFirm, ErasedIsEmpty, ImportPcs, Unoccupied, NoItem
<1>4. BooksBounded /\ CursorMatches
  BY DEF BankInit, BooksBounded, CursorMatches, NoFacts, NoRows, Rows, Absent
<1>5. ASSUME NEW i \in BankJobs PROVE ClaimHolds(i) /\ DropHolds(i) /\ WriterHolds(i)
  BY DEF BankInit, ClaimHolds, DropHolds, WriterHolds, ClaimPcs, Unoccupied
<1> QED
  BY <1>1, <1>2, <1>3, <1>4, <1>5 DEF BankInv

LEMMA TypesKept ==
    ASSUME BankTyped, BankNext
    PROVE  BankTyped'
<1>1. ASSUME NEW m \in BankLines, NEW gone \in BOOLEAN, BankChanges(m, gone)
      PROVE  BankTyped'
  BY <1>1, BankChangesTyped, BankAssumption
<1>2. ASSUME BankLeaseExpires PROVE BankTyped'
  BY <1>2, BankLeaseExpiresTyped, BankAssumption
<1>3. ASSUME ExcludeFeed PROVE BankTyped'
  BY <1>3, ExcludeFeedTyped, BankAssumption
<1>4. ASSUME NEW repaired \in BOOLEAN, Notice(repaired) PROVE BankTyped'
  BY <1>4, NoticeTyped, BankAssumption
<1>5. ASSUME NEW j \in BankJobs, NEW use \in {"import", "first", "disconnect"}, ReadCredentials(j, use)
      PROVE  BankTyped'
  BY <1>5, ReadCredentialsTyped, BankAssumption
<1>6. ASSUME NEW j \in BankJobs, CredentialsGone(j) PROVE BankTyped'
  BY <1>6, CredentialsGoneTyped, BankAssumption
<1>7. ASSUME NEW j \in BankJobs, LeaseFeed(j) PROVE BankTyped'
  BY <1>7, LeaseFeedTyped, BankAssumption
<1>8. ASSUME NEW j \in BankJobs, StageFeed(j) PROVE BankTyped'
  BY <1>8, StageFeedTyped, BankAssumption
<1>9. ASSUME NEW j \in BankJobs, FetchChanges(j) PROVE BankTyped'
  BY <1>9, FetchChangesTyped, BankAssumption
<1>10. ASSUME NEW j \in BankJobs, NEW m \in BankLines, WriteLine(j, m) PROVE BankTyped'
  BY <1>10, WriteLineTyped, BankAssumption
<1>11. ASSUME NEW j \in BankJobs, FinishImport(j) PROVE BankTyped'
  BY <1>11, FinishImportTyped, BankAssumption
<1>12. ASSUME NEW j \in BankJobs, NEW repair \in BOOLEAN, FailImport(j, repair)
       PROVE  BankTyped'
  BY <1>12, FailImportTyped, BankAssumption
<1>13. ASSUME NEW j \in BankJobs, ClaimFeed(j) PROVE BankTyped'
  BY <1>13, ClaimFeedTyped, BankAssumption
<1>14. ASSUME NEW j \in BankJobs, ExchangeToken(j) PROVE BankTyped'
  BY <1>14, ExchangeTokenTyped, BankAssumption
<1>15. ASSUME NEW j \in BankJobs, ExchangeFails(j) PROVE BankTyped'
  BY <1>15, ExchangeFailsTyped, BankAssumption
<1>16. ASSUME NEW j \in BankJobs, SaveToken(j) PROVE BankTyped'
  BY <1>16, SaveTokenTyped, BankAssumption
<1>17. ASSUME NEW j \in BankJobs, ConnectFeed(j) PROVE BankTyped'
  BY <1>17, ConnectFeedTyped, BankAssumption
<1>18. ASSUME NEW j \in BankJobs, GiveUp(j) PROVE BankTyped'
  BY <1>18, GiveUpTyped, BankAssumption
<1>19. ASSUME NEW j \in BankJobs, RemoveExchanged(j) PROVE BankTyped'
  BY <1>19, RemoveExchangedTyped, BankAssumption
<1>20. ASSUME NEW j \in BankJobs, RemovalFails(j) PROVE BankTyped'
  BY <1>20, RemovalFailsTyped, BankAssumption
<1>21. ASSUME NEW j \in BankJobs, DropExchanged(j) PROVE BankTyped'
  BY <1>21, DropExchangedTyped, BankAssumption
<1>22. ASSUME NEW j \in BankJobs, RestoreExchanged(j) PROVE BankTyped'
  BY <1>22, RestoreExchangedTyped, BankAssumption
<1>23. ASSUME NEW j \in BankJobs, Report(j) PROVE BankTyped'
  BY <1>23, ReportTyped, BankAssumption
<1>24. ASSUME NEW j \in BankJobs, RemoveItem(j) PROVE BankTyped'
  BY <1>24, RemoveItemTyped, BankAssumption
<1>25. ASSUME NEW j \in BankJobs, DropToken(j) PROVE BankTyped'
  BY <1>25, DropTokenTyped, BankAssumption
<1>26. ASSUME NEW j \in BankJobs, RevokeFeed(j) PROVE BankTyped'
  BY <1>26, RevokeFeedTyped, BankAssumption
<1>27. ASSUME NEW j \in BankJobs, DisconnectFails(j) PROVE BankTyped'
  BY <1>27, DisconnectFailsTyped, BankAssumption
<1>28. ASSUME NEW j \in BankJobs, CheckDisconnected(j) PROVE BankTyped'
  BY <1>28, CheckDisconnectedTyped, BankAssumption
<1>29. ASSUME NEW j \in BankJobs, EraseData(j) PROVE BankTyped'
  BY <1>29, EraseDataTyped, BankAssumption
<1>30. ASSUME NEW j \in BankJobs, ReadForApproval(j) PROVE BankTyped'
  BY <1>30, ReadForApprovalTyped, BankAssumption
<1>31. ASSUME NEW j \in BankJobs, ApproveFeed(j) PROVE BankTyped'
  BY <1>31, ApproveFeedTyped, BankAssumption
<1>32. ASSUME NEW j \in BankJobs, EvictJob(j) PROVE BankTyped'
  BY <1>32, EvictJobTyped, BankAssumption
<1>33. ASSUME NEW j \in BankJobs, RenewForWrite(j) PROVE BankTyped'
  BY <1>33, RenewForWriteTyped, BankAssumption
<1> QED
  BY <1>1, <1>2, <1>3, <1>4, <1>5, <1>6, <1>7, <1>8, <1>9, <1>10, <1>11, <1>12, <1>13,
     <1>14, <1>15, <1>16, <1>17, <1>18, <1>19, <1>20, <1>21, <1>22, <1>23, <1>24, <1>25,
     <1>26, <1>27, <1>28, <1>29, <1>30, <1>31, <1>32, <1>33 DEF BankNext

LEMMA ApprovalsKept ==
    ASSUME BankTyped, ApprovalsHold, BankNext
    PROVE  ApprovalsHold'
<1>1. ASSUME NEW m \in BankLines, NEW gone \in BOOLEAN, BankChanges(m, gone)
      PROVE  ApprovalsHold'
  BY <1>1, BankChangesApprovals, BankAssumption
<1>2. ASSUME BankLeaseExpires PROVE ApprovalsHold'
  BY <1>2, BankLeaseExpiresApprovals, BankAssumption
<1>3. ASSUME ExcludeFeed PROVE ApprovalsHold'
  BY <1>3, ExcludeFeedApprovals, BankAssumption
<1>4. ASSUME NEW repaired \in BOOLEAN, Notice(repaired) PROVE ApprovalsHold'
  BY <1>4, NoticeApprovals, BankAssumption
<1>5. ASSUME NEW j \in BankJobs, NEW use \in {"import", "first", "disconnect"}, ReadCredentials(j, use)
      PROVE  ApprovalsHold'
  BY <1>5, ReadCredentialsApprovals, BankAssumption
<1>6. ASSUME NEW j \in BankJobs, CredentialsGone(j) PROVE ApprovalsHold'
  BY <1>6, CredentialsGoneApprovals, BankAssumption
<1>7. ASSUME NEW j \in BankJobs, LeaseFeed(j) PROVE ApprovalsHold'
  BY <1>7, LeaseFeedApprovals, BankAssumption
<1>8. ASSUME NEW j \in BankJobs, StageFeed(j) PROVE ApprovalsHold'
  BY <1>8, StageFeedApprovals, BankAssumption
<1>9. ASSUME NEW j \in BankJobs, FetchChanges(j) PROVE ApprovalsHold'
  BY <1>9, FetchChangesApprovals, BankAssumption
<1>10. ASSUME NEW j \in BankJobs, NEW m \in BankLines, WriteLine(j, m) PROVE ApprovalsHold'
  BY <1>10, WriteLineApprovals, BankAssumption
<1>11. ASSUME NEW j \in BankJobs, FinishImport(j) PROVE ApprovalsHold'
  BY <1>11, FinishImportApprovals, BankAssumption
<1>12. ASSUME NEW j \in BankJobs, NEW repair \in BOOLEAN, FailImport(j, repair)
       PROVE  ApprovalsHold'
  BY <1>12, FailImportApprovals, BankAssumption
<1>13. ASSUME NEW j \in BankJobs, ClaimFeed(j) PROVE ApprovalsHold'
  BY <1>13, ClaimFeedApprovals, BankAssumption
<1>14. ASSUME NEW j \in BankJobs, ExchangeToken(j) PROVE ApprovalsHold'
  BY <1>14, ExchangeTokenApprovals, BankAssumption
<1>15. ASSUME NEW j \in BankJobs, ExchangeFails(j) PROVE ApprovalsHold'
  BY <1>15, ExchangeFailsApprovals, BankAssumption
<1>16. ASSUME NEW j \in BankJobs, SaveToken(j) PROVE ApprovalsHold'
  BY <1>16, SaveTokenApprovals, BankAssumption
<1>17. ASSUME NEW j \in BankJobs, ConnectFeed(j) PROVE ApprovalsHold'
  BY <1>17, ConnectFeedApprovals, BankAssumption
<1>18. ASSUME NEW j \in BankJobs, GiveUp(j) PROVE ApprovalsHold'
  BY <1>18, GiveUpApprovals, BankAssumption
<1>19. ASSUME NEW j \in BankJobs, RemoveExchanged(j) PROVE ApprovalsHold'
  BY <1>19, RemoveExchangedApprovals, BankAssumption
<1>20. ASSUME NEW j \in BankJobs, RemovalFails(j) PROVE ApprovalsHold'
  BY <1>20, RemovalFailsApprovals, BankAssumption
<1>21. ASSUME NEW j \in BankJobs, DropExchanged(j) PROVE ApprovalsHold'
  BY <1>21, DropExchangedApprovals, BankAssumption
<1>22. ASSUME NEW j \in BankJobs, RestoreExchanged(j) PROVE ApprovalsHold'
  BY <1>22, RestoreExchangedApprovals, BankAssumption
<1>23. ASSUME NEW j \in BankJobs, Report(j) PROVE ApprovalsHold'
  BY <1>23, ReportApprovals, BankAssumption
<1>24. ASSUME NEW j \in BankJobs, RemoveItem(j) PROVE ApprovalsHold'
  BY <1>24, RemoveItemApprovals, BankAssumption
<1>25. ASSUME NEW j \in BankJobs, DropToken(j) PROVE ApprovalsHold'
  BY <1>25, DropTokenApprovals, BankAssumption
<1>26. ASSUME NEW j \in BankJobs, RevokeFeed(j) PROVE ApprovalsHold'
  BY <1>26, RevokeFeedApprovals, BankAssumption
<1>27. ASSUME NEW j \in BankJobs, DisconnectFails(j) PROVE ApprovalsHold'
  BY <1>27, DisconnectFailsApprovals, BankAssumption
<1>28. ASSUME NEW j \in BankJobs, CheckDisconnected(j) PROVE ApprovalsHold'
  BY <1>28, CheckDisconnectedApprovals, BankAssumption
<1>29. ASSUME NEW j \in BankJobs, EraseData(j) PROVE ApprovalsHold'
  BY <1>29, EraseDataApprovals, BankAssumption
<1>30. ASSUME NEW j \in BankJobs, ReadForApproval(j) PROVE ApprovalsHold'
  BY <1>30, ReadForApprovalApprovals, BankAssumption
<1>31. ASSUME NEW j \in BankJobs, ApproveFeed(j) PROVE ApprovalsHold'
  BY <1>31, ApproveFeedApprovals, BankAssumption
<1>32. ASSUME NEW j \in BankJobs, EvictJob(j) PROVE ApprovalsHold'
  BY <1>32, EvictJobApprovals, BankAssumption
<1>33. ASSUME NEW j \in BankJobs, RenewForWrite(j) PROVE ApprovalsHold'
  BY <1>33, RenewForWriteApprovals, BankAssumption
<1> QED
  BY <1>1, <1>2, <1>3, <1>4, <1>5, <1>6, <1>7, <1>8, <1>9, <1>10, <1>11, <1>12, <1>13,
     <1>14, <1>15, <1>16, <1>17, <1>18, <1>19, <1>20, <1>21, <1>22, <1>23, <1>24, <1>25,
     <1>26, <1>27, <1>28, <1>29, <1>30, <1>31, <1>32, <1>33 DEF BankNext

LEMMA BankKept ==
    ASSUME BankTyped, BankInv, ~past'.crossed, BankNext
    PROVE  BankInv'
<1>1. ASSUME NEW m \in BankLines, NEW gone \in BOOLEAN, BankChanges(m, gone) PROVE BankInv'
  BY <1>1, BankChangesKeeps, BankAssumption
<1>2. ASSUME BankLeaseExpires PROVE BankInv'
  BY <1>2, BankLeaseExpiresKeeps, BankAssumption
<1>3. ASSUME ExcludeFeed PROVE BankInv'
  BY <1>3, ExcludeFeedKeeps, BankAssumption
<1>4. ASSUME NEW repaired \in BOOLEAN, Notice(repaired) PROVE BankInv'
  BY <1>4, NoticeKeeps, BankAssumption
<1>5. ASSUME NEW j \in BankJobs, NEW use \in {"import", "first", "disconnect"}, ReadCredentials(j, use)
      PROVE  BankInv'
  BY <1>5, ReadCredentialsKeeps, BankAssumption
<1>6. ASSUME NEW j \in BankJobs, CredentialsGone(j) PROVE BankInv'
  BY <1>6, CredentialsGoneKeeps, BankAssumption
<1>7. ASSUME NEW j \in BankJobs, LeaseFeed(j) PROVE BankInv'
  BY <1>7, LeaseFeedKeeps, BankAssumption
<1>8. ASSUME NEW j \in BankJobs, StageFeed(j) PROVE BankInv'
  BY <1>8, StageFeedKeeps, BankAssumption
<1>9. ASSUME NEW j \in BankJobs, FetchChanges(j) PROVE BankInv'
  BY <1>9, FetchChangesKeeps, BankAssumption
<1>10. ASSUME NEW j \in BankJobs, NEW m \in BankLines, WriteLine(j, m) PROVE BankInv'
  BY <1>10, WriteLineKeeps, BankAssumption
<1>11. ASSUME NEW j \in BankJobs, FinishImport(j) PROVE BankInv'
  BY <1>11, FinishImportKeeps, BankAssumption
<1>12. ASSUME NEW j \in BankJobs, NEW repair \in BOOLEAN, FailImport(j, repair)
       PROVE  BankInv'
  BY <1>12, FailImportKeeps, BankAssumption
<1>13. ASSUME NEW j \in BankJobs, ClaimFeed(j) PROVE BankInv'
  BY <1>13, ClaimFeedKeeps, BankAssumption
<1>14. ASSUME NEW j \in BankJobs, ExchangeToken(j) PROVE BankInv'
  BY <1>14, ExchangeTokenKeeps, BankAssumption
<1>15. ASSUME NEW j \in BankJobs, ExchangeFails(j) PROVE BankInv'
  BY <1>15, ExchangeFailsKeeps, BankAssumption
<1>16. ASSUME NEW j \in BankJobs, SaveToken(j) PROVE BankInv'
  BY <1>16, SaveTokenKeeps, BankAssumption
<1>17. ASSUME NEW j \in BankJobs, ConnectFeed(j) PROVE BankInv'
  BY <1>17, ConnectFeedKeeps, BankAssumption
<1>18. ASSUME NEW j \in BankJobs, GiveUp(j) PROVE BankInv'
  BY <1>18, GiveUpKeeps, BankAssumption
<1>19. ASSUME NEW j \in BankJobs, RemoveExchanged(j) PROVE BankInv'
  BY <1>19, RemoveExchangedKeeps, BankAssumption
<1>20. ASSUME NEW j \in BankJobs, RemovalFails(j) PROVE BankInv'
  BY <1>20, RemovalFailsKeeps, BankAssumption
<1>21. ASSUME NEW j \in BankJobs, DropExchanged(j) PROVE BankInv'
  BY <1>21, DropExchangedKeeps, BankAssumption
<1>22. ASSUME NEW j \in BankJobs, RestoreExchanged(j) PROVE BankInv'
  BY <1>22, RestoreExchangedKeeps, BankAssumption
<1>23. ASSUME NEW j \in BankJobs, Report(j) PROVE BankInv'
  BY <1>23, ReportKeeps, BankAssumption
<1>24. ASSUME NEW j \in BankJobs, RemoveItem(j) PROVE BankInv'
  BY <1>24, RemoveItemKeeps, BankAssumption
<1>25. ASSUME NEW j \in BankJobs, DropToken(j) PROVE BankInv'
  BY <1>25, DropTokenKeeps, BankAssumption
<1>26. ASSUME NEW j \in BankJobs, RevokeFeed(j) PROVE BankInv'
  BY <1>26, RevokeFeedKeeps, BankAssumption
<1>27. ASSUME NEW j \in BankJobs, DisconnectFails(j) PROVE BankInv'
  BY <1>27, DisconnectFailsKeeps, BankAssumption
<1>28. ASSUME NEW j \in BankJobs, CheckDisconnected(j) PROVE BankInv'
  BY <1>28, CheckDisconnectedKeeps, BankAssumption
<1>29. ASSUME NEW j \in BankJobs, EraseData(j) PROVE BankInv'
  BY <1>29, EraseDataKeeps, BankAssumption
<1>30. ASSUME NEW j \in BankJobs, ReadForApproval(j) PROVE BankInv'
  BY <1>30, ReadForApprovalKeeps, BankAssumption
<1>31. ASSUME NEW j \in BankJobs, ApproveFeed(j) PROVE BankInv'
  BY <1>31, ApproveFeedKeeps, BankAssumption
<1>32. ASSUME NEW j \in BankJobs, EvictJob(j) PROVE BankInv'
  BY <1>32, EvictJobKeeps, BankAssumption
<1>33. ASSUME NEW j \in BankJobs, RenewForWrite(j) PROVE BankInv'
  BY <1>33, RenewForWriteKeeps, BankAssumption
<1> QED
  BY <1>1, <1>2, <1>3, <1>4, <1>5, <1>6, <1>7, <1>8, <1>9, <1>10, <1>11, <1>12, <1>13,
     <1>14, <1>15, <1>16, <1>17, <1>18, <1>19, <1>20, <1>21, <1>22, <1>23, <1>24, <1>25,
     <1>26, <1>27, <1>28, <1>29, <1>30, <1>31, <1>32, <1>33 DEF BankNext

LEMMA BankStutters ==
    ASSUME UNCHANGED bankVars
    PROVE  /\ BankTyped => BankTyped'
           /\ ApprovalsHold => ApprovalsHold'
           /\ BankInv => BankInv'
<1>1. BankTyped => BankTyped'
  BY DEF bankVars, BankTyped, BankTypeOK, JobsTyped, PastTyped, Pasts
<1>2. ApprovalsHold => ApprovalsHold'
  BY DEF bankVars, ApprovalsHold, ApprovedAsShown, Owns
<1>3. BankInv => BankInv'
  BY DEF bankVars, BankInv, FeedHolds, ClaimHolds, DropHolds, WriterHolds,
         Online, Disconnected, StaleIsHarmless, BooksBounded, CursorMatches, Matched, Owns,
         CursorFirm, ErasedIsEmpty
<1> QED
  BY <1>1, <1>2, <1>3

LEMMA CrossedStays ==
    ASSUME BankTyped, past.crossed, BankNext
    PROVE  past'.crossed
<1>0. past \in Pasts
  BY DEF BankTyped, PastTyped
<1>1. ASSUME NEW j \in BankJobs, NEW m \in BankLines, WriteLine(j, m) PROVE past'.crossed
  BY <1>0, <1>1 DEF WriteLine, Pasts
<1>2. ASSUME NEW j \in BankJobs, FinishImport(j) PROVE past'.crossed
  BY <1>0, <1>2 DEF FinishImport, Pasts
<1>3. ASSUME NEW j \in BankJobs, NEW repair \in BOOLEAN, FailImport(j, repair)
      PROVE  past'.crossed
  BY <1>0, <1>3 DEF FailImport, Crossing, Pasts
<1>4. ASSUME NEW j \in BankJobs, ConnectFeed(j) \/ RevokeFeed(j) \/ EraseData(j)
      PROVE  past'.crossed
  BY <1>0, <1>4 DEF ConnectFeed, RevokeFeed, EraseData, Pasts
<1>5. ASSUME NEW j \in BankJobs, Report(j) PROVE past'.crossed
  BY <1>0, <1>5 DEF Report, Crossing, Pasts
<1>6. ASSUME NEW j \in BankJobs, ApproveFeed(j) \/ EvictJob(j) PROVE past'.crossed
  BY <1>0, <1>6 DEF ApproveFeed, EvictJob, Pasts
<1>7. ASSUME NEW j \in BankJobs,
             \/ \E use \in {"import", "first", "disconnect"} : ReadCredentials(j, use)
             \/ CredentialsGone(j) \/ LeaseFeed(j) \/ StageFeed(j) \/ FetchChanges(j)
             \/ RenewForWrite(j) \/ ClaimFeed(j) \/ ExchangeToken(j) \/ ExchangeFails(j)
             \/ SaveToken(j) \/ GiveUp(j) \/ RemoveExchanged(j) \/ RemovalFails(j)
             \/ DropExchanged(j) \/ RestoreExchanged(j) \/ RemoveItem(j) \/ DropToken(j)
             \/ DisconnectFails(j) \/ CheckDisconnected(j) \/ ReadForApproval(j)
      PROVE  past' = past
  BY <1>7 DEF ReadCredentials, CredentialsGone, LeaseFeed, StageFeed, FetchChanges,
         RenewForWrite, ClaimFeed, ExchangeToken, ExchangeFails, SaveToken, GiveUp,
         RemoveExchanged, RemovalFails, DropExchanged, RestoreExchanged, RemoveItem,
         DropToken, DisconnectFails, CheckDisconnected, ReadForApproval
<1>8. ASSUME \/ \E m \in BankLines, gone \in BOOLEAN : BankChanges(m, gone)
             \/ BankLeaseExpires \/ ExcludeFeed
             \/ \E repaired \in BOOLEAN : Notice(repaired)
      PROVE  past' = past
  BY <1>8 DEF BankChanges, BankLeaseExpires, ExcludeFeed, Notice
<1> QED
  BY <1>1, <1>2, <1>3, <1>4, <1>5, <1>6, <1>7, <1>8 DEF BankNext

LEMMA BankInvIsSound ==
    ASSUME BankTyped, ApprovalsHold, past.crossed \/ BankInv
    PROVE  BankFeedIsSound
<1>1. CursorIsKept
  BY DEF BankInv, CursorMatches, Matched, CursorIsKept
<1>2. RevokedHoldsNothing
  BY DEF BankInv, FeedHolds, RevokedHoldsNothing
<1>3. ErasedStaysErased
  BY DEF BankInv, FeedHolds, ErasedIsEmpty, ErasedStaysErased
<1>4. CursorStandsFirm
  BY DEF BankInv, CursorFirm, CursorStandsFirm
<1> QED
  BY <1>1, <1>2, <1>3, <1>4 DEF BankFeedIsSound, BankTyped, ApprovalsHold

\* What is approved is what was shown for approval, lines that landed after their lease
\* had passed on aside: an import that begins, writes or fails while an approval is
\* under way makes it fail, however requests and deliveries overlap (claims, erasures
\* and reports included, and whatever row they write over).
THEOREM ApprovalIsOfTheShown == BankSpec => []ApprovedAsShown
<1>1. BankInit => BankTyped /\ ApprovalsHold
  BY BankInitHolds
<1>2. (BankTyped /\ ApprovalsHold) /\ [BankNext]_bankVars => (BankTyped /\ ApprovalsHold)'
  BY TypesKept, ApprovalsKept, BankStutters
<1>3. BankTyped /\ ApprovalsHold => ApprovedAsShown
  BY DEF ApprovalsHold
<1> QED
  BY <1>1, <1>2, <1>3, PTL DEF BankSpec

\* The bank feed is sound: until a request writes over a row that is not its own, the
\* saved cursor passes no change that is not in the books, whichever run failed or took
\* over, but for lines that landed late; a disconnected feed leaves neither a token nor
\* an authorization at Plaid; what is erased stays erased, but for lines that land late.
\* That no request at work has read this row before it changed is not assumed.
THEOREM BankFeedSound == BankSpec => []BankFeedIsSound
<1> DEFINE Inv == BankTyped /\ ApprovalsHold /\ (past.crossed \/ BankInv)
<1>1. BankInit => Inv
  BY BankInitHolds
<1>2. Inv /\ [BankNext]_bankVars => Inv'
  <2>1. CASE BankNext
    BY <2>1, TypesKept, ApprovalsKept, BankKept, CrossedStays
  <2>2. CASE UNCHANGED bankVars
    BY <2>2, BankStutters DEF bankVars
  <2> QED
    BY <2>1, <2>2
<1>3. Inv => BankFeedIsSound
  BY BankInvIsSound
<1> QED
  BY <1>1, <1>2, <1>3, PTL DEF BankSpec
=============================================================================
