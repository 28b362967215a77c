------------------------- MODULE ReviewSchedulerProofs -------------------------
(***************************************************************************)
(* What the review coordinators promise for any number of instances,       *)
(* reviews and owners, any concurrency and any limits.  The assumptions    *)
(* are those of the constants: ReviewRowsAssumption, SchedulerAssumption.  *)
(***************************************************************************)
EXTENDS ReviewScheduler, SequenceTheorems, FiniteSetTheorems, WellFoundedInduction, TLAPS

-----------------------------------------------------------------------------
(***************************************************************************)
(* The sequences of the scheduler: what a filter, an append and a tail     *)
(* keep.                                                                   *)
(***************************************************************************)

\* A set of natural numbers has a least one.
LEMMA LeastNumber ==
  ASSUME NEW T, T \subseteq Nat, T # {}
  PROVE  \E m \in T : \A n \in T : m <= n
<1>1. PICK m \in T : \A n \in T : ~ (<<n, m>> \in OpToRel(<, Nat))
  BY NatLessThanWellFounded, WFMin
<1>2. \A n \in T : ~ (n < m)
  BY <1>1 DEF OpToRel
<1> QED
  BY <1>2

\* The place of every kept position, counted from 1.
LEMMA Places ==
  ASSUME NEW len \in Nat, NEW kept \in SUBSET (1..len)
  PROVE  /\ IsFiniteSet(kept) /\ Cardinality(kept) \in Nat
         /\ \A k \in kept : Place(kept, k) \in 1..Cardinality(kept)
         /\ \A j, k \in kept : j < k => Place(kept, j) < Place(kept, k)
         /\ \A n \in 1..Cardinality(kept) : \E k \in kept : Place(kept, k) = n
<1> DEFINE upto(k) == {j \in kept : j <= k}
<1>0. kept \subseteq 1..len /\ \A k \in kept : k \in Int /\ 1 <= k /\ k <= len
  OBVIOUS
<1>1. IsFiniteSet(kept)
  <2>1. IsFiniteSet(1..len)
    BY FS_Interval
  <2> QED
    BY <1>0, <2>1, FS_Subset
<1>2. \A k : IsFiniteSet(upto(k)) /\ Place(kept, k) = Cardinality(upto(k))
             /\ Place(kept, k) \in Nat
  <2>1. \A k : upto(k) \subseteq kept
    OBVIOUS
  <2> QED
    BY <1>1, <2>1, FS_Subset, FS_CardinalityType DEF Place
<1>3. Place(kept, 0) = 0 /\ Place(kept, len) = Cardinality(kept)
  <2>1. \A j \in kept : ~(j <= 0) /\ j <= len
    BY <1>0
  <2>2. upto(0) = {} /\ upto(len) = kept
    BY <2>1
  <2> QED
    BY <2>2, FS_EmptySet DEF Place
<1>4. ASSUME NEW k \in 1..len
      PROVE  /\ k \in kept => Place(kept, k) = Place(kept, k - 1) + 1
             /\ k \notin kept => Place(kept, k) = Place(kept, k - 1)
  <2>1. k \notin upto(k - 1)
    OBVIOUS
  <2>0. \A j \in kept : (j <= k <=> j <= k - 1 \/ j = k) /\ (j = k => ~(j <= k - 1))
    BY <1>0
  <2>2. ASSUME k \in kept PROVE upto(k) = upto(k - 1) \cup {k}
    BY <2>0, <2>2
  <2>3. ASSUME k \notin kept PROVE upto(k) = upto(k - 1)
    BY <2>0, <2>3
  <2> HIDE DEF upto
  <2> QED
    BY <1>2, <2>1, <2>2, <2>3, FS_AddElement
<1>5. \A j, k \in 0..len : j <= k => Place(kept, j) <= Place(kept, k)
  <2> SUFFICES ASSUME NEW j \in 0..len, NEW k \in 0..len, j <= k
               PROVE  Place(kept, j) <= Place(kept, k)
    OBVIOUS
  <2>1. ASSUME NEW l \in kept, l <= j PROVE l <= k
    BY <1>0, <2>1
  <2>2. upto(j) \subseteq upto(k)
    BY <2>1
  <2> HIDE DEF upto
  <2> QED
    BY <1>2, <2>2, FS_Subset
<1>6. \A j, k \in kept : j < k => Place(kept, j) < Place(kept, k)
  <2> SUFFICES ASSUME NEW j \in kept, NEW k \in kept, j < k
               PROVE  Place(kept, j) < Place(kept, k)
    OBVIOUS
  <2>1. j \in 0..len /\ k \in 1..len /\ k - 1 \in 0..len /\ j <= k - 1
    BY <1>0
  <2>2. Place(kept, j) <= Place(kept, k - 1) /\ Place(kept, k) = Place(kept, k - 1) + 1
    BY <1>4, <1>5, <2>1
  <2>3. Place(kept, j) \in Nat /\ Place(kept, k - 1) \in Nat
    BY <1>2
  <2> QED
    BY <2>2, <2>3
<1>7. ASSUME NEW k \in kept PROVE Place(kept, k) \in 1..Cardinality(kept)
  <2>1. k \in 1..len /\ k - 1 \in 0..len /\ len \in 0..len /\ k \in 0..len
    BY <1>0
  <2>2. Place(kept, k) = Place(kept, k - 1) + 1 /\ Place(kept, k) <= Place(kept, len)
    BY <1>4, <1>5, <2>1
  <2>3. Place(kept, k - 1) \in Nat /\ Place(kept, k) \in Nat
    BY <1>2
  <2> QED
    BY <1>3, <2>2, <2>3
<1>8. ASSUME NEW n \in 1..Cardinality(kept) PROVE \E k \in kept : Place(kept, k) = n
  <2> DEFINE T == {k \in 1..len : Place(kept, k) >= n}
  <2>0. Cardinality(kept) \in Nat
    BY <1>1, FS_CardinalityType
  <2>1. T \subseteq Nat /\ T # {}
    <3>1. len \in T
      <4>1. len # 0
        BY <1>3, <2>0
      <4> QED
        BY <1>3, <2>0, <4>1
    <3> QED
      BY <3>1
  <2>2. PICK k \in T : \A j \in T : k <= j
    BY <2>1, LeastNumber
  <2>3. Place(kept, k - 1) < n
    <3>1. CASE k = 1
      BY <1>3, <3>1
    <3>2. CASE k # 1
      <4>1. k - 1 \in 1..len /\ ~(k <= k - 1)
        BY <3>2
      <4>2. k - 1 \notin T
        BY <2>2, <4>1
      <4>3. Place(kept, k - 1) \in Nat
        BY <1>2
      <4> QED
        BY <4>1, <4>2, <4>3
    <3> QED
      BY <3>1, <3>2
  <2>4. Place(kept, k - 1) \in Nat /\ Place(kept, k) \in Nat
    BY <1>2
  <2> QED
    BY <1>4, <2>2, <2>3, <2>4
<1> QED
  BY <1>1, <1>6, <1>7, <1>8, FS_CardinalityType

\* What a filter keeps: the elements in S, in their order.
LEMMA FilterProperties ==
  ASSUME NEW T, NEW seq \in Seq(T), NEW S
  PROVE  \E n \in Nat : \E at \in [1..n -> DOMAIN seq] :
           /\ Filter(seq, S) = [m \in 1..n |-> seq[at[m]]]
           /\ \A m \in 1..n : seq[at[m]] \in S
           /\ \A l, m \in 1..n : l < m <=> at[l] < at[m]
           /\ \A k \in DOMAIN seq : seq[k] \in S => \E m \in 1..n : at[m] = k
<1> DEFINE kept == Kept(seq, S)
           n == Cardinality(kept)
           at == [m \in 1..n |-> CHOOSE k \in kept : Place(kept, k) = m]
<1>1. Len(seq) \in Nat /\ DOMAIN seq = 1..Len(seq) /\ kept \in SUBSET (1..Len(seq))
  BY LenProperties DEF Kept
<1>1a. Filter(seq, S) = [m \in 1..n |-> seq[CHOOSE k \in kept : Place(kept, k) = m]]
  BY DEF Filter
<1>1b. \A k : k \in kept <=> k \in DOMAIN seq /\ seq[k] \in S
  BY DEF Kept
<1> HIDE DEF kept
<1>2. /\ n \in Nat
      /\ \A k \in kept : Place(kept, k) \in 1..n
      /\ \A j, k \in kept : j < k => Place(kept, j) < Place(kept, k)
      /\ \A m \in 1..n : \E k \in kept : Place(kept, k) = m
  BY <1>1, Places
<1>3. \A m \in 1..n : at[m] \in kept /\ Place(kept, at[m]) = m
  BY <1>2
<1>4. Filter(seq, S) = [m \in 1..n |-> seq[at[m]]]
  BY <1>1a
<1> HIDE DEF n
<1>5. at \in [1..n -> DOMAIN seq]
  BY <1>1, <1>3
<1> HIDE DEF at
<1>6. \A j, k \in kept : j \in Int /\ k \in Int
  BY <1>1
<1>7. \A l, m \in 1..n : l < m <=> at[l] < at[m]
  <2> SUFFICES ASSUME NEW l \in 1..n, NEW m \in 1..n PROVE l < m <=> at[l] < at[m]
    OBVIOUS
  <2>1. /\ at[l] \in kept /\ at[m] \in kept
        /\ Place(kept, at[l]) = l /\ Place(kept, at[m]) = m
    BY <1>3
  <2>2. at[l] < at[m] => l < m
    BY <1>2, <2>1
  <2>3. at[m] < at[l] => m < l
    BY <1>2, <2>1
  <2>4. at[l] = at[m] => l = m
    BY <2>1
  <2> QED
    BY <1>6, <2>1, <2>2, <2>3, <2>4
<1>8. ASSUME NEW k \in kept PROVE \E m \in 1..n : at[m] = k
  <2>1. Place(kept, k) \in 1..n
    BY <1>2
  <2>2. PICK m \in 1..n : m = Place(kept, k)
    BY <2>1
  <2>3. at[m] \in kept /\ Place(kept, at[m]) = Place(kept, k)
    BY <1>3, <2>2
  <2>4. at[m] \in Int /\ k \in Int /\ Place(kept, k) \in Int
    BY <1>6, <2>1, <2>3
  <2>5. ~(at[m] < k) /\ ~(k < at[m])
    BY <1>2, <2>3, <2>4
  <2> QED
    BY <2>4, <2>5
<1> QED
  BY <1>1b, <1>2, <1>3, <1>4, <1>5, <1>7, <1>8

\* No element comes twice.
Distinct(seq) == \A j, k \in DOMAIN seq : seq[j] = seq[k] => j = k

\* A filter preserves that elements come once and their order.
LEMMA FilterKeeps ==
  ASSUME NEW T, NEW seq \in Seq(T), NEW S
  PROVE  /\ Filter(seq, S) \in Seq(T)
         /\ Elements(Filter(seq, S)) = Elements(seq) \cap S
         /\ Distinct(seq) => Distinct(Filter(seq, S))
         /\ \A p, q \in S : Before(seq, p, q) => Before(Filter(seq, S), p, q)
<1> DEFINE kept == Filter(seq, S)
<1>0. PICK n \in Nat : \E at \in [1..n -> DOMAIN seq] :
           /\ kept = [m \in 1..n |-> seq[at[m]]]
           /\ \A m \in 1..n : seq[at[m]] \in S
           /\ \A l, m \in 1..n : l < m <=> at[l] < at[m]
           /\ \A k \in DOMAIN seq : seq[k] \in S => \E m \in 1..n : at[m] = k
  BY FilterProperties
<1>1. PICK at \in [1..n -> DOMAIN seq] :
           /\ kept = [m \in 1..n |-> seq[at[m]]]
           /\ \A m \in 1..n : seq[at[m]] \in S
           /\ \A l, m \in 1..n : l < m <=> at[l] < at[m]
           /\ \A k \in DOMAIN seq : seq[k] \in S => \E m \in 1..n : at[m] = k
  BY <1>0
<1>2. \A k \in DOMAIN seq : seq[k] \in T
  BY ElementOfSeq, LenProperties
<1>3. \A m \in 1..n : at[m] \in DOMAIN seq /\ kept[m] = seq[at[m]]
  BY <1>1
<1>4. DOMAIN kept = 1..n
  BY <1>1
<1> HIDE DEF kept
<1>5. kept \in Seq(T)
  BY <1>1, <1>2, <1>3, IsASeq
<1>6. Elements(kept) = Elements(seq) \cap S
  <2>1. \A m \in 1..n : kept[m] \in Elements(seq) /\ kept[m] \in S
    BY <1>1, <1>3 DEF Elements
  <2>2. ASSUME NEW e \in S, e \in Elements(seq) PROVE \E m \in 1..n : e = kept[m]
    BY <1>1, <1>3, <2>2 DEF Elements
  <2> QED
    BY <1>4, <2>1, <2>2 DEF Elements
<1>7. ASSUME Distinct(seq) PROVE Distinct(kept)
  <2> SUFFICES ASSUME NEW l \in 1..n, NEW m \in 1..n, kept[l] = kept[m] PROVE l = m
    BY <1>4 DEF Distinct
  <2>1. at[l] = at[m]
    BY <1>3, <1>7 DEF Distinct
  <2>2. at[l] \in Int /\ at[m] \in Int
    BY <1>3, LenProperties
  <2>3. ~(at[l] < at[m]) /\ ~(at[m] < at[l])
    BY <2>1, <2>2
  <2>4. ~(l < m) /\ ~(m < l)
    BY <1>1, <2>3
  <2> QED
    BY <2>4
<1>8. ASSUME NEW p \in S, NEW q \in S, Before(seq, p, q) PROVE Before(kept, p, q)
  <2>1. PICK j \in DOMAIN seq, k \in DOMAIN seq : j < k /\ seq[j] = p /\ seq[k] = q
    BY <1>8 DEF Before
  <2>2. PICK l \in 1..n, m \in 1..n : at[l] = j /\ at[m] = k
    BY <1>1, <2>1
  <2> QED
    BY <1>1, <1>3, <1>4, <2>1, <2>2 DEF Before
<1> QED
  BY <1>5, <1>6, <1>7, <1>8 DEF kept

\* An appended element is behind all others, whose order stays.
LEMMA AppendKeeps ==
  ASSUME NEW T, NEW seq \in Seq(T), NEW e \in T
  PROVE  LET longer == Append(seq, e)
         IN /\ longer \in Seq(T) /\ longer # <<>>
            /\ Elements(longer) = Elements(seq) \cup {e}
            /\ Distinct(seq) /\ e \notin Elements(seq) => Distinct(longer)
            /\ \A p, q : Before(seq, p, q) => Before(longer, p, q)
            /\ \A p \in Elements(seq) : Before(longer, p, e)
<1> DEFINE longer == Append(seq, e)
<1>1. /\ longer \in Seq(T) /\ longer # <<>>
      /\ DOMAIN seq = 1..Len(seq) /\ Len(seq) \in Nat /\ DOMAIN longer = 1..(Len(seq) + 1)
      /\ \A k \in 1..Len(seq) : longer[k] = seq[k]
      /\ longer[Len(seq) + 1] = e
  BY AppendProperties, LenProperties
<1> HIDE DEF longer
<1>2. \A k \in DOMAIN longer : k \in DOMAIN seq \/ k = Len(seq) + 1
  BY <1>1
<1>3. DOMAIN seq \subseteq DOMAIN longer /\ Len(seq) + 1 \in DOMAIN longer
      /\ \A k \in DOMAIN seq : k < Len(seq) + 1
  BY <1>1
<1>4. Elements(longer) = Elements(seq) \cup {e}
  BY <1>1, <1>2, <1>3 DEF Elements
<1>5. Distinct(seq) /\ e \notin Elements(seq) => Distinct(longer)
  BY <1>1, <1>2, <1>3 DEF Elements, Distinct
<1>6. \A p, q : Before(seq, p, q) => Before(longer, p, q)
  BY <1>1, <1>3 DEF Before
<1>7. \A p \in Elements(seq) : Before(longer, p, e)
  BY <1>1, <1>3 DEF Before, Elements
<1> QED
  BY <1>1, <1>4, <1>5, <1>6, <1>7 DEF longer

\* A sequence is its head and its tail.
LEMMA TailKeeps ==
  ASSUME NEW T, NEW seq \in Seq(T), seq # <<>>
  PROVE  /\ Tail(seq) \in Seq(T) /\ Head(seq) \in T
         /\ Elements(seq) = Elements(Tail(seq)) \cup {Head(seq)}
         /\ Distinct(seq) => Distinct(Tail(seq)) /\ Head(seq) \notin Elements(Tail(seq))
<1> DEFINE rest == Tail(seq)
<1>1. /\ rest \in Seq(T) /\ Head(seq) \in T /\ Head(seq) = seq[1]
      /\ Len(seq) \in Nat /\ Len(seq) # 0 /\ DOMAIN seq = 1..Len(seq)
      /\ DOMAIN rest = 1..(Len(seq) - 1)
      /\ \A k \in 1..(Len(seq) - 1) : rest[k] = seq[k + 1]
  <2>1. Len(seq) \in Nat /\ Len(seq) # 0
    BY LenProperties, EmptySeq
  <2>2. /\ rest \in Seq(T) /\ Head(seq) \in T /\ Len(rest) = Len(seq) - 1
        /\ \A k \in 1..Len(rest) : rest[k] = seq[k + 1]
    BY HeadTailProperties
  <2> QED
    BY <2>1, <2>2, LenProperties
<1> HIDE DEF rest
<1>2. \A k \in DOMAIN seq : k = 1 \/ (k - 1 \in DOMAIN rest /\ rest[k - 1] = seq[k])
  BY <1>1
<1>3. 1 \in DOMAIN seq
  BY <1>1
<1>4. \A k \in DOMAIN rest : k + 1 \in DOMAIN seq /\ k + 1 # 1 /\ rest[k] = seq[k + 1]
  BY <1>1
<1>5. Elements(seq) = Elements(rest) \cup {Head(seq)}
  <2>1. \A k \in DOMAIN rest : rest[k] \in Elements(seq)
    BY <1>4 DEF Elements
  <2>2. Head(seq) \in Elements(seq)
    BY <1>1, <1>3 DEF Elements
  <2>3. \A k \in DOMAIN seq : seq[k] = Head(seq) \/ seq[k] \in Elements(rest)
    BY <1>1, <1>2 DEF Elements
  <2>4. \A e \in Elements(seq) : e = Head(seq) \/ e \in Elements(rest)
    BY <2>3 DEF Elements
  <2>5. \A e \in Elements(rest) : e \in Elements(seq)
    BY <2>1 DEF Elements
  <2> QED
    BY <2>2, <2>4, <2>5
<1>6. ASSUME Distinct(seq) PROVE Distinct(rest) /\ Head(seq) \notin Elements(rest)
  <2>1. Head(seq) \notin Elements(rest)
    BY <1>1, <1>3, <1>4, <1>6 DEF Distinct, Elements
  <2>2. ASSUME NEW j \in DOMAIN rest, NEW k \in DOMAIN rest, rest[j] = rest[k] PROVE j = k
    <3>1. j + 1 = k + 1
      BY <1>4, <1>6, <2>2 DEF Distinct
    <3> QED
      BY <1>1, <3>1
  <2> QED
    BY <2>1, <2>2 DEF Distinct
<1> QED
  BY <1>1, <1>5, <1>6 DEF rest

\* A sequence whose elements come once is as long as they are many.
LEMMA DistinctCount ==
  ASSUME NEW T, NEW seq \in Seq(T), Distinct(seq)
  PROVE  IsFiniteSet(Elements(seq)) /\ Cardinality(Elements(seq)) = Len(seq)
<1>1. Len(seq) \in Nat /\ DOMAIN seq = 1..Len(seq)
  BY LenProperties
<1>2. seq \in [1..Len(seq) -> Elements(seq)]
  BY <1>1 DEF Elements
<1>3. seq \in Injection(1..Len(seq), Elements(seq))
  BY <1>1, <1>2 DEF Distinct, Injection, IsInjective
<1>4. seq \in Surjection(1..Len(seq), Elements(seq))
  BY <1>1, <1>2 DEF Elements, Surjection
<1>5. IsFiniteSet(1..Len(seq)) /\ Cardinality(1..Len(seq)) = Len(seq)
  BY <1>1, FS_Interval
<1> QED
  BY <1>3, <1>4, <1>5, FS_Surjection

-----------------------------------------------------------------------------
(***************************************************************************)
(* The rows.                                                               *)
(***************************************************************************)

RowTypes == reviews \in [Review -> Row] /\ overlays \subseteq Review
RowInv == RowTypes /\ OverlayWithCompletion

\* What may happen to the row and the overlay of review r in one step.
RowMoves(r) ==
  \/ reviews'[r] = reviews[r] /\ (r \in overlays' <=> r \in overlays)
  \/ /\ \/ reviews[r].status = "absent" /\ reviews'[r] = Unleased("queued")
        \/ reviews[r].status = "queued" /\ \E tok \in Token : reviews'[r] = Leased(tok)
        \/ /\ reviews[r].status = "running" /\ reviews'[r].status = "running"
           /\ reviews'[r].token = reviews[r].token
        \/ reviews[r].status \in Active /\ reviews'[r] = Unleased("failed")
     /\ r \in overlays' <=> r \in overlays
  \/ /\ reviews[r].status = "running" /\ reviews'[r] = Unleased("completed")
     /\ r \in overlays'

RowsMove == RowTypes' /\ \A r \in Review : RowMoves(r)

\* The rows a write produces have their type.
LEMMA RowShapes ==
  /\ \A status \in {"absent"} \cup Active \cup Ended : Unleased(status) \in Row
  /\ \A tok \in Token : Leased(tok) \in Row
  BY ReviewRowsAssumption DEF Unleased, Leased, Row, Active

\* A step that leaves the tables alone.
LEMMA RowsStay == ASSUME RowTypes, UNCHANGED rowVars PROVE RowsMove
  BY DEF RowTypes, RowsMove, RowMoves, rowVars

\* A new review is one of the ways a row moves.
LEMMA CreateMoves ==
  ASSUME RowTypes, NEW r \in Review, CreateRow(r) PROVE RowsMove
  BY RowShapes DEF RowTypes, RowsMove, RowMoves, CreateRow, Write, Active

\* A claim takes a queued row, or one whose lease lapsed, into "running".
LEMMA ClaimMoves ==
  ASSUME RowTypes, NEW r \in Review, NEW tok \in Token, ClaimRow(r, tok) PROVE RowsMove
  BY RowShapes DEF RowTypes, RowsMove, RowMoves, ClaimRow, Claimable, Write

\* A renewal changes only the lease of a running row.
LEMMA RenewMoves ==
  ASSUME RowTypes, NEW r \in Review, NEW tok, RenewRow(r, tok) PROVE RowsMove
<1>1. CASE UNCHANGED reviews
  BY <1>1, RowsStay DEF RenewRow, rowVars
<1>2. CASE /\ reviews[r].expiry < MaxRenewals
           /\ reviews' = [reviews EXCEPT ![r].expiry = @ + 1]
  <2> DEFINE row == [reviews[r] EXCEPT !.expiry = @ + 1]
  <2>1. reviews[r] \in Row
    BY DEF RowTypes
  <2>2. row \in Row /\ row.status = reviews[r].status /\ row.token = reviews[r].token
    BY <1>2, <2>1, ReviewRowsAssumption DEF Row
  <2>3. reviews' = [reviews EXCEPT ![r] = row]
    BY <1>2, <2>1 DEF RowTypes
  <2> QED
    BY <2>2, <2>3 DEF RowTypes, RowsMove, RowMoves, RenewRow, HeldBy
<1> QED
  BY <1>1, <1>2 DEF RenewRow

\* A completion ends a running row with its overlay.
LEMMA CompleteMoves ==
  ASSUME RowTypes, NEW r \in Review, NEW tok, NEW n, CompleteRow(r, tok, n) PROVE RowsMove
  BY RowShapes DEF RowTypes, RowsMove, RowMoves, CompleteRow, Completable, HeldBy, Write, Ended

\* A failure ends a row that has not ended.
LEMMA FailMoves ==
  ASSUME RowTypes, NEW r \in Review, FailRow(r) PROVE RowsMove
  BY RowShapes DEF RowTypes, RowsMove, RowMoves, FailRow, Failable, Write, Ended, Active

\* The sweep of expired rows ends only rows that have not ended.
LEMMA ExpireMoves == ASSUME RowTypes, ExpireRows PROVE RowsMove
  BY RowShapes DEF RowTypes, RowsMove, RowMoves, ExpireRows, Ended, Active

\* A lease that lapses leaves its row as it is otherwise.
LEMMA LapseMoves ==
  ASSUME RowTypes, NEW r \in Review, LapseRow(r) PROVE RowsMove
<1> DEFINE row == [reviews[r] EXCEPT !.lapsed = TRUE]
<1>1. reviews[r] \in Row
  BY DEF RowTypes
<1>2. row \in Row /\ row.status = reviews[r].status /\ row.token = reviews[r].token
  BY <1>1 DEF Row
<1>3. reviews' = [reviews EXCEPT ![r] = row]
  BY <1>1 DEF RowTypes, LapseRow
<1> QED
  BY <1>2, <1>3 DEF RowTypes, RowsMove, RowMoves, LapseRow

\* Every step of the coordinators moves every row in one of these ways.
LEMMA StepMovesRows ==
  ASSUME RowTypes, [Next]_vars PROVE RowsMove
<1>1. ASSUME NEW i \in Instance, NEW r \in Review, CreateReview(i, r) PROVE RowsMove
  BY <1>1, CreateMoves, RowsStay DEF CreateReview
<1>2. ASSUME NEW r \in Review, Enqueue(r) \/ CancelEnds(r) PROVE RowsMove
  BY <1>2, RowsStay DEF Enqueue, CancelEnds
<1>3. ASSUME NEW r \in Review, Reject(r) \/ CancelStored(r) PROVE RowsMove
  BY <1>3, FailMoves, RowsStay DEF Reject, CancelStored
<1>4. ASSUME NEW i \in Instance, NEW r \in Review, Claim(i, r) PROVE RowsMove
  <2>1. UnusedTokens # {} => NewToken \in Token
    BY DEF UnusedTokens, NewToken
  <2> QED
    BY <1>4, <2>1, ClaimMoves, RowsStay DEF Claim
<1>5. ASSUME NEW i \in Instance, NEW r \in Review,
             Renew(i, r) \/ BeatRenews(i, r)
      PROVE  RowsMove
  BY <1>5, RenewMoves, RowsStay DEF Renew, BeatRenews
<1>6. ASSUME NEW i \in Instance, NEW r \in Review,
             Complete(i, r) \/ FailReview(i, r)
      PROVE  RowsMove
  BY <1>6, CompleteMoves, FailMoves, RowsStay DEF Complete, FailReview
<1>7. ASSUME NEW i \in Instance, NEW r \in Review,
             \/ Cancel(i, r) \/ ProtocolFails(i, r) \/ ProtocolEnds(i, r)
             \/ ProtocolWins(i, r) \/ Release(i, r) \/ BeatAnswered(i, r)
             \/ RecoveryQueues(i, r)
      PROVE  RowsMove
  BY <1>7, RowsStay DEF Cancel, ProtocolFails, ProtocolEnds, ProtocolWins, Release,
                        BeatAnswered, RecoveryQueues
<1>8. ASSUME NEW i \in Instance,
             \/ RecoveryLists(i) \/ RecoveryResumes(i) \/ RecoverySleeps(i)
             \/ DispatchEnds(i) \/ Crash(i) \/ ShutdownBegins(i)
             \/ \E o \in Owner : Dequeue(i, o)
      PROVE  RowsMove
  BY <1>8, RowsStay DEF RecoveryLists, RecoveryResumes, RecoverySleeps, DispatchEnds,
                        Crash, ShutdownBegins, Dequeue
<1>9. ASSUME NEW i \in Instance, ShutdownEnds(i) PROVE RowsMove
  BY <1>9, RowShapes
     DEF ShutdownEnds, RowTypes, RowsMove, RowMoves, Failable, Active, Ended
<1>10. ASSUME Expire PROVE RowsMove
  BY <1>10, ExpireMoves DEF Expire
<1>11. ASSUME NEW r \in Review, Lapse(r) PROVE RowsMove
  BY <1>11, LapseMoves DEF Lapse
<1>12. CASE UNCHANGED vars
  BY <1>12, RowsStay DEF vars, rowVars
<1> QED
  BY <1>1, <1>2, <1>3, <1>4, <1>5, <1>6, <1>7, <1>8, <1>9, <1>10, <1>11, <1>12
     DEF Next, Begin, Continue, Route, Protocol, Heartbeat, Recover

\* The store starts without reviews.
LEMMA RowInit == Init => RowInv
  BY RowShapes, ReviewRowsAssumption
     DEF Init, RowsInit, RowInv, RowTypes, OverlayWithCompletion, Unleased

\* Every step keeps the invariant of the rows.
LEMMA RowNext == ASSUME RowInv, [Next]_vars PROVE RowInv'
<1>1. RowsMove
  BY StepMovesRows DEF RowInv
<1>2. ASSUME NEW r \in Review
      PROVE  /\ r \in overlays' <=> reviews'[r].status = "completed"
             /\ reviews'[r].token # None <=> reviews'[r].status = "running"
  <2>1. RowMoves(r)
    BY <1>1 DEF RowsMove
  <2>2. /\ r \in overlays <=> reviews[r].status = "completed"
        /\ reviews[r].token # None <=> reviews[r].status = "running"
    BY DEF RowInv, OverlayWithCompletion
  <2>3. CASE reviews'[r] = reviews[r] /\ (r \in overlays' <=> r \in overlays)
    BY <2>2, <2>3
  <2>4. CASE /\ reviews[r].status = "running" /\ reviews'[r].status = "running"
             /\ reviews'[r].token = reviews[r].token
             /\ r \in overlays' <=> r \in overlays
    BY <2>2, <2>4
  <2>5. CASE /\ reviews[r].status \in Active
             /\ reviews'[r] = Unleased("failed")
             /\ r \in overlays' <=> r \in overlays
    BY <2>2, <2>5 DEF Unleased, Active
  <2>6. CASE /\ reviews[r].status = "running"
             /\ reviews'[r] = Unleased("completed")
             /\ r \in overlays'
    BY <2>6 DEF Unleased
  <2>7. CASE /\ reviews[r].status = "absent"
             /\ reviews'[r] = Unleased("queued")
             /\ r \in overlays' <=> r \in overlays
    BY <2>2, <2>7 DEF Unleased
  <2>8. CASE /\ reviews[r].status = "queued"
             /\ \E tok \in Token : reviews'[r] = Leased(tok)
             /\ r \in overlays' <=> r \in overlays
    BY <2>2, <2>8, ReviewRowsAssumption DEF Leased
  <2> QED
    BY <2>1, <2>3, <2>4, <2>5, <2>6, <2>7, <2>8 DEF RowMoves
<1> QED
  BY <1>1, <1>2 DEF RowsMove, RowInv, OverlayWithCompletion

\* The invariant of the rows holds in every state.
LEMMA RowSafety == Spec => []RowInv
  BY RowInit, RowNext, PTL DEF Spec

\* A review has an overlay exactly when it is completed and a lease exactly when it
\* runs: completeReviewWithOverlay writes both or neither, and no other statement of
\* the store separates them.
THEOREM OverlayAlways == Spec => []OverlayWithCompletion
  BY RowSafety, PTL DEF RowInv

\* An ended review never changes again, whatever worker, sweep, cancel, recovery or
\* shutdown of any instance still acts on it.
THEOREM EndedStays == Spec => EndedForGood
<1>1. ASSUME RowInv, [Next]_vars
      PROVE  [\A r \in Review : reviews[r].status \in Ended => reviews'[r] = reviews[r]]_vars
  <2>1. RowsMove
    BY <1>1, StepMovesRows DEF RowInv
  <2> QED
    BY <2>1 DEF RowsMove, RowMoves, Ended, Active
<1> QED
  BY <1>1, RowSafety, PTL DEF Spec, EndedForGood

-----------------------------------------------------------------------------
(***************************************************************************)
(* The instance at which a request or a cancel is under way.               *)
(***************************************************************************)

Placed ==
  /\ request \in [Review -> [pc : {"idle", "created", "accepted", "duplicate",
                                   "rejecting", "rejected", "failed"},
                             at : Instance \cup {None}]]
  /\ cancel \in [Review -> [pc : {"idle", "storing", "stored", "done", "failed"},
                            at : Instance \cup {None}, active : BOOLEAN]]
  /\ \A r \in Review :
       /\ request[r].pc = "created" => request[r].at \in Instance
       /\ cancel[r].pc \in {"storing", "stored"} => cancel[r].at \in Instance

\* A request takes a step to a record that is placed; cancels are left alone.
LEMMA RequestPlaced ==
  ASSUME Placed, NEW r \in Review, UNCHANGED cancel,
         NEW pc \in {"created", "accepted", "duplicate", "rejecting", "rejected", "failed"},
         NEW at \in Instance \cup {None}, pc = "created" => at \in Instance,
         request' = [request EXCEPT ![r] = [pc |-> pc, at |-> at]]
  PROVE  Placed'
  BY DEF Placed

\* A cancel takes a step to a record that is placed; requests are left alone.
LEMMA CancelPlaced ==
  ASSUME Placed, NEW r \in Review, UNCHANGED request,
         NEW pc \in {"storing", "stored", "done", "failed"}, NEW mine \in BOOLEAN,
         NEW at \in Instance \cup {None}, pc \in {"storing", "stored"} => at \in Instance,
         cancel' = [cancel EXCEPT ![r] = [pc |-> pc, at |-> at, active |-> mine]]
  PROVE  Placed'
  BY DEF Placed

\* An instance that starts again has no dispatcher under way.
LEMMA ResetPlaced == ASSUME Placed, NEW i \in Instance, Reset(i) PROVE Placed'
  BY DEF Placed, Reset, Answered, CancelAnswered

\* No dispatcher is under way at first.
LEMMA PlacedInit == Init => Placed
  BY DEF Init, Placed, Answered, CancelAnswered

\* Every step keeps a dispatcher in its own instance.
LEMMA PlacedNext == ASSUME Placed, [Next]_vars PROVE Placed'
<1>1. ASSUME UNCHANGED <<request, cancel>> PROVE Placed'
  BY <1>1 DEF Placed
<1>2. ASSUME NEW i \in Instance, NEW r \in Review, CreateReview(i, r) PROVE Placed'
  BY <1>2, RequestPlaced DEF CreateReview, Answered
<1>3. ASSUME NEW r \in Review, Enqueue(r) PROVE Placed'
  <2>1. /\ request[r].pc = "created" /\ request[r].at \in Instance
        /\ [request[r] EXCEPT !.pc = "rejecting"] = [pc |-> "rejecting", at |-> request[r].at]
    BY <1>3 DEF Enqueue, Placed
  <2>2. CASE request' = [request EXCEPT ![r].pc = "rejecting"]
    <3>1. request' = [request EXCEPT ![r] = [pc |-> "rejecting", at |-> request[r].at]]
      BY <2>1, <2>2 DEF Placed
    <3> QED
      BY <1>3, <2>1, <3>1, RequestPlaced DEF Enqueue
  <2> QED
    BY <1>3, <2>2, RequestPlaced DEF Enqueue, Answered
<1>4. ASSUME NEW r \in Review, Reject(r) PROVE Placed'
  BY <1>4, RequestPlaced DEF Reject, Answered
<1>5. ASSUME NEW i \in Instance, NEW r \in Review, Cancel(i, r) PROVE Placed'
  <2>1. (r \in active[i]) \in BOOLEAN
    OBVIOUS
  <2> QED
    BY <1>5, <2>1, CancelPlaced DEF Cancel
<1>6. ASSUME NEW r \in Review, CancelStored(r) PROVE Placed'
  <2>1. /\ cancel[r].pc = "storing" /\ cancel[r].at \in Instance /\ cancel[r].active \in BOOLEAN
        /\ [cancel[r] EXCEPT !.pc = "stored"]
             = [pc |-> "stored", at |-> cancel[r].at, active |-> cancel[r].active]
    BY <1>6 DEF CancelStored, Placed
  <2>2. CASE cancel' = [cancel EXCEPT ![r].pc = "stored"]
    <3>1. cancel' = [cancel EXCEPT ![r] =
                      [pc |-> "stored", at |-> cancel[r].at, active |-> cancel[r].active]]
      BY <2>1, <2>2 DEF Placed
    <3> QED
      BY <1>6, <2>1, <3>1, CancelPlaced DEF CancelStored
  <2> QED
    BY <1>6, <2>2, CancelPlaced DEF CancelStored, CancelAnswered
<1>7. ASSUME NEW r \in Review, CancelEnds(r) PROVE Placed'
  BY <1>7, CancelPlaced DEF CancelEnds, CancelAnswered
<1>8. ASSUME NEW i \in Instance, Crash(i) \/ ShutdownEnds(i) PROVE Placed'
  BY <1>8, ResetPlaced DEF Crash, ShutdownEnds
<1>9. ASSUME NEW i \in Instance, NEW r \in Review,
             Protocol(i, r) \/ Heartbeat(i, r) \/ RecoveryQueues(i, r)
      PROVE  Placed'
  BY <1>1, <1>9 DEF Protocol, Heartbeat, RecoveryQueues, Claim, Renew, ProtocolFails,
                    ProtocolEnds, Complete, ProtocolWins, FailReview, Release, BeatRenews,
                    BeatAnswered, WorkerStep
<1>10. ASSUME NEW i \in Instance,
              \/ Recover(i) \/ RecoverySleeps(i) \/ DispatchEnds(i) \/ ShutdownBegins(i)
              \/ \E o \in Owner : Dequeue(i, o)
       PROVE  Placed'
  BY <1>1, <1>10 DEF Recover, RecoveryLists, RecoveryResumes, RecoverySleeps, DispatchEnds,
                     ShutdownBegins, Dequeue
<1>11. ASSUME Expire \/ \E r \in Review : Lapse(r) PROVE Placed'
  BY <1>1, <1>11 DEF Expire, Lapse
<1>12. CASE UNCHANGED vars
  BY <1>1, <1>12 DEF vars
<1> QED
  BY <1>2, <1>3, <1>4, <1>5, <1>6, <1>7, <1>8, <1>9, <1>10, <1>11, <1>12
     DEF Next, Begin, Continue, Route

-----------------------------------------------------------------------------
(***************************************************************************)
(* The workers and the owners of an instance.                              *)
(***************************************************************************)

PoolTypes ==
  /\ worker \in [Instance -> [Review -> Worker]]
  /\ active \in [Instance -> SUBSET Review]
  /\ activeOwners \in [Instance -> SUBSET Owner]
  /\ cancelled \in [Instance -> SUBSET Review]
  /\ pending \in [Instance -> [Owner -> Seq(Review)]]

\* Every queue holds reviews of its owner.
Own(o) == {r \in Review : OwnerOf[r] = o}
QueuesOwned == \A i \in Instance, o \in Owner : pending[i][o] \in Seq(Own(o))

PoolInv == PoolTypes /\ QueuesOwned /\ WorkersAccounted

\* A worker that only waits, or is about to do something, at pc.
LEMMA AtType ==
  ASSUME NEW pc \in {"idle", "claiming", "working", "completing", "completed",
                     "failing", "releasing"}
  PROVE  At(pc) \in Worker /\ At(pc).pc = pc /\ At(pc).lease = 0 /\ At(pc).beat = None
  BY ReviewRowsAssumption DEF At, IdleWorker, Worker

\* A worker fiber without a review is idle.
LEMMA IdleType == IdleWorker \in Worker /\ IdleWorker.pc = "idle"
  BY ReviewRowsAssumption DEF IdleWorker, Worker

\* A step that leaves the pool alone.
LEMMA PoolStays ==
  ASSUME PoolInv, UNCHANGED <<schedulerVars, worker>> PROVE PoolInv'
  BY DEF PoolInv, PoolTypes, QueuesOwned, WorkersAccounted, schedulerVars

\* A worker that is not idle goes on and does not become idle.
LEMMA PoolWorks ==
  ASSUME PoolInv, NEW i \in Instance, NEW r \in Review, NEW w \in Worker,
         worker[i][r].pc # "idle", w.pc # "idle", WorkerStep(i, r, w)
  PROVE  PoolInv'
<1>1. /\ worker' \in [Instance -> [Review -> Worker]]
      /\ worker'[i][r] = w
      /\ \A j \in Instance, q \in Review : j # i \/ q # r => worker'[j][q] = worker[j][q]
  BY DEF PoolInv, PoolTypes, WorkerStep
<1>2. \A j \in Instance :
        {q \in Review : worker'[j][q].pc # "idle"} = {q \in Review : worker[j][q].pc # "idle"}
  BY <1>1
<1> QED
  BY <1>1, <1>2 DEF PoolInv, PoolTypes, QueuesOwned, WorkersAccounted, WorkerStep, schedulerVars

\* A review is appended to the queue of its owner.
LEMMA PoolAppends ==
  ASSUME PoolInv, NEW i \in Instance, NEW r \in Review, AddPending(i, r), UNCHANGED worker
  PROVE  PoolInv'
<1> DEFINE o == OwnerOf[r]
<1>1. o \in Owner /\ r \in Own(o)
  BY SchedulerAssumption DEF Own
<1>2. Append(pending[i][o], r) \in Seq(Own(o)) /\ Append(pending[i][o], r) \in Seq(Review)
  BY <1>1, AppendProperties DEF PoolInv, PoolTypes, QueuesOwned
<1>3. pending' = [pending EXCEPT ![i][o] = Append(pending[i][o], r)]
  BY DEF AddPending
<1>4. /\ pending' \in [Instance -> [Owner -> Seq(Review)]]
      /\ \A j \in Instance, p \in Owner : pending'[j][p] \in Seq(Own(p))
  BY <1>1, <1>2, <1>3 DEF PoolInv, PoolTypes, QueuesOwned
<1> QED
  BY <1>4 DEF PoolInv, PoolTypes, QueuesOwned, WorkersAccounted, AddPending, Own

\* What is left of a queue without a review.
LEMMA WithoutKeeps ==
  ASSUME NEW T, NEW seq \in Seq(T), NEW r
  PROVE  /\ Without(seq, r) \in Seq(T)
         /\ Elements(Without(seq, r)) = Elements(seq) \ {r}
         /\ Distinct(seq) => Distinct(Without(seq, r))
<1> DEFINE S == Elements(seq) \ {r}
<1>1. Without(seq, r) = Filter(seq, S) /\ Elements(seq) \cap S = S
  BY DEF Without
<1> HIDE DEF S
<1>2. /\ Without(seq, r) \in Seq(T)
      /\ Elements(Without(seq, r)) = S
      /\ Distinct(seq) => Distinct(Without(seq, r))
  BY <1>1, FilterKeeps
<1> QED
  BY <1>2 DEF S

\* A cancelled review leaves the pending queue and the pool as it is.
LEMMA PoolCancels ==
  ASSUME PoolInv, NEW i \in Instance, NEW r \in Review, Cancel(i, r) PROVE PoolInv'
<1> DEFINE o == OwnerOf[r]
           rest == Without(pending[i][o], r)
<1>1. o \in Owner
  BY SchedulerAssumption
<1>2. rest \in Seq(Own(o)) /\ rest \in Seq(Review)
  BY <1>1, WithoutKeeps DEF PoolInv, PoolTypes, QueuesOwned
<1>3. pending' = [pending EXCEPT ![i][o] = rest]
  BY DEF Cancel
<1>4. /\ pending' \in [Instance -> [Owner -> Seq(Review)]]
      /\ \A j \in Instance, p \in Owner : pending'[j][p] \in Seq(Own(p))
  BY <1>1, <1>2, <1>3 DEF PoolInv, PoolTypes, QueuesOwned
<1>5. /\ cancelled' \in [Instance -> SUBSET Review]
      /\ \A j \in Instance : cancelled'[j] \subseteq active[j]
  BY DEF Cancel, PoolInv, PoolTypes, WorkersAccounted
<1> QED
  BY <1>4, <1>5 DEF PoolInv, PoolTypes, QueuesOwned, WorkersAccounted, Cancel, Own

\* An owner without an active review gets the head of its queue dispatched.
LEMMA PoolDequeues ==
  ASSUME PoolInv, NEW i \in Instance, NEW o \in Owner, Dequeue(i, o) PROVE PoolInv'
<1> DEFINE r == Head(pending[i][o])
<1>1. pending[i][o] # <<>> /\ o \notin activeOwners[i]
  BY DEF Dequeue, Selected, Eligible
<1>2. r \in Own(o) /\ Tail(pending[i][o]) \in Seq(Own(o))
  BY <1>1, HeadTailProperties DEF PoolInv, QueuesOwned
<1>3. r \in Review /\ OwnerOf[r] = o /\ Tail(pending[i][o]) \in Seq(Review)
  BY <1>1, <1>2, HeadTailProperties DEF PoolInv, PoolTypes, Own
<1>4. /\ pending' \in [Instance -> [Owner -> Seq(Review)]]
      /\ \A j \in Instance, p \in Owner : pending'[j][p] \in Seq(Own(p))
  <2>1. pending' = [pending EXCEPT ![i][o] = Tail(pending[i][o])]
    BY DEF Dequeue
  <2> QED
    BY <1>2, <1>3, <2>1 DEF PoolInv, PoolTypes, QueuesOwned
<1>5. /\ worker' \in [Instance -> [Review -> Worker]]
      /\ worker'[i][r].pc = "claiming"
      /\ \A j \in Instance, q \in Review : j # i \/ q # r => worker'[j][q] = worker[j][q]
  <2>1. worker' = [worker EXCEPT ![i][r] = At("claiming")]
    BY DEF Dequeue
  <2> QED
    BY <1>3, <2>1, AtType DEF PoolInv, PoolTypes
<1>6. /\ active' = [active EXCEPT ![i] = @ \cup {r}]
      /\ activeOwners' = [activeOwners EXCEPT ![i] = @ \cup {o}]
      /\ UNCHANGED cancelled
  BY DEF Dequeue
<1>7. /\ active' \in [Instance -> SUBSET Review]
      /\ activeOwners' \in [Instance -> SUBSET Owner]
      /\ active'[i] = active[i] \cup {r} /\ activeOwners'[i] = activeOwners[i] \cup {o}
      /\ \A j \in Instance \ {i} : active'[j] = active[j] /\ activeOwners'[j] = activeOwners[j]
  BY <1>3, <1>6 DEF PoolInv, PoolTypes
<1>8. WorkersAccounted'
  <2>1. \A q \in active[i] : OwnerOf[q] # o
    BY <1>1 DEF PoolInv, WorkersAccounted
  <2>2. ASSUME NEW j \in Instance
        PROVE  /\ active'[j] = {q \in Review : worker'[j][q].pc # "idle"}
               /\ activeOwners'[j] = {OwnerOf[q] : q \in active'[j]}
               /\ \A q, p \in active'[j] : OwnerOf[q] = OwnerOf[p] => q = p
               /\ cancelled'[j] \subseteq active'[j]
    <3>1. /\ active[j] = {q \in Review : worker[j][q].pc # "idle"}
          /\ activeOwners[j] = {OwnerOf[q] : q \in active[j]}
          /\ \A q, p \in active[j] : OwnerOf[q] = OwnerOf[p] => q = p
          /\ cancelled[j] \subseteq active[j]
      BY DEF PoolInv, WorkersAccounted
    <3>2. CASE j # i
      BY <1>5, <1>6, <1>7, <3>1, <3>2
    <3>3. CASE j = i
      <4>1. active'[j] = {q \in Review : worker'[j][q].pc # "idle"}
        <5>1. \A q \in Review : worker'[i][q].pc # "idle" <=> q = r \/ worker[i][q].pc # "idle"
          BY <1>5
        <5> QED
          BY <1>3, <1>7, <3>1, <3>3, <5>1
      <4>2. activeOwners'[j] = {OwnerOf[q] : q \in active'[j]}
        BY <1>3, <1>7, <3>1, <3>3
      <4>3. \A q, p \in active'[j] : OwnerOf[q] = OwnerOf[p] => q = p
        BY <1>3, <1>7, <2>1, <3>1, <3>3
      <4> QED
        BY <1>6, <1>7, <3>1, <3>3, <4>1, <4>2, <4>3
    <3> QED
      BY <3>2, <3>3
  <2> QED
    BY <2>2 DEF WorkersAccounted
<1> QED
  BY <1>4, <1>5, <1>6, <1>7, <1>8 DEF PoolInv, PoolTypes, QueuesOwned, Own

\* A worker ends; its review, its owner and its mark go with it.
LEMMA PoolReleases ==
  ASSUME PoolInv, NEW i \in Instance, NEW r \in Review, Release(i, r) PROVE PoolInv'
<1>1. /\ worker' \in [Instance -> [Review -> Worker]]
      /\ worker'[i][r].pc = "idle"
      /\ \A j \in Instance, q \in Review : j # i \/ q # r => worker'[j][q] = worker[j][q]
  <2>1. worker' = [worker EXCEPT ![i][r] = IdleWorker]
    BY DEF Release
  <2> QED
    BY <2>1, IdleType DEF PoolInv, PoolTypes
<1>2. /\ active' = [active EXCEPT ![i] = @ \ {r}]
      /\ activeOwners' = [activeOwners EXCEPT ![i] = @ \ {OwnerOf[r]}]
      /\ cancelled' = [cancelled EXCEPT ![i] = @ \ {r}]
      /\ UNCHANGED pending
      /\ worker[i][r].pc = "releasing"
  BY DEF Release
<1>3. /\ active' \in [Instance -> SUBSET Review]
      /\ activeOwners' \in [Instance -> SUBSET Owner]
      /\ cancelled' \in [Instance -> SUBSET Review]
      /\ active'[i] = active[i] \ {r} /\ activeOwners'[i] = activeOwners[i] \ {OwnerOf[r]}
      /\ cancelled'[i] = cancelled[i] \ {r}
      /\ \A j \in Instance \ {i} : /\ active'[j] = active[j]
                                   /\ activeOwners'[j] = activeOwners[j]
                                   /\ cancelled'[j] = cancelled[j]
  BY <1>2 DEF PoolInv, PoolTypes
<1>4. ASSUME NEW j \in Instance
      PROVE  /\ active'[j] = {q \in Review : worker'[j][q].pc # "idle"}
             /\ activeOwners'[j] = {OwnerOf[q] : q \in active'[j]}
             /\ \A q, p \in active'[j] : OwnerOf[q] = OwnerOf[p] => q = p
             /\ cancelled'[j] \subseteq active'[j]
  <2>1. /\ active[j] = {q \in Review : worker[j][q].pc # "idle"}
        /\ activeOwners[j] = {OwnerOf[q] : q \in active[j]}
        /\ \A q, p \in active[j] : OwnerOf[q] = OwnerOf[p] => q = p
        /\ cancelled[j] \subseteq active[j]
    BY DEF PoolInv, WorkersAccounted
  <2>2. CASE j # i
    <3>1. {q \in Review : worker'[j][q].pc # "idle"} = {q \in Review : worker[j][q].pc # "idle"}
      BY <1>1, <2>2
    <3> QED
      BY <1>3, <2>1, <2>2, <3>1
  <2>3. CASE j = i
    <3>1. r \in active[i]
      BY <1>2, <2>1, <2>3
    <3>2. active'[j] = {q \in Review : worker'[j][q].pc # "idle"}
      BY <1>1, <1>3, <2>1, <2>3
    <3>3. activeOwners'[j] = {OwnerOf[q] : q \in active'[j]}
      BY <1>3, <2>1, <2>3, <3>1
    <3> QED
      BY <1>3, <2>1, <2>3, <3>2, <3>3
  <2> QED
    BY <2>2, <2>3
<1> QED
  BY <1>1, <1>2, <1>3, <1>4 DEF PoolInv, PoolTypes, QueuesOwned, WorkersAccounted

\* Workers are interrupted: those that run have only their release left.
LEMMA PoolInterrupts ==
  ASSUME PoolInv, UNCHANGED schedulerVars, worker' \in [Instance -> [Review -> Worker]],
         \A i \in Instance, r \in Review :
           worker'[i][r] \in {worker[i][r], Interrupted(worker[i][r])}
  PROVE  PoolInv'
<1>1. \A i \in Instance, r \in Review : worker'[i][r].pc = "idle" <=> worker[i][r].pc = "idle"
  BY AtType DEF Interrupted
<1>2. \A i \in Instance :
        {r \in Review : worker'[i][r].pc # "idle"} = {r \in Review : worker[i][r].pc # "idle"}
  BY <1>1
<1> QED
  BY <1>2 DEF PoolInv, PoolTypes, QueuesOwned, WorkersAccounted, schedulerVars

\* An instance that starts again has an empty pool.
LEMMA PoolResets ==
  ASSUME PoolInv, NEW i \in Instance, Reset(i) PROVE PoolInv'
<1>1. /\ worker' \in [Instance -> [Review -> Worker]]
      /\ active' \in [Instance -> SUBSET Review]
      /\ activeOwners' \in [Instance -> SUBSET Owner]
      /\ cancelled' \in [Instance -> SUBSET Review]
  BY IdleType DEF PoolInv, PoolTypes, Reset
<1>2. /\ pending' \in [Instance -> [Owner -> Seq(Review)]]
      /\ QueuesOwned'
  BY EmptySeq DEF PoolInv, PoolTypes, QueuesOwned, Reset, NoQueue, Own
<1>3. WorkersAccounted'
  BY IdleType DEF PoolInv, PoolTypes, WorkersAccounted, Reset
<1> QED
  BY <1>1, <1>2, <1>3 DEF PoolInv, PoolTypes

\* Every pool is empty at first.
LEMMA PoolInit == Init => PoolInv
<1> SUFFICES ASSUME Init PROVE PoolInv
  OBVIOUS
<1>1. PoolTypes
  BY IdleType, EmptySeq DEF Init, PoolTypes, NoQueue
<1>2. QueuesOwned
  BY EmptySeq DEF Init, QueuesOwned, NoQueue
<1>3. WorkersAccounted
  BY IdleType DEF Init, WorkersAccounted
<1> QED
  BY <1>1, <1>2, <1>3 DEF PoolInv

\* The protocol and the heartbeat: a worker that runs goes on.
LEMMA PoolProtocol ==
  ASSUME PoolInv, RowTypes, RowTypes', NEW i \in Instance, NEW r \in Review,
         Protocol(i, r) \/ Heartbeat(i, r)
  PROVE  PoolInv'
<1> DEFINE w == worker[i][r]
<1>1. w \in Worker
  BY DEF PoolInv, PoolTypes
<1>2. reviews'[r].expiry \in 0..MaxRenewals /\ 0..MaxRenewals \subseteq Nat
  BY ReviewRowsAssumption DEF RowTypes, Row
<1>3. ASSUME Claim(i, r) PROVE PoolInv'
  <2>1. CASE WorkerStep(i, r, At("failing"))
    BY <1>3, <2>1, PoolWorks, AtType DEF Claim
  <2>2. CASE UnusedTokens # {} /\ WorkerStep(i, r, [At("working") EXCEPT !.token = NewToken])
    <3>1. NewToken \in Token
      BY <2>2 DEF UnusedTokens, NewToken
    <3>2. /\ [At("working") EXCEPT !.token = NewToken] \in Worker
          /\ [At("working") EXCEPT !.token = NewToken].pc = "working"
      BY <3>1, AtType DEF Worker
    <3> QED
      BY <1>3, <2>2, <3>2, PoolWorks DEF Claim
  <2> QED
    BY <1>3, <2>1, <2>2 DEF Claim
<1>4. ASSUME Renew(i, r) PROVE PoolInv'
  <2>1. CASE WorkerStep(i, r, At("failing"))
    BY <1>4, <2>1, PoolWorks, AtType DEF Renew
  <2>2. CASE WorkerStep(i, r, [w EXCEPT !.lease = reviews'[r].expiry])
    <3>1. /\ [w EXCEPT !.lease = reviews'[r].expiry] \in Worker
          /\ [w EXCEPT !.lease = reviews'[r].expiry].pc = w.pc
      BY <1>1, <1>2 DEF Worker
    <3> QED
      BY <1>4, <2>2, <3>1, PoolWorks DEF Renew
  <2> QED
    BY <1>4, <2>1, <2>2 DEF Renew
<1>5. ASSUME ProtocolFails(i, r) \/ ProtocolWins(i, r) \/ FailReview(i, r) PROVE PoolInv'
  BY <1>5, PoolWorks, AtType DEF ProtocolFails, ProtocolWins, FailReview
<1>6. ASSUME ProtocolEnds(i, r) PROVE PoolInv'
  <2>1. [w EXCEPT !.pc = "completing"] \in Worker /\ [w EXCEPT !.pc = "completing"].pc # "idle"
    BY <1>1 DEF Worker
  <2> QED
    BY <1>6, <2>1, PoolWorks DEF ProtocolEnds
<1>7. ASSUME Complete(i, r) PROVE PoolInv'
  <2>1. [w EXCEPT !.pc = "completed"] \in Worker /\ [w EXCEPT !.pc = "completed"].pc # "idle"
    BY <1>1 DEF Worker
  <2>2. w.pc # "idle"
    BY <1>7 DEF Complete
  <2>3. \/ WorkerStep(i, r, [w EXCEPT !.pc = "completed"])
        \/ WorkerStep(i, r, At("failing"))
    BY <1>7 DEF Complete
  <2> QED
    BY <2>1, <2>2, <2>3, PoolWorks, AtType
<1>8. ASSUME Release(i, r) PROVE PoolInv'
  BY <1>8, PoolReleases
<1>9. ASSUME BeatRenews(i, r) PROVE PoolInv'
  <2>1. CASE WorkerStep(i, r, At("failing"))
    BY <1>9, <2>1, PoolWorks, AtType DEF BeatRenews, Beating
  <2>2. CASE WorkerStep(i, r, [w EXCEPT !.beat = reviews'[r].expiry])
    <3>1. /\ [w EXCEPT !.beat = reviews'[r].expiry] \in Worker
          /\ [w EXCEPT !.beat = reviews'[r].expiry].pc = w.pc
      BY <1>1, <1>2 DEF Worker
    <3> QED
      BY <1>9, <2>2, <3>1, PoolWorks DEF BeatRenews, Beating
  <2> QED
    BY <1>9, <2>1, <2>2 DEF BeatRenews
<1>10. ASSUME BeatAnswered(i, r) PROVE PoolInv'
  <2> DEFINE later == IF w.pc = "working" /\ w.beat > w.lease THEN w.beat ELSE w.lease
             answered == [w EXCEPT !.lease = later, !.beat = None]
  <2>1. w.pc # "idle" /\ w.beat # None /\ WorkerStep(i, r, answered)
    BY <1>10 DEF BeatAnswered, Beating
  <2>2. later \in 0..MaxRenewals
    BY <1>1, <2>1 DEF Worker
  <2>3. answered \in Worker /\ answered.pc = w.pc
    BY <1>1, <2>2 DEF Worker
  <2> QED
    BY <2>1, <2>3, PoolWorks
<1> QED
  BY <1>3, <1>4, <1>5, <1>6, <1>7, <1>8, <1>9, <1>10 DEF Protocol, Heartbeat

\* Every step keeps the accounts of every pool.
LEMMA PoolNext ==
  ASSUME PoolInv, Placed, RowTypes, [Next]_vars PROVE PoolInv'
<1>1. RowTypes'
  BY StepMovesRows DEF RowsMove
<1>2. ASSUME NEW i \in Instance, NEW r \in Review, Protocol(i, r) \/ Heartbeat(i, r)
      PROVE  PoolInv'
  BY <1>1, <1>2, PoolProtocol
<1>3. ASSUME NEW i \in Instance, NEW r \in Review, CreateReview(i, r) PROVE PoolInv'
  BY <1>3, PoolStays DEF CreateReview
<1>4. ASSUME NEW r \in Review, Enqueue(r) PROVE PoolInv'
  <2>1. request[r].at \in Instance
    BY <1>4 DEF Enqueue, Placed
  <2> QED
    BY <1>4, <2>1, PoolAppends, PoolStays DEF Enqueue
<1>5. ASSUME NEW r \in Review, Reject(r) \/ CancelStored(r) PROVE PoolInv'
  BY <1>5, PoolStays DEF Reject, CancelStored
<1>6. ASSUME NEW i \in Instance, NEW r \in Review, Cancel(i, r) PROVE PoolInv'
  BY <1>6, PoolCancels
<1>7. ASSUME NEW r \in Review, CancelEnds(r) PROVE PoolInv'
  <2> DEFINE i == cancel[r].at
             w == IF cancel[r].active THEN Interrupted(worker[i][r]) ELSE worker[i][r]
  <2>1. i \in Instance /\ worker[i][r] \in Worker
    BY <1>7 DEF CancelEnds, Placed, PoolInv, PoolTypes
  <2>2. w \in Worker /\ w \in {worker[i][r], Interrupted(worker[i][r])}
    BY <2>1, AtType DEF Interrupted
  <2>3. worker' = [worker EXCEPT ![i][r] = w] /\ UNCHANGED schedulerVars
    BY <1>7 DEF CancelEnds
  <2> HIDE DEF w
  <2>4. /\ worker' \in [Instance -> [Review -> Worker]]
        /\ \A j \in Instance, q \in Review :
             worker'[j][q] \in {worker[j][q], Interrupted(worker[j][q])}
    BY <2>1, <2>2, <2>3 DEF PoolInv, PoolTypes
  <2> QED
    BY <2>3, <2>4, PoolInterrupts
<1>8. ASSUME NEW i \in Instance, NEW o \in Owner, Dequeue(i, o) PROVE PoolInv'
  BY <1>8, PoolDequeues
<1>9. ASSUME NEW i \in Instance, DispatchEnds(i) \/ Recover(i) \/ RecoverySleeps(i)
      PROVE  PoolInv'
  BY <1>9, PoolStays DEF DispatchEnds, Recover, RecoveryLists, RecoveryResumes, RecoverySleeps
<1>10. ASSUME NEW i \in Instance, NEW r \in Review, RecoveryQueues(i, r) PROVE PoolInv'
  BY <1>10, PoolAppends, PoolStays DEF RecoveryQueues
<1>11. ASSUME NEW i \in Instance, Crash(i) \/ ShutdownEnds(i) PROVE PoolInv'
  BY <1>11, PoolResets DEF Crash, ShutdownEnds
<1>12. ASSUME NEW i \in Instance, ShutdownBegins(i) PROVE PoolInv'
  <2>1. /\ worker' = [worker EXCEPT ![i] = [r \in Review |-> Interrupted(worker[i][r])]]
        /\ UNCHANGED schedulerVars
    BY <1>12 DEF ShutdownBegins
  <2>2. \A r \in Review : Interrupted(worker[i][r]) \in Worker
    BY AtType DEF Interrupted, PoolInv, PoolTypes
  <2>3. /\ worker' \in [Instance -> [Review -> Worker]]
        /\ \A j \in Instance, q \in Review :
             worker'[j][q] \in {worker[j][q], Interrupted(worker[j][q])}
    BY <2>1, <2>2 DEF PoolInv, PoolTypes
  <2> QED
    BY <2>1, <2>3, PoolInterrupts
<1>13. ASSUME Expire \/ \E r \in Review : Lapse(r) PROVE PoolInv'
  BY <1>13, PoolStays DEF Expire, Lapse
<1>14. CASE UNCHANGED vars
  BY <1>14, PoolStays DEF vars
<1> QED
  BY <1>2, <1>3, <1>4, <1>5, <1>6, <1>7, <1>8, <1>9, <1>10, <1>11, <1>12, <1>13, <1>14
     DEF Next, Begin, Continue, Route

\* No worker fiber runs unaccounted for: in every instance the active reviews are
\* those with a worker, the active owners are theirs, and no owner has two, through
\* cancels, interrupts, recoveries, crashes and shutdowns.
THEOREM WorkersAlways == Spec => []WorkersAccounted
<1>1. PoolInv /\ Placed /\ RowInv /\ [Next]_vars => (PoolInv /\ Placed /\ RowInv)'
  BY PoolNext, PlacedNext, RowNext DEF RowInv
<1>2. Init => PoolInv /\ Placed /\ RowInv
  BY PoolInit, PlacedInit, RowInit
<1> QED
  BY <1>1, <1>2, PTL DEF Spec, PoolInv

-----------------------------------------------------------------------------
(***************************************************************************)
(* One run of a review, in all instances together.                         *)
(***************************************************************************)

\* No worker starts to run a review.
NoNewRun ==
  \A i \in Instance, r \in Review :
    worker'[i][r].pc \in {"working", "completing", "completed"} => Beating(i, r)

\* One worker may start to run review r: it has claimed the queued row.
NewRun(i, r) ==
  /\ reviews[r].status = "queued" /\ reviews'[r].status = "running"
  /\ \A j \in Instance, q \in Review : j # i \/ q # r => worker'[j][q] = worker[j][q]

\* A worker takes a step to w, which runs only if the worker ran before.
LEMMA StepStartsNothing ==
  ASSUME PoolTypes, NEW i \in Instance, NEW r \in Review, NEW w,
         worker' = [worker EXCEPT ![i][r] = w],
         w.pc \in {"working", "completing", "completed"} => Beating(i, r)
  PROVE  NoNewRun
<1>1. /\ worker'[i][r] = w
      /\ \A j \in Instance, q \in Review : j # i \/ q # r => worker'[j][q] = worker[j][q]
  BY DEF PoolTypes
<1> QED
  BY <1>1 DEF NoNewRun, Beating

\* Workers are interrupted or left alone.
LEMMA InterruptStartsNothing ==
  ASSUME \A i \in Instance, r \in Review :
           worker'[i][r] \in {worker[i][r], Interrupted(worker[i][r]), IdleWorker}
  PROVE  NoNewRun
<1>1. ASSUME NEW i \in Instance, NEW r \in Review,
             worker'[i][r].pc \in {"working", "completing", "completed"}
      PROVE  Beating(i, r)
  BY <1>1, AtType, IdleType DEF Interrupted, Beating
<1> QED
  BY <1>1 DEF NoNewRun

\* A claim of the store starts a run with a token of its own.
LEMMA ClaimStarts ==
  ASSUME PoolTypes, RowTypes, NEW i \in Instance, NEW r \in Review, Claim(i, r)
  PROVE  NoNewRun \/ NewRun(i, r)
<1>1. CASE WorkerStep(i, r, At("failing"))
  BY <1>1, StepStartsNothing, AtType DEF WorkerStep
<1>2. CASE /\ ClaimRow(r, NewToken)
           /\ WorkerStep(i, r, [At("working") EXCEPT !.token = NewToken])
  <2>1. reviews[r].status = "queued" /\ reviews'[r].status = "running"
    BY <1>2 DEF ClaimRow, Claimable, Write, Leased, RowTypes
  <2>2. \A j \in Instance, q \in Review : j # i \/ q # r => worker'[j][q] = worker[j][q]
    BY <1>2 DEF WorkerStep, PoolTypes
  <2> QED
    BY <2>1, <2>2 DEF NewRun
<1> QED
  BY <1>1, <1>2 DEF Claim

\* Only a claim starts a run.
LEMMA StepStarts ==
  ASSUME PoolTypes, RowTypes, Placed, [Next]_vars
  PROVE  NoNewRun \/ \E i \in Instance, r \in Review : NewRun(i, r)
<1> DEFINE Goal == NoNewRun \/ \E i \in Instance, r \in Review : NewRun(i, r)
<1>1. ASSUME UNCHANGED worker PROVE Goal
  BY <1>1 DEF NoNewRun, Beating
<1>2. ASSUME NEW i \in Instance, NEW r \in Review, Claim(i, r) PROVE Goal
  BY <1>2, ClaimStarts
<1>3. ASSUME NEW i \in Instance, NEW r \in Review, Renew(i, r) \/ Complete(i, r) \/ ProtocolEnds(i, r)
      PROVE  Goal
  <2>1. Beating(i, r) /\ \E w : WorkerStep(i, r, w)
    BY <1>3 DEF Renew, Complete, ProtocolEnds, Beating
  <2> QED
    BY <2>1, StepStartsNothing DEF WorkerStep
<1>4. ASSUME NEW i \in Instance, NEW r \in Review, Heartbeat(i, r) PROVE Goal
  <2>1. Beating(i, r) /\ \E w : WorkerStep(i, r, w)
    BY <1>4 DEF Heartbeat, BeatRenews, BeatAnswered
  <2> QED
    BY <2>1, StepStartsNothing DEF WorkerStep
<1>5. ASSUME NEW i \in Instance, NEW r \in Review,
             ProtocolFails(i, r) \/ ProtocolWins(i, r) \/ FailReview(i, r)
      PROVE  Goal
  BY <1>5, StepStartsNothing, AtType DEF ProtocolFails, ProtocolWins, FailReview, WorkerStep
<1>6. ASSUME NEW i \in Instance, NEW r \in Review, Release(i, r) PROVE Goal
  BY <1>6, StepStartsNothing, IdleType DEF Release
<1>7. ASSUME NEW i \in Instance, NEW o \in Owner, Dequeue(i, o) PROVE Goal
  <2> DEFINE r == Head(pending[i][o])
  <2>1. worker' = [worker EXCEPT ![i][r] = At("claiming")]
    BY <1>7 DEF Dequeue
  <2>2. \A j \in Instance, q \in Review : worker'[j][q] \in {worker[j][q], At("claiming")}
    BY <2>1 DEF PoolTypes
  <2> QED
    BY <2>2, AtType DEF NoNewRun, Beating
<1>8. ASSUME NEW r \in Review, CancelEnds(r) PROVE Goal
  <2>1. cancel[r].at \in Instance
    BY <1>8 DEF CancelEnds, Placed
  <2>2. \A j \in Instance, q \in Review :
          worker'[j][q] \in {worker[j][q], Interrupted(worker[j][q])}
    BY <1>8, <2>1 DEF CancelEnds, PoolTypes
  <2> QED
    BY <2>2, InterruptStartsNothing
<1>9. ASSUME NEW i \in Instance, ShutdownBegins(i) PROVE Goal
  <2>1. \A j \in Instance, q \in Review :
          worker'[j][q] \in {worker[j][q], Interrupted(worker[j][q])}
    BY <1>9 DEF ShutdownBegins, PoolTypes
  <2> QED
    BY <2>1, InterruptStartsNothing
<1>10. ASSUME NEW i \in Instance, Crash(i) \/ ShutdownEnds(i) PROVE Goal
  <2>1. worker' = [worker EXCEPT ![i] = [r \in Review |-> IdleWorker]]
    BY <1>10 DEF Crash, ShutdownEnds, Reset
  <2>2. \A j \in Instance, q \in Review : worker'[j][q] \in {worker[j][q], IdleWorker}
    BY <2>1 DEF PoolTypes
  <2> QED
    BY <2>2, InterruptStartsNothing
<1>11. ASSUME NEW i \in Instance, NEW r \in Review,
              CreateReview(i, r) \/ Cancel(i, r) \/ RecoveryQueues(i, r)
       PROVE  Goal
  BY <1>1, <1>11 DEF CreateReview, Cancel, RecoveryQueues
<1>12. ASSUME NEW i \in Instance, Recover(i) \/ RecoverySleeps(i) \/ DispatchEnds(i)
       PROVE  Goal
  BY <1>1, <1>12 DEF Recover, RecoveryLists, RecoveryResumes, RecoverySleeps, DispatchEnds
<1>13. CASE UNCHANGED vars
  BY <1>1, <1>13 DEF vars
<1>14. ASSUME Expire \/ \E r \in Review : Enqueue(r) \/ Reject(r) \/ CancelStored(r) \/ Lapse(r)
       PROVE  Goal
  BY <1>1, <1>14 DEF Expire, Enqueue, Reject, CancelStored, Lapse
<1> QED
  BY <1>2, <1>3, <1>4, <1>5, <1>6, <1>7, <1>8, <1>9, <1>10, <1>11, <1>12, <1>13, <1>14
     DEF Next, Begin, Continue, Route, Protocol

\* A review that runs anywhere is no longer queued; it never is again.
NotWaiting(r) == reviews[r].status \in {"running"} \cup Ended
RunInv ==
  /\ OneRunPerReview
  /\ \A i \in Instance, r \in Review : Beating(i, r) => NotWaiting(r)

\* Nothing runs at first.
LEMMA RunInit == Init => RunInv
  BY IdleType DEF Init, RunInv, OneRunPerReview, Beating

\* Every step keeps each run under one token.
LEMMA RunNext ==
  ASSUME RunInv, PoolTypes, RowTypes, Placed, [Next]_vars PROVE RunInv'
<1>1. RowsMove
  BY StepMovesRows
<1>2. ASSUME NEW r \in Review, NotWaiting(r) PROVE NotWaiting(r)'
  BY <1>1, <1>2 DEF RowsMove, RowMoves, NotWaiting, Unleased, Active, Ended
<1>3. CASE NoNewRun
  BY <1>2, <1>3 DEF NoNewRun, RunInv, OneRunPerReview, Beating
<1>4. ASSUME NEW i \in Instance, NEW r \in Review, NewRun(i, r) PROVE RunInv'
  <2>1. /\ reviews[r].status = "queued" /\ NotWaiting(r)'
        /\ \A j \in Instance, q \in Review : j # i \/ q # r => worker'[j][q] = worker[j][q]
    BY <1>4 DEF NewRun, NotWaiting
  <2>2. \A j \in Instance : ~Beating(j, r)
    BY <2>1 DEF RunInv, NotWaiting, Ended
  <2>3. \A j \in Instance, q \in Review : j # i \/ q # r => (Beating(j, q)' <=> Beating(j, q))
    BY <2>1 DEF Beating
  <2>4. \A j \in Instance, q \in Review : Beating(j, q)' => NotWaiting(q)'
    BY <1>2, <2>1, <2>3 DEF RunInv
  <2>5. \A q \in Review, j, k \in Instance : Beating(j, q)' /\ Beating(k, q)' => j = k
    BY <2>2, <2>3 DEF RunInv, OneRunPerReview
  <2> QED
    BY <2>4, <2>5 DEF RunInv, OneRunPerReview
<1> QED
  BY <1>3, <1>4, StepStarts

\* A review is at its provider from one worker only, in all instances together,
\* although every instance recovers and dispatches every queued review.
THEOREM OneRunAlways == Spec => []OneRunPerReview
<1>1. /\ RunInv /\ PoolInv /\ Placed /\ RowInv /\ [Next]_vars
      => (RunInv /\ PoolInv /\ Placed /\ RowInv)'
  BY RunNext, PoolNext, PlacedNext, RowNext DEF RowInv, PoolInv
<1>2. Init => RunInv /\ PoolInv /\ Placed /\ RowInv
  BY RunInit, PoolInit, PlacedInit, RowInit
<1> QED
  BY <1>1, <1>2, PTL DEF Spec, RunInv

-----------------------------------------------------------------------------
(***************************************************************************)
(* What callers were told.                                                 *)
(***************************************************************************)

\* The row of a request that got as far as this was inserted.
Inserted == {"created", "accepted", "duplicate", "rejecting", "rejected"}
AnswerInv ==
  /\ AnswersHold
  /\ \A r \in Review :
       request[r].pc \in Inserted \/ cancel[r].pc # "idle" => reviews[r].status # "absent"

\* What a step does to the request and the cancel of review r.
AnswerMoves(r) ==
  /\ request'[r].pc = "rejected" =>
       request[r].pc = "rejected" \/ (request[r].pc = "rejecting" /\ FailRow(r))
  /\ request'[r].pc \in Inserted =>
       request[r].pc \in Inserted \/ reviews'[r].status # "absent"
  /\ cancel'[r].pc \in {"stored", "done"} =>
       \/ cancel[r].pc \in {"stored", "done"}
       \/ cancel[r].pc = "storing" /\ FailRow(r)
  /\ cancel'[r].pc # "idle" => cancel[r].pc # "idle" \/ request[r].pc = "accepted"

\* A step of a worker keeps what its callers were told true.
LEMMA StepAnswers ==
  ASSUME Placed, RowTypes, [Next]_vars, NEW q \in Review PROVE AnswerMoves(q)
<1>1. ASSUME UNCHANGED <<request, cancel>> PROVE AnswerMoves(q)
  BY <1>1 DEF AnswerMoves
<1>2. ASSUME NEW i \in Instance, NEW r \in Review, CreateReview(i, r) PROVE AnswerMoves(q)
  <2>1. UNCHANGED cancel
    BY <1>2 DEF CreateReview
  <2>2. CASE /\ CreateRow(r)
             /\ request' = [request EXCEPT ![r] = [pc |-> "created", at |-> i]]
    <3>1. reviews'[r].status # "absent"
      BY <2>2 DEF CreateRow, Write, Unleased, RowTypes
    <3> QED
      BY <2>1, <2>2, <3>1 DEF AnswerMoves, Placed
  <2>3. CASE request' = [request EXCEPT ![r] = Answered("failed")]
    BY <2>1, <2>3 DEF AnswerMoves, Placed, Answered, Inserted
  <2> QED
    BY <1>2, <2>2, <2>3 DEF CreateReview
<1>3. ASSUME NEW r \in Review, Enqueue(r) PROVE AnswerMoves(q)
  <2>1. UNCHANGED cancel /\ request[r].pc = "created"
    BY <1>3 DEF Enqueue
  <2>2. \E w : w.pc # "rejected" /\ request' = [request EXCEPT ![r] = w]
    <3>1. CASE request' = [request EXCEPT ![r].pc = "rejecting"]
      <4>1. request' = [request EXCEPT ![r] = [request[r] EXCEPT !.pc = "rejecting"]]
        BY <3>1 DEF Placed
      <4>2. [request[r] EXCEPT !.pc = "rejecting"].pc = "rejecting"
        BY DEF Placed
      <4> QED
        BY <4>1, <4>2
    <3> QED
      BY <1>3, <3>1 DEF Enqueue, Answered
  <2> QED
    BY <2>1, <2>2 DEF AnswerMoves, Placed, Inserted
<1>4. ASSUME NEW r \in Review, Reject(r) PROVE AnswerMoves(q)
  <2>1. UNCHANGED cancel /\ request[r].pc = "rejecting"
    BY <1>4 DEF Reject
  <2>2. CASE FailRow(r) /\ request' = [request EXCEPT ![r] = Answered("rejected")]
    BY <2>1, <2>2 DEF AnswerMoves, Placed, Answered, Inserted
  <2>3. CASE request' = [request EXCEPT ![r] = Answered("failed")]
    BY <2>1, <2>3 DEF AnswerMoves, Placed, Answered, Inserted
  <2> QED
    BY <1>4, <2>2, <2>3 DEF Reject
<1>5. ASSUME NEW i \in Instance, NEW r \in Review, Cancel(i, r) PROVE AnswerMoves(q)
  <2>1. /\ UNCHANGED request /\ request[r].pc = "accepted"
        /\ cancel' = [cancel EXCEPT ![r] = [pc |-> "storing", at |-> i, active |-> r \in active[i]]]
    BY <1>5 DEF Cancel
  <2> QED
    BY <2>1 DEF AnswerMoves, Placed
<1>6. ASSUME NEW r \in Review, CancelStored(r) PROVE AnswerMoves(q)
  <2>1. UNCHANGED request /\ cancel[r].pc = "storing"
    BY <1>6 DEF CancelStored
  <2>2. CASE FailRow(r) /\ cancel' = [cancel EXCEPT ![r].pc = "stored"]
    BY <2>1, <2>2 DEF AnswerMoves, Placed
  <2>3. CASE cancel' = [cancel EXCEPT ![r] = CancelAnswered("failed")]
    BY <2>1, <2>3 DEF AnswerMoves, Placed, CancelAnswered
  <2> QED
    BY <1>6, <2>2, <2>3 DEF CancelStored
<1>7. ASSUME NEW r \in Review, CancelEnds(r) PROVE AnswerMoves(q)
  BY <1>7 DEF CancelEnds, AnswerMoves, Placed, CancelAnswered
<1>8. ASSUME NEW i \in Instance, Crash(i) \/ ShutdownEnds(i) PROVE AnswerMoves(q)
  <2>1. /\ request'[q] \in {request[q], Answered("failed")}
        /\ \/ cancel'[q] = cancel[q]
           \/ cancel'[q] = CancelAnswered("failed") /\ cancel[q].pc \in {"storing", "stored"}
    BY <1>8 DEF Crash, ShutdownEnds, Reset
  <2> QED
    BY <2>1 DEF AnswerMoves, Answered, CancelAnswered, Inserted
<1>9. ASSUME NEW i \in Instance, NEW r \in Review,
             Protocol(i, r) \/ Heartbeat(i, r) \/ RecoveryQueues(i, r)
      PROVE  AnswerMoves(q)
  BY <1>1, <1>9 DEF Protocol, Heartbeat, RecoveryQueues, Claim, Renew, ProtocolFails,
                    ProtocolEnds, Complete, ProtocolWins, FailReview, Release, BeatRenews,
                    BeatAnswered, WorkerStep
<1>10. ASSUME NEW i \in Instance,
              \/ Recover(i) \/ RecoverySleeps(i) \/ DispatchEnds(i) \/ ShutdownBegins(i)
              \/ \E o \in Owner : Dequeue(i, o)
       PROVE  AnswerMoves(q)
  BY <1>1, <1>10 DEF Recover, RecoveryLists, RecoveryResumes, RecoverySleeps, DispatchEnds,
                     ShutdownBegins, Dequeue
<1>11. ASSUME Expire \/ \E r \in Review : Lapse(r) PROVE AnswerMoves(q)
  BY <1>1, <1>11 DEF Expire, Lapse
<1>12. CASE UNCHANGED vars
  BY <1>1, <1>12 DEF vars
<1> QED
  BY <1>2, <1>3, <1>4, <1>5, <1>6, <1>7, <1>8, <1>9, <1>10, <1>11, <1>12
     DEF Next, Begin, Continue, Route

\* Nobody was told anything at first.
LEMMA AnswerInit == Init => AnswerInv
  BY DEF Init, AnswerInv, AnswersHold, Inserted, Answered, CancelAnswered

\* Every step keeps what was answered true.
LEMMA AnswerNext ==
  ASSUME AnswerInv, Placed, RowTypes, [Next]_vars PROVE AnswerInv'
<1>1. ASSUME NEW r \in Review
      PROVE  /\ reviews[r].status \in Ended => reviews'[r].status \in Ended
             /\ reviews[r].status # "absent" => reviews'[r].status # "absent"
  <2>1. RowMoves(r)
    BY StepMovesRows DEF RowsMove
  <2>2. \/ reviews'[r] = reviews[r]
        \/ /\ reviews[r].status \notin Ended
           /\ reviews'[r].status \in {"queued", "running", "failed", "completed"}
    <3>1. CASE reviews[r].status = "queued" /\ \E tok \in Token : reviews'[r] = Leased(tok)
      BY <3>1 DEF Leased, Ended
    <3> QED
      BY <2>1, <3>1 DEF RowMoves, Ended, Active, Unleased
  <2> QED
    BY <2>2
<1>2. ASSUME NEW r \in Review, FailRow(r), reviews[r].status # "absent"
      PROVE  reviews'[r].status \in Ended
  <2>1. reviews[r].status \in Active \cup Ended
    BY <1>2 DEF RowTypes, Row
  <2> QED
    BY <1>2, <2>1 DEF FailRow, Failable, Write, Unleased, Ended, RowTypes
<1>3. ASSUME NEW r \in Review
      PROVE  /\ cancel'[r].pc \in {"stored", "done"} \/ request'[r].pc = "rejected"
                  => reviews'[r].status \in Ended
             /\ request'[r].pc \in Inserted \/ cancel'[r].pc # "idle"
                  => reviews'[r].status # "absent"
  <2>1. AnswerMoves(r)
    BY StepAnswers
  <2>2. /\ cancel[r].pc \in {"stored", "done"} \/ request[r].pc = "rejected"
             => reviews[r].status \in Ended
        /\ request[r].pc \in Inserted \/ cancel[r].pc # "idle" => reviews[r].status # "absent"
    BY DEF AnswerInv, AnswersHold
  <2> QED
    BY <1>1, <1>2, <2>1, <2>2 DEF AnswerMoves, Inserted
<1> QED
  BY <1>3 DEF AnswerInv, AnswersHold

\* A review whose cancel was stored, or whose request was refused for lack of room,
\* is over for good, although recovery may still have it in a list or a queue.
THEOREM AnswersAlways == Spec => []AnswersHold
<1>1. AnswerInv /\ Placed /\ RowInv /\ [Next]_vars => (AnswerInv /\ Placed /\ RowInv)'
  BY AnswerNext, PlacedNext, RowNext DEF RowInv
<1>2. Init => AnswerInv /\ Placed /\ RowInv
  BY AnswerInit, PlacedInit, RowInit
<1> QED
  BY <1>1, <1>2, PTL DEF Spec, AnswerInv
-----------------------------------------------------------------------------
(***************************************************************************)
(* The queues of an instance and the rotation of their owners.             *)
(***************************************************************************)

\* In the rotation is, once, every owner with queued reviews; a queue holds a review
\* once, and none that is active.
QueueOK(i) ==
  /\ ownerOrder[i] \in Seq(Owner)
  /\ Distinct(ownerOrder[i])
  /\ Elements(ownerOrder[i]) = WithPending(i)
  /\ \A o \in Owner : Distinct(pending[i][o])
  /\ active[i] \cap Queued(i) = {}
  /\ IsFiniteSet(Queued(i))

QueueInv ==
  /\ ownerOrder = [i \in Instance |-> ownerOrder[i]]
  /\ \A i \in Instance : QueueOK(i)

\* What a step does to the queues of instance i: nothing, although fibers may end;
\* a new review is appended; a review is removed; owner o is served; they are lost.
QueuesStay(i) ==
  /\ pending'[i] = pending[i] /\ ownerOrder'[i] = ownerOrder[i]
  /\ active'[i] \subseteq active[i]
QueuesGain(i, r) ==
  LET o == OwnerOf[r] IN
  /\ r \notin Existing(i)
  /\ pending'[i] = [pending[i] EXCEPT ![o] = Append(pending[i][o], r)]
  /\ ownerOrder'[i] = IF o \in Elements(ownerOrder[i]) THEN ownerOrder[i]
                      ELSE Append(ownerOrder[i], o)
  /\ active'[i] = active[i]
QueuesDrop(i, r) ==
  LET o == OwnerOf[r] IN
  /\ pending'[i] = [pending[i] EXCEPT ![o] = Without(pending[i][o], r)]
  /\ ownerOrder'[i] = Filter(ownerOrder[i], WithPending(i)')
  /\ active'[i] = active[i]
QueuesServe(i, o) ==
  /\ pending[i][o] # <<>>
  /\ pending'[i] = [pending[i] EXCEPT ![o] = Tail(pending[i][o])]
  /\ ownerOrder'[i] = ServedOrder(i, o)
  /\ active'[i] = active[i] \cup {Head(pending[i][o])}
QueuesClear(i) ==
  pending'[i] = NoQueue /\ ownerOrder'[i] = <<>> /\ active'[i] = {}

QueuesMove(i) ==
  \/ QueuesStay(i) \/ QueuesClear(i)
  \/ \E r \in Review : QueuesGain(i, r) \/ QueuesDrop(i, r)
  \/ \E o \in Owner : QueuesServe(i, o)

\* What the steps are told about the variables they change.
QueueFunctions ==
  /\ ownerOrder = [i \in Instance |-> ownerOrder[i]]
  /\ PoolTypes

\* Appending a new review at one instance.
LEMMA AddMoves ==
  ASSUME QueueFunctions, NEW i \in Instance, NEW r \in Review, r \notin Existing(i),
         AddPending(i, r), NEW j \in Instance
  PROVE  QueuesGain(j, r) \/ QueuesStay(j)
<1> DEFINE o == OwnerOf[r]
<1>1. o \in Owner
  BY SchedulerAssumption
<1>2. CASE j = i
  <2>1. pending' = [pending EXCEPT ![i] = [pending[i] EXCEPT ![o] = Append(pending[i][o], r)]]
    BY DEF AddPending
  <2>2. ownerOrder' = [ownerOrder EXCEPT ![i] =
          IF o \in Elements(ownerOrder[i]) THEN ownerOrder[i] ELSE Append(ownerOrder[i], o)]
    BY DEF AddPending
  <2>3. active' = active
    BY DEF AddPending
  <2> QED
    BY <1>1, <1>2, <2>1, <2>2, <2>3 DEF QueueFunctions, PoolTypes, QueuesGain
<1>3. CASE j # i
  <2>1. pending'[j] = pending[j] /\ ownerOrder'[j] = ownerOrder[j] /\ active' = active
    BY <1>3 DEF AddPending, QueueFunctions, PoolTypes
  <2> QED
    BY <2>1 DEF QueuesStay
<1> QED
  BY <1>2, <1>3

\* Every step of the coordinators moves the queues of every instance in one of
\* these ways.
LEMMA StepMovesQueues ==
  ASSUME QueueFunctions, Placed, [Next]_vars
  PROVE  /\ ownerOrder' = [i \in Instance |-> ownerOrder'[i]]
         /\ \A i \in Instance : QueuesMove(i)
<1> DEFINE Goal == /\ ownerOrder' = [i \in Instance |-> ownerOrder'[i]]
                   /\ \A i \in Instance : QueuesMove(i)
<1>1. ASSUME UNCHANGED schedulerVars PROVE Goal
  BY <1>1 DEF QueueFunctions, QueuesMove, QueuesStay, schedulerVars
<1>2. ASSUME NEW i \in Instance, NEW r \in Review, r \notin Existing(i), AddPending(i, r)
      PROVE  Goal
  <2>1. ownerOrder' = [j \in Instance |-> ownerOrder'[j]]
    BY <1>2 DEF AddPending, QueueFunctions
  <2> QED
    BY <1>2, <2>1, AddMoves DEF QueuesMove
<1>3. ASSUME NEW r \in Review, Enqueue(r) PROVE Goal
  <2>1. request[r].at \in Instance
    BY <1>3 DEF Enqueue, Placed
  <2> QED
    BY <1>1, <1>2, <1>3, <2>1 DEF Enqueue
<1>4. ASSUME NEW i \in Instance, NEW r \in Review, RecoveryQueues(i, r) PROVE Goal
  BY <1>1, <1>2, <1>4 DEF RecoveryQueues
<1>5. ASSUME NEW i \in Instance, NEW r \in Review, Cancel(i, r) PROVE Goal
  <2> DEFINE rest == Without(pending[i][OwnerOf[r]], r)
  <2>1. PICK order : order = Filter(ownerOrder[i], WithPending(i)')
    OBVIOUS
  <2>2. /\ pending' = [pending EXCEPT ![i] = [pending[i] EXCEPT ![OwnerOf[r]] = rest]]
        /\ ownerOrder' = [ownerOrder EXCEPT ![i] = order]
        /\ active' = active
    BY <1>5, <2>1 DEF Cancel
  <2> HIDE DEF rest
  <2>3. /\ ownerOrder' = [j \in Instance |-> ownerOrder'[j]]
        /\ pending'[i] = [pending[i] EXCEPT ![OwnerOf[r]] = rest]
        /\ ownerOrder'[i] = order /\ active'[i] = active[i]
        /\ \A j \in Instance \ {i} : QueuesStay(j)
    BY <2>2 DEF QueueFunctions, PoolTypes, QueuesStay
  <2>4. QueuesDrop(i, r)
    BY <2>1, <2>3 DEF QueuesDrop, rest
  <2> QED
    BY <2>3, <2>4 DEF QueuesMove
<1>6. ASSUME NEW i \in Instance, NEW o \in Owner, Dequeue(i, o) PROVE Goal
  <2> DEFINE rest == Tail(pending[i][o])
             order == ServedOrder(i, o)
             now == active[i] \cup {Head(pending[i][o])}
  <2>1. /\ pending' = [pending EXCEPT ![i] = [pending[i] EXCEPT ![o] = rest]]
        /\ ownerOrder' = [ownerOrder EXCEPT ![i] = order]
        /\ active' = [active EXCEPT ![i] = now]
        /\ pending[i][o] # <<>>
    BY <1>6 DEF Dequeue, Selected, Eligible
  <2> HIDE DEF rest, order, now
  <2>2. /\ ownerOrder' = [j \in Instance |-> ownerOrder'[j]]
        /\ pending'[i] = [pending[i] EXCEPT ![o] = rest]
        /\ ownerOrder'[i] = order /\ active'[i] = now
        /\ \A j \in Instance \ {i} : QueuesStay(j)
    BY <2>1 DEF QueueFunctions, PoolTypes, QueuesStay
  <2>3. QueuesServe(i, o)
    BY <2>1, <2>2 DEF QueuesServe, rest, order, now
  <2> QED
    BY <2>2, <2>3 DEF QueuesMove
<1>7. ASSUME NEW i \in Instance, Crash(i) \/ ShutdownEnds(i) PROVE Goal
  <2>1. Reset(i)
    BY <1>7 DEF Crash, ShutdownEnds
  <2>2. /\ ownerOrder' = [j \in Instance |-> ownerOrder'[j]]
        /\ QueuesClear(i)
        /\ \A j \in Instance \ {i} : QueuesStay(j)
    BY <2>1 DEF Reset, QueueFunctions, PoolTypes, QueuesStay, QueuesClear
  <2> QED
    BY <2>2 DEF QueuesMove
<1>8. ASSUME NEW i \in Instance, NEW r \in Review, Release(i, r) PROVE Goal
  <2>1. active' = [active EXCEPT ![i] = @ \ {r}] /\ UNCHANGED <<pending, ownerOrder>>
    BY <1>8 DEF Release
  <2>2. \A j \in Instance : QueuesStay(j)
    BY <2>1 DEF QueueFunctions, PoolTypes, QueuesStay
  <2> QED
    BY <2>1, <2>2 DEF QueuesMove, QueueFunctions
<1>9. ASSUME NEW i \in Instance, NEW r \in Review,
             Heartbeat(i, r) \/ (Protocol(i, r) /\ ~Release(i, r)) \/ CreateReview(i, r)
      PROVE  Goal
  BY <1>1, <1>9 DEF Protocol, Heartbeat, Claim, Renew, ProtocolFails, ProtocolEnds, Complete,
                    ProtocolWins, FailReview, BeatRenews, BeatAnswered, WorkerStep, CreateReview
<1>10. ASSUME NEW i \in Instance,
              DispatchEnds(i) \/ Recover(i) \/ RecoverySleeps(i) \/ ShutdownBegins(i)
       PROVE  Goal
  BY <1>1, <1>10 DEF DispatchEnds, Recover, RecoveryLists, RecoveryResumes, RecoverySleeps,
                     ShutdownBegins
<1>11. ASSUME Expire \/ \E r \in Review : Lapse(r) \/ Reject(r) \/ CancelStored(r) \/ CancelEnds(r)
       PROVE  Goal
  BY <1>1, <1>11 DEF Expire, Lapse, Reject, CancelStored, CancelEnds
<1>12. CASE UNCHANGED vars
  BY <1>1, <1>12 DEF vars
<1> QED
  BY <1>3, <1>4, <1>5, <1>6, <1>7, <1>8, <1>9, <1>10, <1>11, <1>12
     DEF Next, Begin, Continue, Route

\* What instance i holds, typed.
QueueTyped(i) ==
  /\ pending[i] \in [Owner -> Seq(Review)]
  /\ \A o \in Owner : pending[i][o] \in Seq(Own(o))

\* The reviews queued and the owners that wait when one queue has changed.
LEMMA OneQueueChanges ==
  ASSUME NEW i \in Instance, NEW o \in Owner, pending[i] \in [Owner -> Seq(Review)], NEW queue,
         pending'[i] = [pending[i] EXCEPT ![o] = queue]
  PROVE  /\ pending'[i][o] = queue
         /\ \A p \in Owner \ {o} : pending'[i][p] = pending[i][p]
         /\ WithPending(i)' = (WithPending(i) \ {o}) \cup (IF queue = <<>> THEN {} ELSE {o})
         /\ \A r : r \in Queued(i)' <=>
              \/ r \in Elements(queue)
              \/ \E p \in Owner \ {o} : r \in Elements(pending[i][p])
<1>1. /\ pending'[i][o] = queue
      /\ \A p \in Owner \ {o} : pending'[i][p] = pending[i][p]
  OBVIOUS
<1>2. \A p \in Owner : p \in WithPending(i)' <=> pending'[i][p] # <<>>
  BY DEF WithPending
<1>3. \A p \in Owner : p \in WithPending(i) <=> pending[i][p] # <<>>
  BY DEF WithPending
<1>4. WithPending(i)' \subseteq Owner /\ WithPending(i) \subseteq Owner
  BY DEF WithPending
<1>5. \A r : r \in Queued(i)' <=> \E p \in Owner : r \in Elements(pending'[i][p])
  BY DEF Queued, Elements
<1> QED
  BY <1>1, <1>2, <1>3, <1>4, <1>5

\* Each of the moves keeps the queues of the instance in order.
LEMMA StayKeeps == ASSUME NEW i \in Instance, QueueOK(i), QueuesStay(i) PROVE QueueOK(i)'
  BY DEF QueueOK, QueuesStay, WithPending, Queued, Elements, Distinct

\* Cleared queues have nothing to account for.
LEMMA ClearKeeps == ASSUME NEW i \in Instance, QueuesClear(i) PROVE QueueOK(i)'
<1>1. \A o \in Owner : pending'[i][o] = <<>>
  BY DEF QueuesClear, NoQueue
<1>2. Elements(<<>>) = {} /\ Distinct(<<>>) /\ <<>> \in Seq(Owner)
  BY EmptySeq DEF Elements, Distinct
<1>3. WithPending(i)' = {}
  BY <1>1 DEF WithPending
<1>4. Queued(i)' = {}
  BY <1>1, <1>2 DEF Queued, Elements
<1>5. /\ ownerOrder'[i] \in Seq(Owner) /\ Distinct(ownerOrder'[i])
      /\ Elements(ownerOrder'[i]) = {} /\ active'[i] = {}
  BY <1>2 DEF QueuesClear
<1>6. \A o \in Owner : Distinct(pending'[i][o])
  BY <1>1, <1>2
<1>7. IsFiniteSet({})
  BY FS_EmptySet
<1> QED
  BY <1>3, <1>4, <1>5, <1>6, <1>7 DEF QueueOK, Distinct, Elements

\* An owner that gains a review is in the rotation once.
LEMMA GainKeeps ==
  ASSUME NEW i \in Instance, NEW r \in Review, QueueTyped(i), QueueOK(i), QueuesGain(i, r)
  PROVE  QueueOK(i)'
<1> DEFINE o == OwnerOf[r]
           queue == Append(pending[i][o], r)
<1>1. o \in Owner /\ r \notin active[i] /\ r \notin Queued(i)
  BY SchedulerAssumption DEF QueuesGain, Existing
<1>2. r \notin Elements(pending[i][o])
  BY <1>1 DEF Queued
<1>3. queue # <<>> /\ Elements(queue) = Elements(pending[i][o]) \cup {r} /\ Distinct(queue)
  BY <1>1, <1>2, AppendKeeps DEF QueueTyped, QueueOK
<1> HIDE DEF queue
<1>4. /\ pending'[i][o] = queue
      /\ \A p \in Owner \ {o} : pending'[i][p] = pending[i][p]
      /\ WithPending(i)' = WithPending(i) \cup {o}
      /\ \A q : q \in Queued(i)' <=>
           q \in Elements(queue) \/ \E p \in Owner \ {o} : q \in Elements(pending[i][p])
  <2>1. /\ pending'[i][o] = queue
        /\ \A p \in Owner \ {o} : pending'[i][p] = pending[i][p]
        /\ WithPending(i)' = (WithPending(i) \ {o}) \cup (IF queue = <<>> THEN {} ELSE {o})
        /\ \A q : q \in Queued(i)' <=>
             q \in Elements(queue) \/ \E p \in Owner \ {o} : q \in Elements(pending[i][p])
    BY <1>1, OneQueueChanges DEF QueueTyped, QueuesGain, queue
  <2>2. WithPending(i)' = WithPending(i) \cup {o}
    BY <1>3, <2>1
  <2> QED
    BY <2>1, <2>2
<1>5. Queued(i)' = Queued(i) \cup {r}
  <2>1. \A q : q \in Queued(i) <=> \E p \in Owner : q \in Elements(pending[i][p])
    BY DEF Queued
  <2> QED
    BY <1>1, <1>3, <1>4, <2>1
<1>6. /\ ownerOrder'[i] \in Seq(Owner) /\ Distinct(ownerOrder'[i])
      /\ Elements(ownerOrder'[i]) = WithPending(i)'
  <2>1. CASE o \in Elements(ownerOrder[i])
    BY <1>4, <2>1 DEF QueuesGain, QueueOK
  <2>2. CASE o \notin Elements(ownerOrder[i])
    BY <1>1, <1>4, <2>2, AppendKeeps DEF QueuesGain, QueueOK
  <2> QED
    BY <2>1, <2>2
<1>7. \A p \in Owner : Distinct(pending'[i][p])
  BY <1>3, <1>4 DEF QueueOK
<1>8. active'[i] \cap Queued(i)' = {}
  BY <1>1, <1>5 DEF QueueOK, QueuesGain
<1>9. IsFiniteSet(Queued(i)')
  BY <1>5, FS_AddElement DEF QueueOK
<1> QED
  BY <1>6, <1>7, <1>8, <1>9 DEF QueueOK, Distinct

\* An owner that loses its last review leaves the rotation.
LEMMA DropKeeps ==
  ASSUME NEW i \in Instance, NEW r \in Review, QueueTyped(i), QueueOK(i), QueuesDrop(i, r)
  PROVE  QueueOK(i)' /\ WithPending(i)' \subseteq WithPending(i)
<1> DEFINE o == OwnerOf[r]
           queue == Without(pending[i][o], r)
<1>1. o \in Owner
  BY SchedulerAssumption
<1>2. /\ queue \in Seq(Review)
      /\ Elements(queue) = Elements(pending[i][o]) \ {r}
      /\ Distinct(queue)
  BY <1>1, WithoutKeeps DEF QueueTyped, QueueOK
<1> HIDE DEF queue
<1>3. /\ pending'[i][o] = queue
      /\ \A p \in Owner \ {o} : pending'[i][p] = pending[i][p]
      /\ WithPending(i)' = (WithPending(i) \ {o}) \cup (IF queue = <<>> THEN {} ELSE {o})
      /\ \A q : q \in Queued(i)' <=>
           q \in Elements(queue) \/ \E p \in Owner \ {o} : q \in Elements(pending[i][p])
  BY <1>1, OneQueueChanges DEF QueueTyped, QueuesDrop, queue
<1>4. queue # <<>> => pending[i][o] # <<>>
  <2>1. Elements(<<>>) = {}
    BY DEF Elements
  <2>2. queue # <<>> => Elements(queue) # {}
    <3>1. queue # <<>> => 1 \in DOMAIN queue
      BY <1>2, EmptySeq, LenProperties
    <3> QED
      BY <3>1 DEF Elements
  <2> QED
    BY <1>2, <2>1, <2>2
<1>5. WithPending(i)' \subseteq WithPending(i)
  BY <1>1, <1>3, <1>4 DEF WithPending
<1>6. Queued(i)' \subseteq Queued(i)
  <2>1. \A q : q \in Queued(i) <=> \E p \in Owner : q \in Elements(pending[i][p])
    BY DEF Queued
  <2> QED
    BY <1>1, <1>2, <1>3, <2>1
<1>7. /\ ownerOrder'[i] \in Seq(Owner) /\ Distinct(ownerOrder'[i])
      /\ Elements(ownerOrder'[i]) = WithPending(i)'
  <2>1. PICK waiting : waiting = WithPending(i)'
    OBVIOUS
  <2>2. ownerOrder'[i] = Filter(ownerOrder[i], waiting) /\ waiting \subseteq WithPending(i)
    BY <1>5, <2>1 DEF QueuesDrop
  <2>3. /\ ownerOrder'[i] \in Seq(Owner) /\ Distinct(ownerOrder'[i])
        /\ Elements(ownerOrder'[i]) = Elements(ownerOrder[i]) \cap waiting
    BY <2>2, FilterKeeps DEF QueueOK
  <2> QED
    BY <2>1, <2>2, <2>3 DEF QueueOK
<1>8. \A p \in Owner : Distinct(pending'[i][p])
  BY <1>2, <1>3 DEF QueueOK
<1>9. active'[i] \cap Queued(i)' = {} /\ IsFiniteSet(Queued(i)')
  BY <1>6, FS_Subset DEF QueueOK, QueuesDrop
<1> QED
  BY <1>5, <1>7, <1>8, <1>9 DEF QueueOK, Distinct

\* What is known when owner o of instance i is served review r.
LEMMA ServeFacts ==
  ASSUME NEW i \in Instance, NEW o \in Owner, QueueTyped(i), QueueOK(i), QueuesServe(i, o),
         NEW r, r = Head(pending[i][o])
  PROVE  /\ r \in Review /\ OwnerOf[r] = o /\ r \in Queued(i)
         /\ pending'[i][o] = Tail(pending[i][o])
         /\ \A p \in Owner \ {o} : pending'[i][p] = pending[i][p]
         /\ WithPending(i)'
              = (WithPending(i) \ {o}) \cup (IF Tail(pending[i][o]) = <<>> THEN {} ELSE {o})
         /\ Queued(i)' = Queued(i) \ {r}
         /\ o \in WithPending(i)
         /\ Distinct(Tail(pending[i][o]))
<1> DEFINE queue == Tail(pending[i][o])
<1>1. pending[i][o] # <<>> /\ o \in WithPending(i)
  BY DEF QueuesServe, WithPending
<1>2. r \in Own(o)
  BY <1>1, TailKeeps DEF QueueTyped
<1>3. /\ Elements(pending[i][o]) = Elements(queue) \cup {r}
      /\ Distinct(queue) /\ r \notin Elements(queue)
  BY <1>1, TailKeeps DEF QueueTyped, QueueOK
<1> HIDE DEF queue
<1>4. /\ pending'[i][o] = queue
      /\ \A p \in Owner \ {o} : pending'[i][p] = pending[i][p]
      /\ WithPending(i)' = (WithPending(i) \ {o}) \cup (IF queue = <<>> THEN {} ELSE {o})
      /\ \A q : q \in Queued(i)' <=>
           q \in Elements(queue) \/ \E p \in Owner \ {o} : q \in Elements(pending[i][p])
  <2>1. /\ pending[i] \in [Owner -> Seq(Review)]
        /\ pending'[i] = [pending[i] EXCEPT ![o] = queue]
    BY DEF QueueTyped, QueuesServe, queue
  <2> QED
    BY <2>1, OneQueueChanges
<1>5. \A p \in Owner \ {o} : r \notin Elements(pending[i][p])
  <2> SUFFICES ASSUME NEW p \in Owner, r \in Elements(pending[i][p]) PROVE p = o
    OBVIOUS
  <2>1. PICK k \in DOMAIN pending[i][p] : pending[i][p][k] = r
    BY DEF Elements
  <2>2. pending[i][p] \in Seq(Own(p))
    BY DEF QueueTyped
  <2>3. r \in Own(p)
    BY <2>1, <2>2, ElementOfSeq, LenProperties
  <2> QED
    BY <1>2, <2>3 DEF Own
<1>6. \A q : q \in Queued(i) <=> \E p \in Owner : q \in Elements(pending[i][p])
  BY DEF Queued
<1>7. Queued(i)' = Queued(i) \ {r} /\ r \in Queued(i)
  <2>1. \A q : q \in Queued(i)' <=> q \in Queued(i) /\ q # r
    BY <1>3, <1>4, <1>5, <1>6
  <2>2. r \in Queued(i)
    BY <1>3, <1>6
  <2> QED
    BY <2>1, <2>2
<1> QED
  BY <1>1, <1>2, <1>3, <1>4, <1>7 DEF queue, Own

\* A served owner goes to the end of the rotation, or leaves it.
LEMMA ServeKeeps ==
  ASSUME NEW i \in Instance, NEW o \in Owner, QueueTyped(i), QueueOK(i), QueuesServe(i, o)
  PROVE  QueueOK(i)'
<1> DEFINE queue == Tail(pending[i][o])
           others == Filter(ownerOrder[i], WithPending(i) \ {o})
<1>1. PICK r : r = Head(pending[i][o])
  OBVIOUS
<1>2. /\ pending'[i][o] = queue
      /\ \A p \in Owner \ {o} : pending'[i][p] = pending[i][p]
      /\ WithPending(i)' = (WithPending(i) \ {o}) \cup (IF queue = <<>> THEN {} ELSE {o})
      /\ Queued(i)' = Queued(i) \ {r}
      /\ Distinct(queue)
  BY <1>1, ServeFacts
<1>3. others \in Seq(Owner) /\ Distinct(others) /\ Elements(others) = WithPending(i) \ {o}
  BY FilterKeeps DEF QueueOK
<1>4. ownerOrder'[i] = IF queue = <<>> THEN others ELSE Append(others, o)
  BY DEF QueuesServe, ServedOrder
<1> HIDE DEF queue, others
<1>5. /\ ownerOrder'[i] \in Seq(Owner) /\ Distinct(ownerOrder'[i])
      /\ Elements(ownerOrder'[i]) = WithPending(i)'
  <2>1. CASE queue = <<>>
    BY <1>2, <1>3, <1>4, <2>1
  <2>2. CASE queue # <<>>
    <3>1. ownerOrder'[i] = Append(others, o) /\ o \notin Elements(others)
      BY <1>3, <1>4, <2>2
    <3>2. /\ ownerOrder'[i] \in Seq(Owner) /\ Distinct(ownerOrder'[i])
          /\ Elements(ownerOrder'[i]) = Elements(others) \cup {o}
      BY <1>3, <3>1, AppendKeeps
    <3> QED
      BY <1>2, <1>3, <2>2, <3>2
  <2> QED
    BY <2>1, <2>2
<1>6. \A p \in Owner : Distinct(pending'[i][p])
  BY <1>2 DEF QueueOK
<1>7. active'[i] \cap Queued(i)' = {}
  BY <1>1, <1>2 DEF QueueOK, QueuesServe
<1>8. IsFiniteSet(Queued(i)')
  BY <1>2, FS_Subset DEF QueueOK
<1> QED
  BY <1>5, <1>6, <1>7, <1>8 DEF QueueOK, Distinct

\* All queues are empty at first.
LEMMA QueueInit == Init => QueueInv
<1> SUFFICES ASSUME Init PROVE QueueInv
  OBVIOUS
<1>1. ownerOrder = [i \in Instance |-> ownerOrder[i]]
  BY DEF Init
<1>2. ASSUME NEW i \in Instance PROVE QueueOK(i)
  <2>1. /\ ownerOrder[i] = <<>> /\ active[i] = {}
        /\ \A o \in Owner : pending[i][o] = <<>>
    BY DEF Init, NoQueue
  <2>2. Elements(<<>>) = {} /\ Distinct(<<>>) /\ <<>> \in Seq(Owner)
    BY EmptySeq DEF Elements, Distinct
  <2>3. WithPending(i) = {}
    BY <2>1 DEF WithPending
  <2>4. Queued(i) = {}
    BY <2>1, <2>2 DEF Queued
  <2>5. IsFiniteSet({})
    BY FS_EmptySet
  <2> QED
    BY <2>1, <2>2, <2>3, <2>4, <2>5 DEF QueueOK
<1> QED
  BY <1>1, <1>2 DEF QueueInv

\* Every step keeps rotation and queues consistent.
LEMMA QueueNext == ASSUME QueueInv, PoolInv, Placed, [Next]_vars PROVE QueueInv'
<1>1. QueueFunctions
  BY DEF QueueFunctions, QueueInv, PoolInv
<1>2. /\ ownerOrder' = [i \in Instance |-> ownerOrder'[i]]
      /\ \A i \in Instance : QueuesMove(i)
  BY <1>1, StepMovesQueues
<1>3. ASSUME NEW i \in Instance PROVE QueueOK(i)'
  <2>1. QueueTyped(i) /\ QueueOK(i) /\ QueuesMove(i)
    BY <1>2 DEF QueueTyped, PoolInv, PoolTypes, QueuesOwned, QueueInv
  <2> QED
    BY <2>1, StayKeeps, ClearKeeps, GainKeeps, DropKeeps, ServeKeeps DEF QueuesMove
<1> QED
  BY <1>2, <1>3 DEF QueueInv

\* All invariants of the coordinators together.
CoordinatorInv == RowInv /\ Placed /\ PoolInv /\ QueueInv

\* The invariant of the coordinators holds in every state.
LEMMA CoordinatorSafety == Spec => []CoordinatorInv
<1>1. CoordinatorInv /\ [Next]_vars => CoordinatorInv'
  BY RowNext, PlacedNext, PoolNext, QueueNext DEF CoordinatorInv, RowInv
<1>2. Init => CoordinatorInv
  BY RowInit, PlacedInit, PoolInit, QueueInit DEF CoordinatorInv
<1> QED
  BY <1>1, <1>2, PTL DEF Spec

\* Counted by their places, the queued reviews are as many as they are.
LEMMA QueuedCounted ==
  ASSUME NEW i \in Instance, QueueTyped(i), QueueOK(i)
  PROVE  PendingCount(i) = Cardinality(Queued(i))
<1> DEFINE slots == UNION {{o} \X DOMAIN pending[i][o] : o \in Owner}
           at == [s \in slots |-> pending[i][s[1]][s[2]]]
<1>1. \A s : s \in slots <=> \E o \in Owner : \E k \in DOMAIN pending[i][o] : s = <<o, k>>
  OBVIOUS
<1>2. \A r : r \in Queued(i) <=>
        \E o \in Owner : \E k \in DOMAIN pending[i][o] : r = pending[i][o][k]
  BY DEF Queued, Elements
<1>3. PendingCount(i) = Cardinality(slots)
  BY DEF PendingCount
<1>4. /\ DOMAIN at = slots
      /\ \A o \in Owner : \A k \in DOMAIN pending[i][o] : at[<<o, k>>] = pending[i][o][k]
  BY <1>1
<1>5. at = [s \in slots |-> at[s]]
  OBVIOUS
<1> HIDE DEF slots, at
<1>6. at \in [slots -> Queued(i)]
  <2>1. \A s \in slots : at[s] \in Queued(i)
    BY <1>1, <1>2, <1>4
  <2> QED
    BY <1>5, <2>1
<1>7. at \in Surjection(slots, Queued(i))
  <2>1. ASSUME NEW r \in Queued(i) PROVE \E s \in slots : at[s] = r
    <3>1. PICK o \in Owner : \E k \in DOMAIN pending[i][o] : r = pending[i][o][k]
      BY <1>2
    <3>2. PICK k \in DOMAIN pending[i][o] : r = pending[i][o][k]
      BY <3>1
    <3>3. <<o, k>> \in slots /\ at[<<o, k>>] = r
      BY <1>1, <1>4, <3>2
    <3> QED
      BY <3>3
  <2> QED
    BY <1>6, <2>1 DEF Surjection
<1>8. at \in Injection(slots, Queued(i))
  <2>1. ASSUME NEW s \in slots, NEW t \in slots, at[s] = at[t] PROVE s = t
    <3>1. PICK o \in Owner : \E k \in DOMAIN pending[i][o] : s = <<o, k>>
      BY <1>1
    <3>2. PICK k \in DOMAIN pending[i][o] : s = <<o, k>>
      BY <3>1
    <3>3. PICK p \in Owner : \E l \in DOMAIN pending[i][p] : t = <<p, l>>
      BY <1>1
    <3>4. PICK l \in DOMAIN pending[i][p] : t = <<p, l>>
      BY <3>3
    <3>5. pending[i][o][k] = pending[i][p][l]
      BY <1>4, <2>1, <3>2, <3>4
    <3>6. pending[i][o][k] \in Own(o) /\ pending[i][p][l] \in Own(p)
      BY ElementOfSeq, LenProperties DEF QueueTyped
    <3>7. o = p
      BY <3>5, <3>6 DEF Own
    <3>8. k = l
      BY <3>5, <3>7 DEF QueueOK, Distinct
    <3> QED
      BY <3>2, <3>4, <3>7, <3>8
  <2> QED
    BY <1>6, <2>1 DEF Injection, IsInjective
<1>9. Cardinality(slots) = Cardinality(Queued(i))
  BY <1>7, <1>8, FS_Injection DEF QueueOK
<1> QED
  BY <1>3, <1>9

\* The rotation and the queues fit: exactly the owners with queued reviews take
\* turns, once each, and no review is queued twice or while it is active, whichever
\* of a request, a cancel, recovery and dispatch touched the queues last.
THEOREM QueuesAlwaysAccounted == Spec => []QueuesAccounted
<1>1. ASSUME CoordinatorInv PROVE QueuesAccounted
  <2> SUFFICES ASSUME NEW i \in Instance
               PROVE  /\ Elements(ownerOrder[i]) = WithPending(i)
                      /\ Len(ownerOrder[i]) = Cardinality(WithPending(i))
                      /\ PendingCount(i) = Cardinality(Queued(i))
                      /\ \A o \in Owner : \A r \in Elements(pending[i][o]) : OwnerOf[r] = o
                      /\ active[i] \cap Queued(i) = {}
    BY DEF QueuesAccounted
  <2>1. QueueOK(i) /\ QueueTyped(i)
    BY <1>1 DEF CoordinatorInv, QueueInv, PoolInv, PoolTypes, QueuesOwned, QueueTyped
  <2>2. /\ Elements(ownerOrder[i]) = WithPending(i)
        /\ Len(ownerOrder[i]) = Cardinality(Elements(ownerOrder[i]))
    BY <2>1, DistinctCount DEF QueueOK
  <2>3. ASSUME NEW o \in Owner, NEW r \in Elements(pending[i][o]) PROVE OwnerOf[r] = o
    <3>1. pending[i][o] \in Seq(Own(o))
      BY <2>1 DEF QueueTyped
    <3>2. PICK k \in DOMAIN pending[i][o] : r = pending[i][o][k]
      BY DEF Elements
    <3>3. r \in Own(o)
      BY <3>1, <3>2, ElementOfSeq, LenProperties
    <3> QED
      BY <3>3 DEF Own
  <2> QED
    BY <2>1, <2>2, <2>3, QueuedCounted DEF QueueOK
<1> QED
  BY <1>1, CoordinatorSafety, PTL

-----------------------------------------------------------------------------
(***************************************************************************)
(* Turns.                                                                  *)
(***************************************************************************)

\* What TurnsRotate says of two owners of an instance.
Rotates(i, p, o) ==
  /\ pending'[i][p] # <<>> /\ pending'[i][o] # <<>> /\ p # o
  /\ p \notin Served(i)
  /\ o \in Served(i) \/ Before(ownerOrder[i], p, o)
  => Before(ownerOrder'[i], p, o)

\* The owner who is served goes behind all who wait; the others keep their order.
LEMMA ServeRotates ==
  ASSUME NEW i \in Instance, NEW s \in Owner, QueueTyped(i), QueueOK(i), QueuesServe(i, s),
         NEW p \in WithPending(i), NEW o \in WithPending(i)
  PROVE  Rotates(i, p, o)
<1> DEFINE queue == Tail(pending[i][s])
           others == Filter(ownerOrder[i], WithPending(i) \ {s})
<1>1. PICK r : r = Head(pending[i][s])
  OBVIOUS
<1>2. OwnerOf[r] = s /\ r \in Queued(i) /\ pending'[i][s] = queue
  BY <1>1, ServeFacts
<1>3. Served(i) = {s}
  <2>1. r \notin active[i] /\ active'[i] = active[i] \cup {r}
    BY <1>1, <1>2 DEF QueueOK, QueuesServe
  <2>2. active'[i] \ active[i] = {r}
    BY <2>1
  <2> QED
    BY <1>2, <2>2 DEF Served
<1>4. /\ others \in Seq(Owner)
      /\ Elements(others) = WithPending(i) \ {s}
      /\ \A a, b \in WithPending(i) \ {s} :
           Before(ownerOrder[i], a, b) => Before(others, a, b)
  BY FilterKeeps DEF QueueOK
<1>5. ownerOrder'[i] = IF queue = <<>> THEN others ELSE Append(others, s)
  BY DEF QueuesServe, ServedOrder
<1> HIDE DEF queue, others
<1> SUFFICES ASSUME pending'[i][p] # <<>>, pending'[i][o] # <<>>, p # o, p # s,
                    o = s \/ Before(ownerOrder[i], p, o)
             PROVE  Before(ownerOrder'[i], p, o)
  BY <1>3 DEF Rotates
<1>6. CASE o = s
  <2>1. ownerOrder'[i] = Append(others, s) /\ p \in Elements(others)
    BY <1>2, <1>4, <1>5, <1>6
  <2> QED
    BY <1>4, <1>6, <2>1, AppendKeeps
<1>7. CASE o # s
  <2>1. Before(others, p, o)
    BY <1>4, <1>7
  <2> QED
    BY <1>4, <1>5, <2>1, AppendKeeps
<1> QED
  BY <1>6, <1>7

\* Owners take turns: no step of any instance brings the one of two waiting owners
\* who is behind before the other, and who was just served is behind all who wait.
THEOREM TurnsAlwaysRotate == Spec => TurnsRotate
<1>1. ASSUME NEW i \in Instance, NEW p \in WithPending(i), NEW o \in WithPending(i),
             QueueTyped(i), QueueOK(i), QueuesMove(i)
      PROVE  Rotates(i, p, o)
  <2>1. CASE QueuesStay(i)
    BY <2>1 DEF QueuesStay, Rotates, Served
  <2>2. CASE QueuesClear(i)
    <3>1. pending'[i][p] = <<>>
      BY <2>2 DEF QueuesClear, NoQueue, WithPending
    <3> QED
      BY <3>1 DEF Rotates
  <2>3. ASSUME NEW r \in Review, QueuesGain(i, r) PROVE Rotates(i, p, o)
    <3>1. Served(i) = {}
      BY <2>3 DEF QueuesGain, Served
    <3>2. OwnerOf[r] \in Owner /\ ownerOrder[i] \in Seq(Owner)
      BY <1>1, SchedulerAssumption DEF QueueOK
    <3>3. Before(ownerOrder[i], p, o) => Before(ownerOrder'[i], p, o)
      BY <1>1, <2>3, <3>2, AppendKeeps DEF QueuesGain, QueueOK
    <3> QED
      BY <3>1, <3>3 DEF Rotates
  <2>4. ASSUME NEW r \in Review, QueuesDrop(i, r) PROVE Rotates(i, p, o)
    <3>1. Served(i) = {}
      BY <2>4 DEF QueuesDrop, Served
    <3>2. PICK waiting : waiting = WithPending(i)'
      OBVIOUS
    <3>3. ownerOrder'[i] = Filter(ownerOrder[i], waiting)
      BY <2>4, <3>2 DEF QueuesDrop
    <3>4. p \in Owner /\ o \in Owner
      BY DEF WithPending
    <3>5. \A q \in Owner : pending'[i][q] # <<>> => q \in waiting
      BY <3>2 DEF WithPending
    <3>6. \A a, b \in waiting : Before(ownerOrder[i], a, b) => Before(ownerOrder'[i], a, b)
      BY <1>1, <3>3, FilterKeeps DEF QueueOK
    <3> QED
      BY <3>1, <3>4, <3>5, <3>6 DEF Rotates
  <2>5. ASSUME NEW s \in Owner, QueuesServe(i, s) PROVE Rotates(i, p, o)
    BY <1>1, <2>5, ServeRotates
  <2> QED
    BY <1>1, <2>1, <2>2, <2>3, <2>4, <2>5 DEF QueuesMove
<1>2. ASSUME CoordinatorInv, [Next]_vars
      PROVE  [\A i \in Instance : \A p, o \in WithPending(i) :
                /\ pending'[i][p] # <<>> /\ pending'[i][o] # <<>> /\ p # o
                /\ p \notin Served(i)
                /\ o \in Served(i) \/ Before(ownerOrder[i], p, o)
                => Before(ownerOrder'[i], p, o)]_vars
  <2>1. QueueFunctions /\ Placed
    BY <1>2 DEF CoordinatorInv, QueueFunctions, QueueInv, PoolInv
  <2>2. ASSUME NEW i \in Instance, NEW p \in WithPending(i), NEW o \in WithPending(i)
        PROVE  Rotates(i, p, o)
    <3>1. QueueTyped(i) /\ QueueOK(i) /\ QueuesMove(i)
      BY <1>2, <2>1, StepMovesQueues
         DEF CoordinatorInv, QueueTyped, PoolInv, PoolTypes, QueuesOwned, QueueInv
    <3> QED
      BY <1>1, <3>1
  <2> QED
    BY <2>2 DEF Rotates
<1> QED
  BY <1>2, CoordinatorSafety, PTL DEF Spec, TurnsRotate

-----------------------------------------------------------------------------
(***************************************************************************)
(* Types.                                                                  *)
(***************************************************************************)

\* The list that recovery works on is there while it does.
ControlInv ==
  /\ turn \in {None} \cup (Instance \X {"dispatching", "recovering"})
  /\ recovery \in [Instance -> (SUBSET Review) \cup {None}]
  /\ stopping \in [Instance -> (SUBSET Review) \cup {None}]
  /\ mishaps \in 0..MaxMishaps
  /\ \A i \in Instance : turn = Recovering(i) => recovery[i] \subseteq Review

\* Counting a mishap, or none.
LEMMA MishapCounts ==
  ASSUME mishaps \in 0..MaxMishaps, Mishap \/ UNCHANGED mishaps PROVE mishaps' \in 0..MaxMishaps
  BY SchedulerAssumption DEF Mishap

\* A step that leaves the control of the coordinators alone but may be a mishap.
LEMMA ControlStays ==
  ASSUME ControlInv, UNCHANGED <<turn, recovery, stopping>>, Mishap \/ UNCHANGED mishaps
  PROVE  ControlInv'
  BY MishapCounts DEF ControlInv

\* The step ends at instance i, which dispatches next.
LEMMA ControlDispatches ==
  ASSUME ControlInv, NEW i \in Instance, turn' = Dispatching(i),
         UNCHANGED <<recovery, stopping, mishaps>>
  PROVE  ControlInv'
  BY DEF ControlInv, Dispatching, Recovering

\* Instance i starts again.
LEMMA ControlResets ==
  ASSUME ControlInv, NEW i \in Instance, Reset(i), Mishap \/ UNCHANGED mishaps PROVE ControlInv'
<1>1. \A j \in Instance : turn' # Recovering(j)
  BY SchedulerAssumption DEF Reset, Recovering
<1>2. /\ turn' = None
      /\ recovery' = [recovery EXCEPT ![i] = None]
      /\ stopping' = [stopping EXCEPT ![i] = None]
  BY DEF Reset
<1> QED
  BY <1>1, <1>2, MishapCounts DEF ControlInv

\* Recovery goes on at instance i.
LEMMA ControlRecovers ==
  ASSUME ControlInv, NEW i \in Instance,
         \/ turn = None /\ Recover(i)
         \/ turn = Recovering(i) /\ (RecoverySleeps(i) \/ \E r \in Review : RecoveryQueues(i, r))
  PROVE  ControlInv'
<1>0. turn = None => \A j \in Instance : turn # Recovering(j)
  BY SchedulerAssumption DEF Recovering
<1>1. CASE turn = None /\ RecoveryLists(i)
  BY <1>0, <1>1 DEF RecoveryLists, ControlInv
<1>2. CASE RecoveryResumes(i)
  <2>1. /\ turn' = Recovering(i) /\ recovery[i] \subseteq Review
        /\ UNCHANGED <<recovery, stopping, mishaps>>
    BY <1>2 DEF RecoveryResumes, ControlInv
  <2>2. \A j \in Instance : turn' = Recovering(j) => j = i
    BY <2>1 DEF Recovering
  <2> QED
    BY <2>1, <2>2 DEF ControlInv, Recovering
<1>3. CASE turn = Recovering(i) /\ RecoverySleeps(i)
  <2>1. /\ turn' = Dispatching(i) /\ recovery' = [recovery EXCEPT ![i] = None]
        /\ UNCHANGED <<stopping, mishaps>>
    BY <1>3 DEF RecoverySleeps
  <2>2. \A j \in Instance : turn' # Recovering(j)
    BY <2>1 DEF Dispatching, Recovering
  <2> QED
    BY <2>1, <2>2 DEF ControlInv, Dispatching
<1>4. ASSUME turn = Recovering(i), NEW r \in Review, RecoveryQueues(i, r) PROVE ControlInv'
  <2>1. /\ recovery' = [recovery EXCEPT ![i] = @ \ {r}]
        /\ recovery[i] \subseteq Review
        /\ UNCHANGED <<turn, stopping, mishaps>>
    BY <1>4 DEF RecoveryQueues, ControlInv
  <2> QED
    BY <2>1 DEF ControlInv
<1> QED
  BY <1>1, <1>2, <1>3, <1>4 DEF Recover

\* Every step keeps the types of the control variables.
LEMMA ControlNext == ASSUME ControlInv, PoolTypes, Placed, [Next]_vars PROVE ControlInv'
<1>1. ASSUME NEW i \in Instance, NEW r \in Review,
             CreateReview(i, r) \/ Cancel(i, r) \/ Protocol(i, r) \/ Heartbeat(i, r)
      PROVE  ControlInv'
  <2>1. CASE CreateReview(i, r) \/ Cancel(i, r)
    BY <2>1, ControlStays DEF CreateReview, Cancel
  <2>2. CASE Release(i, r)
    BY <2>2, ControlDispatches DEF Release
  <2>3. CASE Claim(i, r) \/ Renew(i, r) \/ Complete(i, r)
    BY <2>3, ControlStays DEF Claim, Renew, Complete, WorkerStep
  <2>4. CASE ProtocolFails(i, r) \/ ProtocolEnds(i, r) \/ ProtocolWins(i, r) \/ FailReview(i, r)
    BY <2>4, ControlStays DEF ProtocolFails, ProtocolEnds, ProtocolWins, FailReview, WorkerStep
  <2>5. CASE Heartbeat(i, r)
    BY <2>5, ControlStays DEF Heartbeat, BeatRenews, BeatAnswered, WorkerStep
  <2> QED
    BY <1>1, <2>1, <2>2, <2>3, <2>4, <2>5 DEF Protocol
<1>2. ASSUME NEW r \in Review, Enqueue(r) PROVE ControlInv'
  <2>1. request[r].at \in Instance
    BY <1>2 DEF Enqueue, Placed
  <2> QED
    BY <1>2, <2>1, ControlStays, ControlDispatches DEF Enqueue
<1>3. ASSUME NEW r \in Review, CancelEnds(r) PROVE ControlInv'
  <2>1. cancel[r].at \in Instance
    BY <1>3 DEF CancelEnds, Placed
  <2> QED
    BY <1>3, <2>1, ControlDispatches DEF CancelEnds
<1>4. ASSUME NEW r \in Review, Reject(r) \/ CancelStored(r) \/ Lapse(r) PROVE ControlInv'
  BY <1>4, ControlStays DEF Reject, CancelStored, Lapse
<1>5. ASSUME NEW i \in Instance, Crash(i) \/ ShutdownEnds(i) PROVE ControlInv'
  BY <1>5, ControlResets DEF Crash, ShutdownEnds
<1>6. ASSUME NEW i \in Instance, ShutdownBegins(i) PROVE ControlInv'
  <2>1. /\ stopping' = [stopping EXCEPT ![i] = active[i]] /\ active[i] \subseteq Review
        /\ UNCHANGED <<turn, recovery>> /\ Mishap
    BY <1>6 DEF ShutdownBegins, PoolTypes
  <2> QED
    BY <2>1, MishapCounts DEF ControlInv
<1>7. ASSUME NEW i \in Instance, DispatchEnds(i) PROVE ControlInv'
  <2>1. turn' = None /\ UNCHANGED <<recovery, stopping, mishaps>>
    BY <1>7 DEF DispatchEnds
  <2>2. \A j \in Instance : turn' # Recovering(j)
    BY <2>1, SchedulerAssumption DEF Recovering
  <2> QED
    BY <2>1, <2>2 DEF ControlInv
<1>8. ASSUME NEW i \in Instance, NEW o \in Owner, Dequeue(i, o) PROVE ControlInv'
  BY <1>8, ControlStays DEF Dequeue
<1>9. ASSUME Expire \/ UNCHANGED vars PROVE ControlInv'
  BY <1>9, ControlStays DEF Expire, vars
<1> QED
  BY <1>1, <1>2, <1>3, <1>4, <1>5, <1>6, <1>7, <1>8, <1>9, ControlRecovers
     DEF Next, Begin, Continue, Route

\* The control variables have their types at first.
LEMMA ControlInit == Init => ControlInv
<1>1. Init => \A i \in Instance : turn # Recovering(i)
  BY SchedulerAssumption DEF Init, Recovering
<1> QED
  BY <1>1, SchedulerAssumption DEF Init, ControlInv

\* Every variable of the coordinators has its type; an owner in a rotation exists, and
\* recovery has a list whenever it works on one.
THEOREM SchedulerTypeCorrect == Spec => []TypeOK
<1>1. CoordinatorInv /\ ControlInv /\ [Next]_vars => ControlInv'
  BY ControlNext DEF CoordinatorInv, PoolInv
<1>2. ASSUME CoordinatorInv, ControlInv PROVE TypeOK
  <2>1. ownerOrder \in [Instance -> Seq(Owner)]
    BY <1>2 DEF CoordinatorInv, QueueInv, QueueOK
  <2> QED
    BY <1>2, <2>1 DEF CoordinatorInv, RowInv, RowTypes, Placed, PoolInv, PoolTypes,
                      ControlInv, TypeOK
<1> QED
  BY <1>1, <1>2, ControlInit, CoordinatorSafety, PTL DEF Spec
=============================================================================
