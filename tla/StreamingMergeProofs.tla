-------------------------- MODULE StreamingMergeProofs --------------------------
(***************************************************************************)
(* Theorems about StreamingMerge: for any number of sources, any rows, any *)
(* tombstones and any batch size.                                          *)
(***************************************************************************)
EXTENDS StreamingMerge, FiniteSetTheorems, WellFoundedInduction, TLAPS

\* A non-empty set of natural numbers has a least element.
LEMMA LeastElement ==
  ASSUME NEW S, S \subseteq Nat, S # {}
  PROVE  \E x \in S : \A y \in S : x <= y
<1>1. PICK x \in S : \A y \in S : ~ (<<y, x>> \in OpToRel(<, Nat))
  BY WFMin, NatLessThanWellFounded
<1>2. \A y \in S : ~ (y < x)
  BY <1>1 DEF OpToRel
<1> QED BY <1>2

\* A batch is a non-empty lower part of the rows, if there are any.
LEMMA BatchIs ==
  ASSUME NEW S, S \subseteq RowIds
  PROVE  /\ Batch(S) \subseteq S
         /\ Batch(S) = {} => S = {}
         /\ \A x \in Batch(S), y \in S \ Batch(S) : x < y
<1> USE MergeAssumption
<1>1. Batch(S) \subseteq S
  BY DEF Batch
<1>2. IsFiniteSet(S) /\ S \subseteq Nat
  BY FS_Subset
<1> HIDE MergeAssumption
<1>3. ASSUME S # {} PROVE Batch(S) # {}
  <2>1. PICK x \in S : \A y \in S : x <= y
    BY <1>2, <1>3, LeastElement
  <2>2. \A y \in S : ~ (y < x)
    BY <1>2, <2>1
  <2>3. {y \in S : y < x} = {}
    BY <2>2
  <2>4. Cardinality({y \in S : y < x}) < BatchSize
    BY <2>3, FS_EmptySet, MergeAssumption
  <2> QED BY <2>1, <2>4 DEF Batch
<1>4. ASSUME NEW x \in Batch(S), NEW y \in S \ Batch(S), ~ (x < y) PROVE FALSE
  <2> DEFINE below(z) == {w \in S : w < z}
  <2>1. below(y) \subseteq below(x)
    <3>1. x \in Nat /\ y \in Nat
      BY <1>1, <1>2
    <3>2. \A w \in S : w < y => w < x
      BY <1>2, <1>4, <3>1
    <3> QED BY <3>2
  <2>2. IsFiniteSet(below(x)) /\ IsFiniteSet(below(y))
    BY <1>2, FS_Subset
  <2>3. Cardinality(below(y)) <= Cardinality(below(x))
    BY <2>1, <2>2, FS_Subset
  <2>4. Cardinality(below(x)) \in Nat /\ Cardinality(below(y)) \in Nat
    BY <2>2, FS_CardinalityType
  <2>5. Cardinality(below(x)) < BatchSize /\ ~ (Cardinality(below(y)) < BatchSize)
    BY <1>4 DEF Batch
  <2>6. BatchSize \in Nat
    BY MergeAssumption
  <2> QED BY <2>3, <2>4, <2>5, <2>6
<1> QED BY <1>1, <1>3, <1>4

-----------------------------------------------------------------------------
LEMMA TypeInit == Init => TypeOK
<1> SUFFICES ASSUME Init PROVE TypeOK
  OBVIOUS
<1>1. \A i \in Segments : Batch(rows[i]) \subseteq RowIds
  BY BatchIs DEF Init
<1> QED BY <1>1, MergeAssumption DEF Init, TypeOK

LEMMA TakeBatchType ==
  ASSUME TypeOK, NEW e \in BOOLEAN, TakeBatch(e)
  PROVE  /\ peeked' \in [Segments -> SUBSET RowIds]
         /\ rest' \in [Segments -> SUBSET RowIds]
         /\ present' \subseteq Segments
<1>1. rest[src] \subseteq RowIds
  BY DEF TypeOK
<1>2. Batch(rest[src]) \subseteq RowIds
  BY <1>1, BatchIs
<1> QED BY <1>1, <1>2 DEF TypeOK, TakeBatch

LEMMA TypeStep == TypeOK /\ [Next]_vars => TypeOK'
<1> SUFFICES ASSUME TypeOK, [Next]_vars PROVE TypeOK'
  OBVIOUS
<1>1. ASSUME NEW i \in Segments, Pick(i) PROVE TypeOK'
  BY <1>1 DEF Pick, TypeOK
<1>2. ASSUME CloseOutput \/ EndDrain PROVE TypeOK'
  BY <1>2 DEF CloseOutput, EndDrain, TypeOK
<1>3. ASSUME WriteBatch PROVE TypeOK'
  <2>1. TakeBatch(FALSE)
    BY <1>3 DEF WriteBatch
  <2> QED BY <1>3, <2>1, TakeBatchType DEF WriteBatch, TypeOK
<1>4. ASSUME ReadError PROVE TypeOK'
  <2>1. TakeBatch(TRUE)
    BY <1>4 DEF ReadError
  <2>2. /\ rows' = rows /\ deleted' = deleted /\ src' = src /\ pc' = pc
        /\ out' \subseteq out \cup peeked[src] /\ errors' = errors + 1
    BY <1>4 DEF ReadError
  <2>3. out' \subseteq RowIds
    BY <2>2 DEF TypeOK
  <2>4. /\ peeked' \in [Segments -> SUBSET RowIds]
        /\ rest' \in [Segments -> SUBSET RowIds]
        /\ present' \subseteq Segments
    BY <2>1, TakeBatchType
  <2> QED BY <2>2, <2>3, <2>4 DEF TypeOK
<1>5. ASSUME WriteError PROVE TypeOK'
  <2>1. TakeBatch(FALSE)
    BY <1>5 DEF WriteError
  <2> QED BY <1>5, <2>1, TakeBatchType DEF WriteError, TypeOK
<1>6. ASSUME SplitBatch PROVE TypeOK'
  BY <1>6 DEF SplitBatch, TypeOK
<1>7. CASE UNCHANGED vars
  BY <1>7 DEF vars, TypeOK
<1> QED BY <1>1, <1>2, <1>3, <1>4, <1>5, <1>6, <1>7 DEF Next, Merge, Ended

-----------------------------------------------------------------------------
(* The order of the output *)

LEMMA ReaderInit == Init => ReaderInv
<1> SUFFICES ASSUME Init PROVE ReaderInv
  OBVIOUS
<1> QED BY BatchIs DEF Init, ReaderInv

\* What is left of each source after its next batch was taken.
LEMMA TakeBatchLeft ==
  ASSUME TypeOK, ReaderInv, NEW e \in BOOLEAN, TakeBatch(e)
  PROVE  /\ \A i \in Segments \ {src} : peeked'[i] = peeked[i] /\ rest'[i] = rest[i]
         /\ peeked'[src] \subseteq rest[src] /\ rest'[src] \subseteq rest[src]
         /\ \A x \in peeked'[src], y \in rest'[src] : x < y
         /\ peeked'[src] = {} => rest'[src] = {}
         /\ ~ e => peeked'[src] \cup rest'[src] = rest[src]
         /\ present' = IF peeked'[src] = {} THEN present \ {src} ELSE present
<1> DEFINE next == IF e THEN {} ELSE Batch(rest[src])
<1>1. rest[src] \subseteq RowIds
  BY DEF TypeOK
<1>2. /\ Batch(rest[src]) \subseteq rest[src]
      /\ Batch(rest[src]) = {} => rest[src] = {}
      /\ \A x \in Batch(rest[src]), y \in rest[src] \ Batch(rest[src]) : x < y
  BY <1>1, BatchIs
<1>3. peeked'[src] = next /\ rest'[src] = IF e THEN {} ELSE rest[src] \ next
  BY DEF TakeBatch, TypeOK
<1>4. \A i \in Segments \ {src} : peeked'[i] = peeked[i] /\ rest'[i] = rest[i]
  BY DEF TakeBatch, TypeOK
<1>5. present' = IF next = {} THEN present \ {src} ELSE present
  BY DEF TakeBatch
<1> QED BY <1>2, <1>3, <1>4, <1>5

\* The rows of a batch below the others are below everything that is left.
LEMMA BelowIsLeast ==
  ASSUME TypeOK, ReaderInv, NEW x \in peeked[src], Below(src, x)
  PROVE  \A i \in Segments \ {src} : \A y \in Left(i) : x < y
<1> SUFFICES ASSUME NEW i \in Segments \ {src}, NEW y \in Left(i) PROVE x < y
  OBVIOUS
<1>1. PICK z \in peeked[i] : TRUE
  BY DEF ReaderInv, Left
<1>2. \A w \in peeked[i] : x < w
  BY DEF Below, Others, Live
<1>3. CASE y \in peeked[i]
  BY <1>2, <1>3
<1>4. CASE y \in rest[i]
  <2>1. x < z /\ z < y
    BY <1>1, <1>2, <1>4 DEF ReaderInv
  <2>2. x \in Nat /\ y \in Nat /\ z \in Nat
    BY <1>1, <1>4, MergeAssumption DEF TypeOK
  <2> QED BY <2>1, <2>2
<1> QED BY <1>3, <1>4 DEF Left

\* The rows of a batch below the others come before the rows that are not.
LEMMA BelowIsLower ==
  ASSUME TypeOK, NEW x \in peeked[src], Below(src, x),
         NEW z \in peeked[src], ~ Below(src, z)
  PROVE  x < z
<1>1. PICK k \in Others(src) : \E w \in peeked[k] : ~ (z < w)
  BY DEF Below
<1>2. PICK w \in peeked[k] : ~ (z < w)
  BY <1>1
<1>3. x < w
  BY <1>2 DEF Below
<1>4. x \in Nat /\ z \in Nat /\ w \in Nat
  BY <1>2, MergeAssumption DEF TypeOK, Others, Live
<1> QED BY <1>2, <1>3, <1>4

LEMMA ReaderStep == TypeOK /\ ReaderInv /\ [Next]_vars => ReaderInv'
<1> SUFFICES ASSUME TypeOK, ReaderInv, [Next]_vars PROVE ReaderInv'
  OBVIOUS
<1>1. ASSUME UNCHANGED <<peeked, rest, out>> PROVE ReaderInv'
  BY <1>1 DEF ReaderInv, Left
\* A whole batch is taken, and written or lost.
<1>2. ASSUME NEW e \in BOOLEAN, WholeBatchBelow, TakeBatch(e),
             out' \subseteq out \cup peeked[src]
      PROVE  ReaderInv'
  <2>1. /\ \A i \in Segments \ {src} : peeked'[i] = peeked[i] /\ rest'[i] = rest[i]
        /\ peeked'[src] \subseteq rest[src] /\ rest'[src] \subseteq rest[src]
        /\ \A x \in peeked'[src], y \in rest'[src] : x < y
        /\ peeked'[src] = {} => rest'[src] = {}
    BY <1>2, TakeBatchLeft
  <2>2. \A i \in Segments : (peeked'[i] \cup rest'[i]) \subseteq Left(i)
    BY <2>1 DEF Left
  <2>3. \A x \in peeked[src], i \in Segments : \A y \in peeked'[i] \cup rest'[i] : x < y
    <3> SUFFICES ASSUME NEW x \in peeked[src], NEW i \in Segments,
                        NEW y \in peeked'[i] \cup rest'[i]
                 PROVE  x < y
      OBVIOUS
    <3>1. CASE i = src
      BY <2>1, <3>1 DEF ReaderInv
    <3>2. CASE i # src
      BY <1>2, <2>2, <3>2, BelowIsLeast DEF WholeBatchBelow
    <3> QED BY <3>1, <3>2
  <2>4. \A x \in out, i \in Segments : \A y \in peeked'[i] \cup rest'[i] : x < y
    BY <2>2 DEF ReaderInv
  <2>5. \A i \in Segments : \A x \in peeked'[i], y \in rest'[i] : x < y
    BY <2>1 DEF ReaderInv
  <2>6. \A i \in Segments : peeked'[i] = {} => rest'[i] = {}
    BY <2>1 DEF ReaderInv
  <2> QED BY <1>2, <2>3, <2>4, <2>5, <2>6 DEF ReaderInv, Left
<1>3. ASSUME SplitBatch PROVE ReaderInv'
  <2> DEFINE left == {x \in peeked[src] : Below(src, x)}
  <2>1. /\ out' \subseteq out \cup left /\ rest' = rest
        /\ peeked'[src] = peeked[src] \ left /\ left # peeked[src]
        /\ \A i \in Segments \ {src} : peeked'[i] = peeked[i]
    BY <1>3 DEF SplitBatch, TypeOK
  <2>2. PICK r \in peeked[src] : r \notin left
    BY <2>1
  <2>4. \A x \in left, z \in peeked[src] \ left : x < z
    BY BelowIsLower
  <2>5. \A x \in left, i \in Segments : \A z \in peeked'[i] \cup rest'[i] : x < z
    <3> SUFFICES ASSUME NEW x \in left, NEW i \in Segments,
                        NEW z \in peeked'[i] \cup rest'[i]
                 PROVE  x < z
      OBVIOUS
    <3>1. CASE i = src
      BY <2>1, <2>4, <3>1 DEF ReaderInv
    <3>2. CASE i # src
      BY <2>1, <3>2, BelowIsLeast DEF Left
    <3> QED BY <3>1, <3>2
  <2> HIDE DEF left
  <2>6. \A i \in Segments : peeked'[i] \subseteq peeked[i]
    BY <2>1
  <2>7. \A x \in out, i \in Segments : \A z \in peeked'[i] \cup rest'[i] : x < z
    BY <2>1, <2>6 DEF ReaderInv, Left
  <2>8. \A i \in Segments : peeked'[i] = {} => rest'[i] = {}
    BY <2>1, <2>2 DEF ReaderInv, left
  <2>9. \A i \in Segments : \A x \in peeked'[i], z \in rest'[i] : x < z
    BY <2>1, <2>6 DEF ReaderInv
  <2> QED BY <2>1, <2>5, <2>7, <2>8, <2>9 DEF ReaderInv, Left
<1>4. ASSUME WriteBatch PROVE ReaderInv'
  BY <1>2, <1>4 DEF WriteBatch
<1>5. ASSUME ReadError PROVE ReaderInv'
  BY <1>2, <1>5 DEF ReadError
<1>6. ASSUME WriteError PROVE ReaderInv'
  BY <1>2, <1>6 DEF WriteError
<1> QED BY <1>1, <1>3, <1>4, <1>5, <1>6
        DEF Next, Merge, Ended, Pick, CloseOutput, EndDrain, vars

\* The step of the theorem below.
LEMMA AscendStep ==
  ASSUME TypeOK, ReaderInv, [Next]_vars
  PROVE  \A x \in out' \ out : \A y \in out : y < x
<1>1. \A x \in peeked[src] : \A y \in out : y < x
  BY DEF ReaderInv, Left, TypeOK
<1>2. out' \ out \subseteq peeked[src]
  BY DEF Next, Merge, Ended, Pick, CloseOutput, EndDrain, WriteBatch, SplitBatch,
         ReadError, WriteError, vars
<1> QED BY <1>1, <1>2

\* The output of every merge is sorted, whatever the sources hold, also when
\* they share ids, and whatever errors occur.
THEOREM OutputIsSorted == Spec => WritesAscend
<1>1. Init => TypeOK /\ ReaderInv
  BY TypeInit, ReaderInit
<1>2. TypeOK /\ ReaderInv /\ [Next]_vars => (TypeOK /\ ReaderInv)'
  BY TypeStep, ReaderStep
<1>3. TypeOK /\ ReaderInv /\ [Next]_vars => [\A x \in out' \ out : \A y \in out : y < x]_vars
  BY AscendStep
<1> QED BY <1>1, <1>2, <1>3, PTL DEF Spec, WritesAscend

-----------------------------------------------------------------------------
(* No row is lost or left behind *)

LEMMA TakenInit == Init => MergeInv
<1> SUFFICES ASSUME Init PROVE TakenInv
  BY DEF MergeInv
<1>1. \A i \in Segments : Batch(rows[i]) \subseteq rows[i]
  BY BatchIs DEF Init
<1>2. \A i \in Segments : Left(i) = rows[i] /\ Taken(i) = {}
  BY <1>1 DEF Init, Left, Taken
<1>3. out = {} /\ present = Segments /\ pc # "done"
  BY DEF Init
<1> QED BY <1>2, <1>3 DEF TakenInv

\* Taking a whole batch below the others and writing what is not tombstoned.
LEMMA WriteBatchKeeps ==
  ASSUME TypeOK, ReaderInv, TakenInv, WriteBatch
  PROVE  TakenInv'
<1> DEFINE left1(i) == peeked'[i] \cup rest'[i]
           taken1(i) == rows[i] \ left1(i)
           b == peeked[src]
<1>1. /\ WholeBatchBelow /\ TakeBatch(FALSE)
      /\ out' = out \cup (b \ deleted)
      /\ rows' = rows /\ deleted' = deleted /\ src' = src /\ pc' = pc /\ pc = "drain"
  BY DEF WriteBatch, WholeBatchBelow
<1>2. /\ \A i \in Segments \ {src} : peeked'[i] = peeked[i] /\ rest'[i] = rest[i]
      /\ peeked'[src] = {} => rest'[src] = {}
      /\ peeked'[src] \cup rest'[src] = rest[src]
      /\ present' = IF peeked'[src] = {} THEN present \ {src} ELSE present
  BY <1>1, TakeBatchLeft
<1>3. src \in Segments /\ present \subseteq Segments
  BY DEF TypeOK
<1>4. /\ \A i \in Segments \ {src} : left1(i) = Left(i) /\ taken1(i) = Taken(i)
      /\ left1(src) = rest[src] /\ taken1(src) \subseteq Taken(src) \cup b
  BY <1>1, <1>2 DEF Left, Taken
<1> HIDE DEF left1, taken1
<1>5. /\ b # {} /\ b \subseteq Left(src) /\ rest[src] \subseteq Left(src)
      /\ b \subseteq rows[src]
  BY <1>1, <1>3 DEF WholeBatchBelow, Left, TakenInv
<1>6. out' \subseteq (UNION {rows[i] : i \in Segments}) \ deleted
  BY <1>1, <1>3, <1>5 DEF TakenInv
<1>7. (pc = "done" => Live = {})'
  BY <1>1
<1>8. ASSUME NEW i \in Segments PROVE left1(i) \subseteq rows[i]
  BY <1>1, <1>4, <1>5 DEF TakenInv
<1>9. ASSUME NEW i \in Segments PROVE taken1(i) \ deleted \subseteq out'
  BY <1>1, <1>4 DEF TakenInv
<1>10. ASSUME NEW i \in Segments, NEW x \in taken1(i), NEW j \in Segments, NEW y \in left1(j)
       PROVE  x < y
  <2>1. y \in Left(j)
    BY <1>4, <1>5
  <2>2. CASE x \in Taken(i)
    BY <2>1, <2>2 DEF TakenInv
  <2>3. CASE x \notin Taken(i)
    <3>1. i = src /\ x \in b
      BY <1>4, <2>3
    <3>2. CASE j = src
      BY <1>4, <3>1, <3>2 DEF ReaderInv
    <3>3. CASE j # src
      BY <1>1, <2>1, <3>1, <3>3, BelowIsLeast DEF WholeBatchBelow
    <3> QED BY <3>2, <3>3
  <2> QED BY <2>2, <2>3
<1>11. ASSUME NEW i \in Segments, i \notin present' PROVE left1(i) = {}
  <2>1. CASE i = src
    <3>1. src \in present
      BY <1>3, <1>5 DEF TakenInv
    <3> QED BY <1>2, <1>4, <1>11, <2>1, <3>1
  <2>2. CASE i # src
    BY <1>2, <1>4, <1>11, <2>2 DEF TakenInv
  <2> QED BY <2>1, <2>2
<1>12. ASSUME NEW i \in Segments, i \in present', left1(i) = {} PROVE rows[i] = {}
  <2>1. CASE i = src
    BY <1>2, <1>4, <1>12, <2>1
  <2>2. CASE i # src
    BY <1>1, <1>2, <1>4, <1>12, <2>2 DEF TakenInv
  <2> QED BY <2>1, <2>2
<1> HIDE DEF b
<1> QED BY <1>1, <1>6, <1>7, <1>8, <1>9, <1>10, <1>11, <1>12 DEF TakenInv, Left, Taken, left1, taken1

\* Cutting a batch at the smallest row of the others.
LEMMA SplitBatchKeeps ==
  ASSUME TypeOK, ReaderInv, TakenInv, SplitBatch
  PROVE  TakenInv'
<1> DEFINE left1(i) == peeked'[i] \cup rest'[i]
           taken1(i) == rows[i] \ left1(i)
           left == {x \in peeked[src] : Below(src, x)}
<1>1. /\ left \subseteq peeked[src] /\ left # peeked[src]
      /\ out' = out \cup (left \ deleted)
      /\ peeked' = [peeked EXCEPT ![src] = @ \ left] /\ rest' = rest
      /\ pc' = "pick" /\ rows' = rows /\ deleted' = deleted /\ present' = present
  BY DEF SplitBatch
<1>2. src \in Segments /\ present \subseteq Segments
  BY DEF TypeOK
<1>3. /\ peeked'[src] = peeked[src] \ left /\ peeked'[src] # {}
      /\ \A i \in Segments \ {src} : peeked'[i] = peeked[i]
  BY <1>1, <1>2 DEF TypeOK
<1>4. /\ \A i \in Segments \ {src} : left1(i) = Left(i) /\ taken1(i) = Taken(i)
      /\ left1(src) \subseteq Left(src) /\ left1(src) # {}
      /\ taken1(src) \subseteq Taken(src) \cup left
  BY <1>1, <1>3 DEF Left, Taken
<1> HIDE DEF left1, taken1
<1>5. left \subseteq rows[src] /\ src \in present
  BY <1>1, <1>2 DEF TakenInv, Left
<1>6. \A x \in left, i \in Segments : \A z \in left1(i) : x < z
  <2> SUFFICES ASSUME NEW x \in left, NEW i \in Segments, NEW z \in left1(i) PROVE x < z
    OBVIOUS
  <2>2. CASE i # src
    BY <1>1, <1>4, <2>2, BelowIsLeast
  <2>3. CASE i = src
    <3>1. CASE z \in peeked'[i]
      BY <1>3, <2>3, <3>1, BelowIsLower
    <3>2. CASE z \in rest'[i]
      BY <1>1, <2>3, <3>2 DEF ReaderInv
    <3> QED BY <3>1, <3>2 DEF left1
  <2> QED BY <2>2, <2>3
<1> HIDE DEF left
<1>7. out' \subseteq (UNION {rows[i] : i \in Segments}) \ deleted
  BY <1>1, <1>2, <1>5 DEF TakenInv
<1>8. (pc = "done" => Live = {})'
  BY <1>1
<1>9. ASSUME NEW i \in Segments PROVE left1(i) \subseteq rows[i]
  BY <1>1, <1>4 DEF TakenInv
<1>10. ASSUME NEW i \in Segments PROVE taken1(i) \ deleted \subseteq out'
  BY <1>1, <1>4 DEF TakenInv
<1>11. ASSUME NEW i \in Segments, NEW x \in taken1(i), NEW j \in Segments, NEW y \in left1(j)
       PROVE  x < y
  <2>1. CASE x \in Taken(i)
    BY <1>4, <2>1 DEF TakenInv
  <2>2. CASE x \notin Taken(i)
    BY <1>4, <1>6, <2>2
  <2> QED BY <2>1, <2>2
<1>12. ASSUME NEW i \in Segments, i \notin present' PROVE left1(i) = {}
  BY <1>1, <1>4, <1>5, <1>12 DEF TakenInv
<1>13. ASSUME NEW i \in Segments, i \in present', left1(i) = {} PROVE rows[i] = {}
  BY <1>1, <1>4, <1>13 DEF TakenInv, Left, Taken, left1, taken1
<1> QED BY <1>1, <1>7, <1>8, <1>9, <1>10, <1>11, <1>12, <1>13 DEF TakenInv, Left, Taken, left1, taken1

LEMMA TakenStep == TypeOK /\ ReaderInv /\ MergeInv /\ [Next]_vars => MergeInv'
<1> SUFFICES ASSUME TypeOK, ReaderInv, MergeInv, [Next]_vars, NoErrors' PROVE TakenInv'
  BY DEF MergeInv
<1>1. CASE WriteBatch
  <2>1. NoErrors
    BY <1>1 DEF WriteBatch, NoErrors
  <2> QED BY <1>1, <2>1, WriteBatchKeeps DEF MergeInv
<1>2. CASE SplitBatch
  <2>1. NoErrors
    BY <1>2 DEF SplitBatch, NoErrors
  <2> QED BY <1>2, <2>1, SplitBatchKeeps DEF MergeInv
<1>3. CASE CloseOutput
  <2>1. TakenInv
    BY <1>3 DEF CloseOutput, NoErrors, MergeInv
  <2> QED BY <1>3, <2>1 DEF CloseOutput, TakenInv, Live, Left, Taken
<1>4. CASE (\E i \in Segments : Pick(i)) \/ EndDrain
  <2>1. /\ TakenInv /\ pc' # "done"
        /\ UNCHANGED <<rows, deleted, present, peeked, rest, out>>
    BY <1>4 DEF Pick, EndDrain, NoErrors, MergeInv
  <2> QED BY <2>1 DEF TakenInv, Live, Left, Taken
<1>5. CASE ReadError \/ WriteError
  <2>1. ReadError => errors' = errors + 1
    BY DEF ReadError
  <2>2. WriteError => pc' = "failed"
    BY DEF WriteError
  <2>3. errors \in Nat
    BY DEF TypeOK
  <2>4. errors' = 0 /\ pc' # "failed"
    BY DEF NoErrors
  <2> QED BY <1>5, <2>1, <2>2, <2>3, <2>4
<1>6. CASE UNCHANGED vars
  <2>1. TakenInv
    BY <1>6 DEF vars, NoErrors, MergeInv
  <2> QED BY <1>6, <2>1 DEF vars, TakenInv, Live, Left, Taken
<1> QED BY <1>1, <1>2, <1>3, <1>4, <1>5, <1>6 DEF Next, Merge, Ended

LEMMA InvInit == Init => TypeOK /\ ReaderInv /\ MergeInv
  BY TypeInit, ReaderInit, TakenInit

LEMMA InvStep ==
  TypeOK /\ ReaderInv /\ MergeInv /\ [Next]_vars => (TypeOK /\ ReaderInv /\ MergeInv)'
  BY TypeStep, ReaderStep, TakenStep

\* While no error has occurred, a source file that was removed has all of its
\* live rows in the output, also when sources share ids.
THEOREM RowsKept == Spec => []RemovedIsWritten
<1>1. MergeInv => RemovedIsWritten
  BY DEF MergeInv, TakenInv, Taken, RemovedIsWritten
<1> QED BY <1>1, InvInit, InvStep, PTL DEF Spec

\* When it ends without an error, nothing is left in any reader, so the output that
\* was closed holds exactly the live rows of the sources, also when sources share ids.
THEOREM OutputIsWhole == Spec => []OutputIsUnion
<1>1. ReaderInv /\ MergeInv => OutputIsUnion
  <2> SUFFICES ASSUME ReaderInv, TakenInv, pc = "done"
               PROVE  out = (UNION {rows[i] : i \in Segments}) \ deleted
    BY DEF MergeInv, OutputIsUnion
  <2>1. \A i \in Segments : Left(i) = {}
    BY DEF TakenInv, Live, ReaderInv, Left
  <2>2. \A i \in Segments : rows[i] \ deleted \subseteq out
    BY <2>1 DEF TakenInv, Taken
  <2> QED BY <2>2 DEF TakenInv
<1> QED BY <1>1, InvInit, InvStep, PTL DEF Spec

\* Sources are used up in the order of their largest ids, until something
\* fails: a source that is removed leaves no smaller row in any other.
THEOREM SourcesEndInOrder == Spec => RemovedByLastId
<1> DEFINE Inv == TypeOK /\ ReaderInv /\ MergeInv
<1>1. Inv /\ Inv' /\ [Next]_vars =>
        [NoErrors' => \A i \in present \ present', j \in present' :
           rows[j] # {} => \E x \in rows[j] : \A z \in rows[i] : z < x]_vars
  <2> SUFFICES ASSUME Inv, Inv', [Next]_vars, NoErrors',
                      NEW i \in present \ present', NEW j \in present', rows[j] # {}
               PROVE  \E x \in rows[j] : \A z \in rows[i] : z < x
    OBVIOUS
  <2>1. TakenInv' /\ i \in Segments /\ j \in Segments
    BY DEF MergeInv, TypeOK
  <2>2. rows' = rows
    BY DEF Next, Merge, Ended, Pick, CloseOutput, EndDrain, WriteBatch, SplitBatch,
           ReadError, WriteError, vars
  <2>3. PICK x \in Left(j)' : x \in rows[j]
    BY <2>1, <2>2 DEF TakenInv
  <2>4. \A z \in rows[i] : z \in Taken(i)'
    BY <2>1, <2>2 DEF TakenInv, Taken
  <2> QED BY <2>1, <2>3, <2>4 DEF TakenInv
<1>2. Init => Inv
  BY InvInit
<1>3. Inv /\ [Next]_vars => Inv'
  BY InvStep
<1> HIDE DEF Inv
<1> QED BY <1>1, <1>2, <1>3, PTL DEF Spec, RemovedByLastId
=============================================================================
