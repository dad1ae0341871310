--------------------------- MODULE InductionProofs ---------------------------
(***************************************************************************)
(* Proofs about parts whose inputs MCParts bounds and whose answers are    *)
(* computed step by step, from induction over numbers and finite sets:     *)
(* what passes the quality gate (QualityGate), how documents are grouped   *)
(* and the stages of the corpus follow one another (CorpusChain), and what *)
(* is granted of the disks and the GPU (Resources).                        *)
(***************************************************************************)
EXTENDS QualityGate, CorpusChain, Resources, FiniteSetTheorems, WellFoundedInduction, TLAPS

Finite(S) == {T \in SUBSET S : IsFiniteSet(T)}

-----------------------------------------------------------------------------
(***************************************************************************)
(* The gate of the quality boundary (QualityGate)                          *)
(***************************************************************************)
\* A dataset and how it is checked: a frame of any columns and types, the keys
\* of any datasets it refers to, and what the producer attached.
MapsTo(T) == UNION {[S -> T] : S \in SUBSET STRING}
QualityWays ==
  [lazy : BOOLEAN, source : {"parquet", "frame", "json", "arrow"}, dtypes : MapsTo(STRING), execute : BOOLEAN,
   minRows : Nat, related : MapsTo(SUBSET STRING), attached : SUBSET {"none", "some", "missing"}]

(***************************************************************************)
(* Induction: every set of naturals has a least element.                   *)
(***************************************************************************)
LEMMA LeastNumber ==
  ASSUME NEW S, S \subseteq Nat, S # {}
  PROVE  \E n \in S : \A m \in S : n <= m
<1> DEFINE R == {p \in Nat \X Nat : p[1] < p[2]}
<1>1. R = OpToRel(<, Nat)
  BY DEF OpToRel
<1>2. IsWellFoundedOn(R, Nat)
  BY <1>1, NatLessThanWellFounded, Zenon
<1>3. \E x \in S : \A y \in S : ~ (<<y, x>> \in R)
  <2> HIDE DEF R
  <2> QED BY <1>2, WFMin, Zenon
<1>4. PICK n \in S : \A m \in S : ~ (<<m, n>> \in R)
  BY <1>3
<1>5. ASSUME NEW m \in S PROVE n <= m
  <2>1. m \in Nat /\ n \in Nat /\ <<m, n>> \in Nat \X Nat
    OBVIOUS
  <2>2. ~ (<<m, n>>[1] < <<m, n>>[2])
    BY <1>4, <2>1
  <2> QED BY <2>1, <2>2
<1> QED BY <1>5

Outcomes == {"pass", "fail", "not-applicable"}
\* What merging comes to, whatever the order: the recursion of MergedResult is
\* unfolded by induction over the batches merged so far.
LEMMA MergedIs ==
  ASSUME NEW o \in Seq(Outcomes), o # << >>
  PROVE  MergedResult(o) = IF \E k \in 1 .. Len(o) : o[k] = "fail" THEN "fail"
                           ELSE IF \A k \in 1 .. Len(o) : o[k] = "not-applicable" THEN "not-applicable" ELSE "pass"
<1> DEFINE N == Len(o)
           Is(f) == f = [n \in 1 .. N |-> IF n = 1 THEN o[1] ELSE MergeResults(f[n - 1], o[n])]
           closed == [n \in 1 .. N |-> IF \E k \in 1 .. n : o[k] = "fail" THEN "fail"
                       ELSE IF \A k \in 1 .. n : o[k] = "not-applicable" THEN "not-applicable" ELSE "pass"]
           f == CHOOSE g : Is(g)
<1>0. N \in Nat \ {0} /\ \A n \in 1 .. N : o[n] \in Outcomes
  OBVIOUS
<1>4. MergedResult(o) = f[N]
  BY DEF MergedResult
<1> HIDE DEF N
<1>1. Is(closed)
  <2>1. ASSUME NEW n \in 1 .. N
        PROVE closed[n] = IF n = 1 THEN o[1] ELSE MergeResults(closed[n - 1], o[n])
    BY <1>0 DEF MergeResults, Outcomes
  <2> QED BY <2>1
<1>2. Is(f)
  BY <1>1
<1> HIDE DEF f, closed
<1>3. ASSUME NEW n \in 1 .. N PROVE f[n] = closed[n]
  <2> DEFINE bad == {m \in 1 .. N : f[m] # closed[m]}
  <2>1. SUFFICES ASSUME bad # {} PROVE FALSE
    OBVIOUS
  <2>a. bad \subseteq Nat
    BY <1>0
  <2>b. \E m \in bad : \A k \in bad : m <= k
    <3> HIDE DEF bad
    <3> QED BY <2>1, <2>a, LeastNumber
  <2>2. PICK m \in bad : \A k \in bad : m <= k
    BY <2>b
  <2>3. m # 1
    BY <2>2, <1>1, <1>2
  <2>4. f[m - 1] = closed[m - 1]
    BY <2>2, <2>3, <1>0
  <2> QED BY <2>2, <2>3, <2>4, <1>1, <1>2, <1>0
<1>5. f[N] = closed[N]
  BY <1>3, <1>0
<1>6. closed[N] = IF \E k \in 1 .. N : o[k] = "fail" THEN "fail"
                  ELSE IF \A k \in 1 .. N : o[k] = "not-applicable" THEN "not-applicable" ELSE "pass"
  BY <1>0 DEF closed
<1> QED BY <1>4, <1>5, <1>6 DEF N

\* Division by a positive number leaves less than that number.
LEMMA Division ==
  ASSUME NEW n \in Nat, NEW d \in Nat \ {0}
  PROVE  n \div d \in Nat /\ d * (n \div d) <= n /\ n < d * (n \div d) + d
BY SMT

\* Batches that together are the rows: none is empty, and each stands at an
\* offset of its own.
IsCut(batches, rows, off) ==
  /\ batches # << >>
  /\ \A b \in DOMAIN batches : batches[b] # << >> /\ off[b] \in Nat
  /\ \A b \in DOMAIN batches : \A j \in DOMAIN batches[b] :
       off[b] + j \in DOMAIN rows /\ batches[b][j] = rows[off[b] + j]
  /\ \A i \in DOMAIN rows : \E b \in DOMAIN batches : \E j \in DOMAIN batches[b] : i = off[b] + j

\* load_batches cuts the rows: every row is in a batch, at its offset.
LEMMA BatchesCutRows ==
  ASSUME NEW R, NEW rows \in Seq(R), rows # << >>
  PROVE  /\ BatchesCut(rows) \in Seq(Seq(R))
         /\ IsCut(BatchesCut(rows), rows, [b \in DOMAIN BatchesCut(rows) |-> (b - 1) * QualityBatch])
<1> DEFINE Q == QualityBatch  L == Len(rows)  K == (L + Q - 1) \div Q
           batches == BatchesCut(rows)
           upto(b) == IF b * Q < L THEN b * Q ELSE L
<1>1. Q \in Nat \ {0} /\ L \in Nat \ {0} /\ DOMAIN rows = 1 .. L
  BY QualityAssumption
<1>2. K \in Nat /\ Q * K <= L + Q - 1 /\ L + Q - 1 < Q * K + Q
  <2>1. L + Q - 1 \in Nat
    BY <1>1
  <2> HIDE DEF Q, L
  <2> QED BY <2>1, <1>1, Division
<1>3. batches = [b \in 1 .. K |-> SubSeq(rows, (b - 1) * Q + 1, upto(b))]
  BY DEF BatchesCut
<1> HIDE DEF Q, L, K, batches
<1>4. K >= 1
  BY <1>1, <1>2
<1>5. ASSUME NEW b \in 1 .. K
      PROVE  (b - 1) * Q \in Nat /\ (b - 1) * Q + 1 <= upto(b) /\ upto(b) <= L /\ upto(b) \in Nat
  <2>1. (b - 1) * Q \in Nat /\ b * Q = (b - 1) * Q + Q
    BY <1>1, <1>2
  <2>2. b * Q <= K * Q /\ K * Q = Q * K
    BY <1>1, <1>2
  <2> QED BY <2>1, <2>2, <1>1, <1>2
<1>6. ASSUME NEW b \in 1 .. K
      PROVE  /\ batches[b] \in Seq(R) /\ batches[b] # << >>
             /\ DOMAIN batches[b] = 1 .. (upto(b) - (b - 1) * Q)
             /\ \A j \in DOMAIN batches[b] : (b - 1) * Q + j \in DOMAIN rows /\ batches[b][j] = rows[(b - 1) * Q + j]
  <2> DEFINE m == (b - 1) * Q + 1  n == upto(b)
  <2>1. m \in Nat /\ n \in Nat /\ 1 <= m /\ m <= n /\ n <= L /\ m - 1 = (b - 1) * Q
    BY <1>5
  <2>2. batches[b] = SubSeq(rows, m, n)
    BY <1>3
  <2> HIDE DEF m, n
  <2>3. Len(SubSeq(rows, m, n)) = n - m + 1 /\ SubSeq(rows, m, n) \in Seq(R)
    BY <2>1, <1>1 DEF L
  <2>4. \A j \in 1 .. (n - m + 1) : SubSeq(rows, m, n)[j] = rows[m + j - 1] /\ m + j - 1 \in 1 .. L
    BY <2>1, <1>1 DEF L
  <2>5. n = upto(b)
    BY DEF n
  <2> HIDE DEF upto
  <2>6. DOMAIN SubSeq(rows, m, n) = 1 .. (n - m + 1) /\ n - m + 1 = n - (b - 1) * Q
    BY <2>3, <2>1
  <2>7. \A j \in 1 .. (n - m + 1) : m + j - 1 = (b - 1) * Q + j
    BY <2>1
  <2>8. batches[b] \in Seq(R) /\ batches[b] # << >> /\ DOMAIN batches[b] = 1 .. (n - (b - 1) * Q)
    <3>1. batches[b] \in Seq(R) /\ DOMAIN batches[b] = 1 .. (n - (b - 1) * Q)
      BY <2>2, <2>3, <2>6
    <3>2. 1 \in DOMAIN batches[b]
      BY <2>1, <2>2, <2>6
    <3>3. batches[b] # << >>
      BY <3>2
    <3> QED BY <3>1, <3>3
  <2>9. ASSUME NEW j \in DOMAIN batches[b]
        PROVE  (b - 1) * Q + j \in DOMAIN rows /\ batches[b][j] = rows[(b - 1) * Q + j]
    <3>1. j \in 1 .. (n - m + 1)
      BY <2>2, <2>6
    <3> QED BY <3>1, <2>2, <2>4, <2>7, <1>1
  <2> QED BY <2>5, <2>8, <2>9
<1>7. batches \in Seq(Seq(R)) /\ DOMAIN batches = 1 .. K /\ batches # << >>
  <2>1. batches = [b \in 1 .. K |-> batches[b]]
    BY <1>3
  <2>2. batches \in Seq(Seq(R))
    <3> DEFINE T == Seq(R)
    <3>1. \A b \in 1 .. K : batches[b] \in T
      BY <1>6
    <3> HIDE DEF T
    <3>2. batches \in [1 .. K -> T]
      BY <3>1, <2>1
    <3>3. batches \in Seq(T)
      BY <3>2, <1>2
    <3> QED BY <3>3 DEF T
  <2>3. DOMAIN batches = 1 .. K
    BY <2>1
  <2>4. batches # << >>
    <3>1. 1 \in DOMAIN batches
      BY <2>3, <1>2, <1>4
    <3> QED BY <3>1
  <2> QED BY <2>2, <2>3, <2>4
<1>8. ASSUME NEW i \in DOMAIN rows
      PROVE  \E b \in DOMAIN batches : \E j \in DOMAIN batches[b] : i = (b - 1) * Q + j
  <2> DEFINE q == (i - 1) \div Q
  <2>1. i \in Nat /\ i - 1 \in Nat /\ i <= L
    BY <1>1
  <2>2. q \in Nat /\ Q * q <= i - 1 /\ i - 1 < Q * q + Q
    BY <2>1, <1>1, Division
  <2> HIDE DEF q
  <2>3. q + 1 \in 1 .. K
    <3>1. Q * q < Q * K
      BY <2>1, <2>2, <1>1, <1>2
    <3> QED BY <3>1, <2>2, <1>1, <1>2
  <2>4. ((q + 1) - 1) * Q = Q * q /\ (q + 1) * Q = Q * q + Q
    BY <2>2, <1>1
  <2>5. i - Q * q \in DOMAIN batches[q + 1]
    <3>1. DOMAIN batches[q + 1] = 1 .. (upto(q + 1) - Q * q)
      BY <2>3, <2>4, <1>6
    <3>2. i <= upto(q + 1)
      BY <2>1, <2>2, <2>4, <1>1
    <3>3. upto(q + 1) \in Nat /\ Q * q \in Nat
      BY <2>2, <2>3, <1>1, <1>5
    <3> HIDE DEF upto
    <3> QED BY <3>1, <3>2, <3>3, <2>1, <2>2
  <2>6. q + 1 \in DOMAIN batches /\ i = ((q + 1) - 1) * Q + (i - Q * q)
    BY <2>1, <2>2, <2>3, <2>4, <1>1, <1>7
  <2> QED BY <2>5, <2>6
<1>9. DOMAIN BatchesCut(rows) = 1 .. K /\ BatchesCut(rows) = batches
  BY <1>7 DEF batches
<1> QED BY <1>5, <1>6, <1>7, <1>8, <1>9 DEF IsCut, Q

-----------------------------------------------------------------------------
(***************************************************************************)
(* What the rules of a contract are                                        *)
(***************************************************************************)
RuleOf(kind, column) == [kind |-> kind, column |-> column]
BatchKinds == {"type", "nullability", "max_length", "decimal", "batch_unique", "unit", "accepted_values"}
HasUnit(of) == of.type \in {"decimal", "float"} /\ Units \cap DOMAIN ContractColumns # {}

\* A rule is there only if its column declares it.
LEMMA RulesAre ==
  /\ \A rule \in BatchRules \cup SnapshotRules :
       rule.column \in DOMAIN ContractColumns /\ rule = RuleOf(rule.kind, rule.column)
  /\ \A rule \in BatchRules : rule.kind \in BatchKinds
  /\ \A rule \in SnapshotRules : rule.kind \in {"unique", "relationship"}
  /\ \A rule \in BatchRules \cup SnapshotRules :
       LET of == ContractColumns[rule.column]
       IN  /\ rule.kind = "nullability" => ~of.nullable
           /\ rule.kind = "decimal" => of.type = "decimal"
           /\ rule.kind \in {"batch_unique", "unique"} => of.unique
           /\ rule.kind = "unit" => HasUnit(of)
           /\ rule.kind = "relationship" => of.references # "none"
           /\ rule.kind = "accepted_values" => of.accepted # {}
BY DEF BatchRules, SnapshotRules, Rules, ColumnRule, UnitRule, RelationshipRule, AcceptedRule, RuleOf, BatchKinds, HasUnit

\* What a column declares is compiled to a rule.
LEMMA ColumnHasRules ==
  ASSUME NEW c \in DOMAIN ContractColumns
  PROVE  LET of == ContractColumns[c]
         IN  /\ RuleOf("type", c) \in BatchRules
             /\ ~of.nullable => RuleOf("nullability", c) \in BatchRules
             /\ of.longest # {} => RuleOf("max_length", c) \in BatchRules
             /\ of.unique => RuleOf("unique", c) \in SnapshotRules
             /\ HasUnit(of) => RuleOf("unit", c) \in BatchRules
             /\ of.references # "none" => RuleOf("relationship", c) \in SnapshotRules
             /\ of.accepted # {} => RuleOf("accepted_values", c) \in BatchRules
BY DEF BatchRules, SnapshotRules, Rules, ColumnRule, UnitRule, RelationshipRule, AcceptedRule, RuleOf, HasUnit

\* The unit of a number is a column of the contract.
LEMMA UnitIsColumn ==
  ASSUME Units \cap DOMAIN ContractColumns # {}
  PROVE  UnitColumn \in DOMAIN ContractColumns
BY DEF Units, UnitColumn

-----------------------------------------------------------------------------
(***************************************************************************)
(* A rule over all the batches                                             *)
(***************************************************************************)
\* What a rule says of the columns of a batch.
ColumnBreaks(rule, dtypes) ==
  rule.column \notin DOMAIN dtypes \/ (rule.kind \in {"type", "decimal"} /\ ~HasDtype(rule.column, dtypes))

\* Merged over the batches, a rule fails if the column or a row of some batch
\* breaks it, and passes else.
LEMMA BatchResult ==
  ASSUME NEW R, NEW batches \in Seq(Seq(R)), NEW rows, NEW off, IsCut(batches, rows, off), NEW dtypes,
         NEW rule \in BatchRules
  PROVE  /\ BatchChecks(batches, dtypes)[rule] \in {"pass", "fail"}
         /\ BatchChecks(batches, dtypes)[rule] = "fail" <=>
              \/ ColumnBreaks(rule, dtypes)
              \/ \E b \in DOMAIN batches : \E i \in DOMAIN batches[b] : RowBreaks(rule, i, batches[b])
<1> DEFINE o == [b \in 1 .. Len(batches) |-> CheckBatch(rule, batches[b], dtypes)]
<1>1. BatchChecks(batches, dtypes)[rule] = MergedResult(o)
  BY DEF BatchChecks, IsCut
<1>2. \A b \in DOMAIN batches : batches[b] # << >>
  BY DEF IsCut
<1>3. DOMAIN batches = 1 .. Len(batches) /\ Len(batches) \in Nat /\ Len(batches) >= 1
  BY DEF IsCut
<1>4. \A b \in 1 .. Len(batches) :
        /\ o[b] \in {"pass", "fail"}
        /\ o[b] = "fail" <=> \/ ColumnBreaks(rule, dtypes)
                             \/ \E i \in DOMAIN batches[b] : RowBreaks(rule, i, batches[b])
  BY <1>2, <1>3 DEF CheckBatch, ColumnBreaks
<1>5. o \in Seq(Outcomes) /\ o # << >> /\ Len(o) = Len(batches)
  <2> HIDE DEF o
  <2>1. o = [b \in 1 .. Len(batches) |-> o[b]] /\ \A b \in 1 .. Len(batches) : o[b] \in Outcomes
    BY <1>4 DEF o, Outcomes
  <2>2. o \in [1 .. Len(batches) -> Outcomes]
    BY <2>1
  <2>3. o \in Seq(Outcomes) /\ Len(o) = Len(batches)
    <3> DEFINE N == Len(batches)
    <3>1. N \in Nat /\ o \in [1 .. N -> Outcomes]
      BY <2>2, <1>3
    <3> HIDE DEF N
    <3>2. o \in Seq(Outcomes) /\ Len(o) = N
      BY <3>1
    <3> QED BY <3>2 DEF N
  <2>4. 1 \in DOMAIN o
    BY <2>1, <1>3
  <2>5. o # << >>
    BY <2>4
  <2> QED BY <2>3, <2>5
<1> HIDE DEF o
<1>6. MergedResult(o) = IF \E k \in 1 .. Len(o) : o[k] = "fail" THEN "fail"
                        ELSE IF \A k \in 1 .. Len(o) : o[k] = "not-applicable" THEN "not-applicable" ELSE "pass"
  BY <1>5, MergedIs
<1>7. MergedResult(o) = IF \E k \in 1 .. Len(batches) : o[k] = "fail" THEN "fail" ELSE "pass"
  <2>1. o[1] # "not-applicable" /\ 1 \in 1 .. Len(batches)
    BY <1>3, <1>4
  <2> QED BY <1>5, <1>6, <2>1
<1>8. /\ MergedResult(o) \in {"pass", "fail"}
      /\ MergedResult(o) = "fail" <=> \E b \in 1 .. Len(batches) : o[b] = "fail"
  BY <1>7
<1>9. (\E b \in 1 .. Len(batches) : o[b] = "fail") <=>
        \/ ColumnBreaks(rule, dtypes)
        \/ \E b \in DOMAIN batches : \E i \in DOMAIN batches[b] : RowBreaks(rule, i, batches[b])
  <2>1. CASE ColumnBreaks(rule, dtypes)
    <3>1. 1 \in 1 .. Len(batches)
      BY <1>3
    <3> QED BY <2>1, <3>1, <1>4
  <2>2. CASE ~ColumnBreaks(rule, dtypes)
    <3>1. \A b \in 1 .. Len(batches) : o[b] = "fail" <=> \E i \in DOMAIN batches[b] : RowBreaks(rule, i, batches[b])
      BY <2>2, <1>4
    <3> QED BY <2>2, <3>1, <1>3
  <2> QED BY <2>1, <2>2
<1> QED BY <1>1, <1>8, <1>9

\* A rule of one row looks at the same row wherever it is cut to; a duplicate
\* in a batch is one in the rows.
LEMMA RowIsTheSame ==
  ASSUME NEW batches, NEW rows, NEW off, IsCut(batches, rows, off),
         NEW rule \in BatchRules, NEW b \in DOMAIN batches, NEW j \in DOMAIN batches[b]
  PROVE  /\ off[b] + j \in DOMAIN rows
         /\ rule.kind # "batch_unique" => (RowBreaks(rule, j, batches[b]) <=> RowBreaks(rule, off[b] + j, rows))
<1>1. off[b] + j \in DOMAIN rows /\ batches[b][j] = rows[off[b] + j]
  BY DEF IsCut
<1> QED BY <1>1 DEF RowBreaks

\* Rows that repeat a value in a batch repeat it in the whole.
LEMMA DuplicateIsOne ==
  ASSUME NEW R, NEW batches \in Seq(Seq(R)), NEW rows, NEW off, IsCut(batches, rows, off), NEW c,
         NEW b \in DOMAIN batches, NEW j \in DOMAIN batches[b], Duplicated(j, batches[b], c)
  PROVE  \E i \in DOMAIN rows : Duplicated(i, rows, c)
<1>1. PICK k \in DOMAIN batches[b] \ {j} : batches[b][k][c] = batches[b][j][c]
  BY DEF Duplicated
<1>2. off[b] \in Nat /\ off[b] + j \in DOMAIN rows /\ off[b] + k \in DOMAIN rows
      /\ batches[b][j] = rows[off[b] + j] /\ batches[b][k] = rows[off[b] + k]
  BY <1>1 DEF IsCut
<1>3. j \in Nat /\ k \in Nat
  <2>1. batches[b] \in Seq(R)
    OBVIOUS
  <2> QED BY <2>1, <1>1
<1>4. off[b] + k # off[b] + j
  BY <1>1, <1>2, <1>3
<1>5. Duplicated(off[b] + j, rows, c)
  BY <1>1, <1>2, <1>4 DEF Duplicated
<1> QED BY <1>2, <1>5

-----------------------------------------------------------------------------
(***************************************************************************)
(* All rules, and the contract                                             *)
(***************************************************************************)
LEMMA SomeCut ==
  ASSUME NEW R, NEW rows \in Seq(R), rows # << >>, NEW source \in {"parquet", "frame", "json", "arrow"}
  PROVE  /\ QualityBatches(rows, source) \in Seq(Seq(R))
         /\ \E off : IsCut(QualityBatches(rows, source), rows, off)
<1>1. CASE source \in {"parquet", "frame"}
  <2>1. QualityBatches(rows, source) = BatchesCut(rows)
    BY <1>1 DEF QualityBatches
  <2> QED BY <2>1, BatchesCutRows
<1>2. CASE source \in {"json", "arrow"}
  <2>1. QualityBatches(rows, source) = <<rows>>
    BY <1>2 DEF QualityBatches
  <2>2. <<rows>> \in Seq(Seq(R)) /\ DOMAIN <<rows>> = {1} /\ <<rows>>[1] = rows /\ <<rows>> # << >>
    OBVIOUS
  <2>3. \A j \in DOMAIN rows : 0 + j = j /\ j \in Nat
    OBVIOUS
  <2>4. IsCut(<<rows>>, rows, [b \in {1} |-> 0])
    <3> DEFINE whole == <<rows>>  off == [b \in {1} |-> 0]
    <3>1. off[1] = 0
      OBVIOUS
    <3> HIDE DEF whole, off
    <3>2. DOMAIN whole = {1} /\ whole[1] = rows /\ whole # << >>
      BY <2>2 DEF whole
    <3>3. IsCut(whole, rows, off)
      BY <3>1, <3>2, <2>3 DEF IsCut
    <3> QED BY <3>3 DEF whole, off
  <2> QED BY <2>1, <2>2, <2>4
<1> QED BY <1>1, <1>2

\* When a rule of the snapshot passes.
LEMMA SnapshotResult ==
  ASSUME NEW R, NEW rows \in Seq(R), rows # << >>, NEW with \in QualityWays, Len(rows) >= with.minRows,
         NEW rule \in SnapshotRules
  PROVE  LET found == SnapshotChecks(rows, with)[rule]
         IN  /\ found \in {"pass", "fail", "not-run"}
             /\ found = "pass" <=>
                  /\ with.execute
                  /\ rule.kind = "unique" => ~\E i \in DOMAIN rows : Duplicated(i, rows, rule.column)
                  /\ rule.kind = "relationship" =>
                       LET parent == ContractColumns[rule.column].references
                       IN  /\ parent \in DOMAIN with.related
                           /\ \A i \in DOMAIN rows : rows[i][rule.column] \in with.related[parent] \cup {Null}
<1>1. rule.kind \in {"unique", "relationship"}
  BY RulesAre
<1>2. ~(Len(rows) < with.minRows) /\ with.execute \in BOOLEAN
  BY DEF QualityWays
<1>3. CASE rule.kind = "unique"
  BY <1>2, <1>3 DEF SnapshotChecks, CheckUnique
<1>4. CASE rule.kind = "relationship"
  BY <1>2, <1>4 DEF SnapshotChecks, CheckRelationship
<1> QED BY <1>1, <1>3, <1>4

\* Every rule passes.
AllPass(rows, with) ==
  /\ \A rule \in BatchRules : BatchChecks(QualityBatches(rows, with.source), with.dtypes)[rule] = "pass"
  /\ \A rule \in SnapshotRules : SnapshotChecks(rows, with)[rule] = "pass"

\* If every rule passes, all of them were looked at and the dataset is valid.
LEMMA PassingIsValid ==
  ASSUME NEW R, NEW rows \in Seq(R), rows # << >>, NEW with \in QualityWays, Len(rows) >= with.minRows,
         AllPass(rows, with)
  PROVE  Looked(with) /\ Valid(rows, with.dtypes, with.related)
<1> DEFINE batches == QualityBatches(rows, with.source)
<1>0. with.source \in {"parquet", "frame", "json", "arrow"}
  BY DEF QualityWays
<1>1. batches \in Seq(Seq(R)) /\ \E off : IsCut(batches, rows, off)
  BY <1>0, SomeCut
<1> HIDE DEF batches
<1>2. PICK off : IsCut(batches, rows, off)
  BY <1>1
<1>3. ASSUME NEW rule \in BatchRules
      PROVE  /\ ~ColumnBreaks(rule, with.dtypes)
             /\ \A b \in DOMAIN batches : \A j \in DOMAIN batches[b] : ~RowBreaks(rule, j, batches[b])
  <2>1. BatchChecks(batches, with.dtypes)[rule] = "pass"
    BY DEF AllPass, batches
  <2> QED BY <2>1, <1>1, <1>2, BatchResult
<1>4. ASSUME NEW rule \in BatchRules, rule.kind # "batch_unique", NEW i \in DOMAIN rows PROVE ~RowBreaks(rule, i, rows)
  <2>1. PICK b \in DOMAIN batches : \E j \in DOMAIN batches[b] : i = off[b] + j
    BY <1>2 DEF IsCut
  <2>2. PICK j \in DOMAIN batches[b] : i = off[b] + j
    BY <2>1
  <2> QED BY <2>2, <1>2, <1>3, <1>4, RowIsTheSame
<1>5. ASSUME NEW rule \in SnapshotRules
      PROVE  /\ with.execute
             /\ rule.kind = "unique" => ~\E i \in DOMAIN rows : Duplicated(i, rows, rule.column)
             /\ rule.kind = "relationship" =>
                  /\ ContractColumns[rule.column].references \in DOMAIN with.related
                  /\ \A i \in DOMAIN rows :
                       rows[i][rule.column] \in with.related[ContractColumns[rule.column].references] \cup {Null}
  BY SnapshotResult DEF AllPass
<1>6. ASSUME NEW c \in DOMAIN ContractColumns PROVE c \in DOMAIN with.dtypes /\ HasDtype(c, with.dtypes)
  BY <1>3, ColumnHasRules DEF ColumnBreaks, RuleOf
<1>7. ASSUME NEW c \in DOMAIN ContractColumns, ContractColumns[c].references # "none"
      PROVE  /\ ContractColumns[c].references \in DOMAIN with.related
             /\ \A i \in DOMAIN rows : rows[i][c] \in with.related[ContractColumns[c].references] \cup {Null}
  <2>1. RuleOf("relationship", c) \in SnapshotRules
    BY <1>7, ColumnHasRules
  <2> QED BY <2>1, <1>5 DEF RuleOf
<1>8. Looked(with)
  <2>1. ASSUME SnapshotRules # {} PROVE with.execute
    BY <2>1, <1>5
  <2> QED BY <2>1, <1>7 DEF Looked
<1>9. ASSUME NEW c \in DOMAIN ContractColumns, NEW i \in DOMAIN rows
      PROVE  LET of == ContractColumns[c]
             IN  /\ ValidValue(c, rows[i][c], with.related)
                 /\ HasUnit(of) /\ rows[i][c] # Null => rows[i][UnitColumn] # Null
                 /\ of.unique => \A j \in DOMAIN rows \ {i} : rows[j][c] # rows[i][c]
  <2> DEFINE of == ContractColumns[c]  value == rows[i][c]
  <2>1. ASSUME value = Null PROVE of.nullable
    <3>1. SUFFICES ASSUME ~of.nullable PROVE FALSE
      BY QualityAssumption
    <3>2. RuleOf("nullability", c) \in BatchRules /\ ~RowBreaks(RuleOf("nullability", c), i, rows)
      BY <3>1, <1>4, ColumnHasRules DEF RuleOf
    <3> QED BY <2>1, <3>2 DEF RowBreaks, RuleOf
  <2>2. ASSUME NEW most \in of.longest, Longer(value, most) PROVE FALSE
    <3>1. RuleOf("max_length", c) \in BatchRules /\ ~RowBreaks(RuleOf("max_length", c), i, rows)
      BY <1>4, ColumnHasRules DEF RuleOf
    <3> QED BY <2>2, <3>1 DEF RowBreaks, RuleOf
  <2>3. ASSUME of.accepted # {}, value # Null PROVE value \in of.accepted
    <3>1. RuleOf("accepted_values", c) \in BatchRules /\ ~RowBreaks(RuleOf("accepted_values", c), i, rows)
      BY <2>3, <1>4, ColumnHasRules DEF RuleOf
    <3> QED BY <2>3, <3>1 DEF RowBreaks, RuleOf
  <2>4. ASSUME HasUnit(of), value # Null PROVE rows[i][UnitColumn] # Null
    <3>1. RuleOf("unit", c) \in BatchRules /\ ~RowBreaks(RuleOf("unit", c), i, rows)
      BY <2>4, <1>4, ColumnHasRules DEF RuleOf
    <3> QED BY <2>4, <3>1 DEF RowBreaks, RuleOf
  <2>5. ASSUME of.unique, NEW j \in DOMAIN rows \ {i} PROVE rows[j][c] # rows[i][c]
    <3>1. RuleOf("unique", c) \in SnapshotRules
      BY <2>5, ColumnHasRules
    <3>2. ~Duplicated(i, rows, c)
      BY <3>1, <1>5 DEF RuleOf
    <3> QED BY <3>2 DEF Duplicated
  <2>6. ValidValue(c, value, with.related)
    BY <2>1, <2>2, <2>3, <1>7 DEF ValidValue
  <2> QED BY <2>4, <2>5, <2>6
<1> QED BY <1>6, <1>8, <1>9 DEF Valid, HasUnit

\* A valid dataset passes every rule, however it is cut.
LEMMA ValidPasses ==
  ASSUME NEW R, NEW rows \in Seq(R), rows # << >>, NEW with \in QualityWays, Len(rows) >= with.minRows,
         Looked(with), Valid(rows, with.dtypes, with.related)
  PROVE  AllPass(rows, with)
<1> DEFINE batches == QualityBatches(rows, with.source)
<1>0. with.source \in {"parquet", "frame", "json", "arrow"}
  BY DEF QualityWays
<1>1. batches \in Seq(Seq(R)) /\ \E off : IsCut(batches, rows, off)
  BY <1>0, SomeCut
<1> HIDE DEF batches
<1>2. PICK off : IsCut(batches, rows, off)
  BY <1>1
<1>3. ASSUME NEW c \in DOMAIN ContractColumns
      PROVE  c \in DOMAIN with.dtypes /\ HasDtype(c, with.dtypes)
  BY DEF Valid
<1>4. ASSUME NEW c \in DOMAIN ContractColumns, NEW i \in DOMAIN rows
      PROVE  LET of == ContractColumns[c]
             IN  /\ ValidValue(c, rows[i][c], with.related)
                 /\ HasUnit(of) /\ rows[i][c] # Null => rows[i][UnitColumn] # Null
                 /\ of.unique => ~Duplicated(i, rows, c)
  BY DEF Valid, HasUnit, Duplicated
<1>5. ASSUME NEW rule \in BatchRules, NEW i \in DOMAIN rows, rule.kind # "batch_unique" PROVE ~RowBreaks(rule, i, rows)
  <2>1. rule.column \in DOMAIN ContractColumns
    BY RulesAre
  <2>2. rule.kind = "nullability" => rows[i][rule.column] # Null
    BY <2>1, <1>4, RulesAre DEF ValidValue
  <2>3. rule.kind = "max_length" => ~\E most \in ContractColumns[rule.column].longest : Longer(rows[i][rule.column], most)
    BY <2>1, <1>4 DEF ValidValue, Longer
  <2>4. rule.kind = "accepted_values" => rows[i][rule.column] \in ContractColumns[rule.column].accepted \cup {Null}
    BY <2>1, <1>4, RulesAre DEF ValidValue
  <2>5. rule.kind = "unit" => ~(rows[i][rule.column] # Null /\ rows[i][UnitColumn] = Null)
    BY <2>1, <1>4, RulesAre
  <2> QED BY <1>5, <2>2, <2>3, <2>4, <2>5 DEF RowBreaks
<1>6. ASSUME NEW rule \in BatchRules PROVE BatchChecks(batches, with.dtypes)[rule] = "pass"
  <2>1. rule.column \in DOMAIN ContractColumns
    BY RulesAre
  <2>2. ~ColumnBreaks(rule, with.dtypes)
    BY <2>1, <1>3 DEF ColumnBreaks
  <2>3. ASSUME NEW b \in DOMAIN batches, NEW j \in DOMAIN batches[b], RowBreaks(rule, j, batches[b]) PROVE FALSE
    <3>1. CASE rule.kind = "batch_unique"
      <4>1. Duplicated(j, batches[b], rule.column)
        BY <2>3, <3>1 DEF RowBreaks
      <4>2. \E i \in DOMAIN rows : Duplicated(i, rows, rule.column)
        BY <4>1, <1>1, <1>2, DuplicateIsOne
      <4>3. ContractColumns[rule.column].unique
        BY <3>1, RulesAre
      <4> QED BY <4>2, <4>3, <2>1, <1>4
    <3>2. CASE rule.kind # "batch_unique"
      <4>1. off[b] + j \in DOMAIN rows /\ RowBreaks(rule, off[b] + j, rows)
        BY <2>3, <3>2, <1>2, RowIsTheSame
      <4> QED BY <4>1, <3>2, <1>5
    <3> QED BY <3>1, <3>2
  <2> QED BY <2>2, <2>3, <1>1, <1>2, BatchResult
<1>7. ASSUME NEW rule \in SnapshotRules PROVE SnapshotChecks(rows, with)[rule] = "pass"
  <2>1. rule.column \in DOMAIN ContractColumns /\ with.execute
    BY RulesAre DEF Looked
  <2>2. rule.kind = "unique" => ~\E i \in DOMAIN rows : Duplicated(i, rows, rule.column)
    BY <2>1, <1>4, RulesAre
  <2>3. ASSUME rule.kind = "relationship"
        PROVE  LET parent == ContractColumns[rule.column].references
               IN  /\ parent \in DOMAIN with.related
                   /\ \A i \in DOMAIN rows : rows[i][rule.column] \in with.related[parent] \cup {Null}
    <3>1. ContractColumns[rule.column].references # "none"
      BY <2>3, RulesAre
    <3>2. ContractColumns[rule.column].references \in DOMAIN with.related
      BY <3>1, <2>1 DEF Looked
    <3> QED BY <3>1, <3>2, <2>1, <1>4 DEF ValidValue
  <2> QED BY <2>1, <2>2, <2>3, SnapshotResult
<1> QED BY <1>6, <1>7 DEF AllPass, batches

\* build_result publishes if every rule and everything attached passes.
LEMMA BuiltIsPassing ==
  ASSUME NEW R, NEW rows \in Seq(R), rows # << >>, NEW with \in QualityWays, Len(rows) >= with.minRows
  PROVE  BuildResult(ChecksRun(BatchChecks(QualityBatches(rows, with.source), with.dtypes), SnapshotChecks(rows, with)),
                     {Attached(findings) : findings \in with.attached}).publishable
           <=> AllPass(rows, with) /\ with.attached \subseteq {"none"}
<1> DEFINE batches == QualityBatches(rows, with.source)
           snapshot == SnapshotChecks(rows, with)
           batch == BatchChecks(batches, with.dtypes)
           checks == ChecksRun(batch, snapshot)
           attached == {Attached(findings) : findings \in with.attached}
<1>0. with.source \in {"parquet", "frame", "json", "arrow"} /\ with.attached \subseteq {"none", "some", "missing"}
  BY DEF QualityWays
<1>1. batches \in Seq(Seq(R)) /\ \E off : IsCut(batches, rows, off)
  BY <1>0, SomeCut
<1>2. \A rule \in BatchRules : batch[rule] \in {"pass", "fail"}
  <2> HIDE DEF batches
  <2> QED BY <1>1, BatchResult DEF batch
<1>3. \A rule \in SnapshotRules : snapshot[rule] \in {"pass", "fail", "not-run"}
  BY SnapshotResult
<1>4. DOMAIN snapshot = SnapshotRules
  BY DEF SnapshotChecks
<1>5. DOMAIN batch = BatchRules
  <2>1. batches # << >>
    BY <1>1 DEF IsCut
  <2> QED BY <2>1 DEF BatchChecks
<1>6. SnapshotRules \cap BatchRules = {}
  BY RulesAre DEF BatchKinds
<1> HIDE DEF snapshot, batch
<1>7. /\ DOMAIN checks = CatalogRules
      /\ \A rule \in SnapshotRules : checks[rule] = snapshot[rule]
      /\ \A rule \in BatchRules : checks[rule] = batch[rule]
  BY <1>4, <1>5, <1>6 DEF ChecksRun, CatalogRules
<1>8. \A rule \in CatalogRules : checks[rule] \in {"pass", "fail", "not-run"}
  BY <1>2, <1>3, <1>7 DEF CatalogRules
<1>9. AllPass(rows, with) <=> \A rule \in CatalogRules : checks[rule] = "pass"
  BY <1>7 DEF AllPass, CatalogRules, batch, snapshot
<1>10. /\ attached \subseteq {"pass", "fail", "not-run"}
       /\ attached \subseteq {"pass"} <=> with.attached \subseteq {"none"}
  <2>1. Attached("none") = "pass" /\ Attached("some") = "fail" /\ Attached("missing") = "not-run"
    BY DEF Attached
  <2>2. \A f \in with.attached : f = "none" \/ f = "some" \/ f = "missing"
    BY <1>0
  <2>3. \A f \in with.attached : Attached(f) \in {"pass", "fail", "not-run"} /\ (Attached(f) = "pass" <=> f = "none")
    BY <2>1, <2>2
  <2> QED BY <2>3
<1> HIDE DEF checks, attached
<1>11. BuildResult(checks, attached).publishable <=> (\A rule \in CatalogRules : checks[rule] = "pass") /\ attached \subseteq {"pass"}
  <2> DEFINE missing == {rule \in CatalogRules : checks[rule] = "not-run"}
             results == {checks[rule] : rule \in CatalogRules} \cup attached
             status == OverallStatus(results, missing)
  <2>1. BuildResult(checks, attached).publishable <=> missing = {} /\ status \in {"pass", "not-applicable"}
    BY <1>7, Zenon DEF BuildResult
  <2>2. results \subseteq {"pass", "fail", "not-run"}
    BY <1>8, <1>10
  <2>3. results \subseteq {"pass"} <=> (\A rule \in CatalogRules : checks[rule] = "pass") /\ attached \subseteq {"pass"}
    OBVIOUS
  <2>4. results \subseteq {"pass"} => missing = {}
    OBVIOUS
  <2> HIDE DEF results, missing
  <2>5. missing = {} /\ status \in {"pass", "not-applicable"} <=> results \subseteq {"pass"}
    BY <2>2, <2>4 DEF OverallStatus
  <2> QED BY <2>1, <2>3, <2>5
<1> QED BY <1>9, <1>10, <1>11 DEF checks, snapshot, batch, attached

\* A dataset is published exactly if it was whole and every rule looked at.
LEMMA PublishedExactly ==
  ASSUME NEW R, NEW rows \in Seq(R), rows # << >>, NEW with \in QualityWays
  PROVE  ValidateDataset(rows, with).publishable <=>
           /\ ~with.lazy /\ (with.source = "json" => Len(rows) <= QualityBatch)
           /\ Len(rows) >= with.minRows /\ with.attached \subseteq {"none"}
           /\ Looked(with) /\ Valid(rows, with.dtypes, with.related)
<1>0. Len(rows) \in Nat /\ with.minRows \in Nat /\ with.lazy \in BOOLEAN /\ QualityBatch \in Nat
  BY QualityAssumption DEF QualityWays
<1>1. ASSUME Valid(rows, with.dtypes, with.related), CheckRaises(rows, with)
      PROVE  with.source = "json" /\ Len(rows) > QualityBatch
  <2>1. \A c \in DOMAIN ContractColumns : c \in DOMAIN with.dtypes
    BY <1>1 DEF Valid
  <2>2. \A rule \in BatchRules : rule.kind = "unit" => UnitColumn \in DOMAIN with.dtypes
    BY <2>1, RulesAre, UnitIsColumn DEF HasUnit
  <2>3. \A rule \in SnapshotRules : rule.column \in DOMAIN with.dtypes
    BY <2>1, RulesAre
  <2> QED BY <1>1, <2>2, <2>3 DEF CheckRaises
<1>2. CASE with.lazy
  BY <1>2 DEF ValidateDataset, NoResult
<1>3. CASE ~with.lazy /\ CheckRaises(rows, with)
  <2>1. ~ValidateDataset(rows, with).publishable
    BY <1>3 DEF ValidateDataset, NoResult
  <2> QED BY <2>1, <1>0, <1>1, <1>3
<1>4. CASE ~with.lazy /\ ~CheckRaises(rows, with) /\ Len(rows) < with.minRows
  <2>1. ~ValidateDataset(rows, with).publishable
    BY <1>4 DEF ValidateDataset, NoResult
  <2> QED BY <2>1, <1>0, <1>4
<1>5. CASE ~with.lazy /\ ~CheckRaises(rows, with) /\ ~(Len(rows) < with.minRows)
  <2>1. Len(rows) >= with.minRows /\ (with.source = "json" => Len(rows) <= QualityBatch)
    BY <1>0, <1>5 DEF CheckRaises
  <2>2. ValidateDataset(rows, with).publishable <=> AllPass(rows, with) /\ with.attached \subseteq {"none"}
    BY <1>5, <2>1, BuiltIsPassing DEF ValidateDataset
  <2> QED BY <2>1, <2>2, <1>5, PassingIsValid, ValidPasses
<1> QED BY <1>0, <1>2, <1>3, <1>4, <1>5

-----------------------------------------------------------------------------
(***************************************************************************)
(* The gate                                                                *)
(***************************************************************************)
GateEvidence == [contract : STRING, generation : STRING, publishable : BOOLEAN]
GateTransform == [generation : STRING, status : STRING, activatable : BOOLEAN]
GateSpecs == [validators : Seq(STRING), select : BOOLEAN]
GateOwn == [validations : Seq(GateEvidence), transformations : Seq(GateTransform)]
GateBoundaries ==
  [validate : MapsTo(GateEvidence), transform : GateTransform,
   checks : Seq([status : STRING, scope : STRING, required : BOOLEAN])]

\* What the stage brought for a dataset is one piece of evidence.
LEMMA BroughtIsOne ==
  ASSUME NEW own, NEW v \in ToSet(own.validations), NEW w \in ToSet(own.validations), v.contract = w.contract,
         ~\E j, k \in DOMAIN own.validations : j # k /\ own.validations[j].contract = own.validations[k].contract
  PROVE  v = w
BY DEF ToSet

\* What is kept has one piece of evidence for each declared dataset, and all
\* that the stage brought.
LEMMA KeptIsExact ==
  ASSUME NEW spec, NEW own, NEW boundary,
         ~\E j, k \in DOMAIN own.validations : j # k /\ own.validations[j].contract = own.validations[k].contract,
         \A k \in DOMAIN DeclaredEvidence(spec, own, boundary) :
           DeclaredEvidence(spec, own, boundary)[k].contract = spec.validators[k]
  PROVE  LET kept == ToSet(DeclaredEvidence(spec, own, boundary)) \cup Undeclared(spec, own)
         IN  /\ \A d \in ToSet(spec.validators) : \E v \in kept : {w \in kept : w.contract = d} = {v}
             /\ ToSet(own.validations) \subseteq kept
<1> DEFINE declared == DeclaredEvidence(spec, own, boundary)
           kept == ToSet(declared) \cup Undeclared(spec, own)
           of(d) == IF Brought(own, d) # {} THEN CHOOSE v \in Brought(own, d) : TRUE ELSE boundary.validate[d]
<1>1. DOMAIN declared = DOMAIN spec.validators /\ \A k \in DOMAIN spec.validators : declared[k] = of(spec.validators[k])
  BY DEF DeclaredEvidence
<1>2. \A k \in DOMAIN spec.validators : declared[k].contract = spec.validators[k]
  BY <1>1
<1> HIDE DEF declared, of
<1>3. ASSUME NEW d \in ToSet(spec.validators)
      PROVE  of(d) \in kept /\ of(d).contract = d /\ \A w \in kept : w.contract = d => w = of(d)
  <2>1. PICK k \in DOMAIN spec.validators : d = spec.validators[k]
    BY DEF ToSet
  <2>2. of(d) \in ToSet(declared) /\ of(d).contract = d
    BY <2>1, <1>1, <1>2 DEF ToSet
  <2>3. ASSUME NEW w \in kept, w.contract = d PROVE w = of(d)
    <3>1. w \notin Undeclared(spec, own)
      BY <2>3 DEF Undeclared
    <3>2. PICK j \in DOMAIN declared : w = declared[j]
      BY <2>3, <3>1 DEF ToSet
    <3> QED BY <3>2, <2>3, <1>1, <1>2
  <2> QED BY <2>2, <2>3
<1>4. ASSUME NEW v \in ToSet(own.validations) PROVE v \in kept
  <2>1. CASE v.contract \notin ToSet(spec.validators)
    BY <2>1 DEF Undeclared
  <2>2. CASE v.contract \in ToSet(spec.validators)
    <3> DEFINE brought == Brought(own, v.contract)
    <3>1. v \in brought /\ \A w \in brought : w = v
      BY BroughtIsOne DEF Brought
    <3>2. (CHOOSE w \in brought : TRUE) = v
      <4> HIDE DEF brought
      <4> QED BY <3>1
    <3>3. of(v.contract) = v
      BY <3>1, <3>2 DEF of
    <3> QED BY <3>3, <2>2, <1>3
  <2> QED BY <2>1, <2>2
<1> HIDE DEF kept
<1>5. \A d \in ToSet(spec.validators) : \E v \in kept : {w \in kept : w.contract = d} = {v}
  BY <1>3
<1>6. ToSet(own.validations) \subseteq kept
  BY <1>4
<1> QED BY <1>5, <1>6 DEF kept, declared

\* apply_boundary lets nothing else pass.
LEMMA BoundaryIsExact ==
  ASSUME NEW spec \in GateSpecs, NEW own \in GateOwn, NEW boundary \in GateBoundaries,
         AskBoundary(spec, own, boundary)
  PROVE  EvidenceIsExact'
<1> DEFINE gate == ApplyBoundary(spec, own, boundary, "g1")
           declared == DeclaredEvidence(spec, own, boundary)
           kept == ToSet(declared) \cup Undeclared(spec, own)
           built == (IF spec.select THEN <<boundary.transform>> ELSE << >>) \o own.transformations
           repeated == \E j, k \in DOMAIN own.validations : j # k /\ own.validations[j].contract = own.validations[k].contract
           foreign == \E k \in DOMAIN declared : declared[k].contract # spec.validators[k]
           allowed == ActivationDecision(boundary.checks, kept, built, "g1").allowed
<1>1. call' = [op |-> "boundary", spec |-> spec, own |-> own, boundary |-> boundary, gate |-> gate]
  BY DEF AskBoundary, Ask
<1>2. SUFFICES ASSUME gate.passed
      PROVE  /\ \A d \in ToSet(spec.validators) : \E v \in gate.validations : {w \in gate.validations : w.contract = d} = {v}
             /\ spec.select => Len(gate.transformations) > Len(own.transformations)
             /\ ToSet(own.validations) \subseteq gate.validations
             /\ \A v \in gate.validations : v.generation = "g1" /\ v.publishable
             /\ \A t \in ToSet(gate.transformations) : t.generation = "g1" /\ t.status = "ok" /\ t.activatable
             /\ \E c \in ToSet(boundary.checks) : c.scope = "global" /\ (c.required => c.status \in {"pass", "warning"})
  <2> HIDE DEF gate
  <2> QED BY <1>1, <1>2 DEF EvidenceIsExact
<1>3. gate = IF repeated \/ foreign \/ ~allowed THEN GateRefuses
             ELSE [passed |-> TRUE, validations |-> kept, transformations |-> built]
  BY Zenon DEF ApplyBoundary
<1>4. ~repeated /\ ~foreign /\ allowed /\ gate.validations = kept /\ gate.transformations = built
  <2> HIDE DEF gate, kept, built, repeated, foreign, allowed
  <2> QED BY <1>2, <1>3 DEF GateRefuses
<1>5. ~ChecksBlock(boundary.checks) /\ ~ValidationsBlock(kept, "g1") /\ ~TransformationsBlock(built, "g1")
  BY <1>4 DEF ActivationDecision
<1>6. /\ \A d \in ToSet(spec.validators) : \E v \in kept : {w \in kept : w.contract = d} = {v}
      /\ ToSet(own.validations) \subseteq kept
  BY <1>4, KeptIsExact
<1>7. spec.select => Len(built) > Len(own.transformations)
  <2>1. own.transformations \in Seq(GateTransform) /\ <<boundary.transform>> \in Seq(GateTransform)
    BY DEF GateOwn, GateBoundaries
  <2> QED BY <2>1
<1> HIDE DEF gate, kept, built
<1>8. \A v \in kept : v.generation = "g1" /\ v.publishable
  BY <1>5 DEF ValidationsBlock
<1>9. \A t \in ToSet(built) : t.generation = "g1" /\ t.status = "ok" /\ t.activatable
  BY <1>5 DEF TransformationsBlock
<1>10. \E c \in ToSet(boundary.checks) : c.scope = "global" /\ (c.required => c.status \in {"pass", "warning"})
  BY <1>5 DEF ChecksBlock
<1> QED BY <1>4, <1>6, <1>7, <1>8, <1>9, <1>10

(***************************************************************************)
(* The client of the quality gate, with datasets of any length, columns    *)
(* and types, and with any evidence.                                       *)
(***************************************************************************)
GateNext ==
  \/ \E rows \in Seq(MapsTo(STRING)), with \in QualityWays : AskQuality(rows, with)
  \/ \E spec \in GateSpecs, own \in GateOwn, boundary \in GateBoundaries : AskBoundary(spec, own, boundary)
  \/ Return
GateSpec == call = Ready /\ [][GateNext]_call

\* A call of validate_dataset answers by what the contract says.
LEMMA QualityIsExact ==
  ASSUME NEW rows \in Seq(MapsTo(STRING)), NEW with \in QualityWays, AskQuality(rows, with)
  PROVE  PublishedIffValid'
<1> DEFINE answer == ValidateDataset(rows, with)
<1>1. call' = [op |-> "quality", rows |-> rows, with |-> with, answer |-> answer]
  BY DEF AskQuality, Ask
<1>2. rows # << >> =>
        (answer.publishable <=>
           /\ ~with.lazy /\ (with.source = "json" => Len(rows) <= QualityBatch)
           /\ Len(rows) >= with.minRows /\ with.attached \subseteq {"none"}
           /\ Looked(with) /\ Valid(rows, with.dtypes, with.related))
  BY PublishedExactly
<1> HIDE DEF answer
<1> QED BY <1>1, <1>2 DEF PublishedIffValid

\* Theorem: for datasets of any length, cut into batches of any size, under
\* any contract, a dataset is published exactly if every rule was looked at and
\* the whole satisfies the contract; and what passes the gate is evidence for
\* exactly what the stage declares, for the generation that is sealed.
THEOREM GateIsExact == GateSpec => []GateHolds
<1>1. call = Ready => GateHolds
  BY DEF Ready, GateHolds, PublishedIffValid, EvidenceIsExact
<1>2. GateHolds /\ [GateNext]_call => GateHolds'
  <2> SUFFICES ASSUME GateHolds, [GateNext]_call PROVE GateHolds'
    OBVIOUS
  <2>1. ASSUME NEW rows \in Seq(MapsTo(STRING)), NEW with \in QualityWays, AskQuality(rows, with) PROVE GateHolds'
    <3>1. PublishedIffValid'
      BY <2>1, QualityIsExact
    <3>2. call'.op = "quality"
      BY <2>1 DEF AskQuality, Ask
    <3>3. EvidenceIsExact'
      BY <3>2 DEF EvidenceIsExact
    <3> QED BY <3>1, <3>3 DEF GateHolds
  <2>2. ASSUME NEW spec \in GateSpecs, NEW own \in GateOwn, NEW boundary \in GateBoundaries, AskBoundary(spec, own, boundary)
        PROVE  GateHolds'
    <3>1. EvidenceIsExact'
      BY <2>2, BoundaryIsExact
    <3>2. call'.op = "boundary"
      BY <2>2 DEF AskBoundary, Ask
    <3>3. PublishedIffValid'
      BY <3>2 DEF PublishedIffValid
    <3> QED BY <3>1, <3>3 DEF GateHolds
  <2>3. CASE Return
    BY <2>3 DEF Return, Ready, GateHolds, PublishedIffValid, EvidenceIsExact
  <2>4. CASE UNCHANGED call
    BY <2>4 DEF GateHolds, PublishedIffValid, EvidenceIsExact, Looked, Valid, ValidValue
  <2> QED BY <2>1, <2>2, <2>3, <2>4 DEF GateNext
<1> QED BY <1>1, <1>2, PTL DEF GateSpec

-----------------------------------------------------------------------------
(***************************************************************************)
(* Groups of documents and the snapshots of the corpus (CorpusChain)       *)
(***************************************************************************)
\* A function that follows one predecessor at a time is there: FindRoot, Forest
\* and Candidates are of this form.
Descends(D, V, rank, N, base, a, pred, F) ==
  /\ rank \in [D -> Nat] /\ N \in Nat /\ \A x \in D : rank[x] <= N
  /\ base \in SUBSET D /\ a \in [D -> V] /\ pred \in [D -> D] /\ F \in [D \X V -> V]
  /\ \A x \in D \ base : rank[pred[x]] < rank[x]

\* Such a function exists, by induction on the rank of its arguments.
LEMMA Recursion ==
  ASSUME NEW D, NEW V, NEW rank, NEW N, NEW base, NEW a, NEW pred, NEW F,
         Descends(D, V, rank, N, base, a, pred, F)
  PROVE  \E g \in [D -> V] : \A x \in D : g[x] = IF x \in base THEN a[x] ELSE F[<<x, g[pred[x]]>>]
<1> DEFINE Low(n) == {x \in D : rank[x] <= n}
           Fits(g, S) == \A x \in S : g[x] = IF x \in base THEN a[x] ELSE F[<<x, g[pred[x]]>>]
           Found(n) == \E g \in [Low(n) -> V] : Fits(g, Low(n))
           bad == {n \in Nat : ~Found(n)}
<1>0. /\ rank \in [D -> Nat] /\ N \in Nat /\ \A x \in D : rank[x] <= N
      /\ base \in SUBSET D /\ a \in [D -> V] /\ pred \in [D -> D] /\ F \in [D \X V -> V]
      /\ \A x \in D \ base : rank[pred[x]] < rank[x]
  BY DEF Descends
<1> USE <1>0
<1>1. ASSUME bad # {} PROVE FALSE
  <2>0. bad \subseteq Nat
    OBVIOUS
  <2>1. PICK n \in bad : \A m \in bad : n <= m
    <3> HIDE DEF bad
    <3> QED BY <1>1, <2>0, LeastNumber
  <2>2. CASE n = 0
    <3>1. \A x \in Low(0) : x \in base
      <4> SUFFICES ASSUME NEW x \in Low(0), x \notin base PROVE FALSE
        OBVIOUS
      <4>1. rank[pred[x]] \in Nat /\ rank[x] = 0 /\ rank[pred[x]] < rank[x]
        OBVIOUS
      <4> QED BY <4>1
    <3>2. [x \in Low(0) |-> a[x]] \in [Low(0) -> V] /\ Fits([x \in Low(0) |-> a[x]], Low(0))
      BY <3>1
    <3> QED BY <2>1, <2>2, <3>2
  <2>3. CASE n # 0
    <3>a. n \in Nat /\ n - 1 \in Nat /\ ~ (n <= n - 1)
      BY <2>1, <2>3
    <3>b. n - 1 \notin bad
      <4> HIDE DEF bad
      <4> QED BY <3>a, <2>1
    <3>0. n - 1 \in Nat /\ n \in Nat /\ Found(n - 1)
      <4> HIDE DEF Found
      <4> QED BY <3>a, <3>b
    <3>1. PICK h \in [Low(n - 1) -> V] : Fits(h, Low(n - 1))
      BY <3>0
    <3> DEFINE g == [x \in Low(n) |-> IF x \in base THEN a[x] ELSE F[<<x, h[pred[x]]>>]]
    <3>2. \A x \in Low(n) : x \notin base => pred[x] \in Low(n - 1)
      <4> SUFFICES ASSUME NEW x \in Low(n), x \notin base PROVE pred[x] \in Low(n - 1)
        OBVIOUS
      <4>1. rank[pred[x]] \in Nat /\ rank[x] \in Nat /\ rank[x] <= n /\ rank[pred[x]] < rank[x] /\ pred[x] \in D
        OBVIOUS
      <4> QED BY <4>1, <3>0
    <3>3. \A x \in Low(n - 1) : x \in Low(n) /\ g[x] = h[x]
      <4> SUFFICES ASSUME NEW x \in Low(n - 1) PROVE x \in Low(n) /\ g[x] = h[x]
        OBVIOUS
      <4>1. x \in D /\ rank[x] \in Nat /\ rank[x] <= n - 1
        OBVIOUS
      <4>2. x \in Low(n)
        BY <4>1, <3>0
      <4> QED BY <4>2, <3>1
    <3>4. g \in [Low(n) -> V]
      <4>1. ASSUME NEW x \in Low(n) PROVE g[x] \in V
        <5>1. CASE x \in base
          BY <5>1
        <5>2. CASE x \notin base
          <6>1. h[pred[x]] \in V
            BY <5>2, <3>2, <3>1
          <6> QED BY <5>2, <6>1
        <5> QED BY <5>1, <5>2
      <4> QED BY <4>1
    <3>5. Fits(g, Low(n))
      <4> SUFFICES ASSUME NEW x \in Low(n) PROVE g[x] = IF x \in base THEN a[x] ELSE F[<<x, g[pred[x]]>>]
        OBVIOUS
      <4>1. CASE x \in base
        BY <4>1
      <4>2. CASE x \notin base
        <5>1. g[pred[x]] = h[pred[x]]
          BY <4>2, <3>2, <3>3
        <5> QED BY <4>2, <5>1
      <4> QED BY <4>1, <4>2
    <3> HIDE DEF g
    <3>6. Found(n)
      BY <3>4, <3>5
    <3> QED BY <3>6, <2>1
  <2> QED BY <2>2, <2>3
<1>2. Found(N)
  BY <1>1
<1>3. Low(N) = D
  OBVIOUS
<1> HIDE DEF Low
<1> QED BY <1>2, <1>3

\* A finite set has a first element in every strict order.
LEMMA FirstExists ==
  ASSUME NEW S, IsFiniteSet(S), S # {}, NEW R,
         \A x, y, z \in S : <<x, y>> \in R /\ <<y, z>> \in R => <<x, z>> \in R,
         \A x \in S : <<x, x>> \notin R
  PROVE  \E x \in S : \A y \in S : <<y, x>> \notin R
<1> DEFINE Less(x) == {y \in S : <<y, x>> \in R}
           counts == {Cardinality(Less(x)) : x \in S}
<1>1. ASSUME NEW x \in S PROVE IsFiniteSet(Less(x)) /\ Cardinality(Less(x)) \in Nat
  BY FS_Subset, FS_CardinalityType
<1>2. counts \subseteq Nat /\ counts # {}
  <2>1. PICK x \in S : TRUE
    OBVIOUS
  <2>2. Cardinality(Less(x)) \in counts
    OBVIOUS
  <2>3. counts # {}
    BY <2>2
  <2> HIDE DEF Less
  <2> QED BY <1>1, <2>3
<1>3. PICK n \in counts : \A m \in counts : n <= m
  <2> HIDE DEF counts
  <2> QED BY <1>2, LeastNumber
<1>4. PICK x \in S : n = Cardinality(Less(x))
  BY <1>3
<1>5. ASSUME NEW y \in S, <<y, x>> \in R PROVE FALSE
  <2>1. Less(y) \subseteq Less(x)
    BY <1>5
  <2>2. y \in Less(x) /\ y \notin Less(y)
    BY <1>5
  <2>3. Cardinality(Less(y)) < Cardinality(Less(x))
    <3>1. Less(y) # Less(x)
      BY <2>2
    <3>2. IsFiniteSet(Less(x)) /\ Cardinality(Less(x)) \in Nat /\ Cardinality(Less(y)) \in Nat
      BY <1>1
    <3>3. Cardinality(Less(y)) <= Cardinality(Less(x)) /\ Cardinality(Less(y)) # Cardinality(Less(x))
      <4> HIDE DEF Less
      <4> QED BY <2>1, <3>1, <3>2, FS_Subset
    <3> HIDE DEF Less
    <3> QED BY <3>2, <3>3
  <2>4. Cardinality(Less(y)) \in counts
    OBVIOUS
  <2>5. Cardinality(Less(x)) <= Cardinality(Less(y))
    <3> HIDE DEF Less, counts
    <3> QED BY <2>4, <1>3, <1>4
  <2>6. Cardinality(Less(y)) \in Nat /\ Cardinality(Less(x)) \in Nat
    BY <1>1
  <2> HIDE DEF Less
  <2> QED BY <2>3, <2>5, <2>6
<1> QED BY <1>5

-----------------------------------------------------------------------------
(* UnionFind: parents are smaller, so that every document has a root.      *)
IsForest(docs, parent) ==
  docs \subseteq Nat /\ IsFiniteSet(docs) /\ parent \in [docs -> docs] /\ \A d \in docs : parent[d] <= d

\* A finite set of numbers has a bound.
LEMMA Bounded ==
  ASSUME NEW S, S \subseteq Nat, IsFiniteSet(S)
  PROVE  \E n \in Nat : \A m \in S : m <= n
<1>1. CASE S = {}
  BY <1>1
<1>2. CASE S # {}
  <2> DEFINE R == {p \in S \X S : p[2] < p[1]}
  <2>0. \A x, y \in S : <<x, y>> \in R <=> y < x
    OBVIOUS
  <2> HIDE DEF R
  <2>1. \A x, y, z \in S : <<x, y>> \in R /\ <<y, z>> \in R => <<x, z>> \in R
    BY <2>0
  <2>2. \A x \in S : <<x, x>> \notin R
    BY <2>0
  <2>3. \E x \in S : \A y \in S : <<y, x>> \notin R
    BY <1>2, <2>1, <2>2, FirstExists, Zenon
  <2>4. PICK x \in S : \A y \in S : <<y, x>> \notin R
    BY <2>3
  <2>5. ASSUME NEW m \in S PROVE m <= x
    <3>1. ~ (x < m)
      BY <2>4, <2>0
    <3>2. x \in Nat /\ m \in Nat
      OBVIOUS
    <3> QED BY <3>1, <3>2
  <2> QED BY <2>5
<1> QED BY <1>1, <1>2

\* Every document has a parent among the touched ones, and none comes after it.
LEMMA ParentsAre ==
  ASSUME NEW docs, NEW parent, IsForest(docs, parent), NEW d \in docs
  PROVE  d \in Nat /\ parent[d] \in docs /\ parent[d] \in Nat /\ (parent[d] # d => parent[d] < d)
<1>1. docs \subseteq Nat /\ parent[d] \in docs /\ parent[d] <= d
  BY DEF IsForest
<1>2. d \in Nat /\ parent[d] \in Nat
  BY <1>1
<1> QED BY <1>1, <1>2

\* FindRoot leads to a document that is its own parent.
LEMMA RootsAre ==
  ASSUME NEW docs, NEW parent, IsForest(docs, parent)
  PROVE  \A d \in docs :
           LET r == FindRoot(parent, d)
           IN  r \in docs /\ r <= d /\ parent[r] = r /\ r = (IF parent[d] = d THEN d ELSE FindRoot(parent, parent[d]))
<1> DEFINE Is(f) == f = [d \in DOMAIN parent |-> IF parent[d] = d THEN d ELSE f[parent[d]]]
           root == CHOOSE f : Is(f)
<1>0. docs \subseteq Nat /\ IsFiniteSet(docs) /\ parent \in [docs -> docs] /\ \A d \in docs : parent[d] <= d
  BY DEF IsForest
<1>1. \A d : FindRoot(parent, d) = root[d]
  BY DEF FindRoot
<1>2. \E f : Is(f)
  <2> DEFINE rank == [d \in docs |-> d]
             base == {d \in docs : parent[d] = d}
             F == [p \in docs \X docs |-> p[2]]
  <2>1. PICK N \in Nat : \A d \in docs : d <= N
    BY <1>0, Bounded
  <2>2. /\ rank \in [docs -> Nat] /\ \A x \in docs : rank[x] <= N
        /\ base \in SUBSET docs /\ rank \in [docs -> docs] /\ F \in [docs \X docs -> docs]
        /\ \A x \in docs \ base : rank[parent[x]] < rank[x]
    <3>1. \A x \in docs : parent[x] \in docs /\ (parent[x] # x => parent[x] < x)
      BY ParentsAre
    <3> QED BY <1>0, <2>1, <3>1
  <2>3. \E g \in [docs -> docs] : \A x \in docs : g[x] = IF x \in base THEN rank[x] ELSE F[<<x, g[parent[x]]>>]
    <3>1. rank \in [docs -> Nat] /\ (\A x \in docs : rank[x] <= N) /\ parent \in [docs -> docs]
      BY <2>2, <1>0
    <3>2. base \in SUBSET docs /\ rank \in [docs -> docs] /\ F \in [docs \X docs -> docs]
      BY <2>2
    <3>3. \A x \in docs \ base : rank[parent[x]] < rank[x]
      BY <2>2
    <3> HIDE DEF rank, base, F
    <3>4. Descends(docs, docs, rank, N, base, rank, parent, F)
      BY <2>1, <3>1, <3>2, <3>3 DEF Descends
    <3> QED BY <3>4, Recursion
  <2>4. PICK g \in [docs -> docs] : \A x \in docs : g[x] = IF x \in base THEN rank[x] ELSE F[<<x, g[parent[x]]>>]
    BY <2>3
  <2>5. \A x \in docs : g[x] = IF parent[x] = x THEN x ELSE g[parent[x]]
    BY <2>4, <1>0
  <2>6. Is(g)
    BY <2>5, <1>0
  <2> HIDE DEF Is
  <2> QED BY <2>6
<1>3. Is(root)
  <2> HIDE DEF Is
  <2> QED BY <1>2
<1> HIDE DEF root
<1>4. \A d \in docs : root[d] = IF parent[d] = d THEN d ELSE root[parent[d]]
  BY <1>3, <1>0
<1> DEFINE Joined(d) == root[d] \in docs /\ root[d] <= d /\ parent[root[d]] = root[d]
           bad == {d \in docs : ~Joined(d)}
<1>5. bad = {}
  <2>1. SUFFICES ASSUME bad # {} PROVE FALSE
    OBVIOUS
  <2>2. bad \subseteq Nat
    BY <1>0
  <2>3. PICK d \in bad : \A e \in bad : d <= e
    <3> HIDE DEF bad
    <3> QED BY <2>1, <2>2, LeastNumber
  <2>4. d \in docs /\ ~Joined(d)
    OBVIOUS
  <2>5. parent[d] # d
    BY <2>4, <1>4, <1>0
  <2>6. parent[d] \in docs /\ parent[d] < d /\ d \in Nat /\ parent[d] \in Nat
    BY <2>4, <2>5, ParentsAre
  <2>7. parent[d] \notin bad
    <3>1. ~ (d <= parent[d])
      BY <2>6
    <3> HIDE DEF bad
    <3> QED BY <3>1, <2>3
  <2>8. Joined(parent[d])
    <3> HIDE DEF Joined
    <3> QED BY <2>7, <2>6
  <2>9. root[d] = root[parent[d]]
    BY <2>4, <2>5, <1>4
  <2>a. root[d] \in Nat
    BY <2>9, <2>8, <1>0
  <2> QED BY <2>8, <2>9, <2>a, <2>4, <2>6
<1>6. ASSUME NEW d \in docs PROVE Joined(d)
  <2> HIDE DEF Joined
  <2> QED BY <1>5
<1>7. ASSUME NEW d \in docs PROVE parent[d] \in docs
  BY <1>0
<1> QED BY <1>1, <1>4, <1>6, <1>7

\* A set that has a document when it has its parent has it when it has its root.
LEMMA RootsStay ==
  ASSUME NEW docs, NEW parent, IsForest(docs, parent), NEW S,
         \A d \in docs : d \in S <=> parent[d] \in S
  PROVE  \A d \in docs : d \in S <=> FindRoot(parent, d) \in S
<1> DEFINE bad == {d \in docs : ~(d \in S <=> FindRoot(parent, d) \in S)}
<1>0. docs \subseteq Nat /\ parent \in [docs -> docs] /\ \A d \in docs : parent[d] <= d
  BY DEF IsForest
<1>1. SUFFICES ASSUME bad # {} PROVE FALSE
  OBVIOUS
<1>2. bad \subseteq Nat
  BY <1>0
<1>3. PICK d \in bad : \A e \in bad : d <= e
  <2> HIDE DEF bad
  <2> QED BY <1>1, <1>2, LeastNumber
<1>4. d \in docs /\ ~(d \in S <=> FindRoot(parent, d) \in S)
  OBVIOUS
<1>5. FindRoot(parent, d) = IF parent[d] = d THEN d ELSE FindRoot(parent, parent[d])
  BY <1>4, RootsAre
<1>6. parent[d] # d
  BY <1>4, <1>5
<1>7. parent[d] \in docs /\ parent[d] < d /\ d \in Nat /\ parent[d] \in Nat
  BY <1>4, <1>6, ParentsAre
<1>8. parent[d] \notin bad
  <2>1. ~ (d <= parent[d])
    BY <1>7
  <2> HIDE DEF bad
  <2> QED BY <2>1, <1>3
<1>9. parent[d] \in S <=> FindRoot(parent, parent[d]) \in S
  BY <1>8, <1>7
<1> QED BY <1>9, <1>4, <1>5, <1>6

\* UnionFind.union: the documents of the one root come under the other.
LEMMA UnionJoins ==
  ASSUME NEW docs, NEW parent, IsForest(docs, parent), NEW edge \in docs \X docs
  PROVE  LET first == FindRoot(parent, edge[1])
             second == FindRoot(parent, edge[2])
             low == IF first < second THEN first ELSE second
             high == IF first < second THEN second ELSE first
             joined == Union(parent, edge)
         IN  /\ IsForest(docs, joined)
             /\ joined = [parent EXCEPT ![high] = low]
             /\ \A d \in docs : FindRoot(joined, d) = IF FindRoot(parent, d) = high THEN low ELSE FindRoot(parent, d)
<1> DEFINE first == FindRoot(parent, edge[1])
           second == FindRoot(parent, edge[2])
           low == IF first < second THEN first ELSE second
           high == IF first < second THEN second ELSE first
           joined == Union(parent, edge)
<1>0. docs \subseteq Nat /\ IsFiniteSet(docs) /\ parent \in [docs -> docs] /\ \A d \in docs : parent[d] <= d
  BY DEF IsForest
<1>1. edge[1] \in docs /\ edge[2] \in docs
  OBVIOUS
<1>2. /\ first \in docs /\ parent[first] = first
      /\ second \in docs /\ parent[second] = second
  BY <1>1, RootsAre
<1>3. /\ low \in docs /\ high \in docs /\ low <= high
      /\ parent[low] = low /\ parent[high] = high
  <2> HIDE DEF first, second
  <2> QED BY <1>2, <1>0
<1>4. joined = [parent EXCEPT ![high] = low]
  <2>1. joined = IF first < second THEN [parent EXCEPT ![second] = first] ELSE [parent EXCEPT ![first] = second]
    BY DEF Union
  <2> HIDE DEF first, second, joined
  <2> QED BY <2>1
<1> HIDE DEF first, second, joined, low, high
<1>5. IsForest(docs, joined)
  <2>1. joined \in [docs -> docs]
    BY <1>3, <1>4, <1>0
  <2>2. \A d \in docs : joined[d] <= d
    BY <1>3, <1>4, <1>0
  <2> QED BY <2>1, <2>2, <1>0 DEF IsForest
<1>6. \A d \in docs : joined[d] = IF d = high THEN low ELSE parent[d]
  BY <1>4, <1>0
<1>7. \A d \in docs : FindRoot(joined, d) = IF FindRoot(parent, d) = high THEN low ELSE FindRoot(parent, d)
  <2> DEFINE bad == {d \in docs : FindRoot(joined, d) # IF FindRoot(parent, d) = high THEN low ELSE FindRoot(parent, d)}
  <2>1. SUFFICES ASSUME bad # {} PROVE FALSE
    OBVIOUS
  <2>2. bad \subseteq Nat
    BY <1>0
  <2>3. PICK d \in bad : \A e \in bad : d <= e
    <3> HIDE DEF bad
    <3> QED BY <2>1, <2>2, LeastNumber
  <2>4. d \in docs /\ FindRoot(joined, d) # IF FindRoot(parent, d) = high THEN low ELSE FindRoot(parent, d)
    OBVIOUS
  <2>5. FindRoot(joined, d) = IF joined[d] = d THEN d ELSE FindRoot(joined, joined[d])
    BY <2>4, <1>5, RootsAre
  <2>6. FindRoot(parent, d) = IF parent[d] = d THEN d ELSE FindRoot(parent, parent[d])
    BY <2>4, RootsAre
  <2>7. ASSUME NEW e \in docs, e < d PROVE FindRoot(joined, e) = IF FindRoot(parent, e) = high THEN low ELSE FindRoot(parent, e)
    <3>1. e \notin bad
      <4> HIDE DEF bad
      <4>1. e \in Nat /\ d \in Nat
        BY <2>4, <1>0
      <4> QED BY <4>1, <2>7, <2>3
    <3> QED BY <3>1
  <2> HIDE DEF bad
  <2>8. FindRoot(parent, low) = low
    BY <1>3, RootsAre
  <2>9. CASE d = high /\ low # high
    <3>1. joined[d] = low /\ low < d /\ low \in docs
      BY <2>9, <1>6, <1>3, <2>4, <1>0
    <3>2. FindRoot(joined, low) = low
      BY <3>1, <2>7, <2>8, <2>9
    <3>3. FindRoot(parent, d) = high
      BY <2>9, <2>6, <1>3
    <3> QED BY <3>1, <3>2, <3>3, <2>5, <2>4
  <2>10. CASE ~(d = high /\ low # high)
    <3>1. joined[d] = parent[d]
      BY <2>10, <1>6, <1>3, <2>4
    <3>2. CASE parent[d] = d
      <4>1. FindRoot(parent, d) = d /\ FindRoot(joined, d) = d
        BY <3>1, <3>2, <2>5, <2>6
      <4> QED BY <4>1, <2>10, <2>4
    <3>3. CASE parent[d] # d
      <4>1. parent[d] \in docs /\ parent[d] < d
        BY <3>3, <2>4, ParentsAre
      <4>2. FindRoot(joined, parent[d]) = IF FindRoot(parent, parent[d]) = high THEN low ELSE FindRoot(parent, parent[d])
        BY <4>1, <2>7
      <4> QED BY <4>2, <3>1, <3>3, <2>5, <2>6, <2>4
    <3> QED BY <3>2, <3>3
  <2> QED BY <2>9, <2>10
<1> QED BY <1>4, <1>5, <1>7 DEF low, high, joined, first, second

-----------------------------------------------------------------------------
(* The forest of some edges has for trees what the edges connect.          *)
Joins(docs, edges, parent) ==
  /\ \A e \in edges : FindRoot(parent, e[1]) = FindRoot(parent, e[2])
  /\ \A S \in SUBSET docs : ClosedUnder(S, edges) => \A d \in docs : d \in S <=> parent[d] \in S

\* Union leaves every edge that was joined joined.
LEMMA UnionKeeps ==
  ASSUME NEW docs, NEW edges \in SUBSET (docs \X docs), NEW parent, IsForest(docs, parent), Joins(docs, edges, parent),
         NEW edge \in docs \X docs
  PROVE  IsForest(docs, Union(parent, edge)) /\ Joins(docs, edges \cup {edge}, Union(parent, edge))
<1> DEFINE first == FindRoot(parent, edge[1])
           second == FindRoot(parent, edge[2])
           low == IF first < second THEN first ELSE second
           high == IF first < second THEN second ELSE first
           joined == Union(parent, edge)
<1>1. /\ IsForest(docs, joined)
      /\ joined = [parent EXCEPT ![high] = low]
      /\ \A d \in docs : FindRoot(joined, d) = IF FindRoot(parent, d) = high THEN low ELSE FindRoot(parent, d)
  BY UnionJoins
<1>2. edge[1] \in docs /\ edge[2] \in docs /\ first \in docs /\ second \in docs
  BY RootsAre
<1>3. (first = low /\ second = high) \/ (first = high /\ second = low)
  OBVIOUS
<1>a. FindRoot(joined, edge[1]) = FindRoot(joined, edge[2])
  BY <1>1, <1>2, <1>3
<1>4. ASSUME NEW e \in edges \cup {edge} PROVE FindRoot(joined, e[1]) = FindRoot(joined, e[2])
  <2>1. CASE e = edge
    BY <2>1, <1>a
  <2>2. CASE e \in edges
    <3>1. e[1] \in docs /\ e[2] \in docs /\ FindRoot(parent, e[1]) = FindRoot(parent, e[2])
      BY <2>2 DEF Joins
    <3> HIDE DEF joined, high, low
    <3> QED BY <3>1, <1>1
  <2> QED BY <2>1, <2>2
<1>5. ASSUME NEW S \in SUBSET docs, ClosedUnder(S, edges \cup {edge}), NEW d \in docs
      PROVE  d \in S <=> joined[d] \in S
  <2>1. ClosedUnder(S, edges) /\ (edge[1] \in S <=> edge[2] \in S)
    BY <1>5 DEF ClosedUnder
  <2>2. \A x \in docs : x \in S <=> parent[x] \in S
    BY <2>1 DEF Joins
  <2>3. \A x \in docs : x \in S <=> FindRoot(parent, x) \in S
    BY <2>2, RootsStay
  <2>4. first \in S <=> second \in S
    BY <2>1, <2>3, <1>2
  <2>5. high \in S <=> low \in S
    <3> HIDE DEF first, second
    <3> QED BY <2>4, <1>3
  <2>6. joined[d] = IF d = high THEN low ELSE parent[d]
    <3>1. parent \in [docs -> docs]
      BY DEF IsForest
    <3> HIDE DEF joined, high, low
    <3> QED BY <1>1, <3>1
  <2> HIDE DEF joined, high, low
  <2> QED BY <2>5, <2>6, <2>2
<1> HIDE DEF joined
<1>6. Joins(docs, edges \cup {edge}, joined)
  BY <1>4, <1>5 DEF Joins
<1> QED BY <1>1, <1>6 DEF joined

\* The forest joins the documents of every edge.
LEMMA ForestJoins ==
  ASSUME NEW docs, docs \subseteq Nat, IsFiniteSet(docs), NEW edges \in SUBSET (docs \X docs)
  PROVE  LET touched == UNION {{edge[1], edge[2]} : edge \in edges}
         IN  IsForest(touched, Forest(edges)) /\ Joins(touched, edges, Forest(edges))
<1> DEFINE touched == UNION {{edge[1], edge[2]} : edge \in edges}
           V == {v \in [touched -> touched] : IsForest(touched, v)}
           alone == [d \in touched |-> d]
           any(some) == CHOOSE e \in some : TRUE
           Is(f) == f = [some \in SUBSET edges |->
                           IF some = {} THEN alone ELSE Union(f[some \ {any(some)}], any(some))]
           joined == CHOOSE f : Is(f)
<1>1. touched \subseteq docs /\ \A e \in edges : e[1] \in touched /\ e[2] \in touched
  <2>1. ASSUME NEW e \in edges PROVE e[1] \in docs /\ e[2] \in docs /\ e[1] \in touched /\ e[2] \in touched
    OBVIOUS
  <2> QED BY <2>1
<1>2. edges \subseteq touched \X touched
  <2>1. ASSUME NEW e \in edges PROVE e \in touched \X touched
    <3>1. e \in docs \X docs /\ e = <<e[1], e[2]>>
      OBVIOUS
    <3> QED BY <3>1, <1>1
  <2> HIDE DEF touched
  <2> QED BY <2>1
<1>3. IsFiniteSet(edges) /\ IsFiniteSet(touched) /\ touched \subseteq Nat
  <2> HIDE DEF touched
  <2> QED BY <1>1, FS_Product, FS_Subset
<1>4. Forest(edges) = joined[edges]
  BY DEF Forest
<1> HIDE DEF touched
<1>5. alone \in V
  BY <1>3 DEF IsForest
<1>6. \A some \in SUBSET edges : some # {} => any(some) \in some /\ any(some) \in touched \X touched
  BY <1>2
<1>7. \E f \in [SUBSET edges -> V] : Is(f)
  <2> DEFINE D == SUBSET edges
             rank == [some \in D |-> Cardinality(some)]
             base == {{}}
             a == [some \in D |-> alone]
             pred == [some \in D |-> some \ {any(some)}]
             F == [p \in D \X V |-> IF p[1] = {} THEN p[2] ELSE Union(p[2], any(p[1]))]
             N == Cardinality(edges)
  <2>1. rank \in [D -> Nat] /\ N \in Nat /\ \A x \in D : rank[x] <= N
    <3>1. ASSUME NEW some \in D PROVE Cardinality(some) \in Nat /\ N \in Nat /\ Cardinality(some) <= N
      BY <1>3, FS_Subset, FS_CardinalityType
    <3>2. N \in Nat
      BY <1>3, FS_CardinalityType
    <3> QED BY <3>1, <3>2
  <2>2. base \in SUBSET D /\ a \in [D -> V] /\ pred \in [D -> D]
    <3> HIDE DEF V
    <3> QED BY <1>5
  <2>3. F \in [D \X V -> V]
    <3>1. ASSUME NEW p \in D \X V PROVE (IF p[1] = {} THEN p[2] ELSE Union(p[2], any(p[1]))) \in V
      <4>1. p[1] \in D /\ p[2] \in V
        <5> HIDE DEF V, D
        <5> QED OBVIOUS
      <4>2. CASE p[1] = {}
        BY <4>1, <4>2
      <4>3. CASE p[1] # {}
        <5>1. any(p[1]) \in touched \X touched /\ IsForest(touched, p[2])
          BY <4>1, <4>3, <1>6
        <5>2. IsForest(touched, Union(p[2], any(p[1])))
          BY <5>1, UnionJoins
        <5>3. Union(p[2], any(p[1])) \in V
          BY <5>2 DEF IsForest
        <5> QED BY <4>3, <5>3
      <4> QED BY <4>2, <4>3
    <3> HIDE DEF V, D, any
    <3> QED BY <3>1
  <2>4. \A x \in D \ base : rank[pred[x]] < rank[x]
    <3>1. ASSUME NEW x \in D, x # {} PROVE x \ {any(x)} \in D /\ Cardinality(x \ {any(x)}) < Cardinality(x)
      <4>1. any(x) \in x
        BY <3>1, <1>6
      <4>2. IsFiniteSet(x) /\ Cardinality(x) \in Nat
        BY <1>3, FS_Subset, FS_CardinalityType
      <4>3. Cardinality(x \ {any(x)}) = Cardinality(x) - 1
        <5> HIDE DEF any
        <5> QED BY <4>1, <4>2, FS_RemoveElement
      <4> QED BY <4>2, <4>3
    <3> HIDE DEF D, any
    <3> QED BY <3>1
  <2>5. Descends(D, V, rank, N, base, a, pred, F)
    <3> HIDE DEF D, V, rank, N, base, a, pred, F
    <3> QED BY <2>1, <2>2, <2>3, <2>4 DEF Descends
  <2>6. \E g \in [D -> V] : \A x \in D : g[x] = IF x \in base THEN a[x] ELSE F[<<x, g[pred[x]]>>]
    <3> HIDE DEF D, V, rank, N, base, a, pred, F
    <3> QED BY <2>5, Recursion
  <2>7. PICK g \in [D -> V] : \A x \in D : g[x] = IF x \in base THEN a[x] ELSE F[<<x, g[pred[x]]>>]
    BY <2>6
  <2>8. ASSUME NEW some \in D
        PROVE g[some] = IF some = {} THEN alone ELSE Union(g[some \ {any(some)}], any(some))
    <3>1. g[some] = IF some \in base THEN a[some] ELSE F[<<some, g[pred[some]]>>]
      BY <2>7
    <3>2. some \ {any(some)} \in D /\ pred[some] = some \ {any(some)}
      <4> HIDE DEF any
      <4> QED OBVIOUS
    <3>3. g[some \ {any(some)}] \in V
      <4> HIDE DEF V, D, any
      <4> QED BY <3>2, <2>7
    <3>4. F[<<some, g[some \ {any(some)}]>>] = IF some = {} THEN g[some \ {any(some)}] ELSE Union(g[some \ {any(some)}], any(some))
      <4> HIDE DEF V, D, any
      <4> QED BY <3>3
    <3> HIDE DEF V, F, any, pred
    <3> QED BY <3>1, <3>2, <3>4
  <2>9. Is(g)
    <3> HIDE DEF V, any, alone
    <3> QED BY <2>8, <2>7
  <2> QED BY <2>9
<1>8. Is(joined)
  <2> HIDE DEF Is
  <2> QED BY <1>7
<1> HIDE DEF joined
<1>9. \A some \in SUBSET edges : joined[some] = IF some = {} THEN alone ELSE Union(joined[some \ {any(some)}], any(some))
  <2> HIDE DEF alone, any
  <2> QED BY <1>8
<1> DEFINE Joined(some) == IsForest(touched, joined[some]) /\ Joins(touched, some, joined[some])
           sizes == {Cardinality(some) : some \in {s \in SUBSET edges : ~Joined(s)}}
<1>10. ASSUME NEW some \in SUBSET edges PROVE Joined(some)
  <2>1. SUFFICES ASSUME ~Joined(some) PROVE FALSE
    OBVIOUS
  <2>2. \A s \in SUBSET edges : IsFiniteSet(s) /\ Cardinality(s) \in Nat
    BY <1>3, FS_Subset, FS_CardinalityType
  <2>3. sizes \subseteq Nat /\ sizes # {}
    <3>1. Cardinality(some) \in sizes
      BY <2>1
    <3> HIDE DEF Joined
    <3> QED BY <3>1, <2>2
  <2>4. PICK n \in sizes : \A m \in sizes : n <= m
    <3> HIDE DEF sizes
    <3> QED BY <2>3, LeastNumber
  <2>5. PICK s \in SUBSET edges : ~Joined(s) /\ n = Cardinality(s)
    BY <2>4
  <2>6. s # {}
    <3>1. SUFFICES ASSUME s = {} PROVE Joined(s)
      BY <2>5
    <3>2. joined[s] = alone
      BY <3>1, <1>9
    <3>3. IsForest(touched, alone)
      BY <1>5
    <3>4. Joins(touched, {}, alone)
      BY DEF Joins
    <3> QED BY <3>1, <3>2, <3>3, <3>4
  <2>7. any(s) \in s /\ any(s) \in touched \X touched
    BY <2>6, <1>6
  <2>8. joined[s] = Union(joined[s \ {any(s)}], any(s))
    BY <2>6, <1>9
  <2> DEFINE less == s \ {any(s)}
  <2>9. Joined(less)
    <3>1. SUFFICES ASSUME ~Joined(less) PROVE FALSE
      OBVIOUS
    <3>2. less \in SUBSET edges
      OBVIOUS
    <3>3. Cardinality(less) \in sizes
      BY <3>1, <3>2
    <3>4. Cardinality(less) = Cardinality(s) - 1
      <4>1. IsFiniteSet(s)
        BY <2>2
      <4> HIDE DEF any
      <4> QED BY <2>7, <4>1, FS_RemoveElement
    <3>5. n <= Cardinality(less)
      <4> HIDE DEF sizes, less
      <4> QED BY <2>4, <3>3
    <3> HIDE DEF less, sizes
    <3> QED BY <3>4, <3>5, <2>5, <2>2
  <2>10. less \cup {any(s)} = s /\ less \in SUBSET (touched \X touched)
    <3> HIDE DEF any
    <3> QED BY <2>7, <1>2
  <2>11. IsForest(touched, Union(joined[less], any(s))) /\ Joins(touched, less \cup {any(s)}, Union(joined[less], any(s)))
    <3> HIDE DEF less, any
    <3> QED BY <2>7, <2>9, <2>10, UnionKeeps
  <2>12. Joined(s)
    <3> HIDE DEF any
    <3> QED BY <2>8, <2>10, <2>11
  <2> QED BY <2>12, <2>5
<1>11. Joined(edges)
  <2> HIDE DEF Joined
  <2> QED BY <1>10
<1> QED BY <1>11, <1>4 DEF touched

\* Components: the documents that edges lead to, of every one that they touch.
LEMMA ComponentsAre ==
  ASSUME NEW docs, docs \subseteq Nat, IsFiniteSet(docs), NEW edges \in SUBSET (docs \X docs), NEW d \in docs
  PROVE  LET touched == UNION {{edge[1], edge[2]} : edge \in edges}
         IN  /\ d \in Reach(docs, edges, d)
             /\ d \in touched => Reach(docs, edges, d) \in Components(edges)
             /\ d \notin touched => Reach(docs, edges, d) = {d} /\ \A C \in Components(edges) : d \notin C
             /\ \A C \in Components(edges) : d \in C => C = Reach(docs, edges, d)
<1> DEFINE touched == UNION {{edge[1], edge[2]} : edge \in edges}
           parent == Forest(edges)
           Class(root) == {x \in touched : FindRoot(parent, x) = root}
           group == Reach(docs, edges, d)
<1>1. touched \subseteq docs /\ \A e \in edges : e[1] \in touched /\ e[2] \in touched
  <2>1. ASSUME NEW e \in edges PROVE e[1] \in docs /\ e[2] \in docs /\ e[1] \in touched /\ e[2] \in touched
    OBVIOUS
  <2> QED BY <2>1
<1>2. IsForest(touched, parent) /\ Joins(touched, edges, parent)
  BY ForestJoins
<1>3. Components(edges) = {Class(root) : root \in {FindRoot(parent, x) : x \in touched}}
  <2>1. DOMAIN parent = touched
    BY <1>2 DEF IsForest
  <2>2. Components(edges) = {{x \in DOMAIN parent : FindRoot(parent, x) = root} : root \in {FindRoot(parent, x) : x \in DOMAIN parent}}
    BY DEF Components
  <2> HIDE DEF parent, touched
  <2> QED BY <2>1, <2>2
<1> HIDE DEF touched, parent
<1>4. d \in group
  BY DEF Reach
<1>5. ASSUME d \in touched PROVE group = Class(FindRoot(parent, d))
  <2>1. ClosedUnder(Class(FindRoot(parent, d)), edges) /\ Class(FindRoot(parent, d)) \in SUBSET docs /\ d \in Class(FindRoot(parent, d))
    BY <1>5, <1>1, <1>2 DEF ClosedUnder, Joins
  <2>2. group \subseteq Class(FindRoot(parent, d))
    <3> HIDE DEF Class
    <3> QED BY <2>1 DEF Reach
  <2>3. ASSUME NEW x \in Class(FindRoot(parent, d)), NEW S \in SUBSET docs, d \in S, ClosedUnder(S, edges) PROVE x \in S
    <3> DEFINE T == S \cap touched
    <3>1. T \in SUBSET touched /\ ClosedUnder(T, edges)
      BY <2>3, <1>1 DEF ClosedUnder
    <3>2. \A y \in touched : y \in T <=> parent[y] \in T
      <4> HIDE DEF T
      <4> QED BY <3>1, <1>2 DEF Joins
    <3>3. \A y \in touched : y \in T <=> FindRoot(parent, y) \in T
      <4> HIDE DEF T
      <4> QED BY <3>2, <1>2, RootsStay
    <3>4. x \in touched /\ FindRoot(parent, x) = FindRoot(parent, d)
      OBVIOUS
    <3>5. d \in T
      BY <2>3, <1>5
    <3>6. x \in T
      <4> HIDE DEF T
      <4> QED BY <3>3, <3>4, <3>5, <1>5
    <3> QED BY <3>6
  <2>4. Class(FindRoot(parent, d)) \subseteq group
    <3>1. Class(FindRoot(parent, d)) \subseteq docs
      BY <1>1
    <3> HIDE DEF Class
    <3> QED BY <2>3, <3>1 DEF Reach
  <2> HIDE DEF group, Class
  <2> QED BY <2>2, <2>4
<1>6. ASSUME d \notin touched PROVE group = {d}
  <2>1. ClosedUnder({d}, edges) /\ {d} \in SUBSET docs
    BY <1>6, <1>1 DEF ClosedUnder
  <2>2. group \subseteq {d}
    BY <2>1 DEF Reach
  <2> QED BY <2>2, <1>4
<1> HIDE DEF group
<1>7. ASSUME NEW C \in Components(edges), d \in C PROVE d \in touched /\ C = Class(FindRoot(parent, d))
  BY <1>7, <1>3
<1>8. ASSUME d \in touched PROVE Class(FindRoot(parent, d)) \in Components(edges)
  BY <1>8, <1>3
<1> HIDE DEF Class
<1>9. d \in touched => group \in Components(edges)
  BY <1>5, <1>8
<1>10. d \notin touched => group = {d} /\ \A C \in Components(edges) : d \notin C
  BY <1>6, <1>7
<1>11. \A C \in Components(edges) : d \in C => C = group
  BY <1>5, <1>7
<1> QED BY <1>4, <1>9, <1>10, <1>11 DEF touched, group

\* _component_members: there is a first document by length and id.
LEMMA LeaderLeads ==
  ASSUME NEW docs, docs \subseteq Nat, IsFiniteSet(docs), docs # {}, NEW sizes, \A d \in docs : sizes[d] \in Nat
  PROVE  LET leader == Leader(docs, sizes) IN leader \in docs /\ \A e \in docs : sizes[e] <= sizes[leader]
<1> DEFINE R == {p \in docs \X docs : sizes[p[2]] < sizes[p[1]] \/ (sizes[p[1]] = sizes[p[2]] /\ p[1] < p[2])}
           First(d) == \A e \in docs : sizes[e] < sizes[d] \/ (sizes[e] = sizes[d] /\ d <= e)
<1>1. ASSUME NEW x \in docs, NEW y \in docs
      PROVE <<x, y>> \in R <=> (sizes[y] < sizes[x] \/ (sizes[x] = sizes[y] /\ x < y))
  OBVIOUS
<1> HIDE DEF R
<1>2. ASSUME NEW x \in docs, NEW y \in docs, NEW z \in docs, <<x, y>> \in R, <<y, z>> \in R PROVE <<x, z>> \in R
  <2>1. x \in Nat /\ y \in Nat /\ z \in Nat /\ sizes[x] \in Nat /\ sizes[y] \in Nat /\ sizes[z] \in Nat
    OBVIOUS
  <2>2. sizes[y] < sizes[x] \/ (sizes[x] = sizes[y] /\ x < y)
    BY <1>1, <1>2
  <2>3. sizes[z] < sizes[y] \/ (sizes[y] = sizes[z] /\ y < z)
    BY <1>1, <1>2
  <2>4. sizes[z] < sizes[x] \/ (sizes[x] = sizes[z] /\ x < z)
    BY <2>1, <2>2, <2>3
  <2> QED BY <2>4, <1>1
<1>3. ASSUME NEW x \in docs PROVE <<x, x>> \notin R
  <2>1. x \in Nat /\ sizes[x] \in Nat
    OBVIOUS
  <2> QED BY <2>1, <1>1
<1>4. \E x \in docs : \A y \in docs : <<y, x>> \notin R
  BY <1>2, <1>3, FirstExists, Zenon
<1>5. PICK x \in docs : \A y \in docs : <<y, x>> \notin R
  BY <1>4
<1>6. First(x)
  <2>1. ASSUME NEW e \in docs PROVE sizes[e] < sizes[x] \/ (sizes[e] = sizes[x] /\ x <= e)
    <3>1. x \in Nat /\ e \in Nat /\ sizes[x] \in Nat /\ sizes[e] \in Nat
      OBVIOUS
    <3>2. ~ (sizes[x] < sizes[e] \/ (sizes[e] = sizes[x] /\ e < x))
      BY <1>1, <1>5
    <3> QED BY <3>1, <3>2
  <2> QED BY <2>1
<1>7. Leader(docs, sizes) = CHOOSE d \in docs : First(d)
  BY DEF Leader
<1> DEFINE leader == Leader(docs, sizes)
<1>8. leader \in docs /\ First(leader)
  <2> HIDE DEF First
  <2> QED BY <1>6, <1>7
<1>9. \A e \in docs : sizes[e] <= sizes[leader]
  <2> HIDE DEF leader
  <2> QED BY <1>8
<1> QED BY <1>8, <1>9

\* plan_groups suppresses all of a group but its leader.
LEMMA OneStays ==
  ASSUME NEW docs, docs \subseteq Nat, IsFiniteSet(docs), NEW edges \in SUBSET (docs \X docs),
         NEW sizes, \A d \in docs : sizes[d] \in Nat,
         NEW suppressed, suppressed = UNION {group \ {Leader(group, sizes)} : group \in Components(edges)},
         NEW d \in docs
  PROVE  LET group == Reach(docs, edges, d)
         IN  \E e \in group : group \ suppressed = {e} /\ \A f \in group : sizes[f] <= sizes[e]
<1> DEFINE touched == UNION {{edge[1], edge[2]} : edge \in edges}
           group == Reach(docs, edges, d)
<1>1. /\ d \in group
      /\ d \in touched => group \in Components(edges)
      /\ d \notin touched => group = {d} /\ \A C \in Components(edges) : d \notin C
  BY ComponentsAre
<1>2. \A x \in docs : \A C \in Components(edges) : x \in C => C = Reach(docs, edges, x)
  BY ComponentsAre
<1>3. group \subseteq docs
  BY DEF Reach
<1> HIDE DEF touched, group
<1>4. CASE d \notin touched
  <2>1. group = {d} /\ d \notin suppressed
    BY <1>1, <1>4
  <2>2. sizes[d] \in Nat /\ sizes[d] <= sizes[d]
    OBVIOUS
  <2>3. group \ suppressed = {d} /\ \A f \in group : sizes[f] <= sizes[d]
    BY <2>1, <2>2
  <2> QED BY <2>1, <2>3 DEF group
<1>5. CASE d \in touched
  <2>1. group \in Components(edges)
    BY <1>1, <1>5
  <2>2. IsFiniteSet(group) /\ group # {} /\ group \subseteq Nat /\ \A x \in group : sizes[x] \in Nat
    BY <1>1, <1>3, FS_Subset
  <2> DEFINE e == Leader(group, sizes)
  <2>3. e \in group /\ \A f \in group : sizes[f] <= sizes[e]
    BY <2>2, LeaderLeads
  <2> HIDE DEF e
  <2>4. ASSUME NEW C \in Components(edges), NEW x \in C, x \in group PROVE C = group
    BY <2>4, <1>2, <1>3, <2>1
  <2>5. group \ {e} \subseteq suppressed
    BY <2>1 DEF e
  <2>6. e \notin suppressed
    <3>1. SUFFICES ASSUME NEW C \in Components(edges), e \in C \ {Leader(C, sizes)} PROVE FALSE
      OBVIOUS
    <3>2. C = group
      BY <3>1, <2>3, <2>4
    <3> QED BY <3>1, <3>2 DEF e
  <2>7. group \ suppressed = {e}
    BY <2>3, <2>5, <2>6
  <2> QED BY <2>3, <2>7 DEF group
<1> QED BY <1>4, <1>5

-----------------------------------------------------------------------------
(* Candidates of a limited number.                                         *)
LEMMA PairsFinite ==
  ASSUME NEW docs, IsFiniteSet(docs)
  PROVE  IsFiniteSet(PairsOf(docs)) /\ PairsOf(docs) \subseteq docs \X docs
BY FS_Product, FS_Subset DEF PairsOf

\* band_candidates leaves no pair of a bucket out but for the limit: the pairs that
\* precede the first one left out are as many as there was room for.
LEMMA BucketIsTaken ==
  ASSUME NEW docs, docs \subseteq Nat, IsFiniteSet(docs), NEW pairs \in SUBSET PairsOf(docs), NEW bucket \in SUBSET docs,
         Cardinality(bucket) <= MaxBucketDocuments, Cardinality(AddBucket(pairs, bucket)) < MaxCandidatePairs
  PROVE  PairsOf(bucket) \subseteq AddBucket(pairs, bucket)
<1> DEFINE more == PairsOf(bucket) \ pairs
           room == MaxCandidatePairs - Cardinality(pairs)
           before(p) == {q \in more : Precedes(q, p)}
           taken == {p \in more : Cardinality(before(p)) < room}
<1>0. MaxBucketDocuments \in Nat \ {0} /\ MaxCandidatePairs \in Nat \ {0}
  BY DedupePolicyAssumption
<1>1. IsFiniteSet(bucket) /\ Cardinality(bucket) \in Nat /\ bucket \subseteq Nat
  BY FS_Subset, FS_CardinalityType
<1>2. IsFiniteSet(pairs) /\ Cardinality(pairs) \in Nat
  BY PairsFinite, FS_Subset, FS_CardinalityType
<1>3. IsFiniteSet(more) /\ more \subseteq bucket \X bucket
  BY <1>1, PairsFinite, FS_Subset
<1>4. CASE Cardinality(bucket) \in 2 .. MaxBucketDocuments
  <2>1. AddBucket(pairs, bucket) = pairs \cup taken
    BY <1>4 DEF AddBucket
  <2>2. SUFFICES ASSUME more \ taken # {} PROVE FALSE
    BY <2>1
  <2> DEFINE R == {r \in (more \ taken) \X (more \ taken) : Precedes(r[1], r[2])}
  <2>3. ASSUME NEW x \in more PROVE x[1] \in Nat /\ x[2] \in Nat
    <3> HIDE DEF more
    <3> QED BY <1>1, <1>3
  <2>4. ASSUME NEW x \in more, NEW y \in more, NEW z \in more, Precedes(x, y), Precedes(y, z) PROVE Precedes(x, z)
    <3> HIDE DEF more
    <3> QED BY <2>3, <2>4 DEF Precedes
  <2>5. ASSUME NEW x \in more PROVE ~Precedes(x, x)
    <3> HIDE DEF more
    <3> QED BY <2>3 DEF Precedes
  <2> DEFINE left == more \ taken
  <2>6. IsFiniteSet(left) /\ left \subseteq more
    <3> HIDE DEF more, taken
    <3> QED BY <1>3, FS_Subset
  <2>a. \A x, y \in left : <<x, y>> \in R <=> Precedes(x, y)
    OBVIOUS
  <2>7. \E p \in left : \A q \in left : <<q, p>> \notin R
    <3>1. \A x, y, z \in left : <<x, y>> \in R /\ <<y, z>> \in R => <<x, z>> \in R
      <4> HIDE DEF left, more, taken, R
      <4> QED BY <2>a, <2>4, <2>6
    <3>2. \A x \in left : <<x, x>> \notin R
      <4> HIDE DEF left, more, taken, R
      <4> QED BY <2>a, <2>5, <2>6
    <3>3. left # {}
      BY <2>2
    <3> HIDE DEF left, R
    <3> QED BY <2>6, <3>1, <3>2, <3>3, FirstExists, Zenon
  <2>8. PICK p \in left : \A q \in left : ~Precedes(q, p)
    <3> HIDE DEF left, R
    <3> QED BY <2>7, <2>a
  <2>9. before(p) \subseteq taken
    BY <2>8
  <2>10. IsFiniteSet(taken) /\ taken \cap pairs = {}
    <3>1. taken \subseteq more /\ taken \cap pairs = {}
      OBVIOUS
    <3> HIDE DEF more, taken
    <3> QED BY <1>3, <3>1, FS_Subset
  <2>11. Cardinality(before(p)) <= Cardinality(taken) /\ IsFiniteSet(before(p)) /\ Cardinality(before(p)) \in Nat /\ Cardinality(taken) \in Nat
    <3> HIDE DEF before, taken
    <3> QED BY <2>9, <2>10, FS_Subset, FS_CardinalityType
  <2>12. ~ (Cardinality(before(p)) < room)
    <3>1. p \in more /\ p \notin taken
      BY <2>8
    <3> HIDE DEF before, room, more
    <3> QED BY <3>1
  <2>13. Cardinality(pairs \cup taken) = Cardinality(pairs) + Cardinality(taken)
    <3>1. Cardinality(pairs \cup taken) = Cardinality(pairs) + Cardinality(taken) - Cardinality(pairs \cap taken)
      <4> HIDE DEF taken
      <4> QED BY <1>2, <2>10, FS_Union
    <3>2. Cardinality(pairs \cap taken) = 0
      <4>1. pairs \cap taken = {}
        <5> HIDE DEF taken
        <5> QED BY <2>10
      <4>2. Cardinality({}) = 0
        BY FS_EmptySet
      <4> QED BY <4>1, <4>2, Zenon
    <3> HIDE DEF taken
    <3> QED BY <3>1, <3>2, <1>2, <2>11
  <2>14. Cardinality(pairs \cup taken) < MaxCandidatePairs
    BY <2>1
  <2> HIDE DEF taken, before, more
  <2> QED BY <2>11, <2>12, <2>13, <2>14, <1>0, <1>2
<1>5. CASE Cardinality(bucket) \notin 2 .. MaxBucketDocuments
  <2>1. Cardinality(bucket) < 2
    BY <1>5, <1>0, <1>1
  <2>2. ASSUME NEW p \in PairsOf(bucket) PROVE FALSE
    <3>1. p[1] \in bucket /\ p[2] \in bucket /\ p[1] # p[2]
      <4>1. p[1] \in bucket /\ p[2] \in bucket /\ p[1] < p[2]
        BY DEF PairsOf
      <4>2. p[1] \in Nat /\ p[2] \in Nat
        BY <4>1, <1>1
      <4> QED BY <4>1, <4>2
    <3>2. {p[1], p[2]} \in SUBSET bucket /\ Cardinality({p[1], p[2]}) = 2
      <4>1. IsFiniteSet({p[1]}) /\ Cardinality({p[1]}) = 1
        BY FS_Singleton
      <4>a. p[2] \notin {p[1]}
        BY <3>1
      <4>2. Cardinality({p[1]} \cup {p[2]}) = 2
        <5>1. Cardinality({p[1]} \cup {p[2]}) = IF p[2] \in {p[1]} THEN Cardinality({p[1]}) ELSE Cardinality({p[1]}) + 1
          BY <4>1, FS_AddElement, Zenon
        <5> QED BY <5>1, <4>a, <4>1
      <4>3. {p[1]} \cup {p[2]} = {p[1], p[2]}
        OBVIOUS
      <4> QED BY <4>2, <4>3, <3>1
    <3>3. 2 <= Cardinality(bucket)
      BY <3>2, <1>1, FS_Subset
    <3> QED BY <3>3, <2>1, <1>1
  <2> QED BY <2>2
<1> QED BY <1>4, <1>5

\* The candidates are what the buckets add one after the other.
LEMMA CandidatesAre ==
  ASSUME NEW docs, docs \subseteq Nat, IsFiniteSet(docs), NEW buckets \in Seq(SUBSET docs)
  PROVE  \E found \in [0 .. Len(buckets) -> SUBSET PairsOf(docs)] :
           /\ found[0] = {} /\ \A n \in 1 .. Len(buckets) : found[n] = AddBucket(found[n - 1], buckets[n])
           /\ Candidates(buckets) = found[Len(buckets)]
<1> DEFINE N == Len(buckets)
           Is(f) == f = [n \in 0 .. N |-> IF n = 0 THEN {} ELSE AddBucket(f[n - 1], buckets[n])]
           found == CHOOSE f : Is(f)
           D == 0 .. N
           V == SUBSET PairsOf(docs)
           rank == [n \in D |-> n]
           base == {0}
           a == [n \in D |-> {}]
           pred == [n \in D |-> IF n = 0 THEN 0 ELSE n - 1]
           F == [p \in D \X V |-> IF p[1] = 0 THEN {} ELSE AddBucket(p[2], buckets[p[1]])]
<1>0. N \in Nat /\ \A n \in 1 .. N : buckets[n] \in SUBSET docs
  OBVIOUS
<1>1. Candidates(buckets) = found[N]
  BY DEF Candidates
<1>2. \E f \in [D -> V] : Is(f)
  <2> HIDE DEF N
  <2>1. rank \in [D -> Nat] /\ N \in Nat /\ \A x \in D : rank[x] <= N
    BY <1>0
  <2>2. base \in SUBSET D /\ a \in [D -> V] /\ pred \in [D -> D]
    <3>1. base \in SUBSET D
      BY <1>0
    <3>2. pred \in [D -> D]
      BY <1>0
    <3> QED BY <3>1, <3>2
  <2>3. F \in [D \X V -> V]
    <3>1. ASSUME NEW p \in D \X V PROVE (IF p[1] = 0 THEN {} ELSE AddBucket(p[2], buckets[p[1]])) \in V
      <4>1. p[1] \in D /\ p[2] \in V
        <5> HIDE DEF V, D
        <5> QED OBVIOUS
      <4>2. CASE p[1] = 0
        BY <4>2
      <4>3. CASE p[1] # 0
        <5>1. p[1] \in 1 .. N
          BY <4>1, <4>3, <1>0
        <5>2. buckets[p[1]] \in SUBSET docs
          BY <5>1, <1>0
        <5>3. PairsOf(buckets[p[1]]) \subseteq PairsOf(docs)
          BY <5>2 DEF PairsOf
        <5>4. AddBucket(p[2], buckets[p[1]]) \subseteq PairsOf(docs)
          BY <5>3, <4>1 DEF AddBucket
        <5> QED BY <5>4, <4>3
      <4> QED BY <4>2, <4>3
    <3> HIDE DEF V, D
    <3> QED BY <3>1
  <2>4. \A x \in D \ base : rank[pred[x]] < rank[x]
    BY <1>0
  <2>5. Descends(D, V, rank, N, base, a, pred, F)
    <3> HIDE DEF D, V, rank, N, base, a, pred, F
    <3> QED BY <2>1, <2>2, <2>3, <2>4 DEF Descends
  <2>6. \E g \in [D -> V] : \A x \in D : g[x] = IF x \in base THEN a[x] ELSE F[<<x, g[pred[x]]>>]
    <3> HIDE DEF D, V, rank, N, base, a, pred, F
    <3> QED BY <2>5, Recursion
  <2>7. PICK g \in [D -> V] : \A x \in D : g[x] = IF x \in base THEN a[x] ELSE F[<<x, g[pred[x]]>>]
    BY <2>6
  <2>8. ASSUME NEW n \in D PROVE g[n] = IF n = 0 THEN {} ELSE AddBucket(g[n - 1], buckets[n])
    <3>1. g[n] = IF n \in base THEN a[n] ELSE F[<<n, g[pred[n]]>>]
      BY <2>7
    <3>2. CASE n = 0
      BY <3>1, <3>2
    <3>3. CASE n # 0
      <4>1. pred[n] = n - 1 /\ n - 1 \in D
        BY <3>3, <1>0
      <4>2. g[n - 1] \in V
        <5> HIDE DEF V, D
        <5> QED BY <4>1, <2>7
      <4>3. F[<<n, g[n - 1]>>] = AddBucket(g[n - 1], buckets[n])
        <5> HIDE DEF V, D
        <5> QED BY <4>2, <3>3
      <4> HIDE DEF V, F, pred
      <4> QED BY <3>1, <3>3, <4>1, <4>3
    <3> QED BY <3>2, <3>3
  <2>9. Is(g)
    <3> HIDE DEF V
    <3> QED BY <2>8, <2>7
  <2> QED BY <2>9, <2>7
<1>3. PICK f \in [D -> V] : Is(f)
  BY <1>2
<1>4. Is(found)
  <2> HIDE DEF Is
  <2> QED BY <1>3
<1> HIDE DEF found
<1>5. ASSUME NEW n \in D PROVE found[n] = IF n = 0 THEN {} ELSE AddBucket(found[n - 1], buckets[n])
  <2> HIDE DEF N
  <2> QED BY <1>4
<1>6. ASSUME NEW n \in D PROVE f[n] = IF n = 0 THEN {} ELSE AddBucket(f[n - 1], buckets[n])
  <2> HIDE DEF N
  <2> QED BY <1>3
<1>7. ASSUME NEW n \in D PROVE found[n] = f[n]
  <2> DEFINE bad == {m \in D : found[m] # f[m]}
  <2>1. SUFFICES ASSUME bad # {} PROVE FALSE
    OBVIOUS
  <2>2. bad \subseteq Nat
    BY <1>0
  <2>3. PICK m \in bad : \A k \in bad : m <= k
    <3> HIDE DEF bad
    <3> QED BY <2>1, <2>2, LeastNumber
  <2>4. m \in D /\ found[m] # f[m]
    OBVIOUS
  <2>5. m # 0
    BY <2>4, <1>5, <1>6
  <2>6. m - 1 \in D /\ ~ (m <= m - 1)
    BY <2>4, <2>5, <1>0
  <2>7. m - 1 \notin bad
    <3> HIDE DEF bad
    <3> QED BY <2>6, <2>3
  <2>8. found[m - 1] = f[m - 1]
    <3> HIDE DEF D
    <3> QED BY <2>7, <2>6
  <2>9. found[m] = AddBucket(found[m - 1], buckets[m]) /\ f[m] = AddBucket(f[m - 1], buckets[m])
    <3> HIDE DEF D
    <3> QED BY <2>4, <2>5, <1>5, <1>6
  <2> QED BY <2>4, <2>8, <2>9
<1>8. found[N] = f[N]
  BY <1>7, <1>0
<1>9. f[0] = {} /\ \A n \in 1 .. N : f[n] = AddBucket(f[n - 1], buckets[n])
  <2> HIDE DEF N
  <2> QED BY <1>6, <1>0
<1> HIDE DEF found, Is
<1> QED BY <1>1, <1>3, <1>8, <1>9

\* Until the limit is reached, no pair of a bucket that is not too large is left out.
LEMMA NothingLeftOut ==
  ASSUME NEW docs, docs \subseteq Nat, IsFiniteSet(docs), NEW buckets \in Seq(SUBSET docs)
  PROVE  /\ Candidates(buckets) \subseteq PairsOf(docs)
         /\ \/ Truncated(Candidates(buckets))
            \/ \A k \in DOMAIN buckets :
                 Cardinality(buckets[k]) <= MaxBucketDocuments => PairsOf(buckets[k]) \subseteq Candidates(buckets)
<1> DEFINE N == Len(buckets)
<1>0. N \in Nat /\ DOMAIN buckets = 1 .. N /\ \A n \in 1 .. N : buckets[n] \in SUBSET docs
  OBVIOUS
<1>1. PICK found \in [0 .. N -> SUBSET PairsOf(docs)] :
           /\ found[0] = {} /\ \A n \in 1 .. N : found[n] = AddBucket(found[n - 1], buckets[n])
           /\ Candidates(buckets) = found[N]
  BY CandidatesAre
<1> HIDE DEF N
<1>2. Candidates(buckets) \subseteq PairsOf(docs)
  BY <1>0, <1>1
<1>3. ASSUME NEW k \in 0 .. N, NEW n \in k .. N PROVE found[k] \subseteq found[n]
  <2> DEFINE bad == {m \in k .. N : ~ (found[k] \subseteq found[m])}
  <2>1. SUFFICES ASSUME bad # {} PROVE FALSE
    OBVIOUS
  <2>2. bad \subseteq Nat
    BY <1>0
  <2>3. PICK m \in bad : \A j \in bad : m <= j
    <3> HIDE DEF bad
    <3> QED BY <2>1, <2>2, LeastNumber
  <2>4. m \in k .. N /\ ~ (found[k] \subseteq found[m])
    OBVIOUS
  <2>5. m # k
    BY <2>4
  <2>6. m - 1 \in k .. N /\ m \in 1 .. N /\ ~ (m <= m - 1)
    BY <2>4, <2>5, <1>0
  <2>7. m - 1 \notin bad
    <3> HIDE DEF bad
    <3> QED BY <2>6, <2>3
  <2>8. found[k] \subseteq found[m - 1]
    BY <2>7, <2>6
  <2>9. found[m - 1] \subseteq found[m]
    BY <2>6, <1>1 DEF AddBucket
  <2> QED BY <2>4, <2>8, <2>9
<1>4. ASSUME ~Truncated(Candidates(buckets)), NEW k \in 1 .. N, Cardinality(buckets[k]) <= MaxBucketDocuments
      PROVE  PairsOf(buckets[k]) \subseteq Candidates(buckets)
  <2>1. k \in 0 .. N /\ k - 1 \in 0 .. N /\ N \in k .. N
    BY <1>0
  <2>2. found[k] = AddBucket(found[k - 1], buckets[k]) /\ found[k - 1] \in SUBSET PairsOf(docs)
    BY <1>1, <2>1
  <2>3. found[k] \subseteq found[N] /\ found[N] \in SUBSET PairsOf(docs)
    BY <1>3, <2>1, <1>1, <1>0
  <2>4. IsFiniteSet(found[N]) /\ IsFiniteSet(found[k]) /\ Cardinality(found[k]) <= Cardinality(found[N])
        /\ Cardinality(found[k]) \in Nat /\ Cardinality(found[N]) \in Nat
    BY <2>3, PairsFinite, FS_Subset, FS_CardinalityType
  <2>5. Cardinality(found[k]) < MaxCandidatePairs
    BY <1>4, <1>1, <2>4, DedupePolicyAssumption DEF Truncated
  <2>6. PairsOf(buckets[k]) \subseteq AddBucket(found[k - 1], buckets[k])
    BY <2>2, <2>5, <1>4, <1>0, BucketIsTaken
  <2> QED BY <2>6, <2>2, <2>3, <1>1
<1> QED BY <1>0, <1>2, <1>4

-----------------------------------------------------------------------------
(* The plan of groups.                                                     *)
\* key_edges: the first document of a key connects all documents of the key.
LEMMA KeysConnect ==
  ASSUME NEW docs, docs \subseteq Nat, NEW keys, DOMAIN keys = docs, NEW S \in SUBSET docs
  PROVE  ClosedUnder(S, KeyEdges(keys))
           <=> \A a, b \in docs : keys[a] = keys[b] /\ keys[a] # "none" => (a \in S <=> b \in S)
<1>1. ASSUME ClosedUnder(S, KeyEdges(keys)), NEW a \in docs, NEW b \in docs, keys[a] = keys[b], keys[a] # "none"
      PROVE  a \in S <=> b \in S
  <2> DEFINE same == {d \in docs : keys[d] = keys[a]}
  <2>1. same \subseteq Nat /\ same # {}
    OBVIOUS
  <2>2. PICK m \in same : \A d \in same : m <= d
    <3> HIDE DEF same
    <3> QED BY <2>1, LeastNumber
  <2>3. ASSUME NEW d \in same PROVE m \in S <=> d \in S
    <3>0. m \in docs /\ d \in docs /\ keys[m] = keys[a] /\ keys[d] = keys[a] /\ m \in Nat /\ d \in Nat /\ m <= d
      BY <2>2
    <3>1. CASE m = d
      BY <3>1
    <3>2. CASE m # d
      <4>1. m < d
        BY <3>0, <3>2
      <4>2. <<m, d>> \in PairsOf(docs)
        BY <3>0, <4>1 DEF PairsOf
      <4>3. \A e \in docs : keys[e] = keys[m] => m <= e
        BY <2>2, <3>0
      <4>4. <<m, d>> \in KeyEdges(keys)
        BY <4>2, <4>3, <3>0, <1>1 DEF KeyEdges
      <4>5. \A e \in KeyEdges(keys) : e[1] \in S <=> e[2] \in S
        BY <1>1 DEF ClosedUnder
      <4> QED BY <4>4, <4>5
    <3> QED BY <3>1, <3>2
  <2>4. a \in same /\ b \in same
    BY <1>1
  <2> HIDE DEF same
  <2> QED BY <2>3, <2>4
<1>2. ASSUME \A a, b \in docs : keys[a] = keys[b] /\ keys[a] # "none" => (a \in S <=> b \in S)
      PROVE  ClosedUnder(S, KeyEdges(keys))
  BY <1>2 DEF ClosedUnder, KeyEdges, PairsOf
<1> QED BY <1>1, <1>2

\* What plan_groups answers: one document of each group stays, the longest.
Planned(docs, keys, sizes, buckets) ==
  /\ docs \subseteq Nat /\ IsFiniteSet(docs) /\ DOMAIN keys = docs /\ \A d \in docs : sizes[d] \in Nat
  /\ buckets \in Seq(SUBSET docs)
DuplicateEdges(docs, keys, buckets, alike) ==
  {p \in PairsOf(docs) : SameKey(keys[p[1]], keys[p[2]]) \/ (p \in Candidates(buckets) /\ alike[p] = "duplicate")}

\* plan_groups leaves one document of each group, and a longest one.
LEMMA PlanIsSound ==
  ASSUME NEW docs, NEW keys, NEW sizes, NEW buckets, NEW alike, Planned(docs, keys, sizes, buckets),
         NEW d \in docs
  PROVE  LET group == Reach(docs, DuplicateEdges(docs, keys, buckets, alike), d)
         IN  \E e \in group : group \ PlanGroups(keys, sizes, buckets, alike).suppressed = {e}
                              /\ \A f \in group : sizes[f] <= sizes[e]
<1> DEFINE found == Candidates(buckets)
           near == {p \in found : alike[p] = "duplicate"}
           exactKeys == [x \in DOMAIN keys |-> keys[x].exact]
           normalizedKeys == [x \in DOMAIN keys |-> keys[x].normalized]
           edges == KeyEdges(exactKeys) \cup KeyEdges(normalizedKeys) \cup near
           all == DuplicateEdges(docs, keys, buckets, alike)
           suppressed == PlanGroups(keys, sizes, buckets, alike).suppressed
<1>1. /\ docs \subseteq Nat /\ IsFiniteSet(docs) /\ DOMAIN keys = docs /\ \A x \in docs : sizes[x] \in Nat
      /\ buckets \in Seq(SUBSET docs)
  BY DEF Planned
<1>2. suppressed = UNION {group \ {Leader(group, sizes)} : group \in Components(edges)}
  BY DEF PlanGroups
<1>3. found \subseteq PairsOf(docs)
  BY <1>1, NothingLeftOut
<1>4. KeyEdges(exactKeys) \subseteq PairsOf(docs) /\ KeyEdges(normalizedKeys) \subseteq PairsOf(docs)
  BY <1>1 DEF KeyEdges
<1> HIDE DEF suppressed, found, exactKeys, normalizedKeys
<1>5. edges \in SUBSET (docs \X docs)
  BY <1>3, <1>4 DEF PairsOf
<1>6. ASSUME NEW S \in SUBSET docs PROVE ClosedUnder(S, edges) <=> ClosedUnder(S, all)
  <2>1. ClosedUnder(S, edges) <=> ClosedUnder(S, KeyEdges(exactKeys)) /\ ClosedUnder(S, KeyEdges(normalizedKeys)) /\ ClosedUnder(S, near)
    BY DEF ClosedUnder
  <2>2. ClosedUnder(S, KeyEdges(exactKeys))
          <=> \A a, b \in docs : exactKeys[a] = exactKeys[b] /\ exactKeys[a] # "none" => (a \in S <=> b \in S)
    <3>1. DOMAIN exactKeys = docs
      BY <1>1 DEF exactKeys
    <3> QED BY <1>1, <3>1, KeysConnect
  <2>3. ClosedUnder(S, KeyEdges(normalizedKeys))
          <=> \A a, b \in docs : normalizedKeys[a] = normalizedKeys[b] /\ normalizedKeys[a] # "none" => (a \in S <=> b \in S)
    <3>1. DOMAIN normalizedKeys = docs
      BY <1>1 DEF normalizedKeys
    <3> QED BY <1>1, <3>1, KeysConnect
  <2>4. \A x \in docs : exactKeys[x] = keys[x].exact /\ normalizedKeys[x] = keys[x].normalized
    BY <1>1 DEF exactKeys, normalizedKeys
  <2>5. ASSUME ClosedUnder(S, edges), NEW p \in all PROVE p[1] \in S <=> p[2] \in S
    <3>1. p[1] \in docs /\ p[2] \in docs /\ p \in PairsOf(docs)
      BY DEF PairsOf, DuplicateEdges
    <3>2. SameKey(keys[p[1]], keys[p[2]]) \/ p \in near
      BY DEF DuplicateEdges, found
    <3>3. CASE SameKey(keys[p[1]], keys[p[2]])
      BY <3>1, <3>3, <2>1, <2>2, <2>3, <2>4, <2>5 DEF SameKey
    <3>4. CASE p \in near
      <4> HIDE DEF near
      <4> QED BY <3>4, <2>1, <2>5 DEF ClosedUnder
    <3> QED BY <3>2, <3>3, <3>4
  <2>6. ASSUME ClosedUnder(S, all) PROVE ClosedUnder(S, edges)
    <3>1. ASSUME NEW a \in docs, NEW b \in docs, SameKey(keys[a], keys[b]) PROVE a \in S <=> b \in S
      <4>1. a \in Nat /\ b \in Nat
        BY <1>1
      <4>2. SameKey(keys[b], keys[a])
        BY <3>1 DEF SameKey
      <4>3. CASE a < b
        <5>1. <<a, b>> \in all
          BY <4>3, <3>1 DEF DuplicateEdges, PairsOf
        <5> HIDE DEF all
        <5>2. \A e \in all : e[1] \in S <=> e[2] \in S
          BY <2>6 DEF ClosedUnder
        <5> QED BY <5>1, <5>2
      <4>4. CASE b < a
        <5>1. <<b, a>> \in all
          BY <4>4, <4>2 DEF DuplicateEdges, PairsOf
        <5> HIDE DEF all
        <5>2. \A e \in all : e[1] \in S <=> e[2] \in S
          BY <2>6 DEF ClosedUnder
        <5> QED BY <5>1, <5>2
      <4>5. CASE a = b
        BY <4>5
      <4> QED BY <4>1, <4>3, <4>4, <4>5
    <3>2. ClosedUnder(S, KeyEdges(exactKeys)) /\ ClosedUnder(S, KeyEdges(normalizedKeys))
      <4>1. \A a, b \in docs : exactKeys[a] = exactKeys[b] /\ exactKeys[a] # "none" => SameKey(keys[a], keys[b])
        BY <2>4 DEF SameKey
      <4>2. \A a, b \in docs : normalizedKeys[a] = normalizedKeys[b] /\ normalizedKeys[a] # "none" => SameKey(keys[a], keys[b])
        BY <2>4 DEF SameKey
      <4> QED BY <3>1, <4>1, <4>2, <2>2, <2>3
    <3>3. near \subseteq all
      BY <1>3 DEF DuplicateEdges, found
    <3>4. ClosedUnder(S, near)
      <4> HIDE DEF near, all
      <4> QED BY <3>3, <2>6 DEF ClosedUnder
    <3> QED BY <2>1, <3>2, <3>4
  <2>7. ClosedUnder(S, edges) => ClosedUnder(S, all)
    <3> HIDE DEF edges, all
    <3> QED BY <2>5 DEF ClosedUnder
  <2> QED BY <2>6, <2>7
<1>7. Reach(docs, edges, d) = Reach(docs, all, d)
  <2> HIDE DEF edges, all
  <2> QED BY <1>6 DEF Reach
<1>8. \E e \in Reach(docs, edges, d) :
        Reach(docs, edges, d) \ suppressed = {e} /\ \A f \in Reach(docs, edges, d) : sizes[f] <= sizes[e]
  <2> HIDE DEF edges
  <2> QED BY <1>1, <1>2, <1>5, OneStays
<1> HIDE DEF edges, all
<1> QED BY <1>7, <1>8 DEF all, suppressed

\* What a grouping of normalized rows leaves: for each document one that its
\* duplicates lead to, and of the documents of a key one at most.
Rows == UNION {[docs -> TextSet] : docs \in SUBSET Document}

\* Of normalized rows.
LEMMA GroupingKeepsText ==
  ASSUME NEW rows \in Rows, NEW order \in BandOrders
  PROVE  LET docs == DOMAIN rows
             left == docs \ Grouped(rows, order).suppressed
         IN  /\ \A d \in docs : Reach(docs, Duplicates(rows), d) \cap left # {}
             /\ \A d, e \in left : d # e => ~SameKey(SketchKeys(rows)[d], SketchKeys(rows)[e])
<1> DEFINE docs == DOMAIN rows
           keys == SketchKeys(rows)
           sizes == SketchSizes(rows)
           buckets == SketchBuckets(rows, order)
           alike == SketchLikeness(rows)
           suppressed == Grouped(rows, order).suppressed
           edges == DuplicateEdges(docs, keys, buckets, alike)
<1>1. docs \subseteq Document /\ \A d \in docs : rows[d] \in TextSet
  BY DEF Rows
<1>2. Planned(docs, keys, sizes, buckets)
  <2>1. docs \subseteq Nat /\ IsFiniteSet(docs)
    <3> HIDE DEF docs
    <3> QED BY <1>1, CorpusAssumption, FS_Subset
  <2>2. DOMAIN keys = docs
    BY DEF SketchKeys
  <2>3. \A d \in docs : sizes[d] \in Nat
    BY <1>1, CorpusAssumption DEF SketchSizes
  <2>4. buckets \in Seq(SUBSET docs)
    <3>1. order \in [1 .. Cardinality(BandKeys) -> BandKeys] /\ Cardinality(BandKeys) \in Nat
      BY CorpusAssumption, FS_CardinalityType DEF BandOrders
    <3>2. buckets = [n \in 1 .. Cardinality(BandKeys) |-> {d \in docs : order[n] \in ViewsOf[rows[d]].bands}]
      BY <3>1 DEF SketchBuckets
    <3>3. \A n \in 1 .. Cardinality(BandKeys) : {d \in docs : order[n] \in ViewsOf[rows[d]].bands} \in SUBSET docs
      OBVIOUS
    <3> HIDE DEF buckets, docs
    <3> QED BY <3>1, <3>2, <3>3
  <2> HIDE DEF docs, keys, sizes, buckets
  <2> QED BY <2>1, <2>2, <2>3, <2>4 DEF Planned
<1>3. suppressed = PlanGroups(keys, sizes, buckets, alike).suppressed
  BY DEF Grouped
<1>4. edges \subseteq Duplicates(rows)
  BY DEF DuplicateEdges, Duplicates
<1>5. \A d, e \in docs : SameKey(keys[d], keys[e]) /\ d < e => <<d, e>> \in edges
  BY DEF DuplicateEdges, PairsOf
<1> HIDE DEF keys, sizes, buckets, alike, suppressed, edges, docs
<1>6. ASSUME NEW d \in docs
      PROVE  \E e \in Reach(docs, edges, d) : Reach(docs, edges, d) \ suppressed = {e}
  <2>1. \E e \in Reach(docs, edges, d) :
          Reach(docs, edges, d) \ suppressed = {e} /\ \A f \in Reach(docs, edges, d) : sizes[f] <= sizes[e]
    BY <1>2, <1>3, PlanIsSound DEF edges
  <2> QED BY <2>1
<1>7. ASSUME NEW d \in docs PROVE Reach(docs, Duplicates(rows), d) \cap (docs \ suppressed) # {}
  <2>1. PICK e \in Reach(docs, edges, d) : Reach(docs, edges, d) \ suppressed = {e}
    BY <1>6
  <2>2. Reach(docs, edges, d) \subseteq Reach(docs, Duplicates(rows), d)
    BY <1>4 DEF Reach, ClosedUnder
  <2>3. e \in docs
    BY DEF Reach
  <2> QED BY <2>1, <2>2, <2>3
<1>8. ASSUME NEW d \in docs \ suppressed, NEW e \in docs \ suppressed, d # e, SameKey(keys[d], keys[e]) PROVE FALSE
  <2>0. d \in Nat /\ e \in Nat
    BY <1>2 DEF Planned
  <2>1. SameKey(keys[e], keys[d])
    BY <1>8 DEF SameKey
  <2>2. <<d, e>> \in edges \/ <<e, d>> \in edges
    BY <1>5, <1>8, <2>0, <2>1
  <2>3. e \in Reach(docs, edges, d) /\ d \in Reach(docs, edges, d)
    <3>1. ASSUME NEW some \in SUBSET docs, ClosedUnder(some, edges), d \in some PROVE e \in some
      <4>1. \A p \in edges : p[1] \in some <=> p[2] \in some
        BY <3>1 DEF ClosedUnder
      <4> QED BY <2>2, <3>1, <4>1
    <3> QED BY <3>1 DEF Reach
  <2> QED BY <2>3, <1>6, <1>8
<1> QED BY <1>7, <1>8 DEF docs, suppressed, keys

-----------------------------------------------------------------------------
(***************************************************************************)
(* Snapshots.  Made of what they name; nothing is taken out of them but    *)
(* that their files may be lost.                                           *)
(***************************************************************************)
Ups == UNION {[some -> Nat] : some \in SUBSET StageSet}
Shots == [stage : StageSet, rows : Rows, quarantined : SUBSET Document, up : Ups, sound : BOOLEAN]

\* What the stage of a snapshot has made of the ones it names.
MadeOf(shots, shot) ==
  /\ DOMAIN shot.up = InputsOf[shot.stage]
  /\ \A i \in InputsOf[shot.stage] : shot.up[i] \in DOMAIN shots /\ shots[shot.up[i]].stage = i
  /\ shot.stage = "normalize" =>
       LET given == shots[shot.up["extract"]].rows
       IN  DOMAIN shot.rows = (DOMAIN given) \ shot.quarantined /\ \A d \in DOMAIN shot.rows : shot.rows[d] = given[d]
  /\ shot.stage = "dedupe" =>
       LET given == shots[shot.up["normalize"]].rows
       IN  \E order \in BandOrders : DOMAIN shot.rows = (DOMAIN given) \cap Grouped(given, order).suppressed
  /\ shot.stage = "chunk" =>
       LET given == shots[shot.up["normalize"]].rows
       IN  /\ (DOMAIN shot.rows) \cup shot.quarantined = (DOMAIN given) \ DOMAIN shots[shot.up["dedupe"]].rows
           /\ \A d \in DOMAIN shot.rows : shot.rows[d] = given[d]

ShotsInv(shots) == shots \in Seq(Shots) /\ \A n \in DOMAIN shots : MadeOf(shots, shots[n])

\* The snapshots are there afterwards, with what they held.
StillThere(shots, more) ==
  \A n \in DOMAIN shots :
    /\ n \in DOMAIN more /\ more[n].stage = shots[n].stage /\ more[n].rows = shots[n].rows
    /\ more[n].quarantined = shots[n].quarantined /\ more[n].up = shots[n].up

\* What a snapshot was made of does not change.
LEMMA MadeStays ==
  ASSUME NEW shots, NEW more, StillThere(shots, more), NEW shot, MadeOf(shots, shot), NEW same,
         same.stage = shot.stage, same.rows = shot.rows, same.quarantined = shot.quarantined, same.up = shot.up
  PROVE  MadeOf(more, same)
<1>1. \A i \in InputsOf[shot.stage] :
        shot.up[i] \in DOMAIN more /\ more[shot.up[i]].stage = i /\ more[shot.up[i]].rows = shots[shot.up[i]].rows
  BY DEF MadeOf, StillThere
<1>2. "extract" \in InputsOf["normalize"] /\ "normalize" \in InputsOf["dedupe"]
      /\ "normalize" \in InputsOf["chunk"] /\ "dedupe" \in InputsOf["chunk"]
  BY DEF InputsOf
<1> QED BY <1>1, <1>2 DEF MadeOf

\* A snapshot that was made of the others is appended.
LEMMA ShotsGrow ==
  ASSUME NEW shots, ShotsInv(shots), NEW shot \in Shots, MadeOf(shots, shot)
  PROVE  /\ ShotsInv(Append(shots, shot)) /\ StillThere(shots, Append(shots, shot))
         /\ Len(Append(shots, shot)) = Len(shots) + 1 /\ Append(shots, shot)[Len(shots) + 1] = shot
         /\ \A n \in 1 .. Len(shots) : Append(shots, shot)[n] = shots[n]
<1> DEFINE more == Append(shots, shot)
<1>1. shots \in Seq(Shots) /\ Len(shots) \in Nat /\ DOMAIN shots = 1 .. Len(shots)
  BY DEF ShotsInv
<1>2. more \in Seq(Shots) /\ Len(more) = Len(shots) + 1 /\ more[Len(shots) + 1] = shot
      /\ \A n \in 1 .. Len(shots) : more[n] = shots[n]
  BY <1>1
<1>3. DOMAIN more = 1 .. (Len(shots) + 1)
  BY <1>2, <1>1
<1> HIDE DEF more
<1>4. StillThere(shots, more)
  BY <1>1, <1>2, <1>3 DEF StillThere
<1>5. ASSUME NEW n \in DOMAIN more PROVE MadeOf(more, more[n])
  <2>1. CASE n \in 1 .. Len(shots)
    <3>1. MadeOf(shots, shots[n]) /\ more[n] = shots[n]
      BY <2>1, <1>1, <1>2 DEF ShotsInv
    <3> QED BY <3>1, <1>4, MadeStays
  <2>2. CASE n = Len(shots) + 1
    <3>1. more[n] = shot
      BY <2>2, <1>2
    <3> QED BY <3>1, <1>4, MadeStays
  <2> QED BY <2>1, <2>2, <1>1, <1>3
<1> QED BY <1>2, <1>4, <1>5 DEF ShotsInv, more

\* The files of a snapshot are lost; what it names is as it was.
LEMMA ShotsLose ==
  ASSUME NEW shots, ShotsInv(shots), NEW n \in DOMAIN shots
  PROVE  LET more == [shots EXCEPT ![n].sound = FALSE] IN ShotsInv(more) /\ StillThere(shots, more) /\ Len(more) = Len(shots)
<1> DEFINE more == [shots EXCEPT ![n].sound = FALSE]
<1>1. shots \in Seq(Shots) /\ shots[n] \in Shots /\ DOMAIN shots = 1 .. Len(shots) /\ Len(shots) \in Nat
  BY DEF ShotsInv
<1>2. [shots[n] EXCEPT !.sound = FALSE] \in Shots
  BY <1>1 DEF Shots
<1>3. more = [shots EXCEPT ![n] = [shots[n] EXCEPT !.sound = FALSE]]
  BY <1>1
<1>4. more \in Seq(Shots) /\ Len(more) = Len(shots) /\ DOMAIN more = DOMAIN shots
  <2> HIDE DEF more
  <2> QED BY <1>1, <1>2, <1>3
<1>5. ASSUME NEW k \in DOMAIN shots
      PROVE  more[k].stage = shots[k].stage /\ more[k].rows = shots[k].rows
             /\ more[k].quarantined = shots[k].quarantined /\ more[k].up = shots[k].up
  <2>1. CASE k = n
    <3>1. more[k] = [shots[n] EXCEPT !.sound = FALSE]
      BY <2>1, <1>3
    <3> QED BY <3>1, <2>1, <1>1 DEF Shots
  <2>2. CASE k # n
    BY <2>2, <1>3
  <2> QED BY <2>1, <2>2
<1> HIDE DEF more
<1>6. StillThere(shots, more)
  BY <1>4, <1>5 DEF StillThere
<1>7. \A k \in DOMAIN more : MadeOf(more, more[k])
  BY <1>4, <1>5, <1>6, MadeStays DEF ShotsInv
<1> QED BY <1>4, <1>6, <1>7 DEF ShotsInv, more

-----------------------------------------------------------------------------
(***************************************************************************)
(* The chain of snapshots.  Of n stages, in the command that runs, the     *)
(* index names what they are to be read from: the ones that it has come    *)
(* past.                                                                   *)
(***************************************************************************)
Indexes == [StageSet -> Nat]
Walks == [at : 1 .. 5, to : 1 .. 5, force : BOOLEAN, since : Int, index : Indexes, stale : SUBSET StageSet]
Loads == [documents : Rows, chunks : Rows, chain : SUBSET Nat, since : Int]
Corpora == [shots : Seq(Shots), index : Indexes, stale : SUBSET StageSet, walk : Walks \cup {NoWalk},
            loaded : Loads, walks : Nat, losses : Nat, parted : BOOLEAN]

First(n) == {StageAt[i] : i \in 1 .. n}
Indexed(shots, index) ==
  \A s \in StageSet : index[s] # 0 => index[s] \in DOMAIN shots /\ shots[index[s]].stage = s
\* The snapshots that a stage has read are the ones that the index names.
InStep(shots, index, s) == \A i \in InputsOf[s] : shots[index[s]].up[i] = index[i]
\* What serves again was made from what would serve.
StillServes(shots, index, stale, s) == index[s] # 0 /\ s \notin stale /\ ~Partial(shots[index[s]])
Coherent(shots, index, stale, some) ==
  \A s \in some : index[s] # 0 /\ s \notin stale =>
    InStep(shots, index, s) /\ \A i \in InputsOf[s] : StillServes(shots, index, stale, i)
\* Chunks are made from the normalization that their duplicates were found in.
Aligned(shots) ==
  \A n \in DOMAIN shots : shots[n].stage = "chunk" =>
    shots[shots[n].up["dedupe"]].up["normalize"] = shots[n].up["normalize"]

WalkInv(c, n) ==
  /\ Indexed(c.shots, c.walk.index) /\ c.walk.at <= c.walk.to
  /\ \A s \in First(n) : c.index[s] # 0
  /\ c.walk.since >= 0 =>
       /\ c.walk.force /\ c.walk.since <= Len(c.shots)
       /\ \A s \in First(n) : c.index[s] > c.walk.since /\ InStep(c.shots, c.index, s)
WalkCoherent(c, n) ==
  /\ Coherent(c.shots, c.walk.index, c.walk.stale, StageSet)
  /\ \A s \in First(n) : StillServes(c.shots, c.index, c.stale, s)
  /\ c.walk.force => c.walk.to = 5
  /\ Coherent(c.shots, c.index, c.stale, IF c.walk.force THEN First(n) ELSE StageSet)
LoadInv(loaded) ==
  /\ \A d \in DOMAIN loaded.chunks : d \in DOMAIN loaded.documents /\ loaded.documents[d] = loaded.chunks[d]
  /\ loaded.since >= 0 => \A n \in loaded.chain : n > loaded.since
Whole(c) == ~c.parted /\ c.losses = 0
ChainTo(c, n) ==
  /\ c \in Corpora /\ ShotsInv(c.shots) /\ Indexed(c.shots, c.index) /\ LoadInv(c.loaded)
  /\ c.walk # NoWalk => WalkInv(c, n)
  /\ Whole(c) =>
       /\ \A k \in DOMAIN c.shots : c.shots[k].sound
       /\ Aligned(c.shots)
       /\ c.walk = NoWalk => Coherent(c.shots, c.index, c.stale, StageSet)
       /\ c.walk # NoWalk => WalkCoherent(c, n)
ChainInv(c) == ChainTo(c, c.walk.at - 1)

\* The stages in their order: each reads of the ones before it only.
LEMMA StagesAre ==
  /\ StageSet = {"extract", "normalize", "dedupe", "chunk", "load"}
  /\ StageAt[1] = "extract" /\ StageAt[2] = "normalize" /\ StageAt[3] = "dedupe"
  /\ StageAt[4] = "chunk" /\ StageAt[5] = "load"
BY DEF StageSet, StageAt

\* What each stage reads.
LEMMA InputsAre ==
  /\ InputsOf["extract"] = {} /\ InputsOf["normalize"] = {"extract"} /\ InputsOf["dedupe"] = {"normalize"}
  /\ InputsOf["chunk"] = {"normalize", "dedupe"} /\ InputsOf["load"] = {"chunk"}
  /\ DOMAIN InputsOf = StageSet
BY StagesAre DEF InputsOf

\* The first n stages, with all that they read.
LEMMA FirstAre ==
  /\ First(0) = {} /\ First(5) = StageSet
  /\ \A n \in 1 .. 5 :
       /\ First(n) = First(n - 1) \cup {StageAt[n]} /\ StageAt[n] \in StageSet
       /\ StageAt[n] \notin First(n - 1) /\ InputsOf[StageAt[n]] \subseteq First(n - 1)
       /\ First(n) \subseteq StageSet
       /\ \A s \in First(n) : InputsOf[s] \subseteq First(n)
<1>0. 1 .. 0 = {} /\ 1 .. 1 = {1} /\ 1 .. 2 = {1, 2} /\ 1 .. 3 = {1, 2, 3} /\ 1 .. 4 = {1, 2, 3, 4}
      /\ 1 .. 5 = {1, 2, 3, 4, 5}
  OBVIOUS
<1>1. First(0) = {} /\ First(1) = {"extract"} /\ First(2) = {"extract", "normalize"}
      /\ First(3) = {"extract", "normalize", "dedupe"}
  BY <1>0, StagesAre DEF First
<1>2. First(4) = {"extract", "normalize", "dedupe", "chunk"} /\ First(5) = StageSet
  BY <1>0, StagesAre DEF First
<1>3. SUFFICES ASSUME NEW n \in 1 .. 5
      PROVE  /\ First(n) = First(n - 1) \cup {StageAt[n]} /\ StageAt[n] \in StageSet
             /\ StageAt[n] \notin First(n - 1) /\ InputsOf[StageAt[n]] \subseteq First(n - 1)
             /\ First(n) \subseteq StageSet
             /\ \A s \in First(n) : InputsOf[s] \subseteq First(n)
  BY <1>1, <1>2
<1>4. CASE n = 1
  BY <1>4, <1>1, StagesAre, InputsAre
<1>5. CASE n = 2
  BY <1>5, <1>1, StagesAre, InputsAre
<1>6. CASE n = 3
  BY <1>6, <1>1, StagesAre, InputsAre
<1>7. CASE n = 4
  BY <1>7, <1>1, <1>2, StagesAre, InputsAre
<1>8. CASE n = 5
  BY <1>8, <1>2, StagesAre, InputsAre
<1> QED BY <1>4, <1>5, <1>6, <1>7, <1>8

\* What is invalidated below a stage holds it and everything that reads of it.
LEMMA BelowIsClosed ==
  ASSUME NEW stage \in StageSet
  PROVE  /\ stage \in InvalidateBelow(stage) /\ InvalidateBelow(stage) \subseteq StageSet
         /\ \A s \in StageSet : \A i \in InputsOf[s] :
              i \in InvalidateBelow(stage) => s \in InvalidateBelow(stage)
<1>1. DownstreamOf["extract"] = StageSet /\ DownstreamOf["normalize"] = StageSet \ {"extract"}
      /\ DownstreamOf["dedupe"] = {"dedupe", "chunk", "load"} /\ DownstreamOf["chunk"] = {"chunk", "load"}
      /\ DownstreamOf["load"] = {"load"}
  BY DEF DownstreamOf
<1> QED BY <1>1, StagesAre, InputsAre DEF InvalidateBelow

\* Inputs are stages.
LEMMA InputsAreStages ==
  ASSUME NEW s \in StageSet PROVE InputsOf[s] \subseteq StageSet
BY StagesAre, InputsAre

\* More snapshots, or the same with other files, leave what is said of names.
LEMMA KeptInStep ==
  ASSUME NEW shots, NEW more, StillThere(shots, more), NEW index \in Indexes, Indexed(shots, index)
  PROVE  /\ Indexed(more, index)
         /\ \A s \in StageSet : index[s] # 0 =>
              more[index[s]].up = shots[index[s]].up /\ (Partial(more[index[s]]) <=> Partial(shots[index[s]]))
         /\ \A stale, some \in SUBSET StageSet :
              Coherent(shots, index, stale, some) => Coherent(more, index, stale, some)
<1>1. \A s \in StageSet : index[s] # 0 =>
        /\ index[s] \in DOMAIN more /\ more[index[s]].stage = s
        /\ more[index[s]].up = shots[index[s]].up /\ more[index[s]].rows = shots[index[s]].rows
        /\ more[index[s]].quarantined = shots[index[s]].quarantined
  BY DEF StillThere, Indexed
<1>2. \A s \in StageSet : index[s] # 0 => (Partial(more[index[s]]) <=> Partial(shots[index[s]]))
  BY <1>1 DEF Partial
<1>3. ASSUME NEW stale \in SUBSET StageSet, NEW some \in SUBSET StageSet, Coherent(shots, index, stale, some)
      PROVE  Coherent(more, index, stale, some)
  <2> SUFFICES ASSUME NEW s \in some, index[s] # 0, s \notin stale
               PROVE  InStep(more, index, s) /\ \A i \in InputsOf[s] : StillServes(more, index, stale, i)
    BY DEF Coherent
  <2>1. InStep(shots, index, s) /\ \A i \in InputsOf[s] : StillServes(shots, index, stale, i)
    BY <1>3 DEF Coherent
  <2>2. InStep(more, index, s)
    BY <2>1, <1>1 DEF InStep
  <2>3. ASSUME NEW i \in InputsOf[s] PROVE StillServes(more, index, stale, i)
    <3>1. StillServes(shots, index, stale, i) /\ i \in StageSet
      BY <2>1, InputsAreStages
    <3> QED BY <3>1, <1>2 DEF StillServes
  <2> QED BY <2>2, <2>3
<1> QED BY <1>1, <1>2, <1>3 DEF Indexed

\* The same snapshots with other files are aligned like before.
LEMMA KeptAligned ==
  ASSUME NEW shots, NEW more, ShotsInv(shots), StillThere(shots, more), DOMAIN more = DOMAIN shots, Aligned(shots)
  PROVE  Aligned(more)
<1> SUFFICES ASSUME NEW n \in DOMAIN more, more[n].stage = "chunk"
             PROVE  more[more[n].up["dedupe"]].up["normalize"] = more[n].up["normalize"]
  BY DEF Aligned
<1>1. n \in DOMAIN shots /\ shots[n].stage = "chunk" /\ more[n].up = shots[n].up
  BY DEF StillThere
<1>2. MadeOf(shots, shots[n])
  BY <1>1 DEF ShotsInv
<1>3. \A i \in InputsOf["chunk"] : shots[n].up[i] \in DOMAIN shots
  BY <1>1, <1>2 DEF MadeOf
<1>4. shots[n].up["dedupe"] \in DOMAIN shots
  BY <1>3, InputsAre
<1> QED BY <1>1, <1>4 DEF StillThere, Aligned

\* Rows of some of the documents are rows.
LEMMA OnlyIsRows ==
  ASSUME NEW rows \in Rows, NEW docs
  PROVE  /\ Only(rows, docs) \in Rows /\ DOMAIN Only(rows, docs) = (DOMAIN rows) \cap docs
         /\ \A d \in DOMAIN Only(rows, docs) : Only(rows, docs)[d] = rows[d]
<1>1. rows \in [DOMAIN rows -> TextSet] /\ DOMAIN rows \in SUBSET Document
  BY DEF Rows
<1>2. Only(rows, docs) \in [(DOMAIN rows) \cap docs -> TextSet]
  BY <1>1 DEF Only
<1>3. (DOMAIN rows) \cap docs \in SUBSET Document
  BY <1>1
<1>4. Only(rows, docs) \in Rows
  BY <1>2, <1>3 DEF Rows
<1> QED BY <1>4 DEF Only

\* A snapshot that names what the index does, with rows, is a snapshot.
LEMMA MadeIsShot ==
  ASSUME NEW s \in StageSet, NEW up \in Ups, NEW rows \in Rows, NEW quarantined \in SUBSET Document
  PROVE  LET shot == Made(s, up, rows, quarantined)
         IN  /\ shot \in Shots /\ shot.stage = s /\ shot.rows = rows /\ shot.quarantined = quarantined
             /\ shot.up = up /\ shot.sound
BY DEF Made, Shots

\* What the stages read of, by the index.
Named(s, up) ==
  /\ up \in Ups /\ DOMAIN up = InputsOf[s]
  /\ \A i \in InputsOf[s] :
       up[i] = corpus.index[i] /\ up[i] \in DOMAIN corpus.shots /\ corpus.shots[up[i]].stage = i
       /\ corpus.shots[up[i]].rows \in Rows /\ corpus.shots[up[i]].quarantined \in SUBSET Document

\* _upstream_options: what the index names is there to be read.
LEMMA UpstreamIsNamed ==
  ASSUME corpus \in Corpora, Indexed(corpus.shots, corpus.index), NEW s \in StageSet,
         \A i \in InputsOf[s] : corpus.index[i] # 0
  PROVE  Named(s, Upstream(s))
<1>0. corpus.index \in [StageSet -> Nat] /\ corpus.shots \in Seq(Shots)
  BY DEF Corpora, Indexes
<1>1. Upstream(s) = [i \in InputsOf[s] |-> corpus.index[i]] /\ InputsOf[s] \in SUBSET StageSet
  BY InputsAreStages DEF Upstream
<1>2. Upstream(s) \in Ups
  <2>1. Upstream(s) \in [InputsOf[s] -> Nat]
    BY <1>0, <1>1
  <2> QED BY <2>1, <1>1 DEF Ups
<1>3. \A i \in InputsOf[s] :
        corpus.index[i] \in DOMAIN corpus.shots /\ corpus.shots[corpus.index[i]].stage = i
  BY <1>1 DEF Indexed
<1>4. \A n \in DOMAIN corpus.shots :
        corpus.shots[n].rows \in Rows /\ corpus.shots[n].quarantined \in SUBSET Document
  <2>1. \A n \in DOMAIN corpus.shots : corpus.shots[n] \in Shots
    BY <1>0
  <2> QED BY <2>1 DEF Shots
<1> QED BY <1>1, <1>2, <1>3, <1>4 DEF Named

\* What each stage may publish.
Makes(s, up, shot) ==
  /\ shot \in Shots /\ shot.stage = s /\ shot.up = up /\ shot.sound /\ MadeOf(corpus.shots, shot)
  /\ s = "load" => shot.rows = corpus.shots[up["chunk"]].rows

\* Extraction: any texts of any of the documents.
LEMMA ExtractMakes ==
  ASSUME NEW s \in StageSet, s = "extract", NEW up, Named(s, up), NEW shot \in Extract(up)
  PROVE  Makes(s, up, shot)
<1>1. PICK rows \in UNION {[docs -> TextSet] : docs \in SUBSET Document} :
        shot = Made("extract", up, rows, Document \ DOMAIN rows)
  BY Zenon DEF Extract
<1>2. rows \in Rows
  BY DEF Rows
<1>3. shot = Made(s, up, rows, Document \ DOMAIN rows) /\ Document \ DOMAIN rows \in SUBSET Document
  BY <1>1
<1>4. shot \in Shots /\ shot.stage = s /\ shot.up = up /\ shot.sound
  BY <1>2, <1>3, MadeIsShot DEF Named
<1>5. MadeOf(corpus.shots, shot)
  BY <1>4 DEF MadeOf, Named
<1> QED BY <1>4, <1>5 DEF Makes

\* Normalization: the documents that are fit, and the others in quarantine.
LEMMA NormalizeMakes ==
  ASSUME NEW s \in StageSet, s = "normalize", NEW up, Named(s, up), NEW shot \in Normalize(up)
  PROVE  Makes(s, up, shot)
<1> DEFINE given == corpus.shots[up["extract"]].rows
           refused == Unusable(given)
           rows == Only(given, Document \ refused)
<1>1. given \in Rows
  BY InputsAre DEF Named
<1>2. shot = Made(s, up, rows, refused)
  BY DEF Normalize, DocumentInputs, Shot
<1>3. refused \in SUBSET Document /\ refused \subseteq DOMAIN given /\ DOMAIN given \subseteq Document
  BY <1>1 DEF Unusable, Rows
<1> HIDE DEF refused, given
<1>4. rows \in Rows /\ DOMAIN rows = (DOMAIN given) \cap (Document \ refused)
      /\ \A d \in DOMAIN rows : rows[d] = given[d]
  BY <1>1, OnlyIsRows
<1> HIDE DEF rows
<1>5. shot \in Shots /\ shot.stage = s /\ shot.up = up /\ shot.sound /\ shot.rows = rows /\ shot.quarantined = refused
  BY <1>2, <1>3, <1>4, MadeIsShot DEF Named
<1>6. DOMAIN shot.rows = (DOMAIN given) \ shot.quarantined
  BY <1>3, <1>4, <1>5
<1>7. MadeOf(corpus.shots, shot)
  BY <1>4, <1>5, <1>6 DEF MadeOf, Named, given
<1> QED BY <1>5, <1>7 DEF Makes

\* Dedupe: the suppressed documents of a plan of groups.
LEMMA DedupeMakes ==
  ASSUME NEW s \in StageSet, s = "dedupe", NEW up, Named(s, up), NEW shot \in Dedupe(up)
  PROVE  Makes(s, up, shot)
<1> DEFINE given == corpus.shots[up["normalize"]].rows
<1>1. given \in Rows
  BY InputsAre DEF Named
<1>2. PICK order \in BandOrders : shot = Made(s, up, Only(given, Grouped(given, order).suppressed), {})
  BY Zenon DEF Dedupe, NormalizedInputs, Shot
<1> DEFINE suppressed == Grouped(given, order).suppressed
           rows == Only(given, suppressed)
<1>3. shot = Made(s, up, rows, {})
  BY <1>2
<1> HIDE DEF given
<1>4. rows \in Rows /\ DOMAIN rows = (DOMAIN given) \cap suppressed
  BY <1>1, OnlyIsRows
<1> HIDE DEF rows
<1>5. shot \in Shots /\ shot.stage = s /\ shot.up = up /\ shot.sound /\ shot.rows = rows
  BY <1>3, <1>4, MadeIsShot DEF Named
<1>6. \E o \in BandOrders : DOMAIN shot.rows = (DOMAIN given) \cap Grouped(given, o).suppressed
  BY <1>4, <1>5
<1>7. MadeOf(corpus.shots, shot)
  BY <1>5, <1>6 DEF MadeOf, Named, given
<1> QED BY <1>5, <1>7 DEF Makes

\* Chunking: what is not suppressed, or in quarantine.
LEMMA ChunkMakes ==
  ASSUME NEW s \in StageSet, s = "chunk", NEW up, Named(s, up), NEW shot \in Chunk(up)
  PROVE  Makes(s, up, shot)
<1> DEFINE all == corpus.shots[up["normalize"]].rows
           twice == corpus.shots[up["dedupe"]].rows
           given == Only(all, Document \ DOMAIN twice)
           refused == Uncut(given)
           rows == Only(given, Document \ refused)
<1>1. all \in Rows
  BY InputsAre DEF Named
<1>2. shot = Made(s, up, rows, refused)
  BY DEF Chunk, ChunkInputs, Shot
<1>3. given \in Rows /\ DOMAIN given = (DOMAIN all) \cap (Document \ DOMAIN twice)
      /\ \A d \in DOMAIN given : given[d] = all[d]
  <2> HIDE DEF all
  <2> QED BY <1>1, OnlyIsRows
<1>4. DOMAIN all \subseteq Document
  BY <1>1 DEF Rows
<1> HIDE DEF all, twice, given
<1>5. refused \in SUBSET Document /\ refused \subseteq DOMAIN given
  BY <1>3, <1>4 DEF Uncut
<1> HIDE DEF refused
<1>6. rows \in Rows /\ DOMAIN rows = (DOMAIN given) \cap (Document \ refused)
      /\ \A d \in DOMAIN rows : rows[d] = given[d]
  BY <1>3, OnlyIsRows
<1> HIDE DEF rows
<1>7. shot \in Shots /\ shot.stage = s /\ shot.up = up /\ shot.sound /\ shot.rows = rows /\ shot.quarantined = refused
  BY <1>2, <1>5, <1>6, MadeIsShot DEF Named
<1>8. (DOMAIN shot.rows) \cup shot.quarantined = (DOMAIN all) \ DOMAIN twice
      /\ \A d \in DOMAIN shot.rows : shot.rows[d] = all[d]
  BY <1>3, <1>4, <1>5, <1>6, <1>7
<1>9. MadeOf(corpus.shots, shot)
  BY <1>7, <1>8 DEF MadeOf, Named, all, twice
<1> QED BY <1>7, <1>9 DEF Makes

\* The load: the rows of the chunks.
LEMMA LoadMakes ==
  ASSUME NEW s \in StageSet, s = "load", NEW up, Named(s, up), NEW shot \in Load(up)
  PROVE  Makes(s, up, shot)
<1> DEFINE rows == corpus.shots[up["chunk"]].rows
<1>1. rows \in Rows
  BY InputsAre DEF Named
<1>2. shot = Made(s, up, rows, {})
  BY DEF Load, Shot
<1> HIDE DEF rows
<1>3. shot \in Shots /\ shot.stage = s /\ shot.up = up /\ shot.sound /\ shot.rows = rows
  BY <1>1, <1>2, MadeIsShot DEF Named
<1>4. MadeOf(corpus.shots, shot)
  BY <1>3 DEF MadeOf, Named
<1> QED BY <1>3, <1>4 DEF Makes, rows

\* A run of a stage publishes one of them.
LEMMA RunMakes ==
  ASSUME NEW s \in StageSet, NEW up, Named(s, up), Run(s, up)
  PROVE  \E shot : Makes(s, up, shot) /\ PublishShot(shot)
<1>1. CASE s = "extract" /\ \E shot \in Extract(up) : PublishShot(shot)
  BY <1>1, ExtractMakes
<1>2. CASE s = "normalize" /\ \E shot \in Normalize(up) : PublishShot(shot)
  BY <1>2, NormalizeMakes
<1>3. CASE s = "dedupe" /\ \E shot \in Dedupe(up) : PublishShot(shot)
  BY <1>3, DedupeMakes
<1>4. CASE s = "chunk" /\ \E shot \in Chunk(up) : PublishShot(shot)
  BY <1>4, ChunkMakes
<1>5. CASE s = "load" /\ \E shot \in Load(up) : PublishShot(shot)
  BY <1>5, LoadMakes
<1> QED BY <1>1, <1>2, <1>3, <1>4, <1>5 DEF Run

\* A walk is none or at one of the stages.
LEMMA WalksAre ==
  ASSUME NEW c \in Corpora
  PROVE  c.walk = NoWalk \/ (c.walk \in Walks /\ c.walk.at \in 1 .. 5 /\ c.walk.to \in 1 .. 5)
BY DEF Corpora, Walks

\* A command that runs is not none.
LEMMA WalksAreWalks ==
  ASSUME NEW walk \in Walks PROVE walk # NoWalk
<1>1. walk.at \in 1 .. 5 /\ NoWalk.at = 0
  BY DEF Walks, NoWalk
<1> QED BY <1>1

\* A command that ends: by an end, a failure or a death.
LEMMA ChainEndKeeps ==
  ASSUME NEW c, NEW n, ChainTo(c, n), NEW parted \in BOOLEAN,
         ~parted => ~c.parted, ~parted /\ c.losses = 0 => Coherent(c.shots, c.index, c.stale, StageSet)
  PROVE  ChainInv([c EXCEPT !.walk = NoWalk, !.parted = parted])
<1> DEFINE d == [c EXCEPT !.walk = NoWalk, !.parted = parted]
<1>1. c \in Corpora
  BY DEF ChainTo
<1>2. d \in Corpora /\ d.shots = c.shots /\ d.index = c.index /\ d.stale = c.stale /\ d.walk = NoWalk
      /\ d.loaded = c.loaded /\ d.losses = c.losses /\ d.parted = parted
  BY <1>1 DEF Corpora
<1> HIDE DEF d
<1>3. ShotsInv(d.shots) /\ Indexed(d.shots, d.index) /\ LoadInv(d.loaded)
  BY <1>2 DEF ChainTo
<1>4. Whole(d) => Whole(c) /\ Coherent(d.shots, d.index, d.stale, StageSet)
  BY <1>2 DEF Whole
<1>5. Whole(c) => (\A k \in DOMAIN c.shots : c.shots[k].sound) /\ Aligned(c.shots)
  BY DEF ChainTo
<1>6. ChainTo(d, d.walk.at - 1)
  BY <1>2, <1>3, <1>4, <1>5 DEF ChainTo
<1> QED BY <1>6 DEF ChainInv, d

\* A command that fails, and parts the stages if it is a forced one.
LEMMA BrokenKeeps ==
  ASSUME NEW c, NEW n, ChainTo(c, n), c.walk # NoWalk
  PROVE  ChainInv(Broken(c))
<1> DEFINE parted == c.parted \/ c.walk.force
<1>1. c \in Corpora
  BY DEF ChainTo
<1>2. c.walk \in Walks
  BY <1>1, WalksAre
<1>3. c.walk.force \in BOOLEAN /\ c.parted \in BOOLEAN
  BY <1>1, <1>2 DEF Corpora, Walks
<1>4. parted \in BOOLEAN /\ (~parted => ~c.parted /\ ~c.walk.force)
  BY <1>3
<1>5. Broken(c) = [c EXCEPT !.walk = NoWalk, !.parted = parted]
  BY <1>1 DEF Broken, Corpora
<1> HIDE DEF parted
<1>6. ~parted /\ c.losses = 0 => Coherent(c.shots, c.index, c.stale, StageSet)
  <2> SUFFICES ASSUME ~parted, c.losses = 0 PROVE Coherent(c.shots, c.index, c.stale, StageSet)
    OBVIOUS
  <2>1. Whole(c) /\ ~c.walk.force
    BY <1>4 DEF Whole
  <2>2. WalkCoherent(c, n)
    BY <2>1 DEF ChainTo
  <2> QED BY <2>1, <2>2 DEF WalkCoherent
<1> QED BY <1>4, <1>5, <1>6, ChainEndKeeps

\* A command that comes past a stage, or to its end.
LEMMA AdvanceKeeps ==
  ASSUME NEW c, ChainTo(c, c.walk.at), c.walk # NoWalk
  PROVE  ChainInv(Advance(c))
<1>1. c \in Corpora
  BY DEF ChainTo
<1>2. c.walk \in Walks /\ c.walk.at \in 1 .. 5 /\ c.walk.to \in 1 .. 5
  BY <1>1, WalksAre
<1>3. WalkInv(c, c.walk.at)
  BY DEF ChainTo
<1>4. Whole(c) => WalkCoherent(c, c.walk.at)
  BY DEF ChainTo
<1>5. CASE c.walk.at = c.walk.to
  <2>1. Advance(c) = [c EXCEPT !.walk = NoWalk, !.parted = c.parted]
    <3>1. Onward(c.walk) = NoWalk
      BY <1>5 DEF Onward
    <3> HIDE DEF NoWalk
    <3>2. Advance(c) = [c EXCEPT !.walk = NoWalk]
      BY <3>1 DEF Advance
    <3> QED BY <3>2, <1>1 DEF Corpora
  <2>2. c.parted \in BOOLEAN
    BY <1>1 DEF Corpora
  <2>3. ~c.parted /\ c.losses = 0 => Coherent(c.shots, c.index, c.stale, StageSet)
    <3> SUFFICES ASSUME ~c.parted, c.losses = 0 PROVE Coherent(c.shots, c.index, c.stale, StageSet)
      OBVIOUS
    <3>1. WalkCoherent(c, c.walk.at)
      BY <1>4 DEF Whole
    <3>2. CASE c.walk.force
      <4>1. c.walk.at = 5 /\ First(5) = StageSet
        BY <3>1, <3>2, <1>5, FirstAre DEF WalkCoherent
      <4> QED BY <4>1, <3>1, <3>2 DEF WalkCoherent
    <3>3. CASE ~c.walk.force
      BY <3>1, <3>3 DEF WalkCoherent
    <3> QED BY <3>2, <3>3
  <2> QED BY <2>1, <2>2, <2>3, ChainEndKeeps
<1>6. CASE c.walk.at # c.walk.to
  <2> DEFINE walk == [c.walk EXCEPT !.at = @ + 1]
             d == [c EXCEPT !.walk = walk]
  <2>1. Advance(c) = d
    <3>1. Onward(c.walk) = walk
      BY <1>6 DEF Onward
    <3> QED BY <3>1 DEF Advance
  <2>2. c.walk.at < c.walk.to
    BY <1>2, <1>3, <1>6 DEF WalkInv
  <2>3. walk \in Walks /\ walk.at = c.walk.at + 1 /\ walk.to = c.walk.to /\ walk.force = c.walk.force
        /\ walk.since = c.walk.since /\ walk.index = c.walk.index /\ walk.stale = c.walk.stale
    BY <1>2, <2>2 DEF Walks
  <2>4. walk # NoWalk
    BY <2>3, WalksAreWalks
  <2> HIDE DEF walk
  <2>5. d \in Corpora /\ d.shots = c.shots /\ d.index = c.index /\ d.stale = c.stale /\ d.walk = walk
        /\ d.loaded = c.loaded /\ d.losses = c.losses /\ d.parted = c.parted
    BY <1>1, <2>3 DEF Corpora
  <2> HIDE DEF d
  <2>6. ShotsInv(d.shots) /\ Indexed(d.shots, d.index) /\ LoadInv(d.loaded)
    BY <2>5 DEF ChainTo
  <2>7. WalkInv(d, c.walk.at)
    BY <1>2, <1>3, <2>2, <2>3, <2>5 DEF WalkInv
  <2>8. Whole(d) => (\A k \in DOMAIN d.shots : d.shots[k].sound) /\ Aligned(d.shots) /\ WalkCoherent(d, c.walk.at)
    <3> SUFFICES ASSUME Whole(d) PROVE (\A k \in DOMAIN d.shots : d.shots[k].sound) /\ Aligned(d.shots) /\ WalkCoherent(d, c.walk.at)
      OBVIOUS
    <3>1. Whole(c)
      BY <2>5 DEF Whole
    <3>2. (\A k \in DOMAIN d.shots : d.shots[k].sound) /\ Aligned(d.shots)
      BY <3>1, <2>5 DEF ChainTo
    <3>3. WalkCoherent(d, c.walk.at)
      BY <1>4, <3>1, <2>3, <2>5 DEF WalkCoherent
    <3> QED BY <3>2, <3>3
  <2>9. ChainTo(d, c.walk.at)
    BY <2>4, <2>5, <2>6, <2>7, <2>8 DEF ChainTo
  <2>10. d.walk.at - 1 = c.walk.at
    BY <2>3, <2>5, <1>2
  <2> QED BY <2>1, <2>9, <2>10 DEF ChainInv
<1> QED BY <1>5, <1>6

\* A new attempt of stage at: shot, which names what the index does.
Attempt(shots, shot, index, stale, at) ==
  /\ ShotsInv(shots) /\ shot \in Shots /\ MadeOf(shots, shot) /\ at \in 1 .. 5 /\ shot.stage = StageAt[at]
  /\ index \in Indexes /\ Indexed(shots, index) /\ stale \in SUBSET StageSet
  /\ \A i \in InputsOf[StageAt[at]] : shot.up[i] = index[i]

\* It is indexed as the last of the snapshots, and no other entry is changed.
Attempted(shots, shot, index, s, more, later) ==
  /\ ShotsInv(more) /\ StillThere(shots, more) /\ later \in Indexes /\ Indexed(more, later)
  /\ Len(more) = Len(shots) + 1 /\ Len(shots) \in Nat /\ more[Len(shots) + 1] = shot
  /\ DOMAIN more = 1 .. (Len(shots) + 1) /\ DOMAIN shots = 1 .. Len(shots)
  /\ \A n \in DOMAIN shots : more[n] = shots[n]
  /\ later[s] = Len(shots) + 1
  /\ \A t \in StageSet : t # s => later[t] = index[t]
  /\ InStep(more, later, s)
  /\ \A t \in StageSet : t # s /\ index[t] # 0 /\ s \notin InputsOf[t] /\ InStep(shots, index, t)
       => InStep(more, later, t)

\* So it is for each attempt.
LEMMA AttemptIsIndexed ==
  ASSUME NEW shots, NEW shot, NEW index, NEW stale, NEW at, Attempt(shots, shot, index, stale, at)
  PROVE  Attempted(shots, shot, index, StageAt[at], Append(shots, shot),
                   [index EXCEPT ![StageAt[at]] = Len(shots) + 1])
<1> DEFINE s == StageAt[at]
           more == Append(shots, shot)
           n == Len(shots) + 1
           later == [index EXCEPT ![s] = n]
<1>1. /\ ShotsInv(more) /\ StillThere(shots, more) /\ Len(more) = n /\ more[n] = shot
      /\ \A k \in 1 .. Len(shots) : more[k] = shots[k]
  BY ShotsGrow DEF Attempt
<1>2. Len(shots) \in Nat /\ DOMAIN shots = 1 .. Len(shots) /\ n \in Nat /\ n # 0
  BY DEF Attempt, ShotsInv
<1>3. DOMAIN more = 1 .. n
  BY <1>1, <1>2 DEF ShotsInv
<1>4. s \in StageSet /\ s \notin InputsOf[s]
  BY FirstAre DEF Attempt
<1>5. index \in [StageSet -> Nat]
  BY DEF Attempt, Indexes
<1> HIDE DEF more, s, n
<1>6. later \in [StageSet -> Nat] /\ later[s] = n /\ \A t \in StageSet : t # s => later[t] = index[t]
  BY <1>2, <1>4, <1>5
<1> HIDE DEF later
<1>7. \A t \in StageSet : index[t] # 0 => index[t] \in DOMAIN shots /\ shots[index[t]].stage = t
  BY DEF Attempt, Indexed
<1>8. Indexed(more, later)
  <2> SUFFICES ASSUME NEW t \in StageSet, later[t] # 0 PROVE later[t] \in DOMAIN more /\ more[later[t]].stage = t
    BY DEF Indexed
  <2>1. CASE t = s
    <3>1. shot.stage = s
      BY DEF Attempt, s
    <3> QED BY <2>1, <3>1, <1>1, <1>2, <1>3, <1>6
  <2>2. CASE t # s
    <3>1. later[t] = index[t] /\ index[t] \in 1 .. Len(shots) /\ shots[index[t]].stage = t
      BY <2>2, <1>2, <1>6, <1>7
    <3>2. index[t] \in 1 .. n
      BY <3>1, <1>2 DEF n
    <3> QED BY <3>1, <3>2, <1>1, <1>3
  <2> QED BY <2>1, <2>2
<1>9. InStep(more, later, s)
  <2> SUFFICES ASSUME NEW i \in InputsOf[s] PROVE more[later[s]].up[i] = later[i]
    BY DEF InStep
  <2>1. i \in StageSet /\ i # s
    BY <1>4, InputsAreStages
  <2>2. shot.up[i] = index[i]
    BY DEF Attempt, s
  <2> QED BY <2>1, <2>2, <1>1, <1>6
<1>10. ASSUME NEW t \in StageSet, t # s, index[t] # 0, s \notin InputsOf[t], InStep(shots, index, t)
       PROVE  InStep(more, later, t)
  <2> SUFFICES ASSUME NEW i \in InputsOf[t] PROVE more[later[t]].up[i] = later[i]
    BY DEF InStep
  <2>1. i \in StageSet /\ i # s
    BY <1>10, InputsAreStages
  <2>2. index[t] \in 1 .. Len(shots)
    BY <1>2, <1>7, <1>10
  <2>3. more[later[t]] = shots[index[t]] /\ later[i] = index[i]
    BY <2>1, <2>2, <1>1, <1>6, <1>10
  <2> QED BY <2>3, <1>10 DEF InStep
<1>11. \A k \in DOMAIN shots : more[k] = shots[k]
  BY <1>1, <1>2
<1>12. Attempted(shots, shot, index, s, more, later)
  BY <1>1, <1>2, <1>3, <1>6, <1>8, <1>9, <1>10, <1>11 DEF n, Indexes, Attempted
<1> QED BY <1>12 DEF more, s, n, later

\* What served still serves, and what is coherent stays it, as nothing that was
\* made from an earlier attempt serves.
LEMMA AttemptIsCoherent ==
  ASSUME NEW shots, NEW shot, NEW index, NEW stale, NEW at, Attempt(shots, shot, index, stale, at),
         \A i \in First(at - 1) : StillServes(shots, index, stale, i)
  PROVE  LET more == Append(shots, shot)
             later == [index EXCEPT ![StageAt[at]] = Len(shots) + 1]
             left == stale \ {StageAt[at]}
         IN  /\ \A i \in First(at - 1) : StillServes(more, later, left, i)
             /\ ~Partial(shot) => \A i \in First(at) : StillServes(more, later, left, i)
             /\ Coherent(shots, index, stale, First(at - 1)) =>
                  Coherent(more, later, left, First(at - 1)) /\ Coherent(more, later, left, First(at))
             /\ Coherent(shots, index, stale, StageSet) /\ ~StillServes(shots, index, stale, StageAt[at]) =>
                  Coherent(more, later, left, StageSet)
<1> DEFINE s == StageAt[at]
           more == Append(shots, shot)
           later == [index EXCEPT ![s] = Len(shots) + 1]
           left == stale \ {s}
<1>1. /\ Len(shots) \in Nat /\ more[Len(shots) + 1] = shot /\ later[s] = Len(shots) + 1
      /\ \A k \in DOMAIN shots : more[k] = shots[k]
      /\ \A t \in StageSet : t # s => later[t] = index[t]
      /\ InStep(more, later, s)
      /\ \A t \in StageSet : t # s /\ index[t] # 0 /\ s \notin InputsOf[t] /\ InStep(shots, index, t)
           => InStep(more, later, t)
  <2>1. Attempted(shots, shot, index, s, more, later)
    BY AttemptIsIndexed
  <2> QED BY <2>1 DEF Attempted
<1>2. at \in 1 .. 5
  BY DEF Attempt
<1>3. /\ First(at) = First(at - 1) \cup {s} /\ s \in StageSet /\ s \notin First(at - 1)
      /\ InputsOf[s] \subseteq First(at - 1) /\ First(at) \subseteq StageSet
      /\ \A t \in First(at) : InputsOf[t] \subseteq First(at)
  BY <1>2, FirstAre
<1>4. \A t \in First(at - 1) : InputsOf[t] \subseteq First(at - 1)
  <2>1. CASE at = 1
    BY <2>1, FirstAre
  <2>2. CASE at # 1
    <3>1. at - 1 \in 1 .. 5
      BY <1>2, <2>2
    <3> QED BY <3>1, FirstAre
  <2> QED BY <2>1, <2>2
<1>5. \A t \in StageSet : index[t] # 0 => index[t] \in DOMAIN shots
  BY DEF Attempt, Indexed
<1> HIDE DEF s, more, later
<1>6. ASSUME NEW t \in StageSet, t # s, StillServes(shots, index, stale, t) PROVE StillServes(more, later, left, t)
  <2>1. later[t] = index[t] /\ index[t] # 0 /\ t \notin left /\ index[t] \in DOMAIN shots
    BY <1>1, <1>5, <1>6 DEF StillServes
  <2> QED BY <2>1, <1>1, <1>6 DEF StillServes
<1>7. \A i \in First(at - 1) : StillServes(more, later, left, i)
  BY <1>3, <1>6
<1>8. ~Partial(shot) => StillServes(more, later, left, s)
  BY <1>1 DEF StillServes
<1>9. later[s] # 0 /\ InStep(more, later, s) /\ \A i \in InputsOf[s] : StillServes(more, later, left, i)
  <2>1. later[s] # 0
    BY <1>1
  <2> QED BY <2>1, <1>1, <1>3, <1>7
<1>10. ASSUME Coherent(shots, index, stale, First(at - 1)) PROVE Coherent(more, later, left, First(at - 1))
  <2> SUFFICES ASSUME NEW t \in First(at - 1)
               PROVE  InStep(more, later, t) /\ \A i \in InputsOf[t] : StillServes(more, later, left, i)
    BY DEF Coherent
  <2>1. t \in StageSet /\ t # s /\ InputsOf[t] \subseteq First(at - 1)
    BY <1>3, <1>4
  <2>2. StillServes(shots, index, stale, t)
    OBVIOUS
  <2>3. index[t] # 0 /\ InStep(shots, index, t)
    BY <2>2, <1>10 DEF StillServes, Coherent
  <2> QED BY <2>1, <2>3, <1>1, <1>3, <1>7
<1>11. Coherent(shots, index, stale, First(at - 1)) => Coherent(more, later, left, First(at))
  BY <1>3, <1>9, <1>10 DEF Coherent
<1>12. ASSUME Coherent(shots, index, stale, StageSet), ~StillServes(shots, index, stale, s)
       PROVE  Coherent(more, later, left, StageSet)
  <2> SUFFICES ASSUME NEW t \in StageSet, later[t] # 0, t \notin left
               PROVE  InStep(more, later, t) /\ \A i \in InputsOf[t] : StillServes(more, later, left, i)
    BY DEF Coherent
  <2>1. CASE t = s
    BY <2>1, <1>9
  <2>2. CASE t # s
    <3>1. index[t] # 0 /\ t \notin stale
      BY <2>2, <1>1
    <3>2. InStep(shots, index, t) /\ \A i \in InputsOf[t] : StillServes(shots, index, stale, i)
      BY <3>1, <1>12 DEF Coherent
    <3>3. s \notin InputsOf[t]
      BY <3>2, <1>12
    <3>4. \A i \in InputsOf[t] : StillServes(more, later, left, i)
      BY <3>2, <3>3, <1>6, InputsAreStages
    <3> QED BY <2>2, <3>1, <3>2, <3>3, <3>4, <1>1
  <2> QED BY <2>1, <2>2
<1> QED BY <1>3, <1>7, <1>8, <1>10, <1>11, <1>12 DEF s, more, later

\* The command that runs with a new attempt in the index, of m stages.
LEMMA AttemptKeeps ==
  ASSUME ChainInv(corpus), corpus.walk # NoWalk, NEW shot, Makes(Step, Upstream(Step), shot),
         corpus.walk.force \/ ~Reusable(Step),
         NEW m, m = corpus.walk.at - 1 \/ (m = corpus.walk.at /\ ~Partial(shot)),
         NEW next, next = Index([corpus EXCEPT !.shots = Append(@, shot)], shot.stage)
  PROVE  ChainTo(next, m) /\ next.walk = corpus.walk /\ next.loaded = corpus.loaded
<1> DEFINE at == corpus.walk.at
           s == StageAt[at]
           shots == corpus.shots
           index == corpus.index
           more == Append(shots, shot)
           later == [index EXCEPT ![s] = Len(shots) + 1]
           left == corpus.stale \ {s}
<1>1. corpus \in Corpora /\ ChainTo(corpus, at - 1)
  BY DEF ChainInv, ChainTo
<1>2. corpus.walk \in Walks /\ at \in 1 .. 5
  BY <1>1, WalksAre
<1>3. WalkInv(corpus, at - 1)
  BY <1>1 DEF ChainTo
<1>4. Whole(corpus) => WalkCoherent(corpus, at - 1)
  BY <1>1 DEF ChainTo
<1>5. /\ First(at) = First(at - 1) \cup {s} /\ s \in StageSet /\ s \notin First(at - 1)
      /\ InputsOf[s] \subseteq First(at - 1) /\ First(at) \subseteq StageSet
  BY <1>2, FirstAre
<1>6. Step = s
  BY DEF Step
<1>7. Attempt(shots, shot, index, corpus.stale, at)
  <2>1. shot \in Shots /\ shot.stage = s /\ shot.up = Upstream(s) /\ MadeOf(shots, shot)
    BY <1>6 DEF Makes
  <2>2. \A i \in InputsOf[s] : shot.up[i] = index[i]
    BY <2>1 DEF Upstream
  <2>3. index \in Indexes /\ corpus.stale \in SUBSET StageSet
    BY <1>1 DEF Corpora
  <2>4. ShotsInv(shots) /\ Indexed(shots, index)
    BY <1>1 DEF ChainTo
  <2> QED BY <1>2, <2>1, <2>2, <2>3, <2>4 DEF Attempt
<1>8. Attempted(shots, shot, index, s, more, later)
  BY <1>7, AttemptIsIndexed
<1>9. shot.stage = s /\ shot.sound
  BY <1>6 DEF Makes
<1>10. next \in Corpora /\ next.shots = more /\ next.index = later /\ next.stale = left /\ next.walk = corpus.walk
       /\ next.loaded = corpus.loaded /\ next.losses = corpus.losses /\ next.parted = corpus.parted
  <2>1. more \in Seq(Shots) /\ Len(more) = Len(shots) + 1 /\ later \in Indexes
    BY <1>8 DEF Attempted, ShotsInv
  <2> DEFINE grown == [corpus EXCEPT !.shots = more]
  <2>2. grown \in Corpora /\ grown.shots = more /\ grown.index = index /\ grown.stale = corpus.stale
        /\ grown.walk = corpus.walk /\ grown.loaded = corpus.loaded /\ grown.losses = corpus.losses
        /\ grown.parted = corpus.parted
    <3> HIDE DEF more
    <3> QED BY <1>1, <2>1 DEF Corpora
  <2>3. next = Index(grown, s)
    BY <1>9
  <2> HIDE DEF grown, more
  <2>4. [grown.index EXCEPT ![s] = Len(grown.shots)] = later
    BY <2>1, <2>2
  <2>5. next = [grown EXCEPT !.index = later, !.stale = left]
    BY <2>2, <2>3, <2>4 DEF Index, Corpora
  <2> HIDE DEF later
  <2> QED BY <2>1, <2>2, <2>5, <1>1 DEF Corpora
<1>11. ShotsInv(next.shots) /\ Indexed(next.shots, next.index) /\ LoadInv(next.loaded)
  BY <1>1, <1>8, <1>10 DEF Attempted, ChainTo
<1>12. Whole(next) <=> Whole(corpus)
  BY <1>10 DEF Whole
<1>13. Indexed(more, corpus.walk.index)
       /\ (Coherent(shots, corpus.walk.index, corpus.walk.stale, StageSet)
             => Coherent(more, corpus.walk.index, corpus.walk.stale, StageSet))
  <2>1. corpus.walk.index \in Indexes /\ corpus.walk.stale \in SUBSET StageSet
    BY <1>2 DEF Walks
  <2>2. Indexed(shots, corpus.walk.index) /\ StillThere(shots, more)
    BY <1>3, <1>8 DEF WalkInv, Attempted
  <2> HIDE DEF more, shots
  <2> QED BY <2>1, <2>2, KeptInStep
<1>14. at \in Nat /\ m \in {at - 1, at}
  BY <1>2
<1>15. \A t \in First(at - 1) : t \in StageSet /\ t # s /\ s \notin InputsOf[t]
  <2>1. CASE at = 1
    BY <2>1, FirstAre
  <2>2. CASE at # 1
    <3>1. at - 1 \in 1 .. 5
      BY <1>2, <2>2
    <3> QED BY <3>1, <1>5, FirstAre
  <2> QED BY <2>1, <2>2
<1>16. WalkInv(next, m)
  <2>1. First(m) \subseteq First(at - 1) \cup {s}
    BY <1>5, <1>14
  <2>2. Len(more) = Len(shots) + 1 /\ Len(shots) \in Nat /\ later[s] = Len(shots) + 1 /\ InStep(more, later, s)
        /\ (\A t \in StageSet : t # s => later[t] = index[t])
        /\ (\A t \in StageSet : t # s /\ index[t] # 0 /\ s \notin InputsOf[t] /\ InStep(shots, index, t)
             => InStep(more, later, t))
    BY <1>8 DEF Attempted
  <2> HIDE DEF more, later, shots, index, s
  <2>3. ASSUME NEW t \in First(m) PROVE later[t] # 0
    <3>1. CASE t = s
      BY <3>1, <2>2
    <3>2. CASE t # s
      <4>1. t \in First(at - 1)
        BY <3>2, <2>1
      <4> QED BY <4>1, <2>2, <1>3, <1>15 DEF WalkInv, index
    <3> QED BY <3>1, <3>2
  <2>4. ASSUME corpus.walk.since >= 0
        PROVE  /\ corpus.walk.force /\ corpus.walk.since <= Len(more)
               /\ \A t \in First(m) : later[t] > corpus.walk.since /\ InStep(more, later, t)
    <3>1. corpus.walk.force /\ corpus.walk.since <= Len(shots) /\ corpus.walk.since \in Int
          /\ \A t \in First(at - 1) : index[t] > corpus.walk.since /\ InStep(shots, index, t) /\ index[t] # 0
      BY <2>4, <1>2, <1>3 DEF WalkInv, Walks, shots, index
    <3>2. corpus.walk.since < Len(more)
      BY <2>2, <3>1
    <3>3. ASSUME NEW t \in First(m) PROVE later[t] > corpus.walk.since /\ InStep(more, later, t)
      <4>1. CASE t = s
        BY <4>1, <2>2, <3>2
      <4>2. CASE t # s
        <5>1. t \in First(at - 1)
          BY <4>2, <2>1
        <5> QED BY <5>1, <3>1, <2>2, <1>15
      <4> QED BY <4>1, <4>2
    <3> QED BY <2>2, <3>1, <3>2, <3>3
  <2> QED BY <1>3, <1>10, <1>13, <2>3, <2>4 DEF WalkInv
<1>17. ASSUME Whole(corpus) PROVE (\A k \in DOMAIN more : more[k].sound) /\ Aligned(more) /\ WalkCoherent(next, m)
  <2>1. (\A k \in DOMAIN shots : shots[k].sound) /\ Aligned(shots) /\ WalkCoherent(corpus, at - 1)
    BY <1>17, <1>1, <1>4 DEF ChainTo
  <2>2. \A i \in First(at - 1) : StillServes(shots, index, corpus.stale, i)
    BY <2>1 DEF WalkCoherent
  <2>3. DOMAIN more = 1 .. (Len(shots) + 1) /\ DOMAIN shots = 1 .. Len(shots) /\ Len(shots) \in Nat
        /\ more[Len(shots) + 1] = shot /\ \A n \in DOMAIN shots : more[n] = shots[n]
    BY <1>8 DEF Attempted
  <2>4. \A k \in DOMAIN more : more[k].sound
    <3>1. \A k \in DOMAIN more : k \in DOMAIN shots \/ k = Len(shots) + 1
      BY <2>3
    <3> HIDE DEF more, shots
    <3> QED BY <3>1, <2>1, <2>3, <1>9
  <2>5. corpus.walk.force => Coherent(shots, index, corpus.stale, First(at - 1))
    BY <2>1 DEF WalkCoherent
  <2>6. ~corpus.walk.force => Coherent(shots, index, corpus.stale, StageSet)
    BY <2>1 DEF WalkCoherent
  <2>7. Coherent(shots, index, corpus.stale, First(at - 1))
    BY <2>5, <2>6, <1>5 DEF Coherent
  <2>8. Aligned(more)
    <3> SUFFICES ASSUME NEW k \in DOMAIN more, more[k].stage = "chunk"
                 PROVE  more[more[k].up["dedupe"]].up["normalize"] = more[k].up["normalize"]
      BY DEF Aligned
    <3>1. CASE k \in DOMAIN shots
      <4>1. more[k] = shots[k] /\ shots[k].stage = "chunk" /\ MadeOf(shots, shots[k])
        BY <3>1, <2>3, <1>7 DEF Attempt, ShotsInv
      <4>2. shots[k].up["dedupe"] \in DOMAIN shots
        BY <4>1, InputsAre DEF MadeOf
      <4> HIDE DEF more, shots
      <4> QED BY <3>1, <4>1, <4>2, <2>1, <2>3 DEF Aligned
    <3>2. CASE k = Len(shots) + 1
      <4>1. more[k] = shot /\ s = "chunk"
        BY <3>2, <2>3, <1>9
      <4>2. shot.up["dedupe"] = index["dedupe"] /\ shot.up["normalize"] = index["normalize"]
        BY <4>1, <1>7, InputsAre DEF Attempt
      <4>3. PICK d \in First(at - 1) : d = "dedupe"
        BY <4>1, <1>5, InputsAre
      <4>4. StillServes(shots, index, corpus.stale, d) /\ InStep(shots, index, d)
        BY <2>2, <2>7, <4>3 DEF Coherent, StillServes
      <4>5. shots[index[d]].up["normalize"] = index["normalize"]
        BY <4>3, <4>4, InputsAre DEF InStep
      <4>6. index[d] \in DOMAIN shots
        BY <4>4, <1>5, <1>7 DEF Attempt, Indexed, StillServes
      <4> HIDE DEF more, shots, index
      <4>7. more[k].up["dedupe"] = index[d]
        BY <4>1, <4>2, <4>3
      <4>8. more[index[d]] = shots[index[d]]
        BY <4>6, <2>3
      <4>9. more[more[k].up["dedupe"]] = shots[index[d]]
        BY <4>7, <4>8
      <4>10. more[k].up["normalize"] = index["normalize"]
        BY <4>1, <4>2
      <4> QED BY <4>5, <4>9, <4>10, Zenon
    <3>3. k \in DOMAIN shots \/ k = Len(shots) + 1
      <4> HIDE DEF more, shots
      <4> QED BY <2>3
    <3> QED BY <3>1, <3>2, <3>3
  <2>9. ~corpus.walk.force => ~StillServes(shots, index, corpus.stale, s)
    <3>1. ~corpus.walk.force => ~Reusable(s)
      BY <1>6
    <3>2. index[s] # 0 => index[s] \in DOMAIN shots
      BY <1>5, <1>7 DEF Attempt, Indexed
    <3>3. StillServes(shots, index, corpus.stale, s) => Reusable(s)
      BY <3>2, <2>1 DEF Reusable, StillServes, Shot
    <3> QED BY <3>1, <3>3
  <2>10. /\ \A i \in First(at - 1) : StillServes(more, later, left, i)
         /\ ~Partial(shot) => \A i \in First(at) : StillServes(more, later, left, i)
         /\ Coherent(more, later, left, First(at - 1)) /\ Coherent(more, later, left, First(at))
         /\ ~corpus.walk.force => Coherent(more, later, left, StageSet)
    BY <1>7, <2>2, <2>6, <2>7, <2>9, AttemptIsCoherent
  <2> HIDE DEF more, later, left, shots, index, s
  <2>11. \A i \in First(m) : StillServes(more, later, left, i)
    BY <2>10
  <2>12. Coherent(more, later, left, IF corpus.walk.force THEN First(m) ELSE StageSet)
    <3>1. CASE corpus.walk.force
      <4>1. Coherent(more, later, left, First(m))
        BY <2>10
      <4> QED BY <3>1, <4>1
    <3>2. CASE ~corpus.walk.force
      BY <3>2, <2>10
    <3> QED BY <3>1, <3>2
  <2>13. WalkCoherent(next, m)
    <3>1. Coherent(more, corpus.walk.index, corpus.walk.stale, StageSet) /\ (corpus.walk.force => corpus.walk.to = 5)
      BY <2>1, <1>13 DEF WalkCoherent, shots
    <3> QED BY <3>1, <2>11, <2>12, <1>10 DEF WalkCoherent
  <2> QED BY <2>4, <2>8, <2>13
<1>18. ChainTo(next, m)
  <2> HIDE DEF more, later, left, shots, index, s
  <2> QED BY <1>10, <1>11, <1>12, <1>16, <1>17 DEF ChainTo
<1> QED BY <1>10, <1>18

\* What is loaded in place of what was.
LEMMA ReplacedKeeps ==
  ASSUME NEW c, NEW n, ChainTo(c, n), NEW loads \in Loads, LoadInv(loads)
  PROVE  LET d == [c EXCEPT !.loaded = loads] IN ChainTo(d, n) /\ d.walk = c.walk
<1> DEFINE d == [c EXCEPT !.loaded = loads]
<1>1. c \in Corpora
  BY DEF ChainTo
<1>2. d \in Corpora /\ d.shots = c.shots /\ d.index = c.index /\ d.stale = c.stale /\ d.walk = c.walk
      /\ d.loaded = loads /\ d.losses = c.losses /\ d.parted = c.parted
  BY <1>1 DEF Corpora
<1> HIDE DEF d
<1>3. ShotsInv(d.shots) /\ Indexed(d.shots, d.index) /\ LoadInv(d.loaded)
  BY <1>2 DEF ChainTo
<1>4. d.walk # NoWalk => WalkInv(d, n)
  BY <1>2 DEF ChainTo, WalkInv
<1>5. Whole(d) =>
       /\ \A k \in DOMAIN d.shots : d.shots[k].sound
       /\ Aligned(d.shots)
       /\ d.walk = NoWalk => Coherent(d.shots, d.index, d.stale, StageSet)
  BY <1>2 DEF ChainTo, Whole
<1>6. Whole(d) /\ d.walk # NoWalk => WalkCoherent(d, n)
  <2>1. Whole(d) /\ d.walk # NoWalk => WalkCoherent(c, n)
    BY <1>2 DEF ChainTo, Whole
  <2> QED BY <2>1, <1>2 DEF WalkCoherent
<1>7. ChainTo(d, n)
  BY <1>2, <1>3, <1>4, <1>5, <1>6 DEF ChainTo
<1> QED BY <1>2, <1>7 DEF d

\* The chunks of a snapshot hold the texts that were extracted, over the
\* normalization that it names.
LEMMA ChunksAreOfTheText ==
  ASSUME NEW shots, ShotsInv(shots), NEW n \in DOMAIN shots, shots[n].stage = "chunk"
  PROVE  LET m == shots[n].up["normalize"]
             e == shots[m].up["extract"]
         IN  /\ m \in DOMAIN shots /\ shots[m].stage = "normalize" /\ e \in DOMAIN shots /\ shots[e].stage = "extract"
             /\ \A d \in DOMAIN shots[n].rows :
                  /\ d \in DOMAIN shots[m].rows /\ d \in DOMAIN shots[e].rows
                  /\ shots[n].rows[d] = shots[m].rows[d] /\ shots[m].rows[d] = shots[e].rows[d]
<1> DEFINE m == shots[n].up["normalize"]
           e == shots[m].up["extract"]
<1>1. MadeOf(shots, shots[n])
  BY DEF ShotsInv
<1>2. m \in DOMAIN shots /\ shots[m].stage = "normalize"
  BY <1>1, InputsAre DEF MadeOf
<1>3. \A d \in DOMAIN shots[n].rows : d \in DOMAIN shots[m].rows /\ shots[n].rows[d] = shots[m].rows[d]
  BY <1>1 DEF MadeOf
<1>4. MadeOf(shots, shots[m])
  BY <1>2 DEF ShotsInv
<1>5. e \in DOMAIN shots /\ shots[e].stage = "extract"
  BY <1>2, <1>4, InputsAre DEF MadeOf
<1>6. \A d \in DOMAIN shots[m].rows : d \in DOMAIN shots[e].rows /\ shots[m].rows[d] = shots[e].rows[d]
  BY <1>2, <1>4 DEF MadeOf
<1> HIDE DEF m, e
<1>7. \A d \in DOMAIN shots[n].rows :
        /\ d \in DOMAIN shots[m].rows /\ d \in DOMAIN shots[e].rows
        /\ shots[n].rows[d] = shots[m].rows[d] /\ shots[m].rows[d] = shots[e].rows[d]
  BY <1>3, <1>6
<1> QED BY <1>2, <1>5, <1>7 DEF m, e

\* What a load puts in place.
LEMMA LoadsAreSound ==
  ASSUME ChainInv(corpus), corpus.walk # NoWalk, NEW up, Step = "load", up = Upstream(Step), NEW shot, Makes(Step, up, shot)
  PROVE  LET links == CorpusLinks(shot.up.chunk)
             loads == [documents |-> Shot(links.extraction).rows, chunks |-> shot.rows,
                       chain |-> {shot.up.chunk, Shot(shot.up.chunk).up.dedupe,
                                  links.normalization, links.extraction},
                       since |-> corpus.walk.since]
         IN  loads \in Loads /\ LoadInv(loads)
<1> DEFINE shots == corpus.shots
           index == corpus.index
           k == shot.up["chunk"]
           m == shots[k].up["normalize"]
           e == shots[m].up["extract"]
           t == shots[k].up["dedupe"]
           since == corpus.walk.since
           loads == [documents |-> shots[e].rows, chunks |-> shot.rows, chain |-> {k, t, m, e}, since |-> since]
<1>1. corpus \in Corpora /\ ShotsInv(shots) /\ WalkInv(corpus, corpus.walk.at - 1)
  BY DEF ChainInv, ChainTo
<1>2. corpus.walk \in Walks /\ corpus.walk.at \in 1 .. 5 /\ since \in Int
  BY <1>1, WalksAre DEF Walks
<1>3. corpus.walk.at = 5
  BY <1>2, StagesAre DEF Step
<1>4. MadeOf(shots, shot) /\ shot.stage = "load" /\ shot \in Shots /\ shot.rows = shots[k].rows
  BY DEF Makes
<1>5. k \in DOMAIN shots /\ shots[k].stage = "chunk"
  BY <1>4, InputsAre DEF MadeOf
<1>6. m \in DOMAIN shots /\ shots[m].stage = "normalize" /\ e \in DOMAIN shots /\ shots[e].stage = "extract"
      /\ \A d \in DOMAIN shots[k].rows :
           /\ d \in DOMAIN shots[m].rows /\ d \in DOMAIN shots[e].rows
           /\ shots[k].rows[d] = shots[m].rows[d] /\ shots[m].rows[d] = shots[e].rows[d]
  <2> HIDE DEF shots, k
  <2> QED BY <1>1, <1>5, ChunksAreOfTheText DEF m, e
<1>7. t \in DOMAIN shots
  <2>1. MadeOf(shots, shots[k])
    BY <1>1, <1>5 DEF ShotsInv
  <2> QED BY <2>1, <1>5, InputsAre DEF MadeOf
<1>8. k = index["chunk"]
  BY InputsAre DEF Makes, Upstream
<1>9. First(4) = {"extract", "normalize", "dedupe", "chunk"}
  <2>1. 1 .. 4 = {1, 2, 3, 4}
    OBVIOUS
  <2> QED BY <2>1, StagesAre DEF First
<1>10. ASSUME since >= 0 PROVE k > since /\ t > since /\ m > since /\ e > since
  <2>1. \A s \in First(4) : index[s] > since /\ InStep(shots, index, s)
    BY <1>1, <1>3, <1>10 DEF WalkInv
  <2>2. t = index["dedupe"] /\ m = index["normalize"]
    <3>1. InStep(shots, index, "chunk")
      BY <2>1, <1>9
    <3> QED BY <3>1, <1>8, InputsAre DEF InStep
  <2>3. e = index["extract"]
    <3>1. InStep(shots, index, "normalize")
      BY <2>1, <1>9
    <3> QED BY <3>1, <2>2, InputsAre DEF InStep
  <2> QED BY <1>8, <1>9, <2>1, <2>2, <2>3
<1>11. DOMAIN shots \subseteq Nat /\ shots[e].rows \in Rows /\ shot.rows \in Rows
  <2>1. shots \in Seq(Shots)
    BY <1>1 DEF ShotsInv
  <2>2. shots[e] \in Shots
    <3> HIDE DEF shots, e
    <3> QED BY <2>1, <1>6
  <2>3. shots[e].rows \in Rows
    <3> HIDE DEF shots, e
    <3> QED BY <2>2 DEF Shots
  <2>4. shot.rows \in Rows
    BY <1>4 DEF Shots
  <2>5. DOMAIN shots \subseteq Nat
    <3> HIDE DEF shots
    <3> QED BY <2>1
  <2> QED BY <2>3, <2>4, <2>5
<1>12. loads = LET links == CorpusLinks(shot.up.chunk)
               IN [documents |-> Shot(links.extraction).rows, chunks |-> shot.rows,
                   chain |-> {shot.up.chunk, Shot(shot.up.chunk).up.dedupe, links.normalization, links.extraction},
                   since |-> corpus.walk.since]
  BY DEF CorpusLinks, Linked, Shot
<1>13. {k, t, m, e} \in SUBSET Nat
  BY <1>5, <1>6, <1>7, <1>11
<1> HIDE DEF k, t, m, e, since, shots
<1>14. loads \in Loads
  BY <1>2, <1>11, <1>13 DEF Loads
<1>15. LoadInv(loads)
  <2>1. \A d \in DOMAIN shot.rows : d \in DOMAIN shots[e].rows /\ shots[e].rows[d] = shot.rows[d]
    BY <1>4, <1>6
  <2> QED BY <2>1, <1>10 DEF LoadInv
<1> QED BY <1>12, <1>14, <1>15

\* What a stage publishes keeps the invariant.
LEMMA PublishKeeps ==
  ASSUME ChainInv(corpus), corpus.walk # NoWalk, NEW shot, Makes(Step, Upstream(Step), shot),
         corpus.walk.force \/ ~Reusable(Step), PublishShot(shot)
  PROVE  ChainInv(corpus')
<1> DEFINE next == Index([corpus EXCEPT !.shots = Append(@, shot)], shot.stage)
           loaded == IF shot.stage = "load" THEN Replaced(next, shot) ELSE next
<1>1. corpus' = IF Partial(shot) THEN Broken(next) ELSE Advance(loaded)
  BY DEF PublishShot
<1> HIDE DEF next
<1>2. CASE Partial(shot)
  <2>1. ChainTo(next, corpus.walk.at - 1) /\ next.walk = corpus.walk
    BY AttemptKeeps DEF next
  <2>2. ChainInv(Broken(next))
    BY <2>1, BrokenKeeps
  <2> QED BY <1>1, <1>2, <2>2
<1>3. CASE ~Partial(shot)
  <2>1. ChainTo(next, corpus.walk.at) /\ next.walk = corpus.walk
    BY <1>3, AttemptKeeps DEF next
  <2>2. ChainTo(loaded, corpus.walk.at) /\ loaded.walk = corpus.walk
    <3>1. CASE shot.stage # "load"
      BY <2>1, <3>1
    <3>2. CASE shot.stage = "load"
      <4> DEFINE links == CorpusLinks(shot.up.chunk)
                 loads == [documents |-> Shot(links.extraction).rows, chunks |-> shot.rows,
                           chain |-> {shot.up.chunk, Shot(shot.up.chunk).up.dedupe,
                                      links.normalization, links.extraction},
                           since |-> corpus.walk.since]
      <4>1. Step = "load"
        BY <3>2 DEF Makes
      <4>2. loads \in Loads /\ LoadInv(loads)
        BY <4>1, LoadsAreSound
      <4>3. loaded = [next EXCEPT !.loaded = loads]
        BY <2>1, <3>2 DEF Replaced
      <4> HIDE DEF loads
      <4>4. ChainTo([next EXCEPT !.loaded = loads], corpus.walk.at)
            /\ [next EXCEPT !.loaded = loads].walk = next.walk
        BY <2>1, <4>2, ReplacedKeeps
      <4> HIDE DEF loaded
      <4> QED BY <2>1, <4>3, <4>4
    <3> QED BY <3>1, <3>2
  <2> HIDE DEF loaded
  <2>3. ChainInv(Advance(loaded))
    BY <2>2, AdvanceKeeps
  <2> QED BY <1>1, <1>3, <2>3
<1> QED BY <1>2, <1>3

\* A stage that serves again.
LEMMA ReuseKeeps ==
  ASSUME ChainInv(corpus), Reuse PROVE ChainInv(corpus')
<1> DEFINE at == corpus.walk.at
<1>1. corpus.walk # NoWalk /\ ~corpus.walk.force /\ Reusable(StageAt[at]) /\ corpus' = Advance(corpus)
  BY DEF Reuse, Step
<1>2. corpus \in Corpora /\ ChainTo(corpus, at - 1)
  BY DEF ChainInv, ChainTo
<1>3. corpus.walk \in Walks /\ at \in 1 .. 5
  BY <1>1, <1>2, WalksAre
<1>4. First(at) = First(at - 1) \cup {StageAt[at]}
  BY <1>3, FirstAre
<1>5. WalkInv(corpus, at - 1) /\ (Whole(corpus) => WalkCoherent(corpus, at - 1))
  BY <1>1, <1>2 DEF ChainTo
<1>6. corpus.index[StageAt[at]] # 0 /\ StillServes(corpus.shots, corpus.index, corpus.stale, StageAt[at])
  BY <1>1 DEF Reusable, StillServes, Shot
<1>7. WalkInv(corpus, at)
  BY <1>1, <1>4, <1>5, <1>6 DEF WalkInv
<1>8. Whole(corpus) => WalkCoherent(corpus, at)
  BY <1>1, <1>4, <1>5, <1>6 DEF WalkCoherent
<1>9. ChainTo(corpus, at)
  BY <1>2, <1>7, <1>8 DEF ChainTo
<1>10. ChainInv(Advance(corpus))
  BY <1>1, <1>9, AdvanceKeeps
<1> QED BY <1>1, <1>10

\* A stage that is run: it publishes, or its inputs are not sound.
LEMMA ExecuteKeeps ==
  ASSUME ChainInv(corpus), Execute PROVE ChainInv(corpus')
<1> DEFINE at == corpus.walk.at
           up == Upstream(Step)
<1>1. corpus.walk # NoWalk /\ (corpus.walk.force \/ ~Reusable(Step))
      /\ (Run(Step, up) \/ corpus' = Broken(corpus))
  BY DEF Execute
<1>2. corpus \in Corpora /\ ChainTo(corpus, at - 1)
  BY DEF ChainInv, ChainTo
<1>3. CASE corpus' = Broken(corpus)
  <2>1. ChainInv(Broken(corpus))
    BY <1>1, <1>2, BrokenKeeps
  <2> QED BY <2>1, <1>3
<1>4. CASE Run(Step, up)
  <2>1. corpus.walk \in Walks /\ at \in 1 .. 5
    BY <1>1, <1>2, WalksAre
  <2>2. Step \in StageSet /\ InputsOf[Step] \subseteq First(at - 1)
    BY <2>1, FirstAre DEF Step
  <2>3. \A i \in InputsOf[Step] : corpus.index[i] # 0
    BY <1>1, <1>2, <2>2 DEF ChainTo, WalkInv
  <2>4. Named(Step, up)
    BY <1>2, <2>2, <2>3, UpstreamIsNamed DEF ChainTo
  <2>5. PICK shot : Makes(Step, up, shot) /\ PublishShot(shot)
    <3> HIDE DEF up
    <3> QED BY <1>4, <2>2, <2>4, RunMakes
  <2> QED BY <1>1, <2>5, PublishKeeps
<1> QED BY <1>1, <1>3, <1>4

\* A failure.
LEMMA HaltKeeps ==
  ASSUME ChainInv(corpus), Halt PROVE ChainInv(corpus')
<1>1. corpus.walk # NoWalk /\ corpus' = Broken(corpus)
  BY DEF Halt
<1>2. ChainInv(Broken(corpus))
  BY <1>1, BrokenKeeps DEF ChainInv
<1> QED BY <1>1, <1>2

\* A death takes the index back to what it was when the command began, which
\* was coherent then: a command forces its stages without what is above them.
LEMMA DieKeeps ==
  ASSUME ChainInv(corpus), Die PROVE ChainInv(corpus')
<1> DEFINE walk == corpus.walk
           c == [corpus EXCEPT !.index = walk.index, !.stale = walk.stale]
           parted == corpus.parted \/ walk.force
           d == [c EXCEPT !.walk = NoWalk, !.parted = parted]
<1>1. walk # NoWalk /\ corpus' = Broken(c)
  BY DEF Die
<1>2. corpus \in Corpora /\ ChainTo(corpus, walk.at - 1)
  BY DEF ChainInv, ChainTo
<1>3. walk \in Walks
  BY <1>1, <1>2, WalksAre
<1>4. walk.index \in Indexes /\ walk.stale \in SUBSET StageSet /\ walk.force \in BOOLEAN /\ corpus.parted \in BOOLEAN
  BY <1>2, <1>3 DEF Walks, Corpora
<1> HIDE DEF walk
<1>5. c \in Corpora /\ c.shots = corpus.shots /\ c.index = walk.index /\ c.stale = walk.stale /\ c.walk = walk
      /\ c.loaded = corpus.loaded /\ c.losses = corpus.losses /\ c.parted = corpus.parted
  BY <1>2, <1>4 DEF Corpora, walk
<1> HIDE DEF c
<1>6. Broken(c) = d
  BY <1>5 DEF Broken, Corpora
<1>7. parted \in BOOLEAN /\ (~parted => ~corpus.parted)
  BY <1>4
<1> HIDE DEF parted
<1>8. d \in Corpora /\ d.shots = corpus.shots /\ d.index = walk.index /\ d.stale = walk.stale /\ d.walk = NoWalk
      /\ d.loaded = corpus.loaded /\ d.losses = corpus.losses /\ d.parted = parted
  BY <1>5, <1>7 DEF Corpora
<1> HIDE DEF d
<1>9. WalkInv(corpus, walk.at - 1) /\ ShotsInv(d.shots) /\ LoadInv(d.loaded)
  BY <1>1, <1>2, <1>8 DEF ChainTo, walk
<1>10. Indexed(d.shots, d.index)
  BY <1>8, <1>9 DEF WalkInv, walk
<1>11. ASSUME Whole(d)
       PROVE  (\A k \in DOMAIN d.shots : d.shots[k].sound) /\ Aligned(d.shots) /\ Coherent(d.shots, d.index, d.stale, StageSet)
  <2>1. Whole(corpus)
    BY <1>7, <1>8, <1>11 DEF Whole
  <2>2. (\A k \in DOMAIN corpus.shots : corpus.shots[k].sound) /\ Aligned(corpus.shots)
        /\ WalkCoherent(corpus, walk.at - 1)
    BY <1>1, <1>2, <2>1 DEF ChainTo, walk
  <2> QED BY <2>2, <1>8 DEF WalkCoherent, walk
<1>12. ChainInv(d)
  BY <1>8, <1>9, <1>10, <1>11 DEF ChainInv, ChainTo
<1> QED BY <1>1, <1>6, <1>12

\* A command that begins, with the index that is coherent.
LEMMA AskWalkKeeps ==
  ASSUME ChainInv(corpus), NEW from \in 1 .. 5, NEW to \in {from, 5}, NEW force \in BOOLEAN, AskWalk(from, to, force)
  PROVE  ChainInv(corpus')
<1> DEFINE walk == [at |-> from, to |-> to, force |-> force,
                    since |-> IF force /\ from = 1 THEN Len(corpus.shots) ELSE -1,
                    index |-> corpus.index, stale |-> corpus.stale]
           parted == corpus.parted \/ (force /\ (from # 1 \/ to # 5))
           walks == corpus.walks + 1
           d == [corpus EXCEPT !.walk = walk, !.walks = walks, !.parted = parted]
<1>1. corpus \in Corpora /\ ChainTo(corpus, corpus.walk.at - 1)
  BY DEF ChainInv, ChainTo
<1>2. corpus.walk = NoWalk /\ (\A i \in 1 .. from - 1 : Reusable(StageAt[i])) /\ corpus' = d
  BY <1>1 DEF AskWalk, Corpora
<1>3. Len(corpus.shots) \in Nat
  BY <1>1 DEF Corpora
<1>4. walk \in Walks /\ walk # NoWalk
  <2>1. walk \in Walks
    BY <1>1, <1>3 DEF Walks, Corpora
  <2> QED BY <2>1, WalksAreWalks
<1>5. parted \in BOOLEAN /\ (~parted => ~corpus.parted /\ (force => from = 1 /\ to = 5))
  BY <1>1 DEF Corpora
<1>6. walk.at = from /\ walk.to = to /\ walk.force = force /\ walk.index = corpus.index /\ walk.stale = corpus.stale
      /\ (walk.since >= 0 => force /\ from = 1 /\ walk.since = Len(corpus.shots))
  BY <1>3
<1>15. walks \in Nat
  BY <1>1 DEF Corpora
<1> HIDE DEF walk, walks, parted
<1>7. d \in Corpora /\ d.shots = corpus.shots /\ d.index = corpus.index /\ d.stale = corpus.stale /\ d.walk = walk
      /\ d.loaded = corpus.loaded /\ d.losses = corpus.losses /\ d.parted = parted
  BY <1>1, <1>4, <1>5, <1>15 DEF Corpora
<1> HIDE DEF d
<1>8. ShotsInv(d.shots) /\ Indexed(d.shots, d.index) /\ LoadInv(d.loaded)
  BY <1>1, <1>7 DEF ChainTo
<1>9. ASSUME NEW s \in First(from - 1) PROVE StillServes(d.shots, d.index, d.stale, s)
  <2>1. PICK i \in 1 .. from - 1 : s = StageAt[i]
    BY DEF First
  <2> QED BY <2>1, <1>2, <1>7 DEF Reusable, StillServes, Shot
<1>10. from = 1 => First(from - 1) = {}
  BY FirstAre
<1>11. WalkInv(d, from - 1)
  <2>1. Indexed(d.shots, d.walk.index) /\ d.walk.at <= d.walk.to
    BY <1>6, <1>7, <1>8
  <2>2. \A s \in First(from - 1) : d.index[s] # 0
    BY <1>9 DEF StillServes
  <2>3. d.walk.since >= 0 => d.walk.force /\ d.walk.since <= Len(d.shots) /\ First(from - 1) = {}
    BY <1>3, <1>6, <1>7, <1>10
  <2> QED BY <2>1, <2>2, <2>3 DEF WalkInv
<1>12. ASSUME Whole(d)
       PROVE  (\A k \in DOMAIN d.shots : d.shots[k].sound) /\ Aligned(d.shots) /\ WalkCoherent(d, from - 1)
  <2>1. Whole(corpus) /\ (force => from = 1 /\ to = 5)
    BY <1>5, <1>7, <1>12 DEF Whole
  <2>2. (\A k \in DOMAIN d.shots : d.shots[k].sound) /\ Aligned(d.shots)
        /\ Coherent(d.shots, d.index, d.stale, StageSet)
    BY <1>1, <1>2, <1>7, <2>1 DEF ChainTo
  <2>3. Coherent(d.shots, d.index, d.stale, IF force THEN First(from - 1) ELSE StageSet)
    <3>1. CASE force
      <4>1. Coherent(d.shots, d.index, d.stale, {})
        BY DEF Coherent
      <4> QED BY <3>1, <4>1, <2>1, <1>10
    <3>2. CASE ~force
      BY <3>2, <2>2
    <3> QED BY <3>1, <3>2
  <2>4. WalkCoherent(d, from - 1)
    BY <1>6, <1>7, <1>9, <2>1, <2>2, <2>3 DEF WalkCoherent
  <2> QED BY <2>2, <2>4
<1>13. ChainTo(d, from - 1)
  BY <1>4, <1>7, <1>8, <1>11, <1>12 DEF ChainTo
<1>14. ChainInv(d)
  BY <1>6, <1>7, <1>13 DEF ChainInv
<1> QED BY <1>2, <1>14

\* What is invalidated takes with it what was made from it.
LEMMA AskInvalidateKeeps ==
  ASSUME ChainInv(corpus), NEW stage \in StageSet, AskInvalidate(stage) PROVE ChainInv(corpus')
<1> DEFINE more == {s \in InvalidateBelow(stage) : corpus.index[s] # 0}
           stale == corpus.stale \cup more
           walks == corpus.walks + 1
           d == [corpus EXCEPT !.walks = walks, !.stale = stale]
<1>1. corpus \in Corpora /\ ChainTo(corpus, corpus.walk.at - 1)
  BY DEF ChainInv, ChainTo
<1>2. corpus.walk = NoWalk /\ corpus' = d
  BY <1>1 DEF AskInvalidate, Corpora
<1>3. stale \in SUBSET StageSet
  BY <1>1, BelowIsClosed DEF Corpora
<1>8. walks \in Nat
  BY <1>1 DEF Corpora
<1> HIDE DEF stale, walks
<1>4. d \in Corpora /\ d.shots = corpus.shots /\ d.index = corpus.index /\ d.stale = stale /\ d.walk = NoWalk
      /\ d.loaded = corpus.loaded /\ d.losses = corpus.losses /\ d.parted = corpus.parted
  BY <1>1, <1>2, <1>3, <1>8 DEF Corpora
<1> HIDE DEF d
<1>5. ShotsInv(d.shots) /\ Indexed(d.shots, d.index) /\ LoadInv(d.loaded)
  BY <1>1, <1>4 DEF ChainTo
<1>6. ASSUME Whole(d)
      PROVE  (\A k \in DOMAIN d.shots : d.shots[k].sound) /\ Aligned(d.shots) /\ Coherent(d.shots, d.index, d.stale, StageSet)
  <2>1. (\A k \in DOMAIN d.shots : d.shots[k].sound) /\ Aligned(d.shots)
        /\ Coherent(d.shots, d.index, corpus.stale, StageSet)
    BY <1>1, <1>2, <1>4, <1>6 DEF ChainTo, Whole
  <2>2. ASSUME NEW s \in StageSet, d.index[s] # 0, s \notin stale
        PROVE  InStep(d.shots, d.index, s) /\ \A i \in InputsOf[s] : StillServes(d.shots, d.index, stale, i)
    <3>1. s \notin corpus.stale /\ s \notin InvalidateBelow(stage)
      BY <2>2, <1>4 DEF stale
    <3>2. InStep(d.shots, d.index, s) /\ \A i \in InputsOf[s] : StillServes(d.shots, d.index, corpus.stale, i)
      BY <2>1, <2>2, <3>1 DEF Coherent
    <3>3. \A i \in InputsOf[s] : i \notin InvalidateBelow(stage)
      BY <3>1, BelowIsClosed
    <3>4. \A i \in InputsOf[s] : i \notin stale
      BY <3>2, <3>3 DEF stale, StillServes
    <3> QED BY <3>2, <3>4 DEF StillServes
  <2> QED BY <2>1, <2>2, <1>4 DEF Coherent
<1>7. ChainInv(d)
  BY <1>4, <1>5, <1>6 DEF ChainInv, ChainTo
<1> QED BY <1>2, <1>7

\* A lost file: nothing more is said of coherence.
LEMMA LoseKeeps ==
  ASSUME ChainInv(corpus), NEW n \in 1 .. Len(corpus.shots), Lose(n) PROVE ChainInv(corpus')
<1> DEFINE more == [corpus.shots EXCEPT ![n].sound = FALSE]
           losses == corpus.losses + 1
           d == [corpus EXCEPT !.losses = losses, !.shots = more]
<1>1. corpus \in Corpora /\ ChainTo(corpus, corpus.walk.at - 1)
  BY DEF ChainInv, ChainTo
<1>2. corpus.walk = NoWalk /\ corpus' = d
  BY <1>1 DEF Lose, Corpora
<1>3. n \in DOMAIN corpus.shots
  BY <1>1 DEF Corpora
<1>4. ShotsInv(more) /\ StillThere(corpus.shots, more) /\ more \in Seq(Shots)
  <2>1. ShotsInv(corpus.shots)
    BY <1>1 DEF ChainTo
  <2>2. ShotsInv(more) /\ StillThere(corpus.shots, more)
    BY <1>3, <2>1, ShotsLose
  <2> QED BY <2>2 DEF ShotsInv
<1>9. losses \in Nat /\ losses # 0
  BY <1>1 DEF Corpora
<1> HIDE DEF more, losses
<1>5. d \in Corpora /\ d.shots = more /\ d.index = corpus.index /\ d.stale = corpus.stale /\ d.walk = NoWalk
      /\ d.loaded = corpus.loaded /\ d.losses = losses
  BY <1>1, <1>2, <1>4, <1>9 DEF Corpora
<1> HIDE DEF d
<1>6. Indexed(d.shots, d.index) /\ LoadInv(d.loaded)
  <2>1. Indexed(corpus.shots, corpus.index) /\ corpus.index \in Indexes /\ LoadInv(corpus.loaded)
    BY <1>1 DEF ChainTo, Corpora
  <2>2. Indexed(more, corpus.index)
    BY <2>1, <1>4, KeptInStep
  <2> QED BY <2>1, <2>2, <1>5
<1>7. ~Whole(d)
  BY <1>5, <1>9 DEF Whole
<1>8. ChainInv(d)
  BY <1>4, <1>5, <1>6, <1>7 DEF ChainInv, ChainTo
<1> QED BY <1>2, <1>8

\* At first nothing is there.
LEMMA ChainInitHolds ==
  ASSUME ChainInit PROVE ChainInv(corpus)
<1>1. NoRows \in Rows /\ DOMAIN NoRows = {}
  <2>1. NoRows \in [{} -> TextSet]
    BY DEF NoRows
  <2>2. DOMAIN NoRows = {}
    BY DEF NoRows
  <2> QED BY <2>1, <2>2 DEF Rows
<1>2. corpus.shots = <<>> /\ corpus.walk = NoWalk /\ corpus.index = [s \in StageSet |-> 0]
      /\ corpus.loaded = [documents |-> NoRows, chunks |-> NoRows, chain |-> {}, since |-> -1]
  BY DEF ChainInit
<1> HIDE DEF NoRows
<1>3. corpus \in Corpora
  <2>1. [documents |-> NoRows, chunks |-> NoRows, chain |-> {}, since |-> -1] \in Loads
    BY <1>1 DEF Loads
  <2>2. [s \in StageSet |-> 0] \in Indexes /\ <<>> \in Seq(Shots)
    BY DEF Indexes
  <2> HIDE DEF NoWalk
  <2> QED BY <2>1, <2>2 DEF ChainInit, Corpora
<1>4. ShotsInv(corpus.shots) /\ DOMAIN corpus.shots = {}
  BY <1>2 DEF ShotsInv
<1>5. Indexed(corpus.shots, corpus.index) /\ Coherent(corpus.shots, corpus.index, corpus.stale, StageSet)
  BY <1>2 DEF Indexed, Coherent
<1>6. LoadInv(corpus.loaded)
  BY <1>1, <1>2 DEF LoadInv
<1>7. Aligned(corpus.shots)
  BY <1>4 DEF Aligned
<1> QED BY <1>2, <1>3, <1>4, <1>5, <1>6, <1>7 DEF ChainInv, ChainTo

\* Every step of the chain.
LEMMA ChainStep ==
  ASSUME ChainInv(corpus), ChainNext PROVE ChainInv(corpus')
<1>1. CASE \E from \in 1 .. 5 : \E to \in {from, 5}, force \in BOOLEAN : AskWalk(from, to, force)
  BY <1>1, AskWalkKeeps
<1>2. CASE \E stage \in StageSet : AskInvalidate(stage)
  BY <1>2, AskInvalidateKeeps
<1>3. CASE \E n \in 1 .. Len(corpus.shots) : Lose(n)
  BY <1>3, LoseKeeps
<1> QED BY <1>1, <1>2, <1>3, ReuseKeeps, ExecuteKeeps, HaltKeeps, DieKeeps DEF ChainNext

\* What the invariant says of the texts in the chunks.
LEMMA ChunksHoldTheText ==
  ASSUME ChainInv(corpus) PROVE TextSurvives
<1> DEFINE shots == corpus.shots
<1>1. ShotsInv(shots) /\ (Whole(corpus) => Aligned(shots))
  BY DEF ChainInv, ChainTo
<1> SUFFICES ASSUME Whole(corpus), NEW n \in 1 .. Len(shots), shots[n].stage = "chunk"
             PROVE LET given == Shot(CorpusLinks(n).extraction).rows
                       refused == Shot(CorpusLinks(n).normalization).quarantined
                       normalized == Shot(CorpusLinks(n).normalization).rows
                       chunked == DOMAIN Shot(n).rows \cup Shot(n).quarantined
                   IN  /\ \A d \in DOMAIN given \ refused :
                            /\ d \in DOMAIN normalized
                            /\ Reach(DOMAIN normalized, Duplicates(normalized), d) \cap chunked # {}
                       /\ \A d, e \in chunked :
                            d # e => ~SameKey(SketchKeys(normalized)[d], SketchKeys(normalized)[e])
  BY DEF TextSurvives, Whole, Shot
<1> DEFINE m == shots[n].up["normalize"]
           e == shots[m].up["extract"]
           t == shots[n].up["dedupe"]
           normalized == shots[m].rows
           given == shots[e].rows
           refused == shots[m].quarantined
           chunked == (DOMAIN shots[n].rows) \cup shots[n].quarantined
<1>2. shots \in Seq(Shots) /\ n \in DOMAIN shots
  BY <1>1 DEF ShotsInv
<1>3. m \in DOMAIN shots /\ shots[m].stage = "normalize" /\ t \in DOMAIN shots /\ shots[t].stage = "dedupe"
      /\ chunked = (DOMAIN normalized) \ DOMAIN shots[t].rows
  <2>1. MadeOf(shots, shots[n])
    BY <1>1, <1>2 DEF ShotsInv
  <2>2. m \in DOMAIN shots /\ shots[m].stage = "normalize" /\ t \in DOMAIN shots /\ shots[t].stage = "dedupe"
    BY <2>1, InputsAre DEF MadeOf
  <2> QED BY <2>1, <2>2 DEF MadeOf
<1>4. shots[t].up["normalize"] = m
  BY <1>1, <1>2 DEF Aligned
<1>5. PICK order \in BandOrders : DOMAIN shots[t].rows = (DOMAIN normalized) \cap Grouped(normalized, order).suppressed
  <2>1. MadeOf(shots, shots[t])
    BY <1>1, <1>3 DEF ShotsInv
  <2> QED BY <2>1, <1>3, <1>4 DEF MadeOf
<1>6. DOMAIN normalized = (DOMAIN given) \ refused
  <2>1. MadeOf(shots, shots[m])
    BY <1>1, <1>3 DEF ShotsInv
  <2> QED BY <2>1, <1>3 DEF MadeOf
<1>7. normalized \in Rows
  <2>1. shots[m] \in Shots
    <3> HIDE DEF m, shots
    <3> QED BY <1>2, <1>3
  <2> HIDE DEF m, shots
  <2> QED BY <2>1 DEF Shots
<1>8. given = Shot(CorpusLinks(n).extraction).rows /\ refused = Shot(CorpusLinks(n).normalization).quarantined
      /\ normalized = Shot(CorpusLinks(n).normalization).rows /\ chunked = (DOMAIN Shot(n).rows) \cup Shot(n).quarantined
  BY DEF CorpusLinks, Linked, Shot
<1> HIDE DEF m, e, t, normalized, given, refused, chunked
<1> DEFINE left == (DOMAIN normalized) \ Grouped(normalized, order).suppressed
<1>9. chunked = left
  BY <1>3, <1>5
<1>10. (\A d \in DOMAIN normalized : Reach(DOMAIN normalized, Duplicates(normalized), d) \cap left # {})
       /\ \A d, x \in left : d # x => ~SameKey(SketchKeys(normalized)[d], SketchKeys(normalized)[x])
  BY <1>7, GroupingKeepsText
<1> HIDE DEF left
<1> QED BY <1>6, <1>8, <1>9, <1>10

(***************************************************************************)
(* The client: plans of groups of any finite number of documents with any  *)
(* keys, sizes and buckets; and the commands on the corpus, any number of  *)
(* them, with any losses.                                                  *)
(***************************************************************************)
GroupKeys == [exact : STRING, normalized : STRING]
GroupsAsked ==
  \E docs \in SUBSET Nat : IsFiniteSet(docs) /\
    \E keys \in [docs -> GroupKeys], sizes \in [docs -> Nat], buckets \in Seq(SUBSET docs),
       alike \in [PairsOf(docs) -> {"duplicate", "edition", "other"}] :
      AskGroups(keys, sizes, buckets, alike)
CorpusNext == (UNCHANGED corpus /\ (GroupsAsked \/ Return)) \/ ChainNext
CorpusSpec == call = Ready /\ ChainInit /\ [][CorpusNext]_<<call, corpus>>
CorpusInv == (\A c : c = corpus => ChainInv(c)) /\ OneSurvivor /\ TruncationTold

\* A call of plan_groups answers with a plan that is sound.
LEMMA GroupsAreSound ==
  ASSUME NEW docs \in SUBSET Nat, IsFiniteSet(docs),
         NEW keys \in [docs -> GroupKeys], NEW sizes \in [docs -> Nat], NEW buckets \in Seq(SUBSET docs), NEW alike,
         AskGroups(keys, sizes, buckets, alike)
  PROVE  OneSurvivor' /\ TruncationTold'
<1> DEFINE plan == PlanGroups(keys, sizes, buckets, alike)
           found == Candidates(buckets)
           edges == DuplicateEdges(docs, keys, buckets, alike)
<1>1. call' = [op |-> "groups", keys |-> keys, sizes |-> sizes, buckets |-> buckets, alike |-> alike, plan |-> plan]
  BY DEF AskGroups, Ask
<1>2. Planned(docs, keys, sizes, buckets) /\ DOMAIN keys = docs
  BY DEF Planned
<1>3. ASSUME NEW d \in docs
      PROVE  \E e \in Reach(docs, edges, d) :
               Reach(docs, edges, d) \ plan.suppressed = {e} /\ \A f \in Reach(docs, edges, d) : sizes[f] <= sizes[e]
  BY <1>2, PlanIsSound
<1>4. edges = {p \in PairsOf(docs) :
                 \/ SameKey(keys[p[1]], keys[p[2]])
                 \/ p \in found /\ alike[p] = "duplicate"}
  BY DEF DuplicateEdges
<1>5. plan.truncated \/ \A k \in DOMAIN buckets :
        Cardinality(buckets[k]) <= MaxBucketDocuments => PairsOf(buckets[k]) \subseteq found
  <2>1. plan.truncated <=> Truncated(found)
    BY DEF PlanGroups
  <2> HIDE DEF plan
  <2> QED BY <2>1, NothingLeftOut
<1> HIDE DEF plan
<1>6. OneSurvivor'
  <2>1. call'.keys = keys /\ call'.sizes = sizes /\ call'.buckets = buckets /\ call'.alike = alike /\ call'.plan = plan
    BY <1>1
  <2>2. {p \in PairsOf(DOMAIN call'.keys) :
           \/ SameKey(call'.keys[p[1]], call'.keys[p[2]])
           \/ p \in Candidates(call'.buckets) /\ call'.alike[p] = "duplicate"} = edges
    <3> HIDE DEF edges
    <3> QED BY <2>1, <1>2, <1>4
  <2>3. DOMAIN call'.keys = docs
    BY <2>1, <1>2
  <2> HIDE DEF edges
  <2>4. SUFFICES ASSUME NEW d \in docs
        PROVE  \E e \in Reach(docs, edges, d) :
                 Reach(docs, edges, d) \ call'.plan.suppressed = {e}
                 /\ \A f \in Reach(docs, edges, d) : call'.sizes[f] <= call'.sizes[e]
    BY <2>2, <2>3, Zenon DEF OneSurvivor
  <2> QED BY <2>1, <1>3
<1>7. TruncationTold'
  BY <1>1, <1>5 DEF TruncationTold
<1> QED BY <1>6, <1>7

\* A command on the corpus, or an answer taken, is no plan of groups.
LEMMA NoPlan ==
  ASSUME OneSurvivor, TruncationTold, ChainNext \/ Return \/ UNCHANGED call
  PROVE  OneSurvivor' /\ TruncationTold'
<1>1. call'.op \in {"none", "chain"} \/ call' = call
  <2>1. ASSUME NEW from, NEW to, NEW force, AskWalk(from, to, force) PROVE call'.op = "chain"
    BY <2>1 DEF AskWalk
  <2>2. ASSUME NEW stage, AskInvalidate(stage) PROVE call'.op = "chain"
    BY <2>2 DEF AskInvalidate
  <2>3. ASSUME NEW n, Lose(n) PROVE call' = call
    BY <2>3 DEF Lose
  <2>4. Return => call'.op = "none"
    BY DEF Return, Ready
  <2>5. Reuse \/ Execute \/ Halt \/ Die => call' = call
    BY DEF Reuse, Execute, Halt, Die
  <2> QED BY <2>1, <2>2, <2>3, <2>4, <2>5 DEF ChainNext
<1>2. CASE call'.op \in {"none", "chain"}
  BY <1>2 DEF OneSurvivor, TruncationTold
<1>3. CASE call' = call
  BY <1>3 DEF OneSurvivor, TruncationTold
<1> QED BY <1>1, <1>2, <1>3

\* Theorem: of any documents with any keys and buckets, each group of duplicates
\* has one document that is not suppressed and no shorter than the others, and
\* no pair is left out untold; however the stages are run, run again, forced,
\* interrupted and lost, what is loaded together was made together, a rebuild
\* loads what it made itself, and no text is lost between the extraction and the
\* chunks (pipeline/dedupe, pipeline/control, pipeline/*/stage.py).
THEOREM CorpusIsSafe == CorpusSpec => []CorpusHolds
<1>1. call = Ready /\ ChainInit => CorpusInv
  <2> SUFFICES ASSUME call = Ready, ChainInit PROVE CorpusInv
    OBVIOUS
  <2>1. call.op = "none"
    BY DEF Ready
  <2>2. OneSurvivor /\ TruncationTold
    BY <2>1 DEF OneSurvivor, TruncationTold
  <2> QED BY <2>2, ChainInitHolds DEF CorpusInv
<1>2. CorpusInv /\ [CorpusNext]_<<call, corpus>> => CorpusInv'
  <2> SUFFICES ASSUME CorpusInv, [CorpusNext]_<<call, corpus>> PROVE CorpusInv'
    OBVIOUS
  <2>1. ChainInv(corpus) /\ OneSurvivor /\ TruncationTold
    BY DEF CorpusInv
  <2>2. ChainInv(corpus')
    <3>1. corpus' = corpus \/ ChainNext
      BY DEF CorpusNext
    <3>2. corpus' = corpus => ChainInv(corpus')
      BY <2>1
    <3> QED BY <2>1, <3>1, <3>2, ChainStep
  <2>3. OneSurvivor' /\ TruncationTold'
    <3>1. CASE GroupsAsked
      BY <3>1, GroupsAreSound DEF GroupsAsked
    <3>2. CASE ChainNext \/ Return \/ UNCHANGED call
      BY <3>2, <2>1, NoPlan
    <3> QED BY <3>1, <3>2 DEF CorpusNext
  <2>4. \A c : c = corpus' => ChainInv(c)
    BY <2>2
  <2> QED BY <2>3, <2>4 DEF CorpusInv
<1>3. CorpusInv => CorpusHolds
  <2> SUFFICES ASSUME CorpusInv PROVE CorpusHolds
    OBVIOUS
  <2>1. ChainInv(corpus) /\ OneSurvivor /\ TruncationTold
    BY DEF CorpusInv
  <2>2. LoadedTogether /\ RebuildIsNew
    BY <2>1 DEF ChainInv, ChainTo, LoadInv, LoadedTogether, RebuildIsNew
  <2>3. TextSurvives
    BY <2>1, ChunksHoldTheText
  <2> QED BY <2>1, <2>2, <2>3 DEF CorpusHolds
<1> QED BY <1>1, <1>2, <1>3, PTL DEF CorpusSpec

-----------------------------------------------------------------------------
(***************************************************************************)
(* Sums over finite sets                                                   *)
(***************************************************************************)
\* Induction: what holds of a set when it holds of its proper subsets holds of
\* all finite sets.
LEMMA SubsetInduction ==
  ASSUME NEW S, IsFiniteSet(S), NEW Inductive,
         \A T \in SUBSET S : (\A R \in SUBSET T : R # T => R \in Inductive) => T \in Inductive
  PROVE  \A T \in SUBSET S : T \in Inductive
<1> DEFINE sizes == {Cardinality(T) : T \in (SUBSET S) \ Inductive}
<1>0. \A T \in SUBSET S : IsFiniteSet(T) /\ Cardinality(T) \in Nat
  BY FS_Subset, FS_CardinalityType
<1>a. \A T \in SUBSET S : T \in Inductive \/ Cardinality(T) \in sizes
  OBVIOUS
<1>1. SUFFICES ASSUME sizes # {} PROVE FALSE
  BY <1>a
<1>2. sizes \subseteq Nat
  BY <1>0
<1>3. PICK n \in sizes : \A m \in sizes : n <= m
  <2> HIDE DEF sizes
  <2> QED BY <1>1, <1>2, LeastNumber
<1>4. PICK T \in (SUBSET S) \ Inductive : Cardinality(T) = n
  BY <1>3
<1>5. ASSUME NEW R \in SUBSET T, R # T PROVE R \in Inductive
  <2>1. Cardinality(R) < Cardinality(T) /\ Cardinality(R) \in Nat /\ Cardinality(T) \in Nat
    BY <1>0, <1>4, <1>5, FS_Subset
  <2>2. ~ (n <= Cardinality(R))
    BY <2>1, <1>4
  <2>3. Cardinality(R) \notin sizes
    <3> HIDE DEF sizes
    <3> QED BY <2>2, <1>3
  <2>4. R \in SUBSET S
    BY <1>4
  <2> HIDE DEF sizes
  <2> QED BY <2>3, <2>4, <1>a
<1> QED BY <1>4, <1>5

\* The sums of the values w of all subsets of S, as the folds of the models take
\* them, and the sum of S.
SumsOf(S, w, sums) ==
  sums = [s \in SUBSET S |-> IF s = {} THEN 0 ELSE w[CHOOSE x \in s : TRUE] + sums[s \ {CHOOSE x \in s : TRUE}]]
SumOf(S, w) == LET sums == CHOOSE g : SumsOf(S, w, g) IN sums[S]
Weighs(S, w) == IsFiniteSet(S) /\ \A x \in S : w[x] \in Int

LEMMA SumsExist ==
  ASSUME NEW S, NEW w, Weighs(S, w)
  PROVE  \E sums \in [SUBSET S -> Int] : SumsOf(S, w, sums)
<1> DEFINE D == SUBSET S
           first(s) == CHOOSE x \in s : TRUE
           rank == [s \in D |-> Cardinality(s)]
           pred == [s \in D |-> s \ {first(s)}]
           a == [s \in D |-> 0]
           F == [p \in D \X Int |-> IF p[1] = {} THEN 0 ELSE w[first(p[1])] + p[2]]
<1>0. \A s \in D : IsFiniteSet(s) /\ Cardinality(s) \in Nat /\ Cardinality(s) <= Cardinality(S)
  BY FS_Subset, FS_CardinalityType DEF Weighs
<1>a. Cardinality(S) \in Nat
  BY <1>0
<1>b. \A s \in D : s # {} => first(s) \in s
  OBVIOUS
<1>1. rank \in [D -> Nat] /\ \A s \in D : rank[s] <= Cardinality(S)
  BY <1>0
<1>2. F \in [D \X Int -> Int]
  <2>1. ASSUME NEW s \in D, NEW v \in Int PROVE (IF s = {} THEN 0 ELSE w[first(s)] + v) \in Int
    <3>1. s # {} => w[first(s)] \in Int
      <4> HIDE DEF first
      <4> QED BY <1>b DEF Weighs
    <3> HIDE DEF first
    <3> QED BY <3>1
  <2> HIDE DEF first
  <2> QED BY <2>1
<1>3. ASSUME NEW s \in D \ {{}} PROVE rank[pred[s]] < rank[s]
  <2>1. first(s) \in s
    BY <1>b
  <2>2. pred[s] \in D /\ pred[s] = s \ {first(s)} /\ pred[s] \in SUBSET s /\ pred[s] # s
    <3> HIDE DEF first
    <3> QED BY <2>1
  <2>3. Cardinality(pred[s]) < Cardinality(s)
    <3> HIDE DEF pred, first
    <3> QED BY <2>2, <1>0, FS_Subset
  <2> HIDE DEF pred
  <2> QED BY <2>2, <2>3
<1>4. Descends(D, Int, rank, Cardinality(S), {{}}, a, pred, F)
  <2>1. pred \in [D -> D] /\ a \in [D -> Int] /\ {{}} \in SUBSET D
    OBVIOUS
  <2> HIDE DEF rank, pred, a, F, D
  <2> QED BY <1>1, <1>2, <1>3, <1>a, <2>1 DEF Descends
<1>5. PICK g \in [D -> Int] : \A s \in D : g[s] = IF s \in {{}} THEN a[s] ELSE F[<<s, g[pred[s]]>>]
  <2> HIDE DEF rank, pred, a, F, D
  <2> QED BY <1>4, Recursion
<1>6. ASSUME NEW s \in D PROVE g[s] = IF s = {} THEN 0 ELSE w[first(s)] + g[s \ {first(s)}]
  <2>1. CASE s = {}
    BY <2>1, <1>5
  <2>2. CASE s # {}
    <3>1. s \ {first(s)} \in D /\ pred[s] = s \ {first(s)} /\ g[pred[s]] \in Int
      <4> HIDE DEF first
      <4> QED OBVIOUS
    <3>2. g[s] = F[<<s, g[pred[s]]>>]
      <4> HIDE DEF F, pred, a, D
      <4> QED BY <2>2, <1>5
    <3>3. F[<<s, g[pred[s]]>>] = w[first(s)] + g[pred[s]]
      <4> HIDE DEF first, pred
      <4> QED BY <2>2, <3>1
    <3> HIDE DEF first, pred, F
    <3> QED BY <2>2, <3>1, <3>2, <3>3
  <2> QED BY <2>1, <2>2
<1>7. SumsOf(S, w, g)
  BY <1>6 DEF SumsOf
<1> QED BY <1>7

\* The sums of a subset are the same, whatever set it is a subset of.
LEMMA SumsAgree ==
  ASSUME NEW S, IsFiniteSet(S), NEW T \in SUBSET S, NEW w, NEW v, \A x \in T : w[x] = v[x],
         NEW g, SumsOf(S, w, g), NEW h, SumsOf(T, v, h)
  PROVE  \A R \in SUBSET T : g[R] = h[R]
<1> DEFINE Inductive == {R \in SUBSET T : g[R] = h[R]}
           first(s) == CHOOSE x \in s : TRUE
<1>0. IsFiniteSet(T)
  BY FS_Subset
<1>1. ASSUME NEW R \in SUBSET T, \A Q \in SUBSET R : Q # R => Q \in Inductive PROVE R \in Inductive
  <2>1. g[R] = IF R = {} THEN 0 ELSE w[first(R)] + g[R \ {first(R)}]
    <3> HIDE DEF Inductive
    <3> QED BY SMT DEF SumsOf
  <2>2. h[R] = IF R = {} THEN 0 ELSE v[first(R)] + h[R \ {first(R)}]
    <3> HIDE DEF Inductive
    <3> QED BY SMT DEF SumsOf
  <2>3. R # {} => first(R) \in R
    OBVIOUS
  <2>4. R # {} => R \ {first(R)} \in Inductive
    <3> HIDE DEF Inductive, first
    <3> QED BY <1>1, <2>3
  <2>5. R # {} => g[R \ {first(R)}] = h[R \ {first(R)}] /\ w[first(R)] = v[first(R)]
    <3> HIDE DEF first
    <3> QED BY <2>3, <2>4
  <2> HIDE DEF first
  <2> QED BY <2>1, <2>2, <2>5
<1>2. \A R \in SUBSET T : R \in Inductive
  <2> HIDE DEF Inductive
  <2> QED BY <1>0, <1>1, SubsetInduction
<1> QED BY <1>2

\* The sum of a set by its sums, and of each subset too.
Sums(S, w, sums) == SumsOf(S, w, sums) /\ \A T \in SUBSET S : SumOf(T, w) = sums[T]
LEMMA SumBySums ==
  ASSUME NEW S, NEW w, Weighs(S, w)
  PROVE  \E sums \in [SUBSET S -> Int] : Sums(S, w, sums)
<1>1. PICK g \in [SUBSET S -> Int] : SumsOf(S, w, g)
  BY SumsExist
<1>2. ASSUME NEW T \in SUBSET S PROVE SumOf(T, w) = g[T]
  <2>1. Weighs(T, w)
    BY FS_Subset DEF Weighs
  <2>2. \E k : SumsOf(T, w, k)
    BY <2>1, SumsExist
  <2> DEFINE h == CHOOSE k : SumsOf(T, w, k)
  <2>3. SumsOf(T, w, h)
    BY <2>2
  <2>4. SumOf(T, w) = h[T]
    BY DEF SumOf
  <2>5. \A R \in SUBSET T : g[R] = h[R]
    <3> HIDE DEF h
    <3>1. IsFiniteSet(S) /\ \A x \in T : w[x] = w[x]
      BY DEF Weighs
    <3> QED BY <1>1, <2>3, <3>1, SumsAgree
  <2> HIDE DEF h
  <2> QED BY <2>4, <2>5
<1> QED BY <1>1, <1>2 DEF Sums

LEMMA SumIsInt ==
  ASSUME NEW S, NEW w, Weighs(S, w)
  PROVE  SumOf(S, w) \in Int
<1>1. PICK g \in [SUBSET S -> Int] : Sums(S, w, g)
  BY SumBySums
<1> QED BY <1>1 DEF Sums

LEMMA SumOfNone == ASSUME NEW w PROVE SumOf({}, w) = 0
<1>1. Weighs({}, w)
  BY FS_EmptySet DEF Weighs
<1>2. PICK g \in [SUBSET {} -> Int] : Sums({}, w, g)
  BY <1>1, SumBySums
<1>3. g[{}] = 0
  BY <1>2 DEF Sums, SumsOf
<1> QED BY <1>2, <1>3 DEF Sums

\* Whichever element is taken first.
LEMMA SumAdds ==
  ASSUME NEW S, NEW w, Weighs(S, w), NEW x \in S
  PROVE  SumOf(S, w) = w[x] + SumOf(S \ {x}, w)
<1> DEFINE Inductive == {T \in SUBSET S : \A y \in T : SumOf(T, w) = w[y] + SumOf(T \ {y}, w)}
           first(s) == CHOOSE y \in s : TRUE
<1>0. IsFiniteSet(S) /\ \A y \in S : w[y] \in Int
  BY DEF Weighs
<1>b. PICK g \in [SUBSET S -> Int] : Sums(S, w, g)
  BY SumBySums
<1>1. SumsOf(S, w, g) /\ \A T \in SUBSET S : SumOf(T, w) = g[T]
  BY <1>b DEF Sums
<1>2. ASSUME NEW T \in SUBSET S, T # {}
      PROVE first(T) \in T /\ SumOf(T, w) = w[first(T)] + SumOf(T \ {first(T)}, w)
  <2>1. first(T) \in T
    BY <1>2
  <2>2. g[T] = w[first(T)] + g[T \ {first(T)}]
    BY <1>1, <1>2, SMT DEF SumsOf
  <2> HIDE DEF first
  <2> QED BY <2>1, <2>2, <1>1
<1>3. ASSUME NEW T \in SUBSET S PROVE SumOf(T, w) \in Int
  BY <1>1
<1>4. ASSUME NEW T \in SUBSET S, \A R \in SUBSET T : R # T => R \in Inductive PROVE T \in Inductive
  <2>1. SUFFICES ASSUME NEW y \in T, y # first(T) PROVE SumOf(T, w) = w[y] + SumOf(T \ {y}, w)
    BY <1>2
  <2> HIDE DEF first
  <2>2. first(T) \in T /\ SumOf(T, w) = w[first(T)] + SumOf(T \ {first(T)}, w)
    BY <1>2
  <2> DEFINE A == T \ {first(T)}
             B == T \ {y}
             C == T \ {first(T), y}
  <2>3. A \in Inductive /\ B \in Inductive
    <3> HIDE DEF Inductive
    <3> QED BY <2>1, <2>2, <1>4
  <2>4. SumOf(A, w) = w[y] + SumOf(A \ {y}, w) /\ A \ {y} = C
    BY <2>1, <2>3
  <2>5. SumOf(B, w) = w[first(T)] + SumOf(B \ {first(T)}, w) /\ B \ {first(T)} = C
    BY <2>1, <2>2, <2>3
  <2>6. w[y] \in Int /\ w[first(T)] \in Int /\ SumOf(C, w) \in Int
    BY <1>0, <1>3, <2>2
  <2> HIDE DEF A, B, C, Inductive
  <2>7. SumOf(T, w) = w[first(T)] + (w[y] + SumOf(C, w)) /\ SumOf(B, w) = w[first(T)] + SumOf(C, w)
    BY <2>2, <2>4, <2>5 DEF A, B
  <2>8. SumOf(T, w) = w[y] + SumOf(B, w)
    BY <2>6, <2>7
  <2> QED BY <2>8 DEF B
<1>5. \A T \in SUBSET S : T \in Inductive
  <2> HIDE DEF Inductive
  <2> QED BY <1>0, <1>4, SubsetInduction
<1> QED BY <1>5

\* The sum of two sets without a common element.
LEMMA SumSplits ==
  ASSUME NEW S, NEW w, Weighs(S, w), NEW A \in SUBSET S
  PROVE  SumOf(S, w) = SumOf(A, w) + SumOf(S \ A, w)
<1> DEFINE Inductive == {T \in SUBSET S : SumOf(S, w) = SumOf(T, w) + SumOf(S \ T, w)}
<1>0. IsFiniteSet(S) /\ \A y \in S : w[y] \in Int
  BY DEF Weighs
<1>1. ASSUME NEW T \in SUBSET S PROVE Weighs(T, w) /\ SumOf(T, w) \in Int
  <2>1. Weighs(T, w)
    BY FS_Subset DEF Weighs
  <2> QED BY <2>1, SumIsInt
<1>2. ASSUME NEW T \in SUBSET S, \A R \in SUBSET T : R # T => R \in Inductive PROVE T \in Inductive
  <2>1. CASE T = {}
    <3>1. S \ T = S
      BY <2>1
    <3> QED BY <2>1, <3>1, SumOfNone, <1>1
  <2>2. CASE T # {}
    <3>1. PICK y \in T : TRUE
      BY <2>2
    <3> DEFINE R == T \ {y}
    <3>2. R \in Inductive
      <4> HIDE DEF Inductive
      <4> QED BY <3>1, <1>2
    <3>3. SumOf(T, w) = w[y] + SumOf(R, w)
      BY <1>1, SumAdds
    <3>4. SumOf(S \ R, w) = w[y] + SumOf(S \ T, w)
      <4>1. (S \ R) \ {y} = S \ T /\ y \in S \ R /\ S \ R \in SUBSET S
        OBVIOUS
      <4>2. Weighs(S \ R, w)
        BY <4>1, <1>1
      <4> HIDE DEF R, Inductive
      <4>3. SumOf(S \ R, w) = w[y] + SumOf((S \ R) \ {y}, w)
        BY <4>1, <4>2, SumAdds
      <4> QED BY <4>1, <4>3
    <3>5. SumOf(S, w) = SumOf(R, w) + SumOf(S \ R, w)
      BY <3>2
    <3>6. SumOf(R, w) \in Int /\ SumOf(S \ T, w) \in Int /\ w[y] \in Int
      BY <1>0, <1>1
    <3> HIDE DEF R
    <3>7. SumOf(S, w) = SumOf(T, w) + SumOf(S \ T, w)
      BY <3>3, <3>4, <3>5, <3>6
    <3> QED BY <3>7
  <2> QED BY <2>1, <2>2
<1>3. \A T \in SUBSET S : T \in Inductive
  <2> HIDE DEF Inductive
  <2> QED BY <1>0, <1>2, SubsetInduction
<1> QED BY <1>3

\* What weighs no more sums up to no more; no sum of naturals is negative; and
\* equal weights have one sum.
LEMMA SumIsMonotone ==
  ASSUME NEW S, NEW v, NEW w, Weighs(S, v), Weighs(S, w), \A x \in S : v[x] <= w[x]
  PROVE  SumOf(S, v) <= SumOf(S, w)
<1> DEFINE Inductive == {T \in SUBSET S : SumOf(T, v) <= SumOf(T, w)}
<1>0. IsFiniteSet(S) /\ \A y \in S : v[y] \in Int /\ w[y] \in Int
  BY DEF Weighs
<1>1. ASSUME NEW T \in SUBSET S PROVE Weighs(T, v) /\ Weighs(T, w) /\ SumOf(T, v) \in Int /\ SumOf(T, w) \in Int
  <2>1. Weighs(T, v) /\ Weighs(T, w)
    BY FS_Subset DEF Weighs
  <2> QED BY <2>1, SumIsInt
<1>2. ASSUME NEW T \in SUBSET S, \A R \in SUBSET T : R # T => R \in Inductive PROVE T \in Inductive
  <2>1. CASE T = {}
    BY <2>1, SumOfNone
  <2>2. CASE T # {}
    <3>1. PICK y \in T : TRUE
      BY <2>2
    <3> DEFINE R == T \ {y}
    <3>2. R \in Inductive
      <4> HIDE DEF Inductive
      <4> QED BY <3>1, <1>2
    <3>3. SumOf(T, v) = v[y] + SumOf(R, v) /\ SumOf(T, w) = w[y] + SumOf(R, w)
      BY <1>1, SumAdds
    <3>4. SumOf(R, v) <= SumOf(R, w) /\ SumOf(R, v) \in Int /\ SumOf(R, w) \in Int
      BY <3>2, <1>1
    <3>5. v[y] \in Int /\ w[y] \in Int /\ v[y] <= w[y]
      BY <1>0
    <3> HIDE DEF R
    <3>6. SumOf(T, v) <= SumOf(T, w)
      BY <3>3, <3>4, <3>5
    <3> QED BY <3>6
  <2> QED BY <2>1, <2>2
<1>3. \A T \in SUBSET S : T \in Inductive
  <2> HIDE DEF Inductive
  <2> QED BY <1>0, <1>2, SubsetInduction
<1> QED BY <1>3

LEMMA SumIsNat ==
  ASSUME NEW S, NEW w, IsFiniteSet(S), \A x \in S : w[x] \in Nat
  PROVE  Weighs(S, w) /\ SumOf(S, w) \in Nat
<1> DEFINE none == [x \in S |-> 0]
           Inductive == {T \in SUBSET S : SumOf(T, none) = 0}
<1>1. Weighs(S, w) /\ Weighs(S, none)
  BY DEF Weighs
<1>2. ASSUME NEW T \in SUBSET S, \A R \in SUBSET T : R # T => R \in Inductive PROVE T \in Inductive
  <2>1. CASE T = {}
    BY <2>1, SumOfNone
  <2>2. CASE T # {}
    <3>1. PICK y \in T : TRUE
      BY <2>2
    <3>2. T \ {y} \in Inductive
      <4> HIDE DEF Inductive
      <4> QED BY <3>1, <1>2
    <3>3. Weighs(T, none)
      BY <1>1, FS_Subset DEF Weighs
    <3>4. SumOf(T, none) = none[y] + SumOf(T \ {y}, none)
      <4> HIDE DEF none
      <4> QED BY <3>3, SumAdds
    <3>5. none[y] = 0 /\ SumOf(T \ {y}, none) = 0
      BY <3>2
    <3> HIDE DEF none
    <3> QED BY <3>4, <3>5
  <2> QED BY <2>1, <2>2
<1>3. \A T \in SUBSET S : T \in Inductive
  <2> HIDE DEF Inductive
  <2> QED BY <1>2, SubsetInduction
<1>4. SumOf(S, none) = 0
  BY <1>3
<1>5. SumOf(S, none) <= SumOf(S, w)
  <2>1. \A x \in S : none[x] <= w[x]
    OBVIOUS
  <2> HIDE DEF none
  <2> QED BY <1>1, <2>1, SumIsMonotone
<1> HIDE DEF none
<1> QED BY <1>1, <1>4, <1>5, SumIsInt

LEMMA SumIsOne ==
  ASSUME NEW S, NEW v, NEW w, Weighs(S, v), \A x \in S : v[x] = w[x]
  PROVE  Weighs(S, w) /\ SumOf(S, v) = SumOf(S, w)
<1>1. Weighs(S, w) /\ \A x \in S : v[x] <= w[x] /\ w[x] <= v[x]
  BY DEF Weighs
<1>2. SumOf(S, v) <= SumOf(S, w) /\ SumOf(S, w) <= SumOf(S, v)
  BY <1>1, SumIsMonotone
<1> QED BY <1>1, <1>2, SumIsInt

\* The sum of the sums of parts of which no two have a common element.
LEMMA SumOfParts ==
  ASSUME NEW D, IsFiniteSet(D), NEW C, NEW w, Weighs(C, w), NEW P \in [D -> SUBSET C], NEW v,
         \A d \in D : v[d] = SumOf(P[d], w), \A d, e \in D : d # e => P[d] \cap P[e] = {}
  PROVE  SumOf(D, v) = SumOf(UNION {P[d] : d \in D}, w)
<1> DEFINE All(E) == UNION {P[d] : d \in E}
           Inductive == {E \in SUBSET D : SumOf(E, v) = SumOf(All(E), w)}
<1>1. ASSUME NEW T \in SUBSET C PROVE Weighs(T, w) /\ SumOf(T, w) \in Int
  <2>1. Weighs(T, w)
    BY FS_Subset DEF Weighs
  <2> QED BY <2>1, SumIsInt
<1>2. Weighs(D, v)
  BY <1>1 DEF Weighs
<1>3. ASSUME NEW E \in SUBSET D, \A R \in SUBSET E : R # E => R \in Inductive PROVE E \in Inductive
  <2>1. CASE E = {}
    <3>1. All(E) = {}
      BY <2>1
    <3> QED BY <2>1, <3>1, SumOfNone
  <2>2. CASE E # {}
    <3>1. PICK d \in E : TRUE
      BY <2>2
    <3> DEFINE R == E \ {d}
    <3>2. R \in Inductive
      <4> HIDE DEF Inductive
      <4> QED BY <3>1, <1>3
    <3>3. SumOf(E, v) = v[d] + SumOf(R, v)
      <4>1. Weighs(E, v)
        BY <1>2, FS_Subset DEF Weighs
      <4> QED BY <4>1, SumAdds
    <3>4. P[d] \in SUBSET All(E) /\ All(E) \in SUBSET C /\ All(E) \ P[d] = All(R)
      OBVIOUS
    <3>5. SumOf(All(E), w) = SumOf(P[d], w) + SumOf(All(R), w)
      <4> HIDE DEF All, R
      <4>1. SumOf(All(E), w) = SumOf(P[d], w) + SumOf(All(E) \ P[d], w)
        BY <3>4, <1>1, SumSplits
      <4> QED BY <4>1, <3>4
    <3>6. v[d] = SumOf(P[d], w) /\ SumOf(R, v) = SumOf(All(R), w)
      BY <3>2
    <3> HIDE DEF All, R
    <3>7. SumOf(E, v) = SumOf(All(E), w)
      BY <3>3, <3>5, <3>6
    <3> QED BY <3>7
  <2> QED BY <2>1, <2>2
<1>4. \A E \in SUBSET D : E \in Inductive
  <2> HIDE DEF Inductive
  <2> QED BY <1>3, SubsetInduction
<1> QED BY <1>4

\* The sums of the forecast and of the resident models are such sums.
LEMMA TotalIs == ASSUME NEW costs, NEW output PROVE Total(costs, output) = SumOf(costs, output)
BY DEF Total, MapThenSumSet, MapThenFoldSet, SumOf, SumsOf

LEMMA ResidentIs == ASSUME NEW models PROVE ResidentVram(models) = SumOf(DOMAIN models, models)
BY DEF ResidentVram, FoldFunction, FoldFunctionOnSet, MapThenFoldSet, SumOf, SumsOf

PeaksOf(budgets) == [b \in budgets |-> b.peak]
LEMMA PeaksAre ==
  ASSUME NEW budgets
  PROVE  MapThenSumSet(LAMBDA b : b.peak, budgets) = SumOf(budgets, PeaksOf(budgets))
<1> DEFINE w == PeaksOf(budgets)
           F(g) == [s \in SUBSET budgets |-> IF s = {} THEN 0 ELSE (CHOOSE x \in s : TRUE).peak + g[s \ {CHOOSE x \in s : TRUE}]]
           G(g) == [s \in SUBSET budgets |-> IF s = {} THEN 0 ELSE w[CHOOSE x \in s : TRUE] + g[s \ {CHOOSE x \in s : TRUE}]]
<1>1. ASSUME NEW s \in SUBSET budgets, s # {} PROVE (CHOOSE x \in s : TRUE).peak = w[CHOOSE x \in s : TRUE]
  BY <1>1 DEF PeaksOf
<1>2. \A g : F(g) = G(g)
  BY <1>1
<1>3. (CHOOSE g : g = F(g)) = (CHOOSE g : g = G(g))
  <2> HIDE DEF F, G
  <2> QED BY <1>2
<1>4. MapThenSumSet(LAMBDA b : b.peak, budgets) = (CHOOSE g : g = F(g))[budgets]
  BY DEF MapThenSumSet, MapThenFoldSet
<1>5. SumOf(budgets, w) = (CHOOSE g : g = G(g))[budgets]
  BY DEF SumOf, SumsOf
<1> QED BY <1>3, <1>4, <1>5

-----------------------------------------------------------------------------
(***************************************************************************)
(* What is granted of the disks and the GPU (Resources)                    *)
(***************************************************************************)
\* The client: forecasts of any archive, plan and placement of the roots, and
\* sessions of any model on any host.
NoDevice == "inaccessible"
Placements == UNION {[R -> STRING \ {NoDevice}] : R \in {Q \in SUBSET PlacedRoots : DataRoots \subseteq Q /\ IsFiniteSet(Q)}}
ForecastFacts ==
  [plan : SUBSET STRING, cached : SUBSET STRING, amplification : Nat, config : STRING, bytes : Nat,
   truncated : BOOLEAN, comparable : BOOLEAN, sample : BOOLEAN, gpu : BOOLEAN,
   place : Placements, free : [STRING -> Nat], lost : SUBSET STRING, rotational : SUBSET STRING]
Models == STRING \ {"list"}
Footprints == [weights : Nat, kvPer1k : Nat, overhead : Nat, offload : Nat, ram : Nat]
ModelHosts ==
  [total : Nat, resident : UNION {[S -> Nat] : S \in Finite(Models)}, vllm : Nat, others : Nat, ram : Nat,
   failing : SUBSET STRING]
ModelRequests ==
  [model : Models, backend : {"ollama", "vllm"}, footprint : Footprints, context : Nat, batch : Nat,
   allowCpu : BOOLEAN, unload : BOOLEAN, control : BOOLEAN, release : BOOLEAN, gpu : Nat, ram : Nat]

ResourcesNext ==
  \/ \E then, now \in ForecastFacts : AskForecast(then, now)
  \/ \E host \in ModelHosts, request \in ModelRequests : AskPlacement(host, request)
  \/ Return
ResourcesSpec == call = Ready /\ [][ResourcesNext]_call

\* Of two numbers.
LEMMA MaxOfTwo ==
  ASSUME NEW a \in Int, NEW b \in Int
  PROVE  Max({a, b}) = IF a >= b THEN a ELSE b
BY DEF Max

LEMMA ImageIsFinite ==
  ASSUME NEW S, IsFiniteSet(S), NEW f
  PROVE  IsFiniteSet({f[x] : x \in S})
<1> DEFINE T == {f[x] : x \in S}
           g == [x \in S |-> f[x]]
<1>1. g \in Surjection(S, T)
  BY DEF Surjection
<1> HIDE DEF T, g
<1>2. IsFiniteSet(T)
  BY <1>1, FS_Surjection
<1> QED BY <1>2 DEF T

LEMMA FewAreFinite ==
  ASSUME NEW a, NEW b, NEW c, NEW d, NEW e, NEW f, NEW g, NEW h, NEW i, NEW j, NEW k, NEW l
  PROVE  IsFiniteSet({a, b, c, d, e, f, g, h, i, j, k, l})
<1>1. \A x, y : IsFiniteSet({x, y})
  <2> TAKE x, y
  <2>1. IsFiniteSet({x}) /\ IsFiniteSet({y})
    BY FS_Singleton
  <2>2. {x, y} = {x} \cup {y}
    OBVIOUS
  <2> QED BY <2>1, <2>2, FS_Union
<1>2. IsFiniteSet({a, b} \cup {c, d}) /\ IsFiniteSet({e, f} \cup {g, h}) /\ IsFiniteSet({i, j} \cup {k, l})
  BY <1>1, FS_Union
<1>3. IsFiniteSet((({a, b} \cup {c, d}) \cup ({e, f} \cup {g, h})) \cup ({i, j} \cup {k, l}))
  BY <1>2, FS_Union
<1>4. {a, b, c, d, e, f, g, h, i, j, k, l} = (({a, b} \cup {c, d}) \cup ({e, f} \cup {g, h})) \cup ({i, j} \cup {k, l})
  BY Zenon
<1> QED BY <1>3, <1>4

LEMMA CostsAreFew == IsFiniteSet(Costs)
<1>1. Costs = {"normalized", "database_heap", "indexes", "vectors", "graph", "artifacts", "logs", "wal", "temp", "staging", "rebuild", "rollback"}
  BY DEF Costs, Persistent
<1>2. IsFiniteSet({"normalized", "database_heap", "indexes", "vectors", "graph", "artifacts", "logs", "wal", "temp", "staging", "rebuild", "rollback"})
  BY FewAreFinite, Zenon
<1> QED BY <1>1, <1>2, Zenon

-----------------------------------------------------------------------------
\* No cost is less for more stages.
LEMMA ShareGrows ==
  ASSUME NEW upper \in Nat, NEW p, NEW q, p \subseteq q, NEW family \in Persistent
  PROVE  Share(family, upper, p) \in Nat /\ Share(family, upper, q) \in Nat /\ Share(family, upper, p) <= Share(family, upper, q)
<1>1. Active(family, p) \in {0, 2, 4, 5, 10, 14, 22, 43} /\ Active(family, q) \in {0, 2, 4, 5, 10, 14, 22, 43}
      /\ Active(family, p) <= Active(family, q)
  BY DEF Active, Weights, Persistent
<1> DEFINE of(x) == (upper * x) \div 100
<1>2. ASSUME NEW x \in {0, 2, 4, 5, 10, 14, 22, 43}, NEW y \in {0, 2, 4, 5, 10, 14, 22, 43}, x <= y
      PROVE of(x) \in Nat /\ of(y) \in Nat /\ of(x) <= of(y)
  <2> DEFINE m == upper * x
             n == upper * y
  <2>1. m \in Nat /\ n \in Nat /\ m <= n
    BY <1>2
  <2> HIDE DEF m, n
  <2>2. m \div 100 \in Nat /\ n \div 100 \in Nat /\ m \div 100 <= n \div 100
    BY <2>1
  <2> QED BY <2>2 DEF m, n
<1>3. Share(family, upper, p) = of(Active(family, p)) /\ Share(family, upper, q) = of(Active(family, q))
  BY DEF Share
<1> HIDE DEF of
<1> QED BY <1>1, <1>2, <1>3

LEMMA CostGrows ==
  ASSUME NEW upper \in Nat, NEW p, NEW q, p \subseteq q, NEW c \in Costs
  PROVE  Cost(c, upper, p) \in Nat /\ Cost(c, upper, q) \in Nat /\ Cost(c, upper, p) <= Cost(c, upper, q)
<1>1. CASE c = "wal"
  <2>1. "database_heap" \in Persistent
    BY DEF Persistent
  <2> DEFINE m == Share("database_heap", upper, p)
             n == Share("database_heap", upper, q)
  <2>2. m \in Nat /\ n \in Nat /\ m <= n
    BY <2>1, ShareGrows
  <2>3. Cost(c, upper, p) = m \div 4 /\ Cost(c, upper, q) = n \div 4
    BY <1>1 DEF Cost
  <2> HIDE DEF m, n
  <2> QED BY <2>2, <2>3
<1>2. CASE c \in {"temp", "staging", "rollback"}
  <2>1. Cost(c, upper, p) = Cost(c, upper, q)
    BY <1>2 DEF Cost
  <2>2. (upper * 15) \div 100 \in Nat /\ upper \div 5 \in Nat /\ (upper \div 5) \div 5 \in Nat
    <3>1. upper * 15 \in Nat /\ upper \div 5 \in Nat
      OBVIOUS
    <3>2. \A m \in Nat : m \div 100 \in Nat /\ m \div 5 \in Nat
      OBVIOUS
    <3> QED BY <3>1, <3>2
  <2>3. Cost(c, upper, p) \in Nat
    BY <1>2, <2>2 DEF Cost
  <2> QED BY <2>1, <2>3
<1>3. CASE c = "rebuild"
  <2>1. "indexes" \in Persistent /\ "vectors" \in Persistent /\ "graph" \in Persistent
    BY DEF Persistent
  <2> DEFINE of(f) == Share(f, upper, p)
             to(f) == Share(f, upper, q)
  <2>2. \A f \in Persistent : of(f) \in Nat /\ to(f) \in Nat /\ of(f) <= to(f)
    BY ShareGrows
  <2>3. /\ Cost(c, upper, p) = of("indexes") + of("vectors") + of("graph")
        /\ Cost(c, upper, q) = to("indexes") + to("vectors") + to("graph")
    BY <1>3 DEF Cost
  <2> HIDE DEF of, to
  <2> QED BY <2>1, <2>2, <2>3
<1>4. CASE c \in Persistent
  <2>1. Cost(c, upper, p) = Share(c, upper, p) /\ Cost(c, upper, q) = Share(c, upper, q)
    BY <1>4 DEF Cost, Persistent
  <2> QED BY <1>4, <2>1, ShareGrows
<1> QED BY <1>1, <1>2, <1>3, <1>4 DEF Costs

LEMMA UpperIsNat ==
  ASSUME NEW f \in ForecastFacts
  PROVE  Upper(f) \in Nat
<1>1. f.bytes \in Nat /\ f.amplification \in Nat
  BY DEF ForecastFacts
<1>2. Max({f.bytes, 1}) \in Nat
  BY <1>1, MaxOfTwo
<1>3. \A m, n \in Nat : m * n \in Nat
  OBVIOUS
<1>4. Max({f.bytes, 1}) * f.amplification \in Nat
  BY <1>1, <1>2, <1>3
<1> QED BY <1>4, <1>3 DEF Upper

-----------------------------------------------------------------------------
\* What is known of the devices of some facts.
RootsOf(id, f) == {r \in DOMAIN f.place : DeviceOf(r, f) = id}
LEMMA Placed ==
  ASSUME NEW f \in ForecastFacts
  PROVE  /\ DataRoots \subseteq DOMAIN f.place /\ IsFiniteSet(DOMAIN f.place)
         /\ \A r \in DOMAIN f.place : f.place[r] \in STRING /\ f.place[r] # NoDevice
<1>1. f.place \in Placements
  BY DEF ForecastFacts
<1>2. PICK R : R \in SUBSET PlacedRoots /\ DataRoots \subseteq R /\ IsFiniteSet(R) /\ f.place \in [R -> STRING \ {NoDevice}]
  BY <1>1 DEF Placements
<1> QED BY <1>2

LEMMA FirstIsThere ==
  ASSUME NEW there, there # {}
  PROVE  FirstRoot(there) \in there
<1> DEFINE ranks == {RootRank(r) : r \in there}
<1>1. ranks \subseteq Nat /\ ranks # {}
  BY DEF RootRank
<1>2. PICK n \in ranks : \A m \in ranks : n <= m
  <2> HIDE DEF ranks
  <2> QED BY <1>1, LeastNumber
<1>3. PICK r \in there : n = RootRank(r)
  BY <1>2
<1>4. \A q \in there : RootRank(r) <= RootRank(q)
  BY <1>2, <1>3
<1> QED BY <1>3, <1>4 DEF FirstRoot

\* The budget of a device.
LEMMA BudgetIs ==
  ASSUME NEW f \in ForecastFacts, NEW id \in Devices(f)
  PROVE  LET b == DeviceBudget(id, f)
         IN  /\ b.id = id /\ b.roots = RootsOf(id, f) /\ b.roots # {} /\ b.path \in b.roots
             /\ b.peak = SumOf(Charged(b.roots, f), Output(f)) /\ b.peak \in Nat
             /\ b.reserve = Max({SafetyReserve, b.peak \div 20})
             /\ id # NoDevice => b.free = f.free[id]
<1> DEFINE b == DeviceBudget(id, f)
           there == RootsOf(id, f)
<1>1. /\ b.id = id /\ b.roots = there /\ b.path = FirstRoot(there)
      /\ b.peak = Total(Charged(there, f), Output(f))
      /\ b.reserve = Max({SafetyReserve, b.peak \div 20})
      /\ id # NoDevice => b.free = f.free[id]
  BY DEF DeviceBudget, RootsOf, NoDevice
<1>2. there # {}
  BY DEF Devices, RootsOf
<1>3. b.path \in there
  <2> HIDE DEF there, b
  <2> QED BY <1>1, <1>2, FirstIsThere
<1>4. b.peak = SumOf(Charged(there, f), Output(f))
  <2> HIDE DEF there, b
  <2> QED BY <1>1, TotalIs
<1>5. b.peak \in Nat
  <2>1. IsFiniteSet(Charged(there, f)) /\ Charged(there, f) \subseteq Costs
    <3> HIDE DEF there
    <3>1. Charged(there, f) \subseteq Costs
      BY DEF Charged
    <3> QED BY <3>1, CostsAreFew, FS_Subset
  <2>2. \A c \in Costs : Output(f)[c] = Cost(c, Upper(f), f.plan)
    BY DEF Output
  <2>3. \A c \in Costs : Cost(c, Upper(f), f.plan) \in Nat
    BY UpperIsNat, CostGrows
  <2>4. \A c \in Charged(there, f) : Output(f)[c] \in Nat
    <3> HIDE DEF there
    <3> QED BY <2>1, <2>2, <2>3
  <2> HIDE DEF there, b
  <2> QED BY <1>4, <2>1, <2>4, SumIsNat
<1> HIDE DEF there, b
<1>6. /\ b.id = id /\ b.roots = RootsOf(id, f) /\ b.roots # {} /\ b.path \in b.roots
      /\ b.peak = SumOf(Charged(b.roots, f), Output(f)) /\ b.peak \in Nat
      /\ b.reserve = Max({SafetyReserve, b.peak \div 20})
      /\ id # NoDevice => b.free = f.free[id]
  BY <1>1, <1>2, <1>3, <1>4, <1>5 DEF there
<1> QED BY <1>6 DEF b


\* The same roots lie on a device, and a plan with fewer stages charges it no
\* more.
Alike(then, now) == now.place = then.place /\ now.lost = then.lost
LEMMA AlikeDevices ==
  ASSUME NEW then, NEW now, Alike(then, now)
  PROVE  /\ Devices(now) = Devices(then)
         /\ \A id : RootsOf(id, now) = RootsOf(id, then)
         /\ \A there : Charged(there, now) = Charged(there, then)
BY DEF Alike, Devices, RootsOf, DeviceOf, Charged, AssignedRoot

LEMMA PeakGrows ==
  ASSUME NEW then \in ForecastFacts, NEW now \in ForecastFacts, Alike(then, now),
         Upper(now) = Upper(then), now.plan \subseteq then.plan, NEW id \in Devices(then)
  PROVE  DeviceBudget(id, now).peak <= DeviceBudget(id, then).peak
<1> DEFINE b == DeviceBudget(id, then)
           c == DeviceBudget(id, now)
           C == Charged(RootsOf(id, then), then)
<1>1. b.peak = SumOf(C, Output(then)) /\ c.peak = SumOf(C, Output(now))
  <2>1. id \in Devices(now)
    BY AlikeDevices
  <2>2. b.peak = SumOf(Charged(b.roots, then), Output(then)) /\ b.roots = RootsOf(id, then)
    BY BudgetIs
  <2>3. c.peak = SumOf(Charged(c.roots, now), Output(now)) /\ c.roots = RootsOf(id, now)
    BY <2>1, BudgetIs
  <2>4. Charged(c.roots, now) = C /\ Charged(b.roots, then) = C
    <3> HIDE DEF b, c
    <3> QED BY <2>2, <2>3, AlikeDevices
  <2> HIDE DEF b, c, C
  <2> QED BY <2>2, <2>3, <2>4
<1>2. \A x \in Costs : /\ Output(now)[x] \in Nat /\ Output(then)[x] \in Nat
                       /\ Output(now)[x] <= Output(then)[x]
  <2>1. \A x \in Costs : Output(now)[x] = Cost(x, Upper(then), now.plan) /\ Output(then)[x] = Cost(x, Upper(then), then.plan)
    BY DEF Output
  <2>2. Upper(then) \in Nat
    BY UpperIsNat
  <2> QED BY <2>1, <2>2, CostGrows
<1>3. IsFiniteSet(C) /\ C \subseteq Costs
  <2>1. C \subseteq Costs
    BY DEF Charged
  <2> HIDE DEF C
  <2> QED BY <2>1, CostsAreFew, FS_Subset
<1>4. Weighs(C, Output(now)) /\ Weighs(C, Output(then))
  <2> HIDE DEF C
  <2> QED BY <1>2, <1>3 DEF Weighs
<1>5. SumOf(C, Output(now)) <= SumOf(C, Output(then))
  <2> HIDE DEF C
  <2> QED BY <1>2, <1>3, <1>4, SumIsMonotone
<1> HIDE DEF b, c, C
<1>6. c.peak <= b.peak
  BY <1>1, <1>5
<1> QED BY <1>6 DEF b, c

\* What a device needs: its peak and the reserve, and that grows with the peak.
Needed(b) == b.peak + b.reserve
LEMMA NeedGrows ==
  ASSUME NEW m \in Nat, NEW n \in Nat, m <= n
  PROVE  m + Max({SafetyReserve, m \div 20}) <= n + Max({SafetyReserve, n \div 20})
<1>1. m \div 20 \in Nat /\ n \div 20 \in Nat /\ m \div 20 <= n \div 20
  OBVIOUS
<1> DEFINE x == m \div 20
           y == n \div 20
<1>2. x \in Nat /\ y \in Nat /\ x <= y
  BY <1>1
<1> HIDE DEF x, y
<1>3. m + Max({SafetyReserve, x}) <= n + Max({SafetyReserve, y})
  BY <1>2, MaxOfTwo, ReservesAssumption
<1> QED BY <1>3 DEF x, y

\* A forecast by its parts.
LEMMA ForecastIs ==
  ASSUME NEW f
  PROVE  LET d == BuildForecast(f)
         IN  /\ d.plan = f.plan /\ d.cached = f.cached /\ d.config = f.config /\ d.amplification = f.amplification
             /\ d.devices = {DeviceBudget(id, f) : id \in Devices(f)}
             /\ (d.decision = "blocked") <=>
                  ((\E b \in d.devices : DecideDevice(b) = "blocked") \/ (\E s \in f.plan : StageDecision(s, f) = "unknown"))
<1> DEFINE devices == {DeviceBudget(id, f) : id \in Devices(f)}
           found == {DecideDevice(b) : b \in devices}
           stages == {StageDecision(s, f) : s \in f.plan}
           d == BuildForecast(f)
<1>1. /\ d.plan = f.plan /\ d.cached = f.cached /\ d.config = f.config /\ d.amplification = f.amplification
      /\ d.devices = devices /\ d.decision = Overall(stages, found, f)
  BY DEF BuildForecast
<1>2. (Overall(stages, found, f) = "blocked") <=> ("blocked" \in found \/ "unknown" \in stages)
  <2> HIDE DEF stages, found
  <2> QED BY DEF Overall
<1>3. ("blocked" \in found) <=> (\E b \in devices : DecideDevice(b) = "blocked")
  <2> HIDE DEF devices
  <2> QED OBVIOUS
<1>4. ("unknown" \in stages) <=> (\E s \in f.plan : StageDecision(s, f) = "unknown")
  OBVIOUS
<1>5. (d.decision = "blocked") <=> ((\E b \in d.devices : DecideDevice(b) = "blocked") \/ (\E s \in f.plan : StageDecision(s, f) = "unknown"))
  <2> HIDE DEF d, devices, found, stages
  <2> QED BY <1>1, <1>2, <1>3, <1>4
<1> QED BY <1>1, <1>5

\* A device is not blocked when it can be looked at and either nothing is
\* written to it or there is room.
Roomy(b) == b.roots \subseteq SiloVariables \/ b.free >= Needed(b)
LEMMA Unblocked ==
  ASSUME NEW b, b.free \in Int, b.peak \in Int, b.reserve \in Int
  PROVE  (DecideDevice(b) # "blocked") <=> (b.id # NoDevice /\ Roomy(b))
<1>1. (b.free < b.peak + b.reserve) = ~ (b.free >= b.peak + b.reserve)
  OBVIOUS
<1> QED BY <1>1 DEF DecideDevice, Roomy, Needed, NoDevice

LEMMA BudgetTyped ==
  ASSUME NEW f \in ForecastFacts, NEW id \in Devices(f)
  PROVE  LET b == DeviceBudget(id, f)
         IN  b.id = id /\ b.peak \in Nat /\ b.reserve \in Nat /\ b.free \in Nat
<1> DEFINE b == DeviceBudget(id, f)
<1>1. b.id = id /\ b.peak \in Nat /\ b.reserve = Max({SafetyReserve, b.peak \div 20})
  BY BudgetIs
<1>2. b.reserve \in Nat
  <2> HIDE DEF b
  <2>1. b.peak \div 20 \in Nat
    BY <1>1
  <2> QED BY <1>1, <2>1, MaxOfTwo, ReservesAssumption
<1>3. id # NoDevice => id \in STRING
  BY Placed DEF Devices, DeviceOf, NoDevice
<1>4. b.free = IF id = NoDevice THEN 0 ELSE f.free[id]
  BY DEF DeviceBudget, NoDevice
<1>5. f.free \in [STRING -> Nat]
  BY DEF ForecastFacts
<1>6. b.free \in Nat
  <2> HIDE DEF b
  <2>1. id = NoDevice => b.free = 0
    BY <1>4
  <2>2. id # NoDevice => b.free = f.free[id] /\ f.free[id] \in Nat
    BY <1>3, <1>4, <1>5
  <2> QED BY <2>1, <2>2
<1> QED BY <1>1, <1>2, <1>6

\* The room that the guard sees is that of the device, as long as the roots lie
\* where they lay and can be looked at.
LEMMA RoomIsThere ==
  ASSUME NEW then \in ForecastFacts, NEW now \in ForecastFacts, Alike(then, now), NEW id \in Devices(then), id # NoDevice
  PROVE  LET b == DeviceBudget(id, then)
         IN  HasRoom(b, now) <=> now.free[id] >= Needed(b)
<1> DEFINE b == DeviceBudget(id, then)
<1>0. b.id = id /\ b.roots = RootsOf(id, then) /\ b.path \in b.roots
  BY BudgetIs
<1> HIDE DEF b
<1>1. b.id = id /\ b.path \in RootsOf(id, then)
  BY <1>0
<1>2. b.path \in DOMAIN then.place /\ DeviceOf(b.path, then) = id
  BY <1>1 DEF RootsOf
<1>3. b.path \notin then.lost /\ then.place[b.path] = id
  BY <1>2 DEF DeviceOf, NoDevice
<1>4. b.path \notin now.lost /\ now.place[b.path] = id
  BY <1>3 DEF Alike
<1>a. b.id # "inaccessible" /\ now.free[now.place[b.path]] = now.free[id]
  BY <1>1, <1>4 DEF NoDevice
<1>5. HasRoom(b, now) <=> now.free[id] >= Needed(b)
  BY <1>4, <1>a, Zenon DEF HasRoom, Needed
<1> QED BY <1>5 DEF b

-----------------------------------------------------------------------------
\* The call of a forecast.
ForecastAsked(then, now) ==
  /\ then \in ForecastFacts /\ now \in ForecastFacts
  /\ call.op = "forecast" /\ call.then = then /\ call.now = now /\ call.document = BuildForecast(then)
  /\ call.bound = Bound(BuildForecast(then), now) /\ call.guard = SpaceGuard(BuildForecast(then), now)

LEMMA AllowedStart ==
  ASSUME NEW then, NEW now, ForecastAsked(then, now)
  PROVE  AllowedStarts
<1> SUFFICES ASSUME call.document.decision # "blocked", SameBut(call.then, call.now, DOMAIN call.then \ {"place", "free", "lost"})
             PROVE call.guard
  BY DEF AllowedStarts
<1> USE DEF ForecastAsked
<1>1. now.place = then.place /\ now.free = then.free /\ now.lost = then.lost
  <2>1. {"place", "free", "lost"} \subseteq DOMAIN then
    BY DEF ForecastFacts
  <2> QED BY <2>1 DEF SameBut
<1>2. Alike(then, now)
  BY <1>1 DEF Alike
<1>3. ASSUME NEW b \in call.document.devices PROVE b.roots \subseteq SiloVariables \/ HasRoom(b, now)
  <2>1. PICK id \in Devices(then) : b = DeviceBudget(id, then)
    BY <1>3, ForecastIs
  <2>2. DecideDevice(b) # "blocked"
    BY <1>3, ForecastIs
  <2>3. b.id = id /\ b.peak \in Nat /\ b.reserve \in Nat /\ b.free \in Nat
    BY <2>1, BudgetTyped
  <2>4. id # NoDevice /\ Roomy(b)
    BY <2>2, <2>3, Unblocked
  <2>5. b.free = then.free[id]
    BY <2>1, <2>4, BudgetIs
  <2>6. HasRoom(b, now) <=> now.free[id] >= Needed(b)
    BY <1>2, <2>1, <2>4, RoomIsThere
  <2> QED BY <1>1, <2>4, <2>5, <2>6 DEF Roomy
<1>4. SpaceGuard(BuildForecast(then), now)
  BY <1>3 DEF SpaceGuard
<1> QED BY <1>4

LEMMA BoundCurrent ==
  ASSUME NEW then, NEW now, ForecastAsked(then, now)
  PROVE  BoundIsCurrent
<1> DEFINE changed == {"plan", "cached", "config", "amplification", "free", "rotational"}
<1> SUFFICES ASSUME call.bound = "bound", call.guard, SameBut(call.then, call.now, changed)
             PROVE BuildForecast(call.now).decision # "blocked"
  BY DEF BoundIsCurrent
<1> USE DEF ForecastAsked
<1>1. /\ now.place = then.place /\ now.lost = then.lost /\ now.bytes = then.bytes /\ now.truncated = then.truncated
      /\ now.comparable = then.comparable /\ now.sample = then.sample /\ now.gpu = then.gpu
  <2>1. {"place", "lost", "bytes", "truncated", "comparable", "sample", "gpu"} \subseteq (DOMAIN then) \ changed
    BY DEF ForecastFacts
  <2> QED BY <2>1 DEF SameBut
<1>2. Alike(then, now)
  BY <1>1 DEF Alike
<1> DEFINE document == BuildForecast(then)
<1>3. FreshFor(document, now) /\ document.decision # "blocked"
  BY DEF Bound
<1>4. /\ now.amplification = then.amplification /\ now.plan \subseteq then.plan
      /\ \A s \in now.plan : (s \in then.cached) = (s \in now.cached)
  BY <1>3, ForecastIs DEF FreshFor
<1>5. Upper(now) = Upper(then)
  BY <1>1, <1>4 DEF Upper
<1>6. ASSUME NEW s \in now.plan PROVE StageDecision(s, now) # "unknown"
  <2>1. StageDecision(s, now) = StageDecision(s, then)
    BY <1>1, <1>4 DEF StageDecision
  <2>2. StageDecision(s, then) # "unknown"
    BY <1>3, <1>4, ForecastIs
  <2> QED BY <2>1, <2>2
<1>7. ASSUME NEW c \in BuildForecast(now).devices PROVE DecideDevice(c) # "blocked"
  <2>1. PICK id \in Devices(now) : c = DeviceBudget(id, now)
    BY <1>7, ForecastIs
  <2>2. id \in Devices(then)
    BY <1>2, <2>1, AlikeDevices
  <2> DEFINE b == DeviceBudget(id, then)
  <2>3. b \in document.devices
    BY <2>2, ForecastIs
  <2>4. b.id = id /\ b.peak \in Nat /\ b.reserve \in Nat /\ b.free \in Nat
    BY <2>2, BudgetTyped
  <2>5. c.id = id /\ c.peak \in Nat /\ c.reserve \in Nat /\ c.free \in Nat
    BY <2>1, BudgetTyped
  <2>6. DecideDevice(b) # "blocked"
    BY <1>3, <2>3, ForecastIs
  <2>7. id # NoDevice
    <3> HIDE DEF b
    <3> QED BY <2>4, <2>6, Unblocked
  <2>8. b.roots = RootsOf(id, then) /\ c.roots = b.roots /\ b.reserve = Max({SafetyReserve, b.peak \div 20})
        /\ c.reserve = Max({SafetyReserve, c.peak \div 20}) /\ c.free = now.free[id]
    BY <1>2, <2>1, <2>2, <2>7, BudgetIs, AlikeDevices
  <2>9. b.roots \subseteq SiloVariables \/ HasRoom(b, now)
    BY <2>3 DEF SpaceGuard
  <2>10. HasRoom(b, now) <=> now.free[id] >= Needed(b)
    BY <1>2, <2>2, <2>7, RoomIsThere
  <2>11. c.peak <= b.peak
    BY <1>2, <1>4, <1>5, <2>1, <2>2, PeakGrows
  <2> HIDE DEF b
  <2>12. Needed(c) <= Needed(b)
    BY <2>4, <2>5, <2>8, <2>11, NeedGrows DEF Needed
  <2>13. Roomy(c)
    <3>1. Needed(c) \in Int /\ Needed(b) \in Int
      BY <2>4, <2>5 DEF Needed
    <3>2. CASE b.roots \subseteq SiloVariables
      BY <2>8, <3>2 DEF Roomy
    <3>3. CASE now.free[id] >= Needed(b)
      <4>1. c.free >= Needed(b) /\ c.free \in Int
        BY <2>5, <2>8, <3>3
      <4>2. c.free >= Needed(c)
        BY <2>12, <3>1, <4>1
      <4> QED BY <4>2 DEF Roomy
    <3> QED BY <2>9, <2>10, <3>2, <3>3
  <2> QED BY <2>5, <2>7, <2>13, Unblocked
<1>8. BuildForecast(now).decision # "blocked"
  BY <1>6, <1>7, ForecastIs
<1> QED BY <1>8

LEMMA ChargedOnce ==
  ASSUME NEW then, NEW now, ForecastAsked(then, now)
  PROVE  CostsChargedOnce
<1> USE DEF ForecastAsked
<1> DEFINE B == {DeviceBudget(id, then) : id \in Devices(then)}
           w == Output(then)
           P == [b \in B |-> Charged(b.roots, then)]
<1>1. call.document.devices = B
  BY ForecastIs
<1>2. DataRoots \subseteq DOMAIN then.place /\ IsFiniteSet(DOMAIN then.place)
  BY Placed
<1>3. IsFiniteSet(B)
  <2> DEFINE of == [r \in DOMAIN then.place |-> DeviceOf(r, then)]
             to == [id \in Devices(then) |-> DeviceBudget(id, then)]
  <2>1. Devices(then) = {of[r] : r \in DOMAIN then.place} /\ B = {to[id] : id \in Devices(then)}
    BY DEF Devices
  <2> HIDE DEF of, to, B
  <2>2. IsFiniteSet(Devices(then))
    BY <1>2, <2>1, ImageIsFinite
  <2> QED BY <2>1, <2>2, ImageIsFinite
<1>4. ASSUME NEW b \in B
      PROVE  /\ b.id \in Devices(then) /\ b = DeviceBudget(b.id, then) /\ b.roots = RootsOf(b.id, then)
             /\ b.peak = SumOf(Charged(b.roots, then), w)
  <2>1. PICK id \in Devices(then) : b = DeviceBudget(id, then)
    OBVIOUS
  <2>2. b.id = id /\ b.roots = RootsOf(id, then) /\ b.peak = SumOf(Charged(b.roots, then), w)
    BY <2>1, BudgetIs
  <2> QED BY <2>1, <2>2
<1>5. Weighs(Costs, w)
  <2>1. \A c \in Costs : w[c] = Cost(c, Upper(then), then.plan)
    BY DEF Output
  <2>2. \A c \in Costs : Cost(c, Upper(then), then.plan) \in Nat
    BY UpperIsNat, CostGrows
  <2> HIDE DEF w
  <2> QED BY <2>1, <2>2, CostsAreFew DEF Weighs
<1>6. P \in [B -> SUBSET Costs]
  BY DEF Charged
<1>7. ASSUME NEW b \in B, NEW c \in B, b # c PROVE P[b] \cap P[c] = {}
  <2>1. b.id # c.id
    <3> HIDE DEF B
    <3> QED BY <1>4, <1>7
  <2>2. b.roots \cap c.roots = {}
    <3> HIDE DEF B
    <3> QED BY <1>4, <2>1 DEF RootsOf
  <2>3. \A x : ~ (AssignedRoot(x, then) \cap b.roots # {} /\ AssignedRoot(x, then) \cap c.roots # {})
    <3> HIDE DEF B
    <3>1. \A x : AssignedRoot(x, then) = {} \/ \E r : AssignedRoot(x, then) = {r}
      BY DEF AssignedRoot
    <3> QED BY <2>2, <3>1
  <2> QED BY <2>3 DEF Charged
<1>8. UNION {P[b] : b \in B} = Costs
  <2>1. ASSUME NEW x \in Costs PROVE \E b \in B : x \in P[b]
    <3>1. PICK r : AssignedRoot(x, then) = {r} /\ r \in DOMAIN then.place
      <4>1. CategoryRoot(x) \in DataRoots \cup {"PG_WAL_DIR"}
        BY DEF CategoryRoot, DataRoots
      <4>2. "PGDATA_DIR" \in DataRoots
        BY DEF DataRoots
      <4>3. CASE CategoryRoot(x) \in DOMAIN then.place
        BY <4>3 DEF AssignedRoot
      <4>4. CASE CategoryRoot(x) \notin DOMAIN then.place
        BY <1>2, <4>1, <4>2, <4>4 DEF AssignedRoot
      <4> QED BY <4>3, <4>4
    <3> DEFINE id == DeviceOf(r, then)
               b == DeviceBudget(id, then)
    <3>2. id \in Devices(then)
      BY <3>1 DEF Devices
    <3>3. b \in B
      BY <3>2
    <3>4. b.roots = RootsOf(id, then)
      BY <3>2, BudgetIs
    <3> HIDE DEF b, B
    <3>5. r \in b.roots
      BY <3>1, <3>4 DEF RootsOf
    <3>6. x \in Charged(b.roots, then)
      BY <3>1, <3>5 DEF Charged
    <3> QED BY <3>3, <3>6
  <2> HIDE DEF P, B
  <2> QED BY <1>6, <2>1
<1>9. SumOf(B, PeaksOf(B)) = SumOf(UNION {P[b] : b \in B}, w)
  <2>1. \A b \in B : PeaksOf(B)[b] = SumOf(P[b], w)
    <3> HIDE DEF B, w
    <3> QED BY <1>4 DEF PeaksOf
  <2> HIDE DEF B, P, w
  <2> QED BY <1>3, <1>5, <1>6, <1>7, <2>1, SumOfParts
<1>10. MapThenSumSet(LAMBDA b : b.peak, call.document.devices) = SumOf(B, PeaksOf(B))
  <2> HIDE DEF B
  <2>1. MapThenSumSet(LAMBDA b : b.peak, B) = SumOf(B, PeaksOf(B))
    BY PeaksAre
  <2> QED BY <1>1, <2>1
<1>11. Total(Costs, Output(call.then)) = SumOf(Costs, w)
  BY TotalIs
<1> HIDE DEF B, P, w
<1>12. MapThenSumSet(LAMBDA b : b.peak, call.document.devices) = Total(Costs, Output(call.then))
  BY <1>8, <1>9, <1>10, <1>11
<1> QED BY <1>12 DEF CostsChargedOnce


-----------------------------------------------------------------------------
\* Models that are resident, with what they hold.
Loaded == UNION {[S -> Nat] : S \in Finite(Models)}
LEMMA LoadedPart ==
  ASSUME NEW m \in Loaded, NEW A \in SUBSET DOMAIN m
  PROVE  /\ IsFiniteSet(A) /\ DOMAIN Restrict(m, A) = A /\ \A x \in A : Restrict(m, A)[x] = m[x] /\ m[x] \in Nat
         /\ ResidentVram(Restrict(m, A)) = SumOf(A, m) /\ SumOf(A, m) \in Nat
<1>1. PICK S \in Finite(Models) : m \in [S -> Nat]
  BY DEF Loaded
<1>2. IsFiniteSet(A) /\ \A x \in A : m[x] \in Nat
  BY <1>1, FS_Subset DEF Finite
<1>3. DOMAIN Restrict(m, A) = A /\ \A x \in A : m[x] = Restrict(m, A)[x]
  BY DEF Restrict
<1>4. Weighs(A, m) /\ SumOf(A, m) \in Nat
  BY <1>2, SumIsNat
<1>5. SumOf(A, m) = SumOf(A, Restrict(m, A))
  BY <1>3, <1>4, SumIsOne
<1>6. ResidentVram(Restrict(m, A)) = SumOf(A, Restrict(m, A))
  BY <1>3, ResidentIs
<1> QED BY <1>2, <1>3, <1>4, <1>5, <1>6

LEMMA LoadedWhole ==
  ASSUME NEW m \in Loaded
  PROVE  ResidentVram(m) = SumOf(DOMAIN m, m) /\ ResidentVram(m) \in Nat /\ IsFiniteSet(DOMAIN m)
<1>1. DOMAIN m \in SUBSET DOMAIN m
  OBVIOUS
<1> QED BY <1>1, LoadedPart, ResidentIs

LEMMA LoadedSplits ==
  ASSUME NEW m \in Loaded, NEW A \in SUBSET DOMAIN m
  PROVE  ResidentVram(m) = SumOf(A, m) + SumOf(DOMAIN m \ A, m) /\ SumOf(A, m) \in Nat /\ SumOf(DOMAIN m \ A, m) \in Nat
<1>1. DOMAIN m \ A \in SUBSET DOMAIN m /\ DOMAIN m \in SUBSET DOMAIN m
  OBVIOUS
<1>2. Weighs(DOMAIN m, m)
  <2>1. IsFiniteSet(DOMAIN m) /\ \A x \in DOMAIN m : m[x] \in Nat
    BY <1>1, LoadedPart
  <2> QED BY <2>1, SumIsNat
<1>3. SumOf(DOMAIN m, m) = SumOf(A, m) + SumOf(DOMAIN m \ A, m)
  BY <1>2, SumSplits
<1> QED BY <1>1, <1>3, LoadedWhole, LoadedPart

LEMMA NeedsAreNat ==
  ASSUME NEW request \in ModelRequests
  PROVE  GpuNeed(request) \in Nat /\ CpuNeed(request) \in Nat
<1>1. /\ request.footprint \in Footprints /\ request.context \in Nat /\ request.batch \in Nat
      /\ request.gpu \in Nat /\ request.ram \in Nat
  BY DEF ModelRequests
<1> DEFINE f == request.footprint
<1>2. f.weights \in Nat /\ f.kvPer1k \in Nat /\ f.overhead \in Nat /\ f.offload \in Nat /\ f.ram \in Nat
  BY <1>1 DEF Footprints
<1> HIDE DEF f
<1>3. WeightsOnGpu(f) \in Nat
  BY <1>2 DEF WeightsOnGpu
<1>4. KvCache(f, request.context, request.batch) \in Nat
  <2>1. \A m, n \in Nat : m * n \in Nat
    OBVIOUS
  <2>2. f.kvPer1k * request.context \in Nat
    BY <1>1, <1>2, <2>1
  <2> QED BY <1>1, <2>1, <2>2 DEF KvCache
<1>5. EstimateFootprint(request) \in Nat
  BY <1>2, <1>3, <1>4 DEF EstimateFootprint, f
<1> QED BY <1>1, <1>2, <1>5 DEF GpuNeed, CpuNeed, f

LEMMA HostIs ==
  ASSUME NEW host \in ModelHosts
  PROVE  /\ host.total \in Nat /\ host.resident \in Loaded /\ host.vllm \in Nat /\ host.others \in Nat /\ host.ram \in Nat
         /\ FreeVram(host) = host.total - ResidentVram(host.resident) - host.vllm - host.others
         /\ ResidentVram(host.resident) \in Nat
BY LoadedWhole DEF ModelHosts, Loaded, FreeVram

-----------------------------------------------------------------------------
\* What is resident when the device is ready for a session of Ollama, and when
\* that has ended.
Remain(host, request) ==
  IF request.unload /\ "list" \notin host.failing
  THEN DOMAIN host.resident \ (OtherModels(host.resident, request.model) \ host.failing)
  ELSE DOMAIN host.resident
Released(host, request) == IF request.release THEN {request.model} \ host.failing ELSE {}
SameHost(h, host) == h.total = host.total /\ h.others = host.others /\ h.failing = host.failing

LEMMA ReadyForOllama ==
  ASSUME NEW host \in ModelHosts, NEW request \in ModelRequests, request.backend = "ollama"
  PROVE  LET ready == PrepareDevice(host, request)
         IN  /\ SameHost(ready, host) /\ ready.vllm = 0 /\ DOMAIN ready.resident = Remain(host, request)
             /\ \A m \in Remain(host, request) : ready.resident[m] = host.resident[m]
             /\ ready = [total |-> host.total, resident |-> ready.resident, vllm |-> 0, others |-> host.others,
                         ram |-> host.ram, failing |-> host.failing]
<1> DEFINE alone == [host EXCEPT !.vllm = 0]
           ready == PrepareDevice(host, request)
<1>1. alone = [total |-> host.total, resident |-> host.resident, vllm |-> 0, others |-> host.others,
               ram |-> host.ram, failing |-> host.failing]
  BY DEF ModelHosts
<1>2. ready = IF request.unload THEN UnloadResident(alone, request.model) ELSE alone
  BY DEF PrepareDevice
<1>3. alone.resident = host.resident /\ alone.failing = host.failing
  BY <1>1
<1> HIDE DEF alone, ready
<1>4. CASE request.unload /\ "list" \notin host.failing
  <2> DEFINE left == Restrict(host.resident, Remain(host, request))
  <2>1. ready = [alone EXCEPT !.resident = left]
    BY <1>2, <1>3, <1>4 DEF UnloadResident, Unload, Remain
  <2>2. DOMAIN left = Remain(host, request) /\ \A m \in Remain(host, request) : left[m] = host.resident[m]
    BY DEF Restrict
  <2> HIDE DEF left
  <2>3. ready = [total |-> host.total, resident |-> left, vllm |-> 0, others |-> host.others,
                 ram |-> host.ram, failing |-> host.failing]
    BY <1>1, <2>1
  <2> QED BY <2>2, <2>3 DEF ready, SameHost
<1>5. CASE ~ (request.unload /\ "list" \notin host.failing)
  <2>1. ready = alone
    BY <1>2, <1>3, <1>5 DEF UnloadResident
  <2>2. Remain(host, request) = DOMAIN host.resident
    BY <1>5 DEF Remain
  <2> QED BY <1>1, <2>1, <2>2 DEF ready, SameHost
<1> QED BY <1>4, <1>5

LEMMA LeftByOllama ==
  ASSUME NEW host \in ModelHosts, NEW request \in ModelRequests, request.backend = "ollama"
  PROVE  LET left == ReleaseDevice(LoadModel(PrepareDevice(host, request), request), request)
         IN  /\ SameHost(left, host) /\ left.vllm = 0
             /\ DOMAIN left.resident = (Remain(host, request) \cup {request.model}) \ Released(host, request)
             /\ \A m \in DOMAIN left.resident : m # request.model => left.resident[m] = host.resident[m]
<1> DEFINE ready == PrepareDevice(host, request)
           loaded == LoadModel(ready, request)
           left == ReleaseDevice(loaded, request)
           res == [m \in DOMAIN ready.resident \cup {request.model} |->
                     IF m = request.model THEN GpuNeed(request) ELSE ready.resident[m]]
<1>1. /\ DOMAIN ready.resident = Remain(host, request) /\ \A m \in Remain(host, request) : ready.resident[m] = host.resident[m]
      /\ ready = [total |-> host.total, resident |-> ready.resident, vllm |-> 0, others |-> host.others,
                  ram |-> host.ram, failing |-> host.failing]
  BY ReadyForOllama
<1>2. loaded = [ready EXCEPT !.resident = res]
  BY DEF LoadModel
<1> HIDE DEF ready, loaded
<1>3. DOMAIN res = Remain(host, request) \cup {request.model}
      /\ \A m \in DOMAIN res : m # request.model => res[m] = host.resident[m]
  BY <1>1
<1> HIDE DEF res
<1>4. loaded = [total |-> host.total, resident |-> res, vllm |-> 0, others |-> host.others,
                ram |-> host.ram, failing |-> host.failing]
  BY <1>1, <1>2
<1>5. CASE request.release
  <2> DEFINE rest == Restrict(res, DOMAIN res \ ({request.model} \ host.failing))
  <2>1. left = [loaded EXCEPT !.resident = rest]
    BY <1>4, <1>5 DEF ReleaseDevice, Unload
  <2>2. DOMAIN rest = DOMAIN res \ ({request.model} \ host.failing) /\ \A m \in DOMAIN rest : rest[m] = res[m]
    BY DEF Restrict
  <2> HIDE DEF rest
  <2>3. left = [total |-> host.total, resident |-> rest, vllm |-> 0, others |-> host.others,
                ram |-> host.ram, failing |-> host.failing]
    BY <1>4, <2>1
  <2>4. Released(host, request) = {request.model} \ host.failing
    BY <1>5 DEF Released
  <2> HIDE DEF left
  <2>5. /\ SameHost(left, host) /\ left.vllm = 0
        /\ DOMAIN left.resident = (Remain(host, request) \cup {request.model}) \ Released(host, request)
        /\ \A m \in DOMAIN left.resident : m # request.model => left.resident[m] = host.resident[m]
    BY <1>3, <2>2, <2>3, <2>4 DEF SameHost
  <2> QED BY <2>5 DEF left, loaded, ready
<1>6. CASE ~request.release
  <2>1. left = loaded /\ Released(host, request) = {}
    BY <1>6 DEF ReleaseDevice, Released
  <2> HIDE DEF left
  <2>2. /\ SameHost(left, host) /\ left.vllm = 0
        /\ DOMAIN left.resident = (Remain(host, request) \cup {request.model}) \ Released(host, request)
        /\ \A m \in DOMAIN left.resident : m # request.model => left.resident[m] = host.resident[m]
    BY <1>3, <1>4, <2>1 DEF SameHost
  <2> QED BY <2>2 DEF left, loaded, ready
<1> QED BY <1>5, <1>6

\* vLLM runs when its device is ready, and nothing else changes.
LEMMA SessionOfVllm ==
  ASSUME NEW host \in ModelHosts, NEW request \in ModelRequests, request.backend = "vllm"
  PROVE  LET ready == PrepareDevice(host, request)
             left == ReleaseDevice(LoadModel(ready, request), request)
         IN  VllmReady(ready) /\ VllmReady(left) /\ left.resident = host.resident
<1> DEFINE ready == PrepareDevice(host, request)
           loaded == LoadModel(ready, request)
           first == Max({host.vllm, 1})
           then == Max({first, GpuNeed(request)})
<1>1. first \in Nat /\ first > 0
  BY HostIs, MaxOfTwo
<1>2. ready = [host EXCEPT !.vllm = first]
  BY DEF PrepareDevice
<1> HIDE DEF first
<1>3. then \in Nat /\ then > 0
  BY <1>1, NeedsAreNat, MaxOfTwo
<1>4. ready.vllm = first /\ ready.resident = host.resident /\ ready = [total |-> host.total, resident |-> host.resident,
         vllm |-> first, others |-> host.others, ram |-> host.ram, failing |-> host.failing]
  BY <1>2 DEF ModelHosts
<1>5. loaded = [ready EXCEPT !.vllm = then]
  <2>1. loaded = [ready EXCEPT !.vllm = Max({ready.vllm, GpuNeed(request)})]
    BY DEF LoadModel
  <2> HIDE DEF ready, loaded
  <2> QED BY <1>4, <2>1
<1> HIDE DEF ready, loaded, then
<1>6. loaded.vllm = then /\ loaded.resident = host.resident
  BY <1>4, <1>5
<1>7. ReleaseDevice(loaded, request) = loaded
  BY DEF ReleaseDevice
<1>8. VllmReady(ready) /\ VllmReady(loaded)
  BY <1>1, <1>3, <1>4, <1>6 DEF VllmReady
<1> QED BY <1>6, <1>7, <1>8 DEF ready, loaded

-----------------------------------------------------------------------------
\* The call of a session.
PlacementAsked(host, request) ==
  /\ host \in ModelHosts /\ request \in ModelRequests
  /\ call.op = "place" /\ call.host = host /\ call.request = request
  /\ call.device = PlaceRequirement(host, request)
  /\ call.device = "cuda" =>
       /\ call.ready = PrepareDevice(host, request)
       /\ call.left = ReleaseDevice(LoadModel(PrepareDevice(host, request), request), request)
  /\ call.device # "cuda" => call.left = host

LEMMA CudaFits ==
  ASSUME NEW host, NEW request, PlaceRequirement(host, request) = "cuda"
  PROVE  GpuFits(host, request) /\ RamFits(host, request)
BY DEF PlaceRequirement

\* No model resident: nothing to reclaim or to keep.
LEMMA NothingResident ==
  ASSUME NEW request
  PROVE  Reclaimable(<< >>, request) = 0 /\ Kept(<< >>, request) = 0
<1>1. DOMAIN << >> = {}
  OBVIOUS
<1>2. ASSUME NEW A PROVE ResidentVram(Restrict(<< >>, DOMAIN << >> \cap A)) = 0
  <2> DEFINE r == Restrict(<< >>, DOMAIN << >> \cap A)
  <2>1. DOMAIN r = {}
    BY <1>1 DEF Restrict
  <2> HIDE DEF r
  <2>2. ResidentVram(r) = 0
    BY <2>1, ResidentIs, SumOfNone
  <2> QED BY <2>2 DEF r
<1>3. OtherModels(<< >>, request.model) = DOMAIN << >> \cap {}
  BY <1>1 DEF OtherModels
<1> QED BY <1>2, <1>3 DEF Reclaimable, Kept

\* The budget of a decision for Ollama, from what its model and the others hold.
Lists(host) == "list" \notin host.failing
Budgeted(host, request, own, rest) ==
  /\ Lists(host) /\ request.unload => FreeAfterUnload(host, request) = FreeGpu(host) + rest + own
  /\ ~ (Lists(host) /\ request.unload) =>
       FreeAfterUnload(host, request) \in {FreeGpu(host) + own, FreeGpu(host)}
LEMMA BudgetOfOllama ==
  ASSUME NEW host \in ModelHosts, NEW request \in ModelRequests, request.backend = "ollama"
  PROVE  LET res == host.resident
             own == DOMAIN res \cap {request.model}
         IN  Budgeted(host, request, SumOf(own, res), SumOf(DOMAIN res \ own, res))
<1> DEFINE res == host.resident
           own == DOMAIN res \cap {request.model}
           rest == DOMAIN res \ own
<1>1. res \in Loaded /\ FreeVram(host) \in Int
  BY HostIs
<1>2. FreeGpu(host) \in Int
  BY <1>1 DEF FreeGpu
<1>3. own \in SUBSET DOMAIN res /\ rest \in SUBSET DOMAIN res /\ OtherModels(res, request.model) = rest
  BY DEF OtherModels
<1>4. /\ ResidentVram(Restrict(res, own)) = SumOf(own, res) /\ SumOf(own, res) \in Nat
      /\ ResidentVram(Restrict(res, rest)) = SumOf(rest, res) /\ SumOf(rest, res) \in Nat
  <2> HIDE DEF own, rest
  <2> QED BY <1>1, <1>3, LoadedPart
<1>5. Kept(res, request) = SumOf(own, res) /\ Reclaimable(res, request) = IF request.unload THEN SumOf(rest, res) ELSE 0
  BY <1>3, <1>4 DEF Kept, Reclaimable
<1>6. CASE Lists(host)
  <2>1. ProbeResident(host, request) = res
    BY <1>6 DEF ProbeResident, Lists
  <2>2. FreeAfterUnload(host, request) = FreeGpu(host) + Reclaimable(res, request) + Kept(res, request)
    BY <2>1 DEF FreeAfterUnload
  <2> HIDE DEF own, rest, res
  <2>3. Budgeted(host, request, SumOf(own, res), SumOf(rest, res))
    BY <1>2, <1>4, <1>5, <1>6, <2>2 DEF Budgeted
  <2> QED BY <2>3 DEF own, rest, res
<1>7. CASE ~Lists(host)
  <2>1. ProbeResident(host, request) = << >>
    BY <1>7 DEF ProbeResident, Lists
  <2>2. FreeAfterUnload(host, request) = FreeGpu(host)
    BY <2>1, <1>2, NothingResident DEF FreeAfterUnload
  <2> HIDE DEF own, rest, res
  <2>3. Budgeted(host, request, SumOf(own, res), SumOf(rest, res))
    BY <1>7, <2>2 DEF Budgeted
  <2> QED BY <2>3 DEF own, rest, res
<1> QED BY <1>6, <1>7

\* The budget of the decision is there when the device is ready for Ollama.
LEMMA OllamaFits ==
  ASSUME NEW host \in ModelHosts, NEW request \in ModelRequests, request.backend = "ollama", GpuFits(host, request),
         host.failing \subseteq {"list"}
  PROVE  LET ready == PrepareDevice(host, request)
         IN  GpuNeed(request) + Headroom <= FreeVram(ready) + Kept(ready.resident, request)
<1> DEFINE ready == PrepareDevice(host, request)
           res == host.resident
           own == DOMAIN res \cap {request.model}
           rest == DOMAIN res \ own
           need == GpuNeed(request) + Headroom
<1>1. /\ SameHost(ready, host) /\ ready.vllm = 0 /\ DOMAIN ready.resident = Remain(host, request)
      /\ \A m \in Remain(host, request) : ready.resident[m] = res[m]
  BY ReadyForOllama
<1>2. /\ host.total \in Nat /\ res \in Loaded /\ host.vllm \in Nat /\ host.others \in Nat
      /\ FreeVram(host) = host.total - ResidentVram(res) - host.vllm - host.others /\ ResidentVram(res) \in Nat
  BY HostIs
<1>3. need \in Nat /\ need <= FreeAfterUnload(host, request) /\ FreeGpu(host) = FreeVram(host)
  BY NeedsAreNat, ReservesAssumption DEF GpuFits, FreeGpu
<1>4. own \in SUBSET DOMAIN res /\ rest \in SUBSET DOMAIN res /\ DOMAIN res \in SUBSET DOMAIN res
  OBVIOUS
<1>5. ResidentVram(res) = SumOf(own, res) + SumOf(rest, res) /\ SumOf(own, res) \in Nat /\ SumOf(rest, res) \in Nat
  BY <1>2, <1>4, LoadedSplits
<1>6. Kept(res, request) = SumOf(own, res)
  BY <1>2, <1>4, LoadedPart DEF Kept
<1>7. Remain(host, request) \in SUBSET DOMAIN res
  BY DEF Remain
<1> HIDE DEF ready, need
<1>8. /\ Weighs(Remain(host, request), res) /\ SumOf(Remain(host, request), res) \in Nat
      /\ ResidentVram(ready.resident) = SumOf(Remain(host, request), res)
  <2> DEFINE R == Remain(host, request)
  <2>1. IsFiniteSet(R) /\ \A x \in R : res[x] \in Nat
    BY <1>2, <1>7, LoadedPart
  <2>2. Weighs(R, res) /\ SumOf(R, res) \in Nat
    <3> HIDE DEF R, res
    <3> QED BY <2>1, SumIsNat
  <2>3. DOMAIN ready.resident = R /\ \A x \in R : res[x] = ready.resident[x]
    BY <1>1
  <2> HIDE DEF R, res
  <2>4. SumOf(R, res) = SumOf(R, ready.resident)
    BY <2>2, <2>3, SumIsOne
  <2>5. ResidentVram(ready.resident) = SumOf(R, ready.resident)
    BY <2>3, ResidentIs
  <2> QED BY <2>2, <2>4, <2>5 DEF R
<1>9. own \subseteq Remain(host, request)
  BY DEF Remain, OtherModels
<1>10. Kept(ready.resident, request) = SumOf(own, res)
  <2> DEFINE kept == Restrict(ready.resident, DOMAIN ready.resident \cap {request.model})
  <2>1. Remain(host, request) \cap {request.model} = own
    BY <1>7, <1>9
  <2>2. DOMAIN kept = own /\ \A x \in own : kept[x] = ready.resident[x]
    BY <1>1, <2>1 DEF Restrict
  <2>3. \A x \in own : res[x] = kept[x]
    <3> HIDE DEF kept, own
    <3> QED BY <1>1, <1>9, <2>2
  <2>4. Kept(ready.resident, request) = ResidentVram(kept)
    BY DEF Kept
  <2>5. Weighs(own, res)
    <3>1. IsFiniteSet(own) /\ \A x \in own : res[x] \in Nat
      BY <1>2, <1>4, LoadedPart
    <3> HIDE DEF own, res
    <3> QED BY <3>1, SumIsNat
  <2> HIDE DEF kept, own, res
  <2>6. SumOf(own, res) = SumOf(own, kept)
    BY <2>3, <2>5, SumIsOne
  <2>7. ResidentVram(kept) = SumOf(own, kept)
    BY <2>2, ResidentIs
  <2> QED BY <2>4, <2>6, <2>7
<1>11. FreeVram(ready) = host.total - SumOf(Remain(host, request), res) - host.others
  <2>1. ready.total = host.total /\ ready.others = host.others /\ ready.vllm = 0
    BY <1>1 DEF SameHost
  <2>2. FreeVram(ready) = ready.total - ResidentVram(ready.resident) - ready.vllm - ready.others
    BY DEF FreeVram
  <2> HIDE DEF res
  <2> QED BY <1>2, <1>8, <2>1, <2>2
<1>12. Budgeted(host, request, SumOf(own, res), SumOf(rest, res))
  BY <1>2, <1>5, <1>6, BudgetOfOllama
<1>13. CASE Lists(host) /\ request.unload
  <2>1. host.failing = {}
    BY <1>13 DEF Lists
  <2>2. Remain(host, request) = own
    BY <1>13, <2>1 DEF Remain, OtherModels, Lists
  <2>3. FreeAfterUnload(host, request) = FreeVram(host) + SumOf(rest, res) + SumOf(own, res)
    BY <1>3, <1>12, <1>13 DEF Budgeted
  <2>4. FreeVram(ready) = host.total - SumOf(own, res) - host.others
    BY <1>11, <2>2
  <2> HIDE DEF own, rest, res
  <2>5. need <= FreeVram(ready) + Kept(ready.resident, request)
    BY <1>2, <1>3, <1>5, <1>10, <2>3, <2>4
  <2> QED BY <2>5 DEF need, ready
<1>14. CASE ~ (Lists(host) /\ request.unload)
  <2>1. Remain(host, request) = DOMAIN res
    BY <1>14 DEF Remain, Lists
  <2>2. FreeAfterUnload(host, request) \in {FreeVram(host) + SumOf(own, res), FreeVram(host)}
    <3> HIDE DEF own, rest, res
    <3> QED BY <1>3, <1>12, <1>14 DEF Budgeted
  <2>3. SumOf(Remain(host, request), res) = SumOf(own, res) + SumOf(rest, res)
    BY <1>2, <1>5, <2>1, LoadedWhole
  <2> HIDE DEF own, rest, res
  <2>4. FreeVram(host) \in Int
    BY <1>2
  <2>5. need <= FreeVram(ready) + Kept(ready.resident, request)
    BY <1>2, <1>3, <1>5, <1>10, <1>11, <2>2, <2>3, <2>4
  <2> QED BY <2>5 DEF need, ready
<1> QED BY <1>13, <1>14

LEMMA GrantedFits ==
  ASSUME NEW host, NEW request, PlacementAsked(host, request)
  PROVE  GrantFits
<1> DEFINE ready == PrepareDevice(host, request)
           held == Kept(ready.resident, request)
<1>1. /\ host \in ModelHosts /\ request \in ModelRequests /\ call.host = host /\ call.request = request
      /\ call.device = PlaceRequirement(host, request) /\ (call.device = "cuda" => call.ready = ready)
      /\ (call.device # "cuda" => call.left = host)
  BY DEF PlacementAsked
<1>2. call.device = "cuda" => GpuFits(host, request)
  BY <1>1, CudaFits
<1>3. ASSUME call.device = "cuda", host.failing \subseteq {"list"}, request.backend = "ollama"
      PROVE GpuNeed(request) + Headroom <= FreeVram(ready) + held /\ ~VllmReady(ready)
  <2>1. GpuNeed(request) + Headroom <= FreeVram(ready) + held
    BY <1>1, <1>2, <1>3, OllamaFits
  <2>2. ready.vllm = 0
    BY <1>1, <1>3, ReadyForOllama
  <2> HIDE DEF ready
  <2> QED BY <2>1, <2>2 DEF VllmReady
<1>4. ASSUME call.device = "cuda", request.backend = "vllm"
      PROVE GpuNeed(request) + Headroom <= FreeVram(host) /\ VllmReady(ready)
  <2>1. ProbeResident(host, request) = << >>
    BY <1>4 DEF ProbeResident
  <2>2. FreeVram(host) \in Int /\ FreeGpu(host) = FreeVram(host)
    BY <1>1, <1>2, <1>4, HostIs DEF GpuFits, FreeGpu
  <2>3. FreeAfterUnload(host, request) = FreeVram(host)
    BY <2>1, <2>2, NothingResident DEF FreeAfterUnload
  <2>4. GpuNeed(request) + Headroom <= FreeVram(host)
    BY <1>2, <1>4, <2>3 DEF GpuFits
  <2>5. VllmReady(ready)
    BY <1>1, <1>4, SessionOfVllm
  <2> QED BY <2>4, <2>5
<1>5. call.device # "unavailable" => CpuNeed(request) + DatabaseReserve <= host.ram
  <2>1. call.device # "unavailable" => RamFits(host, request)
    BY <1>1 DEF PlaceRequirement
  <2>2. CpuNeed(request) \in Nat /\ DatabaseReserve \in Nat /\ host.ram \in Nat
    BY <1>1, NeedsAreNat, HostIs, ReservesAssumption
  <2> QED BY <2>1, <2>2 DEF RamFits
<1> HIDE DEF ready
<1> QED BY <1>1, <1>3, <1>4, <1>5 DEF GrantFits

LEMMA GivenBack ==
  ASSUME NEW host, NEW request, PlacementAsked(host, request)
  PROVE  SessionGivesBack
<1> DEFINE left == ReleaseDevice(LoadModel(PrepareDevice(host, request), request), request)
           res == host.resident
<1>1. /\ host \in ModelHosts /\ request \in ModelRequests /\ call.host = host /\ call.request = request
      /\ call.device = PlaceRequirement(host, request) /\ (call.device = "cuda" => call.left = left)
      /\ (call.device # "cuda" => call.left = host)
  BY DEF PlacementAsked
<1>2. request.backend \in {"ollama", "vllm"}
  BY <1>1 DEF ModelRequests
<1>3. ASSUME call.device = "cuda" PROVE ForeignRuntimeAllows(host, request)
  BY <1>1, <1>3, CudaFits DEF GpuFits
<1>4. ASSUME request.backend = "ollama"
      PROVE /\ SameHost(left, host) /\ left.vllm = 0
            /\ DOMAIN left.resident = (Remain(host, request) \cup {request.model}) \ Released(host, request)
            /\ \A m \in DOMAIN left.resident : m # request.model => left.resident[m] = res[m]
  BY <1>1, <1>4, LeftByOllama
<1>5. request.backend = "vllm" => VllmReady(left) /\ left.resident = res
  BY <1>1, SessionOfVllm
<1>6. Remain(host, request) \subseteq DOMAIN res
  BY DEF Remain
<1> HIDE DEF left
<1>7. ASSUME call.device = "cuda", request.backend = "ollama", request.release, request.model \notin host.failing
      PROVE /\ request.model \notin DOMAIN left.resident /\ FreeVram(left) >= FreeVram(host)
            /\ \A m \in DOMAIN left.resident : m \in DOMAIN res /\ left.resident[m] = res[m]
  <2> DEFINE D == DOMAIN left.resident
  <2>1. Released(host, request) = {request.model}
    BY <1>7 DEF Released
  <2>2. D \in SUBSET DOMAIN res /\ request.model \notin D /\ \A m \in D : res[m] = left.resident[m]
    BY <1>4, <1>6, <1>7, <2>1
  <2>3. /\ host.total \in Nat /\ res \in Loaded /\ host.vllm \in Nat /\ host.others \in Nat
        /\ FreeVram(host) = host.total - ResidentVram(res) - host.vllm - host.others /\ ResidentVram(res) \in Nat
    BY <1>1, HostIs
  <2>4. ResidentVram(left.resident) = SumOf(D, left.resident)
    BY ResidentIs
  <2> HIDE DEF D, res
  <2>5. IsFiniteSet(D) /\ \A m \in D : res[m] \in Nat
    BY <2>2, <2>3, LoadedPart
  <2>6. Weighs(D, res)
    BY <2>5, SumIsNat
  <2>7. SumOf(D, res) = SumOf(D, left.resident)
    BY <2>2, <2>6, SumIsOne
  <2>8. ResidentVram(res) = SumOf(D, res) + SumOf(DOMAIN res \ D, res) /\ SumOf(D, res) \in Nat /\ SumOf(DOMAIN res \ D, res) \in Nat
    BY <2>2, <2>3, LoadedSplits
  <2>9. FreeVram(left) = host.total - SumOf(D, res) - host.others
    <3>1. left.total = host.total /\ left.others = host.others /\ left.vllm = 0
      BY <1>4, <1>7 DEF SameHost
    <3>2. FreeVram(left) = left.total - ResidentVram(left.resident) - left.vllm - left.others
      BY DEF FreeVram
    <3> QED BY <2>3, <2>4, <2>7, <2>8, <3>1, <3>2
  <2>10. FreeVram(left) >= FreeVram(host)
    BY <2>3, <2>8, <2>9
  <2> QED BY <2>2, <2>10 DEF D
<1>8. ~request.control => VllmReady(call.left) = VllmReady(host)
  <2>1. ASSUME ~request.control, call.device = "cuda" PROVE VllmReady(left) = VllmReady(host)
    <3>1. ~VllmBlocks(host, request) /\ ~VllmNeedsStart(host, request)
      BY <1>3, <2>1 DEF ForeignRuntimeAllows
    <3>2. CASE request.backend = "ollama"
      BY <1>4, <3>1, <3>2 DEF VllmBlocks, VllmReady
    <3>3. CASE request.backend = "vllm"
      BY <1>5, <3>1, <3>3 DEF VllmNeedsStart
    <3> QED BY <1>2, <3>2, <3>3
  <2> QED BY <1>1, <2>1
<1>9. ~request.unload => DOMAIN res \subseteq DOMAIN call.left.resident \cup {request.model}
  <2>1. ASSUME ~request.unload, call.device = "cuda" PROVE DOMAIN res \subseteq DOMAIN left.resident \cup {request.model}
    <3>1. CASE request.backend = "ollama"
      <4>1. Remain(host, request) = DOMAIN res /\ Released(host, request) \subseteq {request.model}
        BY <2>1 DEF Remain, Released
      <4> QED BY <1>4, <3>1, <4>1
    <3>2. CASE request.backend = "vllm"
      BY <1>5, <3>2
    <3> QED BY <1>2, <3>1, <3>2
  <2> QED BY <1>1, <2>1
<1> QED BY <1>1, <1>7, <1>8, <1>9 DEF SessionGivesBack

-----------------------------------------------------------------------------
\* The call is one of a client of the forecast or of the GPU.
Asked ==
  \/ \E then, now : ForecastAsked(then, now)
  \/ \E host, request : PlacementAsked(host, request)
LEMMA AskedIsGranted == Asked => ResourcesHold
<1>1. ASSUME NEW then, NEW now, ForecastAsked(then, now) PROVE ResourcesHold
  <2>1. call.op = "forecast"
    BY <1>1 DEF ForecastAsked
  <2>2. GrantFits /\ SessionGivesBack
    BY <2>1 DEF GrantFits, SessionGivesBack
  <2> QED BY <1>1, <2>2, AllowedStart, BoundCurrent, ChargedOnce DEF ResourcesHold
<1>2. ASSUME NEW host, NEW request, PlacementAsked(host, request) PROVE ResourcesHold
  <2>1. call.op = "place"
    BY <1>2 DEF PlacementAsked
  <2>2. BoundIsCurrent /\ CostsChargedOnce /\ AllowedStarts
    BY <2>1 DEF BoundIsCurrent, CostsChargedOnce, AllowedStarts, Forecasts
  <2> QED BY <1>2, <2>2, GrantedFits, GivenBack DEF ResourcesHold
<1> QED BY <1>1, <1>2 DEF Asked

\* The charges, as a sum of the budgets.
ChargedBySums ==
  Forecasts => SumOf(call.document.devices, PeaksOf(call.document.devices)) = Total(Costs, Output(call.then))
LEMMA ChargedIsBySums == CostsChargedOnce <=> ChargedBySums
<1> DEFINE budgets == call.document.devices
<1>1. MapThenSumSet(LAMBDA b : b.peak, budgets) = SumOf(budgets, PeaksOf(budgets))
  BY PeaksAre
<1> QED BY <1>1 DEF CostsChargedOnce, ChargedBySums

Quiet == call.op = "none"
LEMMA QuietIsGranted == Quiet => ResourcesHold
BY DEF Quiet, ResourcesHold, BoundIsCurrent, CostsChargedOnce, AllowedStarts, GrantFits, SessionGivesBack, Forecasts

LEMMA PlacementIsAsked ==
  ASSUME NEW host \in ModelHosts, NEW request \in ModelRequests, AskPlacement(host, request)
  PROVE  PlacementAsked(host, request)'
<1> DEFINE session == SessionOf(host, request)
<1>1. call' = [op |-> "place", host |-> host, request |-> request, reason |-> Reason(host, request),
               device |-> session.device, ready |-> session.ready, left |-> session.left]
  BY DEF AskPlacement, Ask
<1>2. /\ session.device = PlaceRequirement(host, request)
      /\ session.device = "cuda" =>
           /\ session.ready = PrepareDevice(host, request)
           /\ session.left = ReleaseDevice(LoadModel(PrepareDevice(host, request), request), request)
      /\ session.device # "cuda" => session.left = host
  BY DEF SessionOf
<1> HIDE DEF session
<1>3. /\ call'.op = "place" /\ call'.host = host /\ call'.request = request /\ call'.device = session.device
      /\ call'.ready = session.ready /\ call'.left = session.left
  BY <1>1
<1> QED BY <1>2, <1>3 DEF PlacementAsked

LEMMA ForecastIsAsked ==
  ASSUME NEW then \in ForecastFacts, NEW now \in ForecastFacts, AskForecast(then, now)
  PROVE  ForecastAsked(then, now)'
<1>1. call' = [op |-> "forecast", then |-> then, now |-> now, document |-> BuildForecast(then),
               bound |-> Bound(BuildForecast(then), now), guard |-> SpaceGuard(BuildForecast(then), now)]
  BY DEF AskForecast, Ask
<1> QED BY <1>1 DEF ForecastAsked

\* Theorem: of any archive, plan and roots, a retained forecast that binds is
\* worth one made anew, every cost is charged to one device, and what a forecast
\* allows starts; of any host and model, a model that is given the GPU fits
\* there, and its session gives back what it took (pipeline/forecast,
\* inference/scheduler).
THEOREM ResourcesAreGranted == ResourcesSpec => []ResourcesHold
<1>1. call = Ready => ResourcesHold
  <2>1. call = Ready => Quiet
    BY DEF Ready, Quiet
  <2> QED BY <2>1, QuietIsGranted
<1>2. Asked' => ResourcesHold'
  BY AskedIsGranted, PTL
<1>3. Quiet' => ResourcesHold'
  BY QuietIsGranted, PTL
<1>4. ResourcesHold /\ [ResourcesNext]_call => ResourcesHold'
  <2>1. ASSUME NEW then \in ForecastFacts, NEW now \in ForecastFacts, AskForecast(then, now) PROVE Asked'
    <3>1. ForecastAsked(then, now)'
      BY <2>1, ForecastIsAsked
    <3> QED BY <3>1 DEF Asked
  <2>2. ASSUME NEW host \in ModelHosts, NEW request \in ModelRequests, AskPlacement(host, request) PROVE Asked'
    <3>1. PlacementAsked(host, request)'
      BY <2>2, PlacementIsAsked
    <3> QED BY <3>1 DEF Asked
  <2>3. Return => Quiet'
    BY DEF Return, Ready, Quiet
  <2>4. ResourcesHold /\ UNCHANGED call => ResourcesHold'
    <3> SUFFICES ASSUME call' = call PROVE ResourcesHold => ResourcesHold'
      OBVIOUS
    <3>1. (BoundIsCurrent => BoundIsCurrent') /\ (AllowedStarts => AllowedStarts')
      BY DEF BoundIsCurrent, AllowedStarts, Forecasts
    <3>3. (ChargedBySums => ChargedBySums')
      BY DEF ChargedBySums, Forecasts
    <3>4. CostsChargedOnce => CostsChargedOnce'
      <4>1. (CostsChargedOnce <=> ChargedBySums) /\ (CostsChargedOnce <=> ChargedBySums)'
        BY ChargedIsBySums, PTL
      <4> QED BY <3>3, <4>1
    <3>2. (GrantFits => GrantFits') /\ (SessionGivesBack => SessionGivesBack')
      BY DEF GrantFits, SessionGivesBack
    <3> QED BY <3>1, <3>2, <3>4 DEF ResourcesHold
  <2> QED BY <1>2, <1>3, <2>1, <2>2, <2>3, <2>4 DEF ResourcesNext
<1> QED BY <1>1, <1>4, PTL DEF ResourcesSpec
=============================================================================
