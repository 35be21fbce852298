----------------------- MODULE MetricsReporterProofs -----------------------
(***************************************************************************)
(* Proofs about MetricsReporter, for every size of the ring, every number  *)
(* of files, sessions, samples and power-ups.                              *)
(*                                                                         *)
(* The sum over the blocks in the ring is a recursive function, so what it *)
(* does when a block is added or taken is shown by induction.  The         *)
(* library's induction theorems take a predicate, which the provers cannot *)
(* instantiate; the ones here are about sets and follow from WFMin.        *)
(***************************************************************************)
EXTENDS MetricsReporter, SequenceTheorems, WellFoundedInduction, TLAPS

-----------------------------------------------------------------------------
(* Natural numbers.                                                        *)

\* A set of numbers that is not empty has a least,
LEMMA LeastNat ==
  ASSUME NEW S \in SUBSET Nat, S # {}
  PROVE  \E x \in S : \A y \in S : x <= y
<1> DEFINE Less == {ss \in Nat \X Nat : ss[1] < ss[2]}
<1>1. IsWellFoundedOn(Less, Nat)
  BY NatLessThanWellFounded, Zenon DEF OpToRel
<1> HIDE DEF Less
<1>2. PICK x \in S : \A y \in S : <<y, x>> \notin Less
  BY <1>1, WFMin
<1>3. ASSUME NEW y \in S PROVE x <= y
  <2>1. ~ (y < x)
    BY <1>2 DEF Less
  <2> QED BY <2>1
<1> QED BY <1>3

\* and a greatest if it is bounded.
LEMMA GreatestNat ==
  ASSUME NEW S \in SUBSET Nat, S # {}, NEW bound \in Nat, \A x \in S : x <= bound
  PROVE  Max(S) \in S /\ \A x \in S : x <= Max(S)
<1> DEFINE Below == {t \in Nat : bound - t \in S}
<1>1. Below # {} /\ Below \in SUBSET Nat
  <2>1. PICK x \in S : TRUE
    OBVIOUS
  <2>2. bound - x \in Below
    OBVIOUS
  <2> QED BY <2>2
<1>2. PICK t \in Below : \A u \in Below : t <= u
  <2> HIDE DEF Below
  <2> QED BY <1>1, LeastNat
<1>3. \A y \in S : bound - t >= y
  <2> SUFFICES ASSUME NEW y \in S PROVE bound - t >= y
    OBVIOUS
  <2>1. bound - y \in Below
    OBVIOUS
  <2>2. t <= bound - y
    <3> HIDE DEF Below
    <3> QED BY <1>2, <2>1
  <2>3. t \in Nat
    OBVIOUS
  <2> HIDE DEF Below
  <2> QED BY <2>2, <2>3
<1>4. bound - t \in S
  OBVIOUS
<1> HIDE DEF Below
<1> QED BY <1>3, <1>4 DEF Max

\* Induction on a set of numbers, from the well-foundedness of their order.
LEMMA NatInductionSet ==
  ASSUME NEW S \in SUBSET Nat, 0 \in S, \A n \in S : n + 1 \in S
  PROVE  S = Nat
<1> SUFFICES ASSUME Nat \ S # {} PROVE FALSE
  OBVIOUS
<1>1. PICK m \in Nat \ S : \A n \in Nat \ S : m <= n
  BY LeastNat
<1>2. m # 0 /\ m - 1 \in S
  BY <1>1
<1> QED BY <1>2

-----------------------------------------------------------------------------
(* Sums over blocks.                                                       *)

\* g lists the sums of the first blocks, up to k of them.
Sums(g, blocks, f, k) ==
  /\ g \in [0 .. k -> Nat]
  /\ g[0] = 0
  /\ \A n \in 1 .. k : g[n] = g[n - 1] + blocks[n].data[f]

\* Every ring has its partial sums,
LEMMA SumsExist ==
  ASSUME NEW blocks \in Seq(Block), NEW f \in Field
  PROVE  \E g : Sums(g, blocks, f, Len(blocks))
<1> DEFINE S == {k \in Nat : k <= Len(blocks) => \E g : Sums(g, blocks, f, k)}
<1>1. 0 \in S
  <2> DEFINE g == [n \in 0 .. 0 |-> 0]
  <2>1. Sums(g, blocks, f, 0)
    BY DEF Sums
  <2> QED BY <2>1
<1>2. ASSUME NEW k \in S PROVE k + 1 \in S
  <2> SUFFICES ASSUME k + 1 <= Len(blocks)
               PROVE  \E g : Sums(g, blocks, f, k + 1)
    OBVIOUS
  <2>1. PICK g : Sums(g, blocks, f, k)
    OBVIOUS
  <2>2. blocks[k + 1].data[f] \in Nat
    <3>1. blocks[k + 1] \in Block
      OBVIOUS
    <3> QED BY <3>1 DEF Block
  <2> DEFINE h == [n \in 0 .. k + 1 |->
                     IF n = k + 1 THEN g[k] + blocks[k + 1].data[f] ELSE g[n]]
  <2>3. h \in [0 .. k + 1 -> Nat] /\ h[0] = 0
    BY <2>1, <2>2 DEF Sums
  <2>4. ASSUME NEW n \in 1 .. k + 1 PROVE h[n] = h[n - 1] + blocks[n].data[f]
    <3>1. CASE n = k + 1
      BY <3>1
    <3>2. CASE n \in 1 .. k
      <4>1. g[n] = g[n - 1] + blocks[n].data[f]
        BY <2>1, <3>2 DEF Sums
      <4>2. n # k + 1 /\ n - 1 # k + 1 /\ n - 1 \in 0 .. k + 1
        BY <3>2
      <4> QED BY <4>1, <4>2
    <3> QED BY <3>1, <3>2
  <2>5. Sums(h, blocks, f, k + 1)
    BY <2>3, <2>4 DEF Sums
  <2> QED BY <2>5
<1>3. S = Nat
  <2> HIDE DEF S
  <2>1. S \in SUBSET Nat
    BY DEF S
  <2> QED BY <1>1, <1>2, <2>1, NatInductionSet
<1>4. Len(blocks) \in S
  <2> HIDE DEF S
  <2>1. Len(blocks) \in Nat
    OBVIOUS
  <2> QED BY <1>3, <2>1
<1> QED BY <1>4

\* and what is counted in it is the last of them, whatever the fold chooses.
LEMMA SamplesAreSums ==
  ASSUME NEW blocks \in Seq(Block), NEW f \in Field
  PROVE  \E g : Sums(g, blocks, f, Len(blocks)) /\ Samples(blocks, f) = g[Len(blocks)]
<1> DEFINE L == Len(blocks)
           IsSum(g) == g = [n \in 0 .. L |->
                              IF n = 0 THEN 0 ELSE g[n - 1] + blocks[n].data[f]]
           sum == CHOOSE g : IsSum(g)
<1>1. PICK h : Sums(h, blocks, f, L)
  BY SumsExist
<1>2. IsSum(h)
  BY <1>1 DEF Sums
<1>3. IsSum(sum)
  BY <1>2, Zenon
<1>4. Samples(blocks, f) = sum[L]
  BY Zenon DEF Samples
<1> HIDE DEF sum
<1>5. \A n \in 0 .. L : sum[n] = h[n]
  <2> DEFINE S == {n \in Nat : n <= L => sum[n] = h[n]}
  <2>1. 0 \in S
    BY <1>1, <1>3 DEF Sums
  <2>2. ASSUME NEW n \in S PROVE n + 1 \in S
    <3> SUFFICES ASSUME n + 1 <= L PROVE sum[n + 1] = h[n + 1]
      OBVIOUS
    <3>1. sum[n] = h[n] /\ n + 1 \in 1 .. L /\ (n + 1) - 1 = n
      OBVIOUS
    <3>2. sum[n + 1] = sum[n] + blocks[n + 1].data[f]
      BY <1>3, <3>1
    <3> QED BY <1>1, <3>1, <3>2 DEF Sums
  <2>3. S = Nat
    <3> HIDE DEF S
    <3>1. S \in SUBSET Nat
      BY DEF S
    <3> QED BY <2>1, <2>2, <3>1, NatInductionSet
  <2> QED BY <2>3
<1> QED BY <1>1, <1>4, <1>5

\* From the one after `shift' on, the blocks of b are those of a; g and h list their sums.
Embedded(g, a, k, h, b, l, shift, f) ==
  /\ k \in Nat /\ l \in Nat /\ shift \in Nat /\ k + shift <= l
  /\ Sums(g, a, f, k) /\ Sums(h, b, f, l)
  /\ \A n \in 1 .. k : b[n + shift] = a[n] /\ a[n].data[f] \in Nat

\* Partial sums of a ring inside another differ by what precedes it.
LEMMA SumsAgree ==
  ASSUME NEW g, NEW a, NEW k, NEW h, NEW b, NEW l, NEW shift, NEW f,
         Embedded(g, a, k, h, b, l, shift, f)
  PROVE  h[k + shift] = g[k] + h[shift]
<1> USE DEF Embedded
<1> DEFINE more == h[shift]
<1>0. more \in Nat
  BY DEF Sums
<1> HIDE DEF more
<1> DEFINE S == {n \in Nat : n <= k => h[n + shift] = g[n] + more}
<1>1. 0 \in S
  BY <1>0 DEF Sums, more
<1>2. ASSUME NEW n \in S PROVE n + 1 \in S
  <2> SUFFICES ASSUME n + 1 <= k PROVE h[n + 1 + shift] = g[n + 1] + more
    OBVIOUS
  <2>1. n \in Nat /\ n \in 0 .. k /\ n + 1 \in 1 .. k /\ n + 1 \in 0 .. k
        /\ n + shift \in 0 .. l /\ n + 1 + shift \in 1 .. l
        /\ n + 1 + shift \in 0 .. l /\ (n + 1) - 1 = n
        /\ (n + 1 + shift) - 1 = n + shift
    OBVIOUS
  <2>2. h[n + shift] = g[n] + more
    BY <2>1
  <2> HIDE DEF S
  <2>3. g[n + 1] = g[n] + a[n + 1].data[f]
    BY <2>1 DEF Sums
  <2>4. h[n + 1 + shift] = h[n + shift] + b[n + 1 + shift].data[f]
    BY <2>1 DEF Sums
  <2>5. g[n] \in Nat /\ g[n + 1] \in Nat /\ h[n + 1 + shift] \in Nat
    BY <2>1 DEF Sums
  <2>6. b[n + 1 + shift] = a[n + 1]
    BY <2>1
  <2> DEFINE d == a[n + 1].data[f]
  <2>7. g[n + 1] = g[n] + d /\ h[n + 1 + shift] = (g[n] + more) + d
    BY <2>2, <2>3, <2>4, <2>6
  <2>8. d \in Nat
    BY <2>1
  <2> HIDE DEF d
  <2> QED BY <1>0, <2>5, <2>7, <2>8
<1>3. S = Nat
  <2> HIDE DEF S
  <2>1. S \in SUBSET Nat
    BY DEF S
  <2> QED BY <1>1, <1>2, <2>1, NatInductionSet
<1> QED BY <1>3 DEF more

\* An empty ring counts nothing,
LEMMA SamplesEmpty ==
  ASSUME NEW f \in Field
  PROVE  Samples(<<>>, f) = 0
<1>1. <<>> \in Seq(Block) /\ Len(<<>>) = 0
  OBVIOUS
<1>2. PICK g : Sums(g, <<>>, f, 0) /\ Samples(<<>>, f) = g[0]
  BY <1>1, SamplesAreSums
<1> QED BY <1>2 DEF Sums

\* a captured block adds its samples,
LEMMA SamplesAppend ==
  ASSUME NEW blocks \in Seq(Block), NEW b \in Block, NEW f \in Field
  PROVE  Samples(Append(blocks, b), f) = Samples(blocks, f) + b.data[f]
<1> DEFINE L == Len(blocks)
           longer == Append(blocks, b)
<1>1. longer \in Seq(Block) /\ Len(longer) = L + 1 /\ longer[L + 1] = b /\ L \in Nat
      /\ \A n \in 1 .. L : longer[n] = blocks[n]
  OBVIOUS
<1> HIDE DEF longer
<1>2. PICK g : Sums(g, blocks, f, L) /\ Samples(blocks, f) = g[L]
  BY SamplesAreSums
<1>3. PICK h : Sums(h, longer, f, L + 1) /\ Samples(longer, f) = h[L + 1]
  BY <1>1, SamplesAreSums
<1>4. h[L] = g[L]
  <2>1. h[0] = 0 /\ L + 0 = L
    BY <1>1, <1>3 DEF Sums
  <2>2. ASSUME NEW n \in 1 .. L
        PROVE  longer[n + 0] = blocks[n] /\ blocks[n].data[f] \in Nat
    <3>1. blocks[n] \in Block /\ n + 0 = n
      OBVIOUS
    <3> QED BY <1>1, <3>1 DEF Block
  <2>3. Embedded(g, blocks, L, h, longer, L + 1, 0, f)
    BY <1>1, <1>2, <1>3, <2>2 DEF Embedded
  <2>4. h[L + 0] = g[L] + h[0]
    BY <2>3, SumsAgree
  <2>5. g[L] \in Nat
    BY <1>1, <1>2 DEF Sums
  <2> QED BY <2>1, <2>4, <2>5
<1>5. h[L + 1] = h[L] + longer[L + 1].data[f]
  BY <1>1, <1>3 DEF Sums
<1> QED BY <1>1, <1>2, <1>3, <1>4, <1>5 DEF longer

\* and the oldest block takes its samples away.
LEMMA SamplesTail ==
  ASSUME NEW blocks \in Seq(Block), blocks # <<>>, NEW f \in Field
  PROVE  Samples(blocks, f) = Samples(Tail(blocks), f) + Head(blocks).data[f]
<1> DEFINE rest == Tail(blocks)
           L == Len(rest)
<1>1. rest \in Seq(Block) /\ L \in Nat /\ Len(blocks) = L + 1 /\ Head(blocks) = blocks[1]
      /\ \A n \in 1 .. L : blocks[n + 1] = rest[n]
  OBVIOUS
<1> HIDE DEF rest
<1>2. PICK g : Sums(g, rest, f, L) /\ Samples(rest, f) = g[L]
  BY <1>1, SamplesAreSums
<1>3. PICK h : Sums(h, blocks, f, L + 1) /\ Samples(blocks, f) = h[L + 1]
  BY <1>1, SamplesAreSums
<1>4. h[1] = blocks[1].data[f] /\ h[1] \in Nat
  <2>1. 1 \in 1 .. L + 1 /\ 1 \in 0 .. L + 1 /\ 1 - 1 = 0
    BY <1>1
  <2>2. blocks[1] \in Block
    BY <1>1
  <2>3. blocks[1].data[f] \in Nat
    BY <2>2 DEF Block
  <2>4. h[1] = h[0] + blocks[1].data[f] /\ h[0] = 0 /\ h[1] \in Nat
    BY <1>3, <2>1 DEF Sums
  <2> QED BY <2>3, <2>4
<1>5. h[L + 1] = g[L] + h[1]
  <2>1. ASSUME NEW n \in 1 .. L
        PROVE  blocks[n + 1] = rest[n] /\ rest[n].data[f] \in Nat
    <3>1. rest[n] \in Block
      BY <1>1
    <3> QED BY <1>1, <3>1 DEF Block
  <2>2. Embedded(g, rest, L, h, blocks, L + 1, 1, f)
    BY <1>1, <1>2, <1>3, <2>1 DEF Embedded
  <2> QED BY <2>2, SumsAgree
<1> QED BY <1>1, <1>2, <1>3, <1>4, <1>5 DEF rest

-----------------------------------------------------------------------------
(* The inductive invariant.                                                *)

\* A block is being captured: its count is exchanged, the rest is still to come.
Capturing == rpc \in {"snapshot", "counters"}

\* What the reporter has found out where it is, and that the engine's total only grows.
ControlInv ==
  /\ rpc \in {"end", "capture"} \/ Capturing => Len(pending) < MaxPending
  /\ Len(capture) = IF Capturing THEN 1 ELSE 0
  /\ rpc = "snapshot" => capture[1].data["sum"] = 0
  /\ Capturing => capture[1].data["audio"] = 0
  /\ rpc = "write" => pending # <<>>
  /\ rpc \in {"boot", "bootWrite", "next", "write"} => filePath # 0
  /\ rpc \in {"boot", "bootWrite"} => ~bootWritten
  /\ rpc \in {"next", "write"} => bootWritten
  /\ lastStats <= engine

\* The blocks that wait are numbered in order, below the next number to give.
RingInv ==
  /\ \A q \in DOMAIN pending : 0 < pending[q].block /\ pending[q].block < nextBlock
  /\ \A p, q \in DOMAIN pending : p < q => pending[p].block < pending[q].block
  /\ Capturing =>
       /\ 0 < capture[1].block /\ capture[1].block < nextBlock
       /\ \A q \in DOMAIN pending : pending[q].block < capture[1].block
  /\ 0 < nextBlock

\* Where the blocks of this power-up are on the card.
DiskInv ==
  /\ \A i \in 1 .. MaxFileIndex : \A p \in DOMAIN disk[i] :
       /\ disk[i][p].boot <= boot
       /\ disk[i][p].boot = boot =>
            /\ i = filePath /\ bootWritten /\ disk[i][p].block < nextBlock
            /\ Capturing => disk[i][p].block < capture[1].block
  /\ filePath # 0 =>
       \/ filePath \in misplaced \cup {MaxFileIndex}
       \/ \A p \in DOMAIN disk[filePath] : disk[filePath][p].boot = boot

SafetyInv == TypeOK /\ ControlInv /\ RingInv /\ DiskInv /\ FileInOrder

-----------------------------------------------------------------------------
(* Types.                                                                  *)

\* The files of earlier power-ups are files.
LEMMA OldFilesType ==
  ASSUME NEW files \in 0 .. MaxFileIndex
  PROVE  OldFiles(files) \in [1 .. MaxFileIndex -> Seq(Entry)]
<1>1. <<[boot |-> 0, block |-> 0]>> \in Seq(Entry) /\ <<>> \in Seq(Entry)
  BY DEF Entry
<1> QED BY <1>1 DEF OldFiles

\* Every block of a ring has a number.
LEMMA BlockNumber ==
  ASSUME NEW blocks \in Seq(Block), NEW q \in DOMAIN blocks
  PROVE  blocks[q] \in Block /\ blocks[q].block \in Nat
<1>1. blocks[q] \in Block
  OBVIOUS
<1> QED BY <1>1 DEF Block

\* The file a power-up picks is one there can be,
LEMMA NextFileType ==
  ASSUME NEW listed \in SUBSET (1 .. MaxFileIndex)
  PROVE  /\ NextFile(listed) \in 1 .. MaxFileIndex
         /\ NextFile(listed) = MaxFileIndex \/ NextFile(listed) \notin listed
<1> DEFINE used == {0} \cup listed
           last == Max(used)
<1>1. used \in SUBSET Nat /\ used # {} /\ MaxFileIndex \in Nat /\ 1 <= MaxFileIndex
      /\ \A x \in used : x <= MaxFileIndex
  BY ReporterAssumption
<1>2. last \in used /\ \A x \in used : x <= last
  <2> HIDE DEF used
  <2> QED BY <1>1, GreatestNat
<1>3. NextFile(listed) = Min({last + 1, MaxFileIndex})
  BY Zenon DEF NextFile
<1>4. last \in 0 .. MaxFileIndex
  <2>1. used \subseteq 0 .. MaxFileIndex
    BY <1>1
  <2> HIDE DEF used, last
  <2> QED BY <1>2, <2>1
<1>5. \A i \in 1 .. MaxFileIndex : last < i => i \notin listed
  <2>1. listed \subseteq used
    OBVIOUS
  <2>2. listed \subseteq 1 .. MaxFileIndex
    OBVIOUS
  <2> HIDE DEF used, last
  <2> QED BY <1>1, <1>2, <1>4, <2>1, <2>2
<1> HIDE DEF last
<1>6. NextFile(listed) = IF last + 1 <= MaxFileIndex THEN last + 1 ELSE MaxFileIndex
  <2> DEFINE least == IF last + 1 <= MaxFileIndex THEN last + 1 ELSE MaxFileIndex
  <2>1. /\ least \in {last + 1, MaxFileIndex}
        /\ \A x \in {last + 1, MaxFileIndex} : least <= x
    BY <1>1, <1>4
  <2>2. \A x \in {last + 1, MaxFileIndex} :
          (\A y \in {last + 1, MaxFileIndex} : x <= y) => x = least
    BY <1>1, <1>4
  <2> QED BY <1>3, <2>1, <2>2 DEF Min
<1> QED BY <1>1, <1>4, <1>5, <1>6

\* and a new one if the listing is complete, unless there are as many as there can be.
LEMMA NextFileIsFree ==
  ASSUME disk \in [1 .. MaxFileIndex -> Seq(Entry)]
  PROVE  NextFile(OnCard) = MaxFileIndex \/ disk[NextFile(OnCard)] = <<>>
<1>1. OnCard \in SUBSET (1 .. MaxFileIndex)
  BY DEF OnCard
<1> QED BY <1>1, NextFileType DEF OnCard

\* Of the files picked, only those picked too low or the last one hold anything.
LEMMA PickedFile ==
  ASSUME disk \in [1 .. MaxFileIndex -> Seq(Entry)], ResolveFilePath, filePath = 0
  PROVE  \/ UNCHANGED <<filePath, misplaced>>
         \/ /\ filePath' \in 1 .. MaxFileIndex
            /\ misplaced' \in SUBSET (misplaced \cup {filePath'})
            /\ misplaced \subseteq misplaced'
            /\ filePath' \in misplaced' \cup {MaxFileIndex} \/ disk[filePath'] = <<>>
<1>1. CASE UNCHANGED <<filePath, misplaced>>
  BY <1>1
<1>2. CASE \E listed \in Listings :
             /\ filePath' = NextFile(listed)
             /\ misplaced' = misplaced \cup ({filePath'} \ {NextFile(OnCard)})
  <2>1. PICK listed \in SUBSET (1 .. MaxFileIndex) :
          /\ filePath' = NextFile(listed)
          /\ misplaced' = misplaced \cup ({filePath'} \ {NextFile(OnCard)})
    BY <1>2 DEF Listings, OnCard
  <2>2. filePath' \in 1 .. MaxFileIndex
    BY <2>1, NextFileType
  <2>3. CASE filePath' = NextFile(OnCard)
    BY <2>1, <2>2, <2>3, NextFileIsFree
  <2>4. CASE filePath' # NextFile(OnCard)
    BY <2>1, <2>2, <2>4
  <2> QED BY <2>3, <2>4
<1> QED BY <1>1, <1>2 DEF ResolveFilePath

\* The invariant holds at power-up, whatever is on the card.
LEMMA InitInv == Init => SafetyInv
<1> SUFFICES ASSUME Init PROVE SafetyInv
  OBVIOUS
<1> USE ReporterAssumption DEF Init
<1>1. PICK files \in 0 .. MaxFileIndex : disk = OldFiles(files)
  BY DEF Init
<1>2. disk \in [1 .. MaxFileIndex -> Seq(Entry)]
  BY <1>1, OldFilesType
<1>3. \A i \in 1 .. MaxFileIndex : \A p \in DOMAIN disk[i] : p = 1 /\ disk[i][p].boot = 0
  BY <1>1 DEF OldFiles
<1>4. TypeOK
  <2>1. live \in [Field -> Nat] /\ taken \in [Field -> Nat]
    BY DEF Zero
  <2>2. filePath \in 0 .. MaxFileIndex /\ Len(pending) <= MaxPending
    OBVIOUS
  <2>3. pending \in Seq(Block) /\ capture \in Seq(Block) /\ bits \subseteq {"begin", "end"}
    OBVIOUS
  <2>4. /\ recorded \in Nat /\ engine \in Nat /\ lastStats \in Nat /\ Len(capture) <= 1
        /\ nextBlock \in Nat /\ lost \in Nat /\ boot \in Nat /\ ended \in Nat
        /\ power = "none" /\ rpc = "wait" /\ halfway \in {0, 1}
        /\ misplaced \subseteq 1 .. MaxFileIndex
    OBVIOUS
  <2>5. /\ sessionActive \in BOOLEAN /\ active \in BOOLEAN /\ bootWritten \in BOOLEAN
        /\ audioIdle \in BOOLEAN /\ held \in BOOLEAN /\ calm \in BOOLEAN
    OBVIOUS
  <2> HIDE DEF Init
  <2> QED BY <1>2, <2>1, <2>2, <2>3, <2>4, <2>5 DEF TypeOK
<1>5. ControlInv /\ RingInv
  BY DEF ControlInv, RingInv, Capturing
<1>6. DiskInv /\ FileInOrder
  BY <1>3 DEF DiskInv, FileInOrder, Capturing
<1> QED BY <1>4, <1>5, <1>6 DEF SafetyInv

\* The next state has the types of TypeOK, one action after the other.
LEMMA TypeStep == TypeOK /\ ControlInv /\ [Next]_vars => TypeOK'
<1> SUFFICES ASSUME TypeOK, ControlInv, [Next]_vars PROVE TypeOK'
  OBVIOUS
<1> USE DEF TypeOK, busVars, sampleVars, audioVars, ringVars, flushVars, idleVars
<1>0. "count" \in Field /\ "sum" \in Field /\ "audio" \in Field
  BY DEF Field
<1>1. CASE UNCHANGED vars
  BY <1>1 DEF vars
<1>2. CASE BeginSession
  BY <1>2 DEF BeginSession
<1>22. CASE EndSession
  BY <1>22 DEF EndSession
<1>3. CASE NotifyReporter
  BY <1>3 DEF NotifyReporter
<1>4. CASE RecordCount
  <2>1. live' \in [Field -> Nat] /\ recorded' \in Nat
    BY <1>0, <1>4 DEF RecordCount
  <2> QED BY <1>4, <2>1 DEF RecordCount
<1>20. CASE RecordSum
  <2>1. live' \in [Field -> Nat]
    BY <1>0, <1>20 DEF RecordSum
  <2> QED BY <1>20, <2>1 DEF RecordSum
<1>18. CASE AudioEvent
  BY <1>18 DEF AudioEvent
<1>5. CASE HandleNotifications
  <2>1. active' \in BOOLEAN /\ held' \in BOOLEAN
    BY <1>5, Zenon DEF HandleNotifications
  <2> QED BY <1>5, <2>1 DEF HandleNotifications
<1>6. CASE EndSample
  <2>1. engine - lastStats \in Nat
    BY DEF ControlInv
  <2> QED BY <1>0, <1>6, <2>1 DEF EndSample, SampleAudioStats
<1>7. CASE CaptureBlock
  <2>1. [Zero EXCEPT !["count"] = live["count"]] \in [Field -> Nat]
    BY DEF Zero
  <2>2. capture' \in Seq(Block) /\ Len(capture') = 1
    BY <1>7, <2>1 DEF CaptureBlock, Block
  <2> QED BY <1>0, <1>7, <2>2 DEF CaptureBlock
<1>21. CASE SnapshotSum
  <2>1. capture[1] \in Block
    <3>1. Len(capture) = 1
      BY <1>21 DEF SnapshotSum, ControlInv, Capturing
    <3>2. capture \in Seq(Block) /\ 1 \in DOMAIN capture
      BY <3>1
    <3> QED BY <3>2, BlockNumber
  <2>2. [capture[1] EXCEPT !.data["sum"] = live["sum"]] \in Block
    BY <1>0, <2>1 DEF Block
  <2>3. capture' \in Seq(Block) /\ Len(capture') = 1
    BY <1>21, <2>2 DEF SnapshotSum
  <2>4. live' \in [Field -> Nat] /\ rpc' = "counters"
    BY <1>0, <1>21 DEF SnapshotSum
  <2> QED BY <1>21, <2>3, <2>4 DEF SnapshotSum
<1>8. CASE SnapshotRest
  <2>1. capture[1] \in Block
    <3>1. Len(capture) = 1
      BY <1>8 DEF SnapshotRest, ControlInv, Capturing
    <3>2. capture \in Seq(Block) /\ 1 \in DOMAIN capture
      BY <3>1
    <3> QED BY <3>2, BlockNumber
  <2>2. [capture[1] EXCEPT !.data["audio"] = live["audio"]] \in Block
    BY <1>0, <2>1 DEF Block
  <2>3. pending' \in Seq(Block) /\ Len(pending') <= MaxPending
    BY <1>8, <2>2, ReporterAssumption DEF SnapshotRest, ControlInv, Capturing
  <2> QED BY <1>0, <1>8, <2>3 DEF SnapshotRest
<1>9. CASE Sample
  <2>1. audioIdle' \in BOOLEAN
    BY <1>9 DEF Sample, Answer
  <2>2. held' \in BOOLEAN
    BY <1>9, Zenon DEF Sample
  <2>3. engine - lastStats \in Nat
    BY DEF ControlInv
  <2>4. live' \in [Field -> Nat] /\ lastStats' \in Nat
    BY <1>0, <1>9, <2>3 DEF Sample, SampleAudioStats
  <2> QED BY <1>9, <2>1, <2>2, <2>4 DEF Sample, SampleAudioStats
<1>10. CASE Decide
  BY <1>10 DEF Decide
<1>11. CASE ResolveFilePath
  <2>1. filePath' \in 0 .. MaxFileIndex /\ misplaced' \subseteq 1 .. MaxFileIndex
    <3>1. CASE filePath = 0
      <4>1. CASE UNCHANGED <<filePath, misplaced>>
        BY <4>1
      <4>2. CASE /\ filePath' \in 1 .. MaxFileIndex
                 /\ misplaced' \in SUBSET (misplaced \cup {filePath'})
        <5>1. filePath' \in 0 .. MaxFileIndex
          BY <4>2
        <5> QED BY <4>2, <5>1
      <4>3. disk \in [1 .. MaxFileIndex -> Seq(Entry)]
        OBVIOUS
      <4> HIDE DEF TypeOK
      <4> QED BY <1>11, <3>1, <4>1, <4>2, <4>3, PickedFile
    <3>2. CASE filePath # 0
      BY <1>11, <3>2 DEF ResolveFilePath
    <3> QED BY <3>1, <3>2
  <2> QED BY <1>11, <2>1 DEF ResolveFilePath, EndFlush
<1>12. CASE CheckBoot \/ CheckNext
  BY <1>12 DEF CheckBoot, CheckNext, EndFlush
<1>13. ASSUME NEW b \in Nat, AppendBlock(b), filePath # 0
       PROVE  disk' \in [1 .. MaxFileIndex -> Seq(Entry)]
  BY <1>13, ReporterAssumption DEF AppendBlock, Entry
<1>14. CASE WriteBootBlock
  BY <1>13, <1>14 DEF WriteBootBlock, EndFlush, ControlInv
<1>15. CASE WriteSessionBlock
  <2>1. Head(pending) \in Block /\ Tail(pending) \in Seq(Block)
        /\ Len(Tail(pending)) <= MaxPending
    BY <1>15, ReporterAssumption DEF WriteSessionBlock, ControlInv
  <2>2. Head(pending).block \in Nat /\ Head(pending).data \in [Field -> Nat]
    BY <2>1 DEF Block
  <2>3. disk' \in [1 .. MaxFileIndex -> Seq(Entry)]
    BY <1>13, <1>15, <2>2 DEF WriteSessionBlock, ControlInv
  <2>4. pending' \in Seq(Block) /\ Len(pending') <= MaxPending
    BY <1>15, <2>1 DEF WriteSessionBlock
  <2>5. taken' \in [Field -> Nat]
    <3>1. \A f \in Field : taken[f] + Head(pending).data[f] \in Nat
      BY <2>2
    <3> QED BY <1>15, <3>1 DEF WriteSessionBlock
  <2>6. lost' \in Nat
    BY <1>15 DEF WriteSessionBlock
  <2>7. rpc' \in {"wait", "next"} /\ held' \in BOOLEAN
    BY <1>15 DEF WriteSessionBlock, EndFlush
  <2> QED BY <1>15, <2>3, <2>4, <2>5, <2>6, <2>7 DEF WriteSessionBlock
<1>16. CASE Elapse
  BY <1>16 DEF Elapse
<1>19. CASE CalmDown
  BY <1>19 DEF CalmDown
<1>17. CASE PowerCut
  <2>1. rpc = "write" => Head(pending).block \in Nat
    <3>1. pending # <<>> => Head(pending) \in Block
      OBVIOUS
    <3> QED BY <3>1 DEF Block, ControlInv
  <2>2. disk' \in [1 .. MaxFileIndex -> Seq(Entry)]
    BY <1>13, <1>17, <2>1 DEF PowerCut, ControlInv
  <2>3. live' \in [Field -> Nat] /\ taken' \in [Field -> Nat]
    BY <1>17 DEF PowerCut, Zero
  <2>4. filePath' \in 0 .. MaxFileIndex /\ Len(pending') <= MaxPending
    BY <1>17, ReporterAssumption DEF PowerCut
  <2>5. /\ pending' \in Seq(Block) /\ capture' \in Seq(Block) /\ Len(capture') <= 1
        /\ bits' \subseteq {"begin", "end"}
    BY <1>17 DEF PowerCut
  <2>6. /\ sessionActive' \in BOOLEAN /\ active' \in BOOLEAN /\ bootWritten' \in BOOLEAN
        /\ audioIdle' \in BOOLEAN /\ held' \in BOOLEAN /\ calm' \in BOOLEAN
    BY <1>17 DEF PowerCut
  <2>7. /\ recorded' \in Nat /\ engine' \in Nat /\ lastStats' \in Nat
        /\ nextBlock' \in Nat /\ lost' \in Nat /\ boot' \in Nat /\ ended' \in Nat
        /\ power' = "none" /\ rpc' = "wait" /\ halfway' = 0
        /\ misplaced' \subseteq 1 .. MaxFileIndex
    BY <1>17 DEF PowerCut
  <2> QED BY <2>2, <2>3, <2>4, <2>5, <2>6, <2>7
<1> QED
  BY <1>1, <1>2, <1>3, <1>4, <1>5, <1>6, <1>7, <1>8, <1>9, <1>10, <1>11, <1>12, <1>14, <1>15,
     <1>16, <1>17, <1>18, <1>19, <1>20, <1>21, <1>22 DEF Next, Reporter

-----------------------------------------------------------------------------
(* The reporter's control points and the ring.                             *)

\* Where the reporter is tells which of its locals are set.
LEMMA ControlStep == TypeOK /\ ControlInv /\ [Next]_vars => ControlInv'
<1> SUFFICES ASSUME TypeOK, ControlInv, [Next]_vars PROVE ControlInv'
  OBVIOUS
<1> USE DEF ControlInv, Capturing, busVars, sampleVars, audioVars, ringVars, flushVars, idleVars
<1>0. lastStats \in Nat /\ engine \in Nat
  BY DEF TypeOK
<1>1. CASE UNCHANGED vars
  BY <1>1 DEF vars
<1>2. CASE BeginSession \/ EndSession \/ NotifyReporter \/ RecordCount \/ RecordSum
  BY <1>2 DEF BeginSession, EndSession, NotifyReporter, RecordCount, RecordSum
<1>3. CASE AudioEvent
  BY <1>0, <1>3 DEF AudioEvent
<1>4. CASE HandleNotifications
  BY <1>4 DEF HandleNotifications
<1>5. CASE EndSample \/ Sample
  BY <1>0, <1>5 DEF EndSample, Sample, SampleAudioStats
<1>6. CASE CaptureBlock
  <2>1. /\ Len(capture') = 1
        /\ capture'[1].data["sum"] = 0 /\ capture'[1].data["audio"] = 0
    BY <1>6 DEF CaptureBlock, Zero, Field
  <2> QED BY <1>6, <2>1 DEF CaptureBlock
<1>15. CASE SnapshotSum
  <2>1. capture[1] \in Block
    <3>1. capture \in Seq(Block) /\ 1 \in DOMAIN capture
      BY <1>15 DEF SnapshotSum, TypeOK
    <3> QED BY <3>1, BlockNumber
  <2>2. Len(capture') = 1 /\ capture'[1].data["audio"] = capture[1].data["audio"]
    BY <1>15, <2>1 DEF SnapshotSum, Block, Field
  <2> QED BY <1>15, <2>2 DEF SnapshotSum
<1>7. CASE SnapshotRest
  <2>1. Len(capture') = 0
    BY <1>7 DEF SnapshotRest
  <2> QED BY <1>7, <2>1 DEF SnapshotRest
<1>8. CASE Decide
  BY <1>8 DEF Decide
<1>9. CASE ResolveFilePath
  <2>1. filePath = 0 => UNCHANGED filePath \/ filePath' # 0
    BY <1>9, PickedFile DEF TypeOK
  <2>2. CASE rpc' = "wait"
    BY <1>9, <2>2 DEF ResolveFilePath, EndFlush
  <2>3. CASE rpc' = IF bootWritten THEN "next" ELSE "boot"
    <3>1. filePath' # 0
      <4>1. filePath # 0 => filePath' = filePath
        BY <1>9 DEF ResolveFilePath
      <4>2. ASSUME filePath = 0
            PROVE  \E listed \in SUBSET (1 .. MaxFileIndex) : filePath' = NextFile(listed)
        <5>1. rpc' # "wait"
          BY <2>3
        <5> QED BY <1>9, <4>2, <5>1 DEF ResolveFilePath, EndFlush, Listings, OnCard
      <4> QED BY <4>1, <4>2, NextFileType
    <3> QED BY <1>9, <2>3, <3>1 DEF ResolveFilePath
  <2> QED BY <1>9, <2>2, <2>3 DEF ResolveFilePath, EndFlush
<1>10. CASE CheckBoot \/ CheckNext
  BY <1>10 DEF CheckBoot, CheckNext, EndFlush
<1>11. CASE WriteBootBlock
  BY <1>11 DEF WriteBootBlock, EndFlush
<1>12. CASE WriteSessionBlock
  BY <1>12 DEF WriteSessionBlock, EndFlush
<1>13. CASE Elapse \/ CalmDown
  BY <1>13 DEF Elapse, CalmDown
<1>14. CASE PowerCut
  BY <1>14 DEF PowerCut
<1> QED
  BY <1>1, <1>2, <1>3, <1>4, <1>5, <1>6, <1>7, <1>8, <1>9, <1>10, <1>11, <1>12, <1>13, <1>14,
     <1>15
  DEF Next, Reporter

\* The blocks that wait are numbered upwards, none above the last one captured.
LEMMA RingStep == TypeOK /\ ControlInv /\ RingInv /\ [Next]_vars => RingInv'
<1> SUFFICES ASSUME TypeOK, ControlInv, RingInv, [Next]_vars PROVE RingInv'
  OBVIOUS
<1> USE DEF Capturing, busVars, sampleVars, audioVars, ringVars, flushVars, idleVars
<1>0. /\ pending \in Seq(Block) /\ capture \in Seq(Block) /\ nextBlock \in Nat
      /\ Capturing => Len(capture) = 1
      /\ \A q \in DOMAIN pending : pending[q].block \in Nat
  BY BlockNumber DEF TypeOK, ControlInv
<1>1. ASSUME UNCHANGED <<pending, capture, nextBlock>>, Capturing' => Capturing
      PROVE  RingInv'
  BY <1>1 DEF RingInv
<1>2. CASE CaptureBlock
  <2>1. capture'[1].block = nextBlock /\ nextBlock' = nextBlock + 1 /\ pending' = pending
    BY <1>2 DEF CaptureBlock
  <2> QED BY <1>0, <2>1 DEF RingInv
<1>10. CASE SnapshotSum
  <2>1. capture[1] \in Block
    <3>1. 1 \in DOMAIN capture
      BY <1>0, <1>10 DEF SnapshotSum
    <3> QED BY <1>0, <3>1, BlockNumber
  <2>2. /\ capture'[1].block = capture[1].block
        /\ Capturing /\ UNCHANGED <<pending, nextBlock>>
    BY <1>10, <2>1 DEF SnapshotSum, Block
  <2> QED BY <2>2 DEF RingInv
<1>3. CASE SnapshotRest
  <2> DEFINE b == [capture[1] EXCEPT !.data["audio"] = live["audio"]]
  <2>1. capture[1] \in Block
    <3>1. 1 \in DOMAIN capture
      BY <1>0, <1>3 DEF SnapshotRest
    <3> QED BY <1>0, <3>1, BlockNumber
  <2>2. b.block = capture[1].block /\ b.block \in Nat
    BY <2>1 DEF Block
  <2>3. pending' = Append(pending, b) /\ nextBlock' = nextBlock /\ ~Capturing'
    BY <1>3 DEF SnapshotRest
  <2> HIDE DEF b
  <2>4. /\ DOMAIN pending' = 1 .. Len(pending) + 1 /\ pending'[Len(pending) + 1] = b
        /\ \A q \in 1 .. Len(pending) : pending'[q] = pending[q]
        /\ DOMAIN pending = 1 .. Len(pending) /\ Len(pending) \in Nat
    BY <1>0, <2>3
  <2>5. /\ 0 < b.block /\ b.block < nextBlock
        /\ \A q \in DOMAIN pending : pending[q].block < b.block
    BY <1>3, <2>2 DEF RingInv, SnapshotRest
  <2>6. ASSUME NEW q \in DOMAIN pending'
        PROVE  0 < pending'[q].block /\ pending'[q].block < nextBlock'
    BY <2>3, <2>4, <2>5, <2>6 DEF RingInv
  <2>7. ASSUME NEW q \in DOMAIN pending', NEW r \in DOMAIN pending', q < r
        PROVE  pending'[q].block < pending'[r].block
    BY <2>4, <2>5, <2>7 DEF RingInv
  <2> QED BY <2>3, <2>6, <2>7 DEF RingInv
<1>4. CASE WriteSessionBlock
  <2>1. CASE pending' = Tail(pending)
    <3>1. pending # <<>> /\ ~Capturing' /\ nextBlock' = nextBlock
      BY <1>4 DEF WriteSessionBlock, ControlInv, EndFlush
    <3>2. \A q \in DOMAIN pending' : q + 1 \in DOMAIN pending /\ pending'[q] = pending[q + 1]
      BY <1>0, <2>1, <3>1
    <3>3. DOMAIN pending' \subseteq Nat
      BY <1>0, <2>1, <3>1
    <3> QED BY <3>1, <3>2, <3>3 DEF RingInv
  <2>2. CASE pending' = pending
    BY <1>1, <1>4, <2>2 DEF WriteSessionBlock, EndFlush
  <2> QED BY <1>4, <2>1, <2>2 DEF WriteSessionBlock
<1>5. CASE PowerCut
  BY <1>5 DEF PowerCut, RingInv
<1>6. CASE UNCHANGED vars
  BY <1>1, <1>6 DEF vars
<1>7. CASE BeginSession \/ EndSession \/ NotifyReporter \/ RecordCount \/ RecordSum
           \/ AudioEvent \/ Elapse \/ CalmDown
  BY <1>1, <1>7 DEF BeginSession, EndSession, NotifyReporter, RecordCount, RecordSum,
                    AudioEvent, Elapse, CalmDown
<1>8. CASE HandleNotifications \/ EndSample \/ Sample \/ Decide
  BY <1>1, <1>8 DEF HandleNotifications, EndSample, Sample, Decide
<1>9. CASE ResolveFilePath \/ CheckBoot \/ WriteBootBlock \/ CheckNext
  BY <1>1, <1>9 DEF ResolveFilePath, CheckBoot, WriteBootBlock, CheckNext, EndFlush
<1> QED
  BY <1>2, <1>3, <1>4, <1>5, <1>6, <1>7, <1>8, <1>9, <1>10 DEF Next, Reporter

-----------------------------------------------------------------------------
(* The files.                                                              *)

\* The part of FileInOrder about the card alone.
FilesOrdered ==
  \A i \in 1 .. MaxFileIndex : \A p, q \in DOMAIN disk[i] :
    p < q => \/ disk[i][p].boot = disk[i][q].boot /\ disk[i][p].block < disk[i][q].block
             \/ disk[i][p].boot < disk[i][q].boot /\ i \in misplaced \cup {MaxFileIndex}

\* A block that follows those of its power-up keeps its file in order.
LEMMA AppendInOrder ==
  ASSUME TypeOK, DiskInv, FilesOrdered, filePath # 0, NEW b \in Nat, AppendBlock(b),
         UNCHANGED misplaced,
         \A p \in DOMAIN disk[filePath] :
           disk[filePath][p].boot = boot => disk[filePath][p].block < b
  PROVE  /\ FilesOrdered'
         /\ \A i \in 1 .. MaxFileIndex : \A p \in DOMAIN disk'[i] :
              \/ p \in DOMAIN disk[i] /\ disk'[i][p] = disk[i][p]
              \/ i = filePath /\ disk'[i][p] = [boot |-> boot, block |-> b]
<1> DEFINE f == disk[filePath]
           e == [boot |-> boot, block |-> b]
           L == Len(f)
<1>1. /\ filePath \in 1 .. MaxFileIndex /\ disk \in [1 .. MaxFileIndex -> Seq(Entry)]
      /\ boot \in Nat /\ MaxFileIndex \in Nat
  BY ReporterAssumption DEF TypeOK
<1>2. f \in Seq(Entry) /\ L \in Nat /\ DOMAIN f = 1 .. L
  BY <1>1
<1>3. /\ disk'[filePath] = Append(f, e)
      /\ \A i \in 1 .. MaxFileIndex : i # filePath => disk'[i] = disk[i]
  BY <1>1 DEF AppendBlock
<1> HIDE DEF e
<1>4. /\ DOMAIN disk'[filePath] = 1 .. L + 1 /\ disk'[filePath][L + 1] = e
      /\ \A p \in 1 .. L : disk'[filePath][p] = f[p]
  <2> HIDE DEF f
  <2> QED BY <1>2, <1>3
<1>5. ASSUME NEW i \in 1 .. MaxFileIndex, NEW p \in DOMAIN disk'[i]
      PROVE  \/ p \in DOMAIN disk[i] /\ disk'[i][p] = disk[i][p]
             \/ i = filePath /\ disk'[i][p] = [boot |-> boot, block |-> b]
  <2>1. CASE i # filePath
    BY <1>3, <2>1
  <2>2. CASE i = filePath
    <3>1. p \in 1 .. L \/ p = L + 1
      BY <1>2, <1>4, <2>2
    <3> QED BY <1>2, <1>4, <2>2, <3>1 DEF e
  <2> QED BY <2>1, <2>2
<1>6. ASSUME NEW i \in 1 .. MaxFileIndex, NEW p \in DOMAIN disk'[i], NEW q \in DOMAIN disk'[i],
             p < q
      PROVE  \/ disk'[i][p].boot = disk'[i][q].boot /\ disk'[i][p].block < disk'[i][q].block
             \/ disk'[i][p].boot < disk'[i][q].boot /\ i \in misplaced \cup {MaxFileIndex}
  <2>1. CASE i # filePath
    <3>1. p \in DOMAIN disk[i] /\ q \in DOMAIN disk[i] /\ disk'[i] = disk[i]
      BY <1>3, <2>1
    <3> QED BY <1>6, <3>1 DEF FilesOrdered
  <2>2. CASE i = filePath /\ q \in 1 .. L
    <3>1. p \in 1 .. L
      BY <1>2, <1>4, <1>6, <2>2
    <3> QED BY <1>2, <1>4, <1>6, <2>2, <3>1 DEF FilesOrdered
  <2>3. CASE i = filePath /\ q = L + 1
    <3>1. p \in DOMAIN f /\ disk'[i][p] = f[p] /\ disk'[i][q] = e
      BY <1>2, <1>4, <1>6, <2>3
    <3>2. e.boot = boot /\ e.block = b
      BY DEF e
    <3>3. f[p].boot \in Nat /\ f[p].boot <= boot
      <4>1. f[p] \in Entry
        BY <1>2, <3>1
      <4> QED BY <1>1, <3>1, <4>1 DEF DiskInv, Entry
    <3>4. CASE f[p].boot = boot
      BY <3>1, <3>2, <3>4
    <3>5. CASE f[p].boot # boot
      <4>1. filePath \in misplaced \cup {MaxFileIndex}
        BY <1>1, <3>1, <3>5 DEF DiskInv
      <4> QED BY <1>1, <2>3, <3>1, <3>2, <3>3, <3>5, <4>1
    <3> QED BY <3>4, <3>5
  <2>4. i = filePath => q \in 1 .. L \/ q = L + 1
    BY <1>2, <1>4
  <2> QED BY <2>1, <2>2, <2>3, <2>4
<1>7. FilesOrdered'
  <2>1. misplaced' = misplaced
    OBVIOUS
  <2> QED BY <1>6, <2>1 DEF FilesOrdered
<1> QED BY <1>5, <1>7

\* What is pending is newer than what was written.
PendingNewer ==
  filePath # 0 =>
    \A p \in DOMAIN disk[filePath], q \in DOMAIN pending :
      disk[filePath][p].boot = boot => disk[filePath][p].block < pending[q].block

\* FileInOrder speaks of the files and of what is still to go into one.
LEMMA FileInOrderParts == FileInOrder <=> FilesOrdered /\ PendingNewer
BY DEF FileInOrder, FilesOrdered, PendingNewer

\* Files stay in order: what a flush appends is newer than what is there.
LEMMA FileStep ==
  TypeOK /\ ControlInv /\ RingInv /\ DiskInv /\ FilesOrdered /\ PendingNewer /\ [Next]_vars
    => DiskInv' /\ FilesOrdered' /\ PendingNewer'
<1> SUFFICES ASSUME TypeOK, ControlInv, RingInv, DiskInv, FilesOrdered, PendingNewer, [Next]_vars
             PROVE  DiskInv' /\ FilesOrdered' /\ PendingNewer'
  OBVIOUS
<1> USE DEF Capturing, busVars, sampleVars, audioVars, ringVars, flushVars, idleVars
<1>0. /\ pending \in Seq(Block) /\ capture \in Seq(Block) /\ nextBlock \in Nat /\ boot \in Nat
      /\ Capturing => Len(capture) = 1
      /\ disk \in [1 .. MaxFileIndex -> Seq(Entry)] /\ filePath \in 0 .. MaxFileIndex
      /\ MaxFileIndex \in Nat
  BY ReporterAssumption DEF TypeOK, ControlInv
<1>t. ASSUME NEW i \in 1 .. MaxFileIndex, NEW p \in DOMAIN disk[i]
      PROVE  disk[i][p] \in Entry /\ disk[i][p].boot \in Nat /\ disk[i][p].block \in Nat
  <2>1. disk[i] \in Seq(Entry)
    BY <1>0
  <2>2. disk[i][p] \in Entry
    BY <2>1
  <2> QED BY <2>2 DEF Entry
<1>1. ASSUME UNCHANGED <<disk, boot, filePath, misplaced, bootWritten, pending, capture,
                         nextBlock>>,
             Capturing' => Capturing
      PROVE  DiskInv' /\ FilesOrdered' /\ PendingNewer'
  BY <1>1 DEF DiskInv, FilesOrdered, PendingNewer
<1>2. CASE CaptureBlock
  <2>1. /\ capture'[1].block = nextBlock /\ nextBlock' = nextBlock + 1
        /\ UNCHANGED <<disk, boot, filePath, misplaced, bootWritten, pending>>
    BY <1>2 DEF CaptureBlock
  <2>2. DiskInv'
    BY <1>0, <1>t, <2>1 DEF DiskInv
  <2> QED BY <2>1, <2>2 DEF FilesOrdered, PendingNewer
<1>13. CASE SnapshotSum
  <2>1. capture[1] \in Block
    <3>1. 1 \in DOMAIN capture
      BY <1>0, <1>13 DEF SnapshotSum
    <3> QED BY <1>0, <3>1, BlockNumber
  <2>2. /\ capture'[1].block = capture[1].block
        /\ Capturing
        /\ UNCHANGED <<disk, boot, filePath, misplaced, bootWritten, pending, nextBlock>>
    BY <1>13, <2>1 DEF SnapshotSum, Block
  <2> QED BY <2>2 DEF DiskInv, FilesOrdered, PendingNewer
<1>3. CASE SnapshotRest
  <2> DEFINE b == [capture[1] EXCEPT !.data["audio"] = live["audio"]]
  <2>1. b.block = capture[1].block
    <3>1. 1 \in DOMAIN capture
      BY <1>0, <1>3 DEF SnapshotRest
    <3>2. capture[1] \in Block
      BY <1>0, <3>1, BlockNumber
    <3> QED BY <3>2 DEF Block
  <2>2. /\ pending' = Append(pending, b) /\ ~Capturing'
        /\ UNCHANGED <<disk, boot, filePath, misplaced, bootWritten, nextBlock>>
    BY <1>3 DEF SnapshotRest
  <2> HIDE DEF b
  <2>3. \A q \in DOMAIN pending' :
          pending'[q] = b \/ (q \in DOMAIN pending /\ pending'[q] = pending[q])
    BY <1>0, <2>2
  <2>4. DiskInv' /\ FilesOrdered'
    BY <2>2 DEF DiskInv, FilesOrdered
  <2>5. ASSUME filePath # 0, NEW p \in DOMAIN disk[filePath], NEW q \in DOMAIN pending',
               disk[filePath][p].boot = boot
        PROVE  disk[filePath][p].block < pending'[q].block
    <3>1. disk[filePath][p].block < capture[1].block
      BY <1>0, <1>3, <2>5 DEF DiskInv, SnapshotRest
    <3> QED BY <2>1, <2>3, <2>5, <3>1 DEF PendingNewer
  <2> QED BY <2>2, <2>4, <2>5 DEF PendingNewer
<1>4. CASE ResolveFilePath
  <2>0. UNCHANGED <<disk, boot, bootWritten, pending, capture, nextBlock>> /\ ~Capturing'
    BY <1>4 DEF ResolveFilePath, EndFlush
  <2>1. CASE UNCHANGED <<filePath, misplaced>>
    BY <1>1, <2>0, <2>1
  <2>2. CASE filePath = 0 /\ ~UNCHANGED <<filePath, misplaced>>
    <3>1. /\ filePath' \in 1 .. MaxFileIndex /\ misplaced \subseteq misplaced'
          /\ filePath' \in misplaced' \cup {MaxFileIndex} \/ disk[filePath'] = <<>>
      BY <1>0, <1>4, <2>2, PickedFile
    <3>2. \A i \in 1 .. MaxFileIndex : \A p \in DOMAIN disk[i] : disk[i][p].boot # boot
      BY <1>0, <2>2 DEF DiskInv
    <3>3. disk[filePath'] = <<>> => DOMAIN disk[filePath'] = {}
      OBVIOUS
    <3>4. DiskInv'
      BY <2>0, <3>1, <3>2, <3>3 DEF DiskInv
    <3>5. FilesOrdered' /\ PendingNewer'
      BY <2>0, <3>1, <3>2 DEF FilesOrdered, PendingNewer
    <3> QED BY <3>4, <3>5
  <2> QED BY <1>4, <2>1, <2>2 DEF ResolveFilePath
<1>5. ASSUME NEW b \in Nat, AppendBlock(b), filePath # 0, b < nextBlock,
             \A p \in DOMAIN disk[filePath] :
               disk[filePath][p].boot = boot => disk[filePath][p].block < b,
             UNCHANGED <<boot, filePath, misplaced, nextBlock>>, bootWritten', ~Capturing'
      PROVE  DiskInv' /\ FilesOrdered'
  <2>1. /\ FilesOrdered'
        /\ \A i \in 1 .. MaxFileIndex : \A p \in DOMAIN disk'[i] :
             \/ p \in DOMAIN disk[i] /\ disk'[i][p] = disk[i][p]
             \/ i = filePath /\ disk'[i][p] = [boot |-> boot, block |-> b]
    BY <1>5, AppendInOrder
  <2>2. ASSUME NEW i \in 1 .. MaxFileIndex, NEW p \in DOMAIN disk'[i]
        PROVE  /\ disk'[i][p].boot <= boot
               /\ disk'[i][p].boot = boot => i = filePath /\ disk'[i][p].block < nextBlock
    BY <1>0, <1>5, <2>1 DEF DiskInv
  <2>3. \/ filePath \in misplaced \cup {MaxFileIndex}
        \/ \A p \in DOMAIN disk'[filePath] : disk'[filePath][p].boot = boot
    <3>1. filePath \in 1 .. MaxFileIndex
      BY <1>0, <1>5
    <3> QED BY <1>5, <2>1, <3>1 DEF DiskInv
  <2> QED BY <1>5, <2>1, <2>2, <2>3 DEF DiskInv
<1>6. CASE WriteBootBlock
  <2>1. /\ rpc = "bootWrite" /\ ~Capturing'
        /\ UNCHANGED <<boot, filePath, misplaced, pending, capture, nextBlock>>
    BY <1>6 DEF WriteBootBlock, EndFlush
  <2>2. UNCHANGED <<bootWritten, disk>> \/ (AppendBlock(0) /\ bootWritten')
    BY <1>6 DEF WriteBootBlock
  <2>3. CASE UNCHANGED <<bootWritten, disk>>
    BY <1>1, <2>1, <2>3
  <2>4. CASE AppendBlock(0) /\ bootWritten'
    <3>1. filePath # 0 /\ ~bootWritten /\ 0 < nextBlock
      BY <2>1 DEF ControlInv, RingInv
    <3>2. filePath \in 1 .. MaxFileIndex
      BY <1>0, <3>1
    <3>3. \A p \in DOMAIN disk[filePath] : disk[filePath][p].boot # boot
      BY <3>1, <3>2 DEF DiskInv
    <3>4. DiskInv' /\ FilesOrdered'
      BY <1>5, <2>1, <2>4, <3>1, <3>3
    <3>5. \A p \in DOMAIN disk'[filePath] :
            disk'[filePath][p].boot = boot => disk'[filePath][p].block = 0
      <4>1. \A p \in DOMAIN disk'[filePath] :
              \/ p \in DOMAIN disk[filePath] /\ disk'[filePath][p] = disk[filePath][p]
              \/ disk'[filePath][p] = [boot |-> boot, block |-> 0]
        BY <2>1, <2>4, <3>1, <3>2, <3>3, AppendInOrder
      <4> QED BY <3>3, <4>1
    <3>6. PendingNewer'
      BY <1>0, <2>1, <3>5 DEF PendingNewer, RingInv
    <3> QED BY <3>4, <3>6
  <2> QED BY <2>2, <2>3, <2>4
<1>7. CASE WriteSessionBlock
  <2> DEFINE b == Head(pending).block
  <2>1. /\ rpc = "write" /\ ~Capturing'
        /\ UNCHANGED <<boot, filePath, misplaced, bootWritten, capture, nextBlock>>
    BY <1>7 DEF WriteSessionBlock, EndFlush
  <2>2. UNCHANGED <<pending, disk>> \/ (AppendBlock(b) /\ pending' = Tail(pending))
    BY <1>7 DEF WriteSessionBlock
  <2>3. CASE UNCHANGED <<pending, disk>>
    BY <1>1, <2>1, <2>3
  <2>4. CASE AppendBlock(b) /\ pending' = Tail(pending)
    <3>1. filePath # 0 /\ bootWritten /\ pending # <<>>
      BY <2>1 DEF ControlInv
    <3>2. filePath \in 1 .. MaxFileIndex
      BY <1>0, <3>1
    <3>3. 1 \in DOMAIN pending /\ Head(pending) = pending[1]
      BY <1>0, <3>1
    <3>4. b \in Nat /\ b < nextBlock
      BY <1>0, <3>3, BlockNumber DEF RingInv
    <3>5. \A p \in DOMAIN disk[filePath] :
            disk[filePath][p].boot = boot => disk[filePath][p].block < b
      BY <3>1, <3>3 DEF PendingNewer
    <3>6. DiskInv' /\ FilesOrdered'
      <4> HIDE DEF b
      <4> QED BY <1>5, <2>1, <2>4, <3>1, <3>4, <3>5
    <3>7. \A p \in DOMAIN disk'[filePath] :
            disk'[filePath][p].boot = boot =>
              disk'[filePath][p].block \in Nat /\ disk'[filePath][p].block <= b
      <4>1. \A p \in DOMAIN disk'[filePath] :
              \/ p \in DOMAIN disk[filePath] /\ disk'[filePath][p] = disk[filePath][p]
              \/ disk'[filePath][p] = [boot |-> boot, block |-> b]
        <5> HIDE DEF b
        <5> QED BY <2>1, <2>4, <3>1, <3>2, <3>4, <3>5, AppendInOrder
      <4> HIDE DEF b
      <4> QED BY <1>t, <3>2, <3>4, <3>5, <4>1
    <3>8. ASSUME NEW q \in DOMAIN pending' PROVE b < pending'[q].block /\ pending'[q].block \in Nat
      <4>1. q \in Nat \ {0} /\ q + 1 \in DOMAIN pending /\ pending'[q] = pending[q + 1]
        BY <1>0, <2>4, <3>1
      <4>2. pending[q + 1].block \in Nat
        BY <1>0, <4>1, BlockNumber
      <4> QED BY <3>3, <4>1, <4>2 DEF RingInv
    <3>9. PendingNewer'
      <4> HIDE DEF b
      <4> QED BY <2>1, <3>4, <3>7, <3>8 DEF PendingNewer
    <3> QED BY <3>6, <3>9
  <2> QED BY <2>2, <2>3, <2>4
<1>8. CASE PowerCut
  <2>1. boot' = boot + 1 /\ filePath' = 0 /\ misplaced' = misplaced
    BY <1>8 DEF PowerCut
  <2>2. /\ FilesOrdered'
        /\ \A i \in 1 .. MaxFileIndex : \A p \in DOMAIN disk'[i] :
             disk'[i][p].boot \in Nat /\ disk'[i][p].boot <= boot
    <3>1. ASSUME NEW b \in Nat, AppendBlock(b), filePath # 0,
                 \A p \in DOMAIN disk[filePath] :
                   disk[filePath][p].boot = boot => disk[filePath][p].block < b
          PROVE  /\ FilesOrdered'
                 /\ \A i \in 1 .. MaxFileIndex : \A p \in DOMAIN disk'[i] :
                      disk'[i][p].boot \in Nat /\ disk'[i][p].boot <= boot
      <4>1. /\ FilesOrdered'
            /\ \A i \in 1 .. MaxFileIndex : \A p \in DOMAIN disk'[i] :
                 \/ p \in DOMAIN disk[i] /\ disk'[i][p] = disk[i][p]
                 \/ i = filePath /\ disk'[i][p] = [boot |-> boot, block |-> b]
        BY <2>1, <3>1, AppendInOrder
      <4>2. ASSUME NEW i \in 1 .. MaxFileIndex, NEW p \in DOMAIN disk'[i]
            PROVE  disk'[i][p].boot \in Nat /\ disk'[i][p].boot <= boot
        <5>1. CASE p \in DOMAIN disk[i] /\ disk'[i][p] = disk[i][p]
          BY <1>t, <5>1 DEF DiskInv
        <5>2. CASE disk'[i][p] = [boot |-> boot, block |-> b]
          BY <1>0, <5>2
        <5> QED BY <4>1, <5>1, <5>2
      <4> QED BY <4>1, <4>2
    <3>2. CASE UNCHANGED disk
      BY <1>t, <2>1, <3>2 DEF FilesOrdered, DiskInv
    <3>3. CASE rpc = "bootWrite" /\ AppendBlock(0)
      <4>1. filePath # 0 /\ ~bootWritten /\ filePath \in 1 .. MaxFileIndex
        BY <1>0, <3>3 DEF ControlInv
      <4>2. \A p \in DOMAIN disk[filePath] : disk[filePath][p].boot # boot
        BY <4>1 DEF DiskInv
      <4> QED BY <3>1, <3>3, <4>1, <4>2
    <3>4. CASE rpc = "write" /\ AppendBlock(Head(pending).block)
      <4>1. filePath # 0 /\ pending # <<>>
        BY <3>4 DEF ControlInv
      <4>2. 1 \in DOMAIN pending /\ Head(pending) = pending[1]
        BY <1>0, <4>1
      <4>3. Head(pending).block \in Nat
        BY <1>0, <4>2, BlockNumber
      <4> QED BY <3>1, <3>4, <4>1, <4>2, <4>3 DEF PendingNewer
    <3> QED BY <1>8, <3>2, <3>3, <3>4 DEF PowerCut
  <2>3. DiskInv'
    BY <1>0, <2>1, <2>2 DEF DiskInv
  <2> QED BY <2>1, <2>2, <2>3 DEF PendingNewer
<1>9. CASE UNCHANGED vars
  BY <1>1, <1>9 DEF vars
<1>10. CASE BeginSession \/ EndSession \/ NotifyReporter \/ RecordCount \/ RecordSum
            \/ AudioEvent \/ Elapse \/ CalmDown
  BY <1>1, <1>10 DEF BeginSession, EndSession, NotifyReporter, RecordCount, RecordSum,
                     AudioEvent, Elapse, CalmDown
<1>11. CASE HandleNotifications \/ EndSample \/ Sample \/ Decide
  BY <1>1, <1>11 DEF HandleNotifications, EndSample, Sample, Decide
<1>12. CASE CheckBoot \/ CheckNext
  BY <1>1, <1>12 DEF CheckBoot, CheckNext, EndFlush
<1> QED
  BY <1>2, <1>3, <1>4, <1>6, <1>7, <1>8, <1>9, <1>10, <1>11, <1>12, <1>13 DEF Next, Reporter

-----------------------------------------------------------------------------
(* The samples.                                                            *)

\* What the blocks in the ring and the one being captured hold of a field.
LEMMA WaitingSamples ==
  ASSUME TypeOK, ControlInv, NEW f \in Field
  PROVE  /\ Samples(pending, f) \in Nat
         /\ ~Capturing => Samples(pending \o capture, f) = Samples(pending, f)
         /\ Capturing =>
              Samples(pending \o capture, f) = Samples(pending, f) + capture[1].data[f]
<1> USE DEF Capturing
<1>1. pending \in Seq(Block) /\ capture \in Seq(Block)
  BY DEF TypeOK
<1>2. Samples(pending, f) \in Nat
  <2>1. PICK g : Sums(g, pending, f, Len(pending)) /\ Samples(pending, f) = g[Len(pending)]
    BY <1>1, SamplesAreSums
  <2>2. Len(pending) \in 0 .. Len(pending)
    BY <1>1
  <2> QED BY <2>1, <2>2 DEF Sums
<1>3. CASE ~Capturing
  <2>1. capture = <<>>
    BY <1>1, <1>3 DEF ControlInv
  <2>2. pending \o capture = pending
    BY <1>1, <2>1
  <2> QED BY <1>2, <1>3, <2>2
<1>4. CASE Capturing
  <2>1. Len(capture) = 1 /\ 1 \in DOMAIN capture
    BY <1>1, <1>4 DEF ControlInv
  <2>2. capture[1] \in Block
    BY <1>1, <2>1, BlockNumber
  <2>3. pending \o capture = Append(pending, capture[1])
    <3>1. capture = <<capture[1]>>
      BY <1>1, <2>1
    <3>2. pending \o <<capture[1]>> = Append(pending, capture[1])
      BY <1>1, <2>2, AppendIsConcat
    <3> QED BY <3>1, <3>2
  <2> QED BY <1>1, <1>2, <1>4, <2>2, <2>3, SamplesAppend
<1> QED BY <1>3, <1>4

\* Where the samples of a field are: CountedOnce without the sequences.
Waiting(f) == Samples(pending, f) + (IF Capturing THEN capture[1].data[f] ELSE 0)

\* CountedOnce is one equation for each accumulator.
CountedIn(f, total) == total = live[f] + Waiting(f) + taken[f]

LEMMA CountedParts ==
  ASSUME TypeOK, ControlInv
  PROVE  CountedOnce <=>
           /\ CountedIn("count", recorded)
           /\ CountedIn("sum", recorded - halfway)
           /\ CountedIn("audio", lastStats)
<1>1. "count" \in Field /\ "sum" \in Field /\ "audio" \in Field
  BY DEF Field
<1>2. \A f \in Field : Samples(pending \o capture, f) = Waiting(f)
  BY WaitingSamples DEF Waiting
<1>3. Waiting("sum") \in Nat
  <2>1. Samples(pending, "sum") \in Nat
    BY <1>1, WaitingSamples
  <2>2. ASSUME Capturing PROVE capture[1].data["sum"] \in Nat
    <3>1. capture \in Seq(Block) /\ 1 \in DOMAIN capture
      BY <2>2 DEF TypeOK, ControlInv
    <3>2. capture[1] \in Block
      BY <3>1, BlockNumber
    <3> QED BY <1>1, <3>2 DEF Block
  <2> QED BY <2>1, <2>2 DEF Waiting
<1>4. recorded \in Nat /\ halfway \in Nat /\ live["sum"] \in Nat /\ taken["sum"] \in Nat
  BY <1>1 DEF TypeOK
<1>5. CountedIn("sum", recorded - halfway)
        <=> recorded = live["sum"] + Waiting("sum") + taken["sum"] + halfway
  <2> DEFINE l == live["sum"]
             w == Waiting("sum")
             t == taken["sum"]
  <2>1. l \in Nat /\ w \in Nat /\ t \in Nat
    BY <1>3, <1>4
  <2>2. CountedIn("sum", recorded - halfway) <=> recorded - halfway = l + w + t
    BY DEF CountedIn
  <2> HIDE DEF l, w, t
  <2>3. recorded - halfway = l + w + t <=> recorded = l + w + t + halfway
    BY <1>4, <2>1
  <2> QED BY <2>2, <2>3 DEF l, w, t
<1> QED BY <1>1, <1>2, <1>5 DEF CountedOnce, CountedIn

\* Every step keeps all of them: it moves values from one place to the next, or adds one.
LEMMA CountedStep ==
  ASSUME TypeOK, ControlInv, CountedOnce, [Next]_vars, TypeOK', ControlInv'
  PROVE  CountedOnce'
<1> USE DEF Capturing, busVars, sampleVars, audioVars, ringVars, flushVars, idleVars
<1>0. "count" \in Field /\ "sum" \in Field /\ "audio" \in Field
  BY DEF Field
<1>1. /\ recorded = live["count"] + Waiting("count") + taken["count"]
      /\ recorded - halfway = live["sum"] + Waiting("sum") + taken["sum"]
      /\ lastStats = live["audio"] + Waiting("audio") + taken["audio"]
  BY CountedParts DEF CountedIn
<1>2. SUFFICES /\ recorded' = live'["count"] + Waiting("count")' + taken'["count"]
               /\ recorded' - halfway' = live'["sum"] + Waiting("sum")' + taken'["sum"]
               /\ lastStats' = live'["audio"] + Waiting("audio")' + taken'["audio"]
  <2> DEFINE parts == /\ CountedIn("count", recorded)
                      /\ CountedIn("sum", recorded - halfway)
                      /\ CountedIn("audio", lastStats)
  <2>1. (TypeOK /\ ControlInv => (CountedOnce <=> parts))'
    BY CountedParts, PTL
  <2>2. parts' <=>
          /\ recorded' = live'["count"] + Waiting("count")' + taken'["count"]
          /\ recorded' - halfway' = live'["sum"] + Waiting("sum")' + taken'["sum"]
          /\ lastStats' = live'["audio"] + Waiting("audio")' + taken'["audio"]
    BY DEF CountedIn
  <2> HIDE DEF parts
  <2> QED BY <2>1, <2>2
<1>3. /\ live \in [Field -> Nat] /\ taken \in [Field -> Nat] /\ halfway \in {0, 1}
      /\ recorded \in Nat /\ engine \in Nat /\ lastStats \in Nat
      /\ pending \in Seq(Block) /\ capture \in Seq(Block)
  BY DEF TypeOK
<1>4. /\ Capturing => 1 \in DOMAIN capture /\ capture[1] \in Block
      /\ Capturing => \A f \in Field : capture[1].data[f] \in Nat
  <2>1. Capturing => 1 \in DOMAIN capture
    BY <1>3 DEF ControlInv
  <2>2. Capturing => capture[1] \in Block
    BY <1>3, <2>1, BlockNumber
  <2> QED BY <2>1, <2>2 DEF Block
<1>5. \A f \in Field : Samples(pending, f) \in Nat /\ Waiting(f) \in Nat
  BY <1>4, WaitingSamples DEF Waiting
<1>n. /\ Waiting("count") \in Nat /\ Waiting("sum") \in Nat /\ Waiting("audio") \in Nat
      /\ live["count"] \in Nat /\ live["sum"] \in Nat /\ live["audio"] \in Nat
      /\ taken["count"] \in Nat /\ taken["sum"] \in Nat /\ taken["audio"] \in Nat
      /\ recorded \in Nat /\ halfway \in {0, 1} /\ engine \in Nat /\ lastStats \in Nat
  BY <1>0, <1>3, <1>5
<1> DEFINE SameWaiting ==
             /\ Waiting("count")' = Waiting("count") /\ Waiting("sum")' = Waiting("sum")
             /\ Waiting("audio")' = Waiting("audio")
<1>6. ASSUME UNCHANGED <<pending, capture>>, ~Capturing', ~Capturing
      PROVE  SameWaiting
  BY <1>6 DEF Waiting
<1>7. ASSUME UNCHANGED <<pending, capture, rpc>>
      PROVE  SameWaiting
  BY <1>7 DEF Waiting
<1>8. CASE RecordCount
  <2>1. /\ recorded' = recorded + 1 /\ live'["count"] = live["count"] + 1
        /\ halfway = 0 /\ halfway' = 1 /\ live'["sum"] = live["sum"]
        /\ live'["audio"] = live["audio"] /\ UNCHANGED <<lastStats, taken, pending, capture, rpc>>
    BY <1>0, <1>3, <1>8 DEF RecordCount
  <2>2. SameWaiting
    BY <1>7, <2>1
  <2> QED BY <1>1, <1>n, <2>1, <2>2
<1>17. CASE RecordSum
  <2>1. /\ live'["sum"] = live["sum"] + 1 /\ halfway = 1 /\ halfway' = 0
        /\ live'["count"] = live["count"] /\ live'["audio"] = live["audio"]
        /\ UNCHANGED <<recorded, lastStats, taken, pending, capture, rpc>>
    BY <1>0, <1>3, <1>17 DEF RecordSum
  <2>2. SameWaiting
    BY <1>7, <2>1
  <2> QED BY <1>1, <1>n, <2>1, <2>2
<1>9. CASE EndSample \/ Sample
  <2>1. /\ live'["audio"] = live["audio"] + engine - lastStats /\ lastStats' = engine
        /\ live'["count"] = live["count"] /\ live'["sum"] = live["sum"]
        /\ UNCHANGED <<recorded, halfway, taken, pending, capture>>
        /\ ~Capturing /\ ~Capturing'
    BY <1>0, <1>3, <1>9 DEF EndSample, Sample, SampleAudioStats
  <2>2. SameWaiting
    BY <1>6, <2>1
  <2> QED BY <1>1, <1>n, <2>1, <2>2
<1>10. CASE CaptureBlock
  <2>1. /\ ~Capturing /\ Capturing' /\ pending' = pending
        /\ capture'[1].data["count"] = live["count"]
        /\ capture'[1].data["sum"] = 0 /\ capture'[1].data["audio"] = 0
        /\ live'["count"] = 0 /\ live'["sum"] = live["sum"] /\ live'["audio"] = live["audio"]
        /\ UNCHANGED <<recorded, halfway, lastStats, taken>>
    BY <1>0, <1>3, <1>10 DEF CaptureBlock, Zero
  <2>2. /\ Waiting("count")' = Waiting("count") + live["count"]
        /\ Waiting("sum")' = Waiting("sum") /\ Waiting("audio")' = Waiting("audio")
    BY <1>0, <1>3, <1>5, <2>1 DEF Waiting
  <2> QED BY <1>1, <1>n, <2>1, <2>2
<1>18. CASE SnapshotSum
  <2>1. /\ Capturing /\ Capturing' /\ pending' = pending
        /\ live'["count"] = live["count"] /\ live'["sum"] = 0 /\ live'["audio"] = live["audio"]
        /\ UNCHANGED <<recorded, halfway, lastStats, taken>>
    BY <1>0, <1>3, <1>18 DEF SnapshotSum
  <2>2. capture[1].data["sum"] = 0
    BY <1>18 DEF SnapshotSum, ControlInv
  <2>3. /\ capture'[1].data["count"] = capture[1].data["count"]
        /\ capture'[1].data["sum"] = live["sum"]
        /\ capture'[1].data["audio"] = capture[1].data["audio"]
    BY <1>0, <1>4, <1>18, <2>1 DEF SnapshotSum, Block
  <2>4. /\ Waiting("count")' = Waiting("count") /\ Waiting("audio")' = Waiting("audio")
        /\ Waiting("sum")' = Waiting("sum") + live["sum"]
    BY <1>n, <1>0, <1>4, <1>5, <2>1, <2>2, <2>3 DEF Waiting
  <2> QED BY <1>1, <1>n, <2>1, <2>4
<1>11. CASE SnapshotRest
  <2> DEFINE b == [capture[1] EXCEPT !.data["audio"] = live["audio"]]
  <2>1. /\ Capturing /\ ~Capturing' /\ pending' = Append(pending, b)
        /\ live'["count"] = live["count"] /\ live'["sum"] = live["sum"] /\ live'["audio"] = 0
        /\ UNCHANGED <<recorded, halfway, lastStats, taken>>
    BY <1>0, <1>3, <1>11 DEF SnapshotRest
  <2>2. /\ b \in Block /\ b.data["count"] = capture[1].data["count"]
        /\ b.data["sum"] = capture[1].data["sum"] /\ b.data["audio"] = live["audio"]
    BY <1>0, <1>3, <1>4, <2>1 DEF Block
  <2>3. capture[1].data["audio"] = 0
    BY <2>1 DEF ControlInv
  <2> HIDE DEF b
  <2>4. ASSUME NEW f \in Field
        PROVE  /\ Waiting(f) = Samples(pending, f) + capture[1].data[f]
               /\ Waiting(f)' = Samples(pending, f) + b.data[f]
    <3>1. Samples(pending', f) = Samples(pending, f) + b.data[f]
      BY <1>3, <2>1, <2>2, SamplesAppend
    <3>2. Samples(pending, f) \in Nat /\ b.data[f] \in Nat
      BY <1>5, <2>2 DEF Block
    <3> QED BY <2>1, <3>1, <3>2 DEF Waiting
  <2> DEFINE count == Samples(pending, "count")
             sums  == Samples(pending, "sum")
             audio == Samples(pending, "audio")
  <2>5. /\ Waiting("count") = count + b.data["count"] /\ Waiting("audio") = audio + 0
        /\ Waiting("count")' = count + b.data["count"]
        /\ Waiting("sum") = sums + b.data["sum"] /\ Waiting("sum")' = sums + b.data["sum"]
        /\ Waiting("audio")' = audio + live["audio"]
        /\ count \in Nat /\ sums \in Nat /\ audio \in Nat
    BY <1>0, <1>5, <2>2, <2>3, <2>4
  <2> HIDE DEF count, sums, audio, SameWaiting
  <2>6. b.data["count"] \in Nat /\ b.data["sum"] \in Nat
    BY <1>0, <2>2 DEF Block
  <2>7. recorded' = live'["count"] + Waiting("count")' + taken'["count"]
    BY <1>1, <1>n, <2>1, <2>5, <2>6
  <2>8. recorded' - halfway' = live'["sum"] + Waiting("sum")' + taken'["sum"]
    BY <1>1, <1>n, <2>1, <2>5, <2>6
  <2>9. lastStats' = live'["audio"] + Waiting("audio")' + taken'["audio"]
    BY <1>1, <1>n, <2>1, <2>5
  <2> QED BY <2>7, <2>8, <2>9
<1>12. CASE WriteSessionBlock
  <2>1. /\ ~Capturing /\ ~Capturing'
        /\ UNCHANGED <<live, recorded, halfway, lastStats, capture>>
    BY <1>12 DEF WriteSessionBlock, EndFlush
  <2>2. CASE UNCHANGED <<pending, taken>>
    <3>1. SameWaiting
      BY <1>6, <2>1, <2>2
    <3> QED BY <1>1, <2>1, <2>2, <3>1
  <2>3. CASE /\ pending' = Tail(pending)
             /\ taken' = [f \in Field |-> taken[f] + Head(pending).data[f]]
    <3>1. pending # <<>>
      BY <1>12 DEF WriteSessionBlock, ControlInv
    <3>2. \A f \in Field : Samples(pending, f) = Samples(pending', f) + Head(pending).data[f]
      BY <1>3, <2>3, <3>1, SamplesTail
    <3>3. \A f \in Field : Head(pending).data[f] \in Nat
      <4>1. 1 \in DOMAIN pending /\ Head(pending) = pending[1]
        BY <1>3, <3>1
      <4>2. Head(pending) \in Block
        BY <1>3, <4>1, BlockNumber
      <4> QED BY <4>2 DEF Block
    <3>4. \A f \in Field :
            Waiting(f)' \in Nat /\ Waiting(f) = Waiting(f)' + Head(pending).data[f]
      <4>1. pending' \in Seq(Block)
        BY <1>3, <2>3, <3>1
      <4>2. ASSUME NEW f \in Field PROVE Samples(pending', f) \in Nat
        <5>1. PICK g : Sums(g, pending', f, Len(pending'))
                       /\ Samples(pending', f) = g[Len(pending')]
          BY <4>1, SamplesAreSums
        <5>2. Len(pending') \in 0 .. Len(pending')
          BY <4>1
        <5> QED BY <5>1, <5>2 DEF Sums
      <4> SUFFICES ASSUME NEW f \in Field
                   PROVE  Waiting(f)' \in Nat /\ Waiting(f) = Waiting(f)' + Head(pending).data[f]
        OBVIOUS
      <4>3. Waiting(f) = Samples(pending, f) + 0 /\ Waiting(f)' = Samples(pending', f) + 0
        BY <2>1 DEF Waiting
      <4> QED BY <1>5, <3>2, <3>3, <4>2, <4>3
    <3> DEFINE c == Head(pending).data["count"]
               d == Head(pending).data["sum"]
               a == Head(pending).data["audio"]
    <3>5. /\ Waiting("count") = Waiting("count")' + c /\ taken'["count"] = taken["count"] + c
          /\ Waiting("sum") = Waiting("sum")' + d /\ taken'["sum"] = taken["sum"] + d
          /\ Waiting("audio") = Waiting("audio")' + a /\ taken'["audio"] = taken["audio"] + a
          /\ c \in Nat /\ Waiting("count")' \in Nat /\ d \in Nat /\ Waiting("sum")' \in Nat
          /\ a \in Nat /\ Waiting("audio")' \in Nat
      BY <1>0, <2>3, <3>3, <3>4
    <3> HIDE DEF c, d, a
    <3> QED BY <1>1, <1>n, <2>1, <3>5
  <2> QED BY <1>12, <2>2, <2>3 DEF WriteSessionBlock
<1>13. CASE PowerCut
  <2>1. /\ live'["count"] = 0 /\ live'["sum"] = 0 /\ live'["audio"] = 0
        /\ recorded' = 0 /\ halfway' = 0 /\ lastStats' = 0
        /\ taken'["count"] = 0 /\ taken'["sum"] = 0 /\ taken'["audio"] = 0
        /\ pending' = <<>> /\ rpc' = "wait"
    BY <1>0, <1>13 DEF PowerCut, Zero
  <2>2. Waiting("count")' = 0 /\ Waiting("sum")' = 0 /\ Waiting("audio")' = 0
    BY <1>0, <2>1, SamplesEmpty DEF Waiting
  <2> QED BY <2>1, <2>2
<1>14. CASE UNCHANGED vars
  BY <1>0, <1>1, <1>7, <1>14 DEF vars
<1>15. CASE BeginSession \/ EndSession \/ NotifyReporter \/ AudioEvent \/ Elapse \/ CalmDown
  BY <1>0, <1>1, <1>7, <1>15 DEF BeginSession, EndSession, NotifyReporter, AudioEvent,
                                 Elapse, CalmDown
<1>16. CASE HandleNotifications \/ Decide \/ ResolveFilePath \/ CheckBoot \/ WriteBootBlock
            \/ CheckNext
  BY <1>0, <1>1, <1>6, <1>16 DEF HandleNotifications, Decide, ResolveFilePath, CheckBoot,
                                 WriteBootBlock, CheckNext, EndFlush
<1> QED
  BY <1>8, <1>9, <1>10, <1>11, <1>12, <1>13, <1>14, <1>15, <1>16, <1>17, <1>18
  DEF Next, Reporter

-----------------------------------------------------------------------------
(* Theorems.                                                               *)

\* At power-up nothing is recorded, so nothing is counted.
LEMMA CountedInit == Init => CountedOnce
<1> SUFFICES ASSUME Init PROVE CountedOnce
  OBVIOUS
<1>1. /\ live["count"] = 0 /\ live["sum"] = 0 /\ live["audio"] = 0
      /\ taken["count"] = 0 /\ taken["sum"] = 0 /\ taken["audio"] = 0
      /\ recorded = 0 /\ halfway = 0 /\ lastStats = 0 /\ pending \o capture = <<>>
  BY DEF Init, Zero, Field
<1>2. \A f \in Field : Samples(pending \o capture, f) = 0
  BY <1>1, SamplesEmpty
<1>3. "count" \in Field /\ "sum" \in Field /\ "audio" \in Field
  BY DEF Field
<1> QED BY <1>1, <1>2, <1>3 DEF CountedOnce

\* The invariant is inductive.
LEMMA SafetyStep == SafetyInv /\ [Next]_vars => SafetyInv'
BY TypeStep, ControlStep, RingStep, FileStep, FileInOrderParts, PTL DEF SafetyInv

\* Every variable keeps its type: the ring its size, the file its index.
THEOREM TypeCorrect == Spec => []TypeOK
<1>1. SafetyInv => TypeOK
  BY DEF SafetyInv
<1> QED BY <1>1, InitInv, SafetyStep, PTL DEF Spec

\* Every value that a task added to an accumulator is counted exactly once: it is still there,
\* in a block that waits, or in one that left the ring for the file, although the snapshot
\* exchanges the accumulators one by one beside the tasks that add to them.  Count and sum of
\* one sample may be in two blocks.
THEOREM CountedOnceAlways == Spec => []CountedOnce
<1>1. SafetyInv => TypeOK /\ ControlInv
  BY DEF SafetyInv
<1>2. Init => SafetyInv /\ CountedOnce
  BY InitInv, CountedInit
<1>3. SafetyInv /\ CountedOnce /\ [Next]_vars => SafetyInv' /\ CountedOnce'
  <2>1. SafetyInv /\ [Next]_vars => TypeOK' /\ ControlInv'
    BY SafetyStep DEF SafetyInv
  <2> QED BY <1>1, <2>1, SafetyStep, CountedStep
<1> QED BY <1>2, <1>3, PTL DEF Spec

\* A file lists the blocks of a power-up in order and none twice, whatever is put off, dropped
\* or cut off by a power loss, and only the last file there can be, or one picked too low from
\* a listing that the card cut short, is shared by two power-ups.
THEOREM FileInOrderAlways == Spec => []FileInOrder
<1>1. SafetyInv => FileInOrder
  BY DEF SafetyInv
<1> QED BY <1>1, InitInv, SafetyStep, PTL DEF Spec
=============================================================================
