------------------------- MODULE AudioStreamProofs -------------------------
(***************************************************************************)
(* Proofs about the samples of the engine, for any number of channels, any *)
(* ring a quarter of which is a whole number of samples, any cycle that    *)
(* fits a quarter of the ring, and sounds of any length.                   *)
(*                                                                         *)
(* The argument is an account of each channel: what the mixer has played,  *)
(* what waits in the ring and what a reader has put behind the index but   *)
(* not published add up to the position in the file, at every step of the  *)
(* mixer and of the readers.  The ring is then in order, its end mark says *)
(* how far a one-shot goes, and two sounds that start together and are fed *)
(* the same number of samples in every cycle never drift apart.            *)
(***************************************************************************)
EXTENDS AudioStream, FiniteSetTheorems, WellFoundedInduction, TLAPS

-----------------------------------------------------------------------------
(* The inductive invariant.                                                *)

Index == 0 .. N - 1
SnapType == [stopping : BOOLEAN, eof : BOOLEAN, write : Index]
RefillType == [ch : Channel, n : Index, eof : BOOLEAN]

\* The locals that TypeOK leaves out.
LocalsTyped ==
  /\ \A c \in Channel : snap[c] # {} => Snap(c) \in SnapType /\ snap[c] = {Snap(c)}
  /\ \A r \in Reader : refill[r] # {} => Refill(r) \in RefillType /\ refill[r] = {Refill(r)}
  /\ snap \in [Channel -> SUBSET SnapType] /\ refill \in [Reader -> SUBSET RefillType]
  /\ served \in [Reader -> SUBSET Channel] /\ exhausted \in [Reader -> SUBSET Channel]
  /\ running \in BOOLEAN /\ destroying \in BOOLEAN /\ late \in BOOLEAN

\* The end mark, of the channel or still in the hands of its reader, follows the last sample.
AtEnd(c) == ~sound[c].loop /\ (pos[c] = Length \/ cut[c])

\* A reader refills one channel of its own, that is not closed meanwhile, and no more than fits.
RefillOf(r) ==
  LET f == Refill(r)
      c == f.ch
  IN /\ Owned(r, c) /\ ~eof[c]
     /\ rpc[r] \in {"read", "publish"} => Available(write[c], read[c]) + f.n <= N - 1
     /\ rpc[r] = "mark" \/ (rpc[r] = "publish" /\ f.eof) => AtEnd(c)

Refilling(r) == rpc[r] \in {"read", "publish", "mark"}

RefillInv ==
  \A r \in Reader : (refill[r] # {} <=> Refilling(r)) /\ (Refilling(r) => RefillOf(r))

\* Reader r has put samples of channel c into the ring but not published them.
Filling(r, c) == rpc[r] = "publish" /\ Refill(r).ch = c

\* The ring of c holds a samples of its sound, from the next one on, and the file follows them.
Loaded(c, a) ==
  /\ \A i \in Index : i < a => ring[c][Advance(read[c], i)] = Sample(next[c] + i)
  /\ pos[c] = Position(sound[c], next[c] + a)

Counted(c, a) ==
  /\ (\A r \in Reader : ~Filling(r, c)) => a = Available(write[c], read[c])
  /\ \A r \in Reader : Filling(r, c) => a = Available(write[c], read[c]) + Refill(r).n

RingOf(c) ==
  /\ \E a \in Index : Loaded(c, a) /\ Counted(c, a)
  /\ sound[c].loop => next[c] < Length
  /\ eof[c] => AtEnd(c)
  /\ state[c] = "Ready" => next[c] = 0 /\ group[c] = {}

RingInv == \A c \in Channel : RingOf(c)

Mixing(c) == state[c] \in {"Active", "Stopping"}

\* What the mixer saw of a channel when its cycle began is still good when the frames come.
SnapOf(c) ==
  /\ Snap(c).stopping => state[c] = "Stopping" /\ group[c] = {}
  /\ Available(Snap(c).write, read[c]) <= Available(write[c], read[c])
  /\ Snap(c).eof => eof[c]
  /\ Snap(c).eof /\ ~(mpc = "index" /\ c = Min(mixed)) => Snap(c).write = write[c]

SnapInv == \A c \in InCycle : SnapOf(c)

\* The channels of the cycle are those that play, from its start to its frames.
CycleInv ==
  /\ mpc \in {"start", "notify"} => mixed = {} /\ InCycle = {}
  /\ mpc \in {"begin", "index"} => {c \in Channel : Mixing(c)} = mixed \cup InCycle
  /\ mpc = "index" => mixed # {} /\ Min(mixed) \in InCycle

\* A group is of loops that play, and of those only that started together.
GroupInv ==
  /\ \A c \in Channel : group[c] # {} => c \in group[c] /\ sound[c].loop /\ Mixing(c)
  /\ \A g \in committed :
       /\ \A c \in g : state[c] = "Ready"
       /\ Cardinality(g) > 1 => \A c \in g : sound[c].loop
  /\ LinkedAligned

\* Which tasks there are, in each state of who starts and stops the engine.
TasksInv ==
  /\ mpc # "start" => task["mixer"] = "alive"
  /\ task["mixer"] = "alive" =>
       /\ main \in {"up", "joinMixer", "leaked"} /\ stopSent = {}
       /\ \A r \in Reader : task[r] = "alive"
  /\ \A r \in Reader : task[r] = "none" => r \notin stopSent
  /\ \A r \in Reader : task[r] = "exited" => r \in stopSent
  /\ running <=> main \in {"up", "spawnMixer"}
  /\ main \in {"up", "spawnMixer", "spawnSd", "spawnMem"} => stopSent = {}
  /\ main = "spawnMem" => task["mem"] = "none"
  /\ main \in {"spawnMem", "spawnSd"} => task["sd"] = "none"
  /\ main \in {"spawnSd", "spawnMixer", "up"} => task["mem"] = "alive"
  /\ main \in {"spawnMixer", "up"} => task["sd"] = "alive"
  /\ main = "up" => task["mixer"] = "alive"
  /\ main \notin {"up", "leaked", "joinMixer"} => task["mixer"] = "none"
  /\ main = "joinMixer" /\ ~destroying => task["mixer"] = "none"
  /\ main = "joinSd" /\ ~late => task["mem"] = "none"
  /\ TeardownSafe

MainPoint ==
  main \in {"down", "spawnMem", "spawnSd", "spawnMixer", "up", "joinMixer", "joinMem", "joinSd",
            "freed", "leaked"}

StreamInv ==
  /\ TypeOK /\ LocalsTyped /\ RefillInv /\ RingInv /\ SnapInv /\ CycleInv /\ GroupInv
  /\ TasksInv /\ MainPoint

-----------------------------------------------------------------------------
(* Remainders.                                                             *)

\* The remainders this module needs, within a lap below or above zero:
LEMMA ModSmall == \A n \in Nat \ {0} : \A x \in 0 .. n - 1 : x % n = x
OBVIOUS

\* one lap too far,
LEMMA ModBig == \A n \in Nat \ {0} : \A x \in n .. 2 * n - 1 : x % n = x - n
OBVIOUS

\* or one lap behind.
LEMMA ModNeg == \A n \in Nat \ {0} : \A x \in -n .. -1 : x % n = x + n
OBVIOUS

\* A remainder comes with its quotient.
LEMMA ModQuot ==
  ASSUME NEW n \in Nat \ {0}, NEW x \in Int
  PROVE  /\ x % n \in 0 .. n - 1 /\ x \div n \in Int
         /\ x = (n * (x \div n)) + (x % n)
OBVIOUS

\* Between -n and n there is no multiple of n but zero.
LEMMA NoMultipleBetween ==
  ASSUME NEW n \in Nat \ {0}, NEW k \in Int, n * k < n, -n < n * k
  PROVE  k = 0
<1>1. CASE k >= 1
  <2>1. n * (k - 1) >= 0 /\ n * (k - 1) = n * k - n
    BY <1>1
  <2> QED BY <2>1
<1>2. CASE k <= -1
  <2>1. n * (-1 - k) >= 0 /\ n * (-1 - k) = -(n * k) - n
    BY <1>2
  <2> QED BY <2>1
<1> QED BY <1>1, <1>2

\* Laps may be left out before adding.
LEMMA ModAdd ==
  ASSUME NEW n \in Nat \ {0}, NEW x \in Int, NEW y \in Int
  PROVE  ((x % n) + y) % n = (x + y) % n
<1> DEFINE p == x % n
           z == x + y
           u == p + y
           a == x \div n
           b == z \div n
           c == u \div n
           r == z % n
           s == u % n
<1>1. p \in Int /\ z \in Int /\ u \in Int
  BY ModQuot
<1>2. x = (n * a) + p /\ a \in Int
  BY ModQuot
<1>3. r \in 0 .. n - 1 /\ b \in Int /\ z = (n * b) + r
  BY <1>1, ModQuot
<1>4. s \in 0 .. n - 1 /\ c \in Int /\ u = (n * c) + s
  BY <1>1, ModQuot
<1>5. z - u = n * a
  BY <1>1, <1>2
<1> HIDE DEF p, z, u, a, b, c, r, s
<1>6. n * (a - b + c) = r - s
  <2>1. n * (a - b + c) = n * a - n * b + n * c
    BY <1>2, <1>3, <1>4
  <2> QED BY <1>2, <1>3, <1>4, <1>5, <2>1
<1>7. a - b + c = 0
  <2>1. n * (a - b + c) < n /\ -n < n * (a - b + c)
    BY <1>3, <1>4, <1>6
  <2> QED BY <1>2, <1>3, <1>4, <2>1, NoMultipleBetween
<1>8. r = s
  BY <1>3, <1>4, <1>6, <1>7
<1> QED BY <1>8 DEF r, s, z, u, p

-----------------------------------------------------------------------------
(* The ring and its samples.                                               *)

\* Capacity, watermark, chunk and prefill lie within the ring (RingGeometry.hpp).
LEMMA Sizes ==
  /\ N \in Nat \ {0} /\ Length \in Nat \ {0} /\ Frames \in Index /\ Frames # 0
  /\ Watermark \in Index /\ MaxChunk \in Index
  /\ \A memory \in BOOLEAN : Prefill(memory) \in Index
BY StreamAssumption DEF Watermark, MaxChunk, Prefill, Index

\* What waits in a ring, without a remainder,
LEMMA AvailableIs ==
  ASSUME NEW w \in Index, NEW i \in Index
  PROVE  /\ Available(w, i) = IF w >= i THEN w - i ELSE w - i + N
         /\ Available(w, i) \in Index
<1>1. CASE w >= i
  BY <1>1, Sizes, ModSmall DEF Available, Index
<1>2. CASE w < i
  <2>1. w - i \in -N .. -1
    BY <1>2, Sizes DEF Index
  <2> QED BY <1>2, <2>1, Sizes, ModNeg DEF Available, Index
<1> QED BY <1>1, <1>2 DEF Index

\* and where an index ends up.
LEMMA AdvanceIs ==
  ASSUME NEW i \in Index, NEW n \in Index
  PROVE  /\ Advance(i, n) = IF i + n < N THEN i + n ELSE i + n - N
         /\ Advance(i, n) \in Index
<1>1. CASE i + n < N
  BY <1>1, Sizes, ModSmall DEF Advance, Index
<1>2. CASE i + n >= N
  <2>1. i + n \in N .. 2 * N - 1
    BY <1>2, Sizes DEF Index
  <2> QED BY <1>2, <2>1, Sizes, ModBig DEF Advance, Index
<1> QED BY <1>1, <1>2, Sizes DEF Index

\* Publishing what there is room for adds it to what waits,
LEMMA PublishedSamples ==
  ASSUME NEW w \in Index, NEW i \in Index, NEW n \in Index, Available(w, i) + n <= N - 1
  PROVE  Available(Advance(w, n), i) = Available(w, i) + n
<1>1. Advance(w, n) \in Index /\ Advance(w, n) = IF w + n < N THEN w + n ELSE w + n - N
  BY AdvanceIs
<1>2. /\ Available(w, i) = IF w >= i THEN w - i ELSE w - i + N
      /\ Available(Advance(w, n), i) = IF Advance(w, n) >= i THEN Advance(w, n) - i
                                                            ELSE Advance(w, n) - i + N
  BY <1>1, AvailableIs
<1> HIDE DEF Available, Advance
<1> QED BY <1>1, <1>2, Sizes DEF Index

\* and playing what waits takes it away.
LEMMA ConsumedSamples ==
  ASSUME NEW w \in Index, NEW i \in Index, NEW n \in Index, n <= Available(w, i)
  PROVE  Available(w, Advance(i, n)) = Available(w, i) - n
<1>1. Advance(i, n) \in Index /\ Advance(i, n) = IF i + n < N THEN i + n ELSE i + n - N
  BY AdvanceIs
<1>2. /\ Available(w, i) = IF w >= i THEN w - i ELSE w - i + N
      /\ Available(w, Advance(i, n)) = IF w >= Advance(i, n) THEN w - Advance(i, n)
                                                            ELSE w - Advance(i, n) + N
  BY <1>1, AvailableIs
<1> QED BY <1>1, <1>2, Sizes DEF Index

\* Two steps of an index come to one.
LEMMA AdvanceTwice ==
  ASSUME NEW i \in Index, NEW m \in Index, NEW n \in Index, m + n \in Index
  PROVE  Advance(Advance(i, m), n) = Advance(i, m + n)
<1>1. Advance(i, m) \in Index /\ Advance(i, m) = IF i + m < N THEN i + m ELSE i + m - N
  BY AdvanceIs
<1>2. /\ Advance(i, m + n) = IF i + (m + n) < N THEN i + (m + n) ELSE i + (m + n) - N
      /\ Advance(Advance(i, m), n) = IF Advance(i, m) + n < N THEN Advance(i, m) + n
                                                             ELSE Advance(i, m) + n - N
  BY <1>1, AdvanceIs
<1> QED BY <1>1, <1>2, Sizes DEF Index

\* A sample number lies in the sound, and laps of a loop may be left out.
LEMMA SampleIs ==
  /\ \A n \in Int : Sample(n) \in 0 .. Length - 1
  /\ \A n \in 0 .. Length - 1 : Sample(n) = n
  /\ \A m, n \in Int : Sample(Sample(m) + n) = Sample(m + n)
<1>1. \A n \in Int : Sample(n) \in 0 .. Length - 1
  BY Sizes, ModQuot DEF Sample
<1>2. \A n \in 0 .. Length - 1 : Sample(n) = n
  BY Sizes, ModSmall DEF Sample
<1>3. \A m, n \in Int : Sample(Sample(m) + n) = Sample(m + n)
  BY Sizes, ModAdd DEF Sample
<1> QED BY <1>1, <1>2, <1>3

\* A position stands for the same samples whether the sound starts over or not.
LEMMA PositionIs ==
  ASSUME NEW s, NEW m \in Nat, NEW n \in Nat
  PROVE  /\ Position(s, Position(s, m) + n) = Position(s, m + n)
         /\ Sample(Position(s, m) + n) = Sample(m + n)
         /\ Position(s, m) \in Nat
         /\ s.loop => Position(s, m) \in 0 .. Length - 1
         /\ ~s.loop => Position(s, m) = m
<1>1. m \in Int /\ n \in Int /\ Sample(m) \in 0 .. Length - 1 /\ Sample(m) \in Nat
  <2>1. Sample(m) \in 0 .. Length - 1
    BY SampleIs
  <2> HIDE DEF Sample
  <2> QED BY <2>1, Sizes
<1>2. Sample(Sample(m) + n) = Sample(m + n)
  BY <1>1, SampleIs
<1>3. CASE s.loop
  BY <1>1, <1>2, <1>3 DEF Position
<1>4. CASE ~s.loop
  BY <1>4 DEF Position
<1> QED BY <1>3, <1>4

\* A read changes the slots of its span and no other.
LEMMA FilledIs ==
  ASSUME NEW slots \in [Index -> 0 .. Length - 1], NEW w \in Index, NEW p \in Nat,
         NEW n \in Index
  PROVE  /\ Filled(slots, w, p, n) \in [Index -> 0 .. Length - 1]
         /\ \A j \in Index : Filled(slots, w, p, n)[Advance(w, j)]
                               = IF j < n THEN Sample(p + j) ELSE slots[Advance(w, j)]
<1>1. \A i \in Index : (i - w) % N \in Nat
  BY Sizes, ModQuot DEF Index
<1>2. Filled(slots, w, p, n)
        = [i \in Index |-> IF (i - w) % N < n THEN Sample(p + ((i - w) % N)) ELSE slots[i]]
  BY DEF Filled, Index
<1>3. Filled(slots, w, p, n) \in [Index -> 0 .. Length - 1]
  <2>1. ASSUME NEW i \in Index
        PROVE  (IF (i - w) % N < n THEN Sample(p + ((i - w) % N)) ELSE slots[i])
                  \in 0 .. Length - 1
    <3>1. p + ((i - w) % N) \in Int
      BY <1>1
    <3>2. Sample(p + ((i - w) % N)) \in 0 .. Length - 1
      BY <3>1, SampleIs
    <3> QED BY <3>2
  <2> QED BY <1>2, <2>1
<1>4. ASSUME NEW j \in Index
      PROVE  Advance(w, j) \in Index /\ (Advance(w, j) - w) % N = j
  <2>1. Advance(w, j) \in Index /\ Advance(w, j) = IF w + j < N THEN w + j ELSE w + j - N
    BY AdvanceIs
  <2>2. Available(Advance(w, j), w) = IF Advance(w, j) >= w THEN Advance(w, j) - w
                                                           ELSE Advance(w, j) - w + N
    BY <2>1, AvailableIs
  <2>3. Available(Advance(w, j), w) = j
    BY <2>1, <2>2, Sizes DEF Index
  <2> QED BY <2>1, <2>3 DEF Available
<1> HIDE DEF Filled, Advance
<1> QED BY <1>2, <1>3, <1>4

-----------------------------------------------------------------------------
(* Smallest elements.                                                      *)

\* The least of a few numbers,
LEMMA MinOfTwo ==
  ASSUME NEW a \in Int, NEW b \in Int
  PROVE  Min({a, b}) = IF a <= b THEN a ELSE b
BY DEF Min

\* of the three bounds of a span,
LEMMA MinOfThree ==
  ASSUME NEW a \in Int, NEW b \in Int, NEW d \in Int
  PROVE  /\ Min({a, b, d}) \in {a, b, d}
         /\ Min({a, b, d}) <= a /\ Min({a, b, d}) <= b /\ Min({a, b, d}) <= d
<1>1. \E x \in {a, b, d} : \A y \in {a, b, d} : x <= y
  <2>1. CASE a <= b /\ a <= d
    BY <2>1
  <2>2. CASE b <= a /\ b <= d
    BY <2>2
  <2>3. CASE d <= a /\ d <= b
    BY <2>3
  <2> QED BY <2>1, <2>2, <2>3
<1> QED BY <1>1 DEF Min

\* and of the channels of a set.
LEMMA MinOfChannels ==
  ASSUME NEW S \in SUBSET Channel, S # {}
  PROVE  Min(S) \in S
<1> DEFINE Less == {ss \in Nat \X Nat : ss[1] < ss[2]}
<1>1. IsWellFoundedOn(Less, Nat)
  BY NatLessThanWellFounded, Zenon DEF OpToRel
<1>2. S \subseteq Nat
  BY StreamAssumption DEF Channel
<1> HIDE DEF Less
<1>3. PICK x \in S : \A y \in S : <<y, x>> \notin Less
  BY <1>1, <1>2, WFMin
<1>4. ASSUME NEW y \in S PROVE x <= y
  <2>1. ~ (y < x)
    BY <1>2, <1>3 DEF Less
  <2> QED BY <1>2, <2>1
<1> QED BY <1>4 DEF Min

-----------------------------------------------------------------------------
(* What a read brings.                                                     *)

\* What readFromFile() gives back: how much, whether that was the end, whether it failed.
ReadResult == [got : Index, eof : BOOLEAN, failed : BOOLEAN]

\* A read stays within what was asked for and within the sound; it marks an end only where
\* a one-shot is over or was cut short.
LEMMA ReadIs ==
  ASSUME NEW c, NEW s, s.loop \in BOOLEAN, NEW p \in Nat, NEW n \in Nat,
         ~s.loop => p <= Length, NEW got \in ReadFromFile(c, s, p, n)
  PROVE  /\ got.got \in 0 .. n /\ got.eof \in BOOLEAN /\ got.failed \in BOOLEAN
         /\ got = [got |-> got.got, eof |-> got.eof, failed |-> got.failed]
         /\ ~s.loop => p + got.got <= Length
         /\ got.eof => ~s.loop /\ (p + got.got = Length \/ got.failed)
<1> DEFINE whole == IF s.loop THEN n ELSE Min({n, Length - p})
<1>1. /\ whole \in 0 .. n /\ (~s.loop => p + whole <= Length)
      /\ whole < n => ~s.loop /\ p + whole = Length
  BY Sizes, MinOfTwo
<1>2. \/ got = [got |-> whole, eof |-> whole < n, failed |-> FALSE]
      \/ got \in [got : 0 .. whole - 1, eof : {~s.loop}, failed : {TRUE}]
      \/ got \in [got : 0 .. whole - 1, eof : {FALSE}, failed : {FALSE}]
  BY DEF ReadFromFile
<1> HIDE DEF whole
<1>3. CASE got = [got |-> whole, eof |-> whole < n, failed |-> FALSE]
  <2>1. got.got = whole /\ got.eof = (whole < n) /\ got.failed = FALSE
    BY <1>3
  <2>2. whole \in 0 .. n /\ (whole < n) \in BOOLEAN
    BY <1>1
  <2>3. got.got \in 0 .. n /\ got.eof \in BOOLEAN /\ got.failed \in BOOLEAN
    BY <2>1, <2>2, Zenon
  <2>4. got.eof => whole < n
    BY <2>1
  <2>5. got = [got |-> got.got, eof |-> got.eof, failed |-> got.failed]
    BY <1>3
  <2> QED BY <1>1, <2>1, <2>3, <2>4, <2>5
<1>4. CASE got.got \in 0 .. whole - 1 /\ got.eof \in BOOLEAN /\ got.failed \in BOOLEAN
           /\ got = [got |-> got.got, eof |-> got.eof, failed |-> got.failed]
           /\ (got.eof => ~s.loop /\ got.failed)
  BY <1>1, <1>4, Sizes
<1>5. CASE got \in [got : 0 .. whole - 1, eof : {~s.loop}, failed : {TRUE}]
  BY <1>4, <1>5
<1>6. CASE got \in [got : 0 .. whole - 1, eof : {FALSE}, failed : {FALSE}]
  BY <1>4, <1>6
<1> QED BY <1>2, <1>3, <1>5, <1>6

-----------------------------------------------------------------------------
(* The tasks.                                                              *)

\* Tasks are spawned, asked to stop and joined in the order TasksInv says.
LEMMA TasksStep ==
  ASSUME TypeOK, LocalsTyped, MainPoint, TasksInv, [Next]_vars
  PROVE  TasksInv' /\ MainPoint'
<1> DEFINE Typed ==
      /\ task \in [Task -> {"none", "alive", "exited"}] /\ stopSent \in SUBSET Reader
      /\ running \in BOOLEAN /\ destroying \in BOOLEAN /\ late \in BOOLEAN
      /\ mpc \in {"start", "begin", "index", "notify"}
      /\ Task = {"mem", "sd", "mixer"} /\ Reader = {"mem", "sd"}
<1>1. Typed
  BY DEF TypeOK, LocalsTyped, Task, Reader
<1>2. CASE UNCHANGED <<mpc, taskVars>>
  BY <1>2 DEF TasksInv, MainPoint, TeardownSafe, taskVars, mainVars
<1>3. CASE Call
  BY <1>2, <1>3 DEF Call, Prepare, StartGroup, Stop, mixVars
<1>4. CASE Mixer
  <2>1. CASE MixStart \/ MixBegin \/ MixIndex \/ MixFrames \/ MixNotify
    <3>1. /\ UNCHANGED taskVars /\ mpc' \in {"start", "begin", "index", "notify"}
          /\ mpc # "start" \/ task["mixer"] = "alive"
      BY <2>1 DEF MixStart, MixBegin, MixIndex, MixFrames, MixNotify
    <3> QED BY <1>1, <3>1 DEF TasksInv, MainPoint, TeardownSafe, taskVars, mainVars
  <2>2. CASE MixExit
    <3>1. /\ mpc = "start" /\ mpc' = mpc /\ ~running /\ task["mixer"] = "alive"
          /\ task' = [task EXCEPT !["mixer"] = "exited"]
          /\ UNCHANGED mainVars
      BY <2>2 DEF MixExit, mixVars
    <3> QED BY <1>1, <3>1 DEF TasksInv, MainPoint, TeardownSafe, mainVars
  <2> QED BY <1>4, <2>1, <2>2 DEF Mixer
<1>5. ASSUME NEW r \in Reader, ReaderStep(r)
      PROVE  TasksInv' /\ MainPoint'
  <2>1. CASE ReaderExit(r)
    <3>1. /\ task' = [task EXCEPT ![r] = "exited"] /\ task[r] = "alive" /\ r \in stopSent
          /\ UNCHANGED <<mpc, mainVars>>
      BY <2>1 DEF ReaderExit, mixVars
    <3> QED BY <1>1, <3>1 DEF TasksInv, MainPoint, TeardownSafe, mainVars
  <2>2. CASE ~ReaderExit(r)
    <3>1. UNCHANGED <<mpc, taskVars>>
      BY <1>5, <2>2 DEF ReaderStep, Wake, Pick, ReadIntoRing, PublishIndex, MarkEnd, EndPass,
                        mixVars
    <3> QED BY <1>2, <3>1
  <2> QED BY <2>1, <2>2
<1>6. CASE Start
  <2>1. /\ main = "down" /\ (\A t \in Task : task[t] = "none") /\ main' = "spawnMem"
        /\ UNCHANGED <<mpc, task, stopSent, running, destroying, late>>
    BY <1>6 DEF Start, streamVars, mixVars
  <2> QED BY <1>1, <2>1 DEF TasksInv, MainPoint, TeardownSafe
<1>7. CASE SpawnTask
  <2>1. UNCHANGED <<mpc, stopSent, destroying>>
    BY <1>7 DEF SpawnTask, Spawn, streamVars, mixVars
  <2>2. CASE StopTasks /\ task' = task /\ main \in {"spawnMem", "spawnSd", "spawnMixer"}
    BY <1>1, <2>1, <2>2 DEF StopTasks, TasksInv, MainPoint, TeardownSafe
  <2>3. CASE Spawn("mem", "spawnMem", "spawnSd") /\ ~StopTasks
    BY <1>1, <2>1, <2>3 DEF Spawn, TasksInv, MainPoint, TeardownSafe
  <2>4. CASE Spawn("sd", "spawnSd", "spawnMixer") /\ ~StopTasks
    BY <1>1, <2>1, <2>4 DEF Spawn, TasksInv, MainPoint, TeardownSafe
  <2>5. CASE Spawn("mixer", "spawnMixer", "up") /\ ~StopTasks
    BY <1>1, <2>1, <2>5 DEF Spawn, TasksInv, MainPoint, TeardownSafe
  <2>6. CASE StopTasks
    <3>1. main' = "joinMixer"
      BY <2>6 DEF StopTasks
    <3>2. task' = task /\ main \in {"spawnMem", "spawnSd", "spawnMixer"}
      BY <1>7, <3>1 DEF SpawnTask, Spawn
    <3> QED BY <2>2, <2>6, <3>2
  <2> QED BY <1>7, <2>3, <2>4, <2>5, <2>6 DEF SpawnTask
<1>8. CASE Destroy
  <2>1. /\ main \in {"down", "up"} /\ main' = "joinMixer" /\ destroying' = TRUE
        /\ running' = FALSE /\ late' = FALSE /\ UNCHANGED <<mpc, task, stopSent>>
    BY <1>8 DEF Destroy, StopTasks, streamVars, mixVars
  <2> QED BY <1>1, <2>1 DEF TasksInv, MainPoint, TeardownSafe
<1>9. CASE StopTask
  <2>1. UNCHANGED <<mpc, running, destroying>>
    BY <1>9 DEF StopTask, JoinMixer, AskReader, JoinReader, streamVars, mixVars
  <2>2. CASE JoinMixer
    BY <1>1, <2>1, <2>2 DEF JoinMixer, Stopped, TasksInv, MainPoint, TeardownSafe
  <2>3. ASSUME NEW r \in Reader, NEW here \in {"joinMem", "joinSd"}, AskReader(r, here)
        PROVE  TasksInv' /\ MainPoint'
    BY <1>1, <2>1, <2>3 DEF AskReader, TasksInv, MainPoint, TeardownSafe
  <2>4. CASE JoinReader("mem", "joinMem")
    BY <1>1, <2>1, <2>4 DEF JoinReader, TasksInv, MainPoint, TeardownSafe
  <2>5. CASE JoinReader("sd", "joinSd")
    BY <1>1, <2>1, <2>5 DEF JoinReader, Stopped, TasksInv, MainPoint, TeardownSafe
  <2> QED BY <1>1, <1>9, <2>2, <2>3, <2>4, <2>5 DEF StopTask
<1> QED
  BY <1>2, <1>3, <1>4, <1>5, <1>6, <1>7, <1>8, <1>9 DEF Next, vars, mixVars, taskVars, mainVars

-----------------------------------------------------------------------------
(* The facts that the steps need.                                          *)

\* The types of what belongs to a channel.
ChannelsTyped ==
  /\ state \in [Channel -> {"Idle", "Ready", "Active", "Stopping", "Closing"}]
  /\ sound \in [Channel -> [memory : BOOLEAN, loop : BOOLEAN]]
  /\ ring \in [Channel -> [Index -> 0 .. Length - 1]]
  /\ write \in [Channel -> Index] /\ read \in [Channel -> Index]
  /\ eof \in [Channel -> BOOLEAN] /\ cut \in [Channel -> BOOLEAN]
  /\ pos \in [Channel -> 0 .. Length] /\ next \in [Channel -> 0 .. Length]
  /\ group \in [Channel -> SUBSET Channel]
  /\ rpc \in [Reader -> {"wait", "pick", "read", "publish", "mark"}]

\* Of the types, those that speak of single channels.
LEMMA TypesOfChannels == TypeOK => ChannelsTyped
<1>1. Sounds \cup {NoSound} \subseteq [memory : BOOLEAN, loop : BOOLEAN]
  <2>1. NoSound \in [memory : BOOLEAN, loop : BOOLEAN]
    BY DEF NoSound
  <2>2. Sounds \subseteq [memory : BOOLEAN, loop : BOOLEAN]
    BY StreamAssumption
  <2> HIDE DEF NoSound
  <2> QED BY <2>1, <2>2
<1> QED BY <1>1 DEF TypeOK, ChannelsTyped, Index

\* What is known of the refill a reader is in.
LEMMA RefillNow ==
  ASSUME LocalsTyped, RefillInv, NEW r \in Reader, Refilling(r)
  PROVE  /\ refill[r] = {Refill(r)} /\ Refill(r) \in RefillType
         /\ Refill(r).ch \in Channel /\ Refill(r).n \in Index /\ Refill(r).eof \in BOOLEAN
         /\ RefillOf(r)
<1>1. refill[r] # {} /\ RefillOf(r)
  BY DEF RefillInv
<1>2. refill[r] = {Refill(r)} /\ Refill(r) \in RefillType
  BY <1>1 DEF LocalsTyped
<1> QED BY <1>1, <1>2 DEF RefillType

\* The storage of a sound decides which reader serves it, so there is one at most.
LEMMA OneOwner ==
  ASSUME ChannelsTyped, NEW c \in Channel, NEW q \in Reader, NEW r \in Reader,
         Owned(q, c), Owned(r, c)
  PROVE  q = r
<1>1. sound[c].memory \in BOOLEAN
  BY DEF ChannelsTyped
<1> QED BY <1>1 DEF Owned, Reader

\* What is played and buffered of channel c, and where its file is.
SoundOf(c) ==
  <<sound[c], ring[c], write[c], read[c], eof[c], pos[c], cut[c], next[c]>>

AllSounds == <<sound, ring, write, read, eof, pos, cut, next>>

\* A pass that closes a channel resets all of it, and touches no other.
LEMMA CloseIs ==
  ASSUME NEW r \in Reader, CloseOwned(r), NEW c \in Channel
  PROVE  \/ /\ c \in Closing(r) /\ state'[c] = "Idle" /\ group'[c] = {}
            /\ write'[c] = 0 /\ read'[c] = 0 /\ eof'[c] = FALSE /\ pos'[c] = 0
            /\ sound'[c] = NoSound /\ next'[c] = 0 /\ cut'[c] = FALSE
         \/ /\ c \notin Closing(r) /\ state'[c] = state[c] /\ group'[c] = group[c]
            /\ UNCHANGED SoundOf(c)
BY DEF CloseOwned, SoundOf

Consumed(c) == IF c \notin InCycle \/ Held(c) THEN 0 ELSE Min({Buffered(c), Frames})

Done(c) ==
  /\ c \in InCycle
  /\ IF Snap(c).stopping THEN state[c] = "Stopping"
     ELSE state[c] = "Active" /\ Snap(c).eof /\ Buffered(c) = Consumed(c)

\* What a cycle does to each channel: it consumes, may end it, and may dissolve its group.
LEMMA FramesAre ==
  ASSUME MixFrames, NEW c \in Channel
  PROVE  /\ mpc = "begin" /\ mixed = {} /\ mpc' = "notify"
         /\ read'[c] = Advance(read[c], Consumed(c))
         /\ next'[c] = Position(sound[c], next[c] + Consumed(c))
         /\ state'[c] = IF Done(c) THEN "Closing" ELSE state[c]
         /\ group'[c] = IF c \in InCycle /\ Cardinality(Members(c)) < 2 THEN {} ELSE group[c]
         /\ snap'[c] = {}
         /\ UNCHANGED <<sound[c], write[c], eof[c], pos[c], cut[c], ring[c]>>
BY DEF MixFrames, Consumed, Done, ringVars

\* A cycle never consumes more than was published when it took its snapshot.
LEMMA ConsumedIs ==
  ASSUME ChannelsTyped, LocalsTyped, SnapInv, NEW c \in Channel
  PROVE  /\ Consumed(c) \in Index
         /\ Consumed(c) <= Available(write[c], read[c])
         /\ c \in InCycle => Buffered(c) \in Index /\ Consumed(c) <= Buffered(c)
<1>1. Available(write[c], read[c]) \in Index /\ Available(write[c], read[c]) \in Nat
  <2>1. write[c] \in Index /\ read[c] \in Index
    BY DEF ChannelsTyped
  <2>2. Available(write[c], read[c]) \in Index
    BY <2>1, AvailableIs
  <2> QED BY <2>2, Sizes DEF Index
<1>2. CASE c \in InCycle
  <2>1. /\ Snap(c).write \in Index /\ read[c] \in Index
        /\ Available(Snap(c).write, read[c]) <= Available(write[c], read[c])
    BY <1>2 DEF SnapInv, SnapOf, LocalsTyped, InCycle, SnapType, ChannelsTyped
  <2>2. Buffered(c) \in Index /\ Buffered(c) <= Available(write[c], read[c])
    BY <2>1, AvailableIs DEF Buffered
  <2>3. Min({Buffered(c), Frames}) = IF Buffered(c) <= Frames THEN Buffered(c) ELSE Frames
    BY <2>2, MinOfTwo, Sizes DEF Index
  <2>4. Consumed(c) \in {0, Buffered(c), Frames} /\ Consumed(c) <= Buffered(c)
    BY <2>2, <2>3, Sizes DEF Consumed, Index
  <2> QED BY <1>1, <2>2, <2>4, Sizes DEF Index
<1>3. CASE c \notin InCycle
  BY <1>1, <1>3, Sizes DEF Consumed, Index
<1> QED BY <1>2, <1>3

-----------------------------------------------------------------------------
(* The readers.                                                            *)

\* A refill is not disturbed by what keeps its channel open and leaves as much room.
LEMMA RefillKept ==
  ASSUME ChannelsTyped, LocalsTyped, RefillInv, NEW r \in Reader,
         refill'[r] = refill[r], rpc'[r] = rpc[r],
         \A c \in Channel : Refilling(r) /\ Refill(r).ch = c =>
           /\ state'[c] # "Idle" /\ UNCHANGED <<sound[c], eof[c], pos[c], cut[c]>>
           /\ write'[c] \in Index /\ read'[c] \in Index
           /\ Available(write'[c], read'[c]) <= Available(write[c], read[c])
  PROVE  (refill'[r] # {} <=> Refilling(r)') /\ (Refilling(r)' => RefillOf(r)')
<1>1. (refill'[r] # {} <=> Refilling(r)') /\ Refill(r)' = Refill(r)
      /\ (Refilling(r)' <=> Refilling(r))
  BY DEF RefillInv, Refilling, Refill
<1>2. CASE Refilling(r)
  <2>1. PICK c \in Channel : c = Refill(r).ch
    BY <1>2, RefillNow
  <2>2. Refill(r).n \in Index /\ RefillOf(r)
    BY <1>2, RefillNow
  <2>3. /\ Available(write[c], read[c]) \in Index /\ Available(write'[c], read'[c]) \in Index
        /\ Available(write'[c], read'[c]) <= Available(write[c], read[c])
    BY <1>2, <2>1, AvailableIs DEF ChannelsTyped
  <2>4. Available(write[c], read[c]) + Refill(r).n <= N - 1
          => Available(write'[c], read'[c]) + Refill(r).n <= N - 1
    <3> DEFINE n == Refill(r).n
               old == Available(write[c], read[c])
               new == Available(write'[c], read'[c])
    <3>1. n \in Index /\ old \in Index /\ new \in Index /\ new <= old
      BY <2>2, <2>3
    <3> HIDE DEF n, old, new
    <3>2. old + n <= N - 1 => new + n <= N - 1
      BY <3>1, Sizes DEF Index
    <3> QED BY <3>2 DEF n, old, new
  <2>5. /\ state'[c] # "Idle" /\ sound'[c] = sound[c] /\ eof'[c] = eof[c]
        /\ pos'[c] = pos[c] /\ cut'[c] = cut[c]
    BY <1>2, <2>1
  <2>6. /\ Owned(r, c) /\ ~eof[c]
        /\ rpc[r] \in {"read", "publish"} => Available(write[c], read[c]) + Refill(r).n <= N - 1
        /\ rpc[r] = "mark" \/ (rpc[r] = "publish" /\ Refill(r).eof) => AtEnd(c)
    BY <2>1, <2>2 DEF RefillOf
  <2>7. Owned(r, c)' /\ ~eof'[c] /\ (AtEnd(c) => AtEnd(c)')
    BY <2>5, <2>6 DEF Owned, AtEnd
  <2>8. RefillOf(r)'
    BY <1>1, <2>1, <2>4, <2>6, <2>7, rpc'[r] = rpc[r] DEF RefillOf
  <2> QED BY <1>1, <2>8
<1>3. CASE ~Refilling(r)
  BY <1>1, <1>3
<1> QED BY <1>2, <1>3

\* The steps that touch no sample and no reader's work.
Quiet ==
  \/ \E members \in SUBSET Channel : StartGroup(members)
  \/ \E c \in Channel : Stop(c)
  \/ MixStart \/ MixBegin \/ MixIndex \/ MixNotify \/ MixExit
  \/ \E r \in Reader : ReaderExit(r)
  \/ Start \/ SpawnTask \/ Destroy \/ StopTask \/ UNCHANGED vars

Works(r) == ReadIntoRing(r) \/ PublishIndex(r) \/ MarkEnd(r)

\* The steps by what they do to channels.
LEMMA Kinds ==
  ASSUME [Next]_vars
  PROVE  \/ Quiet \/ MixFrames \/ \E s \in Sounds : Prepare(s)
         \/ \E r \in Reader : Wake(r) \/ EndPass(r) \/ Pick(r) \/ Works(r)
BY DEF Next, Call, Mixer, ReaderStep, Quiet, Works

\* A quiet step starts and stops channels, and touches no samples.
LEMMA QuietIs ==
  ASSUME ChannelsTyped, GroupInv, Quiet, NEW c \in Channel
  PROVE  /\ UNCHANGED <<rpc, refill>> /\ UNCHANGED AllSounds
         /\ state'[c] = "Idle" <=> state[c] = "Idle"
         /\ state'[c] = "Ready" => state[c] = "Ready" /\ group'[c] = group[c]
<1> USE DEF AllSounds, ringVars, playVars, readVars
<1> DEFINE Good == /\ UNCHANGED <<rpc, refill>> /\ UNCHANGED AllSounds
                   /\ state'[c] = "Idle" <=> state[c] = "Idle"
                   /\ state'[c] = "Ready" => state[c] = "Ready" /\ group'[c] = group[c]
<1>1. ASSUME NEW members \in SUBSET Channel, StartGroup(members) PROVE Good
  BY <1>1 DEF StartGroup
<1>2. ASSUME NEW d \in Channel, Stop(d) PROVE Good
  BY <1>2 DEF Stop, ChannelsTyped
<1>3. CASE MixStart
  <2>1. c \in UNION committed => state[c] = "Ready"
    BY DEF GroupInv
  <2> QED BY <1>3, <2>1 DEF MixStart
<1>4. CASE MixBegin
  <2>1. /\ UNCHANGED <<rpc, refill, state>> /\ UNCHANGED AllSounds
        /\ group' = IF state[Min(mixed)] = "Stopping" THEN [group EXCEPT ![Min(mixed)] = {}]
                                                      ELSE group
    BY <1>4 DEF MixBegin
  <2>2. state[c] = "Ready" => group'[c] = group[c]
    BY <2>1 DEF ChannelsTyped
  <2> QED BY <2>1, <2>2
<1>5. CASE MixIndex \/ MixNotify \/ MixExit
  BY <1>5 DEF MixIndex, MixNotify, MixExit
<1>6. ASSUME NEW r \in Reader, ReaderExit(r) PROVE Good
  BY <1>6 DEF ReaderExit
<1>7. CASE Start \/ SpawnTask \/ Destroy \/ StopTask
  <2>1. UNCHANGED streamVars
    BY <1>7 DEF Start, SpawnTask, Spawn, Destroy, StopTask, JoinMixer, AskReader, JoinReader
  <2> QED BY <2>1 DEF streamVars
<1>8. CASE UNCHANGED vars
  BY <1>8 DEF vars
<1> QED BY <1>1, <1>2, <1>3, <1>4, <1>5, <1>6, <1>7, <1>8 DEF Quiet

\* A reader at work changes its own channel only.
LEMMA WorkIs ==
  ASSUME ChannelsTyped, LocalsTyped, RefillInv, NEW r \in Reader, Works(r)
  PROVE  /\ Refilling(r) /\ UNCHANGED <<state, sound, group, playVars>>
         /\ \A c \in Channel : c # Refill(r).ch => UNCHANGED SoundOf(c)
         /\ \A q \in Reader : q # r => rpc'[q] = rpc[q] /\ refill'[q] = refill[q]
<1> USE DEF SoundOf, playVars
<1>1. Refilling(r)
  BY DEF Works, ReadIntoRing, PublishIndex, MarkEnd, Refilling
<1>2. Refill(r).ch \in Channel
  BY <1>1, RefillNow
<1>3. CASE ReadIntoRing(r)
  BY <1>1, <1>3 DEF ReadIntoRing, ChannelsTyped
<1>4. CASE PublishIndex(r)
  BY <1>1, <1>4 DEF PublishIndex, Refilled, ChannelsTyped, LocalsTyped
<1>5. CASE MarkEnd(r)
  BY <1>1, <1>5 DEF MarkEnd, Refilled, ChannelsTyped, LocalsTyped
<1> QED BY <1>3, <1>4, <1>5 DEF Works

\* What a read leaves in the channel and in the locals of its reader,
LEMMA ReadsInto ==
  ASSUME ChannelsTyped, LocalsTyped, RefillInv, NEW r \in Reader, ReadIntoRing(r),
         NEW c \in Channel, c = Refill(r).ch
  PROVE  \E got \in ReadFromFile(c, sound[c], pos[c], Refill(r).n) :
           /\ got.got \in 0 .. Refill(r).n /\ got.got \in Index
           /\ got.eof \in BOOLEAN /\ got.failed \in BOOLEAN
           /\ ~sound[c].loop => pos[c] + got.got <= Length
           /\ got.eof => ~sound[c].loop /\ (pos[c] + got.got = Length \/ got.failed)
           /\ ring'[c] = Filled(ring[c], write[c], pos[c], got.got)
           /\ pos'[c] = Position(sound[c], pos[c] + got.got)
           /\ cut'[c] = (cut[c] \/ (got.eof /\ got.failed))
           /\ refill'[r] = {Refill(r)'} /\ Refill(r)'.ch = c
           /\ Refill(r)'.n = got.got /\ Refill(r)'.eof = got.eof
           /\ Refill(r)' \in RefillType /\ refill' = [refill EXCEPT ![r] = {Refill(r)'}]
           /\ rpc[r] = "read" /\ rpc'[r] = "publish"
           /\ UNCHANGED <<write[c], read[c], eof[c], sound[c], next[c]>>
<1>1. Refilling(r) /\ rpc[r] = "read" /\ rpc'[r] = "publish"
      /\ UNCHANGED <<write[c], read[c], eof[c], sound[c], next[c]>>
  BY DEF ReadIntoRing, Refilling, ChannelsTyped, playVars
<1>2. Refill(r) \in RefillType
  BY <1>1, RefillNow
<1>3. PICK got \in ReadFromFile(c, sound[c], pos[c], Refill(r).n) :
        /\ ring' = [ring EXCEPT ![c] = Filled(@, write[c], pos[c], got.got)]
        /\ pos' = [pos EXCEPT ![c] = Position(sound[c], @ + got.got)]
        /\ cut' = [cut EXCEPT ![c] = @ \/ (got.eof /\ got.failed)]
        /\ refill' = [refill EXCEPT ![r] = {[Refill(r) EXCEPT !.n = got.got, !.eof = got.eof]}]
  BY DEF ReadIntoRing
<1>4. /\ ring'[c] = Filled(ring[c], write[c], pos[c], got.got)
      /\ pos'[c] = Position(sound[c], pos[c] + got.got)
      /\ cut'[c] = (cut[c] \/ (got.eof /\ got.failed))
  BY <1>3 DEF ChannelsTyped
<1>6. /\ sound[c].loop \in BOOLEAN /\ pos[c] \in Nat /\ pos[c] <= Length
      /\ Refill(r).n \in Index /\ Refill(r).n \in Nat
  <2>1. pos[c] \in 0 .. Length /\ sound[c].loop \in BOOLEAN
    BY DEF ChannelsTyped
  <2>2. Refill(r).n \in Index
    BY <1>2 DEF RefillType
  <2> QED BY <2>1, <2>2, Sizes DEF Index
<1>7. /\ got.got \in 0 .. Refill(r).n /\ got.eof \in BOOLEAN /\ got.failed \in BOOLEAN
      /\ ~sound[c].loop => pos[c] + got.got <= Length
      /\ got.eof => ~sound[c].loop /\ (pos[c] + got.got = Length \/ got.failed)
  BY <1>6, ReadIs
<1>8. got.got \in Index
  BY <1>6, <1>7, Sizes DEF Index
<1>9. /\ refill'[r] = {Refill(r)'} /\ Refill(r)'.ch = c
      /\ Refill(r)'.n = got.got /\ Refill(r)'.eof = got.eof
      /\ Refill(r)' \in RefillType /\ refill' = [refill EXCEPT ![r] = {Refill(r)'}]
  <2> DEFINE g == [Refill(r) EXCEPT !.n = got.got, !.eof = got.eof]
  <2>1. refill'[r] = {g} /\ refill' = [refill EXCEPT ![r] = {g}]
    BY <1>3 DEF LocalsTyped
  <2>2. g.ch = c /\ g.n = got.got /\ g.eof = got.eof
    BY <1>2 DEF RefillType
  <2>3. g \in RefillType
    BY <1>2, <1>7, <1>8 DEF RefillType
  <2> HIDE DEF g
  <2>4. Refill(r)' = g
    BY <2>1 DEF Refill
  <2> QED BY <2>1, <2>2, <2>3, <2>4
<1> QED BY <1>1, <1>4, <1>7, <1>8, <1>9

\* what publishing it does,
LEMMA Publishes ==
  ASSUME ChannelsTyped, LocalsTyped, RefillInv, NEW r \in Reader, PublishIndex(r),
         NEW c \in Channel, c = Refill(r).ch
  PROVE  /\ rpc[r] = "publish" /\ write'[c] = Advance(write[c], Refill(r).n)
         /\ IF Refill(r).eof THEN rpc'[r] = "mark" /\ refill'[r] = refill[r]
                             ELSE rpc'[r] = "pick" /\ refill'[r] = {}
         /\ UNCHANGED <<ring[c], read[c], eof[c], pos[c], cut[c], sound[c], next[c]>>
BY DEF PublishIndex, Refilled, ChannelsTyped, LocalsTyped, playVars

\* and what the end mark does.
LEMMA MarksEnd ==
  ASSUME ChannelsTyped, LocalsTyped, RefillInv, NEW r \in Reader, MarkEnd(r),
         NEW c \in Channel, c = Refill(r).ch
  PROVE  /\ rpc[r] = "mark" /\ rpc'[r] = "pick" /\ refill'[r] = {} /\ eof'[c] = TRUE
         /\ UNCHANGED <<ring[c], write[c], read[c], pos[c], cut[c], sound[c], next[c]>>
BY DEF MarkEnd, Refilled, ChannelsTyped, LocalsTyped, playVars

\* The channel that is loaded, and what its first read brings.
LEMMA Prepares ==
  ASSUME ChannelsTyped, NEW s \in Sounds, Prepare(s)
  PROVE  \E c \in Channel, got \in ReadResult :
           /\ state[c] = "Idle" /\ s \in [memory : BOOLEAN, loop : BOOLEAN]
           /\ got.got \in Index /\ got.eof \in BOOLEAN /\ got.failed \in BOOLEAN
           /\ ~s.loop => got.got <= Length
           /\ got.eof => ~s.loop /\ (got.got = Length \/ got.failed)
           /\ ring' = [ring EXCEPT ![c] = Filled(@, 0, 0, got.got)]
           /\ pos' = [pos EXCEPT ![c] = Position(s, got.got)]
           /\ write' = [write EXCEPT ![c] = got.got] /\ read' = [read EXCEPT ![c] = 0]
           /\ eof' = [eof EXCEPT ![c] = got.eof]
           /\ cut' = [cut EXCEPT ![c] = got.eof /\ got.failed]
           /\ next' = [next EXCEPT ![c] = 0] /\ sound' = [sound EXCEPT ![c] = s]
           /\ group' = [group EXCEPT ![c] = {}] /\ state' = [state EXCEPT ![c] = "Ready"]
           /\ UNCHANGED <<committed, mixVars, readVars, taskVars>>
<1> DEFINE idle == {c \in Channel : state[c] = "Idle"}
           d == Min(idle)
<1>1. idle # {} /\ idle \in SUBSET Channel
  BY DEF Prepare
<1>2. d \in Channel /\ state[d] = "Idle"
  <2>1. \A c \in idle : c \in Channel /\ state[c] = "Idle"
    OBVIOUS
  <2>2. Min(idle) \in idle
    <3> HIDE DEF idle
    <3> QED BY <1>1, MinOfChannels
  <2> QED BY <2>1, <2>2
<1>3. PICK got \in ReadFromFile(d, s, 0, Prefill(s.memory)) :
        /\ ring' = [ring EXCEPT ![d] = Filled(@, 0, 0, got.got)]
        /\ pos' = [pos EXCEPT ![d] = Position(s, got.got)]
        /\ write' = [write EXCEPT ![d] = got.got]
        /\ eof' = [eof EXCEPT ![d] = got.eof]
        /\ cut' = [cut EXCEPT ![d] = got.eof /\ got.failed]
  BY DEF Prepare
<1>4. s \in [memory : BOOLEAN, loop : BOOLEAN] /\ s.loop \in BOOLEAN /\ s.memory \in BOOLEAN
  BY StreamAssumption
<1>5. Prefill(s.memory) \in Index /\ Prefill(s.memory) \in Nat
  BY <1>4, Sizes DEF Index
<1>6. /\ got.got \in 0 .. Prefill(s.memory) /\ got.eof \in BOOLEAN /\ got.failed \in BOOLEAN
      /\ ~s.loop => 0 + got.got <= Length
      /\ got.eof => ~s.loop /\ (0 + got.got = Length \/ got.failed)
      /\ got = [got |-> got.got, eof |-> got.eof, failed |-> got.failed]
  BY <1>4, <1>5, Sizes, ReadIs
<1>7. got.got \in Index /\ 0 + got.got = got.got
  BY <1>5, <1>6, Sizes DEF Index
<1>9. got \in ReadResult
  BY <1>6, <1>7 DEF ReadResult
<1>8. /\ read' = [read EXCEPT ![d] = 0]
      /\ next' = [next EXCEPT ![d] = 0] /\ sound' = [sound EXCEPT ![d] = s]
      /\ group' = [group EXCEPT ![d] = {}] /\ state' = [state EXCEPT ![d] = "Ready"]
      /\ UNCHANGED <<committed, mixVars, readVars, taskVars>>
  BY DEF Prepare
<1> HIDE DEF d
<1> QED BY <1>2, <1>3, <1>4, <1>6, <1>7, <1>8, <1>9

\* A refill's span stays free until it is published: the mixer only makes more room.
LEMMA RefillStep ==
  ASSUME TypeOK, LocalsTyped, RefillInv, SnapInv, GroupInv, [Next]_vars
  PROVE  RefillInv'
<1> DEFINE Good(r) == (refill'[r] # {} <=> Refilling(r)') /\ (Refilling(r)' => RefillOf(r)')
<1>1. ChannelsTyped
  BY TypesOfChannels
<1>2. SUFFICES ASSUME NEW r \in Reader PROVE Good(r)
  BY DEF RefillInv
<1>3. \A c \in Channel : /\ write[c] \in Index /\ read[c] \in Index
                         /\ Available(write[c], read[c]) \in Int
  <2>1. ASSUME NEW c \in Channel PROVE write[c] \in Index /\ read[c] \in Index
    BY <1>1 DEF ChannelsTyped
  <2>2. \A c \in Channel : Available(write[c], read[c]) \in Index
    BY <2>1, AvailableIs
  <2> QED BY <2>1, <2>2, Sizes DEF Index
<1>4. Refilling(r) => Refill(r).ch \in Channel /\ Owned(r, Refill(r).ch)
  BY RefillNow DEF RefillOf
<1>5. ASSUME refill'[r] = refill[r], rpc'[r] = rpc[r],
             \A c \in Channel : Refilling(r) /\ Refill(r).ch = c =>
               state'[c] # "Idle" /\ UNCHANGED SoundOf(c)
      PROVE  Good(r)
  <2>1. \A c \in Channel : Refilling(r) /\ Refill(r).ch = c =>
           /\ state'[c] # "Idle" /\ UNCHANGED <<sound[c], eof[c], pos[c], cut[c]>>
           /\ write'[c] \in Index /\ read'[c] \in Index
           /\ Available(write'[c], read'[c]) <= Available(write[c], read[c])
    BY <1>3, <1>5 DEF SoundOf
  <2> QED BY <1>1, <1>5, <2>1, RefillKept
<1>6. CASE Quiet
  <2>1. ASSUME NEW c \in Channel, Refilling(r), Refill(r).ch = c
        PROVE  state'[c] # "Idle" /\ UNCHANGED SoundOf(c)
    BY <1>1, <1>4, <1>6, <2>1, QuietIs DEF Owned, SoundOf, AllSounds
  <2>2. UNCHANGED <<rpc, refill>>
    BY <1>1, <1>6, QuietIs, StreamAssumption DEF Channel
  <2> QED BY <1>5, <2>1, <2>2
<1>7. ASSUME NEW s \in Sounds, Prepare(s) PROVE Good(r)
  <2>1. PICK d \in Channel :
          /\ state[d] = "Idle" /\ UNCHANGED <<rpc, refill>>
          /\ \A c \in Channel : c # d => state'[c] = state[c] /\ UNCHANGED SoundOf(c)
    <3>1. PICK d \in Channel, got \in ReadResult :
           /\ state[d] = "Idle"
           /\ ring' = [ring EXCEPT ![d] = Filled(@, 0, 0, got.got)]
           /\ pos' = [pos EXCEPT ![d] = Position(s, got.got)]
           /\ write' = [write EXCEPT ![d] = got.got] /\ read' = [read EXCEPT ![d] = 0]
           /\ eof' = [eof EXCEPT ![d] = got.eof]
           /\ cut' = [cut EXCEPT ![d] = got.eof /\ got.failed]
           /\ next' = [next EXCEPT ![d] = 0] /\ sound' = [sound EXCEPT ![d] = s]
           /\ state' = [state EXCEPT ![d] = "Ready"]
           /\ UNCHANGED readVars
      BY <1>1, <1>7, Prepares
    <3>2. \A c \in Channel : c # d => state'[c] = state[c] /\ UNCHANGED SoundOf(c)
      BY <1>1, <3>1 DEF SoundOf, ChannelsTyped
    <3> QED BY <3>1, <3>2 DEF readVars
  <2>2. Refilling(r) => Refill(r).ch # d
    BY <1>4, <2>1 DEF Owned
  <2> QED BY <1>4, <1>5, <2>1, <2>2 DEF Owned
<1>8. CASE MixFrames
  <2>1. UNCHANGED <<rpc, refill>>
    BY <1>8 DEF MixFrames, readVars
  <2>2. ASSUME NEW c \in Channel, Refilling(r), Refill(r).ch = c
        PROVE  /\ state'[c] # "Idle" /\ UNCHANGED <<sound[c], eof[c], pos[c], cut[c]>>
               /\ write'[c] \in Index /\ read'[c] \in Index
               /\ Available(write'[c], read'[c]) <= Available(write[c], read[c])
    <3>1. /\ read'[c] = Advance(read[c], Consumed(c)) /\ write'[c] = write[c]
          /\ state'[c] # "Idle" /\ UNCHANGED <<sound[c], eof[c], pos[c], cut[c]>>
      BY <1>4, <1>8, <2>2, FramesAre DEF Owned
    <3>2. Consumed(c) \in Index /\ Consumed(c) <= Available(write[c], read[c])
      BY <1>1, ConsumedIs
    <3>3. /\ Available(write[c], Advance(read[c], Consumed(c)))
               = Available(write[c], read[c]) - Consumed(c)
          /\ Advance(read[c], Consumed(c)) \in Index
      BY <1>3, <3>2, ConsumedSamples, AdvanceIs
    <3>4. Available(write[c], read[c]) - Consumed(c) <= Available(write[c], read[c])
      BY <1>3, <3>2, Sizes DEF Index
    <3> QED BY <1>3, <3>1, <3>3, <3>4
  <2> QED BY <1>1, <2>1, <2>2, RefillKept
<1>9. ASSUME NEW q \in Reader, Wake(q) \/ EndPass(q) PROVE Good(r)
  <2>1. /\ rpc[q] \in {"wait", "pick"} /\ rpc'[q] \in {"wait", "pick"} /\ UNCHANGED refill
        /\ \A p \in Reader : p # q => rpc'[p] = rpc[p]
        /\ CloseOwned(q) \/ UNCHANGED <<state, sound, ringVars, playVars>>
    BY <1>1, <1>9 DEF Wake, EndPass, ChannelsTyped
  <2>2. CASE r = q
    BY <2>1, <2>2 DEF RefillInv, Refilling
  <2>3. CASE r # q
    <3>1. ASSUME NEW c \in Channel, Refilling(r), Refill(r).ch = c
          PROVE  state'[c] # "Idle" /\ UNCHANGED SoundOf(c)
      <4>1. c \notin Closing(q)
        BY <1>1, <1>4, <2>3, <3>1, OneOwner DEF Closing
      <4> QED BY <1>4, <2>1, <3>1, <4>1, CloseIs DEF Owned, SoundOf, ringVars, playVars
    <3> QED BY <1>5, <2>1, <2>3, <3>1
  <2> QED BY <2>2, <2>3
<1>10. ASSUME NEW q \in Reader, Pick(q) PROVE Good(r)
  <2>1. /\ UNCHANGED <<state, sound, ringVars, playVars>> /\ rpc[q] = "pick" /\ rpc'[q] = "read"
        /\ \A p \in Reader : p # q => rpc'[p] = rpc[p] /\ refill'[p] = refill[p]
    BY <1>1, <1>10 DEF Pick, ChannelsTyped, LocalsTyped
  <2>2. CASE r = q
    <3>1. PICK c \in Needy(q, exhausted[q] \cup served[q]) :
            refill' = [refill EXCEPT ![q] =
              {[ch |-> c, n |-> Min({FreeSpace(write[c], read[c]), Watermark, MaxChunk}),
                eof |-> FALSE]}]
      BY <1>10 DEF Pick
    <3> DEFINE f == [ch |-> c, n |-> Min({FreeSpace(write[c], read[c]), Watermark, MaxChunk}),
                     eof |-> FALSE]
    <3>2. c \in Channel /\ Owned(q, c) /\ ~eof[c]
      BY <3>1 DEF Needy, NeedsRefill
    <3>3. refill'[q] = {f}
      BY <3>1 DEF LocalsTyped
    <3>4. Available(write[c], read[c]) + f.n <= N - 1
      <4>1. FreeSpace(write[c], read[c]) \in Int
        BY <1>3, <3>2, Sizes DEF FreeSpace
      <4>2. f.n <= FreeSpace(write[c], read[c]) /\ f.n \in Int
        BY <4>1, MinOfThree, Sizes DEF Index
      <4> HIDE DEF f
      <4> QED BY <1>3, <3>2, <4>2, Sizes DEF FreeSpace
    <3>5. Refill(q)' = f
      <4> HIDE DEF f
      <4> QED BY <3>3 DEF Refill
    <3>6. f.ch = c
      OBVIOUS
    <3> HIDE DEF f
    <3>7. Owned(q, c)' /\ ~eof'[c] /\ Available(write'[c], read'[c]) + f.n <= N - 1
      BY <2>1, <3>2, <3>4 DEF Owned, ringVars, playVars
    <3>8. RefillOf(q)'
      BY <2>1, <3>5, <3>6, <3>7 DEF RefillOf
    <3> QED BY <2>1, <2>2, <3>3, <3>8 DEF Refilling
  <2>3. CASE r # q
    BY <1>4, <1>5, <2>1, <2>3 DEF Owned, SoundOf, ringVars, playVars
  <2> QED BY <2>2, <2>3
<1>11. ASSUME NEW q \in Reader, Works(q), r # q PROVE Good(r)
  <2>1. Refilling(q) /\ Owned(q, Refill(q).ch)
    BY <1>1, <1>11, WorkIs, RefillNow DEF RefillOf
  <2>2. Refilling(r) => Refill(r).ch # Refill(q).ch
    BY <1>1, <1>4, <1>11, <2>1, OneOwner
  <2> QED BY <1>1, <1>4, <1>5, <1>11, <2>2, WorkIs DEF Owned
<1>12. CASE ReadIntoRing(r)
  <2>1. Refilling(r) /\ UNCHANGED state
    BY <1>1, <1>12, WorkIs DEF Works
  <2>2. PICK c \in Channel : c = Refill(r).ch
    BY <1>4, <2>1
  <2>3. Owned(r, c) /\ ~eof[c]
    BY <2>1, <2>2, RefillNow DEF RefillOf
  <2>4. PICK got \in ReadFromFile(c, sound[c], pos[c], Refill(r).n) :
           /\ got.got \in 0 .. Refill(r).n /\ got.eof \in BOOLEAN
           /\ got.eof => ~sound[c].loop /\ (pos[c] + got.got = Length \/ got.failed)
           /\ pos'[c] = Position(sound[c], pos[c] + got.got)
           /\ cut'[c] = (cut[c] \/ (got.eof /\ got.failed))
           /\ refill'[r] = {Refill(r)'} /\ Refill(r)'.ch = c
           /\ Refill(r)'.n = got.got /\ Refill(r)'.eof = got.eof
           /\ rpc[r] = "read" /\ rpc'[r] = "publish"
           /\ UNCHANGED <<write[c], read[c], eof[c], sound[c], next[c]>>
    BY <1>1, <1>12, <2>2, ReadsInto
  <2>6. Available(write'[c], read'[c]) + got.got <= N - 1
    <3>1. Available(write[c], read[c]) + Refill(r).n <= N - 1 /\ Refill(r).n \in Index
      BY <2>1, <2>2, <2>4, RefillNow DEF RefillOf
    <3> QED BY <1>3, <2>4, <3>1, Sizes DEF Index
  <2>7. got.eof => AtEnd(c)'
    BY <2>4 DEF AtEnd, Position
  <2>8. Owned(r, c)' /\ ~eof'[c]
    BY <2>1, <2>3, <2>4 DEF Owned
  <2> QED BY <2>4, <2>6, <2>7, <2>8 DEF RefillOf, Refilling
<1>13. CASE PublishIndex(r)
  <2>1. Refilling(r) /\ UNCHANGED state
    BY <1>1, <1>13, WorkIs DEF Works
  <2>2. PICK c \in Channel : c = Refill(r).ch
    BY <1>4, <2>1
  <2>3. /\ rpc[r] = "publish"
        /\ IF Refill(r).eof THEN rpc'[r] = "mark" /\ refill'[r] = refill[r]
                            ELSE rpc'[r] = "pick" /\ refill'[r] = {}
        /\ UNCHANGED <<eof[c], pos[c], cut[c], sound[c]>>
    BY <1>1, <1>13, <2>2, Publishes
  <2>4. CASE Refill(r).eof
    <3>1. Owned(r, c) /\ ~eof[c] /\ AtEnd(c) /\ refill[r] # {}
      BY <2>1, <2>2, <2>3, <2>4, RefillNow DEF RefillOf
    <3>2. Refill(r)' = Refill(r) /\ Owned(r, c)' /\ ~eof'[c] /\ AtEnd(c)'
      BY <2>1, <2>3, <2>4, <3>1 DEF Refill, Owned, AtEnd
    <3> QED BY <2>2, <2>3, <2>4, <3>1, <3>2 DEF RefillOf, Refilling
  <2>5. CASE ~Refill(r).eof
    BY <2>3, <2>5 DEF Refilling
  <2> QED BY <2>4, <2>5
<1>14. CASE MarkEnd(r)
  <2>1. Refilling(r)
    BY <1>1, <1>14, WorkIs DEF Works
  <2> QED BY <1>1, <1>4, <1>14, <2>1, MarksEnd DEF Refilling
<1> QED
  BY <1>6, <1>7, <1>8, <1>9, <1>10, <1>11, <1>12, <1>13, <1>14, Kinds DEF Works

-----------------------------------------------------------------------------
(* The account of each channel.                                            *)

\* What is put at the index of the writer leaves the samples that wait alone and follows them.
LEMMA FilledRing ==
  ASSUME NEW slots \in [Index -> 0 .. Length - 1], NEW w \in Index, NEW i \in Index,
         NEW p \in Nat, NEW n \in Index, Available(w, i) + n <= N - 1
  PROVE  /\ \A k \in Index : k < Available(w, i) =>
              Filled(slots, w, p, n)[Advance(i, k)] = slots[Advance(i, k)]
         /\ \A j \in Index : j < n =>
              Filled(slots, w, p, n)[Advance(i, Available(w, i) + j)] = Sample(p + j)
<1> DEFINE a == Available(w, i)
           F == Filled(slots, w, p, n)
<1>1. a \in Index /\ a = IF w >= i THEN w - i ELSE w - i + N
  BY AvailableIs
<1>2. a + n <= N - 1
  OBVIOUS
<1>3. \A j \in Index : F[Advance(w, j)] = IF j < n THEN Sample(p + j) ELSE slots[Advance(w, j)]
  BY FilledIs
<1> HIDE DEF a, F
<1>4. ASSUME NEW k \in Index, k < a
      PROVE  F[Advance(i, k)] = slots[Advance(i, k)]
  <2> DEFINE j == N - a + k
  <2>1. j \in Index /\ ~(j < n)
    BY <1>1, <1>2, <1>4, Sizes DEF Index
  <2>2. Advance(i, k) = Advance(w, j)
    <3>1. Advance(i, k) = IF i + k < N THEN i + k ELSE i + k - N
      BY AdvanceIs
    <3>2. Advance(w, j) = IF w + j < N THEN w + j ELSE w + j - N
      BY <2>1, AdvanceIs
    <3>3. w \in Int /\ i \in Int /\ a \in Int /\ k \in Int /\ N \in Int
          /\ 0 <= w /\ w < N /\ 0 <= i /\ i < N /\ 0 <= k /\ k < a /\ a < N
      BY <1>1, <1>4, Sizes DEF Index
    <3>4. CASE w >= i
      BY <1>1, <3>1, <3>2, <3>3, <3>4
    <3>5. CASE w < i
      BY <1>1, <3>1, <3>2, <3>3, <3>5
    <3> QED BY <3>3, <3>4, <3>5
  <2> HIDE DEF j
  <2> QED BY <1>3, <2>1, <2>2
<1>5. ASSUME NEW j \in Index, j < n
      PROVE  F[Advance(i, a + j)] = Sample(p + j)
  <2>1. a + j \in Index
    BY <1>1, <1>2, <1>5, Sizes DEF Index
  <2>2. Advance(i, a + j) = Advance(w, j)
    <3>1. Advance(i, a + j) = IF i + (a + j) < N THEN i + (a + j) ELSE i + (a + j) - N
      BY <2>1, AdvanceIs
    <3>2. Advance(w, j) = IF w + j < N THEN w + j ELSE w + j - N
      BY AdvanceIs
    <3>3. w \in Int /\ i \in Int /\ a \in Int /\ j \in Int /\ N \in Int
          /\ 0 <= w /\ w < N /\ 0 <= i /\ i < N /\ 0 <= j /\ a + j < N
      BY <1>1, <2>1, Sizes DEF Index
    <3>4. CASE w >= i
      BY <1>1, <3>1, <3>2, <3>3, <3>4
    <3>5. CASE w < i
      BY <1>1, <3>1, <3>2, <3>3, <3>5
    <3> QED BY <3>3, <3>4, <3>5
  <2> QED BY <1>3, <1>5, <2>2
<1> QED BY <1>4, <1>5 DEF a, F

\* The account of a ring stands while nobody touches it and its refill goes on unchanged.
LEMMA RingKept ==
  ASSUME NEW c \in Channel, RingOf(c), UNCHANGED SoundOf(c),
         state'[c] = "Ready" => state[c] = "Ready" /\ group'[c] = group[c],
         \A r \in Reader : /\ Filling(r, c)' <=> Filling(r, c)
                           /\ Filling(r, c) => Refill(r)' = Refill(r)
  PROVE  RingOf(c)'
<1>1. PICK a \in Index : Loaded(c, a) /\ Counted(c, a)
  BY DEF RingOf
<1>2. Loaded(c, a)'
  BY <1>1 DEF Loaded, SoundOf
<1>3. Counted(c, a)'
  BY <1>1 DEF Counted, SoundOf
<1> QED BY <1>2, <1>3 DEF RingOf, SoundOf, AtEnd

\* The account of every ring: played, waiting and just read make the position in the file.
LEMMA RingStep ==
  ASSUME TypeOK, LocalsTyped, RefillInv, RingInv, SnapInv, CycleInv, GroupInv, [Next]_vars
  PROVE  RingInv'
<1>1. ChannelsTyped
  BY TypesOfChannels
<1>2. SUFFICES ASSUME NEW c \in Channel PROVE RingOf(c)'
  BY DEF RingInv
<1>3. RingOf(c)
  BY DEF RingInv
<1>4. /\ write[c] \in Index /\ read[c] \in Index /\ ring[c] \in [Index -> 0 .. Length - 1]
      /\ next[c] \in Nat /\ pos[c] \in Nat
      /\ Available(write[c], read[c]) \in Index
  <2>1. /\ write[c] \in Index /\ read[c] \in Index /\ ring[c] \in [Index -> 0 .. Length - 1]
        /\ next[c] \in 0 .. Length /\ pos[c] \in 0 .. Length
    BY <1>1 DEF ChannelsTyped
  <2> QED BY <2>1, AvailableIs, Sizes
<1>5. \A r \in Reader : Filling(r, c) => Owned(r, c) /\ Refilling(r)
  BY RefillNow DEF Filling, Refilling, RefillOf
<1>6. CASE Quiet
  <2>1. /\ UNCHANGED SoundOf(c) /\ UNCHANGED <<rpc, refill>>
        /\ state'[c] = "Ready" => state[c] = "Ready" /\ group'[c] = group[c]
    BY <1>1, <1>6, QuietIs DEF AllSounds, SoundOf
  <2> QED BY <1>3, <2>1, RingKept DEF Filling, Refill
<1>7. ASSUME NEW s \in Sounds, Prepare(s) PROVE RingOf(c)'
  <2>1. PICK d \in Channel, got \in ReadResult :
           /\ state[d] = "Idle" /\ s \in [memory : BOOLEAN, loop : BOOLEAN]
           /\ got.got \in Index
           /\ got.eof => ~s.loop /\ (got.got = Length \/ got.failed)
           /\ ring' = [ring EXCEPT ![d] = Filled(@, 0, 0, got.got)]
           /\ pos' = [pos EXCEPT ![d] = Position(s, got.got)]
           /\ write' = [write EXCEPT ![d] = got.got] /\ read' = [read EXCEPT ![d] = 0]
           /\ eof' = [eof EXCEPT ![d] = got.eof]
           /\ cut' = [cut EXCEPT ![d] = got.eof /\ got.failed]
           /\ next' = [next EXCEPT ![d] = 0] /\ sound' = [sound EXCEPT ![d] = s]
           /\ group' = [group EXCEPT ![d] = {}] /\ state' = [state EXCEPT ![d] = "Ready"]
           /\ UNCHANGED readVars
    BY <1>1, <1>7, Prepares
  <2>2. \A r \in Reader : (Filling(r, c)' <=> Filling(r, c)) /\ Refill(r)' = Refill(r)
    BY <2>1 DEF readVars, Filling, Refill
  <2>3. CASE c = d
    <3>1. /\ ring'[c] = Filled(ring[c], 0, 0, got.got) /\ pos'[c] = Position(s, got.got)
          /\ write'[c] = got.got /\ read'[c] = 0 /\ next'[c] = 0 /\ sound'[c] = s
          /\ eof'[c] = got.eof /\ cut'[c] = (got.eof /\ got.failed) /\ group'[c] = {}
      BY <1>1, <2>1, <2>3 DEF ChannelsTyped
    <3>2. 0 \in Index /\ 0 \in Nat /\ got.got \in Nat /\ 0 < Length /\ 0 + got.got = got.got
      BY <2>1, Sizes DEF Index
    <3>3. \A j \in Index : j < got.got => ring'[c][Advance(0, j)] = Sample(0 + j)
      <4>1. \A j \in Index : Filled(ring[c], 0, 0, got.got)[Advance(0, j)]
                = IF j < got.got THEN Sample(0 + j) ELSE ring[c][Advance(0, j)]
        <5>1. /\ ring[c] \in [Index -> 0 .. Length - 1] /\ got.got \in Index
              /\ 0 \in Index /\ 0 \in Nat
          BY <1>4, <2>1, <3>2
        <5> QED BY <5>1, FilledIs
      <4> QED BY <3>1, <4>1
    <3>4. Available(got.got, 0) = got.got
      BY <2>1, <3>2, AvailableIs
    <3>5. Loaded(c, got.got)'
      BY <3>1, <3>2, <3>3 DEF Loaded
    <3>6. Counted(c, got.got)'
      BY <1>5, <2>1, <2>2, <2>3, <3>1, <3>4 DEF Counted, Owned
    <3>7. eof'[c] => AtEnd(c)'
      BY <2>1, <3>1 DEF AtEnd, Position
    <3> QED BY <2>1, <3>1, <3>2, <3>5, <3>6, <3>7 DEF RingOf
  <2>4. CASE c # d
    <3>1. UNCHANGED SoundOf(c) /\ UNCHANGED <<state[c], group[c]>>
      BY <1>1, <2>1, <2>4 DEF ChannelsTyped, SoundOf
    <3> QED BY <1>3, <2>2, <3>1, RingKept
  <2> QED BY <2>3, <2>4
<1>8. CASE MixFrames
  <2>1. PICK k \in Index : k = Consumed(c) /\ k <= Available(write[c], read[c])
    BY <1>1, ConsumedIs
  <2>2. /\ mpc = "begin" /\ mixed = {}
        /\ read'[c] = Advance(read[c], k) /\ next'[c] = Position(sound[c], next[c] + k)
        /\ state'[c] = IF Done(c) THEN "Closing" ELSE state[c]
        /\ group'[c] = IF c \in InCycle /\ Cardinality(Members(c)) < 2 THEN {} ELSE group[c]
        /\ sound'[c] = sound[c] /\ write'[c] = write[c] /\ eof'[c] = eof[c]
        /\ pos'[c] = pos[c] /\ cut'[c] = cut[c] /\ ring'[c] = ring[c]
    BY <1>8, <2>1, FramesAre
  <2>3. \A r \in Reader : (Filling(r, c)' <=> Filling(r, c)) /\ Refill(r)' = Refill(r)
    BY <1>8 DEF MixFrames, readVars, Filling, Refill
  <2>4. state[c] = "Ready" => k = 0 /\ c \notin InCycle
    BY <2>1, <2>2 DEF CycleInv, Mixing, Consumed
  <2>5. PICK v \in Index : v = Available(write[c], read[c])
    BY <1>4
  <2>6. /\ Available(write[c], Advance(read[c], k)) = v - k
        /\ Advance(read[c], k) \in Index
    BY <1>4, <2>1, <2>5, ConsumedSamples, AdvanceIs
  <2>7. PICK a \in Index : Loaded(c, a) /\ Counted(c, a)
    BY <1>3 DEF RingOf
  <2>8. /\ (\A r \in Reader : ~Filling(r, c)) => a = v
        /\ \A r \in Reader : Filling(r, c) => a = v + Refill(r).n /\ Refill(r).n \in Nat
    <3>1. \A r \in Reader : Filling(r, c) => Refill(r).n \in Nat
      <4>1. \A r \in Reader : Filling(r, c) => Refill(r).n \in Index
        BY <1>5, RefillNow
      <4> QED BY <4>1, Sizes DEF Index
    <3> QED BY <2>5, <2>7, <3>1 DEF Counted
  <2>9. a \in Nat /\ v \in Nat /\ k \in Nat /\ a <= N - 1 /\ v <= a /\ k <= v
    <3>1. a \in Nat /\ v \in Nat /\ k \in Nat /\ a <= N - 1
      BY Sizes DEF Index
    <3>2. v <= a
      BY <2>8, <3>1
    <3> QED BY <2>1, <2>5, <3>1, <3>2
  <2>10. PICK b \in Index : b = a - k
    BY <2>9, Sizes DEF Index
  <2>11. b \in Nat /\ b + k = a /\ next[c] \in Nat /\ next[c] + k \in Nat
    BY <1>4, <2>9, <2>10
  <2>12. Loaded(c, b)'
    <3>1. ASSUME NEW i \in Index, i < b
          PROVE  ring'[c][Advance(read'[c], i)] = Sample(next'[c] + i)
      <4>1. k + i \in Index /\ k + i < a /\ i \in Nat
        BY <2>9, <2>11, <3>1, Sizes DEF Index
      <4>2. Advance(Advance(read[c], k), i) = Advance(read[c], k + i)
        <5>1. read[c] \in Index /\ k \in Index /\ i \in Index /\ k + i \in Index
          BY <1>4, <4>1
        <5> QED BY <5>1, AdvanceTwice
      <4>3. ring[c][Advance(read[c], k + i)] = Sample(next[c] + (k + i))
        BY <2>7, <4>1 DEF Loaded
      <4>4. Sample(Position(sound[c], next[c] + k) + i) = Sample((next[c] + k) + i)
        BY <2>11, <4>1, PositionIs
      <4>5. (next[c] + k) + i = next[c] + (k + i)
        BY <2>9, <2>11, <4>1
      <4> QED BY <2>2, <4>2, <4>3, <4>4, <4>5
    <3>2. pos'[c] = Position(sound'[c], next'[c] + b)
      <4>1. Position(sound[c], Position(sound[c], next[c] + k) + b)
              = Position(sound[c], (next[c] + k) + b)
        BY <2>11, PositionIs
      <4>2. (next[c] + k) + b = next[c] + a
        BY <2>9, <2>11
      <4>3. pos[c] = Position(sound[c], next[c] + a)
        BY <2>7 DEF Loaded
      <4> QED BY <2>2, <4>1, <4>2, <4>3
    <3> QED BY <3>1, <3>2 DEF Loaded
  <2>13. Counted(c, b)'
    <3>1. Available(write'[c], read'[c]) = v - k
      BY <2>2, <2>6
    <3>2. /\ (\A r \in Reader : ~Filling(r, c)) => b = v - k
          /\ \A r \in Reader : Filling(r, c) => b = (v - k) + Refill(r).n
      <4>1. \A n \in Nat : a = v + n => b = (v - k) + n
        BY <2>9, <2>10
      <4> QED BY <2>8, <2>10, <4>1
    <3> QED BY <2>3, <3>1, <3>2 DEF Counted
  <2>14. sound'[c].loop => next'[c] < Length
    <3>1. sound[c].loop => Position(sound[c], next[c] + k) \in 0 .. Length - 1
      BY <2>11, PositionIs
    <3> QED BY <2>2, <3>1, Sizes
  <2>15. state'[c] = "Ready" => next'[c] = 0 /\ group'[c] = {}
    <3>1. state'[c] = "Ready" => state[c] = "Ready"
      BY <2>2
    <3>2. Position(sound[c], 0) = 0
      BY SampleIs, Sizes DEF Position
    <3> QED BY <1>3, <1>4, <2>2, <2>4, <3>1, <3>2 DEF RingOf
  <2>16. eof'[c] => AtEnd(c)'
    BY <1>3, <2>2 DEF RingOf, AtEnd
  <2> QED BY <2>12, <2>13, <2>14, <2>15, <2>16 DEF RingOf
<1>9. ASSUME NEW q \in Reader, Wake(q) \/ EndPass(q) PROVE RingOf(c)'
  <2>1. /\ rpc[q] \in {"wait", "pick"} /\ rpc'[q] \in {"wait", "pick"} /\ UNCHANGED refill
        /\ \A p \in Reader : p # q => rpc'[p] = rpc[p]
        /\ CloseOwned(q) \/ UNCHANGED <<state, sound, group, ringVars, playVars>>
    BY <1>1, <1>9 DEF Wake, EndPass, ChannelsTyped
  <2>2. \A r \in Reader : (Filling(r, c)' <=> Filling(r, c)) /\ Refill(r)' = Refill(r)
    BY <2>1 DEF Filling, Refill
  <2>3. CASE CloseOwned(q) /\ c \in Closing(q)
    <3>1. /\ write'[c] = 0 /\ read'[c] = 0 /\ eof'[c] = FALSE /\ pos'[c] = 0
          /\ sound'[c] = NoSound /\ next'[c] = 0 /\ state'[c] = "Idle"
      BY <2>3, CloseIs
    <3>2. \A r \in Reader : ~Filling(r, c)'
      <4>1. ~Filling(q, c)
        BY <2>1 DEF Filling
      <4>2. \A r \in Reader : Filling(r, c) => r = q
        BY <1>1, <1>5, <2>3, OneOwner DEF Closing
      <4> QED BY <2>2, <4>1, <4>2
    <3>3. 0 \in Index /\ 0 \in Nat /\ 0 < Length /\ 0 + 0 = 0
      BY Sizes DEF Index
    <3>4. Available(0, 0) = 0
      BY <3>3, AvailableIs
    <3>5. Loaded(c, 0)'
      <4>1. \A i \in Index : ~(i < 0)
        BY Sizes DEF Index
      <4>2. Position(NoSound, 0 + 0) = 0
        BY DEF Position, NoSound
      <4> QED BY <3>1, <4>1, <4>2 DEF Loaded
    <3>6. Counted(c, 0)'
      BY <3>1, <3>2, <3>4 DEF Counted
    <3> QED BY <3>1, <3>3, <3>5, <3>6 DEF RingOf
  <2>4. CASE ~(CloseOwned(q) /\ c \in Closing(q))
    <3>1. UNCHANGED SoundOf(c) /\ UNCHANGED <<state[c], group[c]>>
      BY <2>1, <2>4, CloseIs DEF SoundOf, ringVars, playVars
    <3> QED BY <1>3, <2>2, <3>1, RingKept
  <2> QED BY <2>3, <2>4
<1>10. ASSUME NEW q \in Reader, Pick(q) PROVE RingOf(c)'
  <2>1. /\ UNCHANGED <<state, sound, group, ringVars, playVars>> /\ rpc[q] = "pick"
        /\ rpc'[q] = "read"
        /\ \A p \in Reader : p # q => rpc'[p] = rpc[p] /\ refill'[p] = refill[p]
    BY <1>1, <1>10 DEF Pick, ChannelsTyped, LocalsTyped
  <2>2. \A r \in Reader : /\ Filling(r, c)' <=> Filling(r, c)
                          /\ Filling(r, c) => Refill(r)' = Refill(r)
    BY <2>1 DEF Filling, Refill
  <2> QED BY <1>3, <2>1, <2>2, RingKept DEF SoundOf, ringVars, playVars
<1>11. ASSUME NEW q \in Reader, Works(q), Refill(q).ch # c PROVE RingOf(c)'
  <2>1. /\ Refilling(q) /\ UNCHANGED <<state, group>> /\ UNCHANGED SoundOf(c)
        /\ \A p \in Reader : p # q => rpc'[p] = rpc[p] /\ refill'[p] = refill[p]
    BY <1>1, <1>11, WorkIs
  <2>2. ~Filling(q, c) /\ ~Filling(q, c)'
    <3>1. PICK d \in Channel : d = Refill(q).ch
      BY <2>1, RefillNow
    <3>2. CASE ReadIntoRing(q)
      BY <1>1, <1>11, <3>1, <3>2, ReadsInto DEF Filling
    <3>3. CASE PublishIndex(q)
      BY <1>1, <1>11, <3>1, <3>3, Publishes DEF Filling
    <3>4. CASE MarkEnd(q)
      BY <1>1, <1>11, <3>1, <3>4, MarksEnd DEF Filling
    <3> QED BY <1>11, <3>2, <3>3, <3>4 DEF Works
  <2>3. \A r \in Reader : /\ Filling(r, c)' <=> Filling(r, c)
                          /\ Filling(r, c) => Refill(r)' = Refill(r)
    BY <2>1, <2>2 DEF Filling, Refill
  <2> QED BY <1>3, <2>1, <2>3, RingKept
<1>12. ASSUME NEW q \in Reader, Works(q), Refill(q).ch = c
       PROVE  /\ RefillOf(q) /\ ~eof[c] /\ Refill(q).n \in Index
              /\ \A r \in Reader : r # q => ~Filling(r, c) /\ ~Filling(r, c)'
              /\ UNCHANGED <<state[c], sound[c], group[c], next[c], read[c]>>
  <2>1. /\ Refilling(q) /\ UNCHANGED <<state, sound, group, playVars>>
        /\ \A p \in Reader : p # q => rpc'[p] = rpc[p] /\ refill'[p] = refill[p]
    BY <1>1, <1>12, WorkIs
  <2>2. RefillOf(q) /\ Refill(q).n \in Index
    BY <2>1, RefillNow
  <2>3. Owned(q, c) /\ ~eof[c]
    BY <1>12, <2>2 DEF RefillOf
  <2>4. \A r \in Reader : r # q => ~Filling(r, c)
    BY <1>1, <1>5, <2>3, OneOwner
  <2>5. \A r \in Reader : r # q => (Filling(r, c)' <=> Filling(r, c))
    BY <2>1 DEF Filling, Refill
  <2> QED BY <2>1, <2>2, <2>3, <2>4, <2>5 DEF playVars
<1>13. ASSUME NEW q \in Reader, ReadIntoRing(q), Refill(q).ch = c
       PROVE  RingOf(c)'
  <2>1. /\ RefillOf(q) /\ ~eof[c] /\ Refill(q).n \in Index
        /\ \A r \in Reader : r # q => ~Filling(r, c) /\ ~Filling(r, c)'
        /\ UNCHANGED <<state[c], sound[c], group[c], next[c], read[c]>>
    BY <1>12, <1>13 DEF Works
  <2>2. PICK got \in ReadFromFile(c, sound[c], pos[c], Refill(q).n) :
           /\ got.got \in 0 .. Refill(q).n /\ got.got \in Index
           /\ ring'[c] = Filled(ring[c], write[c], pos[c], got.got)
           /\ pos'[c] = Position(sound[c], pos[c] + got.got)
           /\ Refill(q)'.ch = c /\ Refill(q)'.n = got.got
           /\ rpc[q] = "read" /\ rpc'[q] = "publish"
           /\ UNCHANGED <<write[c], eof[c]>>
    BY <1>1, <1>13, ReadsInto
  <2>3. PICK n \in Index : n = got.got
    BY <2>2
  <2>4. PICK a \in Index : Loaded(c, a) /\ Counted(c, a)
    BY <1>3 DEF RingOf
  <2>5. a = Available(write[c], read[c])
    <3>1. \A r \in Reader : ~Filling(r, c)
      BY <2>1, <2>2 DEF Filling
    <3> QED BY <2>4, <3>1 DEF Counted
  <2>6. a + n <= N - 1
    <3>1. a + Refill(q).n <= N - 1
      BY <1>13, <2>1, <2>2, <2>5 DEF RefillOf
    <3>2. a \in Nat /\ n \in Nat /\ Refill(q).n \in Nat /\ N \in Nat /\ n <= Refill(q).n
      BY <2>1, <2>2, <2>3, Sizes DEF Index
    <3> QED BY <3>1, <3>2
  <2>7. PICK b \in Index : b = a + n
    BY <2>6, Sizes DEF Index
  <2>8. a \in Nat /\ n \in Nat /\ b \in Nat /\ next[c] \in Nat /\ pos[c] \in Nat
        /\ next[c] + a \in Nat
    <3>1. a \in Nat /\ n \in Nat /\ b \in Nat
      BY Sizes DEF Index
    <3> QED BY <1>4, <3>1
  <2>9. pos[c] = Position(sound[c], next[c] + a)
    BY <2>4 DEF Loaded
  <2>10. /\ \A k \in Index : k < a => ring'[c][Advance(read[c], k)] = ring[c][Advance(read[c], k)]
         /\ \A j \in Index : j < n => ring'[c][Advance(read[c], a + j)] = Sample(pos[c] + j)
    <3>1. /\ ring[c] \in [Index -> 0 .. Length - 1] /\ write[c] \in Index /\ read[c] \in Index
          /\ Available(write[c], read[c]) + n <= N - 1
      BY <1>4, <2>5, <2>6
    <3>2. ring'[c] = Filled(ring[c], write[c], pos[c], n)
      BY <2>2, <2>3
    <3>3. PICK slots \in [Index -> 0 .. Length - 1], w \in Index, i \in Index, p \in Nat :
            slots = ring[c] /\ w = write[c] /\ i = read[c] /\ p = pos[c]
      BY <2>8, <3>1
    <3>4. Available(w, i) = a /\ Available(w, i) + n <= N - 1
      BY <2>5, <3>1, <3>3
    <3>5. /\ \A k \in Index : k < Available(w, i) =>
               Filled(slots, w, p, n)[Advance(i, k)] = slots[Advance(i, k)]
          /\ \A j \in Index : j < n =>
               Filled(slots, w, p, n)[Advance(i, Available(w, i) + j)] = Sample(p + j)
      BY <3>4, FilledRing
    <3>6. ring'[c] = Filled(slots, w, p, n)
      BY <3>2, <3>3
    <3> HIDE DEF Filled, Available, Advance, Sample
    <3> QED BY <3>3, <3>4, <3>5, <3>6
  <2>11. Loaded(c, b)'
    <3>1. ASSUME NEW i \in Index, i < b
          PROVE  ring'[c][Advance(read[c], i)] = Sample(next[c] + i)
      <4>1. CASE i < a
        BY <2>4, <2>10, <4>1 DEF Loaded
      <4>2. CASE ~(i < a)
        <5>1. i \in Nat /\ N \in Nat /\ i <= N - 1
          BY Sizes DEF Index
        <5>2. PICK j \in Nat : j = i - a
          BY <2>8, <4>2, <5>1
        <5>3. j \in Index /\ j < n /\ i = a + j
          BY <2>7, <2>8, <3>1, <5>1, <5>2 DEF Index
        <5>4. ring'[c][Advance(read[c], i)] = Sample(pos[c] + j)
          BY <2>10, <5>3
        <5>5. Sample(pos[c] + j) = Sample((next[c] + a) + j)
          BY <2>8, <2>9, <5>2, PositionIs
        <5>6. (next[c] + a) + j = next[c] + i
          BY <2>8, <5>1, <5>2
        <5> QED BY <5>4, <5>5, <5>6
      <4> QED BY <4>1, <4>2
    <3>2. pos'[c] = Position(sound[c], next[c] + b)
      <4>1. Position(sound[c], Position(sound[c], next[c] + a) + n)
              = Position(sound[c], (next[c] + a) + n)
        BY <2>8, PositionIs
      <4>2. (next[c] + a) + n = next[c] + b
        BY <2>7, <2>8
      <4> QED BY <2>2, <2>3, <2>9, <4>1, <4>2
    <3> QED BY <2>1, <3>1, <3>2 DEF Loaded
  <2>12. Counted(c, b)'
    <3>1. Filling(q, c)' /\ Available(write'[c], read'[c]) = a /\ Refill(q)'.n = n
      BY <2>1, <2>2, <2>3, <2>5 DEF Filling
    <3> QED BY <2>1, <2>7, <3>1 DEF Counted
  <2> QED BY <1>3, <2>1, <2>2, <2>11, <2>12 DEF RingOf
<1>14. ASSUME NEW q \in Reader, PublishIndex(q), Refill(q).ch = c
       PROVE  RingOf(c)'
  <2>1. /\ RefillOf(q) /\ ~eof[c] /\ Refill(q).n \in Index
        /\ \A r \in Reader : r # q => ~Filling(r, c) /\ ~Filling(r, c)'
        /\ UNCHANGED <<state[c], sound[c], group[c], next[c], read[c]>>
    BY <1>12, <1>14 DEF Works
  <2>2. /\ rpc[q] = "publish" /\ rpc'[q] \in {"mark", "pick"}
        /\ write'[c] = Advance(write[c], Refill(q).n)
        /\ UNCHANGED <<ring[c], eof[c], pos[c]>>
    BY <1>1, <1>14, Publishes
  <2>3. PICK n \in Index : n = Refill(q).n
    BY <2>1
  <2>4. PICK a \in Index : Loaded(c, a) /\ Counted(c, a)
    BY <1>3 DEF RingOf
  <2>5. a = Available(write[c], read[c]) + n
    BY <1>14, <2>2, <2>3, <2>4 DEF Filling, Counted
  <2>6. Available(Advance(write[c], n), read[c]) = a
    <3>1. Available(write[c], read[c]) + n <= N - 1
      BY <2>5, Sizes DEF Index
    <3> QED BY <1>4, <2>5, <3>1, PublishedSamples
  <2>7. Loaded(c, a)'
    BY <2>1, <2>2, <2>4 DEF Loaded
  <2>8. Counted(c, a)'
    <3>1. \A r \in Reader : ~Filling(r, c)'
      BY <2>1, <2>2 DEF Filling
    <3> QED BY <2>1, <2>2, <2>3, <2>6, <3>1 DEF Counted
  <2> QED BY <1>3, <2>1, <2>2, <2>7, <2>8 DEF RingOf
<1>15. ASSUME NEW q \in Reader, MarkEnd(q), Refill(q).ch = c
       PROVE  RingOf(c)'
  <2>1. /\ RefillOf(q)
        /\ \A r \in Reader : r # q => ~Filling(r, c) /\ ~Filling(r, c)'
        /\ UNCHANGED <<state[c], sound[c], group[c], next[c], read[c]>>
    BY <1>12, <1>15 DEF Works
  <2>2. /\ rpc[q] = "mark" /\ rpc'[q] = "pick" /\ eof'[c] = TRUE
        /\ UNCHANGED <<ring[c], write[c], pos[c], cut[c]>>
    BY <1>1, <1>15, MarksEnd
  <2>3. PICK a \in Index : Loaded(c, a) /\ Counted(c, a)
    BY <1>3 DEF RingOf
  <2>4. Loaded(c, a)'
    BY <2>1, <2>2, <2>3 DEF Loaded
  <2>5. Counted(c, a)'
    <3>1. \A r \in Reader : ~Filling(r, c) /\ ~Filling(r, c)'
      BY <2>1, <2>2 DEF Filling
    <3> QED BY <2>1, <2>2, <2>3, <3>1 DEF Counted
  <2>6. AtEnd(c)'
    BY <1>15, <2>1, <2>2 DEF RefillOf, AtEnd
  <2> QED BY <1>3, <2>1, <2>4, <2>5, <2>6 DEF RingOf
<1> QED
  BY <1>6, <1>7, <1>8, <1>9, <1>10, <1>11, <1>13, <1>14, <1>15, Kinds DEF Works

-----------------------------------------------------------------------------
(* The types.                                                              *)

\* Looking at a channel's state and end mark, before its write index,
LEMMA BeginIs ==
  ASSUME TypeOK, LocalsTyped, MixBegin
  PROVE  \E c \in mixed :
           /\ c = Min(mixed) /\ c \in Channel /\ mpc = "begin" /\ mpc' = "index"
           /\ snap'[c] = {Snap(c)'} /\ Snap(c)' \in SnapType
           /\ Snap(c)'.stopping = (state[c] = "Stopping")
           /\ Snap(c)'.eof = eof[c] /\ Snap(c)'.write = read[c]
           /\ \A d \in Channel : d # c => snap'[d] = snap[d] /\ Snap(d)' = Snap(d)
           /\ \A d \in Channel :
                group'[d] = IF d = c /\ state[c] = "Stopping" THEN {} ELSE group[d]
           /\ UNCHANGED <<state, mixed, sound, ringVars, playVars, committed>>
<1>1. mpc = "begin" /\ mpc' = "index" /\ mixed # {} /\ mixed \in SUBSET Channel
      /\ UNCHANGED <<state, mixed, sound, ringVars, playVars, committed>>
  BY DEF MixBegin, TypeOK
<1>2. PICK c \in Channel : c = Min(mixed) /\ c \in mixed
  BY <1>1, MinOfChannels
<1> DEFINE s == [stopping |-> state[c] = "Stopping", eof |-> eof[c], write |-> read[c]]
<1>3. /\ snap' = [snap EXCEPT ![c] = {s}]
      /\ group' = IF state[c] = "Stopping" THEN [group EXCEPT ![c] = {}] ELSE group
  BY <1>2 DEF MixBegin
<1>4. /\ s \in SnapType /\ s.stopping = (state[c] = "Stopping") /\ s.eof = eof[c]
      /\ s.write = read[c]
  <2>1. eof[c] \in BOOLEAN /\ read[c] \in Index
    BY DEF TypeOK, Index
  <2> QED BY <2>1 DEF SnapType
<1> HIDE DEF s
<1>5. snap'[c] = {s} /\ Snap(c)' = s
      /\ \A d \in Channel : d # c => snap'[d] = snap[d] /\ Snap(d)' = Snap(d)
  BY <1>3 DEF LocalsTyped, Snap
<1>6. \A d \in Channel : group'[d] = IF d = c /\ state[c] = "Stopping" THEN {} ELSE group[d]
  BY <1>3 DEF TypeOK
<1> QED BY <1>1, <1>2, <1>4, <1>5, <1>6

\* and looking at its write index.
LEMMA IndexIs ==
  ASSUME TypeOK, LocalsTyped, CycleInv, MixIndex
  PROVE  \E c \in mixed :
           /\ c = Min(mixed) /\ c \in Channel /\ c \in InCycle /\ mpc = "index" /\ mpc' = "begin"
           /\ snap'[c] = {Snap(c)'} /\ Snap(c)' \in SnapType
           /\ Snap(c)'.stopping = Snap(c).stopping
           /\ Snap(c)'.eof = Snap(c).eof /\ Snap(c)'.write = write[c]
           /\ \A d \in Channel : d # c => snap'[d] = snap[d] /\ Snap(d)' = Snap(d)
           /\ mixed' = mixed \ {c}
           /\ UNCHANGED <<state, group, sound, ringVars, playVars, committed>>
<1>1. mpc = "index" /\ mpc' = "begin" /\ mixed # {} /\ mixed \in SUBSET Channel
      /\ Min(mixed) \in InCycle
      /\ UNCHANGED <<state, group, sound, ringVars, playVars, committed>>
  BY DEF MixIndex, TypeOK, CycleInv
<1>2. PICK c \in Channel : c = Min(mixed) /\ c \in mixed
  BY <1>1, MinOfChannels
<1>3. /\ snap' = [snap EXCEPT ![c] = {[s EXCEPT !.write = write[c]] : s \in @}]
      /\ mixed' = mixed \ {c}
  BY <1>2 DEF MixIndex
<1> DEFINE t == [Snap(c) EXCEPT !.write = write[c]]
<1>4. snap[c] = {Snap(c)} /\ Snap(c) \in SnapType /\ write[c] \in Index
  BY <1>1, <1>2 DEF InCycle, LocalsTyped, TypeOK, Index
<1>5. /\ t \in SnapType /\ t.stopping = Snap(c).stopping /\ t.eof = Snap(c).eof
      /\ t.write = write[c]
  BY <1>4 DEF SnapType
<1>6. {[s EXCEPT !.write = write[c]] : s \in snap[c]} = {t}
  BY <1>4
<1> HIDE DEF t
<1>7. snap'[c] = {t} /\ Snap(c)' = t
      /\ \A d \in Channel : d # c => snap'[d] = snap[d] /\ Snap(d)' = Snap(d)
  BY <1>3, <1>6 DEF LocalsTyped, Snap
<1> QED BY <1>1, <1>2, <1>3, <1>5, <1>7

\* The mixer's view of the channels that it did not begin or end.
LEMMA SnapsTyped ==
  ASSUME TypeOK, LocalsTyped, CycleInv, [Next]_vars
  PROVE  /\ \A c \in Channel : snap'[c] # {} => Snap(c)' \in SnapType /\ snap'[c] = {Snap(c)'}
         /\ snap' \in [Channel -> SUBSET SnapType]
<1>1. CASE UNCHANGED snap
  BY <1>1 DEF LocalsTyped, Snap
<1>2. CASE MixBegin
  <2>1. PICK c \in Channel : /\ snap'[c] = {Snap(c)'} /\ Snap(c)' \in SnapType
           /\ \A d \in Channel : d # c => snap'[d] = snap[d] /\ Snap(d)' = Snap(d)
    BY <1>2, BeginIs
  <2>2. DOMAIN snap' = Channel /\ snap' = [d \in Channel |-> snap'[d]]
    BY <1>2 DEF MixBegin, LocalsTyped
  <2>3. \A d \in Channel : snap'[d] \in SUBSET SnapType
    BY <2>1 DEF LocalsTyped
  <2> QED BY <2>1, <2>2, <2>3 DEF LocalsTyped
<1>3. CASE MixIndex
  <2>1. PICK c \in Channel : /\ snap'[c] = {Snap(c)'} /\ Snap(c)' \in SnapType
           /\ \A d \in Channel : d # c => snap'[d] = snap[d] /\ Snap(d)' = Snap(d)
    BY <1>3, IndexIs
  <2>2. DOMAIN snap' = Channel /\ snap' = [d \in Channel |-> snap'[d]]
    BY <1>3 DEF MixIndex, LocalsTyped
  <2>3. \A d \in Channel : snap'[d] \in SUBSET SnapType
    BY <2>1 DEF LocalsTyped
  <2> QED BY <2>1, <2>2, <2>3 DEF LocalsTyped
<1>4. CASE MixFrames
  BY <1>4 DEF MixFrames
<1>5. CASE ~(MixBegin \/ MixIndex \/ MixFrames)
  <2>1. CASE Call
    BY <2>1, <1>1 DEF Call, Prepare, StartGroup, Stop, mixVars
  <2>2. CASE MixStart \/ MixNotify \/ MixExit
    BY <2>2, <1>1 DEF MixStart, MixNotify, MixExit, mixVars
  <2>3. ASSUME NEW r \in Reader, ReaderStep(r) PROVE UNCHANGED snap
    BY <2>3 DEF ReaderStep, Wake, Pick, ReadIntoRing, PublishIndex, MarkEnd, EndPass, ReaderExit,
                mixVars
  <2>4. CASE Start \/ SpawnTask \/ Destroy \/ StopTask
    BY <2>4, <1>1 DEF Start, SpawnTask, Spawn, Destroy, StopTask, JoinMixer, AskReader, JoinReader,
                streamVars, mixVars
  <2>5. CASE UNCHANGED vars
    BY <2>5, <1>1 DEF vars, mixVars
  <2> QED BY <1>1, <1>5, <2>1, <2>2, <2>3, <2>4, <2>5 DEF Next, Mixer
<1> QED BY <1>2, <1>3, <1>4, <1>5

\* The locals of a refill keep their type.
LEMMA RefillsTyped ==
  ASSUME TypeOK, LocalsTyped, RefillInv, GroupInv, [Next]_vars
  PROVE  /\ \A r \in Reader :
              refill'[r] # {} => Refill(r)' \in RefillType /\ refill'[r] = {Refill(r)'}
         /\ refill' \in [Reader -> SUBSET RefillType]
<1>1. ChannelsTyped
  BY TypesOfChannels
<1>2. CASE UNCHANGED refill
  BY <1>2 DEF LocalsTyped, Refill
<1>3. ASSUME NEW r \in Reader, NEW X, refill' = [refill EXCEPT ![r] = X],
             X = {} \/ (X = {Refill(r)'} /\ Refill(r)' \in RefillType)
      PROVE  /\ \A q \in Reader :
                  refill'[q] # {} => Refill(q)' \in RefillType /\ refill'[q] = {Refill(q)'}
             /\ refill' \in [Reader -> SUBSET RefillType]
  <2>1. refill'[r] = X /\ \A q \in Reader : q # r => refill'[q] = refill[q]
    BY <1>3 DEF LocalsTyped
  <2>2. ASSUME NEW q \in Reader, q # r PROVE Refill(q)' = Refill(q)
    BY <2>1, <2>2 DEF Refill
  <2>3. refill' \in [Reader -> SUBSET RefillType]
    BY <1>3 DEF LocalsTyped
  <2> QED BY <1>3, <2>1, <2>2, <2>3 DEF LocalsTyped
<1>4. CASE Quiet
  BY <1>1, <1>2, <1>4, QuietIs, StreamAssumption DEF Channel
<1>5. CASE MixFrames
  BY <1>2, <1>5 DEF MixFrames, readVars
<1>6. ASSUME NEW s \in Sounds, Prepare(s) PROVE UNCHANGED refill
  BY <1>6 DEF Prepare, readVars
<1>7. ASSUME NEW r \in Reader, Wake(r) \/ EndPass(r) PROVE UNCHANGED refill
  BY <1>7 DEF Wake, EndPass
<1>8. ASSUME NEW r \in Reader, Pick(r)
      PROVE  \E X : /\ refill' = [refill EXCEPT ![r] = X]
                    /\ X = {Refill(r)'} /\ Refill(r)' \in RefillType
  <2>1. PICK c \in Needy(r, exhausted[r] \cup served[r]) :
          refill' = [refill EXCEPT ![r] =
            {[ch |-> c, n |-> Min({FreeSpace(write[c], read[c]), Watermark, MaxChunk}),
              eof |-> FALSE]}]
    BY <1>8 DEF Pick
  <2> DEFINE n == Min({FreeSpace(write[c], read[c]), Watermark, MaxChunk})
             f == [ch |-> c, n |-> n, eof |-> FALSE]
  <2>2. c \in Channel /\ write[c] \in Index /\ read[c] \in Index
    BY <1>1, <2>1 DEF Needy, ChannelsTyped
  <2>3. n \in Index
    <3>1. Available(write[c], read[c]) \in Index
      BY <2>2, AvailableIs
    <3>2. FreeSpace(write[c], read[c]) \in Index
      BY <3>1, Sizes DEF FreeSpace, Index
    <3>3. Watermark \in Index /\ MaxChunk \in Index
      BY Sizes
    <3> HIDE DEF FreeSpace, Watermark, MaxChunk
    <3>4. FreeSpace(write[c], read[c]) \in Int /\ Watermark \in Int /\ MaxChunk \in Int
      BY <3>2, <3>3 DEF Index
    <3>5. n \in {FreeSpace(write[c], read[c]), Watermark, MaxChunk}
      BY <3>4, MinOfThree
    <3> QED BY <3>2, <3>3, <3>5
  <2> HIDE DEF n
  <2>4. f \in RefillType
    BY <2>2, <2>3 DEF RefillType
  <2>5. refill' = [refill EXCEPT ![r] = {f}]
    BY <2>1 DEF n
  <2> HIDE DEF f
  <2>6. Refill(r)' = f
    BY <2>5 DEF LocalsTyped, Refill
  <2> QED BY <2>4, <2>5, <2>6
<1>9. ASSUME NEW r \in Reader, ReadIntoRing(r)
      PROVE  \E X : /\ refill' = [refill EXCEPT ![r] = X]
                    /\ X = {Refill(r)'} /\ Refill(r)' \in RefillType
  <2>1. Refilling(r)
    BY <1>1, <1>9, WorkIs DEF Works
  <2>2. PICK c \in Channel : c = Refill(r).ch
    BY <2>1, RefillNow
  <2>3. Refill(r)' \in RefillType /\ refill' = [refill EXCEPT ![r] = {Refill(r)'}]
    BY <1>1, <1>9, <2>2, ReadsInto
  <2> QED BY <2>3
<1>10. ASSUME NEW r \in Reader, PublishIndex(r) \/ MarkEnd(r)
       PROVE  UNCHANGED refill \/ refill' = [refill EXCEPT ![r] = {}]
  BY <1>10 DEF PublishIndex, MarkEnd, Refilled
<1> QED BY <1>2, <1>3, <1>4, <1>5, <1>6, <1>7, <1>8, <1>9, <1>10, Kinds DEF Works

\* What waits in the ring of c lies between the samples played and the position in the file.
LEMMA Accounted ==
  ASSUME ChannelsTyped, LocalsTyped, RefillInv, RingInv, NEW c \in Channel
  PROVE  \E a \in Index :
           /\ Loaded(c, a) /\ Counted(c, a)
           /\ Available(write[c], read[c]) \in Index /\ Available(write[c], read[c]) <= a
           /\ next[c] \in Nat /\ next[c] + a \in Nat /\ pos[c] \in Nat
           /\ pos[c] = Position(sound[c], next[c] + a)
<1>1. PICK a \in Index : Loaded(c, a) /\ Counted(c, a)
  BY DEF RingInv, RingOf
<1>2. PICK v \in Index : v = Available(write[c], read[c])
  <2>1. write[c] \in Index /\ read[c] \in Index
    BY DEF ChannelsTyped
  <2> QED BY <2>1, AvailableIs
<1>3. next[c] \in Nat /\ pos[c] \in Nat
  <2>1. next[c] \in 0 .. Length /\ pos[c] \in 0 .. Length
    BY DEF ChannelsTyped
  <2> QED BY <2>1, Sizes
<1>4. a \in Nat /\ v \in Nat
  BY Sizes DEF Index
<1>5. v <= a
  <2>1. CASE \A r \in Reader : ~Filling(r, c)
    BY <1>1, <1>2, <1>4, <2>1 DEF Counted
  <2>2. ASSUME NEW r \in Reader, Filling(r, c) PROVE v <= a
    <3>1. Refill(r).n \in Index /\ a = v + Refill(r).n
      BY <1>1, <1>2, <2>2, RefillNow DEF Counted, Filling, Refilling
    <3>2. Refill(r).n \in Nat
      BY <3>1, Sizes DEF Index
    <3> QED BY <1>4, <3>1, <3>2
  <2> QED BY <2>1, <2>2
<1>6. next[c] + a \in Nat
  BY <1>3, <1>4
<1> QED BY <1>1, <1>2, <1>3, <1>5, <1>6 DEF Loaded

\* What a cycle plays was read before.
LEMMA PlayedFits ==
  ASSUME ChannelsTyped, LocalsTyped, RefillInv, RingInv, SnapInv, NEW c \in Channel
  PROVE  /\ next[c] + Consumed(c) \in Nat
         /\ ~sound[c].loop => next[c] + Consumed(c) <= pos[c]
<1>1. PICK a \in Index :
        /\ Available(write[c], read[c]) \in Index /\ Available(write[c], read[c]) <= a
        /\ next[c] \in Nat /\ next[c] + a \in Nat /\ pos[c] = Position(sound[c], next[c] + a)
  BY Accounted
<1>2. PICK k \in Index : k = Consumed(c) /\ k <= Available(write[c], read[c])
  BY ConsumedIs
<1>3. PICK v \in Index : v = Available(write[c], read[c])
  BY <1>1
<1>4. a \in Nat /\ k \in Nat /\ v \in Nat
  BY Sizes DEF Index
<1>5. k <= a
  BY <1>1, <1>2, <1>3, <1>4
<1>6. ~sound[c].loop => pos[c] = next[c] + a
  BY <1>1 DEF Position
<1> QED BY <1>1, <1>2, <1>4, <1>5, <1>6

\* Indices stay in the ring and positions in the sound.
LEMMA ChannelsStep ==
  ASSUME TypeOK, LocalsTyped, RefillInv, RingInv, SnapInv, CycleInv, GroupInv, [Next]_vars
  PROVE  /\ sound' \in [Channel -> Sounds \cup {NoSound}]
         /\ ring' \in [Channel -> [Index -> 0 .. Length - 1]]
         /\ write' \in [Channel -> Index] /\ read' \in [Channel -> Index]
         /\ eof' \in [Channel -> BOOLEAN] /\ pos' \in [Channel -> 0 .. Length]
         /\ next' \in [Channel -> 0 .. Length] /\ cut' \in [Channel -> BOOLEAN]
<1> DEFINE Good == /\ sound' \in [Channel -> Sounds \cup {NoSound}]
                   /\ ring' \in [Channel -> [Index -> 0 .. Length - 1]]
                   /\ write' \in [Channel -> Index] /\ read' \in [Channel -> Index]
                   /\ eof' \in [Channel -> BOOLEAN] /\ pos' \in [Channel -> 0 .. Length]
                   /\ next' \in [Channel -> 0 .. Length] /\ cut' \in [Channel -> BOOLEAN]
<1>1. ChannelsTyped /\ sound \in [Channel -> Sounds \cup {NoSound}]
  BY TypesOfChannels DEF TypeOK
<1>2. 0 \in Index /\ 0 \in 0 .. Length
  BY Sizes DEF Index
<1>3. CASE UNCHANGED AllSounds
  BY <1>1, <1>3 DEF AllSounds, ChannelsTyped
<1>4. CASE Quiet
  BY <1>1, <1>3, <1>4, QuietIs, StreamAssumption DEF Channel
<1>5. ASSUME NEW s \in Sounds, Prepare(s) PROVE Good
  <2>1. PICK c \in Channel, got \in ReadResult :
           /\ s \in [memory : BOOLEAN, loop : BOOLEAN]
           /\ got.got \in Index /\ got.eof \in BOOLEAN /\ got.failed \in BOOLEAN
           /\ ~s.loop => got.got <= Length
           /\ ring' = [ring EXCEPT ![c] = Filled(@, 0, 0, got.got)]
           /\ pos' = [pos EXCEPT ![c] = Position(s, got.got)]
           /\ write' = [write EXCEPT ![c] = got.got] /\ read' = [read EXCEPT ![c] = 0]
           /\ eof' = [eof EXCEPT ![c] = got.eof]
           /\ cut' = [cut EXCEPT ![c] = got.eof /\ got.failed]
           /\ next' = [next EXCEPT ![c] = 0] /\ sound' = [sound EXCEPT ![c] = s]
    BY <1>1, <1>5, Prepares
  <2>2. Filled(ring[c], 0, 0, got.got) \in [Index -> 0 .. Length - 1]
    <3>1. PICK slots \in [Index -> 0 .. Length - 1] : slots = ring[c]
      BY <1>1 DEF ChannelsTyped
    <3>2. PICK n \in Index : n = got.got
      BY <2>1
    <3>3. Filled(slots, 0, 0, n) \in [Index -> 0 .. Length - 1]
      BY <1>2, FilledIs
    <3> QED BY <3>1, <3>2, <3>3
  <2>3. Position(s, got.got) \in 0 .. Length
    <3>1. got.got \in Nat
      BY <2>1, Sizes DEF Index
    <3>2. s.loop => Position(s, got.got) \in 0 .. Length - 1
      BY <3>1, PositionIs
    <3>3. ~s.loop => Position(s, got.got) = got.got /\ got.got <= Length
      BY <2>1 DEF Position
    <3> QED BY <3>1, <3>2, <3>3, Sizes
  <2> QED BY <1>1, <1>2, <2>1, <2>2, <2>3 DEF ChannelsTyped
<1>6. CASE MixFrames
  <2>1. UNCHANGED <<sound, ringVars>>
        /\ read' = [c \in Channel |-> read'[c]] /\ next' = [c \in Channel |-> next'[c]]
    BY <1>6 DEF MixFrames
  <2>2. ASSUME NEW c \in Channel PROVE read'[c] \in Index
    <3>1. read[c] \in Index /\ Consumed(c) \in Index
      BY <1>1, ConsumedIs DEF ChannelsTyped
    <3>2. Advance(read[c], Consumed(c)) \in Index
      BY <3>1, AdvanceIs
    <3> QED BY <1>6, <3>2, FramesAre
  <2>3. ASSUME NEW c \in Channel PROVE next'[c] \in 0 .. Length
    <3>1. /\ next[c] + Consumed(c) \in Nat
          /\ ~sound[c].loop => next[c] + Consumed(c) <= pos[c]
      BY <1>1, PlayedFits
    <3>2. pos[c] \in 0 .. Length
      BY <1>1 DEF ChannelsTyped
    <3>3. next'[c] = Position(sound[c], next[c] + Consumed(c))
      BY <1>6, FramesAre
    <3>4. PICK m \in Nat : m = next[c] + Consumed(c)
      BY <3>1
    <3>5. sound[c].loop => Position(sound[c], m) \in 0 .. Length - 1
      BY PositionIs
    <3>6. ~sound[c].loop => Position(sound[c], m) = m /\ m \in 0 .. Length
      BY <3>1, <3>2, <3>4, Sizes DEF Position
    <3> HIDE DEF Position, Consumed
    <3> QED BY <3>3, <3>4, <3>5, <3>6, Sizes
  <2> QED BY <1>1, <2>1, <2>2, <2>3 DEF ChannelsTyped, ringVars
<1>7. ASSUME NEW q \in Reader, Wake(q) \/ EndPass(q) PROVE Good
  <2>1. CASE CloseOwned(q)
    BY <1>1, <1>2, <2>1 DEF CloseOwned, ChannelsTyped
  <2>2. CASE ~CloseOwned(q)
    BY <1>3, <1>7, <2>2 DEF Wake, EndPass, AllSounds, ringVars, playVars
  <2> QED BY <2>1, <2>2
<1>8. ASSUME NEW q \in Reader, Pick(q) PROVE Good
  BY <1>3, <1>8 DEF Pick, AllSounds, ringVars, playVars
<1>9. ASSUME NEW q \in Reader, ReadIntoRing(q) PROVE Good
  <2>1. PICK c \in Channel : c = Refill(q).ch
    BY <1>1, <1>9, WorkIs, RefillNow DEF Works
  <2>2. PICK got \in ReadFromFile(c, sound[c], pos[c], Refill(q).n) :
           /\ got.got \in Index /\ got.eof \in BOOLEAN /\ got.failed \in BOOLEAN
           /\ ~sound[c].loop => pos[c] + got.got <= Length
           /\ ring'[c] = Filled(ring[c], write[c], pos[c], got.got)
           /\ pos'[c] = Position(sound[c], pos[c] + got.got)
           /\ cut'[c] = (cut[c] \/ (got.eof /\ got.failed))
    BY <1>1, <1>9, <2>1, ReadsInto
  <2>3. UNCHANGED <<sound, write, read, eof, next>>
    BY <1>9 DEF ReadIntoRing, playVars
  <2>4. \E F, p, b : /\ ring' = [ring EXCEPT ![c] = F]
                     /\ pos' = [pos EXCEPT ![c] = p] /\ cut' = [cut EXCEPT ![c] = b]
    <3>1. PICK new \in ReadFromFile(c, sound[c], pos[c], Refill(q).n) :
            /\ ring' = [ring EXCEPT ![c] = Filled(@, write[c], pos[c], new.got)]
            /\ pos' = [pos EXCEPT ![c] = Position(sound[c], @ + new.got)]
            /\ cut' = [cut EXCEPT ![c] = @ \/ (new.eof /\ new.failed)]
      BY <1>9, <2>1 DEF ReadIntoRing
    <3> HIDE DEF Filled, Position, ReadFromFile
    <3> QED BY <3>1
  <2>5. ring'[c] \in [Index -> 0 .. Length - 1]
    <3>1. PICK slots \in [Index -> 0 .. Length - 1], w \in Index, p \in Nat, n \in Index :
            slots = ring[c] /\ w = write[c] /\ p = pos[c] /\ n = got.got
      <4>1. ring[c] \in [Index -> 0 .. Length - 1] /\ write[c] \in Index /\ pos[c] \in 0 .. Length
        BY <1>1 DEF ChannelsTyped
      <4> QED BY <2>2, <4>1
    <3>2. Filled(slots, w, p, n) \in [Index -> 0 .. Length - 1]
      BY FilledIs
    <3> QED BY <2>2, <3>1, <3>2
  <2>6. pos'[c] \in 0 .. Length
    <3>1. PICK n \in Nat : n = pos[c] + got.got
      <4>1. pos[c] \in 0 .. Length /\ got.got \in Nat
        BY <1>1, <2>2, Sizes DEF ChannelsTyped, Index
      <4> QED BY <4>1
    <3>2. sound[c].loop => Position(sound[c], n) \in 0 .. Length - 1
      BY PositionIs
    <3>3. ~sound[c].loop => Position(sound[c], n) = n /\ n \in 0 .. Length
      BY <2>2, <3>1, Sizes DEF Position
    <3> HIDE DEF Position
    <3> QED BY <2>2, <3>1, <3>2, <3>3, Sizes
  <2>7. cut'[c] \in BOOLEAN
    BY <1>1, <2>2 DEF ChannelsTyped
  <2> QED BY <1>1, <2>3, <2>4, <2>5, <2>6, <2>7 DEF ChannelsTyped
<1>10. ASSUME NEW q \in Reader, PublishIndex(q) PROVE Good
  <2>1. PICK c \in Channel : c = Refill(q).ch
    BY <1>1, <1>10, WorkIs, RefillNow DEF Works
  <2>2. Refill(q).n \in Index
    BY <1>1, <1>10, WorkIs, RefillNow DEF Works
  <2>3. Advance(write[c], Refill(q).n) \in Index
    <3>1. write[c] \in Index
      BY <1>1 DEF ChannelsTyped
    <3> QED BY <2>2, <3>1, AdvanceIs
  <2>4. /\ write' = [write EXCEPT ![c] = Advance(@, Refill(q).n)]
        /\ UNCHANGED <<sound, ring, read, eof, pos, cut, next>>
    BY <1>10, <2>1 DEF PublishIndex, playVars
  <2> QED BY <1>1, <2>3, <2>4 DEF ChannelsTyped
<1>11. ASSUME NEW q \in Reader, MarkEnd(q) PROVE Good
  BY <1>1, <1>11 DEF MarkEnd, ChannelsTyped, playVars
<1> QED BY <1>4, <1>5, <1>6, <1>7, <1>8, <1>9, <1>10, <1>11, Kinds DEF Works

\* The types hold after each step, given the account of the rings.
LEMMA TypeStep ==
  ASSUME TypeOK, LocalsTyped, RefillInv, RingInv, SnapInv, CycleInv, GroupInv, [Next]_vars
  PROVE  TypeOK' /\ LocalsTyped'
<1> DEFINE Rest ==
      /\ state \in [Channel -> {"Idle", "Ready", "Active", "Stopping", "Closing"}]
      /\ group \in [Channel -> SUBSET Channel] /\ committed \in SUBSET SUBSET Channel
      /\ mpc \in {"start", "begin", "index", "notify"} /\ mixed \in SUBSET Channel
      /\ rpc \in [Reader -> {"wait", "pick", "read", "publish", "mark"}]
      /\ task \in [Task -> {"none", "alive", "exited"}] /\ stopSent \in SUBSET Reader
      /\ served \in [Reader -> SUBSET Channel] /\ exhausted \in [Reader -> SUBSET Channel]
      /\ running \in BOOLEAN /\ destroying \in BOOLEAN /\ late \in BOOLEAN
<1>1. Rest
  BY DEF TypeOK, LocalsTyped
<1>2. ASSUME Rest' PROVE TypeOK' /\ LocalsTyped'
  <2>1. TypeOK'
    BY <1>2, ChannelsStep DEF TypeOK, Index
  <2>2. LocalsTyped'
    BY <1>2, SnapsTyped, RefillsTyped DEF LocalsTyped
  <2> QED BY <2>1, <2>2
<1>3. ASSUME NEW s \in Sounds, Prepare(s) PROVE Rest'
  <2>1. PICK c \in Channel :
           /\ group' = [group EXCEPT ![c] = {}] /\ state' = [state EXCEPT ![c] = "Ready"]
           /\ UNCHANGED <<committed, mixVars, readVars, taskVars>>
    BY <1>3, Prepares, TypesOfChannels
  <2> QED BY <1>1, <2>1 DEF mixVars, readVars, taskVars, mainVars
<1>4. ASSUME NEW members \in SUBSET Channel, StartGroup(members) PROVE Rest'
  BY <1>1, <1>4 DEF StartGroup, mixVars, readVars, taskVars, mainVars
<1>5. ASSUME NEW c \in Channel, Stop(c) PROVE Rest'
  BY <1>1, <1>5 DEF Stop, mixVars, readVars, taskVars, mainVars
<1>6. ASSUME MixStart PROVE Rest'
  <2>1. ASSUME NEW c \in Channel, c \in UNION committed
        PROVE  (CHOOSE g \in committed : c \in g) \in SUBSET Channel
    <3>1. \E g \in committed : c \in g
      BY <2>1
    <3>2. (CHOOSE g \in committed : c \in g) \in committed
      BY <3>1
    <3> QED BY <1>1, <3>2
  <2>2. ASSUME NEW c \in Channel PROVE group'[c] \in SUBSET Channel
    BY <1>1, <1>6, <2>1 DEF MixStart
  <2>3. group' = [c \in Channel |-> group'[c]]
    BY <1>6 DEF MixStart
  <2>4. group' \in [Channel -> SUBSET Channel]
    BY <2>2, <2>3
  <2> QED BY <1>1, <1>6, <2>4 DEF MixStart, readVars, taskVars, mainVars
<1>7. ASSUME MixBegin PROVE Rest'
  <2>1. UNCHANGED <<state, committed, mixed, readVars, taskVars>> /\ mpc' = "index"
        /\ \E c : group' = IF state[c] = "Stopping" THEN [group EXCEPT ![c] = {}] ELSE group
    BY <1>7 DEF MixBegin
  <2> QED BY <1>1, <2>1 DEF readVars, taskVars, mainVars
<1>8. ASSUME MixIndex PROVE Rest'
  BY <1>1, <1>8 DEF MixIndex, readVars, taskVars, mainVars
<1>9. ASSUME MixFrames PROVE Rest'
  <2>1. ASSUME NEW c \in Channel
        PROVE  /\ state'[c] = IF Done(c) THEN "Closing" ELSE state[c]
               /\ group'[c] = IF c \in InCycle /\ Cardinality(Members(c)) < 2 THEN {} ELSE group[c]
    BY <1>9, FramesAre
  <2>2. state' = [c \in Channel |-> state'[c]] /\ group' = [c \in Channel |-> group'[c]]
        /\ mpc' = "notify" /\ UNCHANGED <<committed, mixed, readVars, taskVars>>
    BY <1>9 DEF MixFrames
  <2>3. \A c \in Channel :
          /\ state'[c] \in {"Idle", "Ready", "Active", "Stopping", "Closing"}
          /\ group'[c] \in SUBSET Channel
    BY <1>1, <2>1
  <2> QED BY <1>1, <2>2, <2>3 DEF readVars, taskVars, mainVars
<1>10. ASSUME MixNotify \/ MixExit PROVE Rest'
  BY <1>1, <1>10 DEF MixNotify, MixExit, mixVars, readVars, taskVars, mainVars, Task, Reader
<1>11. ASSUME NEW r \in Reader, Wake(r) \/ EndPass(r) PROVE Rest'
  <2>1. CloseOwned(r) \/ UNCHANGED <<state, group, committed>>
    BY <1>11 DEF Wake, EndPass
  <2>2. state' \in [Channel -> {"Idle", "Ready", "Active", "Stopping", "Closing"}]
        /\ group' \in [Channel -> SUBSET Channel] /\ committed' \in SUBSET SUBSET Channel
    BY <1>1, <2>1 DEF CloseOwned
  <2> QED BY <1>1, <1>11, <2>2 DEF Wake, EndPass, mixVars, taskVars, mainVars
<1>12. ASSUME NEW r \in Reader, Pick(r) PROVE Rest'
  BY <1>1, <1>12 DEF Pick, mixVars, taskVars, mainVars
<1>13. ASSUME NEW r \in Reader, ReadIntoRing(r) PROVE Rest'
  <2>1. /\ rpc' = [rpc EXCEPT ![r] = "publish"]
        /\ UNCHANGED <<state, group, committed, mixVars, served, exhausted, taskVars>>
    BY <1>13 DEF ReadIntoRing
  <2> QED BY <1>1, <2>1 DEF mixVars, taskVars, mainVars
<1>14. ASSUME NEW r \in Reader, PublishIndex(r) \/ MarkEnd(r) PROVE Rest'
  <2>1. Refill(r).ch \in Channel
    BY <1>14, TypesOfChannels, WorkIs, RefillNow DEF Works
  <2>2. /\ rpc' = [rpc EXCEPT ![r] = "mark"] \/ rpc' = [rpc EXCEPT ![r] = "pick"]
        /\ served' = served \/ served' = [served EXCEPT ![r] = @ \cup {Refill(r).ch}]
        /\ exhausted' = exhausted \/ exhausted' = [exhausted EXCEPT ![r] = @ \cup {Refill(r).ch}]
        /\ UNCHANGED <<state, group, committed, mixVars, taskVars>>
    BY <1>14 DEF PublishIndex, MarkEnd, Refilled
  <2> QED BY <1>1, <2>1, <2>2 DEF mixVars, taskVars, mainVars
<1>15. ASSUME NEW r \in Reader, ReaderExit(r) PROVE Rest'
  BY <1>1, <1>15 DEF ReaderExit, mixVars, readVars, mainVars, Task
<1>16. ASSUME Start \/ SpawnTask \/ Destroy \/ StopTask PROVE Rest'
  <2>1. UNCHANGED streamVars
    BY <1>16 DEF Start, SpawnTask, Spawn, Destroy, StopTask, JoinMixer, AskReader, JoinReader
  <2>2. /\ task' \in [Task -> {"none", "alive", "exited"}] /\ stopSent' \in SUBSET Reader
        /\ running' \in BOOLEAN /\ destroying' \in BOOLEAN /\ late' \in BOOLEAN
    <3>1. CASE Start \/ Destroy
      BY <1>1, <3>1 DEF Start, Destroy, StopTasks
    <3>2. CASE SpawnTask
      BY <1>1, <3>2 DEF SpawnTask, Spawn, StopTasks, Task, Reader
    <3>3. CASE StopTask
      BY <1>1, <3>3 DEF StopTask, JoinMixer, AskReader, JoinReader, Task, Reader
    <3> QED BY <1>16, <3>1, <3>2, <3>3
  <2> QED BY <1>1, <2>1, <2>2 DEF streamVars, mixVars, readVars
<1>17. ASSUME UNCHANGED vars PROVE Rest'
  BY <1>1, <1>17 DEF vars, mixVars, readVars, taskVars, mainVars
<1> HIDE DEF Rest
<1> QED
  BY <1>2, <1>3, <1>4, <1>5, <1>6, <1>7, <1>8, <1>9, <1>10, <1>11, <1>12, <1>13, <1>14, <1>15,
     <1>16, <1>17
  DEF Next, Call, Mixer, ReaderStep

-----------------------------------------------------------------------------
(* The cycle of the mixer.                                                 *)

\* The steps of others than the mixer leave its cycle alone, and the channels that play.
LEMMA OutsideCycle ==
  ASSUME ChannelsTyped, LocalsTyped, RefillInv, [Next]_vars, ~Mixer
  PROVE  UNCHANGED mixVars /\ \A c \in Channel : Mixing(c)' <=> Mixing(c)
<1>1. CASE UNCHANGED <<state, mixVars>>
  BY <1>1 DEF Mixing
<1>2. ASSUME NEW s \in Sounds, Prepare(s)
      PROVE  UNCHANGED mixVars /\ \A c \in Channel : Mixing(c)' <=> Mixing(c)
  <2>1. PICK c \in Channel :
           /\ state[c] = "Idle" /\ state' = [state EXCEPT ![c] = "Ready"]
           /\ UNCHANGED <<committed, mixVars, readVars, taskVars>>
    BY <1>2, Prepares
  <2> QED BY <2>1 DEF Mixing, ChannelsTyped
<1>3. ASSUME NEW members \in SUBSET Channel, StartGroup(members) PROVE UNCHANGED <<state, mixVars>>
  BY <1>3 DEF StartGroup
<1>4. ASSUME NEW c \in Channel, Stop(c)
      PROVE  UNCHANGED mixVars /\ \A d \in Channel : Mixing(d)' <=> Mixing(d)
  BY <1>4 DEF Stop, Mixing, ChannelsTyped
<1>5. ASSUME NEW r \in Reader, Wake(r) \/ EndPass(r)
      PROVE  UNCHANGED mixVars /\ \A c \in Channel : Mixing(c)' <=> Mixing(c)
  <2>1. UNCHANGED mixVars /\ (CloseOwned(r) \/ UNCHANGED state)
    BY <1>5 DEF Wake, EndPass
  <2>2. ASSUME NEW c \in Channel, CloseOwned(r) PROVE Mixing(c)' <=> Mixing(c)
    BY <2>2, CloseIs DEF Closing, Mixing
  <2> QED BY <2>1, <2>2 DEF Mixing
<1>6. ASSUME NEW r \in Reader, Pick(r) \/ Works(r) \/ ReaderExit(r) PROVE UNCHANGED <<state, mixVars>>
  BY <1>6 DEF Pick, Works, ReadIntoRing, PublishIndex, MarkEnd, ReaderExit
<1>7. CASE Start \/ SpawnTask \/ Destroy \/ StopTask
  <2>1. UNCHANGED streamVars
    BY <1>7 DEF Start, SpawnTask, Spawn, Destroy, StopTask, JoinMixer, AskReader, JoinReader
  <2> QED BY <1>1, <2>1 DEF streamVars
<1>8. CASE UNCHANGED vars
  BY <1>1, <1>8 DEF vars, mixVars
<1> QED BY <1>1, <1>2, <1>3, <1>4, <1>5, <1>6, <1>7, <1>8 DEF Next, Call, ReaderStep, Works

\* A cycle works on its snapshot from its first look to its notification.
LEMMA CycleStep ==
  ASSUME TypeOK, LocalsTyped, RefillInv, CycleInv, [Next]_vars
  PROVE  CycleInv'
<1>1. ChannelsTyped /\ mpc \in {"start", "begin", "index", "notify"} /\ mixed \in SUBSET Channel
  BY TypesOfChannels DEF TypeOK
<1>2. CASE ~Mixer
  <2>1. UNCHANGED <<mpc, mixed, snap>> /\ \A c \in Channel : Mixing(c)' <=> Mixing(c)
    BY <1>1, <1>2, OutsideCycle DEF mixVars
  <2>2. {c \in Channel : Mixing(c)}' = {c \in Channel : Mixing(c)} /\ InCycle' = InCycle
        /\ Min(mixed)' = Min(mixed)
    BY <2>1 DEF InCycle
  <2> QED BY <2>1, <2>2 DEF CycleInv
<1>3. CASE MixStart
  <2>1. /\ mpc = "start" /\ mpc' = "begin" /\ snap' = snap
        /\ mixed' = {c \in Channel : Mixing(c)'}
    BY <1>3 DEF MixStart, Mixing
  <2> QED BY <2>1 DEF CycleInv, InCycle
<1>4. CASE MixBegin
  <2>1. PICK c \in mixed :
           /\ c = Min(mixed) /\ c \in Channel /\ mpc = "begin" /\ mpc' = "index"
           /\ snap'[c] = {Snap(c)'}
           /\ \A d \in Channel : d # c => snap'[d] = snap[d] /\ Snap(d)' = Snap(d)
           /\ UNCHANGED <<state, mixed>>
    BY <1>4, BeginIs
  <2>2. InCycle' = InCycle \cup {c} /\ Min(mixed)' = c
        /\ {d \in Channel : Mixing(d)}' = {d \in Channel : Mixing(d)}
    BY <2>1 DEF InCycle, Mixing
  <2> QED BY <2>1, <2>2 DEF CycleInv
<1>5. CASE MixIndex
  <2>1. PICK c \in mixed :
           /\ c \in InCycle /\ mpc = "index" /\ mpc' = "begin" /\ snap'[c] = {Snap(c)'}
           /\ \A d \in Channel : d # c => snap'[d] = snap[d] /\ Snap(d)' = Snap(d)
           /\ mixed' = mixed \ {c} /\ UNCHANGED state
    BY <1>5, IndexIs
  <2>2. InCycle' = InCycle /\ {d \in Channel : Mixing(d)}' = {d \in Channel : Mixing(d)}
    BY <2>1 DEF InCycle, Mixing
  <2> QED BY <2>1, <2>2 DEF CycleInv
<1>6. CASE MixFrames
  <2>1. mpc' = "notify" /\ mixed = {} /\ mixed' = mixed /\ snap' = [c \in Channel |-> {}]
    BY <1>6 DEF MixFrames
  <2> QED BY <2>1 DEF CycleInv, InCycle
<1>7. CASE MixNotify \/ MixExit
  <2>1. mpc \in {"start", "notify"} /\ mpc' = "start" /\ UNCHANGED <<mixed, snap>>
    BY <1>7 DEF MixNotify, MixExit, mixVars
  <2> QED BY <2>1 DEF CycleInv, InCycle
<1> QED BY <1>2, <1>3, <1>4, <1>5, <1>6, <1>7 DEF Mixer

\* What a snapshot says of a channel stands while the channel is left alone,
LEMMA SnapKept ==
  ASSUME NEW c \in Channel, SnapOf(c), snap'[c] = snap[c], UNCHANGED <<mpc, mixed>>,
         UNCHANGED <<write[c], read[c], eof[c]>>, state[c] = "Stopping" => state'[c] = "Stopping",
         group'[c] \in {group[c], {}}
  PROVE  SnapOf(c)'
<1>1. Snap(c)' = Snap(c) /\ Min(mixed)' = Min(mixed)
  BY DEF Snap
<1> QED BY <1>1 DEF SnapOf

\* and while others work on it: readers only add samples, and an end mark only after them.
LEMMA SnapStep ==
  ASSUME TypeOK, LocalsTyped, RefillInv, SnapInv, CycleInv, GroupInv, [Next]_vars
  PROVE  SnapInv'
<1>1. ChannelsTyped /\ mpc \in {"start", "begin", "index", "notify"} /\ mixed \in SUBSET Channel
  BY TypesOfChannels DEF TypeOK
<1>2. \A c \in InCycle : c \in Channel /\ Mixing(c) /\ SnapOf(c)
  BY <1>1 DEF CycleInv, SnapInv, InCycle
<1>3. ASSUME UNCHANGED <<mpc, mixed, snap>>,
             \A c \in InCycle : /\ UNCHANGED <<write[c], read[c], eof[c]>>
                                /\ state[c] = "Stopping" => state'[c] = "Stopping"
                                /\ group'[c] \in {group[c], {}}
      PROVE  SnapInv'
  <2>1. InCycle' = InCycle
    BY <1>3 DEF InCycle
  <2>2. ASSUME NEW c \in InCycle PROVE SnapOf(c)'
    BY <1>2, <1>3, SnapKept
  <2>3. \A c \in InCycle : SnapOf(c)'
    BY <2>2
  <2> QED BY <2>1, <2>3 DEF SnapInv
<1>4. CASE MixStart
  <2>1. InCycle' = {}
    BY <1>4 DEF MixStart, CycleInv, InCycle
  <2> QED BY <2>1 DEF SnapInv
<1>5. CASE MixBegin
  <2>1. PICK c \in mixed :
           /\ c = Min(mixed) /\ c \in Channel /\ mpc = "begin" /\ mpc' = "index"
           /\ snap'[c] = {Snap(c)'} /\ Snap(c)' \in SnapType
           /\ Snap(c)'.stopping = (state[c] = "Stopping")
           /\ Snap(c)'.eof = eof[c] /\ Snap(c)'.write = read[c]
           /\ \A d \in Channel : d # c => snap'[d] = snap[d] /\ Snap(d)' = Snap(d)
           /\ \A d \in Channel :
                group'[d] = IF d = c /\ state[c] = "Stopping" THEN {} ELSE group[d]
           /\ UNCHANGED <<state, mixed, ringVars, playVars>>
    BY <1>5, BeginIs
  <2>2. UNCHANGED <<write, read, eof>> /\ Min(mixed)' = c
    BY <2>1 DEF ringVars, playVars
  <2>3. Available(read[c], read[c]) <= Available(write[c], read[c])
    <3>1. PICK w \in Index, i \in Index : w = write[c] /\ i = read[c]
      BY <1>1, <2>1 DEF ChannelsTyped
    <3>2. Available(i, i) = IF i >= i THEN i - i ELSE i - i + N
      BY AvailableIs
    <3>3. Available(i, i) = 0
      BY <3>2, Sizes DEF Index
    <3>4. PICK u \in Index : u = Available(w, i)
      BY AvailableIs
    <3>5. 0 <= u
      BY Sizes DEF Index
    <3> QED BY <3>1, <3>3, <3>4, <3>5
  <2>4. SnapOf(c)'
    BY <2>1, <2>2, <2>3 DEF SnapOf
  <2>5. ASSUME NEW d \in InCycle, d # c PROVE SnapOf(d)'
    BY <1>2, <2>1, <2>2, <2>5 DEF SnapOf
  <2>6. InCycle' \subseteq InCycle \cup {c}
    BY <2>1 DEF InCycle
  <2> QED BY <2>4, <2>5, <2>6 DEF SnapInv
<1>6. CASE MixIndex
  <2>1. PICK c \in mixed :
           /\ c = Min(mixed) /\ c \in Channel /\ c \in InCycle /\ mpc = "index" /\ mpc' = "begin"
           /\ snap'[c] = {Snap(c)'} /\ Snap(c)'.stopping = Snap(c).stopping
           /\ Snap(c)'.eof = Snap(c).eof /\ Snap(c)'.write = write[c]
           /\ \A d \in Channel : d # c => snap'[d] = snap[d] /\ Snap(d)' = Snap(d)
           /\ UNCHANGED <<state, group, ringVars, playVars>>
    BY <1>6, IndexIs
  <2>2. UNCHANGED <<write, read, eof>>
    BY <2>1 DEF ringVars, playVars
  <2>3. SnapOf(c)'
    <3>1. Available(write[c], read[c]) <= Available(write[c], read[c])
      <4>1. PICK w \in Index, i \in Index : w = write[c] /\ i = read[c]
        BY <1>1, <2>1 DEF ChannelsTyped
      <4>2. PICK u \in Index : u = Available(w, i)
        BY AvailableIs
      <4>3. u <= u
        BY Sizes DEF Index
      <4> QED BY <4>1, <4>2, <4>3
    <3> HIDE DEF Available
    <3> QED BY <1>2, <2>1, <2>2, <3>1 DEF SnapOf
  <2>4. ASSUME NEW d \in InCycle, d # c PROVE SnapOf(d)'
    BY <1>2, <2>1, <2>2, <2>4 DEF SnapOf
  <2>5. InCycle' \subseteq InCycle
    BY <2>1 DEF InCycle
  <2> QED BY <2>3, <2>4, <2>5 DEF SnapInv
<1>7. CASE MixFrames
  BY <1>7 DEF MixFrames, SnapInv, InCycle
<1>8. CASE MixNotify \/ MixExit
  <2>1. InCycle' = {}
    BY <1>8 DEF MixNotify, MixExit, mixVars, CycleInv, InCycle
  <2> QED BY <2>1 DEF SnapInv
<1>9. ASSUME ~Mixer, Quiet PROVE SnapInv'
  <2>1. UNCHANGED <<mpc, mixed, snap>>
    BY <1>1, <1>9, OutsideCycle DEF mixVars
  <2>2. ASSUME NEW c \in InCycle
        PROVE  /\ state[c] = "Stopping" => state'[c] = "Stopping"
               /\ group' = group
    <3>1. CASE UNCHANGED <<state, group>>
      BY <3>1
    <3>2. ASSUME NEW d \in Channel, Stop(d)
          PROVE  group' = group /\ (state[c] = "Stopping" => state'[c] = "Stopping")
      BY <1>1, <1>2, <3>2 DEF Stop, ChannelsTyped
    <3>3. CASE Start \/ SpawnTask \/ Destroy \/ StopTask
      <4>1. UNCHANGED streamVars
        BY <3>3 DEF Start, SpawnTask, Spawn, Destroy, StopTask, JoinMixer, AskReader, JoinReader
      <4> QED BY <3>1, <4>1 DEF streamVars
    <3> QED BY <1>9, <3>1, <3>2, <3>3 DEF Quiet, StartGroup, ReaderExit, vars, Mixer
  <2>3. ASSUME NEW c \in InCycle PROVE UNCHANGED <<write[c], read[c], eof[c]>>
    BY <1>1, <1>2, <1>9, QuietIs DEF AllSounds
  <2> QED BY <1>3, <2>1, <2>2, <2>3
<1>10. ASSUME NEW s \in Sounds, Prepare(s) PROVE SnapInv'
  <2>1. PICK d \in Channel, got \in ReadResult :
           /\ state[d] = "Idle" /\ got.got \in Index /\ got.eof \in BOOLEAN
           /\ pos' = [pos EXCEPT ![d] = Position(s, got.got)]
           /\ write' = [write EXCEPT ![d] = got.got] /\ read' = [read EXCEPT ![d] = 0]
           /\ eof' = [eof EXCEPT ![d] = got.eof]
           /\ group' = [group EXCEPT ![d] = {}] /\ state' = [state EXCEPT ![d] = "Ready"]
           /\ UNCHANGED mixVars
    BY <1>1, <1>10, Prepares
  <2>2. \A c \in InCycle : c # d
    BY <1>2, <2>1 DEF Mixing
  <2>3. \A c \in InCycle : UNCHANGED <<write[c], read[c], eof[c], state[c], group[c]>>
    BY <1>1, <1>2, <2>1, <2>2 DEF ChannelsTyped
  <2> QED BY <1>3, <2>1, <2>3 DEF mixVars
<1>11. ASSUME NEW r \in Reader, Wake(r) \/ EndPass(r) PROVE SnapInv'
  <2>1. UNCHANGED mixVars /\ (CloseOwned(r) \/ UNCHANGED <<state, group, ringVars, playVars>>)
    BY <1>11 DEF Wake, EndPass
  <2>2. ASSUME NEW c \in InCycle PROVE UNCHANGED <<write[c], read[c], eof[c], state[c], group[c]>>
    BY <1>2, <2>1, CloseIs DEF Closing, Mixing, SoundOf, ringVars, playVars
  <2> QED BY <1>3, <2>1, <2>2 DEF mixVars
<1>12. ASSUME NEW r \in Reader, Pick(r) PROVE SnapInv'
  BY <1>3, <1>12 DEF Pick, ringVars, playVars, mixVars
<1>13. ASSUME NEW r \in Reader, Works(r) PROVE SnapInv'
  <2>1. /\ Refilling(r) /\ UNCHANGED <<state, sound, group, playVars>>
        /\ \A c \in Channel : c # Refill(r).ch => UNCHANGED SoundOf(c)
    BY <1>1, <1>13, WorkIs
  <2>2. UNCHANGED <<mpc, mixed, snap, read, state, group>>
    BY <1>13, <2>1 DEF Works, ReadIntoRing, PublishIndex, MarkEnd, mixVars, playVars
  <2>3. PICK c \in Channel : c = Refill(r).ch
    BY <2>1, RefillNow
  <2>4. Refill(r).n \in Index /\ ~eof[c]
        /\ (rpc[r] = "publish" => Available(write[c], read[c]) + Refill(r).n <= N - 1)
    BY <2>1, <2>3, RefillNow DEF RefillOf
  <2>5. InCycle' = InCycle
    BY <2>2 DEF InCycle
  <2>6. ASSUME NEW d \in InCycle, d # c PROVE SnapOf(d)'
    BY <1>2, <2>1, <2>2, <2>3, <2>6, SnapKept DEF SoundOf
  <2>7. ASSUME c \in InCycle PROVE SnapOf(c)'
    <3>1. SnapOf(c) /\ ~Snap(c).eof
      BY <1>2, <2>4, <2>7 DEF SnapOf
    <3>2. Snap(c)' = Snap(c)
      BY <2>2 DEF Snap
    <3>3. Available(Snap(c).write, read[c]) <= Available(write'[c], read[c])
      <4>1. CASE write'[c] = write[c]
        BY <3>1, <4>1 DEF SnapOf
      <4>2. CASE PublishIndex(r)
        <5>1. PICK k \in Index, w \in Index, i \in Index :
                k = Refill(r).n /\ w = write[c] /\ i = read[c]
          BY <1>1, <2>4 DEF ChannelsTyped
        <5>2. write'[c] = Advance(w, k) /\ Available(w, i) + k <= N - 1
          BY <1>1, <2>3, <2>4, <4>2, <5>1, Publishes
        <5>3. Available(Advance(w, k), i) = Available(w, i) + k
          BY <5>2, PublishedSamples
        <5>4. PICK u \in Index : u = Available(w, i)
          BY AvailableIs
        <5>5. PICK b \in Index : b = Available(Snap(c).write, i)
          <6>1. Snap(c).write \in Index
            BY <2>7 DEF LocalsTyped, InCycle, SnapType
          <6> QED BY <6>1, AvailableIs
        <5>6. b <= u
          BY <3>1, <5>1, <5>4, <5>5 DEF SnapOf
        <5>7. b <= u + k
          BY <5>6, Sizes DEF Index
        <5> QED BY <5>1, <5>2, <5>3, <5>4, <5>5, <5>7
      <4>3. CASE ReadIntoRing(r) \/ MarkEnd(r)
        BY <4>1, <4>3 DEF ReadIntoRing, MarkEnd
      <4> QED BY <1>13, <4>2, <4>3 DEF Works
    <3> QED BY <2>2, <3>1, <3>2, <3>3 DEF SnapOf
  <2> QED BY <2>5, <2>6, <2>7 DEF SnapInv
<1> QED
  BY <1>4, <1>5, <1>6, <1>7, <1>8, <1>9, <1>10, <1>11, <1>12, <1>13, Kinds DEF Mixer

-----------------------------------------------------------------------------
(* The linked groups.                                                      *)

\* Sets of channels are finite.
LEMMA ChannelSets ==
  ASSUME NEW S \in SUBSET Channel
  PROVE  IsFiniteSet(S) /\ Cardinality(S) \in Nat
<1>1. 1 \in Int /\ ChannelCount \in Int
  BY StreamAssumption
<1>2. IsFiniteSet(Channel)
  BY <1>1, FS_Interval DEF Channel
<1>3. IsFiniteSet(S)
  BY <1>2, FS_Subset
<1> QED BY <1>3, FS_CardinalityType

\* A group that has two members without one of them had two before.
LEMMA SmallerGroup ==
  ASSUME NEW S \in SUBSET Channel, NEW c, Cardinality(S \ {c}) > 1
  PROVE  Cardinality(S) > 1
<1>1. IsFiniteSet(S) /\ Cardinality(S) \in Nat /\ S \ {c} \in SUBSET Channel
  BY ChannelSets
<1>2. Cardinality(S \ {c}) \in Nat
  BY <1>1, ChannelSets
<1>3. Cardinality(S \ {c}) <= Cardinality(S)
  BY <1>1, FS_Subset
<1> QED BY <1>1, <1>2, <1>3

\* Members of one group are held together or play a whole cycle each.
LEMMA PlayedAlike ==
  ASSUME TypeOK, LocalsTyped, RingInv, SnapInv, CycleInv, GroupInv, MixFrames,
         NEW c \in Channel, NEW d \in Channel, group'[c] # {}, group'[c] = group'[d]
  PROVE  group[c] = group[d] /\ group[c] # {} /\ Consumed(c) = Consumed(d)
<1>1. ChannelsTyped
  BY TypesOfChannels
<1>2. ASSUME NEW e \in Channel
      PROVE  /\ group'[e] = IF e \in InCycle /\ Cardinality(Members(e)) < 2 THEN {} ELSE group[e]
             /\ mpc = "begin" /\ mixed = {}
  BY FramesAre
<1>3. group[c] = group[d] /\ group[c] # {}
  BY <1>2
<1>4. ASSUME NEW e \in Channel, group[e] # {}
      PROVE  e \in InCycle /\ ~Snap(e).eof /\ ~Snap(e).stopping
  <2>1. Mixing(e) /\ sound[e].loop
    BY <1>4 DEF GroupInv
  <2>2. e \in InCycle
    BY <1>2, <2>1 DEF CycleInv
  <2>3. SnapOf(e) /\ RingOf(e)
    BY <2>2 DEF SnapInv, RingInv
  <2> QED BY <1>4, <2>1, <2>2, <2>3 DEF SnapOf, RingOf, AtEnd
<1>5. Members(c) = Members(d) /\ c \in Members(c) /\ d \in Members(c)
  BY <1>3, <1>4 DEF Members
<1>6. Held(c) <=> Held(d)
  BY <1>3, <1>5 DEF Held
<1>7. CASE Held(c)
  BY <1>3, <1>6, <1>7 DEF Consumed
<1>8. CASE ~Held(c)
  <2>1. Cardinality(Members(c)) > 1
    <3>1. ~(Cardinality(Members(c)) < 2)
      BY <1>2, <1>3, <1>4
    <3>2. Members(c) \in SUBSET Channel
      BY DEF Members, InCycle
    <3> QED BY <3>1, <3>2, ChannelSets
  <2>2. \A e \in Members(c) : ~Snap(e).eof
    BY <1>3, <1>4 DEF Members, InCycle
  <2>3. \A e \in Members(c) : ~(Buffered(e) < Frames)
    BY <1>3, <1>8, <2>1, <2>2 DEF Held
  <2>4. ASSUME NEW e \in Channel, e \in Members(c), ~Held(e), e \in InCycle
        PROVE  Consumed(e) = Frames
    <3>1. Buffered(e) \in Index
      BY <1>1, <2>4, ConsumedIs
    <3>2. Buffered(e) \in Int /\ Frames \in Int /\ ~(Buffered(e) < Frames)
      BY <2>3, <2>4, <3>1, Sizes DEF Index
    <3>3. Min({Buffered(e), Frames}) = IF Buffered(e) <= Frames THEN Buffered(e) ELSE Frames
      BY <3>2, MinOfTwo
    <3>4. Consumed(e) = Min({Buffered(e), Frames})
      BY <2>4 DEF Consumed
    <3> HIDE DEF Buffered, Consumed
    <3> QED BY <3>2, <3>3, <3>4
  <2> QED BY <1>3, <1>4, <1>5, <1>6, <1>8, <2>4
<1> QED BY <1>3, <1>7, <1>8

\* Groups stay aligned under a step that plays nothing of theirs.
LEMMA GroupKept ==
  ASSUME GroupInv, UNCHANGED committed,
         \A g \in committed : \A c \in g \cap Channel : UNCHANGED <<state[c], sound[c]>>,
         committed \in SUBSET SUBSET Channel,
         \A c \in Channel :
           \/ group'[c] = {}
           \/ /\ UNCHANGED <<group[c], next[c], sound[c]>>
              /\ Mixing(c) => Mixing(c)'
  PROVE  GroupInv'
<1>1. \A c \in Channel : group'[c] # {} => c \in group'[c] /\ sound'[c].loop /\ Mixing(c)'
  BY DEF GroupInv
<1>2. \A g \in committed' :
        /\ \A c \in g : state'[c] = "Ready"
        /\ Cardinality(g) > 1 => \A c \in g : sound'[c].loop
  BY DEF GroupInv
<1>3. LinkedAligned'
  BY DEF GroupInv, LinkedAligned
<1> QED BY <1>1, <1>2, <1>3 DEF GroupInv

\* Groups stay aligned under every step: a cycle holds all members or plays all of them alike.
LEMMA GroupStep ==
  ASSUME TypeOK, LocalsTyped, RefillInv, RingInv, SnapInv, CycleInv, GroupInv, [Next]_vars
  PROVE  GroupInv'
<1>1. ChannelsTyped /\ committed \in SUBSET SUBSET Channel
  BY TypesOfChannels DEF TypeOK
<1>2. CASE UNCHANGED <<state, sound, next, committed>> /\ group' = group
  BY <1>1, <1>2, GroupKept DEF Mixing
<1>3. ASSUME NEW s \in Sounds, Prepare(s) PROVE GroupInv'
  <2>1. PICK d \in Channel, got \in ReadResult :
           /\ state[d] = "Idle" /\ got.got \in Index
           /\ pos' = [pos EXCEPT ![d] = Position(s, got.got)]
           /\ next' = [next EXCEPT ![d] = 0] /\ sound' = [sound EXCEPT ![d] = s]
           /\ group' = [group EXCEPT ![d] = {}] /\ state' = [state EXCEPT ![d] = "Ready"]
           /\ UNCHANGED <<committed, mixVars, readVars, taskVars>>
    BY <1>1, <1>3, Prepares
  <2>2. \A g \in committed : \A c \in g : c # d
    BY <2>1 DEF GroupInv
  <2>3. ASSUME NEW c \in Channel, c # d PROVE UNCHANGED <<state[c], sound[c], next[c], group[c]>>
    BY <1>1, <2>1, <2>3 DEF ChannelsTyped
  <2>4. group'[d] = {}
    BY <1>1, <2>1 DEF ChannelsTyped
  <2> QED BY <1>1, <2>1, <2>2, <2>3, <2>4, GroupKept DEF Mixing
<1>4. ASSUME NEW members \in SUBSET Channel, StartGroup(members) PROVE GroupInv'
  <2>1. /\ \A c \in members : state[c] = "Ready"
        /\ Cardinality(members) > 1 => \A c \in members : sound[c].loop
        /\ committed' = committed \cup {members}
        /\ UNCHANGED <<state, sound, group, next>>
    BY <1>4 DEF StartGroup, playVars
  <2>2. \A g \in committed' :
          /\ \A c \in g : state'[c] = "Ready"
          /\ Cardinality(g) > 1 => \A c \in g : sound'[c].loop
    BY <2>1 DEF GroupInv
  <2> QED BY <2>1, <2>2 DEF GroupInv, LinkedAligned, Mixing
<1>5. ASSUME NEW c \in Channel, Stop(c) PROVE GroupInv'
  <2>1. /\ state[c] \in {"Ready", "Active"} /\ state'[c] \in {"Closing", "Stopping"}
        /\ state[c] = "Active" => state'[c] = "Stopping"
        /\ \A d \in Channel : d # c => state'[d] = state[d]
        /\ committed' = {g \ {c} : g \in committed} \ {{}}
        /\ UNCHANGED <<sound, group, next>>
    BY <1>1, <1>5 DEF Stop, ChannelsTyped, playVars
  <2>2. \A d \in Channel : group'[d] # {} => d \in group'[d] /\ sound'[d].loop /\ Mixing(d)'
    BY <2>1 DEF GroupInv, Mixing
  <2>3. ASSUME NEW h \in committed'
        PROVE  /\ \A d \in h : state'[d] = "Ready"
               /\ Cardinality(h) > 1 => \A d \in h : sound'[d].loop
    <3>1. PICK g \in committed : h = g \ {c}
      BY <2>1
    <3>2. g \in SUBSET Channel
      BY <1>1
    <3>3. \A d \in h : state'[d] = "Ready"
      BY <2>1, <3>1, <3>2 DEF GroupInv
    <3>4. Cardinality(h) > 1 => Cardinality(g) > 1
      BY <3>1, <3>2, SmallerGroup
    <3> QED BY <2>1, <3>1, <3>3, <3>4 DEF GroupInv
  <2>4. LinkedAligned'
    BY <2>1 DEF GroupInv, LinkedAligned
  <2> QED BY <2>2, <2>3, <2>4 DEF GroupInv
<1>6. CASE MixStart
  <2> DEFINE armed == UNION committed
             Started(c) == CHOOSE g \in committed : c \in g
  <2>1. ASSUME NEW c \in Channel, c \in armed
        PROVE  /\ Started(c) \in committed /\ c \in Started(c)
               /\ state[c] = "Ready" /\ next[c] = 0
    <3>1. \E g \in committed : c \in g
      BY <2>1
    <3>2. Started(c) \in committed /\ c \in Started(c)
      BY <3>1
    <3>3. state[c] = "Ready"
      BY <3>1 DEF GroupInv
    <3> QED BY <3>2, <3>3 DEF RingInv, RingOf
  <2>2. ASSUME NEW c \in Channel
        PROVE  /\ state'[c] = IF c \in armed THEN "Active" ELSE state[c]
               /\ group'[c] = IF c \in armed
                                THEN IF Cardinality(Started(c)) > 1 THEN Started(c) ELSE {}
                                ELSE group[c]
    BY <1>6 DEF MixStart
  <2>3. committed' = {} /\ UNCHANGED <<sound, next>>
    BY <1>6 DEF MixStart, playVars
  <2> HIDE DEF Started
  <2>4. ASSUME NEW c \in Channel, group'[c] # {}
        PROVE  c \in group'[c] /\ sound'[c].loop /\ Mixing(c)'
    BY <2>1, <2>2, <2>3, <2>4 DEF GroupInv, Mixing
  <2>5. ASSUME NEW c \in Channel, NEW d \in Channel, group'[c] # {}, group'[c] = group'[d]
        PROVE  next'[c] = next'[d]
    <3>1. ASSUME NEW e \in Channel, NEW f \in Channel, e \in armed, f \notin armed,
                 group'[e] = group'[f], group'[e] # {}
          PROVE  FALSE
      <4>1. group[f] = Started(e) /\ group[f] # {}
        BY <2>2, <3>1
      <4>2. f \in Started(e)
        BY <4>1 DEF GroupInv
      <4>3. Started(e) \in committed
        BY <2>1, <3>1
      <4> QED BY <3>1, <4>2, <4>3
    <3>2. CASE c \in armed /\ d \in armed
      BY <2>1, <2>3, <3>2
    <3>3. CASE c \notin armed /\ d \notin armed
      BY <2>2, <2>3, <2>5, <3>3 DEF GroupInv, LinkedAligned
    <3> QED BY <2>5, <3>1, <3>2, <3>3
  <2> QED BY <2>3, <2>4, <2>5 DEF GroupInv, LinkedAligned
<1>7. CASE MixBegin
  <2>1. PICK c \in mixed :
           /\ \A d \in Channel :
                group'[d] = IF d = c /\ state[c] = "Stopping" THEN {} ELSE group[d]
           /\ UNCHANGED <<state, sound, playVars, committed>>
    BY <1>7, BeginIs
  <2> QED BY <1>1, <2>1, GroupKept DEF Mixing, playVars
<1>8. CASE MixIndex \/ MixNotify \/ MixExit
  BY <1>2, <1>8 DEF MixIndex, MixNotify, MixExit, playVars
<1>9. CASE MixFrames
  <2>1. ASSUME NEW c \in Channel
        PROVE  /\ mpc = "begin" /\ mixed = {}
               /\ next'[c] = Position(sound[c], next[c] + Consumed(c))
               /\ state'[c] = IF Done(c) THEN "Closing" ELSE state[c]
               /\ group'[c] \in {group[c], {}} /\ sound'[c] = sound[c]
    BY <1>9, FramesAre
  <2>2. UNCHANGED committed
    BY <1>9 DEF MixFrames
  <2>3. ASSUME NEW c \in Channel, c \notin InCycle \/ group[c] # {} PROVE ~Done(c)
    <3>1. CASE c \notin InCycle
      BY <3>1 DEF Done
    <3>2. CASE c \in InCycle /\ group[c] # {}
      <4>1. sound[c].loop /\ SnapOf(c) /\ RingOf(c)
        BY <3>2 DEF GroupInv, SnapInv, RingInv
      <4>2. ~Snap(c).stopping /\ ~Snap(c).eof
        BY <3>2, <4>1 DEF SnapOf, RingOf, AtEnd
      <4> QED BY <4>2 DEF Done
    <3> QED BY <2>3, <3>1, <3>2
  <2>4. ASSUME NEW c \in Channel, group'[c] # {}
        PROVE  c \in group'[c] /\ sound'[c].loop /\ Mixing(c)'
    <3>1. group'[c] = group[c] /\ state'[c] = state[c]
      BY <2>1, <2>3, <2>4
    <3> QED BY <2>1, <2>4, <3>1 DEF GroupInv, Mixing
  <2>5. ASSUME NEW g \in committed'
        PROVE  /\ \A c \in g : state'[c] = "Ready"
               /\ Cardinality(g) > 1 => \A c \in g : sound'[c].loop
    <3>1. g \in committed /\ g \in SUBSET Channel
      BY <1>1, <2>2
    <3>2. \A c \in g : c \in Channel /\ state[c] = "Ready"
      BY <3>1 DEF GroupInv
    <3>3. \A c \in g : c \notin InCycle
      BY <2>1, <3>2 DEF CycleInv, Mixing
    <3> QED BY <2>1, <2>3, <3>1, <3>2, <3>3 DEF GroupInv
  <2>6. ASSUME NEW c \in Channel, NEW d \in Channel, group'[c] # {}, group'[c] = group'[d]
        PROVE  next'[c] = next'[d]
    <3>1. group[c] = group[d] /\ group[c] # {} /\ Consumed(c) = Consumed(d)
      BY <1>9, <2>6, PlayedAlike
    <3>2. next[c] = next[d] /\ sound[c].loop /\ sound[d].loop
      BY <3>1 DEF GroupInv, LinkedAligned
    <3> QED BY <2>1, <3>1, <3>2 DEF Position
  <2> QED BY <2>4, <2>5, <2>6 DEF GroupInv, LinkedAligned
<1>10. ASSUME NEW r \in Reader, Wake(r) \/ EndPass(r) PROVE GroupInv'
  <2>1. CASE CloseOwned(r)
    <3>1. UNCHANGED committed
      BY <2>1 DEF CloseOwned
    <3>2. ASSUME NEW c \in Channel
          PROVE  \/ group'[c] = {} /\ state[c] = "Closing"
                 \/ UNCHANGED <<state[c], group[c], next[c], sound[c]>>
      BY <2>1, CloseIs DEF Closing, SoundOf
    <3>3. \A g \in committed : \A c \in g : state[c] = "Ready"
      BY DEF GroupInv
    <3> QED BY <1>1, <3>1, <3>2, <3>3, GroupKept DEF Mixing
  <2>2. CASE ~CloseOwned(r)
    BY <1>2, <1>10, <2>2 DEF Wake, EndPass, playVars
  <2> QED BY <2>1, <2>2
<1>11. ASSUME NEW r \in Reader, Pick(r) \/ Works(r) \/ ReaderExit(r) PROVE GroupInv'
  BY <1>2, <1>11 DEF Pick, Works, ReadIntoRing, PublishIndex, MarkEnd, ReaderExit, playVars
<1>12. CASE Start \/ SpawnTask \/ Destroy \/ StopTask
  <2>1. UNCHANGED streamVars
    BY <1>12 DEF Start, SpawnTask, Spawn, Destroy, StopTask, JoinMixer, AskReader, JoinReader
  <2> QED BY <1>2, <2>1 DEF streamVars, playVars
<1>13. CASE UNCHANGED vars
  BY <1>2, <1>13 DEF vars
<1> QED
  BY <1>3, <1>4, <1>5, <1>6, <1>7, <1>8, <1>9, <1>10, <1>11, <1>12, <1>13
  DEF Next, Call, Mixer, ReaderStep, Works

-----------------------------------------------------------------------------
(* The invariant holds.                                                    *)

\* The engine begins with idle channels and no tasks.
LEMMA InitInv == Init => StreamInv
<1> SUFFICES ASSUME Init PROVE StreamInv
  OBVIOUS
<1> USE DEF Init, NewChannels
<1>1. 0 \in Index /\ 0 \in Nat /\ 0 \in 0 .. Length /\ 0 \in 0 .. Length - 1 /\ 0 < Length
      /\ 0 + 0 = 0 /\ Available(0, 0) = 0
  <2>1. 0 \in Index /\ 0 \in Nat /\ 0 \in 0 .. Length /\ 0 \in 0 .. Length - 1 /\ 0 < Length
    BY Sizes DEF Index
  <2> QED BY <2>1, AvailableIs
<1>2. TypeOK
  BY <1>1 DEF TypeOK, Index
<1>3. LocalsTyped
  BY DEF LocalsTyped
<1>4. RefillInv
  BY DEF RefillInv, Refilling
<1>5. ASSUME NEW c \in Channel PROVE RingOf(c)
  <2>1. /\ write[c] = 0 /\ read[c] = 0 /\ next[c] = 0 /\ pos[c] = 0 /\ eof[c] = FALSE
        /\ sound[c] = NoSound /\ state[c] = "Idle"
    OBVIOUS
  <2>2. Loaded(c, 0)
    <3>1. \A i \in Index : ~(i < 0)
      BY Sizes DEF Index
    <3>2. Position(NoSound, 0 + 0) = 0
      BY DEF Position, NoSound
    <3> QED BY <2>1, <3>1, <3>2 DEF Loaded
  <2>3. Counted(c, 0)
    <3>1. \A r \in Reader : ~Filling(r, c)
      BY DEF Filling
    <3> QED BY <1>1, <2>1, <3>1 DEF Counted
  <2> QED BY <1>1, <2>1, <2>2, <2>3 DEF RingOf
<1>6. RingInv
  BY <1>5 DEF RingInv
<1>7. SnapInv /\ CycleInv
  BY DEF SnapInv, CycleInv, InCycle
<1>8. GroupInv
  BY DEF GroupInv, LinkedAligned
<1>9. TasksInv /\ MainPoint
  BY DEF TasksInv, MainPoint, TeardownSafe, Task, Reader
<1> QED BY <1>2, <1>3, <1>4, <1>6, <1>7, <1>8, <1>9 DEF StreamInv

\* The parts of the invariant carry each other over every step,
LEMMA StreamStep == StreamInv /\ [Next]_vars => StreamInv'
BY TypeStep, RefillStep, RingStep, SnapStep, CycleStep, GroupStep, TasksStep DEF StreamInv

\* so it holds in every state.
LEMMA StreamInvAlways == Spec => []StreamInv
BY InitInv, StreamStep, PTL DEF Spec

-----------------------------------------------------------------------------
(* What a listener can rely on.                                            *)

\* Every variable of the stream keeps its type: indices stay inside the ring, positions inside
\* the sound.
THEOREM TypeCorrect == Spec => []TypeOK
<1>1. StreamInv => TypeOK
  BY DEF StreamInv
<1> QED BY <1>1, StreamInvAlways, PTL

\* The samples that wait in a ring are the next ones of its sound, in order, whatever a reader
\* and the mixer are in the middle of.
THEOREM InOrderAlways == Spec => []InOrder
<1>1. StreamInv => InOrder
  <2> SUFFICES ASSUME StreamInv, NEW c \in Channel, NEW i \in 0 .. N - 1,
                      i < Available(write[c], read[c])
               PROVE  ring[c][Advance(read[c], i)] = Sample(next[c] + i)
    BY DEF InOrder
  <2>1. ChannelsTyped /\ LocalsTyped /\ RefillInv /\ RingInv
    BY TypesOfChannels DEF StreamInv
  <2>2. PICK a \in Index :
          /\ Loaded(c, a) /\ Available(write[c], read[c]) \in Index
          /\ Available(write[c], read[c]) <= a
    BY <2>1, Accounted
  <2>3. PICK v \in Index : v = Available(write[c], read[c])
    BY <2>2
  <2>4. i \in Index /\ i < a
    BY <2>2, <2>3, Sizes DEF Index
  <2> QED BY <2>2, <2>4 DEF Loaded
<1> QED BY <1>1, StreamInvAlways, PTL

\* Sounds that were started together and are still linked have played the same number of
\* samples, whatever was short, failed or stopped meanwhile.
THEOREM LinkedAlignedAlways == Spec => []LinkedAligned
<1>1. StreamInv => LinkedAligned
  BY DEF StreamInv, GroupInv
<1> QED BY <1>1, StreamInvAlways, PTL

\* The mixer notifies readers that are alive, and the engine is freed after its last task.
THEOREM TeardownSafeAlways == Spec => []TeardownSafe
<1>1. StreamInv => TeardownSafe
  BY DEF StreamInv, TasksInv
<1> QED BY <1>1, StreamInvAlways, PTL

\* A step of the mixer ends a sound by itself only after its last sample, or after a failure.
EndReached ==
  \A c \in Channel : state[c] = "Active" /\ state'[c] = "Closing" =>
    next'[c] = Length \/ cut[c]

\* Only the mixer's frames end a sound that was not stopped.
LEMMA EndedByFrames ==
  ASSUME StreamInv, [Next]_vars, NEW c \in Channel, state[c] = "Active", state'[c] = "Closing"
  PROVE  MixFrames
<1>1. TypeOK /\ ChannelsTyped /\ LocalsTyped /\ RefillInv /\ GroupInv
  BY TypesOfChannels DEF StreamInv
<1>2. CASE UNCHANGED state
  BY <1>2
<1>3. ASSUME NEW s \in Sounds, Prepare(s) PROVE FALSE
  <2>1. PICK d \in Channel :
           /\ state[d] = "Idle" /\ state' = [state EXCEPT ![d] = "Ready"]
           /\ UNCHANGED <<committed, mixVars, readVars, taskVars>>
    BY <1>1, <1>3, Prepares
  <2> QED BY <1>1, <2>1 DEF ChannelsTyped
<1>4. ASSUME NEW d \in Channel, Stop(d) PROVE FALSE
  BY <1>1, <1>4 DEF Stop, ChannelsTyped
<1>5. CASE MixStart
  BY <1>5 DEF MixStart
<1>6. ASSUME NEW r \in Reader, Wake(r) \/ EndPass(r) PROVE FALSE
  <2>1. CloseOwned(r)
    BY <1>6 DEF Wake, EndPass
  <2> QED BY <2>1, CloseIs
<1>7. ASSUME NEW r \in Reader, Pick(r) \/ Works(r) \/ ReaderExit(r) PROVE UNCHANGED state
  BY <1>7 DEF Pick, Works, ReadIntoRing, PublishIndex, MarkEnd, ReaderExit
<1>8. CASE Start \/ SpawnTask \/ Destroy \/ StopTask
  <2>1. UNCHANGED streamVars
    BY <1>8 DEF Start, SpawnTask, Spawn, Destroy, StopTask, JoinMixer, AskReader, JoinReader
  <2> QED BY <1>2, <2>1 DEF streamVars
<1>9. ASSUME NEW members \in SUBSET Channel, StartGroup(members) PROVE UNCHANGED state
  BY <1>9 DEF StartGroup
<1>10. CASE MixBegin \/ MixIndex \/ MixNotify \/ MixExit \/ UNCHANGED vars
  BY <1>2, <1>10 DEF MixBegin, MixIndex, MixNotify, MixExit, vars
<1> QED
  BY <1>2, <1>3, <1>4, <1>5, <1>6, <1>7, <1>8, <1>9, <1>10 DEF Next, Call, Mixer, ReaderStep, Works

\* A channel that ends by itself has played up to the position its last read reached.
LEMMA EndStep == StreamInv /\ [Next]_vars => [EndReached]_vars
<1> SUFFICES ASSUME StreamInv, [Next]_vars, NEW c \in Channel,
                    state[c] = "Active", state'[c] = "Closing"
             PROVE  next'[c] = Length \/ cut[c]
  BY DEF EndReached
<1>1. TypeOK /\ ChannelsTyped /\ LocalsTyped /\ RefillInv /\ RingInv /\ SnapInv
  BY TypesOfChannels DEF StreamInv
<1>2. MixFrames
  BY EndedByFrames
<1>3. /\ mpc = "begin" /\ Done(c) /\ next'[c] = Position(sound[c], next[c] + Consumed(c))
  BY <1>2, FramesAre
<1>4. c \in InCycle /\ SnapOf(c) /\ RingOf(c)
  BY <1>1, <1>3 DEF Done, SnapInv, RingInv
<1>5. Snap(c).eof /\ Buffered(c) = Consumed(c)
  BY <1>3, <1>4 DEF Done, SnapOf
<1>6. eof[c] /\ Snap(c).write = write[c]
  BY <1>3, <1>4, <1>5 DEF SnapOf
<1>7. ~sound[c].loop /\ (pos[c] = Length \/ cut[c])
  BY <1>4, <1>6 DEF RingOf, AtEnd
<1>8. \A r \in Reader : ~Filling(r, c)
  BY <1>1, <1>6, RefillNow DEF Filling, Refilling, RefillOf
<1>9. PICK a \in Index : Counted(c, a) /\ pos[c] = Position(sound[c], next[c] + a)
  BY <1>1, Accounted
<1>10. a = Consumed(c)
  BY <1>5, <1>6, <1>8, <1>9 DEF Counted, Buffered
<1> QED BY <1>3, <1>7, <1>9, <1>10

\* A sound that nobody stopped is played to its last sample before its channel is given back,
\* unless reading it failed.
THEOREM PlayedToTheEndAlways == Spec => PlayedToTheEnd
<1>1. Spec => [][EndReached]_vars
  BY StreamInvAlways, EndStep, PTL DEF Spec
<1> QED BY <1>1 DEF PlayedToTheEnd, EndReached
=============================================================================
