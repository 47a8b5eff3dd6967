----------------------------- MODULE ConsoleProofs -----------------------------
(***************************************************************************)
(* Proofs about Console, for any number of readers, any size of the buffer *)
(* that divides the range of the indices, and reads of any length.         *)
(***************************************************************************)
EXTENDS Console, SequenceTheorems, TLAPS

-----------------------------------------------------------------------------
(* Remainders.                                                             *)

\* What \div and % mean, for the provers.
LEMMA DivMod ==
  ASSUME NEW a \in Nat, NEW b \in Nat \ {0}
  PROVE  /\ a \div b \in Nat /\ a % b \in 0..(b - 1)
         /\ a = b * (a \div b) + (a % b)
  OBVIOUS

\* The next multiple of b is b further.
LEMMA NextMultiple ==
  ASSUME NEW b \in Nat \ {0}, NEW q \in Int, NEW s \in Int, q < s
  PROVE  b * s >= b * q + b
<1>1. b * (s - q - 1) >= 0
  OBVIOUS
<1>2. b * (s - q - 1) = b * s - b * q - b
  OBVIOUS
<1> QED
  BY <1>1, <1>2

\* The remainder is the only one.
LEMMA ModUnique ==
  ASSUME NEW a \in Nat, NEW b \in Nat \ {0}, NEW q \in Int, NEW x \in 0..(b - 1),
         a = b * q + x
  PROVE  a % b = x
<1> DEFINE s == a \div b
           t == a % b
<1>1. s \in Nat /\ t \in 0..(b - 1) /\ a = b * s + t
  BY Zenon, DivMod
<1> HIDE DEF s, t
<1>2. b * s \in Int /\ b * q \in Int
  BY <1>1
<1>3. CASE s < q
  BY <1>1, <1>2, <1>3, NextMultiple
<1>4. CASE q < s
  BY <1>1, <1>2, <1>4, NextMultiple
<1>5. CASE q = s
  BY <1>1, <1>2, <1>5 DEF t
<1> QED
  BY <1>1, <1>3, <1>4, <1>5

\* A counter that has wrapped around, by a multiple of the size of the ring,
\* still names the same slot.
LEMMA ModWrap ==
  ASSUME NEW a \in Nat, NEW b \in Nat \ {0}, NEW k \in Nat, k % b = 0, a >= k
  PROVE  (a - k) % b = a % b
<1> DEFINE s == a \div b
           t == a % b
           m == k \div b
           d == a - k
           q == s - m
<1>1. s \in Nat /\ t \in 0..(b - 1) /\ a = b * s + t
  BY Zenon, DivMod
<1>2. m \in Nat /\ k = b * m
  BY DivMod
<1>3. d \in Nat /\ q \in Int
  BY <1>1, <1>2
<1>4. d = b * q + t
  <2> HIDE DEF s, t, m
  <2>1. b * (s - m) = b * s - b * m
    BY <1>1, <1>2
  <2> QED
    BY <2>1, <1>1, <1>2
<1> HIDE DEF s, t, m, d, q
<1>5. d % b = t
  BY Zenon, <1>1, <1>3, <1>4, ModUnique
<1> QED
  BY Zenon, <1>5 DEF d, t

\* Counters less than the size of the ring apart name different slots.
LEMMA ModDiffers ==
  ASSUME NEW a \in Nat, NEW c \in Nat, NEW b \in Nat \ {0}, a < c, c < a + b
  PROVE  a % b # c % b
<1> DEFINE s == a \div b
           t == a % b
           u == c \div b
<1> SUFFICES ASSUME c % b = t PROVE FALSE
  BY Zenon
<1>1. s \in Nat /\ t \in 0..(b - 1) /\ a = b * s + t
  BY Zenon, DivMod
<1>2. u \in Nat /\ c = b * u + t
  BY Zenon, DivMod
<1> HIDE DEF s, t, u
<1>3. b * s \in Nat /\ b * u \in Nat
  BY <1>1, <1>2
<1>4. s < u
  <2>1. CASE u = s
    BY <2>1, <1>1, <1>2, <1>3
  <2>2. CASE u < s
    BY <2>2, <1>1, <1>2, <1>3, NextMultiple
  <2> QED
    BY <2>1, <2>2, <1>1, <1>2
<1>5. b * u >= b * s + b
  BY <1>1, <1>2, <1>4, NextMultiple
<1> QED
  BY <1>1, <1>2, <1>3, <1>5

\* Remainders of numbers below twice the divisor.
LEMMA ModOnce ==
  ASSUME NEW a \in Nat, NEW b \in Nat \ {0}, a < b + b
  PROVE  a % b = IF a < b THEN a ELSE a - b
  OBVIOUS

\* A smaller summand.
LEMMA LessAdded ==
  ASSUME NEW a \in Nat, NEW b \in Nat, NEW c \in Nat, NEW d \in Nat, b <= c, a + c < d
  PROVE  a + b < d
  OBVIOUS

-----------------------------------------------------------------------------
(* Sequences.                                                              *)

\* Sequences with the same elements are equal.
LEMMA SameSequence ==
  ASSUME NEW S, NEW s \in Seq(S), NEW t \in Seq(S), Len(s) = Len(t),
         \A i \in 1..Len(s) : s[i] = t[i]
  PROVE  s = t
  OBVIOUS

\* What Append yields.
LEMMA AppendFacts ==
  ASSUME NEW S, NEW s \in Seq(S), NEW x \in S
  PROVE  /\ Append(s, x) \in Seq(S) /\ Len(Append(s, x)) = Len(s) + 1
         /\ \A i \in 1..Len(s) : Append(s, x)[i] = s[i]
         /\ Append(s, x)[Len(s) + 1] = x
  OBVIOUS

\* What concatenation yields.
LEMMA ConcatFacts ==
  ASSUME NEW S, NEW s \in Seq(S), NEW t \in Seq(S)
  PROVE  /\ s \o t \in Seq(S) /\ Len(s \o t) = Len(s) + Len(t)
         /\ \A i \in 1..Len(s) : (s \o t)[i] = s[i]
         /\ \A i \in 1..Len(t) : (s \o t)[Len(s) + i] = t[i]
  OBVIOUS

\* What is left without the last element.
LEMMA FrontFacts ==
  ASSUME NEW S, NEW s \in Seq(S), s # <<>>
  PROVE  /\ SubSeq(s, 1, Len(s) - 1) \in Seq(S) /\ Len(SubSeq(s, 1, Len(s) - 1)) = Len(s) - 1
         /\ \A i \in 1..(Len(s) - 1) : SubSeq(s, 1, Len(s) - 1)[i] = s[i]
<1> DEFINE m == Len(s) - 1
<1>1. m \in Nat /\ m <= Len(s)
  OBVIOUS
<1>2. \A i \in 1..m : s[i] \in S
  BY <1>1
<1> HIDE DEF m
<1>3. /\ SubSeq(s, 1, m) \in Seq(S)
      /\ Len(SubSeq(s, 1, m)) = IF 1 <= m THEN m - 1 + 1 ELSE 0
      /\ \A i \in 1..(m - 1 + 1) : SubSeq(s, 1, m)[i] = s[1 + i - 1]
  BY <1>1, <1>2, SubSeqProperties
<1>4. Len(SubSeq(s, 1, m)) = m
  BY <1>1, <1>3
<1>5. \A i \in 1..m : SubSeq(s, 1, m)[i] = s[i]
  BY <1>1, <1>3
<1> QED
  BY Zenon, <1>3, <1>4, <1>5 DEF m

\* What Tail yields.
LEMMA TailFacts ==
  ASSUME NEW S, NEW s \in Seq(S), s # <<>>
  PROVE  /\ Tail(s) \in Seq(S) /\ Len(Tail(s)) = Len(s) - 1
         /\ \A i \in 1..(Len(s) - 1) : Tail(s)[i] = s[i + 1]
  OBVIOUS

-----------------------------------------------------------------------------
(* The invariant.                                                          *)

\* What can be in the buffer: backspace and ^U are never stored.
Stored == {"x", "nl", "eof"}

\* The way from an index to another one, around the range of the indices.
Dist(a, b) == (b - a) % UINT

\* How much of the buffer is in lines that are finished, and in the line being
\* typed.
Finished == Dist(r, w)
Editing == Dist(w, e)

ConsTypes ==
  /\ r \in 0..(UINT - 1) /\ w \in 0..(UINT - 1) /\ e \in 0..(UINT - 1)
  /\ buf \in [0..(INPUT_BUF_SIZE - 1) -> Stored]
  /\ rpc \in [Readers -> {"idle", "acquire", "loop", "sleep"}]
  /\ killed \in [Readers -> BOOLEAN]
  /\ ic \in Typed /\ rx \in Seq(Typed)

\* The indices keep the order r, w, e around their range, at most a buffer
\* apart; a line that fills the buffer is handed over at once, so that the line
\* being typed never does.
Ordered == Finished + Editing <= INPUT_BUF_SIZE /\ Editing < INPUT_BUF_SIZE

ConsInv == ConsTypes /\ Ordered /\ ReadersServed

-----------------------------------------------------------------------------
(* The indices.                                                            *)

\* The remainder of a number that is off by less than one range.
LEMMA ModAround ==
  ASSUME NEW a \in Int, NEW b \in Nat \ {0}, a < b + b, a >= 0 - b
  PROVE  a % b = IF a < 0 THEN a + b ELSE IF a < b THEN a ELSE a - b
  OBVIOUS

\* Dist, without the remainder.
LEMMA DistIs ==
  ASSUME NEW a \in 0..(UINT - 1), NEW b \in 0..(UINT - 1)
  PROVE  /\ Dist(a, b) \in 0..(UINT - 1)
         /\ Dist(a, b) = IF a <= b THEN b - a ELSE b - a + UINT
<1>1. UINT \in Nat \ {0}
  BY ConsoleAssumption
<1> DEFINE d == b - a
<1>2. d \in Int /\ d < UINT + UINT /\ d >= 0 - UINT
  BY <1>1
<1>3. d % UINT = IF d < 0 THEN d + UINT ELSE IF d < UINT THEN d ELSE d - UINT
  <2> HIDE DEF d
  <2> QED
    BY Zenon, <1>1, <1>2, ModAround
<1> QED
  BY <1>1, <1>3 DEF Dist

\* One more, and one less, with the wrap of an unsigned int.
LEMMA StepIs ==
  ASSUME NEW a \in 0..(UINT - 1)
  PROVE  /\ (a + 1) % UINT = IF a = UINT - 1 THEN 0 ELSE a + 1
         /\ (a - 1) % UINT = IF a = 0 THEN UINT - 1 ELSE a - 1
         /\ (a + 1) % UINT \in 0..(UINT - 1) /\ (a - 1) % UINT \in 0..(UINT - 1)
<1>1. UINT \in Nat \ {0}
  BY ConsoleAssumption
<1> DEFINE u == a + 1
           d == a - 1
<1>2. /\ u \in Int /\ u < UINT + UINT /\ u >= 0 - UINT
      /\ d \in Int /\ d < UINT + UINT /\ d >= 0 - UINT
  BY <1>1
<1>3. /\ u % UINT = IF u < 0 THEN u + UINT ELSE IF u < UINT THEN u ELSE u - UINT
      /\ d % UINT = IF d < 0 THEN d + UINT ELSE IF d < UINT THEN d ELSE d - UINT
  <2> HIDE DEF u, d
  <2> QED
    BY Zenon, <1>1, <1>2, ModAround
<1> QED
  BY <1>1, <1>3

\* What the tests of the code say of the two distances.
LEMMA RoomIs ==
  ASSUME ConsTypes, Ordered
  PROVE  /\ Finished \in Nat /\ Editing \in Nat
         /\ r = w <=> Finished = 0
         /\ e = w <=> Editing = 0
         /\ Room <=> Finished + Editing < INPUT_BUF_SIZE
         /\ Room => (LineDone <=> ic \in Enders \/ Finished + Editing + 1 = INPUT_BUF_SIZE)
<1>1. /\ UINT \in Nat \ {0} /\ INPUT_BUF_SIZE \in Nat /\ INPUT_BUF_SIZE < UINT
      /\ r \in 0..(UINT - 1) /\ w \in 0..(UINT - 1) /\ e \in 0..(UINT - 1)
  BY ConsoleAssumption DEF ConsTypes
<1> DEFINE A == Finished
           B == Editing
           D == Dist(r, e)
<1>2. /\ A \in 0..(UINT - 1) /\ A = IF r <= w THEN w - r ELSE w - r + UINT
      /\ B \in 0..(UINT - 1) /\ B = IF w <= e THEN e - w ELSE e - w + UINT
      /\ D \in 0..(UINT - 1) /\ D = IF r <= e THEN e - r ELSE e - r + UINT
  BY Zenon, <1>1, DistIs DEF Finished, Editing
<1>3. A + B <= INPUT_BUF_SIZE
  BY Zenon DEF Ordered
<1>4. Room <=> D < INPUT_BUF_SIZE
  BY Zenon DEF Room, Dist
<1>5. (e + 1 - r) % UINT = IF D = UINT - 1 THEN 0 ELSE D + 1
  <2> HIDE DEF D
  <2> DEFINE a == e + 1 - r
  <2>1. a \in Int /\ a < UINT + UINT /\ a >= 0 - UINT
    BY <1>1
  <2>2. a % UINT = IF a < 0 THEN a + UINT ELSE IF a < UINT THEN a ELSE a - UINT
    <3> HIDE DEF a
    <3> QED
      BY Zenon, <1>1, <2>1, ModAround
  <2> QED
    BY <1>1, <1>2, <2>2
<1> HIDE DEF A, B, D
<1>6. D = A + B
  BY <1>1, <1>2, <1>3
<1>7. A \in Nat /\ B \in Nat /\ (r = w <=> A = 0) /\ (e = w <=> B = 0)
  BY <1>1, <1>2
<1>8. Room => (LineDone <=> ic \in Enders \/ A + B + 1 = INPUT_BUF_SIZE)
  BY <1>1, <1>4, <1>5, <1>6, <1>7 DEF LineDone
<1> QED
  BY Zenon, <1>4, <1>6, <1>7, <1>8 DEF A, B

\* The same for the state after a step.
RoomExact == Editing \in Nat /\ (Room <=> Finished + Editing < INPUT_BUF_SIZE)
LEMMA RoomLeft == ConsTypes /\ Ordered => RoomExact
  BY Zenon, RoomIs DEF RoomExact

-----------------------------------------------------------------------------
(* Each step preserves the invariant.                                      *)

\* consoleinit() establishes it.
LEMMA ConsInitInv == ConsInit => ConsInv
<1> SUFFICES ASSUME ConsInit PROVE ConsInv
  BY Zenon
<1>1. ConsTypes
  BY ConsoleAssumption DEF ConsInit, ConsTypes, Stored, Typed
<1>2. Finished = 0 /\ Editing = 0
  BY <1>1, DistIs DEF ConsInit, ConsTypes, Finished, Editing
<1>3. Ordered
  BY <1>2, ConsoleAssumption DEF Ordered
<1>4. ReadersServed
  BY Zenon, ConsoleAssumption DEF ConsInit, ReadersServed
<1> QED
  BY Zenon, <1>1, <1>3, <1>4 DEF ConsInv

\* A step that leaves the buffer and its indices alone.
LEMMA SameRing ==
  ASSUME ConsInv, UNCHANGED <<r, w, e, buf>>
  PROVE  Ordered' /\ Room' = Room
  BY Zenon DEF ConsInv, Ordered, Finished, Editing, Dist, Room

\* The steps of a reader that do not touch the buffer, and kill().
LEMMA QuietStep ==
  ASSUME ConsInv, NEW p \in Readers,
         \/ \E m \in 1..MaxRead : BeginRead(p, m)
         \/ AcquireCons(p) \/ ReadWaits(p) \/ ReadDone(p) \/ Kill(p)
  PROVE  ConsInv' /\ UNCHANGED <<r, w, e, buf>>
<1>1. UNCHANGED <<r, w, e, buf>>
  BY Zenon DEF BeginRead, AcquireCons, ReadWaits, ReadDone, Kill, cons
<1>2. Ordered' /\ Room' = Room
  BY Zenon, <1>1, SameRing
<1> USE DEF ConsInv
<1>3. ConsTypes'
  BY Zenon, <1>1 DEF ConsTypes, BeginRead, AcquireCons, ReadWaits, ReadReturns, ReadDone, Kill,
     RGoto, cons
<1>4. ASSUME r = w PROVE Room
  <2>1. Finished = 0 /\ Editing \in Nat
    BY Zenon, <1>4, RoomIs
  <2> QED
    BY <2>1, RoomIs DEF Ordered
<1>5. ReadersServed'
  <2>1. CASE \E m \in 1..MaxRead : BeginRead(p, m)
    BY <1>1, <1>2, <2>1 DEF ReadersServed, ConsTypes, BeginRead, RGoto, cons
  <2>2. CASE AcquireCons(p)
    BY Zenon, <1>1, <1>2, <2>2, ConsoleAssumption DEF ReadersServed, ConsTypes, AcquireCons, RGoto
  <2>3. CASE ReadWaits(p)
    BY Zenon, <1>1, <1>2, <1>4, <2>3, ConsoleAssumption DEF ReadersServed, ConsTypes, ReadWaits,
       ReadReturns, RGoto
  <2>4. CASE ReadDone(p)
    BY Zenon, <1>1, <1>2, <2>4, ConsoleAssumption DEF ReadersServed, ConsTypes, ReadDone,
       ReadReturns, RGoto
  <2>5. CASE Kill(p)
    BY Zenon, <1>1, <1>2, <2>5 DEF ReadersServed, ConsTypes, Kill, cons
  <2> QED
    BY Zenon, <2>1, <2>2, <2>3, <2>4, <2>5
<1> QED
  BY Zenon, <1>1, <1>2, <1>3, <1>5

\* The UART's register and uartgetc().
LEMMA DeviceStep ==
  ASSUME ConsInv, uartgetc \/ \E c \in Typed : DevReceive(c)
  PROVE  ConsInv' /\ UNCHANGED <<r, w, e, buf>>
<1>1. UNCHANGED <<r, w, e, buf, clock, rpc, killed>>
  BY Zenon DEF uartgetc, DevReceive, cons, readers
<1>2. Ordered' /\ Room' = Room
  BY Zenon, <1>1, SameRing
<1>3. ic' \in Typed /\ rx' \in Seq(Typed)
  <2>1. CASE uartgetc
    <3>1. rx # <<>> /\ rx \in Seq(Typed) /\ ic' = Head(rx) /\ rx' = Tail(rx)
      BY Zenon, <2>1 DEF uartgetc, ConsInv, ConsTypes
    <3> QED
      BY <3>1
  <2>2. CASE \E c \in Typed : DevReceive(c)
    BY <2>2 DEF DevReceive, ConsInv, ConsTypes
  <2> QED
    BY Zenon, <2>1, <2>2
<1> QED
  BY Zenon, <1>1, <1>2, <1>3 DEF ConsInv, ConsTypes, ReadersServed

\* A character is taken: one less is finished, the line is as it was.
LEMMA TakenIs ==
  ASSUME ConsTypes, Ordered, r # w, r' = (r + 1) % UINT, UNCHANGED <<w, e>>
  PROVE  r' \in 0..(UINT - 1) /\ Finished' = Finished - 1 /\ Editing' = Editing
<1>1. /\ r \in 0..(UINT - 1) /\ w \in 0..(UINT - 1) /\ UINT \in Nat
  BY Zenon, ConsoleAssumption DEF ConsTypes
<1>2. r' \in 0..(UINT - 1) /\ r' = IF r = UINT - 1 THEN 0 ELSE r + 1
  BY Zenon, <1>1, StepIs
<1>3. PICK x \in 0..(UINT - 1) : x = r'
  BY Zenon, <1>2
<1>4. Finished = Dist(r, w) /\ Finished' = Dist(x, w)
  BY Zenon, <1>3 DEF Finished, Dist
<1>5. Dist(x, w) = Dist(r, w) - 1
  <2>1. /\ Dist(x, w) = IF x <= w THEN w - x ELSE w - x + UINT
        /\ Dist(r, w) = IF r <= w THEN w - r ELSE w - r + UINT
    BY Zenon, <1>1, <1>3, DistIs
  <2>2. x = IF r = UINT - 1 THEN 0 ELSE r + 1
    BY Zenon, <1>2, <1>3
  <2> QED
    BY <1>1, <2>1, <2>2
<1> QED
  BY Zenon, <1>2, <1>4, <1>5 DEF Editing, Dist

\* consoleread() takes a character, or leaves the ^D for the next call.
LEMMA ReadCharStep ==
  ASSUME ConsInv, NEW p \in Readers, ReadChar(p)
  PROVE  ConsInv'
<1> USE DEF ConsInv
<1>1. /\ rpc[p] = "loop" /\ r # w /\ UNCHANGED <<w, e, buf, killed, ic, rx>>
      /\ r' = r \/ r' = (r + 1) % UINT
      /\ ReadReturns(p) \/ UNCHANGED <<rpc, clock>>
  BY Zenon DEF ReadChar
<1>2. r' \in 0..(UINT - 1) /\ Ordered'
  <2>1. CASE r' = r
    BY Zenon, <1>1, <2>1, SameRing DEF ConsTypes
  <2>2. CASE r' = (r + 1) % UINT
    <3>1. r' \in 0..(UINT - 1) /\ Finished' = Finished - 1 /\ Editing' = Editing
      BY Zenon, <1>1, <2>2, TakenIs
    <3>2. Finished \in Nat /\ Editing \in Nat /\ INPUT_BUF_SIZE \in Nat
      BY Zenon, RoomIs, ConsoleAssumption
    <3> QED
      BY <3>1, <3>2 DEF Ordered
  <2> QED
    BY Zenon, <1>1, <2>1, <2>2
<1>3. ConsTypes'
  BY Zenon, <1>1, <1>2 DEF ConsTypes, ReadReturns, RGoto
<1>4. \A q \in Readers : rpc[q] # "sleep"
  BY Zenon, <1>1 DEF ReadersServed
<1>5. ReadersServed'
  BY <1>1, <1>4, ConsoleAssumption DEF ReadersServed, ConsTypes, ReadReturns, RGoto
<1> QED
  BY Zenon, <1>2, <1>3, <1>5

\* A character is stored: one more in the line, which may then be finished.
LEMMA StoredIs ==
  ASSUME ConsTypes, Ordered, Room, e' = (e + 1) % UINT, r' = r, w' \in {w, e'}
  PROVE  /\ e' \in 0..(UINT - 1) /\ w' \in 0..(UINT - 1)
         /\ w' = w => Finished' = Finished /\ Editing' = Editing + 1
         /\ w' = e' => Finished' = Finished + Editing + 1 /\ Editing' = 0
<1>1. /\ r \in 0..(UINT - 1) /\ w \in 0..(UINT - 1) /\ e \in 0..(UINT - 1) /\ UINT \in Nat
      /\ INPUT_BUF_SIZE \in Nat /\ INPUT_BUF_SIZE < UINT
  BY Zenon, ConsoleAssumption DEF ConsTypes
<1>2. e' \in 0..(UINT - 1) /\ e' = IF e = UINT - 1 THEN 0 ELSE e + 1
  BY Zenon, <1>1, StepIs
<1>3. PICK x \in 0..(UINT - 1) : x = e'
  BY Zenon, <1>2
<1>4. Finished + Editing < INPUT_BUF_SIZE
  BY Zenon, RoomIs
<1>5. /\ Dist(r, w) = IF r <= w THEN w - r ELSE w - r + UINT
      /\ Dist(w, e) = IF w <= e THEN e - w ELSE e - w + UINT
      /\ Dist(w, x) = IF w <= x THEN x - w ELSE x - w + UINT
      /\ Dist(r, x) = IF r <= x THEN x - r ELSE x - r + UINT
      /\ Dist(x, x) = IF x <= x THEN x - x ELSE x - x + UINT
      /\ Dist(w, e) \in 0..(UINT - 1)
  BY Zenon, <1>1, <1>3, DistIs
<1>6. /\ Dist(w, x) = Dist(w, e) + 1
      /\ Dist(r, x) = Dist(r, w) + Dist(w, e) + 1
  <2>1. x = IF e = UINT - 1 THEN 0 ELSE e + 1
    BY Zenon, <1>2, <1>3
  <2>2. Dist(r, w) + Dist(w, e) < INPUT_BUF_SIZE
    BY Zenon, <1>4 DEF Finished, Editing
  <2> QED
    BY <1>1, <1>5, <2>1, <2>2
<1>7. CASE w' = w
  <2>1. Finished' = Dist(r, w) /\ Editing' = Dist(w, x)
    BY Zenon, <1>3, <1>7 DEF Finished, Editing, Dist
  <2>2. w # x \/ Dist(w, x) = 0
    BY <1>5
  <2>3. Dist(w, x) # 0
    BY <1>5, <1>6
  <2> QED
    BY Zenon, <1>1, <1>2, <1>3, <1>6, <1>7, <2>1, <2>2, <2>3 DEF Finished, Editing
<1>8. CASE w' = e'
  <2>1. Finished' = Dist(r, x) /\ Editing' = Dist(x, x)
    BY Zenon, <1>3, <1>8 DEF Finished, Editing, Dist
  <2>2. w # x
    <3>1. Dist(w, x) # 0
      BY <1>5, <1>6
    <3> QED
      BY <3>1, <1>5
  <2> QED
    BY <1>2, <1>3, <1>5, <1>6, <1>8, <2>1, <2>2 DEF Finished, Editing
<1> QED
  BY Zenon, <1>2, <1>7, <1>8

\* consoleintr() stores a character; the readers are woken with a finished line.
LEMMA StoreStep ==
  ASSUME ConsInv, Store
  PROVE  ConsInv'
<1> USE DEF ConsInv
<1>1. /\ clock = None /\ ic \in Stored /\ ic' = "x" /\ UNCHANGED <<r, clock, killed, rx>>
  BY Zenon DEF Store, Stored, ConsTypes, Typed
<1>2. CASE ~Room
  <2>1. UNCHANGED <<r, w, e, buf, rpc>>
    BY Zenon, <1>1, <1>2 DEF Store
  <2> QED
    BY <1>1, <2>1, SameRing DEF ConsTypes, ReadersServed, Typed
<1>3. CASE Room
  <2>1. /\ buf' = [buf EXCEPT ![e % INPUT_BUF_SIZE] = ic] /\ e' = (e + 1) % UINT
        /\ w' = IF LineDone THEN e' ELSE w
        /\ rpc' = [p \in Readers |-> IF LineDone /\ rpc[p] = "sleep" THEN "acquire"
                                     ELSE rpc[p]]
    BY Zenon, <1>3 DEF Store
  <2>2. /\ e' \in 0..(UINT - 1) /\ w' \in 0..(UINT - 1)
        /\ w' = w => Finished' = Finished /\ Editing' = Editing + 1
        /\ w' = e' => Finished' = Finished + Editing + 1 /\ Editing' = 0
    BY Zenon, <1>1, <1>3, <2>1, StoredIs
  <2>3. /\ Finished \in Nat /\ Editing \in Nat /\ INPUT_BUF_SIZE \in Nat \ {0}
        /\ Finished + Editing < INPUT_BUF_SIZE
        /\ LineDone <=> ic \in Enders \/ Finished + Editing + 1 = INPUT_BUF_SIZE
    BY Zenon, <1>3, RoomIs, ConsoleAssumption
  <2>4. ConsTypes'
    <3>1. buf' \in [0..(INPUT_BUF_SIZE - 1) -> Stored]
      BY Zenon, <1>1, <2>1 DEF ConsTypes
    <3> QED
      BY Zenon, <1>1, <2>1, <2>2, <3>1 DEF ConsTypes, Typed
  <2>5. Ordered' /\ (w' = w => Finished' + Editing' < INPUT_BUF_SIZE)
    <3>1. CASE LineDone
      BY <2>1, <2>2, <2>3, <3>1 DEF Ordered
    <3>2. CASE ~LineDone
      BY <2>1, <2>2, <2>3, <3>2 DEF Ordered
    <3> QED
      BY Zenon, <3>1, <3>2
  <2>6. Room' <=> Finished' + Editing' < INPUT_BUF_SIZE
    <3>1. RoomExact'
      BY <2>4, <2>5, RoomLeft, PTL
    <3> QED
      BY Zenon, <3>1 DEF RoomExact
  <2>7. ReadersServed'
    <3>1. CASE LineDone
      BY Zenon, <1>1, <2>1, <3>1 DEF ReadersServed, ConsTypes
    <3>2. CASE ~LineDone
      BY Zenon, <1>1, <2>1, <2>5, <2>6, <3>2 DEF ReadersServed, ConsTypes
    <3> QED
      BY Zenon, <3>1, <3>2
  <2> QED
    BY Zenon, <2>4, <2>5, <2>7
<1> QED
  BY Zenon, <1>2, <1>3

\* A character is erased: one less in the line.
LEMMA ErasedIs ==
  ASSUME ConsTypes, Ordered, e # w, e' = (e - 1) % UINT, UNCHANGED <<r, w>>
  PROVE  e' \in 0..(UINT - 1) /\ Finished' = Finished /\ Editing' = Editing - 1
<1>1. w \in 0..(UINT - 1) /\ e \in 0..(UINT - 1) /\ UINT \in Nat
  BY Zenon, ConsoleAssumption DEF ConsTypes
<1>2. e' \in 0..(UINT - 1) /\ e' = IF e = 0 THEN UINT - 1 ELSE e - 1
  BY Zenon, <1>1, StepIs
<1>3. PICK x \in 0..(UINT - 1) : x = e'
  BY Zenon, <1>2
<1>4. Editing' = Dist(w, x) /\ Finished' = Finished
  BY Zenon, <1>3 DEF Finished, Editing, Dist
<1>5. Dist(w, x) = Dist(w, e) - 1
  <2>1. /\ Dist(w, x) = IF w <= x THEN x - w ELSE x - w + UINT
        /\ Dist(w, e) = IF w <= e THEN e - w ELSE e - w + UINT
    BY Zenon, <1>1, <1>3, DistIs
  <2>2. x = IF e = 0 THEN UINT - 1 ELSE e - 1
    BY Zenon, <1>2, <1>3
  <2> QED
    BY <1>1, <2>1, <2>2
<1> QED
  BY Zenon, <1>2, <1>4, <1>5 DEF Editing

\* consoleintr() erases a character of the line, or all of them.
LEMMA EraseStep ==
  ASSUME ConsInv, Erase
  PROVE  ConsInv'
<1> USE DEF ConsInv
<1>1. /\ clock \in {None, "intr"} /\ clock' \in {None, "intr"} /\ ic' \in Typed
      /\ UNCHANGED <<r, w, buf, rpc, killed, rx>>
      /\ e' = e \/ (e # w /\ e' = (e - 1) % UINT)
  BY Zenon DEF Erase, readers, ConsTypes, Typed
<1>2. Finished \in Nat /\ Editing \in Nat /\ INPUT_BUF_SIZE \in Nat
  BY Zenon, RoomIs, ConsoleAssumption
<1>3. /\ e' \in 0..(UINT - 1) /\ Ordered'
      /\ Finished' = Finished /\ Editing' <= Editing
  <2>1. CASE e' = e
    BY <1>1, <1>2, <2>1, SameRing DEF ConsTypes, Finished, Editing, Dist
  <2>2. CASE e # w /\ e' = (e - 1) % UINT
    <3>1. e' \in 0..(UINT - 1) /\ Finished' = Finished /\ Editing' = Editing - 1
      BY Zenon, <1>1, <2>2, ErasedIs
    <3> QED
      BY <1>2, <3>1 DEF Ordered
  <2> QED
    BY Zenon, <1>1, <2>1, <2>2
<1>4. ConsTypes'
  BY Zenon, <1>1, <1>3 DEF ConsTypes
<1>5. Room => Room'
  <2>1. RoomExact /\ RoomExact'
    BY <1>3, <1>4, RoomLeft, PTL
  <2>2. ASSUME Finished + Editing < INPUT_BUF_SIZE
        PROVE  Finished' + Editing' < INPUT_BUF_SIZE
    <3>1. PICK b \in Nat : b = Editing' /\ b <= Editing
      BY Zenon, <1>3, <2>1 DEF RoomExact
    <3>2. Finished + b < INPUT_BUF_SIZE
      BY Zenon, <1>2, <2>2, <3>1, LessAdded
    <3> QED
      BY Zenon, <1>3, <3>1, <3>2
  <2> QED
    BY Zenon, <2>1, <2>2 DEF RoomExact
<1>6. ReadersServed'
  BY Zenon, <1>1, <1>5, ConsoleAssumption DEF ReadersServed
<1> QED
  BY Zenon, <1>3, <1>4, <1>6

\* Every step preserves the invariant.
LEMMA ConsStep == ConsInv /\ [ConsNext]_consvars => ConsInv'
<1> SUFFICES ASSUME ConsInv, [ConsNext]_consvars PROVE ConsInv'
  BY Zenon
<1>1. CASE UNCHANGED consvars
  <2>1. UNCHANGED <<r, w, e, buf, clock, rpc, killed, ic, rx>>
    BY Zenon, <1>1 DEF consvars, cons, readers
  <2> QED
    BY <2>1, SameRing DEF ConsInv, ConsTypes, ReadersServed
<1>2. CASE ConsNext
  BY Zenon, <1>2, DeviceStep, StoreStep, EraseStep, QuietStep, ReadCharStep DEF ConsNext, Reader
<1> QED
  BY Zenon, <1>1, <1>2

\* The indices of console input stay in order around their range, and no reader
\* sleeps over a finished line, a full buffer or a kill.
THEOREM ReadersAreServed == ConsSpec => []ReadersServed
<1>1. ConsInv => ReadersServed
  BY Zenon DEF ConsInv
<1> QED
  BY <1>1, ConsInitInv, ConsStep, PTL DEF ConsSpec

-----------------------------------------------------------------------------
(* Console implements LineBuffer.                                          *)

\* The k-th character after the next one to be read.
Char(k) == buf[(r + k) % INPUT_BUF_SIZE]

Ready == Between(r, w)
Typing == Between(w, e)

\* The two sequences that LineBuffer sees are one after the other in the ring,
\* and the next free slot follows them.
RingView ==
  /\ Ready \in Seq(Stored) /\ Len(Ready) = Finished
  /\ \A k \in 1..Finished : Ready[k] = Char(k - 1)
  /\ Typing \in Seq(Stored) /\ Len(Typing) = Editing
  /\ \A k \in 1..Editing : Typing[k] = Char(Finished + (k - 1))
  /\ e % INPUT_BUF_SIZE = (r + Finished + Editing) % INPUT_BUF_SIZE

\* An index d further on, wrapped around the range or not, names the same slots.
LEMMA SameSlot ==
  ASSUME NEW x \in 0..(UINT - 1), NEW y \in 0..(UINT - 1), NEW j \in Nat
  PROVE  (y + j) % INPUT_BUF_SIZE = (x + Dist(x, y) + j) % INPUT_BUF_SIZE
<1>1. UINT \in Nat /\ INPUT_BUF_SIZE \in Nat \ {0} /\ UINT % INPUT_BUF_SIZE = 0
  BY Zenon, ConsoleAssumption
<1>2. Dist(x, y) = IF x <= y THEN y - x ELSE y - x + UINT
  BY Zenon, DistIs
<1>3. CASE x <= y
  BY <1>1, <1>2, <1>3
<1>4. CASE ~(x <= y)
  <2> DEFINE a == y + UINT + j
  <2>1. a \in Nat /\ a >= UINT /\ a = x + Dist(x, y) + j /\ a - UINT = y + j
    BY <1>1, <1>2, <1>4
  <2> HIDE DEF a
  <2>2. (a - UINT) % INPUT_BUF_SIZE = a % INPUT_BUF_SIZE
    BY <1>1, <2>1, ModWrap
  <2> QED
    BY Zenon, <2>1, <2>2
<1> QED
  BY Zenon, <1>3, <1>4

\* The characters between two indices.
LEMMA BetweenIs ==
  ASSUME ConsTypes, NEW a \in 0..(UINT - 1), NEW b \in 0..(UINT - 1)
  PROVE  /\ Between(a, b) \in Seq(Stored) /\ Len(Between(a, b)) = Dist(a, b)
         /\ \A k \in 1..Dist(a, b) : Between(a, b)[k] = buf[(a + k - 1) % INPUT_BUF_SIZE]
<1>1. Between(a, b) = [k \in 1..Dist(a, b) |-> buf[(a + k - 1) % INPUT_BUF_SIZE]]
  BY Zenon DEF Between, Dist
<1>2. Dist(a, b) \in Nat /\ INPUT_BUF_SIZE \in Nat \ {0} /\ UINT \in Nat
  BY DistIs, ConsoleAssumption
<1>3. ASSUME NEW k \in 1..Dist(a, b) PROVE buf[(a + k - 1) % INPUT_BUF_SIZE] \in Stored
  <2>1. (a + k - 1) % INPUT_BUF_SIZE \in 0..(INPUT_BUF_SIZE - 1)
    BY <1>2
  <2> QED
    BY Zenon, <2>1 DEF ConsTypes
<1> DEFINE f == [k \in 1..Dist(a, b) |-> buf[(a + k - 1) % INPUT_BUF_SIZE]]
<1>4. f \in [1..Dist(a, b) -> Stored]
  BY Zenon, <1>3
<1>5. \A k \in 1..Dist(a, b) : f[k] = buf[(a + k - 1) % INPUT_BUF_SIZE]
  BY Zenon
<1> HIDE DEF f
<1>6. f \in Seq(Stored) /\ Len(f) = Dist(a, b)
  BY <1>2, <1>4
<1> QED
  BY Zenon, <1>1, <1>5, <1>6 DEF f

\* The view that the refinement is about.
LEMMA ViewIs == ConsInv => RingView
<1> SUFFICES ASSUME ConsInv PROVE RingView
  BY Zenon
<1>1. /\ r \in 0..(UINT - 1) /\ w \in 0..(UINT - 1) /\ e \in 0..(UINT - 1) /\ UINT \in Nat
      /\ Finished \in Nat /\ Editing \in Nat /\ ConsTypes
  BY Zenon, RoomIs, ConsoleAssumption DEF ConsInv, ConsTypes
<1>2. /\ Ready \in Seq(Stored) /\ Len(Ready) = Finished
      /\ \A k \in 1..Finished : Ready[k] = buf[(r + k - 1) % INPUT_BUF_SIZE]
      /\ Typing \in Seq(Stored) /\ Len(Typing) = Editing
      /\ \A k \in 1..Editing : Typing[k] = buf[(w + k - 1) % INPUT_BUF_SIZE]
  BY Zenon, <1>1, BetweenIs DEF Ready, Typing, Finished, Editing
<1>3. ASSUME NEW k \in 1..Finished PROVE Ready[k] = Char(k - 1)
  <2>1. r + k - 1 = r + (k - 1)
    BY Zenon, <1>1
  <2> QED
    BY Zenon, <2>1, <1>2 DEF Char
<1>4. ASSUME NEW j \in Nat
      PROVE  (w + j) % INPUT_BUF_SIZE = (r + Finished + j) % INPUT_BUF_SIZE
  BY Zenon, <1>1, SameSlot DEF Finished
<1>5. ASSUME NEW k \in 1..Editing PROVE Typing[k] = Char(Finished + (k - 1))
  <2>1. /\ k - 1 \in Nat /\ w + k - 1 = w + (k - 1)
        /\ r + Finished + (k - 1) = r + (Finished + (k - 1))
    BY <1>1
  <2>2. (w + (k - 1)) % INPUT_BUF_SIZE = (r + Finished + (k - 1)) % INPUT_BUF_SIZE
    BY Zenon, <1>4, <2>1
  <2> QED
    BY Zenon, <1>2, <2>1, <2>2 DEF Char
<1>6. e % INPUT_BUF_SIZE = (r + Finished + Editing) % INPUT_BUF_SIZE
  <2>1. (e + 0) % INPUT_BUF_SIZE = (w + Editing + 0) % INPUT_BUF_SIZE
    BY <1>1, SameSlot DEF Editing
  <2>2. e + 0 = e /\ w + Editing + 0 = w + Editing
    BY <1>1
  <2>3. (w + Editing) % INPUT_BUF_SIZE = (r + Finished + Editing) % INPUT_BUF_SIZE
    BY Zenon, <1>1, <1>4
  <2> QED
    BY Zenon, <2>1, <2>2, <2>3
<1> QED
  BY Zenon, <1>2, <1>3, <1>5, <1>6 DEF RingView

\* A stored character goes to the end of the line being typed, and to no slot
\* that is in use.
LEMMA StoredSlot ==
  ASSUME ConsInv, Room, buf' = [buf EXCEPT ![e % INPUT_BUF_SIZE] = ic], r' = r,
         NEW A \in Nat, A = Finished, NEW B \in Nat, B = Editing
  PROVE  /\ \A k \in Nat : k < A + B => Char(k)' = Char(k)
         /\ Char(A + B)' = ic
<1>1. /\ r \in Nat /\ INPUT_BUF_SIZE \in Nat \ {0} /\ A + B < INPUT_BUF_SIZE
      /\ buf \in [0..(INPUT_BUF_SIZE - 1) -> Stored]
  BY RoomIs, ConsoleAssumption DEF ConsInv, ConsTypes
<1>2. e % INPUT_BUF_SIZE = (r + (A + B)) % INPUT_BUF_SIZE
  <2>1. e % INPUT_BUF_SIZE = (r + A + B) % INPUT_BUF_SIZE
    BY Zenon, ViewIs DEF RingView
  <2>2. r + A + B = r + (A + B)
    BY <1>1
  <2> QED
    BY Zenon, <2>1, <2>2
<1>3. \A k \in Nat : (r + k) % INPUT_BUF_SIZE \in 0..(INPUT_BUF_SIZE - 1)
  BY <1>1
<1>4. ASSUME NEW k \in Nat, k < A + B PROVE Char(k)' = Char(k)
  <2> DEFINE x == r + k
             y == r + (A + B)
  <2>1. x \in Nat /\ y \in Nat /\ x < y /\ y < x + INPUT_BUF_SIZE
    BY <1>1, <1>4
  <2> HIDE DEF x, y
  <2>2. x % INPUT_BUF_SIZE # y % INPUT_BUF_SIZE
    BY Zenon, <1>1, <2>1, ModDiffers
  <2> QED
    BY Zenon, <1>1, <1>2, <1>3, <2>2 DEF Char, x, y
<1>5. Char(A + B)' = ic
  <2>1. A + B \in Nat
    OBVIOUS
  <2> QED
    BY Zenon, <1>1, <1>2, <1>3, <2>1 DEF Char
<1> QED
  BY Zenon, <1>4, <1>5

\* consoleintr() types the character, or drops it when there is no room.
LEMMA StoreTypes ==
  ASSUME ConsInv, ConsInv', Store, Room
  PROVE  \E c \in Stored : Line!Type(c)
<1>1. /\ ic \in Stored /\ r' = r
      /\ buf' = [buf EXCEPT ![e % INPUT_BUF_SIZE] = ic] /\ e' = (e + 1) % UINT
      /\ w' = IF LineDone THEN e' ELSE w
  BY Zenon DEF Store, Stored, ConsInv, ConsTypes, Typed
<1>2. RingView /\ RingView'
  BY ViewIs, PTL
<1>3. PICK A \in Nat, B \in Nat :
        /\ A = Finished /\ B = Editing /\ A + B < INPUT_BUF_SIZE
        /\ LineDone <=> ic \in Enders \/ A + B + 1 = INPUT_BUF_SIZE
  BY Zenon, RoomIs DEF ConsInv
<1>4. /\ w' = w => Finished' = A /\ Editing' = B + 1
      /\ w' = e' => Finished' = A + B + 1 /\ Editing' = 0
  BY Zenon, <1>1, <1>3, StoredIs DEF ConsInv
<1>5. /\ \A k \in Nat : k < A + B => Char(k)' = Char(k)
      /\ Char(A + B)' = ic
  BY Zenon, <1>1, <1>3, StoredSlot
<1>6. PICK R, T, R2, T2 : R = Ready /\ T = Typing /\ R2 = Ready' /\ T2 = Typing'
  BY Zenon
<1>7. /\ R \in Seq(Stored) /\ Len(R) = A /\ T \in Seq(Stored) /\ Len(T) = B
      /\ \A k \in 1..A : R[k] = Char(k - 1)
      /\ \A k \in 1..B : T[k] = Char(A + (k - 1))
  BY Zenon, <1>2, <1>3, <1>6 DEF RingView
<1>8. /\ R2 \in Seq(Stored) /\ Len(R2) = Finished' /\ T2 \in Seq(Stored) /\ Len(T2) = Editing'
      /\ \A k \in 1..Finished' : R2[k] = Char(k - 1)'
      /\ \A k \in 1..Editing' : T2[k] = Char(Finished + (k - 1))'
  BY Zenon, <1>2, <1>6 DEF RingView
<1> DEFINE L == Append(T, ic)
           X == R \o L
<1>9. /\ L \in Seq(Stored) /\ Len(L) = B + 1
      /\ \A i \in 1..B : L[i] = T[i]
      /\ L[B + 1] = ic
  BY <1>1, <1>7, AppendFacts
<1> HIDE DEF L
<1>10. /\ X \in Seq(Stored) /\ Len(X) = A + (B + 1)
       /\ \A i \in 1..A : X[i] = R[i]
       /\ \A i \in 1..(B + 1) : X[A + i] = L[i]
  <2>1. /\ X \in Seq(Stored) /\ Len(X) = Len(R) + Len(L)
        /\ \A i \in 1..Len(R) : X[i] = R[i]
        /\ \A i \in 1..Len(L) : X[Len(R) + i] = L[i]
    <3>1. R \in Seq(Stored) /\ L \in Seq(Stored)
      BY Zenon, <1>7, <1>9
    <3> QED
      BY <3>1, ConcatFacts
  <2> HIDE DEF X
  <2> QED
    BY Zenon, <2>1, <1>7, <1>9
<1> HIDE DEF X
<1>11. \A k \in 0..(A + B) : Char(k)' = IF k = A + B THEN ic ELSE Char(k)
  <2>1. \A k \in 0..(A + B) : k \in Nat /\ (k = A + B \/ k < A + B)
    OBVIOUS
  <2> QED
    BY Zenon, <2>1, <1>5
<1>12. CASE LineDone
  <2>1. Finished' = A + B + 1 /\ Editing' = 0
    BY Zenon, <1>1, <1>4, <1>12
  <2>2. ASSUME NEW i \in 1..(A + B + 1) PROVE R2[i] = X[i]
    <3>1. R2[i] = Char(i - 1)' /\ i - 1 \in 0..(A + B)
      BY <1>8, <2>1
    <3>2. CASE i <= A
      <4>1. i \in 1..A /\ i - 1 # A + B
        BY <3>2
      <4> QED
        BY Zenon, <1>7, <1>10, <1>11, <3>1, <4>1
    <3>3. CASE i > A
      <4>1. PICK j \in 1..(B + 1) : i = A + j /\ i - 1 = A + (j - 1)
        <5>1. i - A \in 1..(B + 1) /\ i = A + (i - A) /\ i - 1 = A + ((i - A) - 1)
          BY <3>3
        <5> QED
          BY Zenon, <5>1
      <4>2. j \in 1..B \/ j = B + 1
        OBVIOUS
      <4>3. (j \in 1..B => A + (j - 1) # A + B) /\ (j = B + 1 => A + (j - 1) = A + B)
        OBVIOUS
      <4>4. R2[i] = Char(A + (j - 1))' /\ A + (j - 1) \in 0..(A + B)
        BY Zenon, <3>1, <4>1
      <4>5. X[i] = L[j]
        BY Zenon, <1>10, <4>1
      <4>6. CASE j \in 1..B
        BY Zenon, <1>7, <1>9, <1>11, <4>3, <4>4, <4>5, <4>6
      <4>7. CASE j = B + 1
        BY Zenon, <1>9, <1>11, <4>3, <4>4, <4>5, <4>7
      <4> QED
        BY Zenon, <4>2, <4>6, <4>7
    <3> QED
      BY <3>2, <3>3
  <2>3. R2 = X
    <3>1. Len(R2) = A + B + 1 /\ Len(X) = A + B + 1
      BY <1>8, <1>10, <2>1
    <3> QED
      BY Zenon, <1>8, <1>10, <2>2, <3>1, SameSequence
  <2>4. T2 = <<>>
    BY <1>8, <2>1
  <2>5. ic \in Enders \/ A + (B + 1) = INPUT_BUF_SIZE
    BY <1>3, <1>12
  <2> QED
    BY Zenon, <1>1, <1>3, <1>6, <1>7, <1>9, <2>3, <2>4, <2>5 DEF Line!Type, Ready, Typing, L, X
<1>13. CASE ~LineDone
  <2>1. Finished' = A /\ Editing' = B + 1
    BY Zenon, <1>1, <1>4, <1>13
  <2>2. ASSUME NEW i \in 1..A PROVE R2[i] = R[i]
    <3>1. i - 1 \in 0..(A + B) /\ i - 1 # A + B
      OBVIOUS
    <3> QED
      BY Zenon, <1>7, <1>8, <1>11, <2>1, <3>1
  <2>3. R2 = R
    BY Zenon, <1>7, <1>8, <2>1, <2>2, SameSequence
  <2>4. ASSUME NEW i \in 1..(B + 1) PROVE T2[i] = L[i]
    <3>1. /\ A + (i - 1) \in 0..(A + B)
          /\ i \in 1..B \/ i = B + 1
          /\ i \in 1..B => A + (i - 1) # A + B
          /\ i = B + 1 => A + (i - 1) = A + B
      OBVIOUS
    <3>2. T2[i] = Char(A + (i - 1))'
      <4>1. \A k \in 1..(B + 1) : T2[k] = Char(Finished + (k - 1))'
        BY Zenon, <1>8, <2>1
      <4> QED
        BY Zenon, <4>1, <2>1 DEF Char
    <3> QED
      BY Zenon, <1>7, <1>9, <1>11, <3>1, <3>2
  <2>5. T2 = L
    BY Zenon, <1>8, <1>9, <2>1, <2>4, SameSequence
  <2>6. ~(ic \in Enders \/ A + (B + 1) = INPUT_BUF_SIZE)
    BY <1>3, <1>13
  <2> QED
    BY Zenon, <1>1, <1>3, <1>6, <1>7, <1>9, <2>3, <2>5, <2>6 DEF Line!Type, Ready, Typing, L
<1> QED
  BY Zenon, <1>12, <1>13

\* A character that is erased is the last of the line being typed.
LEMMA EraseErases ==
  ASSUME ConsInv, ConsInv', e # w, e' = (e - 1) % UINT, UNCHANGED <<r, w, buf>>
  PROVE  Line!Erase
<1>1. RingView /\ RingView'
  BY ViewIs, PTL
<1>2. PICK A \in Nat, B \in Nat : A = Finished /\ B = Editing /\ B # 0
  BY Zenon, RoomIs DEF ConsInv
<1>3. Finished' = A /\ Editing' = B - 1
  BY Zenon, <1>2, ErasedIs DEF ConsInv
<1>4. PICK T, T2 : T = Typing /\ T2 = Typing'
  BY Zenon
<1>5. Ready' = Ready
  BY Zenon DEF Ready, Between
<1>6. /\ T \in Seq(Stored) /\ Len(T) = B
      /\ \A k \in 1..B : T[k] = Char(A + (k - 1))
  BY Zenon, <1>1, <1>2, <1>4 DEF RingView
<1>7. /\ T2 \in Seq(Stored) /\ Len(T2) = B - 1
      /\ \A k \in 1..(B - 1) : T2[k] = Char(A + (k - 1))
  <2>1. /\ T2 \in Seq(Stored) /\ Len(T2) = Editing'
        /\ \A k \in 1..Editing' : T2[k] = Char(Finished + (k - 1))'
    BY Zenon, <1>1, <1>4 DEF RingView
  <2> QED
    BY Zenon, <1>3, <2>1 DEF Char
<1>8. T # <<>>
  BY Zenon, <1>2, <1>6
<1> DEFINE F == SubSeq(T, 1, Len(T) - 1)
<1>9. F \in Seq(Stored) /\ Len(F) = Len(T) - 1 /\ \A i \in 1..(Len(T) - 1) : F[i] = T[i]
  BY Zenon, <1>6, <1>8, FrontFacts
<1> HIDE DEF F
<1>10. \A i \in 1..(B - 1) : i \in 1..B
  OBVIOUS
<1>11. T2 = F
  BY Zenon, <1>6, <1>7, <1>9, <1>10, SameSequence
<1> QED
  BY Zenon, <1>4, <1>5, <1>8, <1>11 DEF Line!Erase, Ready, Typing, F

\* A character that is read is the first of the finished lines.
LEMMA ReadTakes ==
  ASSUME ConsInv, ConsInv', r # w, r' = (r + 1) % UINT, UNCHANGED <<w, e, buf>>
  PROVE  Line!Take
<1>1. RingView /\ RingView'
  BY ViewIs, PTL
<1>2. PICK A \in Nat : A = Finished /\ A # 0
  BY Zenon, RoomIs DEF ConsInv
<1>3. Finished' = A - 1
  BY Zenon, <1>2, TakenIs DEF ConsInv
<1>4. PICK R, R2 : R = Ready /\ R2 = Ready'
  BY Zenon
<1>5. Typing' = Typing
  BY Zenon DEF Typing, Between
<1>6. ASSUME NEW k \in Nat PROVE Char(k)' = Char(k + 1)
  <2>1. /\ r \in 0..(UINT - 1) /\ UINT \in Nat /\ INPUT_BUF_SIZE \in Nat \ {0}
        /\ UINT % INPUT_BUF_SIZE = 0 /\ r' = IF r = UINT - 1 THEN 0 ELSE r + 1
    BY Zenon, StepIs, ConsoleAssumption DEF ConsInv, ConsTypes
  <2> DEFINE a == r + (k + 1)
  <2>2. a \in Nat /\ (r' + k = a \/ (a >= UINT /\ r' + k = a - UINT))
    BY <2>1
  <2> HIDE DEF a
  <2>3. (r' + k) % INPUT_BUF_SIZE = a % INPUT_BUF_SIZE
    <3>1. CASE r' + k = a
      BY Zenon, <3>1
    <3>2. CASE a >= UINT /\ r' + k = a - UINT
      <4>1. (a - UINT) % INPUT_BUF_SIZE = a % INPUT_BUF_SIZE
        BY ZenonT(60), <2>1, <2>2, <3>2, ModWrap
      <4> QED
        BY Zenon, <3>2, <4>1
    <3> QED
      BY Zenon, <2>2, <3>1, <3>2
  <2> QED
    BY Zenon, <2>3 DEF Char, a
<1>7. /\ R \in Seq(Stored) /\ Len(R) = A
      /\ \A k \in 1..A : R[k] = Char(k - 1)
  BY Zenon, <1>1, <1>2, <1>4 DEF RingView
<1>8. /\ R2 \in Seq(Stored) /\ Len(R2) = A - 1
      /\ \A k \in 1..(A - 1) : R2[k] = Char(k - 1)'
  BY Zenon, <1>1, <1>3, <1>4 DEF RingView
<1>9. R # <<>>
  BY Zenon, <1>2, <1>7
<1>10. /\ Tail(R) \in Seq(Stored) /\ Len(Tail(R)) = Len(R) - 1
       /\ \A i \in 1..(Len(R) - 1) : Tail(R)[i] = R[i + 1]
  BY Zenon, <1>7, <1>9, TailFacts
<1>11. ASSUME NEW i \in 1..(A - 1) PROVE R2[i] = Tail(R)[i]
  <2>1. i - 1 \in Nat /\ (i - 1) + 1 = (i + 1) - 1 /\ i + 1 \in 1..A
    OBVIOUS
  <2>2. R2[i] = Char((i + 1) - 1)
    BY Zenon, <1>6, <1>8, <2>1
  <2> QED
    BY Zenon, <1>7, <1>10, <2>1, <2>2
<1>12. R2 = Tail(R)
  BY Zenon, <1>7, <1>8, <1>10, <1>11, SameSequence
<1> QED
  BY Zenon, <1>4, <1>5, <1>9, <1>12 DEF Line!Take, Ready, Typing

\* Every step of the console is a step of the line buffer or leaves it as it is.
LEMMA LineStep ==
  ASSUME ConsInv, ConsInv', [ConsNext]_consvars
  PROVE  [Line!Next]_<<Between(r, w), Between(w, e)>>
<1>1. ASSUME UNCHANGED <<r, w, e, buf>> PROVE UNCHANGED <<Between(r, w), Between(w, e)>>
  BY Zenon, <1>1 DEF Between
<1>2. CASE UNCHANGED consvars
  BY Zenon, <1>1, <1>2 DEF consvars, cons
<1>3. CASE Store
  <2>1. CASE Room
    BY Zenon, <1>3, <2>1, StoreTypes DEF Line!Next, Stored
  <2>2. CASE ~Room
    BY Zenon, <1>1, <1>3, <2>2 DEF Store
  <2> QED
    BY Zenon, <2>1, <2>2
<1>4. CASE Erase
  <2>1. UNCHANGED <<r, w, buf>> /\ (e' = e \/ (e # w /\ e' = (e - 1) % UINT))
    BY Zenon, <1>4 DEF Erase
  <2> QED
    BY Zenon, <1>1, <2>1, EraseErases DEF Line!Next
<1>5. ASSUME NEW p \in Readers, ReadChar(p)
      PROVE  [Line!Next]_<<Between(r, w), Between(w, e)>>
  <2>1. UNCHANGED <<w, e, buf>> /\ r # w /\ (r' = r \/ r' = (r + 1) % UINT)
    BY Zenon, <1>5 DEF ReadChar
  <2> QED
    BY Zenon, <1>1, <2>1, ReadTakes DEF Line!Next
<1>6. CASE uartgetc \/ \E c \in Typed : DevReceive(c)
  BY Zenon, <1>1, <1>6, DeviceStep
<1>7. ASSUME NEW p \in Readers, Reader(p)
      PROVE  [Line!Next]_<<Between(r, w), Between(w, e)>>
  BY Zenon, <1>1, <1>5, <1>7, QuietStep DEF Reader
<1> QED
  BY Zenon, <1>2, <1>3, <1>4, <1>6, <1>7 DEF ConsNext

\* console.c keeps a line buffer: a finished line is handed over whole, read in
\* order and once, and never erased or overwritten, for any size of the buffer
\* and however often the unsigned indices have wrapped around.
THEOREM ConsoleIsLineBuffer == ConsSpec => IsLineBuffer
<1>1. ConsInit => Line!Init
  <2> SUFFICES ASSUME ConsInit PROVE Line!Init
    BY Zenon
  <2>1. ConsInv /\ r = w /\ w = e
    BY Zenon, ConsInitInv DEF ConsInit
  <2>2. Finished = 0 /\ Editing = 0 /\ RingView
    BY Zenon, <2>1, RoomIs, ViewIs DEF ConsInv
  <2>3. Ready = <<>> /\ Typing = <<>>
    BY <2>2 DEF RingView
  <2> QED
    BY Zenon, <2>3 DEF Line!Init, Ready, Typing
<1>2. ConsInv /\ ConsInv' /\ [ConsNext]_consvars => [Line!Next]_<<Between(r, w), Between(w, e)>>
  BY Zenon, LineStep
<1> QED
  BY <1>1, <1>2, ConsInitInv, ConsStep, PTL DEF ConsSpec, IsLineBuffer, Line!Spec
=============================================================================
