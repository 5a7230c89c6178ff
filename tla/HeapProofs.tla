----------------------------- MODULE HeapProofs -----------------------------
(***************************************************************************)
(* Proofs about CheckHeap, for any keys: the array is in heap order        *)
(* whenever the run loop looks at it, and it implements the queue.         *)
(*                                                                         *)
(* The order is a matter of the deadlines alone, so the lemmas about it    *)
(* speak of the deadlines d at the positions of the array.                 *)
(***************************************************************************)
EXTENDS CheckHeap, Least, SequenceTheorems, TLAPS

----------------------------------------------------------------------------
(* Heap order                                                              *)

\* The first n positions are in heap order: none is due before its parent.
InOrder(d, n) == \A i \in 2 .. n : d[i \div 2] <= d[i]

\* They are but for the position p, which may be due before its parent; its
\* children are not.
UpOrder(d, n, p) ==
    \A i \in 2 .. n :
        /\ i # p => d[i \div 2] <= d[i]
        /\ i \div 2 = p /\ p > 1 => d[p \div 2] <= d[i]

\* From parent f on they are but for the children of p, which are not due
\* before p's parent, and for p itself while it is where the sifting started.
DownOrder(d, n, f, s, p) ==
    \A i \in 2 .. n :
        /\ f <= i \div 2 /\ i \div 2 # p /\ ~(i = p /\ p = s) => d[i \div 2] <= d[i]
        /\ i \div 2 = p /\ f <= p \div 2 => d[p \div 2] <= d[i]

Exchanged(d, i, j) == [d EXCEPT ![i] = d[j], ![j] = d[i]]

\* Parents and children.
LEMMA Half ==
    ASSUME NEW i \in Nat
    PROVE  /\ i \div 2 \in Nat
           /\ i = 2 * (i \div 2) \/ i = 2 * (i \div 2) + 1
           /\ i >= 2 => 1 <= i \div 2 /\ i \div 2 < i
OBVIOUS

\* A round of up moves the place where the order may be broken to the parent.
LEMMA UpRound ==
    ASSUME NEW m \in Nat, NEW n \in 0 .. m, NEW d \in [1 .. m -> Int], NEW p \in 2 .. n,
           UpOrder(d, n, p), d[p] < d[p \div 2]
    PROVE  UpOrder(Exchanged(d, p \div 2, p), n, p \div 2)
<1> DEFINE h == p \div 2
           e == Exchanged(d, h, p)
<1>1. h \in 1 .. m /\ h < p /\ (p = 2 * h \/ p = 2 * h + 1)
  BY Half
<1>2. /\ e[h] = d[p] /\ e[p] = d[h]
      /\ \A i \in (1 .. m) \ {h, p} : e[i] = d[i]
  BY <1>1 DEF Exchanged
<1>3. d[p] < d[h]
  OBVIOUS
<1> HIDE DEF h, e
<1>4. SUFFICES ASSUME NEW i \in 2 .. n
               PROVE  /\ i # h => e[i \div 2] <= e[i]
                      /\ i \div 2 = h /\ h > 1 => e[h \div 2] <= e[i]
  BY DEF UpOrder, h, e
<1> DEFINE a == i \div 2
<1>5. a \in 1 .. m /\ a < i /\ i \in 1 .. m
  BY Half
<1>6. (i # p => d[a] <= d[i]) /\ (a = p => d[h] <= d[i])
  BY <1>4 DEF UpOrder, h
<1>7. h > 1 => /\ h \div 2 \in 1 .. m /\ h \div 2 < h
               /\ d[h \div 2] <= d[h]
  BY <1>1, Half DEF UpOrder, h
<1> HIDE DEF a
<1>8. ASSUME i # h
      PROVE  e[a] <= e[i]
  <2>1. CASE i = p
    BY <1>1, <1>2, <1>3, <1>5, <1>6, <2>1 DEF a, h
  <2>2. CASE i # p /\ a = p
    BY <1>1, <1>2, <1>5, <1>6, <1>8, <2>2
  <2>3. CASE i # p /\ a = h
    BY <1>1, <1>2, <1>3, <1>5, <1>6, <1>8, <2>3
  <2>4. CASE i # p /\ a \notin {h, p}
    BY <1>2, <1>5, <1>6, <1>8, <2>4
  <2> QED
    BY <2>1, <2>2, <2>3, <2>4
<1>9. a = h /\ h > 1 => e[h \div 2] <= e[i]
  BY <1>1, <1>2, <1>3, <1>5, <1>6, <1>7
<1> QED
  BY <1>8, <1>9 DEF a

\* When up ends the order is restored.
LEMMA UpDone ==
    ASSUME NEW m \in Nat, NEW n \in 0 .. m, NEW d \in [1 .. m -> Int], NEW p \in 1 .. n,
           UpOrder(d, n, p), p = 1 \/ ~(d[p] < d[p \div 2])
    PROVE  InOrder(d, n)
<1>1. SUFFICES ASSUME NEW i \in 2 .. n
               PROVE  d[i \div 2] <= d[i]
  BY DEF InOrder
<1>2. CASE i = p
  BY <1>2, Half
<1>3. CASE i # p
  BY <1>3 DEF UpOrder
<1> QED
  BY <1>2, <1>3

\* The child c that down looks at: the other one is not due before it.
LeastChild(d, n, p, c) ==
    /\ c \in {2 * p, 2 * p + 1} /\ c <= n
    /\ \A i \in 2 .. n : i \div 2 = p => d[c] <= d[i]

\* A round of down moves the place where the order may be broken to the child.
LEMMA DownRound ==
    ASSUME NEW m \in Nat, NEW n \in 0 .. m, NEW d \in [1 .. m -> Int],
           NEW f \in Nat, NEW s \in Nat, NEW p \in 1 .. n, NEW c \in 1 .. n,
           f <= s, s <= p,
           DownOrder(d, n, f, s, p), LeastChild(d, n, p, c), d[c] < d[p]
    PROVE  DownOrder(Exchanged(d, p, c), n, f, s, c)
<1> DEFINE e == Exchanged(d, p, c)
<1>1. c > p /\ c \div 2 = p
  BY Half DEF LeastChild
<1>2. /\ e[p] = d[c] /\ e[c] = d[p]
      /\ \A i \in (1 .. m) \ {p, c} : e[i] = d[i]
  BY <1>1 DEF Exchanged
<1> HIDE DEF e
<1>3. SUFFICES ASSUME NEW i \in 2 .. n
               PROVE  /\ f <= i \div 2 /\ i \div 2 # c /\ ~(i = c /\ c = s)
                           => e[i \div 2] <= e[i]
                      /\ i \div 2 = c /\ f <= c \div 2 => e[c \div 2] <= e[i]
  BY DEF DownOrder, e
<1> DEFINE a == i \div 2
<1>4. a \in 1 .. m /\ a < i /\ i \in 1 .. m
  BY Half
<1>5. f <= a /\ a # p /\ ~(i = p /\ p = s) => d[a] <= d[i]
  BY DEF DownOrder
<1>6. a = p => d[c] <= d[i]
  BY DEF LeastChild
<1>7. i = p /\ f <= a => d[a] <= d[c]
  BY <1>1, <1>4 DEF DownOrder
<1> HIDE DEF a
<1>8. f <= a /\ a # c => e[a] <= e[i]
  BY <1>1, <1>2, <1>4, <1>5, <1>6, <1>7
<1>9. a = c => e[p] <= e[i]
  BY <1>1, <1>2, <1>4, <1>5
<1> QED
  BY <1>1, <1>8, <1>9 DEF a

\* When down ends at p, only p may still be due before its parent, if it is
\* where the sifting started.
LEMMA DownDone ==
    ASSUME NEW m \in Nat, NEW n \in 0 .. m, NEW d \in [1 .. m -> Int],
           NEW f \in Nat, NEW s \in Nat, NEW p \in Nat,
           DownOrder(d, n, f, s, p),
           \A i \in 2 .. n : i \div 2 = p => d[p] <= d[i]
    PROVE  \A i \in 2 .. n :
               f <= i \div 2 /\ ~(i = p /\ p = s) => d[i \div 2] <= d[i]
BY DEF DownOrder

\* What was moved to position p from the end is the only thing that may be out
\* of order.
LEMMA DownStart ==
    ASSUME NEW m \in Nat, NEW d \in [1 .. m -> Int], NEW p \in 1 .. m, InOrder(d, m)
    PROVE  DownOrder(Exchanged(d, p, m), m - 1, 1, p, p)
<1> DEFINE e == Exchanged(d, p, m)
<1>1. \A i \in (1 .. m - 1) \ {p} : e[i] = d[i]
  BY DEF Exchanged
<1> HIDE DEF e
<1>2. SUFFICES ASSUME NEW i \in 2 .. m - 1
               PROVE  /\ 1 <= i \div 2 /\ i \div 2 # p /\ ~(i = p /\ p = p)
                           => e[i \div 2] <= e[i]
                      /\ i \div 2 = p /\ 1 <= p \div 2 => e[p \div 2] <= e[i]
  BY DEF DownOrder, e
<1> DEFINE a == i \div 2
           g == p \div 2
<1>3. a \in 1 .. m - 1 /\ a < i /\ i \in 1 .. m - 1
  BY Half
<1>4. d[a] <= d[i]
  BY DEF InOrder
<1>5. 1 <= g => g \in 1 .. m - 1 /\ g < p /\ d[g] <= d[p]
  BY Half DEF InOrder
<1> HIDE DEF a, g
<1>6. a # p /\ i # p => e[a] <= e[i]
  BY <1>1, <1>3, <1>4
<1>7. a = p /\ 1 <= g => e[g] <= e[i]
  BY <1>1, <1>3, <1>4, <1>5
<1> QED
  BY <1>6, <1>7 DEF a, g

\* In heap order the first position is due no later than any other.
LEMMA FirstIsLeast ==
    ASSUME NEW n \in Nat, NEW d \in [1 .. n -> Int], InOrder(d, n), NEW i \in 1 .. n
    PROVE  d[1] <= d[i]
<1> DEFINE Bad == {k \in 1 .. n : d[k] < d[1]}
<1>1. SUFFICES ASSUME Bad # {}
               PROVE  FALSE
  OBVIOUS
<1>2. PICK k \in Bad : \A j \in Bad : k <= j
  <2>1. Bad \in SUBSET Nat
    OBVIOUS
  <2> HIDE DEF Bad
  <2> QED
    BY <1>1, <2>1, MinOfNats
<1>3. k >= 2 /\ k \div 2 \in 1 .. n /\ k \div 2 < k
  BY <1>2, Half
<1>4. d[k \div 2] <= d[k] /\ d[k] < d[1]
  BY <1>2, <1>3 DEF InOrder
<1> QED
  BY <1>2, <1>3, <1>4
----------------------------------------------------------------------------
(* The inductive invariant                                                 *)

Deadlines == [i \in DOMAIN array |-> due[array[i]]]

\* down and up stay in the heap; only Pop sifts from behind it, when it takes
\* the last item.
InHeap ==
    /\ pc = "down" => start <= pos
    /\ pc \in {"up", "down"} /\ op # "runDue" => pos <= Size
    /\ pc = "down" /\ op = "runDue" => start = 1

\* The heap is in order but for where it is sifted.
HeapOrder ==
    /\ pc \in {"idle", "sweep", "pop"} => InOrder(Deadlines, Size)
    /\ pc = "up" => UpOrder(Deadlines, Size, pos)
    /\ pc = "down" => DownOrder(Deadlines, Size, IF op = "init" THEN start ELSE 1, start, pos)

IInv == TypeOK /\ InHeap /\ HeapOrder

\* The deadlines and positions of the items.
LEMMA ArrayFacts ==
    ASSUME TypeOK
    PROVE  /\ Len(array) \in Nat /\ DOMAIN array = 1 .. Len(array)
           /\ \A i \in 1 .. Len(array) : array[i] \in Keys
           /\ Deadlines \in [1 .. Len(array) -> Int]
           /\ \A i \in 1 .. Len(array) : Deadlines[i] = due[array[i]]
           /\ \A i, j \in 1 .. Len(array) : array[i] = array[j] => i = j
           /\ \A k \in Keys : due[k] \in Int
           /\ now \in Int
<1> USE HeapAssumption DEF TypeOK
<1>1. Len(array) \in Nat /\ DOMAIN array = 1 .. Len(array)
  OBVIOUS
<1>2. \A i \in 1 .. Len(array) : array[i] \in Keys
  OBVIOUS
<1>3. \A k \in Keys : due[k] \in Int
  OBVIOUS
<1>4. \A i, j \in 1 .. Len(array) : array[i] = array[j] => i = j
  <2> SUFFICES ASSUME NEW i \in 1 .. Len(array), NEW j \in 1 .. Len(array),
                      array[i] = array[j]
               PROVE  i = j
    OBVIOUS
  <2>1. index[array[i]] = i - 1 /\ index[array[j]] = j - 1
    BY <1>1
  <2> QED
    BY <2>1
<1> QED
  BY <1>1, <1>2, <1>3, <1>4 DEF Deadlines

\* What the array holds apart from the control: TypeOK without its loops.
ArrayTypes ==
    /\ array \in Seq(Keys)
    /\ due \in [Keys -> 0 .. MaxNow + MaxWait]
    /\ index \in [Keys -> -1 .. Len(array) - 1]
    /\ now \in 0 .. MaxNow
    /\ \A k \in Keys \ Range(array) : index[k] = -1
    /\ \A i \in DOMAIN array : index[array[i]] = i - 1

LoopTypes ==
    /\ <<op, pc>> \in Labels
    /\ IF pc \in {"up", "down"} THEN start \in 1 .. Len(array) /\ pos \in 1 .. Len(array)
                                ELSE start = 0 /\ pos = 0
    /\ pc = "pop" => Len(array) > 0

LEMMA TypeParts == TypeOK <=> ArrayTypes /\ LoopTypes
BY DEF TypeOK, ArrayTypes, LoopTypes

\* Swapping two items keeps the types, and exchanges their deadlines.
LEMMA SwapEffect ==
    ASSUME TypeOK, NEW i \in 1 .. Len(array), NEW j \in 1 .. Len(array), i # j,
           Swap(i, j), UNCHANGED <<due, now>>
    PROVE  /\ ArrayTypes'
           /\ Len(array') = Len(array)
           /\ \A q \in 1 .. Len(array) :
                 array'[q] = IF q = i THEN array[j] ELSE IF q = j THEN array[i] ELSE array[q]
           /\ Range(array') = Range(array)
           /\ Deadlines' = Exchanged(Deadlines, i, j)
<1>1. /\ Len(array) \in Nat /\ DOMAIN array = 1 .. Len(array)
      /\ \A q \in 1 .. Len(array) : array[q] \in Keys
      /\ \A p, q \in 1 .. Len(array) : array[p] = array[q] => p = q
  BY ArrayFacts
<1>2. array' = [array EXCEPT ![i] = array[j], ![j] = array[i]]
  BY DEF Swap
<1>3. array' \in Seq(Keys) /\ Len(array') = Len(array) /\ DOMAIN array' = 1 .. Len(array)
  BY <1>1, <1>2 DEF TypeOK
<1>4. \A q \in 1 .. Len(array) :
         array'[q] = IF q = i THEN array[j] ELSE IF q = j THEN array[i] ELSE array[q]
  BY <1>1, <1>2
<1>5. Range(array') = Range(array)
  BY <1>1, <1>3, <1>4 DEF Range
<1>6. index' = [index EXCEPT ![array[j]] = i - 1, ![array[i]] = j - 1]
  BY DEF Swap
<1>7. index' \in [Keys -> -1 .. Len(array) - 1]
  <2>1. array[i] \in Keys /\ array[j] \in Keys
    BY <1>1
  <2>2. i - 1 \in -1 .. Len(array) - 1 /\ j - 1 \in -1 .. Len(array) - 1
    BY <1>1
  <2>3. index \in [Keys -> -1 .. Len(array) - 1]
    BY DEF TypeOK
  <2> QED
    BY <1>6, <2>1, <2>2, <2>3
<1>8. \A k \in Keys \ Range(array) : index'[k] = -1
  BY <1>1, <1>6 DEF TypeOK, Range
<1>9. \A q \in 1 .. Len(array) : index'[array'[q]] = q - 1
  <2> SUFFICES ASSUME NEW q \in 1 .. Len(array)
               PROVE  index'[array'[q]] = q - 1
    OBVIOUS
  <2>0. index[array[q]] = q - 1 /\ array[i] # array[j]
    BY <1>1 DEF TypeOK
  <2>1. CASE q = i
    BY <1>1, <1>4, <1>6, <2>0, <2>1 DEF TypeOK
  <2>2. CASE q = j
    BY <1>1, <1>4, <1>6, <2>0, <2>2 DEF TypeOK
  <2>3. CASE q # i /\ q # j
    <3>1. array[q] # array[i] /\ array[q] # array[j] /\ array'[q] = array[q]
      BY <1>1, <1>4, <2>3
    <3> QED
      BY <1>1, <1>6, <2>0, <3>1 DEF TypeOK
  <2> QED
    BY <2>1, <2>2, <2>3
<1>10. ArrayTypes'
  BY <1>3, <1>5, <1>7, <1>8, <1>9 DEF TypeOK, ArrayTypes
<1>11. Deadlines' = Exchanged(Deadlines, i, j)
  <2>1. Deadlines' = [q \in 1 .. Len(array) |-> due[array'[q]]]
    BY <1>3 DEF Deadlines
  <2>2. Exchanged(Deadlines, i, j) =
          [q \in 1 .. Len(array) |->
             IF q = i THEN due[array[j]] ELSE IF q = j THEN due[array[i]] ELSE due[array[q]]]
    BY <1>1 DEF Deadlines, Exchanged
  <2> QED
    BY <1>4, <2>1, <2>2
<1> QED
  BY <1>3, <1>4, <1>5, <1>10, <1>11

\* The heap is the array or all of it but its last item.
LEMMA SizeFacts ==
    ASSUME TypeOK
    PROVE  /\ Size \in 0 .. Len(array)
           /\ pc \in {"idle", "sweep"} \/ op \in {"push", "init"} => Size = Len(array)
           /\ pc \notin {"idle", "sweep"} /\ op \notin {"push", "init"}
                => Size = Len(array) - 1
<1>1. Len(array) \in Nat
  BY ArrayFacts
<1>2. pc \notin {"idle", "sweep"} => Len(array) > 0
  BY <1>1 DEF TypeOK, Labels
<1> QED
  BY <1>1, <1>2 DEF Size, TypeOK, Labels

----------------------------------------------------------------------------
(* The steps of container/heap                                             *)

\* A round of up.
LEMMA StepUp ==
    ASSUME IInv, Up
    PROVE  IInv'
<1> DEFINE h == pos \div 2
<1>1. /\ Len(array) \in Nat /\ Size \in 0 .. Len(array)
      /\ pos \in 2 .. Size
      /\ op \in {"push", "remove"} /\ pc = "up"
  BY ArrayFacts, SizeFacts DEF IInv, TypeOK, Labels, InHeap, Up, Rises
<1>2. h \in 1 .. Len(array) /\ pos \in 1 .. Len(array) /\ h # pos /\ h <= Size
  BY <1>1, Half
<1>3. Swap(h, pos) /\ pc' = "up" /\ pos' = h /\ UNCHANGED <<due, now, op, start>>
  BY DEF Up, At
<1> HIDE DEF h
<1>4. /\ ArrayTypes' /\ Len(array') = Len(array)
      /\ Deadlines' = Exchanged(Deadlines, h, pos)
  BY <1>2, <1>3, SwapEffect DEF IInv
<1>5. Size' = Size
  BY <1>1, <1>3, <1>4 DEF Size
<1>6. Deadlines[pos] < Deadlines[h]
  BY <1>2, ArrayFacts DEF Up, Rises, Less, IInv, h
<1>7. UpOrder(Deadlines, Size, pos)
  BY <1>1 DEF IInv, HeapOrder
<1>8. UpOrder(Exchanged(Deadlines, h, pos), Size, h)
  BY <1>1, <1>6, <1>7, ArrayFacts, UpRound DEF IInv, h
<1>9. HeapOrder'
  BY <1>3, <1>4, <1>5, <1>8 DEF HeapOrder
<1>10. InHeap'
  BY <1>1, <1>2, <1>3, <1>5 DEF InHeap
<1>11. LoopTypes'
  BY <1>1, <1>2, <1>3, <1>4 DEF LoopTypes, IInv, TypeOK, Labels
<1> QED
  BY <1>4, <1>9, <1>10, <1>11 DEF IInv, TypeOK, ArrayTypes, LoopTypes

\* The array does not change and the loops go on elsewhere.
LEMMA Elsewhere ==
    ASSUME IInv, UNCHANGED <<array, due, index, now>>
    PROVE  ArrayTypes' /\ Len(array') = Len(array) /\ Deadlines' = Deadlines
<1>1. ArrayTypes
  BY DEF IInv, TypeOK, ArrayTypes
<1> QED
  BY <1>1 DEF ArrayTypes, Deadlines

\* The end of up.
LEMMA StepUpEnds ==
    ASSUME IInv, UpEnds
    PROVE  IInv'
<1>1. /\ Len(array) \in Nat /\ Size \in 0 .. Len(array)
      /\ pos \in 1 .. Size
      /\ op \in {"push", "remove"} /\ pc = "up"
  BY ArrayFacts, SizeFacts DEF IInv, TypeOK, Labels, InHeap, UpEnds
<1>2. ArrayTypes' /\ Len(array') = Len(array) /\ Deadlines' = Deadlines
  BY Elsewhere DEF UpEnds, queueVars
<1>3. /\ pos' = 0 /\ start' = 0
      /\ \/ op = "push" /\ op' = "none" /\ pc' = "idle"
         \/ op = "remove" /\ op' = "remove" /\ pc' = "pop"
  BY <1>1 DEF UpEnds, GoOn, At
<1>4. Size' = Size
  BY <1>1, <1>2, <1>3 DEF Size
<1>5. pos = 1 \/ ~(Deadlines[pos] < Deadlines[pos \div 2])
  <2>1. CASE pos > 1
    <3>1. pos \div 2 \in 1 .. Len(array)
      BY <1>1, <2>1, Half
    <3> QED
      BY <1>1, <2>1, <3>1, ArrayFacts DEF UpEnds, Rises, Less, IInv
  <2> QED
    BY <1>1, <2>1
<1>6. UpOrder(Deadlines, Size, pos)
  BY <1>1 DEF IInv, HeapOrder
<1>7. InOrder(Deadlines, Size)
  BY <1>1, <1>5, <1>6, ArrayFacts, UpDone DEF IInv
<1>8. HeapOrder' /\ InHeap'
  BY <1>2, <1>3, <1>4, <1>7 DEF HeapOrder, InHeap
<1>9. LoopTypes'
  BY <1>1, <1>2, <1>3 DEF LoopTypes, Labels
<1> QED
  BY <1>2, <1>8, <1>9 DEF IInv, TypeOK, ArrayTypes, LoopTypes

\* The child that down looks at is the least one, if there is any.
LEMMA ChildFacts ==
    ASSUME TypeOK, pos \in 1 .. Len(array), 2 * pos <= Size
    PROVE  LeastChild(Deadlines, Size, pos, Child(pos))
<1>1. Len(array) \in Nat /\ Size \in 0 .. Len(array)
  BY ArrayFacts, SizeFacts
<1>2. Deadlines[2 * pos] = due[array[2 * pos]] /\ Deadlines[2 * pos] \in Int
  BY <1>1, ArrayFacts
<1>3. 2 * pos < Size => /\ Deadlines[2 * pos + 1] = due[array[2 * pos + 1]]
                        /\ Deadlines[2 * pos + 1] \in Int
  BY <1>1, ArrayFacts
<1>4. Child(pos) \in {2 * pos, 2 * pos + 1} /\ Child(pos) <= Size
  BY <1>1 DEF Child
<1>5. /\ Deadlines[Child(pos)] <= Deadlines[2 * pos]
      /\ 2 * pos < Size => Deadlines[Child(pos)] <= Deadlines[2 * pos + 1]
  BY <1>1, <1>2, <1>3 DEF Child, Less
<1>6. ASSUME NEW i \in 2 .. Size, i \div 2 = pos
      PROVE  Deadlines[Child(pos)] <= Deadlines[i]
  <2>1. i = 2 * pos \/ i = 2 * pos + 1
    BY <1>6, Half
  <2> QED
    BY <1>1, <1>5, <2>1
<1> QED
  BY <1>4, <1>6 DEF LeastChild

\* A round of down.
LEMMA StepDown ==
    ASSUME IInv, Down
    PROVE  IInv'
<1> DEFINE c == Child(pos)
           f == IF op = "init" THEN start ELSE 1
<1>1. /\ Len(array) \in Nat /\ Size \in 0 .. Len(array)
      /\ pos \in 1 .. Size /\ 2 * pos <= Size
      /\ start \in 1 .. pos
      /\ op \in {"remove", "init", "runDue"} /\ pc = "down"
      /\ op = "runDue" => start = 1
  <2>1. pc = "down" /\ 2 * pos <= Size
    BY DEF Down, Sinks
  <2>2. /\ op \in {"remove", "init", "runDue"}
        /\ start \in 1 .. Len(array) /\ pos \in 1 .. Len(array)
    BY <2>1 DEF IInv, TypeOK, Labels
  <2>3. Len(array) \in Nat /\ Size \in 0 .. Len(array)
    BY ArrayFacts, SizeFacts DEF IInv
  <2>4. start <= pos /\ (op = "runDue" => start = 1)
    BY <2>1 DEF IInv, InHeap
  <2> QED
    BY <2>1, <2>2, <2>3, <2>4
<1>2. LeastChild(Deadlines, Size, pos, c)
  BY <1>1, ChildFacts DEF IInv
<1>3. Swap(pos, c) /\ pc' = "down" /\ pos' = c /\ UNCHANGED <<due, now, op, start>>
  BY DEF Down, At
<1>4. Less(c, pos)
  BY DEF Down, Sinks
<1>5. DownOrder(Deadlines, Size, f, start, pos)
  BY <1>1 DEF IInv, HeapOrder
<1>6. f \in Nat /\ f <= start
  BY <1>1
<1>7. f' = f
  BY <1>3
<1> HIDE DEF c, f
<1>8. c \in 1 .. Size /\ c > pos
  BY <1>1, <1>2 DEF LeastChild
<1>9. /\ ArrayTypes' /\ Len(array') = Len(array)
      /\ Deadlines' = Exchanged(Deadlines, pos, c)
  BY <1>1, <1>3, <1>8, SwapEffect DEF IInv
<1>10. Size' = Size
  BY <1>1, <1>3, <1>9 DEF Size
<1>11. Deadlines[c] < Deadlines[pos]
  BY <1>1, <1>4, <1>8, ArrayFacts DEF Less, IInv
<1>12. DownOrder(Exchanged(Deadlines, pos, c), Size, f, start, c)
  <2>1. Deadlines \in [1 .. Len(array) -> Int] /\ start \in Nat /\ start <= pos
    BY <1>1, ArrayFacts DEF IInv
  <2> QED
    BY <1>1, <1>2, <1>5, <1>6, <1>8, <1>11, <2>1, DownRound
<1>13. HeapOrder'
  BY <1>3, <1>7, <1>9, <1>10, <1>12 DEF HeapOrder, f
<1>14. InHeap'
  BY <1>1, <1>3, <1>8, <1>10 DEF InHeap
<1>15. LoopTypes'
  BY <1>1, <1>3, <1>8, <1>9 DEF LoopTypes, IInv, TypeOK, Labels
<1> QED
  BY <1>9, <1>13, <1>14, <1>15 DEF IInv, TypeOK, ArrayTypes, LoopTypes

\* The end of down: the order holds from the parents on that it has looked at,
\* and Remove has moved the item down or has to move it up.
LEMMA StepDownEnds ==
    ASSUME IInv, DownEnds
    PROVE  IInv'
<1> DEFINE f == IF op = "init" THEN start ELSE 1
<1>1. /\ Len(array) \in Nat /\ Size \in 0 .. Len(array)
      /\ pos \in 1 .. Len(array)
      /\ start \in 1 .. pos
      /\ op \in {"remove", "init", "runDue"} /\ pc = "down"
      /\ op # "runDue" => pos <= Size
      /\ op = "runDue" => start = 1
  BY ArrayFacts, SizeFacts DEF IInv, TypeOK, Labels, InHeap, DownEnds
<1>2. ArrayTypes' /\ Len(array') = Len(array) /\ Deadlines' = Deadlines
  BY Elsewhere DEF DownEnds, queueVars
<1>3. ASSUME NEW i \in 2 .. Size, i \div 2 = pos
      PROVE  Deadlines[pos] <= Deadlines[i]
  <2>1. 2 * pos <= Size
    BY <1>1, <1>3, Half
  <2>2. LeastChild(Deadlines, Size, pos, Child(pos))
    BY <1>1, <2>1, ChildFacts DEF IInv
  <2>3. Child(pos) \in 1 .. Len(array)
    BY <1>1, <2>2 DEF LeastChild
  <2>4. ~Less(Child(pos), pos)
    BY <2>1 DEF DownEnds, Sinks
  <2>5. Deadlines[pos] <= Deadlines[Child(pos)]
    BY <1>1, <2>3, <2>4, ArrayFacts DEF Less, IInv
  <2>6. Deadlines[Child(pos)] <= Deadlines[i]
    BY <1>3, <2>2 DEF LeastChild
  <2>7. Deadlines[pos] \in Int /\ Deadlines[Child(pos)] \in Int /\ Deadlines[i] \in Int
    BY <1>1, <2>3, ArrayFacts DEF IInv
  <2> QED
    BY <2>5, <2>6, <2>7
<1>4. DownOrder(Deadlines, Size, f, start, pos)
  BY <1>1 DEF IInv, HeapOrder
<1>5. f \in Nat /\ f <= start
  BY <1>1
<1> HIDE DEF f
<1>6. \A i \in 2 .. Size :
         f <= i \div 2 /\ ~(i = pos /\ pos = start) => Deadlines[i \div 2] <= Deadlines[i]
  <2>1. Deadlines \in [1 .. Len(array) -> Int] /\ start \in Nat /\ pos \in Nat
    BY <1>1, ArrayFacts DEF IInv
  <2> QED
    BY <1>1, <1>3, <1>4, <1>5, <2>1, DownDone
<1>7. f = 1 /\ (start = 1 \/ pos > start) => InOrder(Deadlines, Size)
  BY <1>1, <1>6, Half DEF InOrder
<1>8. CASE (op = "runDue" \/ (op = "remove" /\ pos > start)) /\ GoOn(op, "pop")
  <2>1. op' = op /\ pc' = "pop" /\ pos' = 0 /\ start' = 0
    BY <1>8 DEF GoOn, At
  <2>2. Size' = Size
    BY <1>1, <1>2, <2>1 DEF Size
  <2>3. f = 1
    BY <1>8 DEF f
  <2>4. HeapOrder' /\ InHeap'
    BY <1>1, <1>2, <1>7, <1>8, <2>1, <2>2, <2>3 DEF HeapOrder, InHeap
  <2>5. LoopTypes'
    BY <1>1, <1>2, <1>8, <2>1 DEF LoopTypes, Labels
  <2> QED
    BY <1>2, <2>4, <2>5 DEF IInv, TypeOK, ArrayTypes, LoopTypes
<1>9. CASE op = "remove" /\ pos = start /\ Sift(op, "up", pos)
  <2>1. op' = op /\ pc' = "up" /\ pos' = pos /\ start' = pos
    BY <1>9 DEF Sift, At
  <2>2. Size' = Size
    BY <1>1, <1>2, <1>9, <2>1 DEF Size
  <2>3. f = 1
    BY <1>9 DEF f
  <2>4. UpOrder(Deadlines, Size, pos)
    <3>1. SUFFICES ASSUME NEW i \in 2 .. Size
                   PROVE  /\ i # pos => Deadlines[i \div 2] <= Deadlines[i]
                          /\ i \div 2 = pos /\ pos > 1
                               => Deadlines[pos \div 2] <= Deadlines[i]
      BY DEF UpOrder
    <3>2. 1 <= i \div 2
      BY Half
    <3>3. i # pos => Deadlines[i \div 2] <= Deadlines[i]
      BY <1>6, <2>3, <3>2
    <3>4. pos > 1 => 1 <= pos \div 2
      BY <1>1, Half
    <3>5. i \div 2 = pos /\ pos > 1 => Deadlines[pos \div 2] <= Deadlines[i]
      BY <1>4, <2>3, <3>4 DEF DownOrder
    <3> QED
      BY <3>3, <3>5
  <2>5. HeapOrder' /\ InHeap'
    BY <1>1, <1>2, <1>9, <2>1, <2>2, <2>4 DEF HeapOrder, InHeap
  <2>6. LoopTypes'
    BY <1>1, <1>2, <1>9, <2>1 DEF LoopTypes, Labels
  <2> QED
    BY <1>2, <2>5, <2>6 DEF IInv, TypeOK, ArrayTypes, LoopTypes
<1>10. CASE op = "init" /\ start > 1 /\ Sift(op, "down", start - 1)
  <2>1. op' = op /\ pc' = "down" /\ pos' = start - 1 /\ start' = start - 1
    BY <1>10 DEF Sift, At
  <2>2. Size' = Size
    BY <1>1, <1>2, <1>10, <2>1 DEF Size
  <2>3. f = start
    BY <1>10 DEF f
  <2>4. DownOrder(Deadlines, Size, start - 1, start - 1, start - 1)
    <3>1. SUFFICES ASSUME NEW i \in 2 .. Size
                   PROVE  /\ start - 1 <= i \div 2 /\ i \div 2 # start - 1
                               => Deadlines[i \div 2] <= Deadlines[i]
                          /\ ~(start - 1 <= (start - 1) \div 2)
      BY DEF DownOrder
    <3>2. start - 1 <= i \div 2 /\ i \div 2 # start - 1 => start <= i \div 2 /\ i # start
      BY <1>1, Half
    <3>3. start - 1 <= i \div 2 /\ i \div 2 # start - 1
             => Deadlines[i \div 2] <= Deadlines[i]
      BY <1>6, <2>3, <3>2
    <3>4. start - 1 \in Nat /\ start - 1 >= 1
      BY <1>1, <1>10
    <3>5. ~(start - 1 <= (start - 1) \div 2)
      BY <3>4, Half
    <3> QED
      BY <3>3, <3>5
  <2>5. HeapOrder' /\ InHeap'
    BY <1>1, <1>2, <1>10, <2>1, <2>2, <2>4 DEF HeapOrder, InHeap
  <2>6. LoopTypes'
    BY <1>1, <1>2, <1>10, <2>1 DEF LoopTypes, Labels
  <2> QED
    BY <1>2, <2>5, <2>6 DEF IInv, TypeOK, ArrayTypes, LoopTypes
<1>11. CASE op = "init" /\ start = 1 /\ GoOn("runDue", "sweep")
  <2>1. op' = "runDue" /\ pc' = "sweep" /\ pos' = 0 /\ start' = 0
    BY <1>11 DEF GoOn, At
  <2>2. Size' = Size
    BY <1>1, <1>2, <1>11, <2>1 DEF Size
  <2>3. f = 1
    BY <1>11 DEF f
  <2>4. HeapOrder' /\ InHeap'
    BY <1>2, <1>7, <1>11, <2>1, <2>2, <2>3 DEF HeapOrder, InHeap
  <2>5. LoopTypes'
    BY <1>1, <1>2, <2>1 DEF LoopTypes, Labels
  <2> QED
    BY <1>2, <2>4, <2>5 DEF IInv, TypeOK, ArrayTypes, LoopTypes
<1> QED
  BY <1>8, <1>9, <1>10, <1>11 DEF DownEnds, GoOn, Sift, At

\* A sequence without its last element.
LEMMA AllButLast ==
    ASSUME NEW S, NEW s \in Seq(S), Len(s) > 0
    PROVE  /\ SubSeq(s, 1, Len(s) - 1) \in Seq(S)
           /\ Len(SubSeq(s, 1, Len(s) - 1)) = Len(s) - 1
           /\ \A i \in 1 .. Len(s) - 1 : SubSeq(s, 1, Len(s) - 1)[i] = s[i]
<1> DEFINE m == Len(s) - 1
<1>1. m \in 1 - 1 .. Len(s) /\ 1 \in 1 .. Len(s) + 1 /\ m - 1 + 1 = m
  OBVIOUS
<1> HIDE DEF m
<1>2. /\ SubSeq(s, 1, m) \in Seq(S)
      /\ Len(SubSeq(s, 1, m)) = m - 1 + 1
      /\ \A i \in 1 .. m - 1 + 1 : SubSeq(s, 1, m)[i] = s[1 + i - 1]
  BY <1>1, SubSeqProperties
<1>3. \A i \in 1 .. m : 1 + i - 1 = i
  BY <1>1
<1> QED
  BY <1>1, <1>2, <1>3 DEF m

\* Pop drops what is behind the heap.
LEMMA StepPopLast ==
    ASSUME IInv, PopLast
    PROVE  IInv'
<1> DEFINE n == Len(array)
           last == array[Len(array)]
<1>1. /\ n \in Nat /\ n > 0 /\ DOMAIN array = 1 .. n
      /\ pc = "pop" /\ op \in {"remove", "runDue"}
      /\ Size = n - 1
  BY ArrayFacts, SizeFacts DEF IInv, TypeOK, Labels, PopLast
<1>2. /\ last \in Keys
      /\ \A i \in 1 .. n : array[i] \in Keys
      /\ \A i \in 1 .. n - 1 : array[i] # last
  BY <1>1, ArrayFacts DEF IInv
<1>3. /\ array' = SubSeq(array, 1, n - 1)
      /\ due' = [due EXCEPT ![last] = 0]
      /\ index' = [index EXCEPT ![last] = -1]
      /\ now' = now
  BY DEF PopLast
<1>4. /\ pos' = 0 /\ start' = 0
      /\ \/ op = "remove" /\ op' = "none" /\ pc' = "idle"
         \/ op = "runDue" /\ op' = "runDue" /\ pc' = "sweep"
  BY <1>1 DEF PopLast, GoOn, At
<1>5. array \in Seq(Keys)
  BY DEF IInv, TypeOK
<1> HIDE DEF n, last
<1>6. /\ array' \in Seq(Keys) /\ Len(array') = n - 1 /\ DOMAIN array' = 1 .. n - 1
      /\ \A i \in 1 .. n - 1 : array'[i] = array[i]
  <2>1. /\ array' \in Seq(Keys) /\ Len(array') = n - 1
        /\ \A i \in 1 .. n - 1 : array'[i] = array[i]
    BY <1>1, <1>3, <1>5, AllButLast DEF n
  <2> QED
    BY <1>1, <2>1
<1>7. Size' = n - 1
  BY <1>4, <1>6 DEF Size
<1>8. /\ due \in [Keys -> 0 .. MaxNow + MaxWait] /\ now \in 0 .. MaxNow
      /\ index \in [Keys -> -1 .. n - 1]
      /\ \A k \in Keys \ Range(array) : index[k] = -1
      /\ \A i \in 1 .. n : index[array[i]] = i - 1
  BY <1>1 DEF IInv, TypeOK, n
<1>9. ArrayTypes'
  <2>1. due' \in [Keys -> 0 .. MaxNow + MaxWait]
    BY <1>2, <1>3, <1>8, HeapAssumption
  <2>2. \A k \in Keys \ Range(array') : index'[k] = -1
    <3> SUFFICES ASSUME NEW k \in Keys, k \notin Range(array'), k # last
                 PROVE  index[k] = -1
      BY <1>2, <1>3, <1>8
    <3>1. \A i \in 1 .. n - 1 : array[i] # k
      BY <1>6 DEF Range
    <3>2. array[n] # k
      BY DEF n, last
    <3> QED
      BY <1>1, <1>8, <3>1, <3>2 DEF Range
  <2>3. \A i \in 1 .. n - 1 : index'[array'[i]] = i - 1
    BY <1>1, <1>2, <1>3, <1>6, <1>8
  <2>4. index' \in [Keys -> -1 .. n - 2]
    <3>1. ASSUME NEW k \in Keys
          PROVE  index'[k] \in -1 .. n - 2
      <4>1. CASE k \in Range(array')
        <5>1. PICK i \in 1 .. n - 1 : k = array'[i]
          BY <1>6, <4>1 DEF Range
        <5> QED
          BY <1>1, <2>3, <5>1
      <4>2. CASE k \notin Range(array')
        BY <1>1, <2>2, <4>2
      <4> QED
        BY <4>1, <4>2
    <3>2. index' = [k \in Keys |-> index'[k]]
      BY <1>3, <1>8
    <3> QED
      BY <3>1, <3>2
  <2> QED
    BY <1>1, <1>3, <1>6, <1>8, <2>1, <2>2, <2>3, <2>4 DEF ArrayTypes
<1>10. InOrder(Deadlines, n - 1)
  BY <1>1 DEF IInv, HeapOrder
<1>11. \A i \in 1 .. n - 1 : Deadlines'[i] = Deadlines[i]
  BY <1>1, <1>2, <1>3, <1>6, <1>8 DEF Deadlines
<1>12. InOrder(Deadlines', n - 1)
  <2>1. SUFFICES ASSUME NEW i \in 2 .. n - 1
                 PROVE  Deadlines'[i \div 2] <= Deadlines'[i]
    BY DEF InOrder
  <2>2. i \div 2 \in 1 .. n - 1
    BY <1>1, Half
  <2> QED
    BY <1>10, <1>11, <2>2 DEF InOrder
<1>13. HeapOrder' /\ InHeap'
  BY <1>4, <1>7, <1>12 DEF HeapOrder, InHeap
<1>14. LoopTypes'
  BY <1>4 DEF LoopTypes, Labels
<1> QED
  BY <1>9, <1>13, <1>14 DEF IInv, TypeOK, ArrayTypes, LoopTypes

----------------------------------------------------------------------------
(* The steps of the run loop                                               *)

\* A new item is behind all others, in the heap.
LEMMA StepPush ==
    ASSUME IInv, NEW k \in Keys, Push(k)
    PROVE  IInv'
<1> DEFINE n == Len(array)
<1>1. /\ n \in Nat /\ DOMAIN array = 1 .. n
      /\ pc = "idle" /\ op = "none" /\ Size = n
  BY ArrayFacts, SizeFacts DEF IInv, TypeOK, Labels, Push
<1>2. k \notin Range(array)
  BY DEF Push
<1>3. \A i \in 1 .. n : array[i] \in Keys /\ array[i] # k
  BY <1>1, <1>2, ArrayFacts DEF IInv, Range
<1>4. PICK w \in 0 .. MaxWait : due' = [due EXCEPT ![k] = now + w]
  BY DEF Push
<1>5. /\ array' = Append(array, k)
      /\ index' = [index EXCEPT ![k] = n]
      /\ now' = now
      /\ op' = "push" /\ pc' = "up" /\ pos' = n + 1 /\ start' = n + 1
  BY DEF Push, Sift, At
<1>6. /\ array \in Seq(Keys)
      /\ due \in [Keys -> 0 .. MaxNow + MaxWait] /\ now \in 0 .. MaxNow
      /\ index \in [Keys -> -1 .. n - 1]
      /\ \A j \in Keys \ Range(array) : index[j] = -1
      /\ \A i \in 1 .. n : index[array[i]] = i - 1
  BY <1>1 DEF IInv, TypeOK
<1> HIDE DEF n
<1>7. /\ array' \in Seq(Keys) /\ Len(array') = n + 1 /\ DOMAIN array' = 1 .. n + 1
      /\ array'[n + 1] = k
      /\ \A i \in 1 .. n : array'[i] = array[i]
  BY <1>1, <1>5, <1>6 DEF n
<1>8. Size' = n + 1
  BY <1>5, <1>7 DEF Size
<1>9. ArrayTypes'
  <2>1. due' \in [Keys -> 0 .. MaxNow + MaxWait]
    BY <1>4, <1>6, HeapAssumption
  <2>2. index' \in [Keys -> -1 .. n]
    BY <1>1, <1>5, <1>6
  <2>3. \A j \in Keys \ Range(array') : index'[j] = -1
    <3> SUFFICES ASSUME NEW j \in Keys, j \notin Range(array')
                 PROVE  index'[j] = -1
      OBVIOUS
    <3>1. \A i \in 1 .. n + 1 : array'[i] # j
      BY <1>7 DEF Range
    <3>2. j # k /\ \A i \in 1 .. n : array[i] # j
      BY <1>1, <1>7, <3>1
    <3> QED
      BY <1>1, <1>5, <1>6, <3>2 DEF Range
  <2>4. \A i \in 1 .. n + 1 : index'[array'[i]] = i - 1
    <3> SUFFICES ASSUME NEW i \in 1 .. n + 1
                 PROVE  index'[array'[i]] = i - 1
      OBVIOUS
    <3>1. CASE i = n + 1
      BY <1>1, <1>5, <1>6, <1>7, <3>1
    <3>2. CASE i \in 1 .. n
      BY <1>1, <1>3, <1>5, <1>6, <1>7, <3>2
    <3> QED
      BY <1>1, <3>1, <3>2
  <2> QED
    BY <1>1, <1>5, <1>6, <1>7, <2>1, <2>2, <2>3, <2>4 DEF ArrayTypes
<1>10. InOrder(Deadlines, n)
  BY <1>1 DEF IInv, HeapOrder
<1>11. \A i \in 1 .. n : Deadlines'[i] = Deadlines[i]
  BY <1>1, <1>3, <1>4, <1>6, <1>7 DEF Deadlines
<1>12. UpOrder(Deadlines', n + 1, n + 1)
  <2>1. SUFFICES ASSUME NEW i \in 2 .. n + 1
                 PROVE  /\ i # n + 1 => Deadlines'[i \div 2] <= Deadlines'[i]
                        /\ i \div 2 # n + 1
    BY <1>1 DEF UpOrder
  <2>2. i \div 2 \in 1 .. n
    BY <1>1, Half
  <2>3. i # n + 1 => Deadlines[i \div 2] <= Deadlines[i]
    BY <1>1, <1>10 DEF InOrder
  <2> QED
    BY <1>1, <1>11, <2>2, <2>3
<1>13. HeapOrder' /\ InHeap'
  BY <1>1, <1>5, <1>8, <1>12 DEF HeapOrder, InHeap
<1>14. LoopTypes'
  BY <1>1, <1>5, <1>7 DEF LoopTypes, Labels
<1> QED
  BY <1>9, <1>13, <1>14 DEF IInv, TypeOK, ArrayTypes, LoopTypes

\* What Remove and Pop have in common: an item is moved behind the heap and the
\* last one sifted down from its place.
LEMMA StepTakeOut ==
    ASSUME IInv, pc \in {"idle", "sweep"}, NEW i \in 1 .. Len(array),
           NEW what, what = "remove" \/ (what = "runDue" /\ i = 1),
           i # Len(array), Swap(i, Len(array)), Sift(what, "down", i),
           UNCHANGED <<due, now>>
    PROVE  IInv'
<1> DEFINE n == Len(array)
<1>1. n \in Nat /\ Size = n /\ n \in 1 .. n
  <2>1. n \in Nat /\ Size = n
    BY ArrayFacts, SizeFacts DEF IInv
  <2> QED
    BY <2>1
<1>2. /\ ArrayTypes' /\ Len(array') = n
      /\ Deadlines' = Exchanged(Deadlines, i, n)
  BY <1>1, SwapEffect DEF IInv
<1>3. op' = what /\ pc' = "down" /\ pos' = i /\ start' = i
  BY DEF Sift, At
<1> HIDE DEF n
<1>4. Size' = n - 1
  BY <1>2, <1>3 DEF Size
<1>5. DownOrder(Exchanged(Deadlines, i, n), n - 1, 1, i, i)
  <2>1. InOrder(Deadlines, n)
    BY <1>1 DEF IInv, HeapOrder
  <2>2. Deadlines \in [1 .. n -> Int] /\ i \in 1 .. n
    BY ArrayFacts DEF IInv, n
  <2> QED
    BY <1>1, <2>1, <2>2, DownStart
<1>6. HeapOrder'
  <2>1. (IF op' = "init" THEN start' ELSE 1) = 1
    BY <1>3
  <2>2. DownOrder(Deadlines', Size', IF op' = "init" THEN start' ELSE 1, start', pos')
    BY <1>2, <1>3, <1>4, <1>5, <2>1
  <2> QED
    BY <1>3, <2>2 DEF HeapOrder
<1>7. InHeap'
  BY <1>1, <1>3, <1>4 DEF InHeap, n
<1>8. LoopTypes'
  BY <1>1, <1>2, <1>3 DEF LoopTypes, Labels, n
<1> QED
  BY <1>2, <1>6, <1>7, <1>8 DEF IInv, TypeOK, ArrayTypes, LoopTypes

\* An item that is behind all others leaves the heap where it is.
LEMMA StepDrop ==
    ASSUME IInv, NEW k \in Keys, Drop(k)
    PROVE  IInv'
<1>1. pc = "idle" /\ UNCHANGED <<due, now>> /\ DOMAIN array = 1 .. Len(array)
  BY ArrayFacts DEF Drop, IInv
<1>2. PICK i \in 1 .. Len(array) :
         IF i = Len(array)
         THEN GoOn("remove", "pop") /\ UNCHANGED <<array, index>>
         ELSE Sift("remove", "down", i) /\ Swap(i, Len(array))
  BY <1>1 DEF Drop
<1>3. CASE i # Len(array)
  BY <1>1, <1>2, <1>3, StepTakeOut
<1>4. CASE i = Len(array)
  <2>1. /\ Len(array) \in Nat /\ Len(array) > 0 /\ Size = Len(array)
    BY <1>1, ArrayFacts, SizeFacts DEF IInv
  <2>2. ArrayTypes' /\ Len(array') = Len(array) /\ Deadlines' = Deadlines
    BY <1>1, <1>2, <1>4, Elsewhere
  <2>3. op' = "remove" /\ pc' = "pop" /\ pos' = 0 /\ start' = 0
    BY <1>2, <1>4 DEF GoOn, At
  <2>4. Size' = Len(array) - 1
    BY <2>2, <2>3 DEF Size
  <2>5. InOrder(Deadlines, Len(array) - 1)
    BY <1>1, <2>1 DEF IInv, HeapOrder, InOrder
  <2>6. HeapOrder' /\ InHeap'
    BY <2>2, <2>3, <2>4, <2>5 DEF HeapOrder, InHeap
  <2>7. LoopTypes'
    BY <2>1, <2>2, <2>3 DEF LoopTypes, Labels
  <2> QED
    BY <2>2, <2>6, <2>7 DEF IInv, TypeOK, ArrayTypes, LoopTypes
<1> QED
  BY <1>3, <1>4

\* runDue takes out the first item.
LEMMA StepSweep ==
    ASSUME IInv, Sweep
    PROVE  IInv'
<1>1. /\ pc = "sweep" /\ op = "runDue"
      /\ Len(array) \in Nat /\ 1 \in 1 .. Len(array) /\ Size = Len(array)
  BY ArrayFacts, SizeFacts DEF Sweep, FirstIsDue, IInv, TypeOK, Labels
<1>2. Swap(1, Len(array)) /\ Sift(op, "down", 1) /\ UNCHANGED <<due, now>>
  BY DEF Sweep
<1>3. CASE Len(array) # 1
  BY <1>1, <1>2, <1>3, StepTakeOut
<1>4. CASE Len(array) = 1
  <2>1. /\ array \in Seq(Keys) /\ index \in [Keys -> -1 .. Len(array) - 1]
        /\ \A i \in DOMAIN array : index[array[i]] = i - 1
    BY DEF IInv, TypeOK
  <2>0. array[1] \in Keys /\ index[array[1]] = 0
    BY <1>1, <2>1
  <2>2. array' = array /\ index' = index
    BY <1>1, <1>2, <1>4, <2>0, <2>1 DEF Swap
  <2>3. ArrayTypes' /\ Len(array') = Len(array) /\ Deadlines' = Deadlines
    BY <1>2, <2>2, Elsewhere
  <2>4. op' = "runDue" /\ pc' = "down" /\ pos' = 1 /\ start' = 1
    BY <1>1, <1>2 DEF Sift, At
  <2>5. Size' = 0
    BY <1>4, <2>3, <2>4 DEF Size
  <2>6. HeapOrder' /\ InHeap'
    BY <2>4, <2>5 DEF HeapOrder, InHeap, DownOrder
  <2>7. LoopTypes'
    BY <1>1, <2>3, <2>4 DEF LoopTypes, Labels
  <2> QED
    BY <2>3, <2>6, <2>7 DEF IInv, TypeOK, ArrayTypes, LoopTypes
<1> QED
  BY <1>3, <1>4

\* runDue begins and ends.
LEMMA StepSweeping ==
    ASSUME IInv, RunDue \/ SweepEnds
    PROVE  IInv'
<1>1. /\ pc \in {"idle", "sweep"} /\ UNCHANGED <<array, due, index, now>>
      /\ pos' = 0 /\ start' = 0
      /\ (op' = "none" /\ pc' = "idle") \/ (op' = "runDue" /\ pc' = "sweep")
  BY DEF RunDue, SweepEnds, queueVars, GoOn, At
<1>2. ArrayTypes' /\ Len(array') = Len(array) /\ Deadlines' = Deadlines
  BY <1>1, Elsewhere
<1>3. Size = Len(array) /\ Size' = Len(array)
  BY <1>1, <1>2, SizeFacts DEF IInv, Size
<1>4. HeapOrder' /\ InHeap'
  BY <1>1, <1>2, <1>3 DEF IInv, HeapOrder, InHeap
<1>5. LoopTypes'
  BY <1>1 DEF LoopTypes, Labels
<1> QED
  BY <1>2, <1>4, <1>5 DEF IInv, TypeOK, ArrayTypes, LoopTypes

\* With the deadlines overwritten Init has to sift from the last parent on;
\* what has no children is in order.
LEMMA StepTriggerAll ==
    ASSUME IInv, TriggerAll
    PROVE  IInv'
<1> DEFINE n == Len(array)
<1>1. n \in Nat /\ pc = "idle" /\ UNCHANGED <<array, index, now>>
  BY ArrayFacts DEF IInv, TriggerAll
<1>2. ArrayTypes'
  <2>1. ArrayTypes
    BY DEF IInv, TypeOK, ArrayTypes
  <2>2. due' \in [Keys -> 0 .. MaxNow + MaxWait]
    BY <2>1, HeapAssumption DEF TriggerAll, ArrayTypes
  <2> QED
    BY <1>1, <2>1, <2>2 DEF ArrayTypes
<1> HIDE DEF n
<1>3. CASE n > 1
  <2> DEFINE h == n \div 2
  <2>1. h \in 1 .. n
    BY <1>1, <1>3, Half
  <2>2. op' = "init" /\ pc' = "down" /\ pos' = h /\ start' = h
    BY <1>3 DEF TriggerAll, Sift, At, n
  <2>3. Size' = n
    BY <1>1, <2>2 DEF Size, n
  <2>4. DownOrder(Deadlines', n, h, h, h)
    <3>1. SUFFICES ASSUME NEW i \in 2 .. n
                   PROVE  ~(h <= i \div 2 /\ i \div 2 # h) /\ ~(h <= h \div 2)
      BY DEF DownOrder
    <3>2. ~(h <= h \div 2)
      BY <2>1, Half
    <3>3. ~(h <= i \div 2 /\ i \div 2 # h)
      BY <1>1, Half
    <3> QED
      BY <3>2, <3>3
  <2> HIDE DEF h
  <2>5. HeapOrder' /\ InHeap'
    BY <1>1, <2>1, <2>2, <2>3, <2>4 DEF HeapOrder, InHeap
  <2>6. LoopTypes'
    BY <1>1, <2>1, <2>2 DEF LoopTypes, Labels, n
  <2> QED
    BY <1>2, <2>5, <2>6 DEF IInv, TypeOK, ArrayTypes, LoopTypes
<1>4. CASE ~(n > 1)
  <2>1. op' = "runDue" /\ pc' = "sweep" /\ pos' = 0 /\ start' = 0
    BY <1>4 DEF TriggerAll, GoOn, At, n
  <2>2. Size' = n
    BY <1>1, <2>1 DEF Size, n
  <2>3. InOrder(Deadlines', n)
    BY <1>1, <1>4 DEF InOrder
  <2>4. HeapOrder' /\ InHeap'
    BY <2>1, <2>2, <2>3 DEF HeapOrder, InHeap
  <2>5. LoopTypes'
    BY <2>1 DEF LoopTypes, Labels
  <2> QED
    BY <1>2, <2>4, <2>5 DEF IInv, TypeOK, ArrayTypes, LoopTypes
<1> QED
  BY <1>3, <1>4

\* Time passes between two operations; a stuttering step changes nothing.
LEMMA StepTick ==
    ASSUME IInv, Tick \/ UNCHANGED vars
    PROVE  IInv'
<1>1. /\ UNCHANGED <<array, due, index, op, pc, pos, start>>
      /\ now' \in 0 .. MaxNow
  BY HeapAssumption DEF Tick, vars, queueVars, loopVars, IInv, TypeOK
<1>2. Size' = Size /\ Deadlines' = Deadlines
  BY <1>1 DEF Size, Deadlines
<1>3. HeapOrder' /\ InHeap'
  BY <1>1, <1>2 DEF IInv, HeapOrder, InHeap
<1>4. TypeOK'
  BY <1>1 DEF IInv, TypeOK
<1> QED
  BY <1>3, <1>4 DEF IInv

----------------------------------------------------------------------------
(* The theorems                                                            *)

\* The empty heap is in order.
LEMMA InitInv == Init => IInv
<1> SUFFICES ASSUME Init PROVE IInv
  OBVIOUS
<1>1. array = <<>> /\ Len(array) = 0 /\ pc = "idle" /\ op = "none" /\ pos = 0 /\ start = 0
  BY DEF Init
<1>2. TypeOK
  BY <1>1, HeapAssumption DEF Init, TypeOK, Labels
<1>3. Size = 0
  BY <1>1 DEF Size
<1> QED
  BY <1>1, <1>2, <1>3 DEF IInv, InHeap, HeapOrder, InOrder

\* The inductive invariant holds in every state.
THEOREM HeapInvariant == Spec => []IInv
<1>1. IInv /\ [Next]_vars => IInv'
  BY StepPush, StepDrop, StepSweeping, StepSweep, StepTriggerAll, StepUp, StepUpEnds,
     StepDown, StepDownEnds, StepPopLast, StepTick DEF Next
<1> QED
  BY <1>1, InitInv, PTL DEF Spec

\* The types, and the items' indices, for any keys.
THEOREM TypeCorrect == Spec => []TypeOK
<1>1. IInv => TypeOK
  BY DEF IInv
<1> QED
  BY <1>1, HeapInvariant, PTL

\* In heap order the first item of the array is the earliest.
LEMMA PeekFromOrder ==
    ASSUME IInv
    PROVE  PeekIsEarliest
<1> SUFFICES ASSUME pc \in {"idle", "sweep"}, NEW i \in DOMAIN array
             PROVE  due[array[1]] <= due[array[i]]
  BY DEF PeekIsEarliest
<1>1. /\ Len(array) \in Nat /\ i \in 1 .. Len(array) /\ 1 \in 1 .. Len(array)
      /\ Deadlines \in [1 .. Len(array) -> Int]
      /\ Deadlines[1] = due[array[1]] /\ Deadlines[i] = due[array[i]]
  BY ArrayFacts DEF IInv
<1>2. InOrder(Deadlines, Len(array))
  BY SizeFacts DEF IInv, HeapOrder
<1>3. Deadlines[1] <= Deadlines[i]
  BY <1>1, <1>2, FirstIsLeast
<1> QED
  BY <1>1, <1>3

\* What peek returns is due first, for heaps of any size and any deadlines.
THEOREM PeekCorrect == Spec => []PeekIsEarliest
BY PeekFromOrder, HeapInvariant, PTL

----------------------------------------------------------------------------
(* The heap implements the queue                                           *)

Entry(i) == [key |-> array[i], due |-> due[array[i]]]
FirstItems(n) == {Entry(i) : i \in 1 .. n}
Overdue(items) == {it \in items : it.due > now}
Mapped == IF op \in {"init", "runDue"} THEN Overdue(FirstItems(Size)) ELSE FirstItems(Size)

\* The queue that the heap stands for.
LEMMA QueueIsMapped ==
    /\ Queue!Init <=> Mapped = {} /\ now = 0
    /\ Queue!vars = <<Mapped, now>>
    /\ Queue!Next <=>
          \/ \E k \in Keys :
               /\ k \notin {it.key : it \in Mapped}
               /\ \E w \in 0 .. MaxWait : Mapped' = Mapped \cup {[key |-> k, due |-> now + w]}
               /\ UNCHANGED now
          \/ \E k \in Keys : Mapped' = {it \in Mapped : it.key # k} /\ UNCHANGED now
          \/ Mapped' = {it \in Mapped : it.due > now} /\ UNCHANGED now
          \/ Mapped' = {} /\ UNCHANGED now
          \/ now' = now + 1 /\ UNCHANGED Mapped
BY DEF Queue!Init, Queue!vars, Queue!Next, Queue!Push, Queue!Drop, Queue!RunDue,
       Queue!TriggerAll, Queue!Tick, Queue!Queued, Mapped, Overdue, FirstItems, Entry, Contents

\* Exchanging two items of the heap changes no item.
LEMMA SwapKeepsItems ==
    ASSUME TypeOK, NEW n \in 0 .. Len(array),
           NEW i \in 1 .. n, NEW j \in 1 .. n, i # j,
           Swap(i, j), UNCHANGED <<due, now>>
    PROVE  FirstItems(n)' = FirstItems(n)
<1>1. Len(array) \in Nat
  BY ArrayFacts
<1>2. \A q \in 1 .. n :
         array'[q] = IF q = i THEN array[j] ELSE IF q = j THEN array[i] ELSE array[q]
  BY <1>1, SwapEffect
<1>3. \A q \in 1 .. n :
         Entry(q)' = IF q = i THEN Entry(j) ELSE IF q = j THEN Entry(i) ELSE Entry(q)
  BY <1>2 DEF Entry
<1> QED
  BY <1>3 DEF FirstItems

\* The loops of container/heap and checkHeap.Pop do nothing to the queue.
LEMMA HeapStutters ==
    ASSUME IInv, Up \/ UpEnds \/ Down \/ DownEnds \/ PopLast
    PROVE  Mapped' = Mapped /\ now' = now
<1>0. /\ Len(array) \in Nat /\ Size \in 0 .. Len(array)
      /\ TypeOK
  BY ArrayFacts, SizeFacts DEF IInv
<1>1. ASSUME UNCHANGED <<array, due, now>>, Size' = Size,
             op \in {"init", "runDue"} <=> op' \in {"init", "runDue"}
      PROVE  Mapped' = Mapped
  BY <1>1 DEF Mapped, Overdue, FirstItems, Entry
<1>2. ASSUME FirstItems(Size)' = FirstItems(Size), UNCHANGED <<op, now>>
      PROVE  Mapped' = Mapped
  BY <1>2 DEF Mapped, Overdue
<1>3. ASSUME NEW i \in 1 .. Size, NEW j \in 1 .. Size, i # j, Swap(i, j), Size' = Size,
             UNCHANGED <<op, due, now>>
      PROVE  Mapped' = Mapped
  <2>1. FirstItems(Size)' = FirstItems(Size)
    <3> DEFINE n == Size
    <3>1. n \in 0 .. Len(array) /\ i \in 1 .. n /\ j \in 1 .. n /\ n' = n
      BY <1>0, <1>3
    <3> HIDE DEF n
    <3>2. {Entry(q)' : q \in 1 .. n} = {Entry(q) : q \in 1 .. n}
      BY <1>0, <1>3, <3>1, SwapKeepsItems DEF FirstItems
    <3> QED
      BY <3>1, <3>2 DEF FirstItems, n
  <2> QED
    BY <1>2, <1>3, <2>1
<1>4. CASE Up
  <2>1. /\ pos \in 2 .. Size /\ pc = "up" /\ op \in {"push", "remove"}
    BY <1>0, <1>4 DEF IInv, TypeOK, Labels, InHeap, Up, Rises
  <2>2. pos \div 2 \in 1 .. Size /\ pos \div 2 # pos
    BY <1>0, <2>1, Half
  <2>3. Swap(pos \div 2, pos) /\ pc' = pc /\ UNCHANGED <<op, due, now>>
    BY <1>4, <2>1 DEF Up, At
  <2>4. Len(array') = Len(array)
    BY <1>0, <2>1, <2>2, <2>3, SwapEffect
  <2>5. Size' = Size
    BY <2>3, <2>4 DEF Size
  <2> QED
    BY <1>0, <1>3, <2>1, <2>2, <2>3, <2>5
<1>5. CASE UpEnds
  <2>1. /\ pc = "up" /\ UNCHANGED <<array, due, now>>
        /\ (op = "push" /\ op' = "none" /\ pc' = "idle") \/ (op' = op /\ pc' = "pop")
        /\ op \in {"push", "remove"}
    BY <1>0, <1>5 DEF UpEnds, GoOn, At, queueVars, TypeOK, Labels
  <2>2. Size' = Size
    BY <2>1 DEF Size
  <2> QED
    BY <1>1, <2>1, <2>2
<1>6. CASE Down
  <2>1. pc = "down" /\ 2 * pos <= Size /\ pos \in 1 .. Len(array)
    BY <1>0, <1>6 DEF Down, Sinks, TypeOK
  <2>2. LeastChild(Deadlines, Size, pos, Child(pos))
    BY <1>0, <2>1, ChildFacts
  <2>3. pos \in 1 .. Size /\ Child(pos) \in 1 .. Size /\ Child(pos) # pos
    BY <1>0, <2>1, <2>2 DEF LeastChild
  <2>4. Swap(pos, Child(pos)) /\ pc' = pc /\ UNCHANGED <<op, due, now>>
    BY <1>6, <2>1 DEF Down, At
  <2>5. Len(array') = Len(array)
    BY <1>0, <2>1, <2>3, <2>4, SwapEffect
  <2>6. Size' = Size
    BY <2>4, <2>5 DEF Size
  <2> QED
    BY <1>0, <1>3, <2>3, <2>4, <2>6
<1>7. CASE DownEnds
  <2>1. /\ pc = "down" /\ UNCHANGED <<array, due, now>>
        /\ \/ op' = op /\ pc' \in {"pop", "up", "down"}
           \/ op = "init" /\ op' = "runDue" /\ pc' = "sweep"
    BY <1>7 DEF DownEnds, GoOn, Sift, At, queueVars
  <2>2. op \in {"remove", "init", "runDue"}
    BY <1>0, <2>1 DEF TypeOK, Labels
  <2>3. Size' = Size
    BY <2>1, <2>2 DEF Size
  <2> QED
    BY <1>1, <2>1, <2>2, <2>3
<1>8. CASE PopLast
  <2>1. /\ pc = "pop" /\ op \in {"remove", "runDue"} /\ Size = Len(array) - 1
        /\ Len(array) > 0 /\ array \in Seq(Keys)
    BY <1>0, <1>8, SizeFacts DEF PopLast, TypeOK, Labels
  <2>2. /\ array' = SubSeq(array, 1, Len(array) - 1)
        /\ due' = [due EXCEPT ![array[Len(array)]] = 0]
        /\ now' = now
        /\ \/ op = "remove" /\ op' = "none" /\ pc' = "idle"
           \/ op = "runDue" /\ op' = "runDue" /\ pc' = "sweep"
    BY <1>8, <2>1 DEF PopLast, GoOn, At
  <2>3. Len(array') = Size /\ \A i \in 1 .. Size : array'[i] = array[i]
    BY <2>1, <2>2, AllButLast
  <2>4. Size' = Size
    BY <2>2, <2>3 DEF Size
  <2>5. \A i \in 1 .. Size : array[i] \in Keys /\ array[i] # array[Len(array)]
    BY <1>0, <2>1, ArrayFacts
  <2>6. due \in [Keys -> 0 .. MaxNow + MaxWait]
    BY <1>0 DEF TypeOK
  <2>7. \A i \in 1 .. Size : due'[array[i]] = due[array[i]]
    BY <2>2, <2>5, <2>6
  <2>8. \A i \in 1 .. Size : Entry(i)' = Entry(i)
    BY <2>3, <2>7 DEF Entry
  <2>9. FirstItems(Size)' = FirstItems(Size)
    BY <2>4, <2>8 DEF FirstItems
  <2> QED
    BY <2>2, <2>9 DEF Mapped, Overdue
<1>9. now' = now
  BY DEF Up, UpEnds, Down, DownEnds, PopLast
<1> QED
  BY <1>4, <1>5, <1>6, <1>7, <1>8, <1>9

\* A push is a push of the queue.
LEMMA PushIsPush ==
    ASSUME IInv, NEW k \in Keys, Push(k)
    PROVE  /\ k \notin {it.key : it \in Mapped}
           /\ \E w \in 0 .. MaxWait : Mapped' = Mapped \cup {[key |-> k, due |-> now + w]}
           /\ UNCHANGED now
<1> DEFINE n == Len(array)
<1>1. /\ n \in Nat /\ DOMAIN array = 1 .. n
      /\ pc = "idle" /\ op = "none" /\ Size = n
  BY ArrayFacts, SizeFacts DEF IInv, TypeOK, Labels, Push
<1>2. \A i \in 1 .. n : array[i] \in Keys /\ array[i] # k
  <2>1. k \notin Range(array)
    BY DEF Push
  <2> QED
    BY <1>1, <2>1, ArrayFacts DEF IInv, Range
<1>3. PICK w \in 0 .. MaxWait : due' = [due EXCEPT ![k] = now + w]
  BY DEF Push
<1>4. array' = Append(array, k) /\ now' = now /\ op' = "push" /\ pc' = "up"
  BY DEF Push, Sift, At
<1>5. array \in Seq(Keys) /\ due \in [Keys -> 0 .. MaxNow + MaxWait]
  BY DEF IInv, TypeOK
<1> HIDE DEF n
<1>6. /\ Len(array') = n + 1 /\ array'[n + 1] = k
      /\ \A i \in 1 .. n : array'[i] = array[i]
  BY <1>1, <1>4, <1>5 DEF n
<1>7. Size' = n + 1
  BY <1>4, <1>6 DEF Size
<1>9. FirstItems(Size)' = FirstItems(Size) \cup {[key |-> k, due |-> now + w]}
  <2>1. FirstItems(Size)' = {[key |-> array'[i], due |-> due'[array'[i]]] : i \in 1 .. n + 1}
    BY <1>7 DEF FirstItems, Entry
  <2>2. FirstItems(Size) = {[key |-> array[i], due |-> due[array[i]]] : i \in 1 .. n}
    BY <1>1 DEF FirstItems, Entry
  <2>3. \A i \in 1 .. n : due'[array'[i]] = due[array[i]] /\ array'[i] = array[i]
    BY <1>2, <1>3, <1>5, <1>6
  <2>4. array'[n + 1] = k /\ due'[array'[n + 1]] = now + w
    BY <1>3, <1>5, <1>6
  <2>5. 1 .. n + 1 = (1 .. n) \cup {n + 1}
    BY <1>1
  <2> QED
    BY <2>1, <2>2, <2>3, <2>4, <2>5
<1>10. Mapped = FirstItems(Size) /\ Mapped' = FirstItems(Size)'
  BY <1>1, <1>4 DEF Mapped
<1>11. k \notin {it.key : it \in Mapped}
  BY <1>1, <1>2, <1>10 DEF FirstItems, Entry
<1> QED
  BY <1>4, <1>9, <1>10, <1>11

\* An item that is moved behind the heap leaves the queue, and no other does.
LEMMA DropIsDrop ==
    ASSUME IInv, NEW k \in Keys, Drop(k)
    PROVE  Mapped' = {it \in Mapped : it.key # k} /\ UNCHANGED now
<1> DEFINE n == Len(array)
<1>1. /\ n \in Nat /\ DOMAIN array = 1 .. n
      /\ pc = "idle" /\ op = "none" /\ Size = n /\ TypeOK
  BY ArrayFacts, SizeFacts DEF IInv, TypeOK, Labels, Drop
<1>2. PICK i \in 1 .. n :
         /\ array[i] = k
         /\ IF i = Len(array)
            THEN GoOn("remove", "pop") /\ UNCHANGED <<array, index>>
            ELSE Sift("remove", "down", i) /\ Swap(i, Len(array))
  BY <1>1 DEF Drop
<1>3. UNCHANGED <<due, now>> /\ op' = "remove" /\ pc' \in {"pop", "down"}
  BY <1>2 DEF Drop, GoOn, Sift, At
<1>4. /\ Len(array') = n
      /\ \A q \in 1 .. n - 1 : array'[q] = IF q = i THEN array[n] ELSE array[q]
  <2>1. CASE i = n
    BY <1>1, <1>2, <2>1
  <2>2. CASE i # n
    <3>1. n \in 1 .. n
      BY <1>1
    <3>2. Swap(i, Len(array))
      BY <1>2, <2>2
    <3>3. /\ Len(array') = n
          /\ \A q \in 1 .. n :
               array'[q] = IF q = i THEN array[n] ELSE IF q = n THEN array[i] ELSE array[q]
      BY <1>1, <1>3, <2>2, <3>1, <3>2, SwapEffect
    <3>4. n \in Nat
      BY <1>1
    <3> HIDE DEF n
    <3> QED
      BY <3>3, <3>4
  <2> QED
    BY <2>1, <2>2
<1>5. \A p, q \in 1 .. n : array[p] = array[q] => p = q
  BY <1>1, ArrayFacts
<1> HIDE DEF n
<1>6. Size' = n - 1
  BY <1>3, <1>4 DEF Size
<1>7. Mapped' = {[key |-> array'[q], due |-> due[array'[q]]] : q \in 1 .. n - 1}
  BY <1>3, <1>6 DEF Mapped, FirstItems, Entry
<1>8. Mapped = {[key |-> array[q], due |-> due[array[q]]] : q \in 1 .. n}
  BY <1>1 DEF Mapped, FirstItems, Entry
<1>9. ASSUME NEW q \in 1 .. n - 1
      PROVE  array'[q] # k /\ \E p \in 1 .. n : array'[q] = array[p]
  <2>1. CASE q = i
    BY <1>1, <1>2, <1>4, <1>5, <2>1
  <2>2. CASE q # i
    BY <1>1, <1>2, <1>4, <1>5, <2>2
  <2> QED
    BY <2>1, <2>2
<1>10. ASSUME NEW p \in 1 .. n, array[p] # k
       PROVE  \E q \in 1 .. n - 1 : array'[q] = array[p]
  <2>1. CASE p = n
    BY <1>1, <1>2, <1>4, <1>10, <2>1
  <2>2. CASE p # n
    BY <1>1, <1>2, <1>4, <1>10, <2>2
  <2> QED
    BY <2>1, <2>2
<1> QED
  BY <1>3, <1>7, <1>8, <1>9, <1>10

\* runDue takes what is due from the queue when it begins, keeps the promise
\* item by item, and has kept it when it ends, because the first item is the
\* earliest.
LEMMA SweepIsRunDue ==
    ASSUME IInv
    PROVE  /\ RunDue => Mapped' = {it \in Mapped : it.due > now} /\ UNCHANGED now
           /\ Sweep \/ SweepEnds => UNCHANGED <<Mapped, now>>
<1>1. /\ Len(array) \in Nat /\ TypeOK
      /\ \A i \in 1 .. Len(array) : due[array[i]] \in Int
      /\ now \in Int
      /\ pc \in {"idle", "sweep"} => Size = Len(array)
  BY ArrayFacts, SizeFacts DEF IInv
<1>2. ASSUME RunDue
      PROVE  Mapped' = {it \in Mapped : it.due > now} /\ UNCHANGED now
  <2>1. /\ pc = "idle" /\ op = "none" /\ op' = "runDue" /\ pc' = "sweep"
        /\ UNCHANGED <<array, due, now>>
    BY <1>1, <1>2 DEF RunDue, GoOn, At, queueVars, TypeOK, Labels
  <2>2. Size' = Size
    BY <1>1, <2>1 DEF Size
  <2>3. FirstItems(Size)' = FirstItems(Size)
    BY <2>1, <2>2 DEF FirstItems, Entry
  <2> QED
    BY <2>1, <2>3 DEF Mapped, Overdue
<1>3. ASSUME Sweep
      PROVE  UNCHANGED <<Mapped, now>>
  <2>1. /\ pc = "sweep" /\ op = "runDue" /\ Len(array) > 0 /\ due[array[1]] <= now
        /\ Swap(1, Len(array)) /\ op' = "runDue" /\ pc' = "down"
        /\ UNCHANGED <<due, now>>
    BY <1>1, <1>3 DEF Sweep, FirstIsDue, Sift, At, TypeOK, Labels
  <2> DEFINE n == Len(array)
  <2>2. n \in 1 .. n /\ 1 \in 1 .. n /\ Size = n
    BY <1>1, <2>1
  <2>3. /\ Len(array') = n
        /\ \A q \in 1 .. n - 1 : array'[q] = IF q = 1 THEN array[n] ELSE array[q]
    <3>1. CASE n = 1
      BY <1>1, <2>1, <3>1 DEF Swap, TypeOK
    <3>2. CASE n # 1
      BY <1>1, <2>1, <2>2, <3>2, SwapEffect
    <3> QED
      BY <3>1, <3>2
  <2> HIDE DEF n
  <2>4. Size' = n - 1
    BY <2>1, <2>3 DEF Size
  <2>5. Mapped' = {it \in {[key |-> array'[q], due |-> due[array'[q]]] : q \in 1 .. n - 1} :
                      it.due > now}
    BY <2>1, <2>4 DEF Mapped, Overdue, FirstItems, Entry
  <2>6. Mapped = {it \in {[key |-> array[q], due |-> due[array[q]]] : q \in 1 .. n} :
                     it.due > now}
    BY <2>1, <2>2 DEF Mapped, Overdue, FirstItems, Entry
  <2>7. \A q \in 1 .. n - 1 : \E p \in 1 .. n : array'[q] = array[p]
    BY <2>2, <2>3
  <2>8. \A p \in 1 .. n : due[array[p]] > now => \E q \in 1 .. n - 1 : array'[q] = array[p]
    <3> SUFFICES ASSUME NEW p \in 1 .. n, due[array[p]] > now
                 PROVE  \E q \in 1 .. n - 1 : array'[q] = array[p]
      OBVIOUS
    <3>1. p # 1
      BY <1>1, <2>1
    <3>2. CASE p = n
      BY <2>2, <2>3, <3>1, <3>2
    <3>3. CASE p # n
      BY <2>2, <2>3, <3>1, <3>3
    <3> QED
      BY <3>2, <3>3
  <2>9. ASSUME NEW it
        PROVE  it \in Mapped' <=> it \in Mapped
    <3>1. ASSUME it \in Mapped'
          PROVE  it \in Mapped
      BY <2>5, <2>6, <2>7, <3>1
    <3>2. ASSUME it \in Mapped
          PROVE  it \in Mapped'
      <4>1. PICK p \in 1 .. n : /\ it = [key |-> array[p], due |-> due[array[p]]]
                                /\ due[array[p]] > now
        BY <2>6, <3>2
      <4>2. PICK q \in 1 .. n - 1 : array'[q] = array[p]
        BY <2>8, <4>1
      <4> QED
        BY <2>5, <4>1, <4>2
    <3> QED
      BY <3>1, <3>2
  <2> QED
    BY <2>1, <2>9
<1>4. ASSUME SweepEnds
      PROVE  UNCHANGED <<Mapped, now>>
  <2>1. /\ pc = "sweep" /\ op = "runDue" /\ op' = "none" /\ pc' = "idle"
        /\ UNCHANGED <<array, due, now>>
        /\ Len(array) = 0 \/ due[array[1]] > now
    BY <1>1, <1>4 DEF SweepEnds, FirstIsDue, GoOn, At, queueVars, TypeOK, Labels
  <2>2. Size' = Size /\ Size = Len(array)
    BY <1>1, <2>1 DEF Size
  <2>3. ASSUME NEW i \in 1 .. Len(array)
        PROVE  due[array[i]] > now
    <3>1. due[array[1]] <= due[array[i]]
      BY <2>1, PeekFromOrder, ArrayFacts DEF PeekIsEarliest, IInv
    <3> QED
      BY <1>1, <2>1, <3>1
  <2>4. Mapped' = FirstItems(Size)
    BY <2>1, <2>2 DEF Mapped, FirstItems, Entry
  <2>5. Mapped = Overdue(FirstItems(Size))
    BY <2>1 DEF Mapped
  <2>6. Overdue(FirstItems(Size)) = FirstItems(Size)
    BY <2>2, <2>3 DEF Overdue, FirstItems, Entry
  <2> QED
    BY <2>1, <2>4, <2>5, <2>6
<1> QED
  BY <1>2, <1>3, <1>4

\* A trigger makes everything due, so that nothing stays in the queue.
LEMMA TriggerIsTrigger ==
    ASSUME IInv, TriggerAll
    PROVE  Mapped' = {} /\ UNCHANGED now
<1>1. /\ array' = array /\ now' = now /\ now \in Int
      /\ (op' = "init" /\ pc' = "down") \/ (op' = "runDue" /\ pc' = "sweep")
      /\ due' = [k \in Keys |-> IF k \in Range(array) THEN now ELSE due[k]]
  BY ArrayFacts DEF TriggerAll, GoOn, Sift, At, IInv
<1>2. Len(array) \in Nat /\ DOMAIN array = 1 .. Len(array)
      /\ \A i \in 1 .. Len(array) : array[i] \in Keys
  BY ArrayFacts DEF IInv
<1>3. Size' = Len(array)
  BY <1>1 DEF Size
<1>4. \A i \in 1 .. Len(array) : due'[array'[i]] = now
  BY <1>1, <1>2 DEF Range
<1>5. \A i \in 1 .. Size' : ~(due'[array'[i]] > now')
  <2>1. ~(now > now)
    BY <1>1
  <2> QED
    BY <1>1, <1>3, <1>4, <2>1
<1>6. Mapped' = {it \in {[key |-> array'[i], due |-> due'[array'[i]]] : i \in 1 .. Size'} :
                    it.due > now'}
  BY <1>1 DEF Mapped, Overdue, FirstItems, Entry
<1> QED
  BY <1>1, <1>5, <1>6

\* The array under container/heap implements the queue: for any keys,
\* nothing is lost, duplicated or mistaken, runDue takes exactly what is due
\* and nothing that is due stays behind it.
THEOREM Refinement == Spec => ImplementsQueue
<1>1. Init => Queue!Init
  <2> SUFFICES ASSUME Init
               PROVE  Mapped = {} /\ now = 0
    BY QueueIsMapped
  <2>1. Size = 0 /\ now = 0
    BY DEF Init, Size
  <2> QED
    BY <2>1 DEF Mapped, Overdue, FirstItems
<1>2. IInv /\ [Next]_vars => [Queue!Next]_Queue!vars
  <2> SUFFICES ASSUME IInv, [Next]_vars
               PROVE  [Queue!Next]_Queue!vars
    OBVIOUS
  <2>1. ASSUME NEW k \in Keys, Push(k)
        PROVE  Queue!Next
    BY <2>1, PushIsPush, QueueIsMapped
  <2>2. ASSUME NEW k \in Keys, Drop(k)
        PROVE  Queue!Next
    BY <2>2, DropIsDrop, QueueIsMapped
  <2>3. CASE RunDue
    BY <2>3, SweepIsRunDue, QueueIsMapped
  <2>4. CASE TriggerAll
    BY <2>4, TriggerIsTrigger, QueueIsMapped
  <2>5. CASE Sweep \/ SweepEnds \/ Up \/ UpEnds \/ Down \/ DownEnds \/ PopLast
    <3>1. Mapped' = Mapped /\ now' = now
      BY <2>5, SweepIsRunDue, HeapStutters
    <3>2. Queue!vars' = Queue!vars
      BY <3>1, QueueIsMapped DEF Queue!vars, Mapped, Overdue, FirstItems, Entry, Contents
    <3> QED
      BY <3>2
  <2>6. CASE Tick
    <3>1. now' = now + 1 /\ Mapped' = Mapped
      <4>1. op = "none" /\ now' = now + 1 /\ UNCHANGED <<array, due, op, pc>>
        BY <2>6 DEF Tick, queueVars, loopVars, IInv, TypeOK, Labels
      <4> QED
        BY <4>1 DEF Mapped, FirstItems, Entry, Size
    <3> QED
      BY <3>1, QueueIsMapped
  <2>7. CASE UNCHANGED vars
    BY <2>7 DEF vars, queueVars, loopVars, Queue!vars, Contents, Size
  <2> QED
    BY <2>1, <2>2, <2>3, <2>4, <2>5, <2>6, <2>7 DEF Next
<1> QED
  BY <1>1, <1>2, HeapInvariant, PTL DEF Spec, ImplementsQueue, Queue!Spec
=============================================================================
