------------------------- MODULE InboundBridgeProofs -------------------------
(***************************************************************************)
(* Theorems about InboundBridge, for any number of messages of any         *)
(* priorities: no message is dropped, answers and cancellations are       *)
(* earned, and turns go in order.                                          *)
(*                                                                         *)
(* The invariant says where a message is, and that the prompt of the       *)
(* active one is in the run that will answer it; for the order of turns,   *)
(* also that the queue is sorted by priority and arrival.  Most steps end  *)
(* with activateNext, which is treated once, for whatever queue and        *)
(* answers it is given.                                                    *)
(***************************************************************************)
EXTENDS InboundBridge, SequenceTheorems, WellFoundedInduction, TLAPS

Elements(q) == {q[i] : i \in DOMAIN q}
Distinct(q) == \A i, j \in DOMAIN q : q[i] = q[j] => i = j

-----------------------------------------------------------------------------
(* Facts about positions in sequences. *)

(* The first position with a property is found where there is one. *)
LEMMA LeastPosition ==
  ASSUME NEW I \in SUBSET Nat, I # {} PROVE Min(I) \in I /\ \A y \in I : Min(I) <= y
<1> DEFINE Less == {ss \in Nat \X Nat : ss[1] < ss[2]}
<1>1. IsWellFoundedOn(Less, Nat)
  BY NatLessThanWellFounded DEF OpToRel
<1>2. PICK x \in I : \A y \in I : ~(<<y, x>> \in Less)
  <2> HIDE DEF Less
  <2>1. QED
    BY <1>1, WFMin
<1>3. ASSUME NEW y \in I PROVE x <= y
  <2>1. <<y, x>> \in Nat \X Nat /\ <<y, x>>[1] = y /\ <<y, x>>[2] = x
    OBVIOUS
  <2>2. ~(y < x)
    BY <1>2, <2>1
  <2>3. QED
    BY <2>2
<1>4. QED
  BY <1>3 DEF Min

(* A part of a sequence. *)
LEMMA Part ==
  ASSUME NEW S, NEW q \in Seq(S), NEW from \in Nat, NEW to \in Nat,
         1 <= from, from <= to + 1, to <= Len(q)
  PROVE  /\ SubSeq(q, from, to) \in Seq(S) /\ Len(SubSeq(q, from, to)) = to - from + 1
         /\ \A j \in 1 .. to - from + 1 : SubSeq(q, from, to)[j] = q[from + j - 1]
<1>1. \A j \in from .. to : q[j] \in S
  BY LenProperties
<1>2. Len(SubSeq(q, from, to)) = IF from <= to THEN to - from + 1 ELSE 0
  BY <1>1, SubSeqProperties
<1>3. QED
  BY <1>1, <1>2, SubSeqProperties

(* What is where after an insertion, and after a removal. *)
LEMMA InsertAtPositions ==
  ASSUME NEW S, NEW q \in Seq(S), NEW e \in S, NEW i \in 1 .. Len(q)
  PROVE  /\ InsertAt(q, i, e) \in Seq(S) /\ Len(InsertAt(q, i, e)) = Len(q) + 1
         /\ \A j \in 1 .. Len(q) + 1 :
              InsertAt(q, i, e)[j] = IF j < i THEN q[j] ELSE IF j = i THEN e ELSE q[j - 1]
<1>1. PICK n \in Nat : n = Len(q)
  BY LenProperties
<1>2. /\ i \in Nat /\ i - 1 \in Nat /\ n - i + 1 \in Nat /\ 1 <= i /\ i <= n
      /\ i - 1 <= n /\ i <= n + 1 /\ 1 <= (i - 1) + 1 /\ 1 <= 1
  BY <1>1
<1>3. PICK before, one, after : before = SubSeq(q, 1, i - 1) /\ one = <<e>> /\ after = SubSeq(q, i, n)
  OBVIOUS
<1>4. before \in Seq(S) /\ Len(before) = i - 1 /\ \A j \in 1 .. i - 1 : before[j] = q[j]
  BY <1>1, <1>2, <1>3, Part
<1>5. after \in Seq(S) /\ Len(after) = n - i + 1 /\ \A j \in 1 .. n - i + 1 : after[j] = q[i + j - 1]
  BY <1>1, <1>2, <1>3, Part
<1>6. one \in Seq(S) /\ Len(one) = 1 /\ one[1] = e
  BY <1>3
<1>7. PICK first : first = before \o one
  OBVIOUS
<1>8. PICK x \in Nat, y \in Nat : x = i - 1 /\ y = n - i + 1
  BY <1>2
<1>9. /\ first \in Seq(S) /\ Len(first) = i
      /\ \A j \in 1 .. i : first[j] = IF j < i THEN q[j] ELSE e
  <2>1. before \in Seq(S) /\ one \in Seq(S) /\ Len(before) = x /\ Len(one) = 1
    BY <1>4, <1>6, <1>8
  <2>2. /\ first \in Seq(S) /\ Len(first) = x + 1
        /\ \A j \in 1 .. x + 1 : first[j] = IF j <= x THEN before[j] ELSE one[j - x]
    <3>1. PICK z \in Nat : z = 1
      OBVIOUS
    <3>2. before \in Seq(S) /\ one \in Seq(S) /\ Len(before) = x /\ Len(one) = z
      BY <2>1, <3>1
    <3>3. /\ before \o one \in Seq(S) /\ Len(before \o one) = x + z
          /\ \A j \in 1 .. x + z : (before \o one)[j] = IF j <= x THEN before[j] ELSE one[j - x]
      BY ONLY <3>2, x \in Nat, z \in Nat, ConcatProperties
    <3>4. QED
      BY ONLY <1>7, <3>1, <3>3
  <2>3. x + 1 = i
    BY <1>2, <1>8
  <2>4. QED
    BY <1>2, <1>4, <1>6, <1>8, <2>2, <2>3
<1>10. PICK t : t = first \o after
  OBVIOUS
<1>11. /\ t \in Seq(S) /\ Len(t) = i + y /\ i + y = n + 1
       /\ \A j \in 1 .. i + y : t[j] = IF j <= i THEN first[j] ELSE after[j - i]
  <2>1. first \in Seq(S) /\ after \in Seq(S) /\ Len(first) = i /\ Len(after) = y
    BY <1>5, <1>8, <1>9
  <2>2. /\ t \in Seq(S) /\ Len(t) = i + y
        /\ \A j \in 1 .. i + y : t[j] = IF j <= i THEN first[j] ELSE after[j - i]
    <3>1. /\ first \o after \in Seq(S) /\ Len(first \o after) = i + y
          /\ \A j \in 1 .. i + y : (first \o after)[j] = IF j <= i THEN first[j] ELSE after[j - i]
      BY ONLY <1>2, <2>1, y \in Nat, ConcatProperties
    <3>2. QED
      BY ONLY <1>10, <3>1
  <2>3. i + y = n + 1
    BY <1>1, <1>2, <1>8
  <2>4. QED
    BY <2>2, <2>3
<1>12. Len(t) = n + 1 /\ \A j \in 1 .. n + 1 : t[j] = IF j < i THEN q[j] ELSE IF j = i THEN e ELSE q[j - 1]
  <2>1. Len(t) = n + 1
    BY <1>2, <1>11
  <2>2. ASSUME NEW j \in 1 .. n + 1 PROVE t[j] = IF j < i THEN q[j] ELSE IF j = i THEN e ELSE q[j - 1]
    <3>1. j \in Nat /\ t[j] = IF j <= i THEN first[j] ELSE after[j - i]
      BY <1>2, <1>11
    <3>2. CASE j <= i
      BY <1>2, <1>9, <3>1, <3>2
    <3>3. CASE j > i
      <4>1. j - i \in 1 .. n - i + 1 /\ i + (j - i) - 1 = j - 1
        BY <1>2, <3>3
      <4>2. after[j - i] = q[j - 1]
        BY <1>5, <4>1
      <4>3. QED
        BY <1>2, <3>1, <3>3, <4>2
    <3>4. QED
      BY <1>2, <3>1, <3>2, <3>3
  <2>3. QED
    BY <2>1, <2>2
<1>13. t = InsertAt(q, i, e)
  BY <1>1, <1>3, <1>7, <1>10 DEF InsertAt
<1>14. QED
  BY <1>1, <1>11, <1>12, <1>13

LEMMA RemoveAtPositions ==
  ASSUME NEW S, NEW q \in Seq(S), NEW i \in 1 .. Len(q)
  PROVE  /\ RemoveAt(q, i) \in Seq(S) /\ Len(RemoveAt(q, i)) = Len(q) - 1
         /\ \A j \in 1 .. Len(q) - 1 : RemoveAt(q, i)[j] = IF j < i THEN q[j] ELSE q[j + 1]
<1>1. PICK n \in Nat : n = Len(q)
  BY LenProperties
<1>2. /\ i \in Nat /\ i - 1 \in Nat /\ n - i \in Nat /\ i + 1 \in Nat /\ 1 <= i /\ i <= n
      /\ i - 1 <= n /\ i + 1 <= n + 1 /\ 1 <= (i - 1) + 1 /\ 1 <= i + 1
  BY <1>1
<1>3. PICK before, after : before = SubSeq(q, 1, i - 1) /\ after = SubSeq(q, i + 1, n)
  OBVIOUS
<1>4. before \in Seq(S) /\ Len(before) = i - 1 /\ \A j \in 1 .. i - 1 : before[j] = q[j]
  BY <1>1, <1>2, <1>3, Part
<1>5. after \in Seq(S) /\ Len(after) = n - i /\ \A j \in 1 .. n - i : after[j] = q[i + j]
  BY <1>1, <1>2, <1>3, Part
<1>6. PICK t : t = before \o after
  OBVIOUS
<1>7. PICK x \in Nat, y \in Nat : x = i - 1 /\ y = n - i
  BY <1>2
<1>8. before \in Seq(S) /\ after \in Seq(S) /\ Len(before) = x /\ Len(after) = y
  BY <1>4, <1>5, <1>7
<1>9. /\ t \in Seq(S) /\ Len(t) = x + y
      /\ \A j \in 1 .. x + y : t[j] = IF j <= x THEN before[j] ELSE after[j - x]
  <2>1. /\ before \o after \in Seq(S) /\ Len(before \o after) = x + y
        /\ \A j \in 1 .. x + y : (before \o after)[j] = IF j <= x THEN before[j] ELSE after[j - x]
    BY ONLY <1>8, x \in Nat, y \in Nat, ConcatProperties
  <2>2. QED
    BY ONLY <1>6, <2>1
<1>10. x + y = n - 1
  BY <1>1, <1>2, <1>7
<1>11. ASSUME NEW j \in 1 .. n - 1 PROVE t[j] = IF j < i THEN q[j] ELSE q[j + 1]
  <2>1. j \in Nat /\ t[j] = IF j <= x THEN before[j] ELSE after[j - x]
    BY <1>2, <1>9, <1>10
  <2>2. CASE j < i
    BY <1>2, <1>4, <1>7, <2>1, <2>2
  <2>3. CASE ~(j < i)
    <3>1. j - x \in 1 .. n - i /\ i + (j - x) = j + 1 /\ ~(j <= x)
      BY <1>2, <1>7, <2>1, <2>3
    <3>2. after[j - x] = q[j + 1]
      BY <1>5, <3>1
    <3>3. QED
      BY <2>1, <2>3, <3>1, <3>2
  <2>4. QED
    BY <2>2, <2>3
<1>12. t = RemoveAt(q, i)
  BY <1>1, <1>3, <1>6 DEF RemoveAt
<1>13. QED
  BY <1>1, <1>9, <1>10, <1>11, <1>12

-----------------------------------------------------------------------------
(* What these do to the elements of a sequence without repetitions. *)
LEMMA Inserted ==
  ASSUME NEW S, NEW q \in Seq(S), NEW e \in S, NEW i \in 1 .. Len(q),
         Distinct(q), e \notin Elements(q)
  PROVE  /\ InsertAt(q, i, e) \in Seq(S) /\ Distinct(InsertAt(q, i, e))
         /\ Elements(InsertAt(q, i, e)) = Elements(q) \cup {e}
<1>1. PICK n \in Nat : n = Len(q) /\ DOMAIN q = 1 .. n
  BY LenProperties
<1>2. PICK t : t = InsertAt(q, i, e)
  OBVIOUS
<1>3. /\ t \in Seq(S) /\ Len(t) = n + 1
      /\ \A j \in 1 .. n + 1 : t[j] = IF j < i THEN q[j] ELSE IF j = i THEN e ELSE q[j - 1]
  BY <1>1, <1>2, InsertAtPositions
<1>4. DOMAIN t = 1 .. n + 1
  BY <1>3, LenProperties
<1>5. \A j \in 1 .. n : q[j] # e
  BY <1>1 DEF Elements
<1>6. Distinct(t)
  <2>1. ASSUME NEW j \in 1 .. n + 1, NEW k \in 1 .. n + 1, j < k PROVE t[j] # t[k]
    <3>1. i \in 1 .. n /\ j \in Nat /\ k \in Nat
      BY <1>1
    <3>2. t[j] = IF j < i THEN q[j] ELSE IF j = i THEN e ELSE q[j - 1]
      BY <1>3
    <3>3. t[k] = IF k < i THEN q[k] ELSE IF k = i THEN e ELSE q[k - 1]
      BY <1>3
    <3>4. \A a, b \in 1 .. n : a < b => q[a] # q[b]
      BY <1>1 DEF Distinct
    <3>5. QED
      BY <1>5, <2>1, <3>1, <3>2, <3>3, <3>4
  <2>2. QED
    BY <1>4, <2>1 DEF Distinct
<1>7. Elements(t) = Elements(q) \cup {e}
  <2>1. ASSUME NEW j \in 1 .. n + 1 PROVE t[j] \in Elements(q) \cup {e}
    <3>1. t[j] = IF j < i THEN q[j] ELSE IF j = i THEN e ELSE q[j - 1]
      BY <1>3
    <3>2. \A k \in 1 .. n : q[k] \in Elements(q)
      BY <1>1 DEF Elements
    <3>3. i \in 1 .. n
      BY <1>1
    <3>4. CASE j < i
      BY <3>1, <3>2, <3>3, <3>4
    <3>5. CASE j = i
      BY <3>1, <3>5
    <3>6. CASE j > i
      <4>1. j - 1 \in 1 .. n
        BY <3>3, <3>6
      <4>2. t[j] = q[j - 1]
        BY <3>1, <3>3, <3>6
      <4>3. QED
        BY <3>2, <4>1, <4>2
    <3>7. QED
      BY <3>3, <3>4, <3>5, <3>6
  <2>2. ASSUME NEW j \in 1 .. n PROVE q[j] \in Elements(t)
    <3>1. CASE j < i
      BY <1>1, <1>3, <1>4, <3>1 DEF Elements
    <3>2. CASE ~(j < i)
      <4>1. j + 1 \in 1 .. n + 1 /\ t[j + 1] = q[j]
        BY <1>1, <1>3, <3>2
      <4>2. QED
        BY <1>4, <4>1 DEF Elements
    <3>3. QED
      BY <3>1, <3>2
  <2>3. e \in Elements(t)
    BY <1>1, <1>3, <1>4 DEF Elements
  <2>4. Elements(t) \subseteq Elements(q) \cup {e}
    BY <1>4, <2>1 DEF Elements
  <2>5. Elements(q) \subseteq Elements(t)
    <3>1. ASSUME NEW z \in Elements(q) PROVE z \in Elements(t)
      <4>1. PICK j \in 1 .. n : z = q[j]
        BY <1>1 DEF Elements
      <4>2. QED
        BY <2>2, <4>1
    <3>2. QED
      BY <3>1
  <2>6. QED
    BY <2>3, <2>4, <2>5
<1>8. QED
  BY <1>2, <1>3, <1>6, <1>7

LEMMA Removed ==
  ASSUME NEW S, NEW q \in Seq(S), NEW i \in DOMAIN q, Distinct(q)
  PROVE  /\ RemoveAt(q, i) \in Seq(S) /\ Distinct(RemoveAt(q, i))
         /\ Elements(RemoveAt(q, i)) = Elements(q) \ {q[i]}
<1>1. PICK n \in Nat : n = Len(q) /\ DOMAIN q = 1 .. n
  BY LenProperties
<1>2. PICK t : t = RemoveAt(q, i)
  OBVIOUS
<1>3. /\ t \in Seq(S) /\ Len(t) = n - 1
      /\ \A j \in 1 .. n - 1 : t[j] = IF j < i THEN q[j] ELSE q[j + 1]
  BY <1>1, <1>2, RemoveAtPositions
<1>4. DOMAIN t = 1 .. n - 1
  BY <1>3, LenProperties
<1>5. Distinct(t)
  <2>1. ASSUME NEW j \in 1 .. n - 1, NEW k \in 1 .. n - 1, j < k PROVE t[j] # t[k]
    <3>1. t[j] = (IF j < i THEN q[j] ELSE q[j + 1]) /\ t[k] = (IF k < i THEN q[k] ELSE q[k + 1])
      BY <1>3
    <3>2. \A a, b \in 1 .. n : a < b => q[a] # q[b]
      BY <1>1 DEF Distinct
    <3>3. QED
      BY <1>1, <2>1, <3>1, <3>2
  <2>2. QED
    BY <1>4, <2>1 DEF Distinct
<1>6. Elements(t) = Elements(q) \ {q[i]}
  <2>1. ASSUME NEW j \in 1 .. n - 1 PROVE t[j] \in Elements(q) \ {q[i]}
    <3>1. t[j] = IF j < i THEN q[j] ELSE q[j + 1]
      BY <1>3
    <3>2. \A k \in 1 .. n : q[k] \in Elements(q) /\ (q[k] = q[i] => k = i)
      BY <1>1 DEF Elements, Distinct
    <3>3. CASE j < i
      BY <1>1, <3>1, <3>2, <3>3
    <3>4. CASE ~(j < i)
      <4>1. j + 1 \in 1 .. n /\ j + 1 # i /\ t[j] = q[j + 1]
        BY <1>1, <3>1, <3>4
      <4>2. QED
        BY <3>2, <4>1
    <3>5. QED
      BY <3>3, <3>4
  <2>2. ASSUME NEW j \in 1 .. n, j # i PROVE q[j] \in Elements(t)
    <3>1. CASE j < i
      BY <1>1, <1>3, <1>4, <3>1 DEF Elements
    <3>2. CASE ~(j < i)
      <4>1. j - 1 \in 1 .. n - 1 /\ t[j - 1] = q[j]
        BY <1>1, <1>3, <2>2, <3>2
      <4>2. QED
        BY <1>4, <4>1 DEF Elements
    <3>3. QED
      BY <3>1, <3>2
  <2>3. Elements(t) \subseteq Elements(q) \ {q[i]}
    BY <1>4, <2>1 DEF Elements
  <2>4. Elements(q) \ {q[i]} \subseteq Elements(t)
    <3>1. ASSUME NEW z \in Elements(q), z # q[i] PROVE z \in Elements(t)
      <4>1. PICK j \in 1 .. n : z = q[j]
        BY <1>1 DEF Elements
      <4>2. QED
        BY <2>2, <3>1, <4>1
    <3>2. QED
      BY <3>1
  <2>5. QED
    BY <2>3, <2>4
<1>7. QED
  BY <1>2, <1>3, <1>5, <1>6

LEMMA Appended ==
  ASSUME NEW S, NEW q \in Seq(S), NEW e \in S
  PROVE  /\ Append(q, e) \in Seq(S) /\ Elements(Append(q, e)) = Elements(q) \cup {e}
         /\ Distinct(q) /\ e \notin Elements(q) => Distinct(Append(q, e))
<1>1. PICK n \in Nat : n = Len(q) /\ DOMAIN q = 1 .. n
  BY LenProperties
<1>2. PICK t : t = Append(q, e)
  OBVIOUS
<1>3. t \in Seq(S) /\ Len(t) = n + 1 /\ (\A j \in 1 .. n : t[j] = q[j]) /\ t[n + 1] = e
  BY <1>1, <1>2, AppendProperties
<1>4. DOMAIN t = 1 .. n + 1
  BY <1>3, LenProperties
<1>5. Elements(t) = Elements(q) \cup {e}
  BY <1>1, <1>3, <1>4 DEF Elements
<1>6. Distinct(q) /\ e \notin Elements(q) => Distinct(t)
  BY <1>1, <1>3, <1>4 DEF Elements, Distinct
<1>7. QED
  BY <1>2, <1>3, <1>5, <1>6
-----------------------------------------------------------------------------
(* The operations of the bridge. *)

LEMMA Enqueued ==
  ASSUME NEW m \in Messages, queue \in Seq(Messages), Distinct(queue), m \notin Elements(queue)
  PROVE  /\ EnqueueEntry(m) \in Seq(Messages) /\ Distinct(EnqueueEntry(m))
         /\ Elements(EnqueueEntry(m)) = Elements(queue) \cup {m}
<1> DEFINE I == {k \in 1 .. Len(queue) : Priority[queue[k]] > Priority[m]}
           at == SelectInSeq(queue, LAMBDA other : Priority[other] > Priority[m])
<1>1. PICK n \in Nat : n = Len(queue)
  BY LenProperties
<1>2. at = IF I # {} THEN Min(I) ELSE 0
  BY DEF SelectInSeq
<1>3. EnqueueEntry(m) = IF at = 0 THEN Append(queue, m) ELSE InsertAt(queue, at, m)
  BY DEF EnqueueEntry
<1>4. CASE I = {}
  <2>1. EnqueueEntry(m) = Append(queue, m)
    BY <1>2, <1>3, <1>4
  <2>2. QED
    BY <2>1, Appended
<1>5. CASE I # {}
  <2>1. I \in SUBSET Nat
    BY <1>1
  <2>2. Min(I) \in I
    BY <1>5, <2>1, LeastPosition
  <2>3. at \in 1 .. Len(queue) /\ at # 0
    <3>1. Min(I) \in 1 .. Len(queue)
      BY <2>2
    <3>2. at = Min(I)
      BY <1>2, <1>5
    <3> HIDE DEF at, I
    <3>3. QED
      BY <1>1, <3>1, <3>2
  <2>4. EnqueueEntry(m) = InsertAt(queue, at, m)
    BY <1>3, <2>3
  <2> HIDE DEF at, I
  <2>5. QED
    BY <2>3, <2>4, Inserted
<1>6. QED
  BY <1>4, <1>5

(* activateNext refuses the first messages of q, makes the next one active  *)
(* and leaves the rest.                                                     *)
LEMMA ActivationTakesFirst ==
  ASSUME NEW q \in Seq(Messages), Distinct(q), NEW run, NEW armed,
         NEW answers \in [Messages -> Answers], NoMessage \notin Messages,
         ActivateNext(q, answers, armed, run)
  PROVE  /\ queue' \in Seq(Messages) /\ Distinct(queue')
         /\ active' \in Elements(q) \cup {NoMessage} /\ active' \notin Elements(queue')
         /\ queue' # <<>> => active' # NoMessage
         /\ timers' = armed \cup ({active'} \ {NoMessage})
         /\ asked' = run \cup ({active'} \ {NoMessage})
         /\ answer' \in [Messages -> Answers]
         /\ Elements(queue') \subseteq Elements(q)
         /\ \A m \in Messages :
              IF m \in Elements(q) /\ m \notin Elements(queue') /\ m # active'
              THEN answer'[m] = "ERROR" ELSE answer'[m] = answers[m]
<1>1. PICK n \in Nat : n = Len(q) /\ DOMAIN q = 1 .. n
  BY LenProperties
<1>2. PICK r \in 0 .. n :
        /\ answer' = [m \in Messages |-> IF \E i \in 1 .. r : q[i] = m THEN "ERROR" ELSE answers[m]]
        /\ queue' = SubSeq(q, r + 2, n)
        /\ IF r = n
           THEN active' = NoMessage /\ timers' = armed /\ asked' = run
           ELSE active' = q[r + 1] /\ timers' = armed \cup {active'} /\ asked' = run \cup {active'}
  BY <1>1 DEF ActivateNext
<1>3. answer' \in [Messages -> Answers]
  BY <1>2 DEF Answers
<1>4. \A j \in 1 .. n : q[j] \in Messages /\ q[j] # NoMessage /\ q[j] \in Elements(q)
  BY <1>1, LenProperties DEF Elements
<1>5. \A j, k \in 1 .. n : q[j] = q[k] => j = k
  BY <1>1 DEF Distinct
<1>6. CASE r = n
  <2>1. queue' = <<>>
    BY <1>2, <1>6, SubSeqEmpty
  <2>2. active' = NoMessage /\ timers' = armed /\ asked' = run
    BY <1>2, <1>6
  <2>3. queue' \in Seq(Messages) /\ Distinct(queue') /\ Elements(queue') = {}
    BY <2>1, EmptySeq DEF Distinct, Elements
  <2>4. ASSUME NEW m \in Messages
        PROVE  IF m \in Elements(q) THEN answer'[m] = "ERROR" ELSE answer'[m] = answers[m]
    BY <1>1, <1>2, <1>6 DEF Elements
  <2>5. QED
    BY <1>3, <2>1, <2>2, <2>3, <2>4
<1>7. CASE r # n
  <2>1. r + 1 \in 1 .. n /\ r + 2 \in Nat /\ 1 <= r + 2 /\ r + 2 <= n + 1 /\ r \in Nat
    BY <1>1, <1>7
  <2>2. PICK w \in Nat : w = n - r - 1 /\ w = n - (r + 2) + 1
    BY <2>1
  <2>3. PICK t : t = queue'
    OBVIOUS
  <2>4. t \in Seq(Messages) /\ Len(t) = w /\ \A j \in 1 .. w : t[j] = q[r + 1 + j]
    <3>1. t = SubSeq(q, r + 2, n)
      BY <1>2, <2>3
    <3>2. /\ SubSeq(q, r + 2, n) \in Seq(Messages) /\ Len(SubSeq(q, r + 2, n)) = n - (r + 2) + 1
          /\ \A j \in 1 .. n - (r + 2) + 1 : SubSeq(q, r + 2, n)[j] = q[(r + 2) + j - 1]
      BY <1>1, <2>1, Part
    <3>3. \A j \in 1 .. w : (r + 2) + j - 1 = r + 1 + j
      BY <2>1
    <3>4. QED
      BY <2>2, <3>1, <3>2, <3>3
  <2>5. DOMAIN t = 1 .. w
    BY <2>4, LenProperties
  <2>6. \A j \in 1 .. w : r + 1 + j \in 1 .. n
    BY <2>1, <2>2
  <2>7. Distinct(t)
    <3>1. ASSUME NEW j \in 1 .. w, NEW k \in 1 .. w, t[j] = t[k] PROVE j = k
      <4>1. q[r + 1 + j] = q[r + 1 + k] /\ r + 1 + j \in 1 .. n /\ r + 1 + k \in 1 .. n
        BY <2>4, <2>6, <3>1
      <4>2. r + 1 + j = r + 1 + k
        BY <1>5, <4>1
      <4>3. QED
        BY <2>1, <4>2
    <3>2. QED
      BY <2>5, <3>1 DEF Distinct
  <2>8. active' = q[r + 1] /\ timers' = armed \cup {active'} /\ asked' = run \cup {active'}
    BY <1>2, <1>7
  <2>9. Elements(t) \subseteq Elements(q)
    <3>1. ASSUME NEW z \in Elements(t) PROVE z \in Elements(q)
      <4>1. PICK j \in 1 .. w : z = t[j]
        BY <2>5 DEF Elements
      <4>2. z = q[r + 1 + j] /\ r + 1 + j \in 1 .. n
        BY <2>4, <2>6, <4>1
      <4>3. QED
        BY <1>4, <4>2
    <3>2. QED
      BY <3>1
  <2>10. active' \notin Elements(t)
    <3>1. ASSUME NEW j \in 1 .. w PROVE t[j] # active'
      <4>1. r + 1 + j \in 1 .. n /\ r + 1 + j # r + 1
        BY <2>1, <2>6
      <4>2. QED
        BY <1>5, <2>1, <2>4, <2>8, <4>1
    <3>2. QED
      BY <2>5, <3>1 DEF Elements
  <2>11. active' \in Elements(q) /\ active' # NoMessage
    BY <1>4, <2>1, <2>8
  <2>12. ASSUME NEW m \in Messages
         PROVE  IF m \in Elements(q) /\ m \notin Elements(t) /\ m # active'
                THEN answer'[m] = "ERROR" ELSE answer'[m] = answers[m]
    <3>1. answer'[m] = IF \E i \in 1 .. r : q[i] = m THEN "ERROR" ELSE answers[m]
      BY <1>2
    <3>2. ASSUME NEW i \in 1 .. r, q[i] = m
          PROVE  m \in Elements(q) /\ m \notin Elements(t) /\ m # active'
      <4>1. i \in 1 .. n /\ i # r + 1
        BY <1>1, <2>1
      <4>2. m \in Elements(q) /\ m # active'
        BY <1>4, <1>5, <2>1, <2>8, <3>2, <4>1
      <4>3. ASSUME NEW j \in 1 .. w PROVE t[j] # m
        <5>1. r + 1 + j \in 1 .. n /\ r + 1 + j # i
          BY <2>1, <2>6
        <5>2. QED
          BY <1>5, <2>4, <3>2, <4>1, <5>1
      <4>4. QED
        BY <2>5, <4>2, <4>3 DEF Elements
    <3>3. ASSUME m \in Elements(q), m \notin Elements(t), m # active'
          PROVE  \E i \in 1 .. r : q[i] = m
      <4>1. PICK i \in 1 .. n : q[i] = m
        BY <1>1, <3>3 DEF Elements
      <4>2. i # r + 1
        BY <2>8, <3>3, <4>1
      <4>3. CASE i > r + 1
        <5>1. i - (r + 1) \in 1 .. w /\ r + 1 + (i - (r + 1)) = i
          BY <2>1, <2>2, <4>3
        <5>2. t[i - (r + 1)] = m
          BY <2>4, <4>1, <5>1
        <5>3. QED
          BY <2>5, <3>3, <5>1, <5>2 DEF Elements
      <4>4. CASE i < r + 1
        BY <2>1, <4>1, <4>4
      <4>5. QED
        BY <2>1, <4>2, <4>3, <4>4
    <3>4. QED
      BY <3>1, <3>2, <3>3
  <2>13. QED
    BY <1>3, <2>3, <2>4, <2>7, <2>8, <2>9, <2>10, <2>11, <2>12
<1>8. QED
  BY <1>6, <1>7
-----------------------------------------------------------------------------
(* The invariant. *)

Shapes ==
  /\ queue \in Seq(Messages) /\ arrivals \in Seq(Messages)
  /\ active \in Messages \cup {NoMessage}
  /\ answer \in [Messages -> Answers]

Places ==
  /\ queue # <<>> => active # NoMessage
  /\ timers = {active} \ {NoMessage}
  /\ Distinct(queue)
  /\ \A m \in Messages :
       m \in Elements(arrivals) <=> m \in Elements(queue) \/ m = active \/ answer[m] # "none"
  /\ \A m \in Elements(queue) : answer[m] = "none" /\ m # active
  /\ active # NoMessage => answer[active] = "none"

BridgeInv == Shapes /\ Places /\ (active # NoMessage => active \in asked)

(* What a step may do to the answers. *)
Earned ==
  \A m \in Messages :
    /\ answer[m] # "none" => answer'[m] = answer[m]
    /\ answer[m] = "none" /\ answer'[m] = "OK" => m \in asked /\ m \notin cancelling
    /\ answer[m] = "none" /\ answer'[m] = "CANCELLED" => m \in cancelling' \/ Dispose

LEMMA ContainsIsElement ==
  ASSUME NEW S, NEW q \in Seq(S), NEW e PROVE Contains(q, e) <=> e \in Elements(q)
  BY LenProperties DEF Contains, Elements

LEMMA ElementsInSet ==
  ASSUME NEW S, NEW q \in Seq(S) PROVE Elements(q) \subseteq S
  BY LenProperties DEF Elements

LEMMA InvariantDropsNothing == BridgeInv => NothingIsDropped
<1> SUFFICES ASSUME BridgeInv PROVE NothingIsDropped
  OBVIOUS
<1>1. Waiting = Elements(queue)
  BY DEF Waiting, Elements
<1>2. \A m \in Messages : Contains(arrivals, m) <=> m \in Elements(arrivals)
  BY ContainsIsElement DEF BridgeInv, Shapes
<1>3. \A i, j \in DOMAIN queue : queue[i] = queue[j] => i = j
  BY DEF BridgeInv, Places, Distinct
<1>4. Waiting \subseteq Messages
  BY <1>1, ElementsInSet DEF BridgeInv, Shapes
<1>5. active \notin Waiting \cup Settled
  BY <1>1, <1>4, BridgeConstants DEF BridgeInv, Shapes, Places, Settled
<1>6. Waiting \cap Settled = {}
  BY <1>1 DEF BridgeInv, Places, Settled
<1>7. QED
  BY <1>1, <1>2, <1>3, <1>5, <1>6 DEF BridgeInv, Shapes, Places, NothingIsDropped, Settled

(* The invariant after an activation, whatever led to it. *)
LEMMA AfterActivation ==
  ASSUME NEW q \in Seq(Messages), Distinct(q), NEW run,
         NEW answers \in [Messages -> Answers], ActivateNext(q, answers, {}, run),
         arrivals' \in Seq(Messages),
         \A m \in Messages : m \in Elements(arrivals') <=> m \in Elements(q) \/ answers[m] # "none",
         \A m \in Elements(q) : answers[m] = "none"
  PROVE  /\ BridgeInv'
         /\ \A m \in Messages :
              answer'[m] # answers[m] => answers[m] = "none" /\ answer'[m] = "ERROR"
<1>1. /\ queue' \in Seq(Messages) /\ Distinct(queue')
      /\ active' \in Elements(q) \cup {NoMessage} /\ active' \notin Elements(queue')
      /\ queue' # <<>> => active' # NoMessage
      /\ timers' = {} \cup ({active'} \ {NoMessage})
      /\ asked' = run \cup ({active'} \ {NoMessage})
      /\ answer' \in [Messages -> Answers]
      /\ Elements(queue') \subseteq Elements(q)
      /\ \A m \in Messages :
           IF m \in Elements(q) /\ m \notin Elements(queue') /\ m # active'
           THEN answer'[m] = "ERROR" ELSE answer'[m] = answers[m]
  BY ActivationTakesFirst, BridgeConstants
<1>2. Elements(q) \subseteq Messages /\ NoMessage \notin Messages
  BY ElementsInSet, BridgeConstants
<1>3. Shapes'
  BY <1>1, <1>2 DEF Shapes
<1>4. \A m \in Elements(queue') : answer'[m] = "none" /\ m # active'
  BY <1>1, <1>2
<1>5. active' # NoMessage => answer'[active'] = "none"
  BY <1>1, <1>2
<1>6. ASSUME NEW m \in Messages
      PROVE  m \in Elements(arrivals') <=> m \in Elements(queue') \/ m = active' \/ answer'[m] # "none"
  <2>1. CASE m \in Elements(q)
    BY <1>1, <1>2, <2>1
  <2>2. CASE m \notin Elements(q)
    BY <1>1, <1>2, <2>2
  <2>3. QED
    BY <2>1, <2>2
<1>7. Places'
  <2>1. Elements(arrivals)' = Elements(arrivals') /\ Elements(queue)' = Elements(queue')
        /\ Distinct(queue)' = Distinct(queue')
    BY DEF Elements, Distinct
  <2>2. QED
    BY <1>1, <1>4, <1>5, <1>6, <2>1 DEF Places
<1>8. active' # NoMessage => active' \in asked'
  BY <1>1
<1>9. ASSUME NEW m \in Messages, answer'[m] # answers[m]
      PROVE  answers[m] = "none" /\ answer'[m] = "ERROR"
  BY <1>1, <1>9
<1>10. QED
  BY <1>3, <1>7, <1>8, <1>9 DEF BridgeInv

(* The active message is answered, and the next one activated. *)
LEMMA EndsActive ==
  ASSUME BridgeInv, active # NoMessage, NEW response \in Answers \ {"none"}, NEW run,
         ActivateNext(queue, SettleEntry({active}, response), timers \ {active}, run),
         arrivals' = arrivals
  PROVE  /\ BridgeInv'
         /\ \A m \in Messages :
              answer'[m] # answer[m] =>
                /\ answer[m] = "none"
                /\ answer'[m] = "ERROR" \/ (m = active /\ answer'[m] = response)
<1>1. PICK answers : answers = SettleEntry({active}, response)
  OBVIOUS
<1>2. answers \in [Messages -> Answers]
  BY <1>1 DEF SettleEntry, BridgeInv, Shapes
<1>3. \A m \in Messages : answers[m] = IF m = active THEN response ELSE answer[m]
  BY <1>1 DEF SettleEntry, BridgeInv, Places
<1>4. timers \ {active} = {}
  BY DEF BridgeInv, Places
<1>5. ActivateNext(queue, answers, {}, run)
  BY <1>1, <1>4
<1>6. queue \in Seq(Messages) /\ arrivals' \in Seq(Messages) /\ Distinct(queue)
  BY DEF BridgeInv, Shapes, Places
<1>7. Elements(queue) \subseteq Messages
  BY <1>6, ElementsInSet
<1>8. \A m \in Elements(queue) : answers[m] = "none"
  BY <1>3, <1>7 DEF BridgeInv, Places
<1>9. \A m \in Messages : m \in Elements(arrivals') <=> m \in Elements(queue) \/ answers[m] # "none"
  BY <1>3 DEF BridgeInv, Places
<1>10. /\ BridgeInv'
       /\ \A m \in Messages : answer'[m] # answers[m] => answers[m] = "none" /\ answer'[m] = "ERROR"
  BY <1>2, <1>5, <1>6, <1>8, <1>9, AfterActivation
<1>11. QED
  BY <1>3, <1>10 DEF BridgeInv, Places

LEMMA InitInv == Init => BridgeInv
<1> SUFFICES ASSUME Init PROVE BridgeInv
  OBVIOUS
<1>1. Elements(<<>>) = {} /\ Distinct(<<>>) /\ <<>> \in Seq(Messages)
  BY EmptySeq DEF Elements, Distinct
<1>2. QED
  BY <1>1, BridgeConstants DEF Init, BridgeInv, Shapes, Places, Answers
LEMMA EnvelopeStep ==
  ASSUME BridgeInv, NEW m \in Messages, HandleEnvelope(m) PROVE BridgeInv' /\ Earned
<1>1. m \notin Elements(arrivals)
  BY ContainsIsElement DEF HandleEnvelope, BridgeInv, Shapes
<1>2. m \notin Elements(queue) /\ m # active /\ answer[m] = "none"
  BY <1>1 DEF BridgeInv, Places
<1>3. /\ EnqueueEntry(m) \in Seq(Messages) /\ Distinct(EnqueueEntry(m))
      /\ Elements(EnqueueEntry(m)) = Elements(queue) \cup {m}
  BY <1>2, Enqueued DEF BridgeInv, Shapes, Places
<1>4. arrivals' \in Seq(Messages) /\ Elements(arrivals') = Elements(arrivals) \cup {m}
  BY Appended DEF HandleEnvelope, BridgeInv, Shapes
<1>5. Elements(queue) \subseteq Messages /\ NoMessage \notin Messages
  BY ElementsInSet, BridgeConstants DEF BridgeInv, Shapes
<1>6. CASE active = NoMessage
  <2>1. ActivateNext(EnqueueEntry(m), answer, {}, asked)
    BY <1>6 DEF HandleEnvelope, BridgeInv, Places
  <2>2. \A x \in Elements(EnqueueEntry(m)) : answer[x] = "none"
    BY <1>2, <1>3 DEF BridgeInv, Places
  <2>3. \A x \in Messages :
          x \in Elements(arrivals') <=> x \in Elements(EnqueueEntry(m)) \/ answer[x] # "none"
    BY <1>3, <1>4, <1>5, <1>6 DEF BridgeInv, Places
  <2>4. answer \in [Messages -> Answers]
    BY DEF BridgeInv, Shapes
  <2>5. /\ BridgeInv'
        /\ \A x \in Messages : answer'[x] # answer[x] => answer[x] = "none" /\ answer'[x] = "ERROR"
    BY <1>3, <1>4, <2>1, <2>2, <2>3, <2>4, AfterActivation
  <2>6. QED
    BY <2>5 DEF Earned
<1>7. CASE active # NoMessage
  <2>1. queue' = EnqueueEntry(m) /\ UNCHANGED <<active, timers, answer, asked>>
    BY <1>7 DEF HandleEnvelope
  <2>2. Shapes'
    BY <1>3, <1>4, <2>1 DEF BridgeInv, Shapes
  <2>3. Elements(arrivals)' = Elements(arrivals') /\ Elements(queue)' = Elements(queue')
        /\ Distinct(queue)' = Distinct(queue')
    BY DEF Elements, Distinct
  <2>4. Places'
    BY <1>2, <1>3, <1>4, <1>7, <2>1, <2>3 DEF BridgeInv, Places
  <2>5. QED
    BY <2>1, <2>2, <2>4 DEF BridgeInv, Earned
<1>8. QED
  BY <1>6, <1>7

LEMMA CancelStep ==
  ASSUME BridgeInv, NEW m \in Messages, CancelEntry(m) PROVE BridgeInv' /\ Earned
<1>1. CASE UNCHANGED <<queue, answer>>
  BY <1>1 DEF CancelEntry, BridgeInv, Shapes, Places, Elements, Distinct, Earned
<1>2. ASSUME NEW i \in DOMAIN queue, queue[i] = m, queue' = RemoveAt(queue, i),
             answer' = SettleEntry({m}, "CANCELLED")
      PROVE  BridgeInv' /\ Earned
  <2>1. /\ queue' \in Seq(Messages) /\ Distinct(queue')
        /\ Elements(queue') = Elements(queue) \ {m}
    BY <1>2, Removed DEF BridgeInv, Shapes, Places
  <2>2. m \in Elements(queue)
    BY <1>2 DEF Elements
  <2>3. \A x \in Messages : answer'[x] = IF x = m THEN "CANCELLED" ELSE answer[x]
    BY <1>2, <2>2 DEF SettleEntry, BridgeInv, Places
  <2>4. answer' \in [Messages -> Answers]
    BY <1>2 DEF SettleEntry, BridgeInv, Shapes, Answers
  <2>5. UNCHANGED <<active, timers, asked, arrivals>>
    BY DEF CancelEntry
  <2>6. active # NoMessage /\ active # m
    <3>1. queue # <<>>
      BY <1>2 DEF BridgeInv, Shapes
    <3>2. QED
      BY <2>2, <3>1 DEF BridgeInv, Places
  <2>7. Shapes'
    BY <2>1, <2>4, <2>5 DEF BridgeInv, Shapes
  <2>8. Elements(arrivals)' = Elements(arrivals') /\ Elements(queue)' = Elements(queue')
        /\ Distinct(queue)' = Distinct(queue')
    BY DEF Elements, Distinct
  <2>9. Elements(queue) \subseteq Messages /\ active \in Messages
    BY <2>6, ElementsInSet DEF BridgeInv, Shapes
  <2>10. Places'
    BY <2>1, <2>2, <2>3, <2>5, <2>6, <2>8, <2>9 DEF BridgeInv, Places
  <2>11. Earned
    BY <2>2, <2>3 DEF CancelEntry, BridgeInv, Places, Earned
  <2>12. QED
    BY <2>5, <2>7, <2>10, <2>11 DEF BridgeInv
<1>3. QED
  BY <1>1, <1>2 DEF CancelEntry

LEMMA TimeoutStep ==
  ASSUME BridgeInv, NEW m \in Messages, ActiveTimeout(m) PROVE BridgeInv' /\ Earned
<1>1. m = active /\ active # NoMessage /\ active \notin Settled
  BY DEF ActiveTimeout, BridgeInv, Places, Settled
<1>2. /\ ActivateNext(queue, SettleEntry({active}, "ERROR"), timers \ {active}, asked)
      /\ arrivals' = arrivals
  BY <1>1 DEF ActiveTimeout
<1>3. "ERROR" \in Answers \ {"none"}
  BY DEF Answers
<1>4. QED
  BY <1>1, <1>2, <1>3, EndsActive DEF Earned

LEMMA AgentEndStep ==
  ASSUME BridgeInv, NEW text \in BOOLEAN, HandleAgentEnd(text) PROVE BridgeInv' /\ Earned
<1>1. CASE active = NoMessage
  BY <1>1 DEF HandleAgentEnd, BridgeInv, Shapes, Places, Elements, Distinct, Earned
<1>2. CASE active # NoMessage
  <2>1. PICK response \in Answers \ {"none"} :
          /\ response = (IF active \in cancelling THEN "CANCELLED" ELSE IF text THEN "OK" ELSE "ERROR")
    BY DEF Answers
  <2>2. ActivateNext(queue, SettleEntry({active}, response), timers \ {active}, {}) /\ arrivals' = arrivals
    BY <1>2, <2>1 DEF HandleAgentEnd
  <2>3. /\ BridgeInv'
        /\ \A m \in Messages :
             answer'[m] # answer[m] =>
               /\ answer[m] = "none"
               /\ answer'[m] = "ERROR" \/ (m = active /\ answer'[m] = response)
    BY <1>2, <2>2, EndsActive
  <2>4. /\ response = "OK" => active \in asked /\ active \notin cancelling
        /\ response = "CANCELLED" => active \in cancelling'
    BY <1>2, <2>1 DEF BridgeInv, HandleAgentEnd
  <2>5. QED
    BY <2>3, <2>4 DEF Earned
<1>3. QED
  BY <1>1, <1>2

LEMMA DisposeStep == ASSUME BridgeInv, Dispose PROVE BridgeInv' /\ Earned
<1>1. Waiting = Elements(queue) /\ Elements(<<>>) = {} /\ Distinct(<<>>) /\ <<>> \in Seq(Messages)
  BY EmptySeq DEF Waiting, Elements, Distinct
<1>2. \A m \in Messages :
        answer'[m] = IF m \in Elements(queue) \cup {active} THEN "CANCELLED" ELSE answer[m]
  BY <1>1, BridgeConstants DEF Dispose, SettleEntry, BridgeInv, Places
<1>3. answer' \in [Messages -> Answers]
  BY DEF Dispose, SettleEntry, BridgeInv, Shapes, Answers
<1>4. /\ queue' = <<>> /\ active' = NoMessage /\ timers' = {} /\ arrivals' = arrivals
  BY DEF Dispose, BridgeInv, Places
<1>5. Shapes'
  BY <1>1, <1>3, <1>4 DEF BridgeInv, Shapes
<1>6. Elements(arrivals)' = Elements(arrivals') /\ Elements(queue)' = Elements(queue')
      /\ Distinct(queue)' = Distinct(queue')
  BY DEF Elements, Distinct
<1>7. Places'
  BY <1>1, <1>2, <1>4, <1>6, BridgeConstants DEF BridgeInv, Places
<1>8. Earned
  BY <1>2, BridgeConstants DEF BridgeInv, Places, Earned
<1>9. QED
  BY <1>4, <1>5, <1>7, <1>8 DEF BridgeInv

LEMMA BridgeInvStep == BridgeInv /\ [Next]_vars => BridgeInv' /\ (Earned \/ UNCHANGED vars)
<1> SUFFICES ASSUME BridgeInv, [Next]_vars PROVE BridgeInv' /\ (Earned \/ UNCHANGED vars)
  OBVIOUS
<1>1. ASSUME NEW m \in Messages, HandleEnvelope(m) PROVE BridgeInv' /\ Earned
  BY <1>1, EnvelopeStep
<1>2. ASSUME NEW m \in Messages, CancelEntry(m) PROVE BridgeInv' /\ Earned
  BY <1>2, CancelStep
<1>3. ASSUME NEW m \in Messages, ActiveTimeout(m) PROVE BridgeInv' /\ Earned
  BY <1>3, TimeoutStep
<1>4. ASSUME NEW text \in BOOLEAN, HandleAgentEnd(text) PROVE BridgeInv' /\ Earned
  BY <1>4, AgentEndStep
<1>5. CASE Dispose
  BY <1>5, DisposeStep
<1>6. CASE UNCHANGED vars
  BY <1>6 DEF vars, BridgeInv, Shapes, Places, Elements, Distinct
<1>7. QED
  BY <1>1, <1>2, <1>3, <1>4, <1>5, <1>6 DEF Next

-----------------------------------------------------------------------------
(* The theorems. *)

(* Every message the bridge accepted is waiting, active or answered, in     *)
(* exactly one of the three, and nobody waits while nobody is active.       *)
THEOREM NothingIsDroppedHolds == Spec => []NothingIsDropped
<1>1. Init => BridgeInv
  BY InitInv
<1>2. BridgeInv /\ [Next]_vars => BridgeInv'
  BY BridgeInvStep
<1>3. BridgeInv => NothingIsDropped
  BY InvariantDropsNothing
<1>4. QED
  BY <1>1, <1>2, <1>3, PTL DEF Spec

(* handleAgentEnd answers with a text only the message whose prompt is in   *)
(* the run that ended, and whose sender did not cancel it; only those are   *)
(* answered as cancelled that were, unless the session shuts down.          *)
THEOREM AnswersAreEarnedHolds == Spec => AnswersAreEarned
<1>1. Init => BridgeInv
  BY InitInv
<1>2. BridgeInv /\ [Next]_vars => BridgeInv'
  BY BridgeInvStep
<1>3. BridgeInv /\ [Next]_vars =>
        [\A m \in Messages :
           /\ m \in Settled => answer'[m] = answer[m]
           /\ m \notin Settled /\ answer'[m] = "OK" => m \in asked /\ m \notin cancelling
           /\ m \notin Settled /\ answer'[m] = "CANCELLED" => m \in cancelling' \/ Dispose]_vars
  BY BridgeInvStep DEF Earned, Settled
<1>4. QED
  BY <1>1, <1>2, <1>3, PTL DEF Spec, AnswersAreEarned

-----------------------------------------------------------------------------
(***************************************************************************)
(* The order of turns.  The queue is sorted; a message is put behind those *)
(* that are as urgent, all of which came before it.                        *)
(***************************************************************************)
Precedes(a, m, n) ==
  \/ Priority[m] < Priority[n]
  \/ /\ Priority[m] = Priority[n]
     /\ \E i, j \in DOMAIN a : i < j /\ a[i] = m /\ a[j] = n

Sorted(a, q) == \A i, j \in DOMAIN q : i < j => Precedes(a, q[i], q[j])

InTurn == active' # active /\ active' # NoMessage =>
            \A m \in Elements(queue') : Precedes(arrivals', active', m)

(* Later arrivals change nothing; the last one came after all others.       *)
LEMMA ArrivalsGrow ==
  ASSUME NEW a \in Seq(Messages), NEW e \in Messages, NEW m, NEW n
  PROVE  /\ Precedes(a, m, n) => Precedes(Append(a, e), m, n)
         /\ m \in Elements(a) /\ Priority[m] = Priority[e] => Precedes(Append(a, e), m, e)
<1>1. PICK k \in Nat : k = Len(a) /\ DOMAIN a = 1 .. k
  BY LenProperties
<1>2. PICK b : b = Append(a, e)
  OBVIOUS
<1>3. b \in Seq(Messages) /\ Len(b) = k + 1 /\ (\A i \in 1 .. k : b[i] = a[i]) /\ b[k + 1] = e
  BY <1>1, <1>2, AppendProperties
<1>4. DOMAIN b = 1 .. k + 1
  BY <1>3, LenProperties
<1>5. Precedes(a, m, n) => Precedes(b, m, n)
  BY <1>1, <1>3, <1>4 DEF Precedes
<1>6. m \in Elements(a) /\ Priority[m] = Priority[e] => Precedes(b, m, e)
  <2>1. SUFFICES ASSUME m \in Elements(a), Priority[m] = Priority[e] PROVE Precedes(b, m, e)
    OBVIOUS
  <2>2. PICK i \in 1 .. k : a[i] = m
    BY <1>1, <2>1 DEF Elements
  <2>3. i \in DOMAIN b /\ k + 1 \in DOMAIN b /\ i < k + 1 /\ b[i] = m /\ b[k + 1] = e
    BY <1>3, <1>4, <2>2
  <2>4. QED
    BY <2>1, <2>3 DEF Precedes
<1>7. QED
  BY <1>2, <1>5, <1>6

LEMMA SortedEnqueue ==
  ASSUME NEW m \in Messages, queue \in Seq(Messages), arrivals \in Seq(Messages),
         Elements(queue) \subseteq Elements(arrivals), Sorted(arrivals, queue)
  PROVE  Sorted(Append(arrivals, m), EnqueueEntry(m))
<1> DEFINE I == {k \in 1 .. Len(queue) : Priority[queue[k]] > Priority[m]}
           at == SelectInSeq(queue, LAMBDA other : Priority[other] > Priority[m])
<1>1. PICK n \in Nat : n = Len(queue) /\ DOMAIN queue = 1 .. n
  BY LenProperties
<1>2. at = IF I # {} THEN Min(I) ELSE 0
  BY DEF SelectInSeq
<1>3. EnqueueEntry(m) = IF at = 0 THEN Append(queue, m) ELSE InsertAt(queue, at, m)
  BY DEF EnqueueEntry
<1>4. PICK a : a = Append(arrivals, m)
  OBVIOUS
<1>5. \A k \in 1 .. n : queue[k] \in Messages /\ queue[k] \in Elements(arrivals)
  BY <1>1, LenProperties DEF Elements
<1>6. \A i, j \in 1 .. n : i < j => Precedes(a, queue[i], queue[j])
  <2>1. ASSUME NEW i \in 1 .. n, NEW j \in 1 .. n, i < j PROVE Precedes(a, queue[i], queue[j])
    <3>1. Precedes(arrivals, queue[i], queue[j])
      BY <1>1, <2>1 DEF Sorted
    <3>2. QED
      BY <1>4, <3>1, ArrivalsGrow
  <2>2. QED
    BY <2>1
<1>7. \A k \in 1 .. n : Priority[queue[k]] \in 0 .. 2 /\ Priority[m] \in 0 .. 2
  BY <1>5, BridgeConstants
<1>8. \A k \in 1 .. n : k \notin I => Precedes(a, queue[k], m)
  <2>1. ASSUME NEW k \in 1 .. n, k \notin I PROVE Precedes(a, queue[k], m)
    <3>1. Priority[queue[k]] < Priority[m] \/ Priority[queue[k]] = Priority[m]
      BY <1>1, <1>7, <2>1
    <3>2. CASE Priority[queue[k]] = Priority[m]
      BY <1>4, <1>5, <3>2, ArrivalsGrow
    <3>3. QED
      BY <3>1, <3>2 DEF Precedes
  <2>2. QED
    BY <2>1
<1>9. CASE I = {}
  <2>1. EnqueueEntry(m) = Append(queue, m)
    BY <1>2, <1>3, <1>9
  <2>2. PICK t : t = Append(queue, m)
    OBVIOUS
  <2>3. t \in Seq(Messages) /\ Len(t) = n + 1 /\ (\A j \in 1 .. n : t[j] = queue[j]) /\ t[n + 1] = m
    BY <1>1, <2>2, AppendProperties
  <2>4. DOMAIN t = 1 .. n + 1
    BY <2>3, LenProperties
  <2>5. \A k \in 1 .. n : Precedes(a, queue[k], m)
    BY <1>8, <1>9
  <2> HIDE DEF I, at
  <2>6. ASSUME NEW i \in 1 .. n + 1, NEW j \in 1 .. n + 1, i < j PROVE Precedes(a, t[i], t[j])
    <3>1. i \in 1 .. n /\ t[i] = queue[i]
      BY <2>3, <2>6
    <3>2. CASE j = n + 1
      BY <2>3, <2>5, <3>1, <3>2
    <3>3. CASE j # n + 1
      BY <1>6, <2>3, <2>6, <3>1, <3>3
    <3>4. QED
      BY <3>2, <3>3
  <2>7. QED
    BY <1>4, <2>1, <2>2, <2>4, <2>6 DEF Sorted
<1>10. CASE I # {}
  <2>1. I \in SUBSET Nat
    BY <1>1
  <2>2. Min(I) \in I /\ \A y \in I : Min(I) <= y
    BY <1>10, <2>1, LeastPosition
  <2>3. PICK x \in 1 .. n : x = Min(I)
    BY <1>1, <2>2
  <2>4. at = x /\ at # 0
    <3>1. at = Min(I)
      BY <1>2, <1>10
    <3> HIDE DEF at, I
    <3>2. QED
      BY <2>3, <3>1
  <2>5. EnqueueEntry(m) = InsertAt(queue, x, m)
    BY <1>3, <2>4
  <2>6. Priority[queue[x]] > Priority[m] /\ \A k \in 1 .. n : k < x => k \notin I
    <3>1. x \in I /\ \A y \in I : x <= y
      BY <2>2, <2>3
    <3>2. Priority[queue[x]] > Priority[m]
      BY <3>1
    <3> HIDE DEF I, at
    <3>3. \A k \in 1 .. n : k < x => ~(x <= k)
      OBVIOUS
    <3>4. QED
      BY <3>1, <3>2, <3>3
  <2>7. \A k \in 1 .. n : k < x => Precedes(a, queue[k], m)
    BY <1>8, <2>6
  <2> HIDE DEF I, at
  <2>8. \A k \in 1 .. n : x <= k => Precedes(a, m, queue[k])
    <3>1. ASSUME NEW k \in 1 .. n, x <= k PROVE Priority[m] < Priority[queue[k]]
      <4>1. CASE x = k
        BY <1>7, <2>6, <4>1
      <4>2. CASE x < k
        BY <1>6, <1>7, <2>6, <4>2 DEF Precedes
      <4>3. QED
        BY <3>1, <4>1, <4>2
    <3>2. QED
      BY <3>1 DEF Precedes
  <2>9. PICK t : t = InsertAt(queue, x, m)
    OBVIOUS
  <2>10. /\ t \in Seq(Messages) /\ Len(t) = n + 1
         /\ \A j \in 1 .. n + 1 :
              t[j] = IF j < x THEN queue[j] ELSE IF j = x THEN m ELSE queue[j - 1]
    BY <1>1, <2>9, InsertAtPositions
  <2>11. DOMAIN t = 1 .. n + 1
    BY <2>10, LenProperties
  <2>12. ASSUME NEW i \in 1 .. n + 1, NEW j \in 1 .. n + 1, i < j PROVE Precedes(a, t[i], t[j])
    <3>1. CASE j < x
      <4>1. t[i] = queue[i] /\ t[j] = queue[j] /\ i \in 1 .. n /\ j \in 1 .. n
        BY <2>10, <2>12, <3>1
      <4>2. QED
        BY <1>6, <2>12, <4>1
    <3>2. CASE j = x
      <4>1. t[i] = queue[i] /\ t[j] = m /\ i \in 1 .. n /\ i < x
        BY <2>10, <2>12, <3>2
      <4>2. QED
        BY <2>7, <4>1
    <3>3. CASE j > x
      <4>1. t[j] = queue[j - 1] /\ j - 1 \in 1 .. n /\ x <= j - 1
        BY <2>10, <3>3
      <4>2. CASE i = x
        BY <2>8, <2>10, <4>1, <4>2
      <4>3. CASE i < x
        <5>1. t[i] = queue[i] /\ i \in 1 .. n /\ i < j - 1
          BY <2>10, <4>1, <4>3
        <5>2. QED
          BY <1>6, <4>1, <5>1
      <4>4. CASE i > x
        <5>1. t[i] = queue[i - 1] /\ i - 1 \in 1 .. n /\ i - 1 < j - 1
          BY <2>10, <2>12, <4>4
        <5>2. QED
          BY <1>6, <4>1, <5>1
      <4>5. QED
        BY <4>2, <4>3, <4>4
    <3>4. QED
      BY <3>1, <3>2, <3>3
  <2>13. QED
    BY <1>4, <2>5, <2>9, <2>11, <2>12 DEF Sorted
<1>11. QED
  BY <1>9, <1>10

LEMMA SortedRemove ==
  ASSUME NEW a, NEW q \in Seq(Messages), NEW i \in DOMAIN q, Sorted(a, q)
  PROVE  Sorted(a, RemoveAt(q, i))
<1>1. PICK n \in Nat : n = Len(q) /\ DOMAIN q = 1 .. n
  BY LenProperties
<1>2. PICK t : t = RemoveAt(q, i)
  OBVIOUS
<1>3. /\ t \in Seq(Messages) /\ Len(t) = n - 1
      /\ \A j \in 1 .. n - 1 : t[j] = IF j < i THEN q[j] ELSE q[j + 1]
  BY <1>1, <1>2, RemoveAtPositions
<1>4. DOMAIN t = 1 .. n - 1
  BY <1>3, LenProperties
<1>5. ASSUME NEW j \in 1 .. n - 1, NEW k \in 1 .. n - 1, j < k PROVE Precedes(a, t[j], t[k])
  <2>1. PICK x \in 1 .. n, y \in 1 .. n : t[j] = q[x] /\ t[k] = q[y] /\ x < y
    <3>1. CASE k < i
      BY <1>1, <1>3, <1>5, <3>1
    <3>2. CASE ~(k < i) /\ j < i
      <4>1. t[j] = q[j] /\ t[k] = q[k + 1] /\ j \in 1 .. n /\ k + 1 \in 1 .. n /\ j < k + 1
        BY <1>1, <1>3, <1>5, <3>2
      <4>2. QED
        BY <4>1
    <3>3. CASE ~(j < i)
      <4>1. t[j] = q[j + 1] /\ t[k] = q[k + 1] /\ j + 1 \in 1 .. n /\ k + 1 \in 1 .. n /\ j + 1 < k + 1
        BY <1>1, <1>3, <1>5, <3>3
      <4>2. QED
        BY <4>1
    <3>4. QED
      BY <3>1, <3>2, <3>3
  <2>2. QED
    BY <1>1, <2>1 DEF Sorted
<1>6. QED
  BY <1>2, <1>4, <1>5 DEF Sorted

(* Whoever becomes active was before all that are left.                     *)
LEMMA SortedActivation ==
  ASSUME NEW a, NEW q \in Seq(Messages), Sorted(a, q), NEW run, NEW armed, NEW answers,
         ActivateNext(q, answers, armed, run)
  PROVE  /\ Sorted(a, queue')
         /\ active' # NoMessage => \A m \in Elements(queue') : Precedes(a, active', m)
<1>1. PICK n \in Nat : n = Len(q) /\ DOMAIN q = 1 .. n
  BY LenProperties
<1>2. PICK r \in 0 .. n : /\ queue' = SubSeq(q, r + 2, n)
                          /\ IF r = n THEN active' = NoMessage ELSE active' = q[r + 1]
  BY <1>1 DEF ActivateNext
<1>3. CASE r = n
  <2>1. queue' = <<>>
    BY <1>2, <1>3, SubSeqEmpty
  <2>2. QED
    BY <1>2, <1>3, <2>1 DEF Sorted
<1>4. CASE r # n
  <2>1. r + 1 \in 1 .. n /\ r + 2 \in Nat /\ 1 <= r + 2 /\ r + 2 <= n + 1 /\ r \in Nat
    BY <1>1, <1>4
  <2>2. PICK w \in Nat : w = n - (r + 2) + 1
    BY <2>1
  <2>3. PICK t : t = queue'
    OBVIOUS
  <2>4. t \in Seq(Messages) /\ Len(t) = w /\ \A j \in 1 .. w : t[j] = q[r + 1 + j]
    <3>1. t = SubSeq(q, r + 2, n)
      BY <1>2, <2>3
    <3>2. /\ SubSeq(q, r + 2, n) \in Seq(Messages) /\ Len(SubSeq(q, r + 2, n)) = n - (r + 2) + 1
          /\ \A j \in 1 .. n - (r + 2) + 1 : SubSeq(q, r + 2, n)[j] = q[(r + 2) + j - 1]
      BY <1>1, <2>1, Part
    <3>3. \A j \in 1 .. w : (r + 2) + j - 1 = r + 1 + j
      BY <2>1
    <3>4. QED
      BY <2>2, <3>1, <3>2, <3>3
  <2>5. DOMAIN t = 1 .. w
    BY <2>4, LenProperties
  <2>6. \A j \in 1 .. w : r + 1 + j \in 1 .. n /\ r + 1 < r + 1 + j
    BY <2>1, <2>2
  <2>7. ASSUME NEW j \in 1 .. w, NEW k \in 1 .. w, j < k PROVE Precedes(a, t[j], t[k])
    <3>1. r + 1 + j < r + 1 + k
      BY <2>1, <2>7
    <3>2. QED
      BY <1>1, <2>4, <2>6, <3>1 DEF Sorted
  <2>8. ASSUME NEW j \in 1 .. w PROVE Precedes(a, q[r + 1], t[j])
    BY <1>1, <2>1, <2>4, <2>6 DEF Sorted
  <2>9. active' = q[r + 1]
    BY <1>2, <1>4
  <2>10. QED
    BY <2>3, <2>5, <2>7, <2>8, <2>9 DEF Sorted, Elements
<1>5. QED
  BY <1>3, <1>4

LEMMA SortedStep ==
  BridgeInv /\ Sorted(arrivals, queue) /\ [Next]_vars => Sorted(arrivals', queue') /\ InTurn
<1> SUFFICES ASSUME BridgeInv, Sorted(arrivals, queue), [Next]_vars
             PROVE  Sorted(arrivals', queue') /\ InTurn
  OBVIOUS
<1>1. queue \in Seq(Messages) /\ arrivals \in Seq(Messages)
  BY DEF BridgeInv, Shapes
<1>2. Elements(queue) \subseteq Elements(arrivals)
  <2>1. Elements(queue) \subseteq Messages
    BY <1>1, ElementsInSet
  <2>2. QED
    BY <2>1 DEF BridgeInv, Places
<1>3. ASSUME NEW m \in Messages, HandleEnvelope(m) PROVE Sorted(arrivals', queue') /\ InTurn
  <2>1. arrivals' = Append(arrivals, m) /\ Sorted(arrivals', EnqueueEntry(m))
    BY <1>1, <1>2, <1>3, SortedEnqueue DEF HandleEnvelope
  <2>2. CASE active # NoMessage
    BY <1>3, <2>1, <2>2 DEF HandleEnvelope, InTurn
  <2>3. CASE active = NoMessage
    <3>1. EnqueueEntry(m) \in Seq(Messages)
      <4>1. m \notin Elements(arrivals) /\ Distinct(queue)
        BY <1>1, <1>3, ContainsIsElement DEF HandleEnvelope, BridgeInv, Places
      <4>2. QED
        BY <1>1, <1>2, <4>1, Enqueued
    <3>2. ActivateNext(EnqueueEntry(m), answer, timers, asked)
      BY <1>3, <2>3 DEF HandleEnvelope
    <3>3. QED
      BY <2>1, <3>1, <3>2, SortedActivation DEF InTurn
  <2>4. QED
    BY <2>2, <2>3
<1>4. ASSUME NEW m \in Messages, CancelEntry(m) PROVE Sorted(arrivals', queue') /\ InTurn
  <2>1. active' = active /\ arrivals' = arrivals
    BY <1>4 DEF CancelEntry
  <2>2. queue' = queue \/ \E i \in DOMAIN queue : queue' = RemoveAt(queue, i)
    BY <1>4 DEF CancelEntry
  <2>3. QED
    BY <1>1, <2>1, <2>2, SortedRemove DEF InTurn
<1>5. ASSUME NEW answers, NEW armed, NEW run, ActivateNext(queue, answers, armed, run),
             arrivals' = arrivals
      PROVE  Sorted(arrivals', queue') /\ InTurn
  BY <1>1, <1>5, SortedActivation DEF InTurn
<1>6. ASSUME NEW m \in Messages, ActiveTimeout(m) PROVE Sorted(arrivals', queue') /\ InTurn
  <2>1. CASE UNCHANGED <<queue, active>>
    BY <1>6, <2>1 DEF ActiveTimeout, InTurn
  <2>2. CASE ActivateNext(queue, SettleEntry({m}, "ERROR"), timers \ {m}, asked)
    BY <1>5, <1>6, <2>2 DEF ActiveTimeout
  <2>3. QED
    BY <1>6, <2>1, <2>2 DEF ActiveTimeout
<1>7. ASSUME NEW text \in BOOLEAN, HandleAgentEnd(text) PROVE Sorted(arrivals', queue') /\ InTurn
  <2>1. CASE active = NoMessage
    BY <1>7, <2>1 DEF HandleAgentEnd, InTurn
  <2>2. CASE active # NoMessage
    BY <1>5, <1>7, <2>2 DEF HandleAgentEnd
  <2>3. QED
    BY <2>1, <2>2
<1>8. CASE Dispose
  BY <1>8 DEF Dispose, InTurn, Sorted
<1>9. CASE UNCHANGED vars
  BY <1>9 DEF vars, InTurn
<1>10. QED
  BY <1>3, <1>4, <1>6, <1>7, <1>8, <1>9 DEF Next

(* Turns go by priority and then by arrival: whatever timeouts,             *)
(* cancellations and refused deliveries take out of the queue, a message is *)
(* begun only when none that waits is more urgent, or as urgent and came    *)
(* earlier.                                                                 *)
THEOREM TurnsGoInOrderHolds == Spec => TurnsGoInOrder
<1> DEFINE InOrder == Sorted(arrivals, queue)
<1>1. Init => BridgeInv /\ InOrder
  BY InitInv DEF Init, Sorted
<1>2. BridgeInv /\ InOrder /\ [Next]_vars => BridgeInv' /\ InOrder'
  BY BridgeInvStep, SortedStep DEF Sorted, Precedes
<1>3. BridgeInv /\ InOrder /\ [Next]_vars =>
        [active' # active /\ active' # NoMessage => \A m \in Waiting' : Before(active, m)']_vars
  <2>1. InTurn => (active' # active /\ active' # NoMessage => \A m \in Waiting' : Before(active, m)')
    BY DEF InTurn, Waiting, Elements, Before, Precedes
  <2>2. QED
    BY <2>1, SortedStep
<1>4. QED
  BY <1>1, <1>2, <1>3, PTL DEF Spec, TurnsGoInOrder
=============================================================================
