--------------------------- MODULE Parsing_proofs ---------------------------
(***************************************************************************)
(* Proofs about SSHConfig and FilterLine, for configs and filters of any   *)
(* length.  Both read their input by a loop over its elements, modelled as a *)
(* recursive function, so most facts are proved along the elements: Induction *)
(* and Grows derive the two inductions needed from the least element of a set *)
(* of numbers, and Loop says that such a function exists and what its values *)
(* are, once for all loops.                                                *)
(*                                                                         *)
(* The two parsers are compared line by line: the block that the inventory's *)
(* is filling (open until the next Host line) is the last one the cleanup's *)
(* has appended, and Settings is what both keep of a block.  A removal is  *)
(* exact because the lines a block is given are those with as many Host lines *)
(* ahead of them as its number says (BlockLines), so that removing them takes *)
(* whole blocks and parsing goes block by block.  Deleting the whole plan  *)
(* spares the first machine of each target, and what the plan and the removal *)
(* do by lines is what CleanupFile does by blocks.  A filter is the last   *)
(* condition of each field and each tag key: FieldMeans and TagsMean say so *)
(* of the parsed record, and EveryFilterMeans puts them together.          *)
(***************************************************************************)
EXTENDS SSHConfig, FilterLine, FiniteSetTheorems, SequenceTheorems,
        WellFoundedInduction, TLAPS

----------------------------------------------------------------------------
(* Induction.  A set of numbers has a least element; hence what holds of 0 *)
(* and of the successor of each number that it holds of, holds of all.     *)

LEMMA LeastNumber ==
  ASSUME NEW T, T \subseteq Nat, T # {}
  PROVE  \E p \in T : \A q \in T : p <= q
<1> DEFINE Smaller == OpToRel(<, Nat)
<1>1. IsWellFoundedOn(Smaller, Nat)
  BY NatLessThanWellFounded
<1>2. \A p, q \in Nat : q < p => <<q, p>> \in Smaller
  BY DEF OpToRel
<1> HIDE DEF Smaller
<1>3. PICK p \in T : \A q \in T : ~(<<q, p>> \in Smaller)
  BY <1>1, WFMin
<1>4. p \in Nat /\ \A q \in T : q \in Nat /\ ~(q < p)
  BY <1>2, <1>3
<1> QED
  BY <1>4

LEMMA Induction ==
  ASSUME NEW S, 0 \in S, \A n \in Nat : n \in S => n + 1 \in S
  PROVE  Nat \subseteq S
<1> DEFINE T == Nat \ S
<1>1. SUFFICES ASSUME T # {} PROVE FALSE
  OBVIOUS
<1>2. T \subseteq Nat
  OBVIOUS
<1> HIDE DEF T
<1>3. PICK p \in T : \A q \in T : p <= q
  BY <1>1, <1>2, LeastNumber
<1>4. p \in Nat /\ p # 0
  BY <1>2 DEF T
<1>5. p - 1 \in Nat /\ p - 1 \in T
  BY <1>4 DEF T
<1> QED
  BY <1>3, <1>4, <1>5

\* Sequences are empty or end with an element.
LEMMA Grows ==
  ASSUME NEW T, NEW S, <<>> \in S,
         \A s \in Seq(T), x \in T : s \in S => Append(s, x) \in S
  PROVE  Seq(T) \subseteq S
<1> DEFINE N == {n \in Nat : \A s \in Seq(T) : Len(s) = n => s \in S}
<1>1. 0 \in N
  OBVIOUS
<1>2. ASSUME NEW n \in Nat, n \in N PROVE n + 1 \in N
  <2>1. SUFFICES ASSUME NEW s \in Seq(T), Len(s) = n + 1 PROVE s \in S
    OBVIOUS
  <2> DEFINE front == [i \in 1 .. n |-> s[i]]
  <2>2. front \in Seq(T) /\ Len(front) = n /\ s[n + 1] \in T
    BY <2>1
  <2>3. s = Append(front, s[n + 1])
    BY <2>1, <2>2
  <2> QED
    BY <1>2, <2>2, <2>3
<1> HIDE DEF N
<1>3. Nat \subseteq N
  BY <1>1, <1>2, Induction
<1> QED
  BY <1>3 DEF N


----------------------------------------------------------------------------
(* Loops over a sequence.  Each of the four functions below is the one     *)
(* that its definition chooses: there is one, since there is one up to any *)
(* place.                                                                  *)

Step(loop, seq, places, acc, n) ==
    CASE loop = "Sublist" -> IF n \in places THEN Append(acc, seq[n]) ELSE acc
      [] loop = "ReadLines" -> ReadLine(acc, seq[n])
      [] loop = "parseConfigHostBlocks" -> ReadNumbered(seq, acc, n)
      [] loop = "parseFilterExpression" -> ReadToken(acc, seq[n])

Runs(f, loop, seq, places, base, m) ==
    f = [n \in 0 .. m |->
            IF n = 0 THEN base ELSE Step(loop, seq, places, f[n - 1], n)]

LEMMA Loop ==
  ASSUME NEW loop, NEW seq, NEW places, NEW base, NEW m \in Nat
  PROVE  \E f : Runs(f, loop, seq, places, base, m)
<1> DEFINE Is(f, k) == f = [n \in 0 .. k |->
                               IF n = 0 THEN base
                               ELSE Step(loop, seq, places, f[n - 1], n)]
           N == {k \in Nat : \E f : Is(f, k)}
<1>1. 0 \in N
  <2>1. Is([n \in 0 .. 0 |-> base], 0)
    OBVIOUS
  <2> QED
    BY <2>1
<1>2. ASSUME NEW k \in Nat, k \in N PROVE k + 1 \in N
  <2>1. PICK f : Is(f, k)
    BY <1>2
  <2> DEFINE g == [n \in 0 .. k + 1 |->
                     IF n = 0 THEN base ELSE Step(loop, seq, places, f[n - 1], n)]
  <2>2. \A n \in 0 .. k : g[n] = f[n]
    BY <2>1
  <2>3. ASSUME NEW n \in 0 .. k + 1, n # 0 PROVE g[n - 1] = f[n - 1]
    <3>1. n - 1 \in 0 .. k
      BY <2>3
    <3> QED
      BY <2>2, <3>1
  <2>4. Is(g, k + 1)
    BY <2>3
  <2>5. \E h : Is(h, k + 1)
    BY <2>4
  <2> QED
    BY <2>5
<1> HIDE DEF N
<1>3. Nat \subseteq N
  BY <1>1, <1>2, Induction
<1> QED
  BY <1>3 DEF N, Runs

LEMMA SublistLoop ==
  ASSUME NEW seq, Len(seq) \in Nat, NEW places
  PROVE  \E f : /\ Sublist(seq, places) = f[Len(seq)]
                /\ f[0] = <<>>
                /\ \A n \in 0 .. Len(seq) - 1 :
                       f[n + 1] = IF n + 1 \in places THEN Append(f[n], seq[n + 1])
                                                      ELSE f[n]
<1> DEFINE Is(f) == f = [n \in 0 .. Len(seq) |->
                            IF n = 0 THEN <<>>
                            ELSE IF n \in places THEN Append(f[n - 1], seq[n])
                            ELSE f[n - 1]]
           f == CHOOSE f : Is(f)
<1>1. \A acc, n : Step("Sublist", seq, places, acc, n) =
                      IF n \in places THEN Append(acc, seq[n]) ELSE acc
  BY DEF Step
<1>2. \E h : Is(h)
  <2>1. PICK h : Runs(h, "Sublist", seq, places, <<>>, Len(seq))
    BY Loop
  <2>2. Is(h)
    BY <1>1, <2>1 DEF Runs
  <2> QED
    BY <2>2
<1>3. Is(f)
  BY <1>2
<1>4. Sublist(seq, places) = f[Len(seq)]
  BY DEF Sublist
<1> HIDE DEF f
<1>5. f[0] = <<>>
  BY <1>3
<1>6. ASSUME NEW n \in 0 .. Len(seq) - 1
      PROVE  f[n + 1] = IF n + 1 \in places THEN Append(f[n], seq[n + 1]) ELSE f[n]
  <2>1. n + 1 \in 0 .. Len(seq) /\ n + 1 # 0 /\ (n + 1) - 1 = n
    OBVIOUS
  <2> QED
    BY <1>3, <2>1
<1> QED
  BY <1>4, <1>5, <1>6

LEMMA ReadLinesLoop ==
  ASSUME NEW lines, Len(lines) \in Nat
  PROVE  \E f : /\ ReadLines(lines) = f[Len(lines)]
                /\ f[0] = [out |-> <<>>, current |-> <<>>]
                /\ \A n \in 0 .. Len(lines) - 1 :
                       f[n + 1] = ReadLine(f[n], lines[n + 1])
<1> DEFINE Is(f) == f = [n \in 0 .. Len(lines) |->
                            IF n = 0 THEN [out |-> <<>>, current |-> <<>>]
                                     ELSE ReadLine(f[n - 1], lines[n])]
           f == CHOOSE f : Is(f)
<1>1. \A acc, n : Step("ReadLines", lines, {}, acc, n) = ReadLine(acc, lines[n])
  BY DEF Step
<1>2. \E h : Is(h)
  <2>1. PICK h : Runs(h, "ReadLines", lines, {}, [out |-> <<>>, current |-> <<>>], Len(lines))
    BY Loop
  <2>2. Is(h)
    BY <1>1, <2>1 DEF Runs
  <2> QED
    BY <2>2
<1>3. Is(f)
  BY <1>2
<1>4. ReadLines(lines) = f[Len(lines)]
  BY DEF ReadLines
<1> HIDE DEF f
<1>5. f[0] = [out |-> <<>>, current |-> <<>>]
  BY <1>3
<1>6. ASSUME NEW n \in 0 .. Len(lines) - 1
      PROVE  f[n + 1] = ReadLine(f[n], lines[n + 1])
  <2>1. n + 1 \in 0 .. Len(lines) /\ n + 1 # 0 /\ (n + 1) - 1 = n
    OBVIOUS
  <2> QED
    BY <1>3, <2>1
<1> QED
  BY <1>4, <1>5, <1>6

LEMMA NumberedLoop ==
  ASSUME NEW lines, Len(lines) \in Nat
  PROVE  \E f : /\ parseConfigHostBlocks(lines) = f[Len(lines)]
                /\ f[0] = <<>>
                /\ \A n \in 0 .. Len(lines) - 1 :
                       f[n + 1] = ReadNumbered(lines, f[n], n + 1)
<1> DEFINE Is(f) == f = [n \in 0 .. Len(lines) |->
                            IF n = 0 THEN <<>> ELSE ReadNumbered(lines, f[n - 1], n)]
           f == CHOOSE f : Is(f)
<1>1. \A acc, n : Step("parseConfigHostBlocks", lines, {}, acc, n) =
                      ReadNumbered(lines, acc, n)
  BY DEF Step
<1>2. \E h : Is(h)
  <2>1. PICK h : Runs(h, "parseConfigHostBlocks", lines, {}, <<>>, Len(lines))
    BY Loop
  <2>2. Is(h)
    BY <1>1, <2>1 DEF Runs
  <2> QED
    BY <2>2
<1>3. Is(f)
  BY <1>2
<1>4. parseConfigHostBlocks(lines) = f[Len(lines)]
  BY DEF parseConfigHostBlocks
<1> HIDE DEF f
<1>5. f[0] = <<>>
  BY <1>3
<1>6. ASSUME NEW n \in 0 .. Len(lines) - 1
      PROVE  f[n + 1] = ReadNumbered(lines, f[n], n + 1)
  <2>1. n + 1 \in 0 .. Len(lines) /\ n + 1 # 0 /\ (n + 1) - 1 = n
    OBVIOUS
  <2> QED
    BY <1>3, <2>1
<1> QED
  BY <1>4, <1>5, <1>6

LEMMA FilterLoop ==
  ASSUME NEW text, Len(text) \in Nat
  PROVE  \E f : /\ parseFilterExpression(text) = f[Len(text)]
                /\ f[0] = NoFilter
                /\ \A n \in 0 .. Len(text) - 1 :
                       f[n + 1] = ReadToken(f[n], text[n + 1])
<1> DEFINE Is(f) == f = [n \in 0 .. Len(text) |->
                            IF n = 0 THEN NoFilter ELSE ReadToken(f[n - 1], text[n])]
           f == CHOOSE f : Is(f)
<1>1. \A acc, n : Step("parseFilterExpression", text, {}, acc, n) =
                      ReadToken(acc, text[n])
  BY DEF Step
<1>2. \E h : Is(h)
  <2>1. PICK h : Runs(h, "parseFilterExpression", text, {}, NoFilter, Len(text))
    BY Loop
  <2>2. Is(h)
    BY <1>1, <2>1 DEF Runs
  <2> QED
    BY <2>2
<1>3. Is(f)
  BY <1>2
<1>4. parseFilterExpression(text) = f[Len(text)]
  BY DEF parseFilterExpression
<1> HIDE DEF f
<1>5. f[0] = NoFilter
  BY <1>3
<1>6. ASSUME NEW n \in 0 .. Len(text) - 1
      PROVE  f[n + 1] = ReadToken(f[n], text[n + 1])
  <2>1. n + 1 \in 0 .. Len(text) /\ n + 1 # 0 /\ (n + 1) - 1 = n
    OBVIOUS
  <2> QED
    BY <1>3, <2>1
<1> QED
  BY <1>4, <1>5, <1>6

----------------------------------------------------------------------------
(* Sublists *)

LEMMA SublistEmpty ==
  ASSUME NEW places
  PROVE  Sublist(<<>>, places) = <<>>
<1>1. Len(<<>>) = 0
  OBVIOUS
<1> QED
  BY <1>1, SublistLoop

LEMMA SublistAppend ==
  ASSUME NEW T, NEW seq \in Seq(T), NEW x \in T, NEW places, NEW others,
         \A i \in DOMAIN seq : i \in places <=> i \in others
  PROVE  Sublist(Append(seq, x), places) =
             IF Len(seq) + 1 \in places THEN Append(Sublist(seq, others), x)
                                        ELSE Sublist(seq, others)
<1> DEFINE m == Len(seq)
           longer == Append(seq, x)
<1>1. /\ m \in Nat /\ Len(longer) = m + 1 /\ longer[m + 1] = x
      /\ \A i \in 1 .. m : longer[i] = seq[i] /\ i \in DOMAIN seq
  OBVIOUS
<1>2. PICK f : /\ Sublist(longer, places) = f[m + 1]
               /\ f[0] = <<>>
               /\ \A n \in 0 .. m :
                      f[n + 1] = IF n + 1 \in places THEN Append(f[n], longer[n + 1])
                                                     ELSE f[n]
  <2>1. Len(longer) \in Nat /\ Len(longer) = m + 1 /\ Len(longer) - 1 = m
    BY <1>1
  <2> HIDE DEF longer, m
  <2>2. PICK f : /\ Sublist(longer, places) = f[Len(longer)]
                 /\ f[0] = <<>>
                 /\ \A n \in 0 .. Len(longer) - 1 :
                        f[n + 1] = IF n + 1 \in places THEN Append(f[n], longer[n + 1])
                                                       ELSE f[n]
    BY <2>1, SublistLoop
  <2> QED
    BY <2>1, <2>2
<1>3. PICK g : /\ Sublist(seq, others) = g[m]
               /\ g[0] = <<>>
               /\ \A n \in 0 .. m - 1 :
                      g[n + 1] = IF n + 1 \in others THEN Append(g[n], seq[n + 1])
                                                     ELSE g[n]
  BY <1>1, SublistLoop
<1> DEFINE N == {n \in Nat : n <= m => f[n] = g[n]}
<1> HIDE DEF longer
<1>4. 0 \in N
  BY <1>2, <1>3
<1>5. ASSUME NEW n \in Nat, n \in N PROVE n + 1 \in N
  <2>1. SUFFICES ASSUME n + 1 <= m PROVE f[n + 1] = g[n + 1]
    OBVIOUS
  <2>2. n \in 0 .. m - 1 /\ n \in 0 .. m /\ n + 1 \in 1 .. m /\ f[n] = g[n]
    BY <1>1, <1>5, <2>1
  <2>3. longer[n + 1] = seq[n + 1] /\ (n + 1 \in places <=> n + 1 \in others)
    BY <1>1, <2>2
  <2> QED
    BY <1>2, <1>3, <2>2, <2>3
<1> HIDE DEF N
<1>6. Nat \subseteq N
  BY <1>4, <1>5, Induction
<1>7. f[m] = g[m]
  BY <1>1, <1>6 DEF N
<1>8. f[m + 1] = IF m + 1 \in places THEN Append(f[m], x) ELSE f[m]
  BY <1>1, <1>2
<1> QED
  BY <1>2, <1>3, <1>7, <1>8 DEF longer

LEMMA SublistNext ==
  ASSUME NEW T, NEW seq \in Seq(T), NEW x \in T, NEW places
  PROVE  Sublist(Append(seq, x), places) =
             IF Len(seq) + 1 \in places THEN Append(Sublist(seq, places), x)
                                        ELSE Sublist(seq, places)
BY SublistAppend

LEMMA SublistType ==
  ASSUME NEW T, NEW seq \in Seq(T), NEW places
  PROVE  Sublist(seq, places) \in Seq(T)
<1> DEFINE S == {s \in Seq(T) : Sublist(s, places) \in Seq(T)}
<1>1. <<>> \in S
  <2>1. <<>> \in Seq(T)
    OBVIOUS
  <2> QED
    BY <2>1, SublistEmpty
<1>2. ASSUME NEW s \in Seq(T), NEW x \in T, s \in S PROVE Append(s, x) \in S
  <2>1. Append(s, x) \in Seq(T) /\ Sublist(s, places) \in Seq(T)
    BY <1>2
  <2>2. Sublist(Append(s, x), places) \in
            {Append(Sublist(s, places), x), Sublist(s, places)}
    BY SublistAppend
  <2>3. Append(Sublist(s, places), x) \in Seq(T)
    BY <2>1
  <2>4. Sublist(Append(s, x), places) \in Seq(T)
    BY <2>1, <2>2, <2>3
  <2> QED
    BY <2>1, <2>4
<1> HIDE DEF S
<1>3. Seq(T) \subseteq S
  BY <1>1, <1>2, Grows
<1> QED
  BY <1>3 DEF S

\* The place in seq of each element of a sublist.
PlacesOf(at, seq, places) ==
    LET sub == Sublist(seq, places)
    IN  /\ \A k \in 1 .. Len(sub) :
               at[k] \in DOMAIN seq /\ at[k] \in places /\ sub[k] = seq[at[k]]
        /\ \A k, l \in 1 .. Len(sub) : k < l => at[k] < at[l]
        /\ \A i \in DOMAIN seq : i \in places => \E k \in 1 .. Len(sub) : at[k] = i

LEMMA SublistPlaces ==
  ASSUME NEW T, NEW seq \in Seq(T), NEW places
  PROVE  \E at : PlacesOf(at, seq, places)
<1> DEFINE S == {s \in Seq(T) : \E at : PlacesOf(at, s, places)}
<1>1. <<>> \in S
  <2>1. PlacesOf(<<>>, <<>>, places)
    BY SublistEmpty DEF PlacesOf
  <2> QED
    BY <2>1
<1>2. ASSUME NEW s \in Seq(T), NEW x \in T, s \in S PROVE Append(s, x) \in S
  <2>1. PICK at : PlacesOf(at, s, places)
    BY <1>2
  <2> DEFINE n == Len(s)
             sub == Sublist(s, places)
             longer == Append(s, x)
             next == [k \in 1 .. Len(sub) + 1 |-> IF k <= Len(sub) THEN at[k] ELSE n + 1]
  <2>2. sub \in Seq(T) /\ Len(sub) \in Nat
    BY SublistType
  <2>3. /\ longer \in Seq(T) /\ DOMAIN longer = 1 .. n + 1 /\ DOMAIN s = 1 .. n
        /\ n \in Nat /\ longer[n + 1] = x /\ \A i \in 1 .. n : longer[i] = s[i]
    OBVIOUS
  <2>4. Sublist(longer, places) = IF n + 1 \in places THEN Append(sub, x) ELSE sub
    BY SublistAppend
  <2>5. /\ \A k \in 1 .. Len(sub) : at[k] \in 1 .. n /\ at[k] \in places /\ sub[k] = s[at[k]]
        /\ \A k, l \in 1 .. Len(sub) : k < l => at[k] < at[l]
        /\ \A i \in 1 .. n : i \in places => \E k \in 1 .. Len(sub) : at[k] = i
    BY <2>1, <2>3 DEF PlacesOf
  <2>6. CASE n + 1 \notin places
    <3>1. PlacesOf(at, longer, places)
      <4>1. Sublist(longer, places) = sub
        BY <2>4, <2>6
      <4> HIDE DEF longer, sub, n, next
      <4>2. /\ \A k \in 1 .. Len(sub) : /\ at[k] \in 1 .. n + 1 /\ at[k] \in places
                                       /\ sub[k] = longer[at[k]]
            /\ \A i \in 1 .. n + 1 : i \in places => \E k \in 1 .. Len(sub) : at[k] = i
        BY <2>2, <2>3, <2>5, <2>6
      <4> QED
        BY <2>3, <2>5, <4>1, <4>2 DEF PlacesOf
    <3>2. \E a : PlacesOf(a, longer, places)
      BY <3>1
    <3> QED
      BY <2>3, <3>2
  <2>7. CASE n + 1 \in places
    <3> DEFINE m == Len(sub)
               more == Append(sub, x)
    <3>1. /\ Len(more) = m + 1 /\ more[m + 1] = x /\ m \in Nat
          /\ \A k \in 1 .. m : more[k] = sub[k]
      BY <2>2
    <3>2. /\ next[m + 1] = n + 1
          /\ \A k \in 1 .. m : next[k] = at[k]
      BY <3>1
    <3>3. Sublist(longer, places) = more
      BY <2>4, <2>7
    <3>4. /\ \A k \in 1 .. m : at[k] \in 1 .. n /\ at[k] \in places /\ sub[k] = s[at[k]]
          /\ \A k, l \in 1 .. m : k < l => at[k] < at[l]
          /\ \A i \in 1 .. n : i \in places => \E k \in 1 .. m : at[k] = i
      BY <2>5
    <3> HIDE DEF more, next, longer, sub, n, m
    <3>5. ASSUME NEW k \in 1 .. m + 1
          PROVE  next[k] \in 1 .. n + 1 /\ next[k] \in places /\ more[k] = longer[next[k]]
      <4>1. CASE k \in 1 .. m
        BY <2>3, <3>1, <3>2, <3>4, <4>1
      <4>2. CASE k = m + 1
        BY <2>3, <2>7, <3>1, <3>2, <4>2
      <4> QED
        BY <3>1, <4>1, <4>2
    <3>6. ASSUME NEW k \in 1 .. m + 1, NEW l \in 1 .. m + 1, k < l
          PROVE  next[k] < next[l]
      <4>1. k \in 1 .. m /\ next[k] = at[k] /\ at[k] \in 1 .. n
        BY <3>1, <3>2, <3>4, <3>6
      <4>2. CASE l \in 1 .. m
        BY <3>2, <3>4, <3>6, <4>1, <4>2
      <4>3. CASE l = m + 1
        BY <2>3, <3>2, <4>1, <4>3
      <4> QED
        BY <3>1, <4>2, <4>3
    <3>7. ASSUME NEW i \in 1 .. n + 1, i \in places
          PROVE  \E k \in 1 .. m + 1 : next[k] = i
      <4>1. CASE i \in 1 .. n
        BY <3>1, <3>2, <3>4, <3>7, <4>1
      <4>2. CASE i = n + 1
        BY <3>1, <3>2, <4>2
      <4> QED
        BY <2>3, <4>1, <4>2
    <3>8. PlacesOf(next, longer, places)
      BY <2>3, <3>1, <3>3, <3>5, <3>6, <3>7 DEF PlacesOf
    <3>9. \E a : PlacesOf(a, longer, places)
      BY <3>8
    <3> QED
      BY <2>3, <3>9 DEF longer
  <2> QED
    BY <2>6, <2>7
<1> HIDE DEF S
<1>3. Seq(T) \subseteq S
  BY <1>1, <1>2, Grows
<1> QED
  BY <1>3 DEF S

----------------------------------------------------------------------------
(* The two parsers of an SSH config *)

Value == {line.value : line \in Lines} \cup {Unset}

BlockType == [alias : Value, hostname : Value, user : Value, port : Value,
              forwards : BOOLEAN]

LEMMA BlockHasType ==
  ASSUME NEW line \in Lines
  PROVE  Block(line.value) \in BlockType
BY DEF Block, BlockType, Value

LEMMA WithHasType ==
  ASSUME NEW line \in Lines, NEW b \in BlockType
  PROVE  With(b, line) \in BlockType /\ With(b, line).alias = b.alias
<1>1. line.value \in Value
  BY DEF Value
<1> QED
  BY <1>1 DEF With, BlockType

\* What either parser makes of a line: the blocks so far, the last one still
\* open.
NextBlocks(bs, line) ==
    IF line.key = "host" THEN Append(bs, Block(line.value))
    ELSE IF bs = <<>> THEN bs
    ELSE [bs EXCEPT ![Len(bs)] = With(bs[Len(bs)], line)]

LEMMA ExceptLast ==
  ASSUME NEW T, NEW s \in Seq(T), NEW x \in T, NEW y \in T
  PROVE  [Append(s, x) EXCEPT ![Len(s) + 1] = y] = Append(s, y)
<1> DEFINE u == [Append(s, x) EXCEPT ![Len(s) + 1] = y]
           v == Append(s, y)
<1>1. u \in Seq(T) /\ Len(u) = Len(s) + 1
  OBVIOUS
<1>2. v \in Seq(T) /\ Len(v) = Len(s) + 1
  OBVIOUS
<1>3. ASSUME NEW i \in 1 .. Len(s) + 1 PROVE u[i] = v[i]
  <2>1. CASE i = Len(s) + 1
    <3>1. Len(s) + 1 \in DOMAIN Append(s, x)
      OBVIOUS
    <3> QED
      BY <2>1, <3>1
  <2>2. CASE i \in 1 .. Len(s) /\ i # Len(s) + 1
    <3>1. i \in DOMAIN Append(s, x) /\ Append(s, x)[i] = s[i] /\ v[i] = s[i]
      BY <2>2
    <3> QED
      BY <2>2, <3>1
  <2> QED
    BY <2>1, <2>2
<1> HIDE DEF u, v
<1>4. u = v
  BY <1>1, <1>2, <1>3, SeqEqual
<1> QED
  BY <1>4 DEF u, v

LEMMA NextBlocksType ==
  ASSUME NEW bs \in Seq(BlockType), NEW line \in Lines
  PROVE  /\ NextBlocks(bs, line) \in Seq(BlockType)
         /\ Len(NextBlocks(bs, line)) =
                IF line.key = "host" THEN Len(bs) + 1 ELSE Len(bs)
<1>1. CASE line.key = "host"
  BY <1>1, BlockHasType DEF NextBlocks
<1>2. CASE line.key # "host" /\ bs = <<>>
  BY <1>2 DEF NextBlocks
<1>3. CASE line.key # "host" /\ bs # <<>>
  <2>1. Len(bs) \in 1 .. Len(bs) /\ bs[Len(bs)] \in BlockType
    BY <1>3
  <2>2. With(bs[Len(bs)], line) \in BlockType
    BY <2>1, WithHasType
  <2>3. [bs EXCEPT ![Len(bs)] = With(bs[Len(bs)], line)] \in Seq(BlockType)
    BY <2>1, <2>2
  <2>4. Len([bs EXCEPT ![Len(bs)] = With(bs[Len(bs)], line)]) = Len(bs)
    BY <2>1
  <2> QED
    BY <1>3, <2>3, <2>4 DEF NextBlocks
<1> QED
  BY <1>1, <1>2, <1>3

LEMMA NextBlocksLast ==
  ASSUME NEW s \in Seq(BlockType), NEW b \in BlockType, NEW line \in Lines,
         line.key # "host"
  PROVE  NextBlocks(Append(s, b), line) = Append(s, With(b, line))
<1> DEFINE bs == Append(s, b)
           c == With(b, line)
<1>1. c \in BlockType
  BY WithHasType
<1>2. bs # <<>> /\ Len(bs) = Len(s) + 1 /\ bs[Len(s) + 1] = b
  OBVIOUS
<1>3. NextBlocks(bs, line) = [bs EXCEPT ![Len(s) + 1] = c]
  <2> HIDE DEF bs
  <2> QED
    BY <1>2 DEF NextBlocks
<1> HIDE DEF c
<1>4. [Append(s, b) EXCEPT ![Len(s) + 1] = c] = Append(s, c)
  BY <1>1, ExceptLast
<1> QED
  BY <1>3, <1>4 DEF c

\* The inventory's parser: its blocks, with the one it has not yet added.
Joined(acc) == acc.out \o acc.current

ReadState ==
    {acc \in [out : Seq(BlockType), current : Seq(BlockType)] :
        Len(acc.current) <= 1 /\ (acc.current = <<>> => acc.out = <<>>)}

LEMMA ReadLineStep ==
  ASSUME NEW acc \in ReadState, NEW line \in Lines
  PROVE  /\ ReadLine(acc, line) \in ReadState
         /\ Joined(ReadLine(acc, line)) = NextBlocks(Joined(acc), line)
<1> DEFINE next == ReadLine(acc, line)
<1>1. /\ acc = [out |-> acc.out, current |-> acc.current]
      /\ acc.out \in Seq(BlockType) /\ acc.current \in Seq(BlockType)
      /\ Len(acc.current) <= 1 /\ (acc.current = <<>> => acc.out = <<>>)
  BY DEF ReadState
<1>2. CASE line.key = "host"
  <2>1. next = [out |-> Joined(acc), current |-> <<Block(line.value)>>]
    BY <1>2 DEF ReadLine, Joined
  <2>2. Joined(acc) \in Seq(BlockType) /\ <<Block(line.value)>> \in Seq(BlockType)
    BY <1>1, BlockHasType DEF Joined
  <2>3. Joined(next) = Append(Joined(acc), Block(line.value))
    <3>1. Joined(next) = Joined(acc) \o <<Block(line.value)>>
      <4> HIDE DEF next
      <4> QED
        BY <2>1 DEF Joined
    <3> HIDE DEF Joined
    <3>2. Append(Joined(acc), Block(line.value)) = Joined(acc) \o <<Block(line.value)>>
      BY <2>2, BlockHasType, AppendIsConcat
    <3> QED
      BY <3>1, <3>2
  <2>4. next \in ReadState
    <3> HIDE DEF next
    <3>1. Len(<<Block(line.value)>>) <= 1 /\ <<Block(line.value)>> # <<>>
      OBVIOUS
    <3> QED
      BY <2>1, <2>2, <3>1 DEF ReadState
  <2> QED
    BY <1>2, <2>3, <2>4 DEF NextBlocks
<1>3. CASE line.key # "host" /\ acc.current = <<>>
  <2>1. next = acc
    BY <1>1, <1>3 DEF ReadLine
  <2>2. Joined(acc) = <<>>
    BY <1>1, <1>3 DEF Joined
  <2> QED
    BY <1>3, <2>1, <2>2 DEF NextBlocks
<1>4. CASE line.key # "host" /\ acc.current # <<>>
  <2> DEFINE b == acc.current[1]
             m == Len(acc.out)
  <2>1. acc.current = <<b>> /\ b \in BlockType /\ m \in Nat
    BY <1>1, <1>4
  <2>2. [i \in DOMAIN acc.current |-> With(acc.current[i], line)] = <<With(b, line)>>
    BY <2>1
  <2>3. next = [out |-> acc.out, current |-> <<With(b, line)>>]
    BY <1>1, <1>4, <2>2 DEF ReadLine
  <2>4. With(b, line) \in BlockType
    BY <2>1, WithHasType
  <2>5. next \in ReadState
    <3> HIDE DEF next
    <3>1. Len(<<With(b, line)>>) <= 1 /\ <<With(b, line)>> # <<>>
          /\ <<With(b, line)>> \in Seq(BlockType)
      BY <2>4
    <3> HIDE DEF b
    <3> QED
      BY <1>1, <2>3, <3>1 DEF ReadState
  <2>6. Joined(acc) = Append(acc.out, b) /\ Joined(next) = Append(acc.out, With(b, line))
    BY <1>1, <2>1, <2>3, <2>4, AppendIsConcat DEF Joined
  <2>7. NextBlocks(Append(acc.out, b), line) = Append(acc.out, With(b, line))
    <3>1. acc.out \in Seq(BlockType)
      BY <1>1
    <3> HIDE DEF b
    <3> QED
      BY <1>4, <2>1, <3>1, NextBlocksLast
  <2> QED
    BY <2>5, <2>6, <2>7
<1> QED
  BY <1>2, <1>3, <1>4

LEMMA ReadLinesEmpty ==
  ReadLines(<<>>) = [out |-> <<>>, current |-> <<>>]
<1>1. Len(<<>>) = 0
  OBVIOUS
<1> QED
  BY <1>1, ReadLinesLoop

LEMMA ReadLinesAppend ==
  ASSUME NEW T, NEW lines \in Seq(T), NEW x \in T
  PROVE  ReadLines(Append(lines, x)) = ReadLine(ReadLines(lines), x)
<1> DEFINE m == Len(lines)
           longer == Append(lines, x)
<1>1. /\ m \in Nat /\ Len(longer) = m + 1 /\ longer[m + 1] = x
      /\ \A i \in 1 .. m : longer[i] = lines[i]
  OBVIOUS
<1>2. PICK f : /\ ReadLines(longer) = f[m + 1]
               /\ f[0] = [out |-> <<>>, current |-> <<>>]
               /\ \A n \in 0 .. m : f[n + 1] = ReadLine(f[n], longer[n + 1])
  <2>1. Len(longer) \in Nat /\ Len(longer) = m + 1 /\ Len(longer) - 1 = m
    BY <1>1
  <2> HIDE DEF longer, m
  <2>2. PICK f : /\ ReadLines(longer) = f[Len(longer)]
                 /\ f[0] = [out |-> <<>>, current |-> <<>>]
                 /\ \A n \in 0 .. Len(longer) - 1 :
                        f[n + 1] = ReadLine(f[n], longer[n + 1])
    BY <2>1, ReadLinesLoop
  <2> QED
    BY <2>1, <2>2
<1>3. PICK g : /\ ReadLines(lines) = g[m]
               /\ g[0] = [out |-> <<>>, current |-> <<>>]
               /\ \A n \in 0 .. m - 1 : g[n + 1] = ReadLine(g[n], lines[n + 1])
  BY <1>1, ReadLinesLoop
<1> DEFINE N == {n \in Nat : n <= m => f[n] = g[n]}
<1> HIDE DEF longer
<1>4. 0 \in N
  BY <1>2, <1>3
<1>5. ASSUME NEW n \in Nat, n \in N PROVE n + 1 \in N
  <2>1. SUFFICES ASSUME n + 1 <= m PROVE f[n + 1] = g[n + 1]
    OBVIOUS
  <2>2. n \in 0 .. m - 1 /\ n \in 0 .. m /\ n + 1 \in 1 .. m /\ f[n] = g[n]
    BY <1>1, <1>5, <2>1
  <2> QED
    BY <1>1, <1>2, <1>3, <2>2
<1> HIDE DEF N
<1>6. Nat \subseteq N
  BY <1>4, <1>5, Induction
<1>7. f[m] = g[m]
  BY <1>1, <1>6 DEF N
<1> QED
  BY <1>1, <1>2, <1>3, <1>7 DEF longer

\* The blocks of a config, as the inventory would read them to the end.
Parsed(lines) == Joined(ReadLines(lines))

LEMMA ParsedEmpty ==
  ReadLines(<<>>) \in ReadState /\ Parsed(<<>>) = <<>>
<1> DEFINE acc == [out |-> <<>>, current |-> <<>>]
<1>1. acc.out = <<>> /\ acc.current = <<>> /\ acc.out \o acc.current = <<>>
  OBVIOUS
<1>2. <<>> \in Seq(BlockType) /\ Len(<<>>) <= 1
  OBVIOUS
<1>3. acc \in ReadState
  BY <1>2 DEF ReadState
<1>4. Joined(acc) = <<>>
  BY <1>1 DEF Joined
<1> QED
  BY <1>3, <1>4, ReadLinesEmpty DEF Parsed

LEMMA ParsedType ==
  ASSUME NEW lines \in Seq(Lines)
  PROVE  ReadLines(lines) \in ReadState /\ Parsed(lines) \in Seq(BlockType)
<1> DEFINE S == {s \in Seq(Lines) : ReadLines(s) \in ReadState}
<1>1. <<>> \in S
  <2>1. <<>> \in Seq(Lines)
    OBVIOUS
  <2> QED
    BY <2>1, ParsedEmpty
<1>2. ASSUME NEW s \in Seq(Lines), NEW x \in Lines, s \in S PROVE Append(s, x) \in S
  <2>1. Append(s, x) \in Seq(Lines)
    OBVIOUS
  <2>2. ReadLines(Append(s, x)) \in ReadState
    BY <1>2, ReadLinesAppend, ReadLineStep
  <2> QED
    BY <2>1, <2>2
<1> HIDE DEF S
<1>3. Seq(Lines) \subseteq S
  BY <1>1, <1>2, Grows
<1>4. ReadLines(lines) \in ReadState
  BY <1>3 DEF S
<1> QED
  BY <1>4 DEF Parsed, Joined, ReadState

LEMMA ParsedAppend ==
  ASSUME NEW lines \in Seq(Lines), NEW x \in Lines
  PROVE  Parsed(Append(lines, x)) = NextBlocks(Parsed(lines), x)
BY ParsedType, ReadLinesAppend, ReadLineStep DEF Parsed

\* The cleanup's parser: its blocks without their places.
Settings(bs) == [i \in DOMAIN bs |-> bs[i].block]

HostBlockType == [block : BlockType, start : Int, end : Int]

LEMMA SettingsType ==
  ASSUME NEW bs \in Seq(HostBlockType)
  PROVE  Settings(bs) \in Seq(BlockType) /\ Len(Settings(bs)) = Len(bs)
<1>1. \A i \in 1 .. Len(bs) : bs[i] \in HostBlockType
  OBVIOUS
<1>2. \A i \in 1 .. Len(bs) : bs[i].block \in BlockType
  BY <1>1 DEF HostBlockType
<1> QED
  BY <1>2 DEF Settings

LEMMA NumberedStep ==
  ASSUME NEW lines \in Seq(Lines), NEW i \in DOMAIN lines,
         NEW acc \in Seq(HostBlockType)
  PROVE  /\ ReadNumbered(lines, acc, i) \in Seq(HostBlockType)
         /\ Settings(ReadNumbered(lines, acc, i)) = NextBlocks(Settings(acc), lines[i])
<1> DEFINE next == ReadNumbered(lines, acc, i)
           m == Len(acc)
<1>1. lines[i] \in Lines /\ i \in Nat /\ m \in Nat /\ Len(lines) \in Nat
  OBVIOUS
<1>2. /\ Settings(acc) \in Seq(BlockType) /\ Len(Settings(acc)) = m
      /\ DOMAIN acc = 1 .. m
      /\ \A k \in 1 .. m : /\ acc[k] \in HostBlockType
                           /\ Settings(acc)[k] = acc[k].block
  BY SettingsType DEF Settings
<1>3. CASE lines[i].key = "host"
  <2> DEFINE closed == [k \in DOMAIN acc |->
                           IF k = Len(acc) THEN [acc[k] EXCEPT !.end = i] ELSE acc[k]]
             new == HostBlock(lines[i].value, i, Len(lines) + 1)
  <2>1. next = Append(closed, new)
    BY <1>3 DEF ReadNumbered
  <2>2. new \in HostBlockType /\ new.block = Block(lines[i].value)
    BY <1>1, BlockHasType DEF HostBlock, HostBlockType
  <2>3. \A k \in 1 .. m : /\ closed[k] \in HostBlockType
                          /\ closed[k].block = acc[k].block
    BY <1>1, <1>2 DEF HostBlockType
  <2>4. closed \in Seq(HostBlockType) /\ Len(closed) = m
    BY <1>1, <1>2, <2>3
  <2>5. next \in Seq(HostBlockType)
    BY <2>1, <2>2, <2>4
  <2>6. Settings(next) = Append(Settings(acc), Block(lines[i].value))
    <3> DEFINE u == Settings(next)
               v == Append(Settings(acc), Block(lines[i].value))
    <3> HIDE DEF next, closed, new
    <3>1. Len(next) = m + 1 /\ next[m + 1] = new /\ \A k \in 1 .. m : next[k] = closed[k]
      BY <2>1, <2>2, <2>4
    <3>2. u \in Seq(BlockType) /\ Len(u) = m + 1
      BY <2>5, <3>1, SettingsType
    <3>3. v \in Seq(BlockType) /\ Len(v) = m + 1
      BY <1>1, <1>2, BlockHasType
    <3>4. ASSUME NEW k \in 1 .. m + 1 PROVE u[k] = v[k]
      <4>1. u[k] = next[k].block
        BY <2>5, <3>1 DEF Settings
      <4>2. CASE k \in 1 .. m
        BY <1>2, <2>3, <3>1, <4>1, <4>2
      <4>3. CASE k = m + 1
        BY <1>2, <2>2, <3>1, <4>1, <4>3
      <4>4. k \in 1 .. m \/ k = m + 1
        <5> HIDE DEF m
        <5> QED
          BY <1>1
      <4> QED
        BY <4>2, <4>3, <4>4
    <3> HIDE DEF u, v
    <3>5. u = v
      BY <3>2, <3>3, <3>4, SeqEqual
    <3> QED
      BY <3>5 DEF u, v
  <2> QED
    BY <1>3, <2>5, <2>6 DEF NextBlocks
<1>4. CASE lines[i].key # "host" /\ acc = <<>>
  <2>1. next = acc
    BY <1>4 DEF ReadNumbered
  <2>2. Settings(acc) = <<>>
    BY <1>2, <1>4
  <2> QED
    BY <1>4, <2>1, <2>2 DEF NextBlocks
<1>5. CASE lines[i].key # "host" /\ acc # <<>>
  <2> DEFINE b == With(acc[m].block, lines[i])
             last == [acc[m] EXCEPT !.block = b]
  <2>1. m \in 1 .. m /\ acc[m] \in HostBlockType /\ acc[m].block \in BlockType
    BY <1>1, <1>2, <1>5 DEF HostBlockType
  <2>2. b \in BlockType
    BY <1>1, <2>1, WithHasType
  <2>3. last \in HostBlockType /\ last.block = b
    <3> HIDE DEF b
    <3> QED
      BY <2>1, <2>2 DEF HostBlockType
  <2>4. next = [acc EXCEPT ![m] = last]
    BY <1>5 DEF ReadNumbered
  <2> HIDE DEF next, last, b
  <2>5. /\ next \in Seq(HostBlockType) /\ Len(next) = m
        /\ \A k \in 1 .. m : next[k] = IF k = m THEN last ELSE acc[k]
    BY <2>1, <2>3, <2>4, ExceptSeq
  <2>6. Settings(acc)[m] = acc[m].block /\ Settings(acc) # <<>>
    BY <1>2, <2>1
  <2>7. NextBlocks(Settings(acc), lines[i]) = [Settings(acc) EXCEPT ![m] = b]
    BY <1>2, <1>5, <2>6 DEF NextBlocks, b
  <2>8. Settings(next) = [Settings(acc) EXCEPT ![m] = b]
    <3> DEFINE u == Settings(next)
               v == [Settings(acc) EXCEPT ![m] = b]
    <3>1. u \in Seq(BlockType) /\ Len(u) = m
      BY <2>5, SettingsType
    <3>2. /\ v \in Seq(BlockType) /\ Len(v) = m
          /\ \A k \in 1 .. m : v[k] = IF k = m THEN b ELSE Settings(acc)[k]
      BY <1>2, <2>1, <2>2, ExceptSeq
    <3>3. ASSUME NEW k \in 1 .. m PROVE u[k] = v[k]
      <4>1. u[k] = next[k].block
        BY <2>5 DEF Settings
      <4> HIDE DEF u, v
      <4> QED
        BY <1>2, <2>3, <2>5, <3>2, <4>1
    <3> HIDE DEF u, v
    <3>4. u = v
      BY <3>1, <3>2, <3>3, SeqEqual
    <3> QED
      BY <3>4 DEF u, v
  <2> QED
    BY <2>5, <2>7, <2>8 DEF next
<1> QED
  BY <1>3, <1>4, <1>5

\* Both parsers read the same blocks.
LEMMA BlocksAgree ==
  ASSUME NEW lines \in Seq(Lines)
  PROVE  /\ parseConfigHostBlocks(lines) \in Seq(HostBlockType)
         /\ Settings(parseConfigHostBlocks(lines)) = Parsed(lines)
<1> DEFINE m == Len(lines)
<1>1. m \in Nat /\ \A n \in 0 .. m - 1 : n + 1 \in DOMAIN lines /\ lines[n + 1] \in Lines
  OBVIOUS
<1>2. PICK f : /\ ReadLines(lines) = f[m]
               /\ f[0] = [out |-> <<>>, current |-> <<>>]
               /\ \A n \in 0 .. m - 1 : f[n + 1] = ReadLine(f[n], lines[n + 1])
  BY <1>1, ReadLinesLoop
<1>3. PICK g : /\ parseConfigHostBlocks(lines) = g[m]
               /\ g[0] = <<>>
               /\ \A n \in 0 .. m - 1 : g[n + 1] = ReadNumbered(lines, g[n], n + 1)
  BY <1>1, NumberedLoop
<1> DEFINE Same(n) == /\ f[n] \in ReadState /\ g[n] \in Seq(HostBlockType)
                      /\ Settings(g[n]) = Joined(f[n])
           N == {n \in Nat : n <= m => Same(n)}
<1>4. 0 \in N
  <2>1. Settings(<<>>) = <<>> /\ <<>> \in Seq(HostBlockType)
    BY DEF Settings
  <2>2. f[0] \in ReadState /\ Joined(f[0]) = <<>>
    BY <1>2, ParsedEmpty, ReadLinesEmpty DEF Parsed
  <2>3. Same(0)
    BY <1>3, <2>1, <2>2
  <2> QED
    BY <2>3
<1>5. ASSUME NEW n \in Nat, n \in N PROVE n + 1 \in N
  <2>1. SUFFICES ASSUME n + 1 <= m PROVE Same(n + 1)
    OBVIOUS
  <2>2. n \in 0 .. m - 1 /\ Same(n)
    BY <1>1, <1>5, <2>1
  <2>3. n + 1 \in DOMAIN lines /\ lines[n + 1] \in Lines
    BY <1>1, <2>2
  <2>4. /\ f[n + 1] \in ReadState
        /\ Joined(f[n + 1]) = NextBlocks(Joined(f[n]), lines[n + 1])
    BY <1>2, <2>2, <2>3, ReadLineStep
  <2>5. /\ g[n + 1] \in Seq(HostBlockType)
        /\ Settings(g[n + 1]) = NextBlocks(Settings(g[n]), lines[n + 1])
    BY <1>3, <2>2, <2>3, NumberedStep
  <2> QED
    BY <2>2, <2>4, <2>5
<1> HIDE DEF N
<1>6. Nat \subseteq N
  BY <1>4, <1>5, Induction
<1>7. Same(m)
  BY <1>1, <1>6 DEF N
<1> QED
  BY <1>2, <1>3, <1>7 DEF Parsed

LEMMA ScannedType ==
  ASSUME NEW lines \in Seq(Lines)
  PROVE  Scanned(lines) \in Seq(Lines)
<1> DEFINE long == {i \in DOMAIN lines : lines[i].key = "overlong"}
<1>1. CASE long = {}
  BY <1>1 DEF Scanned
<1>2. CASE long # {}
  <2>1. long \subseteq Nat
    OBVIOUS
  <2>2. \E p \in long : \A q \in long : p <= q
    BY <1>2, <2>1, LeastNumber
  <2>3. Min(long) \in long
    BY <2>2 DEF Min
  <2>4. Min(long) \in 1 .. Len(lines)
    BY <2>3
  <2>5. SubSeq(lines, 1, Min(long) - 1) \in Seq(Lines)
    <3> HIDE DEF long
    <3>1. \A i \in 1 .. Min(long) - 1 : lines[i] \in Lines
      BY <2>4
    <3> QED
      BY <2>4, <3>1, SubSeqProperties
  <2> QED
    BY <1>2, <2>5 DEF Scanned
<1> QED
  BY <1>1, <1>2

\* For any config, however its Host lines and settings are mixed.
LEMMA EveryConfigAgrees ==
  ASSUME NEW lines \in Seq(Lines)
  PROVE  SameBlocks(lines)
<1>1. parse(lines) = Parsed(Scanned(lines))
  BY DEF parse, Parsed, Joined
<1>2. parse(lines) = Settings(parseConfigHostBlocks(Scanned(lines)))
  BY <1>1, ScannedType, BlocksAgree
<1> QED
  BY <1>2 DEF SameBlocks, Settings

----------------------------------------------------------------------------
(* Removal.  Each line has a number, that of the block it stands in, with  *)
(* 0 for the lines ahead of the first.                                     *)

HostsIn(s, m) == {i \in 1 .. m : s[i].key = "host"}

Number(s, m) == Cardinality(HostsIn(s, m))

LEMMA NumberZero ==
  ASSUME NEW s
  PROVE  Number(s, 0) = 0
<1>1. HostsIn(s, 0) = {}
  BY DEF HostsIn
<1> QED
  BY <1>1, FS_EmptySet DEF Number

LEMMA HostsFinite ==
  ASSUME NEW s, NEW m \in Nat
  PROVE  IsFiniteSet(HostsIn(s, m)) /\ Number(s, m) \in Nat
<1>1. IsFiniteSet(1 .. m)
  BY FS_Interval
<1>2. HostsIn(s, m) \in SUBSET (1 .. m)
  BY DEF HostsIn
<1>3. IsFiniteSet(HostsIn(s, m))
  BY <1>1, <1>2, FS_Subset
<1> QED
  BY <1>3, FS_CardinalityType DEF Number

LEMMA NumberNext ==
  ASSUME NEW s, NEW m \in Nat
  PROVE  Number(s, m + 1) = IF s[m + 1].key = "host" THEN Number(s, m) + 1
                                                    ELSE Number(s, m)
<1>1. CASE s[m + 1].key = "host"
  <2>1. HostsIn(s, m + 1) = HostsIn(s, m) \cup {m + 1} /\ m + 1 \notin HostsIn(s, m)
    BY <1>1 DEF HostsIn
  <2> QED
    BY <1>1, <2>1, HostsFinite, FS_AddElement DEF Number
<1>2. CASE s[m + 1].key # "host"
  <2>1. HostsIn(s, m + 1) = HostsIn(s, m)
    BY <1>2 DEF HostsIn
  <2> QED
    BY <1>2, <2>1 DEF Number
<1> QED
  BY <1>1, <1>2

LEMMA NumberGrows ==
  ASSUME NEW s, NEW m \in Nat, NEW n \in Nat, m <= n
  PROVE  Number(s, m) <= Number(s, n)
<1>1. HostsIn(s, m) \in SUBSET HostsIn(s, n)
  BY DEF HostsIn
<1> QED
  BY <1>1, HostsFinite, FS_Subset DEF Number

LEMMA NumberAppend ==
  ASSUME NEW T, NEW s \in Seq(T), NEW x \in T, NEW m \in 0 .. Len(s)
  PROVE  Number(Append(s, x), m) = Number(s, m)
<1>1. \A i \in 1 .. m : Append(s, x)[i] = s[i]
  OBVIOUS
<1>2. HostsIn(Append(s, x), m) = HostsIn(s, m)
  BY <1>1 DEF HostsIn
<1> QED
  BY <1>2 DEF Number

LEMMA NumberOfLast ==
  ASSUME NEW T, NEW s \in Seq(T), NEW x \in T
  PROVE  Number(Append(s, x), Len(s) + 1) =
             IF x.key = "host" THEN Number(s, Len(s)) + 1 ELSE Number(s, Len(s))
<1>1. Append(s, x)[Len(s) + 1] = x /\ Len(s) \in Nat /\ Len(s) \in 0 .. Len(s)
  OBVIOUS
<1>2. Number(Append(s, x), Len(s)) = Number(s, Len(s))
  BY <1>1, NumberAppend
<1> QED
  BY <1>1, <1>2, NumberNext

LEMMA ParsedLen ==
  ASSUME NEW lines \in Seq(Lines)
  PROVE  Len(Parsed(lines)) = Number(lines, Len(lines))
<1> DEFINE S == {s \in Seq(Lines) : Len(Parsed(s)) = Number(s, Len(s))}
<1>1. <<>> \in S
  <2>1. <<>> \in Seq(Lines) /\ Len(<<>>) = 0
    OBVIOUS
  <2> QED
    BY <2>1, ParsedEmpty, NumberZero
<1>2. ASSUME NEW s \in Seq(Lines), NEW x \in Lines, s \in S PROVE Append(s, x) \in S
  <2>1. Append(s, x) \in Seq(Lines) /\ Len(Append(s, x)) = Len(s) + 1
    OBVIOUS
  <2>2. Len(Parsed(Append(s, x))) = IF x.key = "host" THEN Len(Parsed(s)) + 1
                                                     ELSE Len(Parsed(s))
    BY ParsedType, ParsedAppend, NextBlocksType
  <2>3. Len(Parsed(Append(s, x))) = Number(Append(s, x), Len(s) + 1)
    BY <1>2, <2>2, NumberOfLast
  <2> QED
    BY <2>1, <2>3
<1> HIDE DEF S
<1>3. Seq(Lines) \subseteq S
  BY <1>1, <1>2, Grows
<1> QED
  BY <1>3 DEF S

\* A block has the lines with its number.
LEMMA BlockLines ==
  ASSUME NEW lines \in Seq(Lines)
  PROVE  LET bs == parseConfigHostBlocks(lines)
         IN  \A i \in 1 .. Len(bs) :
                 bs[i].start .. bs[i].end - 1 = {m \in DOMAIN lines : Number(lines, m) = i}
<1> DEFINE M == Len(lines)
<1>1. M \in Nat /\ DOMAIN lines = 1 .. M
  OBVIOUS
<1>2. PICK g : /\ parseConfigHostBlocks(lines) = g[M]
               /\ g[0] = <<>>
               /\ \A n \in 0 .. M - 1 : g[n + 1] = ReadNumbered(lines, g[n], n + 1)
  BY <1>1, NumberedLoop
<1> DEFINE Placed(b, i, n) == \A m \in 1 .. n :
                                  b.start <= m /\ m < b.end <=> Number(lines, m) = i
           Fits(b, i, n, k) == /\ 1 <= b.start /\ b.start <= n
                               /\ IF i = k THEN b.end = M + 1 ELSE b.end <= n
           Good(n) == /\ g[n] \in Seq(HostBlockType)
                      /\ Len(g[n]) = Number(lines, n)
                      /\ \A i \in 1 .. Len(g[n]) : /\ Placed(g[n][i], i, n)
                                                   /\ Fits(g[n][i], i, n, Len(g[n]))
           N == {n \in Nat : n <= M => Good(n)}
<1>3. 0 \in N
  <2>1. <<>> \in Seq(HostBlockType) /\ Len(<<>>) = 0 /\ 1 .. 0 = {}
    OBVIOUS
  <2>2. Good(0)
    BY <1>2, <2>1, NumberZero
  <2> QED
    BY <2>2
<1>4. ASSUME NEW n \in Nat, n \in N PROVE n + 1 \in N
  <2>1. SUFFICES ASSUME n + 1 <= M PROVE Good(n + 1)
    OBVIOUS
  <2> DEFINE acc == g[n]
             next == g[n + 1]
             k == Len(acc)
             line == lines[n + 1]
  <2>2. n \in 0 .. M - 1 /\ Good(n) /\ n + 1 \in DOMAIN lines
    BY <1>1, <1>4, <2>1
  <2>3. next = ReadNumbered(lines, acc, n + 1) /\ next \in Seq(HostBlockType)
    BY <1>2, <2>2, NumberedStep
  <2>4. /\ acc \in Seq(HostBlockType) /\ k \in Nat /\ k = Number(lines, n)
        /\ \A i \in 1 .. k : acc[i] \in HostBlockType
    BY <2>2
  <2>5. Number(lines, n + 1) = IF line.key = "host" THEN k + 1 ELSE k
    BY <2>4, NumberNext
  <2>6. \A m \in 1 .. n : Number(lines, m) \in Nat /\ Number(lines, m) <= k
    BY <2>4, HostsFinite, NumberGrows
  <2>7. \A i \in 1 .. k : /\ acc[i].start \in Int /\ acc[i].end \in Int
                          /\ Placed(acc[i], i, n) /\ Fits(acc[i], i, n, k)
    BY <2>2, <2>4 DEF HostBlockType
  <2>8. CASE line.key = "host"
    <3> DEFINE closed == [i \in DOMAIN acc |->
                             IF i = Len(acc) THEN [acc[i] EXCEPT !.end = n + 1] ELSE acc[i]]
               new == HostBlock(line.value, n + 1, M + 1)
    <3>1. next = Append(closed, new)
      BY <2>3, <2>8 DEF ReadNumbered
    <3>2. /\ new.start = n + 1 /\ new.end = M + 1 /\ new \in HostBlockType
      BY <1>1, <2>2, BlockHasType DEF HostBlock, HostBlockType
    <3>3. \A i \in 1 .. k : /\ closed[i].start = acc[i].start
                            /\ closed[i].end = IF i = k THEN n + 1 ELSE acc[i].end
                            /\ closed[i] \in HostBlockType
      <4>1. n + 1 \in Int /\ DOMAIN acc = 1 .. k /\ k = Len(acc)
        BY <2>4
      <4> HIDE DEF acc, k
      <4> QED
        BY <2>4, <4>1 DEF HostBlockType
    <3>4. closed \in Seq(HostBlockType) /\ Len(closed) = k
      <4>1. DOMAIN acc = 1 .. k
        BY <2>4
      <4> HIDE DEF acc
      <4>2. closed = [i \in 1 .. k |-> closed[i]]
        BY <4>1
      <4> HIDE DEF closed
      <4> QED
        BY <2>4, <3>3, <4>2
    <3> HIDE DEF closed, new, line, acc
    <3>5. /\ Len(next) = k + 1 /\ next[k + 1] = new
          /\ \A i \in 1 .. k : next[i] = closed[i]
      BY <3>1, <3>2, <3>4
    <3> HIDE DEF next, k
    <3>6. ASSUME NEW i \in 1 .. k
          PROVE  Placed(next[i], i, n + 1) /\ Fits(next[i], i, n + 1, k + 1)
      <4>1. next[i].start = acc[i].start /\ next[i].end = IF i = k THEN n + 1 ELSE acc[i].end
        BY <3>3, <3>5
      <4>2. Fits(next[i], i, n + 1, k + 1)
        BY <2>4, <2>7, <4>1
      <4>3. \A m \in 1 .. n : next[i].start <= m /\ m < next[i].end
                                  <=> Number(lines, m) = i
        BY <1>1, <2>2, <2>7, <4>1
      <4>4. ~(n + 1 < next[i].end) /\ Number(lines, n + 1) # i
        BY <2>4, <2>5, <2>7, <2>8, <4>1
      <4>5. \A m \in 1 .. n + 1 : m \in 1 .. n \/ m = n + 1
        OBVIOUS
      <4> QED
        BY <4>2, <4>3, <4>4, <4>5
    <3>7. Placed(new, k + 1, n + 1) /\ Fits(new, k + 1, n + 1, k + 1)
      <4>1. \A m \in 1 .. n : ~(new.start <= m) /\ Number(lines, m) # k + 1
        BY <2>4, <2>6, <3>2
      <4>2. new.start <= n + 1 /\ n + 1 < new.end /\ Number(lines, n + 1) = k + 1
        BY <1>1, <2>1, <2>5, <2>8, <3>2
      <4>3. \A m \in 1 .. n + 1 : m \in 1 .. n \/ m = n + 1
        OBVIOUS
      <4> QED
        BY <3>2, <4>1, <4>2, <4>3
    <3>8. \A i \in 1 .. Len(next) : i \in 1 .. k \/ i = k + 1
      BY <2>4, <3>5
    <3>9. \A i \in 1 .. Len(next) : /\ Placed(next[i], i, n + 1)
                                    /\ Fits(next[i], i, n + 1, Len(next))
      BY <3>5, <3>6, <3>7, <3>8
    <3>10. Len(next) = Number(lines, n + 1)
      BY <2>5, <2>8, <3>5
    <3> HIDE DEF Placed, Fits
    <3> QED
      BY <2>3, <3>9, <3>10 DEF next
  <2>9. CASE line.key # "host" /\ acc = <<>>
    <3>1. next = acc /\ k = 0 /\ Number(lines, n + 1) = 0 /\ 1 .. 0 = {}
      BY <2>3, <2>5, <2>9 DEF ReadNumbered
    <3> QED
      BY <2>3, <3>1
  <2>10. CASE line.key # "host" /\ acc # <<>>
    <3> DEFINE last == [acc[k] EXCEPT !.block = With(acc[k].block, line)]
    <3>1. k \in 1 .. k
      BY <2>4, <2>10
    <3>2. next = [acc EXCEPT ![k] = last]
      BY <2>3, <2>10 DEF ReadNumbered
    <3>3. last.start = acc[k].start /\ last.end = acc[k].end
      BY <2>4, <3>1 DEF HostBlockType
    <3> HIDE DEF last, line, acc
    <3>4. Len(next) = k /\ \A i \in 1 .. k : next[i] = IF i = k THEN last ELSE acc[i]
      BY <2>4, <3>1, <3>2
    <3> HIDE DEF next, k
    <3>5. ASSUME NEW i \in 1 .. k
          PROVE  Placed(next[i], i, n + 1) /\ Fits(next[i], i, n + 1, k)
      <4>1. next[i].start = acc[i].start /\ next[i].end = acc[i].end
        BY <3>3, <3>4
      <4>2. Fits(next[i], i, n + 1, k)
        BY <2>4, <2>7, <4>1
      <4>3. \A m \in 1 .. n : next[i].start <= m /\ m < next[i].end
                                  <=> Number(lines, m) = i
        BY <2>7, <4>1
      <4>4. next[i].start <= n + 1 /\ n + 1 < next[i].end <=> i = k
        BY <1>1, <2>1, <2>2, <2>4, <2>7, <4>1
      <4>5. Number(lines, n + 1) = k
        BY <2>5, <2>10
      <4>6. \A m \in 1 .. n + 1 : m \in 1 .. n \/ m = n + 1
        OBVIOUS
      <4> QED
        BY <4>2, <4>3, <4>4, <4>5, <4>6
    <3>6. Len(next) = Number(lines, n + 1)
      BY <2>5, <2>10, <3>4
    <3>7. \A i \in 1 .. Len(next) : /\ Placed(next[i], i, n + 1)
                                    /\ Fits(next[i], i, n + 1, Len(next))
      BY <3>4, <3>5
    <3> HIDE DEF Placed, Fits
    <3> QED
      BY <2>3, <3>6, <3>7 DEF next
  <2> QED
    BY <2>8, <2>9, <2>10
<1> HIDE DEF N
<1>5. Nat \subseteq N
  BY <1>3, <1>4, Induction
<1>6. Good(M)
  BY <1>1, <1>5 DEF N
<1> DEFINE bs == parseConfigHostBlocks(lines)
<1>7. ASSUME NEW i \in 1 .. Len(bs)
      PROVE  bs[i].start .. bs[i].end - 1 = {m \in DOMAIN lines : Number(lines, m) = i}
  <2>1. bs = g[M] /\ bs[i] \in HostBlockType
    BY <1>2, <1>6
  <2>2. bs[i].start \in Int /\ bs[i].end \in Int
    BY <2>1 DEF HostBlockType
  <2>3. Placed(bs[i], i, M) /\ Fits(bs[i], i, M, Len(bs))
    <3> HIDE DEF Placed, Fits, bs
    <3> QED
      BY <1>6, <2>1
  <2>4. \A m \in 1 .. M : bs[i].start <= m /\ m < bs[i].end <=> Number(lines, m) = i
    BY <2>3 DEF Placed
  <2>5. 1 <= bs[i].start /\ bs[i].end <= M + 1
    BY <1>1, <2>2, <2>3 DEF Fits
  <2> HIDE DEF bs
  <2> QED
    BY <1>1, <2>2, <2>4, <2>5
<1> QED
  BY <1>7

\* What is left of a config when the blocks with some numbers are gone.
Kept(s, gone) == Sublist(s, {m \in DOMAIN s : Number(s, m) \notin gone})

LEMMA KeptType ==
  ASSUME NEW T, NEW s \in Seq(T), NEW gone
  PROVE  Kept(s, gone) \in Seq(T)
BY SublistType DEF Kept

LEMMA KeptAppend ==
  ASSUME NEW T, NEW s \in Seq(T), NEW x \in T, NEW gone
  PROVE  Kept(Append(s, x), gone) =
             IF Number(Append(s, x), Len(s) + 1) \in gone
             THEN Kept(s, gone) ELSE Append(Kept(s, gone), x)
<1> DEFINE longer == Append(s, x)
           places == {m \in DOMAIN longer : Number(longer, m) \notin gone}
           others == {m \in DOMAIN s : Number(s, m) \notin gone}
<1>1. DOMAIN longer = 1 .. Len(s) + 1 /\ DOMAIN s = 1 .. Len(s) /\ Len(s) \in Nat
  OBVIOUS
<1>2. \A m \in DOMAIN s : Number(longer, m) = Number(s, m)
  BY <1>1, NumberAppend
<1>3. \A m \in DOMAIN s : m \in places <=> m \in others
  <2> HIDE DEF longer
  <2> QED
    BY <1>1, <1>2
<1>4. Len(s) + 1 \in places <=> Number(longer, Len(s) + 1) \notin gone
  <2> HIDE DEF longer
  <2> QED
    BY <1>1
<1> HIDE DEF places, others
<1>5. Sublist(longer, places) =
          IF Len(s) + 1 \in places THEN Append(Sublist(s, others), x)
                                   ELSE Sublist(s, others)
  BY <1>3, SublistAppend
<1>6. Kept(longer, gone) = Sublist(longer, places) /\ Kept(s, gone) = Sublist(s, others)
  BY DEF Kept, places, others
<1> QED
  BY <1>4, <1>5, <1>6

LEMMA KeptEmpty ==
  ASSUME NEW gone
  PROVE  Kept(<<>>, gone) = <<>>
BY SublistEmpty DEF Kept

\* Whatever blocks go, the others read as before.
LEMMA OtherBlocksStay ==
  ASSUME NEW lines \in Seq(Lines), NEW gone, 0 \notin gone
  PROVE  Parsed(Kept(lines, gone)) = Sublist(Parsed(lines), Nat \ gone)
<1> DEFINE rest == Nat \ gone
           Stays(s) == Parsed(Kept(s, gone)) = Sublist(Parsed(s), rest)
           S == {s \in Seq(Lines) : Stays(s)}
<1>1. <<>> \in S
  <2>1. <<>> \in Seq(Lines)
    OBVIOUS
  <2> QED
    BY <2>1, KeptEmpty, ParsedEmpty, SublistEmpty
<1>2. ASSUME NEW s \in Seq(Lines), NEW x \in Lines, s \in S PROVE Append(s, x) \in S
  <2> DEFINE bs == Parsed(s)
             longer == Append(s, x)
             kept == Kept(s, gone)
             number == Number(longer, Len(s) + 1)
  <2>1. longer \in Seq(Lines) /\ bs \in Seq(BlockType) /\ kept \in Seq(Lines)
    BY ParsedType, KeptType
  <2> SUFFICES Stays(longer)
    BY <2>1
  <2>2. Parsed(longer) = NextBlocks(bs, x) /\ Parsed(Append(kept, x)) = NextBlocks(Parsed(kept), x)
    BY <2>1, ParsedAppend
  <2>3. Kept(longer, gone) = IF number \in gone THEN kept ELSE Append(kept, x)
    BY KeptAppend
  <2>4. /\ number = IF x.key = "host" THEN Len(bs) + 1 ELSE Len(bs)
        /\ Len(bs) \in Nat
    BY <2>1, NumberOfLast, ParsedLen
  <2>5. Parsed(kept) = Sublist(bs, rest)
    BY <1>2
  <2> HIDE DEF bs, longer, kept, number
  <2>6. CASE x.key = "host"
    <3> DEFINE new == Block(x.value)
    <3>1. new \in BlockType
      BY BlockHasType
    <3>2. Parsed(longer) = Append(bs, new)
      BY <2>2, <2>6 DEF NextBlocks
    <3>3. Sublist(Append(bs, new), rest) =
              IF Len(bs) + 1 \in rest THEN Append(Sublist(bs, rest), new)
                                      ELSE Sublist(bs, rest)
      BY <2>1, <3>1, SublistNext
    <3>4. Parsed(Append(kept, x)) = Append(Parsed(kept), new)
      BY <2>2, <2>6 DEF NextBlocks
    <3>5. Len(bs) + 1 \in rest <=> number \notin gone
      BY <2>4, <2>6
    <3> HIDE DEF new, rest
    <3> QED
      BY <2>3, <2>5, <3>2, <3>3, <3>4, <3>5
  <2>7. CASE x.key # "host" /\ bs = <<>>
    <3>1. number = 0 /\ Kept(longer, gone) = Append(kept, x)
      BY <2>3, <2>4, <2>7
    <3>2. Parsed(longer) = <<>>
      BY <2>2, <2>7 DEF NextBlocks
    <3>3. Parsed(kept) = <<>>
      BY <2>5, <2>7, SublistEmpty
    <3>4. Parsed(Append(kept, x)) = <<>>
      BY <2>2, <2>7, <3>3 DEF NextBlocks
    <3> QED
      BY <3>1, <3>2, <3>4, SublistEmpty
  <2>8. CASE x.key # "host" /\ bs # <<>>
    <3>1. PICK front \in Seq(BlockType), b \in BlockType : bs = Append(front, b)
      BY <2>1, <2>8, SequenceEmptyOrAppend
    <3> DEFINE c == With(b, x)
               sub == Sublist(front, rest)
    <3>2. c \in BlockType /\ sub \in Seq(BlockType) /\ Len(front) \in Nat
      BY <3>1, WithHasType, SublistType
    <3>3. Len(bs) = Len(front) + 1 /\ number = Len(front) + 1
      BY <2>4, <2>8, <3>1
    <3>4. Parsed(longer) = Append(front, c)
      BY <2>2, <2>8, <3>1, NextBlocksLast
    <3>5. Sublist(bs, rest) = IF Len(front) + 1 \in rest THEN Append(sub, b) ELSE sub
      BY <3>1, SublistNext
    <3>6. Sublist(Append(front, c), rest) =
              IF Len(front) + 1 \in rest THEN Append(sub, c) ELSE sub
      BY <3>1, <3>2, SublistNext
    <3>7. CASE number \in gone
      BY <2>3, <2>5, <3>3, <3>4, <3>5, <3>6, <3>7
    <3>8. CASE number \notin gone
      <4>1. Len(front) + 1 \in rest
        BY <3>2, <3>3, <3>8
      <4>2. Parsed(kept) = Append(sub, b)
        BY <2>5, <3>5, <4>1
      <4>3. NextBlocks(Append(sub, b), x) = Append(sub, c)
        BY <2>8, <3>1, <3>2, NextBlocksLast
      <4> QED
        BY <2>2, <2>3, <3>4, <3>6, <3>8, <4>1, <4>2, <4>3
    <3> QED
      BY <3>7, <3>8
  <2> QED
    BY <2>6, <2>7, <2>8
<1> HIDE DEF S
<1>3. Seq(Lines) \subseteq S
  BY <1>1, <1>2, Grows
<1> QED
  BY <1>3 DEF S

LEMMA PreambleAppend ==
  ASSUME NEW lines \in Seq(Lines), NEW x \in Lines
  PROVE  Preamble(Append(lines, x)) =
             IF x.key # "host" /\ Parsed(lines) = <<>>
             THEN Append(Preamble(lines), x) ELSE Preamble(lines)
<1> DEFINE m == Len(lines)
           longer == Append(lines, x)
           Ahead(s) == {i \in DOMAIN s : \A j \in 1 .. i : s[j].key # "host"}
<1>1. /\ m \in Nat /\ DOMAIN lines = 1 .. m /\ DOMAIN longer = 1 .. m + 1
      /\ longer[m + 1] = x /\ \A i \in 1 .. m : longer[i] = lines[i]
  OBVIOUS
<1> HIDE DEF longer, m
<1>2. \A i \in DOMAIN lines : i \in Ahead(longer) <=> i \in Ahead(lines)
  BY <1>1
<1>3. m + 1 \in Ahead(longer) <=> x.key # "host" /\ HostsIn(lines, m) = {}
  BY <1>1 DEF HostsIn
<1>4. HostsIn(lines, m) = {} <=> Parsed(lines) = <<>>
  <2>1. Len(Parsed(lines)) = Number(lines, m) /\ Parsed(lines) \in Seq(BlockType)
    BY ParsedLen, ParsedType DEF m
  <2>2. Number(lines, m) = 0 <=> HostsIn(lines, m) = {}
    BY <1>1, HostsFinite, FS_EmptySet DEF Number
  <2> QED
    BY <2>1, <2>2
<1>5. Sublist(longer, Ahead(longer)) =
          IF m + 1 \in Ahead(longer) THEN Append(Sublist(lines, Ahead(lines)), x)
                                     ELSE Sublist(lines, Ahead(lines))
  <2> HIDE DEF Ahead
  <2> QED
    BY <1>2, SublistAppend DEF longer, m
<1>6. /\ Preamble(longer) = Sublist(longer, Ahead(longer))
      /\ Preamble(lines) = Sublist(lines, Ahead(lines))
  BY DEF Preamble
<1> HIDE DEF Ahead
<1> QED
  BY <1>3, <1>4, <1>5, <1>6 DEF longer

\* The lines ahead of the first block stay, and nothing joins them.
LEMMA PreambleStays ==
  ASSUME NEW lines \in Seq(Lines), NEW gone, 0 \notin gone
  PROVE  Preamble(Kept(lines, gone)) = Preamble(lines)
<1> DEFINE S == {s \in Seq(Lines) : Preamble(Kept(s, gone)) = Preamble(s)}
<1>1. <<>> \in S
  <2>1. <<>> \in Seq(Lines)
    OBVIOUS
  <2> QED
    BY <2>1, KeptEmpty
<1>2. ASSUME NEW s \in Seq(Lines), NEW x \in Lines, s \in S PROVE Append(s, x) \in S
  <2> DEFINE bs == Parsed(s)
             longer == Append(s, x)
             kept == Kept(s, gone)
             number == Number(longer, Len(s) + 1)
             rest == Nat \ gone
  <2>1. longer \in Seq(Lines) /\ bs \in Seq(BlockType) /\ kept \in Seq(Lines)
    BY ParsedType, KeptType
  <2> SUFFICES Preamble(Kept(longer, gone)) = Preamble(longer)
    BY <2>1
  <2>2. Kept(longer, gone) = IF number \in gone THEN kept ELSE Append(kept, x)
    BY KeptAppend
  <2>3. /\ number = IF x.key = "host" THEN Len(bs) + 1 ELSE Len(bs)
        /\ Len(bs) \in Nat
    BY <2>1, NumberOfLast, ParsedLen
  <2>4. Parsed(kept) = Sublist(bs, rest)
    BY OtherBlocksStay
  <2>5. Preamble(kept) = Preamble(s)
    BY <1>2
  <2>6. /\ Preamble(longer) = IF x.key # "host" /\ bs = <<>> THEN Append(Preamble(s), x)
                                                             ELSE Preamble(s)
        /\ Preamble(Append(kept, x)) =
               IF x.key # "host" /\ Parsed(kept) = <<>>
               THEN Append(Preamble(kept), x) ELSE Preamble(kept)
    BY <2>1, PreambleAppend
  <2> HIDE DEF bs, longer, kept, number
  <2>7. CASE x.key = "host"
    BY <2>2, <2>5, <2>6, <2>7
  <2>8. CASE x.key # "host" /\ bs = <<>>
    <3>1. number = 0 /\ Kept(longer, gone) = Append(kept, x)
      BY <2>2, <2>3, <2>8
    <3>2. Parsed(kept) = <<>>
      BY <2>4, <2>8, SublistEmpty
    <3> QED
      BY <2>5, <2>6, <2>8, <3>1, <3>2
  <2>9. CASE x.key # "host" /\ bs # <<>>
    <3>1. CASE number \in gone
      BY <2>2, <2>5, <2>6, <2>9, <3>1
    <3>2. CASE number \notin gone
      <4>1. PICK front \in Seq(BlockType), b \in BlockType : bs = Append(front, b)
        BY <2>1, <2>9, SequenceEmptyOrAppend
      <4>2. Len(front) + 1 \in rest
        BY <2>3, <2>9, <3>2, <4>1
      <4>3. Sublist(bs, rest) = Append(Sublist(front, rest), b)
        BY <4>1, <4>2, SublistNext
      <4>4. Sublist(front, rest) \in Seq(BlockType)
        BY <4>1, SublistType
      <4>5. Parsed(kept) # <<>>
        BY <2>4, <4>1, <4>3, <4>4
      <4> QED
        BY <2>2, <2>5, <2>6, <2>9, <3>2, <4>5
    <3> QED
      BY <3>1, <3>2
  <2> QED
    BY <2>7, <2>8, <2>9
<1> HIDE DEF S
<1>3. Seq(Lines) \subseteq S
  BY <1>1, <1>2, Grows
<1> QED
  BY <1>3 DEF S

\* The cleanup's last block of each host to be removed.
LastBlocks(bs, hosts) ==
    {i \in DOMAIN bs : /\ bs[i].block.alias \in hosts
                       /\ \A j \in DOMAIN bs : j > i => bs[j].block.alias
                                                            # bs[i].block.alias}

LEMMA ApplyKeeps ==
  ASSUME NEW lines \in Seq(Lines), NEW hosts
  PROVE  ApplyCleanup(lines, hosts) =
             Kept(lines, LastBlocks(parseConfigHostBlocks(lines), hosts))
<1> DEFINE bs == parseConfigHostBlocks(lines)
           found == LastBlocks(bs, hosts)
           removed == UNION {bs[i].start .. bs[i].end - 1 : i \in found}
<1>1. ApplyCleanup(lines, hosts) = Sublist(lines, DOMAIN lines \ removed)
  BY DEF ApplyCleanup, LastBlocks
<1>2. bs \in Seq(HostBlockType) /\ DOMAIN bs = 1 .. Len(bs)
  BY BlocksAgree
<1>3. \A i \in 1 .. Len(bs) :
          bs[i].start .. bs[i].end - 1 = {m \in DOMAIN lines : Number(lines, m) = i}
  BY BlockLines
<1>4. found \subseteq 1 .. Len(bs)
  BY <1>2 DEF LastBlocks
<1> HIDE DEF bs, found
<1>5. \A m \in DOMAIN lines : m \in removed <=> Number(lines, m) \in found
  BY <1>3, <1>4
<1>6. DOMAIN lines \ removed = {m \in DOMAIN lines : Number(lines, m) \notin found}
  BY <1>5
<1> QED
  BY <1>1, <1>6 DEF Kept, found, bs

LEMMA ParsedOfApplied ==
  ASSUME NEW lines \in Seq(Lines), NEW hosts
  PROVE  LET gone == LastBlocks(parseConfigHostBlocks(lines), hosts)
         IN  /\ ApplyCleanup(lines, hosts) \in Seq(Lines)
             /\ Parsed(ApplyCleanup(lines, hosts)) = Sublist(Parsed(lines), Nat \ gone)
             /\ Preamble(ApplyCleanup(lines, hosts)) = Preamble(lines)
<1> DEFINE gone == LastBlocks(parseConfigHostBlocks(lines), hosts)
<1>1. 0 \notin gone
  BY BlocksAgree DEF LastBlocks
<1> HIDE DEF gone
<1>2. Kept(lines, gone) \in Seq(Lines)
  BY KeptType
<1> QED
  BY <1>1, <1>2, ApplyKeeps, OtherBlocksStay, PreambleStays DEF gone

\* A sublist depends on the places within the sequence only.
LEMMA SublistSame ==
  ASSUME NEW T, NEW seq \in Seq(T), NEW places, NEW others,
         \A i \in DOMAIN seq : i \in places <=> i \in others
  PROVE  Sublist(seq, places) = Sublist(seq, others)
<1>1. CASE seq = <<>>
  BY <1>1, SublistEmpty
<1>2. CASE seq # <<>>
  <2>1. PICK s \in Seq(T), x \in T : seq = Append(s, x)
    BY <1>2, SequenceEmptyOrAppend
  <2>2. DOMAIN seq = 1 .. Len(s) + 1 /\ DOMAIN s = 1 .. Len(s) /\ Len(s) \in Nat
    BY <2>1
  <2>3. Len(s) + 1 \in places <=> Len(s) + 1 \in others
    BY <2>2
  <2>4. \A i \in DOMAIN s : (i \in places <=> i \in others) /\ (i \in others <=> i \in others)
    BY <2>2
  <2>5. Sublist(seq, places) =
            IF Len(s) + 1 \in places THEN Append(Sublist(s, others), x)
                                     ELSE Sublist(s, others)
    BY <2>1, <2>4, SublistAppend
  <2>6. Sublist(seq, others) =
            IF Len(s) + 1 \in others THEN Append(Sublist(s, others), x)
                                     ELSE Sublist(s, others)
    BY <2>1, <2>4, SublistAppend
  <2> QED
    BY <2>3, <2>5, <2>6
<1> QED
  BY <1>1, <1>2

LEMMA EveryRemovalIsExact ==
  ASSUME NEW lines \in Seq(Lines), NEW hosts
  PROVE  RemovesOnly(lines, hosts)
<1> DEFINE before == parseConfigHostBlocks(lines)
           applied == ApplyCleanup(lines, hosts)
           after == parseConfigHostBlocks(applied)
           gone == LastBlocks(before, hosts)
           stay == {i \in DOMAIN before :
                       before[i].block.alias \in hosts =>
                           \E j \in i + 1 .. Len(before) :
                               before[j].block.alias = before[i].block.alias}
<1>1. /\ before \in Seq(HostBlockType) /\ DOMAIN before = 1 .. Len(before)
      /\ Settings(before) = Parsed(lines)
  BY BlocksAgree
<1>2. /\ applied \in Seq(Lines)
      /\ Parsed(applied) = Sublist(Parsed(lines), Nat \ gone)
      /\ Preamble(applied) = Preamble(lines)
  BY ParsedOfApplied
<1> HIDE DEF before, applied
<1>3. Settings(after) = Sublist(Settings(before), Nat \ gone)
  BY <1>1, <1>2, BlocksAgree
<1>4. \A i \in DOMAIN before : i \in Nat \ gone <=> i \in stay
  <2>1. Len(before) \in Nat
    BY <1>1
  <2> QED
    BY <1>1, <2>1 DEF LastBlocks
<1> HIDE DEF gone, stay
<1>5. Settings(before) \in Seq(BlockType) /\ DOMAIN Settings(before) = DOMAIN before
  BY <1>1, SettingsType DEF Settings
<1>6. Sublist(Settings(before), Nat \ gone) = Sublist(Settings(before), stay)
  BY <1>4, <1>5, SublistSame
<1>7. Settings(after) = Sublist(Settings(before), stay)
  BY <1>3, <1>6
<1> QED
  BY <1>2, <1>7 DEF RemovesOnly, Settings, before, applied, after, stay

----------------------------------------------------------------------------
(* The plan.  Of the blocks with one target the inventory keeps the first. *)

Target(b) == [user |-> Lower(b.user),
              address |-> Lower(IF b.hostname = Unset THEN b.alias ELSE b.hostname),
              port |-> IF b.port = Unset THEN DefaultPort ELSE b.port]

LEMMA KeyIsTarget ==
  ASSUME NEW b, NEW c
  PROVE  cleanupTargetKey(b) = cleanupTargetKey(c) <=> Target(b) = Target(c)
<1> DEFINE address(x) == Lower(IF x.hostname = Unset THEN x.alias ELSE x.hostname)
           user(x) == Lower(x.user)
           port(x) == IF x.port = Unset THEN DefaultPort ELSE x.port
<1>1. \A x : /\ cleanupTargetKey(x) = <<user(x), address(x), port(x)>>
             /\ Target(x) = [user |-> user(x), address |-> address(x), port |-> port(x)]
  BY DEF cleanupTargetKey, Target
<1> HIDE DEF address, port, user
<1> QED
  BY <1>1

\* The first block of a target, and the ones that can be spared.
FirstOfTarget(bs, i) ==
    \A j \in 1 .. i - 1 : IsMachine(bs[j]) => Target(bs[j]) # Target(bs[i])

Spare(bs) == {i \in DOMAIN bs : IsMachine(bs[i]) /\ ~FirstOfTarget(bs, i)}

LEMMA DeletableIsSpare ==
  ASSUME NEW lines \in Seq(Lines)
  PROVE  Deletable(lines) = {Parsed(lines)[i].alias : i \in Spare(Parsed(lines))}
<1> DEFINE hb == parseConfigHostBlocks(lines)
           bs == Parsed(lines)
           First(i) == TargetIsNew(hb, i)
           Action(i) == CASE isSCMIdentity(hb[i].block) -> "keep"
                          [] hb[i].block.forwards -> "hide"
                          [] First(i) -> "machine"
                          [] OTHER -> "delete"
<1>1. /\ hb \in Seq(HostBlockType) /\ bs = Settings(hb) /\ bs \in Seq(BlockType)
      /\ DOMAIN hb = 1 .. Len(hb) /\ Len(hb) \in Nat
  BY BlocksAgree, ParsedType
<1> HIDE DEF bs, hb
<1>2. DOMAIN bs = DOMAIN hb /\ \A i \in DOMAIN hb : bs[i] = hb[i].block
  BY <1>1 DEF Settings
<1>3. \A i \in DOMAIN hb : First(i) <=> FirstOfTarget(bs, i)
  <2>1. ASSUME NEW i \in DOMAIN hb PROVE First(i) <=> FirstOfTarget(bs, i)
    <3>1. \A j \in 1 .. i - 1 : j \in DOMAIN hb
      BY <1>1
    <3> QED
      BY <1>2, <3>1, KeyIsTarget DEF FirstOfTarget, TargetIsNew
  <2> QED
    BY <2>1
<1>4. \A i \in DOMAIN hb : hb[i].block.forwards \in BOOLEAN
  <2>1. \A i \in DOMAIN hb : bs[i] \in BlockType
    BY <1>1, <1>2
  <2> QED
    BY <1>2, <2>1 DEF BlockType
<1> HIDE DEF First
<1>5. \A i \in DOMAIN hb : Concrete(hb[i].block) /\ Action(i) = "delete" <=> i \in Spare(bs)
  <2>1. ASSUME NEW i \in DOMAIN hb
        PROVE  Action(i) = "delete" <=> ~isSCMIdentity(hb[i].block)
                                        /\ ~hb[i].block.forwards /\ ~First(i)
    BY <1>4
  <2> HIDE DEF Action
  <2> QED
    BY <1>2, <1>3, <2>1 DEF Spare, IsMachine
<1>6. PlanCleanup(lines) = {[host |-> hb[i].block.alias, action |-> Action(i)] :
                               i \in {j \in DOMAIN hb : Concrete(hb[j].block)}}
  BY DEF PlanCleanup, hb, First
<1> HIDE DEF Action
<1>7. \A x : x \in PlanCleanup(lines) <=>
                 \E i \in DOMAIN hb : /\ Concrete(hb[i].block)
                                      /\ x = [host |-> hb[i].block.alias, action |-> Action(i)]
  BY <1>6
<1>8. \A h : h \in Deletable(lines) <=>
                 \E i \in DOMAIN hb : /\ Concrete(hb[i].block) /\ Action(i) = "delete"
                                      /\ h = hb[i].block.alias
  <2>1. \A h : h \in Deletable(lines) <=>
                   \E x \in PlanCleanup(lines) : x.action = "delete" /\ h = x.host
    BY DEF Deletable
  <2>2. ASSUME NEW h, NEW i \in DOMAIN hb, Concrete(hb[i].block), Action(i) = "delete",
               h = hb[i].block.alias
        PROVE  \E x \in PlanCleanup(lines) : x.action = "delete" /\ h = x.host
    <3>1. [host |-> hb[i].block.alias, action |-> Action(i)] \in PlanCleanup(lines)
      BY <1>7, <2>2
    <3> QED
      BY <2>2, <3>1
  <2>3. ASSUME NEW x \in PlanCleanup(lines), x.action = "delete"
        PROVE  \E i \in DOMAIN hb : /\ Concrete(hb[i].block) /\ Action(i) = "delete"
                                    /\ x.host = hb[i].block.alias
    BY <1>7, <2>3
  <2> QED
    BY <2>1, <2>2, <2>3
<1>9. \A h : h \in Deletable(lines) <=> \E i \in Spare(bs) : h = bs[i].alias
  BY <1>2, <1>5, <1>8 DEF Spare
<1> HIDE DEF Spare
<1>10. Deletable(lines) = {bs[i].alias : i \in Spare(bs)}
  BY <1>9
<1> QED
  BY <1>10 DEF bs

LEMMA AliasesDiffer ==
  ASSUME NEW lines \in Seq(Lines), UniqueAliases(lines)
  PROVE  \A i, j \in DOMAIN Parsed(lines) :
             Parsed(lines)[i].alias = Parsed(lines)[j].alias => i = j
<1> DEFINE hb == parseConfigHostBlocks(lines)
           bs == Parsed(lines)
           n == Len(hb)
           alias == [i \in 1 .. n |-> hb[i].block.alias]
<1>1. /\ hb \in Seq(HostBlockType) /\ bs = Settings(hb)
      /\ DOMAIN hb = 1 .. n /\ n \in Nat
  BY BlocksAgree
<1>2. Hosts(lines) = {hb[i].block.alias : i \in DOMAIN hb}
  BY DEF Hosts, Range
<1>3. Cardinality(Hosts(lines)) = n
  BY DEF UniqueAliases
<1> HIDE DEF hb, bs, n
<1>4. alias \in Surjection(1 .. n, Hosts(lines))
  BY <1>1, <1>2 DEF Surjection
<1>5. IsFiniteSet(1 .. n) /\ Cardinality(1 .. n) = n
  BY <1>1, FS_Interval
<1> HIDE DEF alias
<1>6. alias \in Injection(1 .. n, Hosts(lines))
  BY <1>3, <1>4, <1>5, FS_SurjSameCardinalityImpliesInj
<1>7. \A i, j \in 1 .. n : alias[i] = alias[j] => i = j
  BY <1>6 DEF Injection, IsInjective
<1>8. DOMAIN bs = 1 .. n /\ \A i \in 1 .. n : bs[i].alias = alias[i]
  BY <1>1 DEF Settings, alias
<1>9. \A i, j \in DOMAIN bs : bs[i].alias = bs[j].alias => i = j
  BY <1>7, <1>8
<1> QED
  BY <1>9 DEF bs

\* With unique aliases the cleanup removes the spare blocks.
LEMMA SpareGo ==
  ASSUME NEW lines \in Seq(Lines), UniqueAliases(lines)
  PROVE  LastBlocks(parseConfigHostBlocks(lines), Deletable(lines)) = Spare(Parsed(lines))
<1> DEFINE hb == parseConfigHostBlocks(lines)
           bs == Parsed(lines)
<1>1. hb \in Seq(HostBlockType) /\ bs = Settings(hb)
  BY BlocksAgree
<1>2. Deletable(lines) = {bs[i].alias : i \in Spare(bs)}
  BY DeletableIsSpare
<1>3. \A i, j \in DOMAIN bs : bs[i].alias = bs[j].alias => i = j
  BY AliasesDiffer
<1> HIDE DEF hb, bs
<1>4. DOMAIN bs = DOMAIN hb /\ DOMAIN hb \subseteq Nat
      /\ \A i \in DOMAIN hb : bs[i] = hb[i].block
  BY <1>1 DEF Settings
<1>5. Spare(bs) \subseteq DOMAIN bs
  BY DEF Spare
<1>6. \A i \in DOMAIN bs : bs[i].alias \in Deletable(lines) <=> i \in Spare(bs)
  BY <1>2, <1>3, <1>5
<1>7. \A i \in DOMAIN hb : \A j \in DOMAIN hb : j > i => hb[j].block.alias # hb[i].block.alias
  BY <1>3, <1>4
<1>8. LastBlocks(hb, Deletable(lines)) = Spare(bs)
  BY <1>4, <1>5, <1>6, <1>7 DEF LastBlocks
<1> QED
  BY <1>8 DEF hb, bs

\* No line is too long for the inventory's scanner.
LEMMA ScannedIs ==
  ASSUME NEW lines \in Seq(Lines)
  PROVE  Scanned(lines) = lines <=> \A i \in DOMAIN lines : lines[i].key # "overlong"
<1> DEFINE long == {i \in DOMAIN lines : lines[i].key = "overlong"}
<1>1. CASE long = {}
  BY <1>1 DEF Scanned
<1>2. CASE long # {}
  <2>1. long \subseteq Nat
    OBVIOUS
  <2>2. \E p \in long : \A q \in long : p <= q
    BY <1>2, <2>1, LeastNumber
  <2>3. Min(long) \in long
    BY <2>2 DEF Min
  <2>4. Min(long) \in 1 .. Len(lines) /\ Len(lines) \in Nat
    BY <2>3
  <2>5. Len(SubSeq(lines, 1, Min(long) - 1)) = Min(long) - 1
    <3> HIDE DEF long
    <3>1. \A i \in 1 .. Min(long) - 1 : lines[i] \in Lines
      BY <2>4
    <3> QED
      BY <2>4, <3>1, SubSeqProperties
  <2>6. Scanned(lines) # lines
    <3>1. Scanned(lines) = SubSeq(lines, 1, Min(long) - 1)
      BY <1>2 DEF Scanned
    <3> HIDE DEF long
    <3> QED
      BY <2>4, <2>5, <3>1
  <2> QED
    BY <1>2, <2>6
<1> QED
  BY <1>1, <1>2

LEMMA AppliedIsScanned ==
  ASSUME NEW lines \in Seq(Lines), NEW hosts, Scanned(lines) = lines
  PROVE  Scanned(ApplyCleanup(lines, hosts)) = ApplyCleanup(lines, hosts)
<1> DEFINE gone == LastBlocks(parseConfigHostBlocks(lines), hosts)
           places == {m \in DOMAIN lines : Number(lines, m) \notin gone}
           sub == Sublist(lines, places)
<1>1. ApplyCleanup(lines, hosts) = sub
  BY ApplyKeeps DEF Kept
<1> HIDE DEF places
<1>2. PICK at : PlacesOf(at, lines, places)
  BY SublistPlaces
<1>3. sub \in Seq(Lines)
  BY SublistType
<1>4. \A k \in DOMAIN sub : at[k] \in DOMAIN lines /\ sub[k] = lines[at[k]]
  BY <1>2, <1>3 DEF PlacesOf
<1>5. \A k \in DOMAIN sub : sub[k].key # "overlong"
  BY <1>4, ScannedIs
<1> HIDE DEF sub
<1> QED
  BY <1>1, <1>3, <1>5, ScannedIs

\* What the inventory lists: the machines among the blocks, in their order.
Lists(at, lines) ==
    LET bs == Parsed(lines)
        ms == ListMachines(lines)
    IN  /\ DOMAIN ms = 1 .. Len(ms) /\ Len(ms) \in Nat
        /\ \A k \in 1 .. Len(ms) :
               /\ at[k] \in DOMAIN bs /\ IsMachine(bs[at[k]])
               /\ [user |-> Lower(ms[k].user), address |-> Lower(ms[k].address),
                   port |-> ms[k].port] = Target(bs[at[k]])
        /\ \A k, l \in 1 .. Len(ms) : k < l => at[k] < at[l]
        /\ \A i \in DOMAIN bs : IsMachine(bs[i]) => \E k \in 1 .. Len(ms) : at[k] = i

LEMMA ListedPlaces ==
  ASSUME NEW lines \in Seq(Lines), Scanned(lines) = lines
  PROVE  \E at : Lists(at, lines)
<1> DEFINE bs == Parsed(lines)
           places == {i \in DOMAIN bs : IsMachine(bs[i])}
           hosts == Sublist(bs, places)
           ms == ListMachines(lines)
<1>1. bs \in Seq(BlockType) /\ parse(lines) = bs
  BY ParsedType DEF parse, Parsed, Joined
<1> HIDE DEF bs
<1>2. hosts \in Seq(BlockType)
  BY <1>1, SublistType
<1>3. PICK at : PlacesOf(at, bs, places)
  BY <1>1, SublistPlaces
<1>4. ms = [k \in DOMAIN hosts |->
               [alias |-> hosts[k].alias, user |-> hosts[k].user,
                address |-> IF hosts[k].hostname = Unset THEN hosts[k].alias
                                                         ELSE hosts[k].hostname,
                port |-> IF hosts[k].port = Unset THEN DefaultPort ELSE hosts[k].port]]
  BY <1>1 DEF ListMachines
<1>5. /\ \A k \in 1 .. Len(hosts) : /\ at[k] \in DOMAIN bs /\ at[k] \in places
                                    /\ hosts[k] = bs[at[k]]
      /\ \A k, l \in 1 .. Len(hosts) : k < l => at[k] < at[l]
      /\ \A i \in DOMAIN bs : i \in places => \E k \in 1 .. Len(hosts) : at[k] = i
  BY <1>3 DEF PlacesOf
<1> HIDE DEF hosts
<1>6. DOMAIN hosts = 1 .. Len(hosts) /\ Len(hosts) \in Nat
  BY <1>2
<1>7. DOMAIN ms = 1 .. Len(ms) /\ Len(ms) = Len(hosts)
  <2> DEFINE m(k) == [alias |-> hosts[k].alias, user |-> hosts[k].user,
                      address |-> IF hosts[k].hostname = Unset THEN hosts[k].alias
                                                               ELSE hosts[k].hostname,
                      port |-> IF hosts[k].port = Unset THEN DefaultPort ELSE hosts[k].port]
  <2>1. ms = [k \in 1 .. Len(hosts) |-> m(k)]
    BY <1>4, <1>6
  <2> HIDE DEF m, ms
  <2> QED
    BY <1>6, <2>1
<1>8. \A k \in 1 .. Len(ms) :
          [user |-> Lower(ms[k].user), address |-> Lower(ms[k].address),
           port |-> ms[k].port] = Target(hosts[k])
  <2>1. ASSUME NEW k \in 1 .. Len(ms)
        PROVE  /\ ms[k].user = hosts[k].user
               /\ ms[k].address = IF hosts[k].hostname = Unset THEN hosts[k].alias
                                                               ELSE hosts[k].hostname
               /\ ms[k].port = IF hosts[k].port = Unset THEN DefaultPort ELSE hosts[k].port
    <3>1. k \in DOMAIN hosts
      BY <1>6, <1>7
    <3> HIDE DEF ms
    <3> QED
      BY <1>4, <3>1
  <2> HIDE DEF ms
  <2> QED
    BY <2>1 DEF Target
<1> HIDE DEF ms
<1>9. Lists(at, lines)
  BY <1>5, <1>6, <1>7, <1>8 DEF Lists, ms, bs
<1> QED
  BY <1>9

LEMMA ReachedIs ==
  ASSUME NEW lines \in Seq(Lines), Scanned(lines) = lines
  PROVE  Reached(lines) = {Target(Parsed(lines)[i]) :
                              i \in {j \in DOMAIN Parsed(lines) : IsMachine(Parsed(lines)[j])}}
<1> DEFINE bs == Parsed(lines)
           ms == ListMachines(lines)
           T(m) == [user |-> Lower(m.user), address |-> Lower(m.address), port |-> m.port]
<1>1. PICK at : Lists(at, lines)
  BY ListedPlaces
<1>2. /\ DOMAIN ms = 1 .. Len(ms)
      /\ \A k \in 1 .. Len(ms) : /\ at[k] \in DOMAIN bs /\ IsMachine(bs[at[k]])
                                 /\ T(ms[k]) = Target(bs[at[k]])
      /\ \A i \in DOMAIN bs : IsMachine(bs[i]) => \E k \in 1 .. Len(ms) : at[k] = i
  BY <1>1 DEF Lists
<1>3. Reached(lines) = {T(ms[k]) : k \in DOMAIN ms}
  <2>1. Reached(lines) = {[user |-> Lower(m.user), address |-> Lower(m.address),
                           port |-> m.port] : m \in Range(ms)}
    BY DEF Reached
  <2>2. Range(ms) = {ms[k] : k \in DOMAIN ms}
    BY DEF Range
  <2> HIDE DEF ms
  <2> QED
    BY <2>1, <2>2
<1> HIDE DEF bs, ms, T
<1>4. Reached(lines) = {Target(bs[i]) : i \in {j \in DOMAIN bs : IsMachine(bs[j])}}
  <2>1. \A x \in Reached(lines) : \E i \in DOMAIN bs : IsMachine(bs[i]) /\ x = Target(bs[i])
    BY <1>2, <1>3
  <2>2. ASSUME NEW i \in DOMAIN bs, IsMachine(bs[i]) PROVE Target(bs[i]) \in Reached(lines)
    <3>1. PICK k \in DOMAIN ms : at[k] = i
      BY <1>2, <2>2
    <3>2. Target(bs[i]) = T(ms[k])
      BY <1>2, <3>1
    <3> QED
      BY <1>3, <3>2
  <2> QED
    BY <2>1, <2>2
<1> QED
  BY <1>4 DEF bs

LEMMA EveryPlanSpares ==
  ASSUME NEW lines \in Seq(Lines)
  PROVE  PlanSparesTargets(lines)
<1> DEFINE after == ApplyCleanup(lines, Deletable(lines))
           bs == Parsed(lines)
           cs == Parsed(after)
           rest == Nat \ Spare(bs)
<1>1. SUFFICES ASSUME UniqueAliases(lines), Scanned(lines) = lines
               PROVE  /\ Reached(after) = Reached(lines)
                      /\ Cardinality(Reached(after)) = Len(ListMachines(after))
  BY DEF PlanSparesTargets
<1>2. after \in Seq(Lines) /\ cs = Sublist(bs, rest)
  BY <1>1, SpareGo, ParsedOfApplied
<1>3. Scanned(after) = after
  BY <1>1, AppliedIsScanned
<1>4. /\ Reached(lines) = {Target(bs[i]) : i \in {j \in DOMAIN bs : IsMachine(bs[j])}}
      /\ Reached(after) = {Target(cs[k]) : k \in {j \in DOMAIN cs : IsMachine(cs[j])}}
  BY <1>1, <1>2, <1>3, ReachedIs
<1>5. bs \in Seq(BlockType) /\ cs \in Seq(BlockType)
  BY <1>2, ParsedType
<1>6. PICK at2 : Lists(at2, after)
  BY <1>2, <1>3, ListedPlaces
<1> DEFINE ms == ListMachines(after)
<1>7. /\ DOMAIN ms = 1 .. Len(ms) /\ Len(ms) \in Nat
      /\ \A k \in 1 .. Len(ms) : at2[k] \in DOMAIN cs /\ IsMachine(cs[at2[k]])
      /\ \A k, l \in 1 .. Len(ms) : k < l => at2[k] < at2[l]
      /\ \A i \in DOMAIN cs : IsMachine(cs[i]) => \E k \in 1 .. Len(ms) : at2[k] = i
  BY <1>6 DEF Lists
<1> HIDE DEF bs, rest
<1>8. PICK at : PlacesOf(at, bs, rest)
  BY <1>5, SublistPlaces
<1>9. /\ \A k \in 1 .. Len(cs) : at[k] \in DOMAIN bs /\ at[k] \in rest /\ cs[k] = bs[at[k]]
      /\ \A k, l \in 1 .. Len(cs) : k < l => at[k] < at[l]
      /\ \A i \in DOMAIN bs : i \in rest => \E k \in 1 .. Len(cs) : at[k] = i
  BY <1>2, <1>8 DEF PlacesOf
<1> HIDE DEF cs, after, ms
<1>10. /\ DOMAIN bs = 1 .. Len(bs) /\ Len(bs) \in Nat
       /\ DOMAIN cs = 1 .. Len(cs) /\ Len(cs) \in Nat
  BY <1>5
<1>11. \A i \in DOMAIN bs : i \in rest <=> (IsMachine(bs[i]) => FirstOfTarget(bs, i))
  BY <1>10 DEF rest, Spare
\* No two machines that stay have one target.
<1>12. ASSUME NEW k \in DOMAIN cs, NEW l \in DOMAIN cs, IsMachine(cs[k]), IsMachine(cs[l]),
              k < l
       PROVE  Target(cs[k]) # Target(cs[l])
  <2>1. at[k] < at[l] /\ at[k] \in 1 .. Len(bs) /\ at[l] \in 1 .. Len(bs)
    BY <1>9, <1>10, <1>12
  <2>2. FirstOfTarget(bs, at[l]) /\ cs[k] = bs[at[k]] /\ cs[l] = bs[at[l]]
    BY <1>9, <1>10, <1>11, <1>12
  <2>3. at[k] \in 1 .. at[l] - 1 /\ IsMachine(bs[at[k]])
    BY <1>12, <2>1, <2>2
  <2> QED
    BY <2>2, <2>3 DEF FirstOfTarget
\* The first machine of each target stays.
<1>13. ASSUME NEW i \in DOMAIN bs, IsMachine(bs[i])
       PROVE  \E k \in DOMAIN cs : IsMachine(cs[k]) /\ Target(cs[k]) = Target(bs[i])
  <2> DEFINE same == {j \in DOMAIN bs : IsMachine(bs[j]) /\ Target(bs[j]) = Target(bs[i])}
  <2>1. same \subseteq Nat /\ same # {}
    BY <1>10, <1>13
  <2>2. PICK p \in same : \A q \in same : p <= q
    BY <2>1, LeastNumber
  <2>3. \A j \in 1 .. p - 1 : j \in DOMAIN bs /\ j \notin same
    BY <1>10, <2>2
  <2>4. FirstOfTarget(bs, p)
    BY <2>2, <2>3 DEF FirstOfTarget
  <2>5. PICK k \in 1 .. Len(cs) : at[k] = p
    BY <1>9, <1>11, <2>2, <2>4
  <2>6. cs[k] = bs[p]
    BY <1>9, <2>5
  <2> QED
    BY <1>10, <2>2, <2>6
<1>14. Reached(after) = Reached(lines)
  <2>1. ASSUME NEW k \in DOMAIN cs, IsMachine(cs[k])
        PROVE  \E i \in DOMAIN bs : IsMachine(bs[i]) /\ Target(bs[i]) = Target(cs[k])
    BY <1>9, <1>10, <2>1
  <2> QED
    BY <1>4, <1>13, <2>1
<1>15. Cardinality(Reached(after)) = Len(ms)
  <2> DEFINE target == [k \in 1 .. Len(ms) |-> Target(cs[at2[k]])]
  <2>1. \A k \in 1 .. Len(ms) : target[k] = Target(cs[at2[k]]) /\ target[k] \in Reached(after)
    BY <1>4, <1>7
  <2>2. ASSUME NEW x \in Reached(after) PROVE \E k \in 1 .. Len(ms) : target[k] = x
    <3>1. PICK j \in DOMAIN cs : IsMachine(cs[j]) /\ x = Target(cs[j])
      BY <1>4, <2>2
    <3> QED
      BY <1>7, <2>1, <3>1
  <2>3. ASSUME NEW k \in 1 .. Len(ms), NEW l \in 1 .. Len(ms), k < l
        PROVE  target[k] # target[l]
    <3>1. at2[k] < at2[l]
      BY <1>7, <2>3
    <3> QED
      BY <1>7, <1>12, <2>1, <3>1
  <2>4. DOMAIN target = 1 .. Len(ms) /\ target \in [1 .. Len(ms) -> Reached(after)]
    BY <2>1
  <2> HIDE DEF target
  <2>5. \A k, l \in 1 .. Len(ms) : target[k] = target[l] => k = l
    <3>1. \A k, l \in 1 .. Len(ms) : k = l \/ k < l \/ l < k
      BY <1>7
    <3> QED
      BY <2>3, <3>1
  <2>6. target \in Bijection(1 .. Len(ms), Reached(after))
    BY <2>2, <2>4, <2>5 DEF Bijection, Injection, Surjection, IsInjective
  <2>7. IsFiniteSet(1 .. Len(ms)) /\ Cardinality(1 .. Len(ms)) = Len(ms)
    <3>1. \A n \in Nat : IsFiniteSet(1 .. n) /\ Cardinality(1 .. n) = n
      BY FS_Interval
    <3>2. Len(ms) \in Nat
      BY <1>7
    <3> QED
      BY <3>1, <3>2, Zenon
  <2> QED
    BY <2>6, <2>7, FS_Bijection DEF ExistsBijection
<1> QED
  BY <1>14, <1>15 DEF ms

----------------------------------------------------------------------------
(* The cleanup by blocks (CleanupFile) *)

BlockKind(b) == IF isSCMIdentity(b) THEN "scm"
                ELSE IF b.forwards THEN "forward" ELSE "machine"

Card(b) == [alias |-> b.alias, kind |-> BlockKind(b), target |-> cleanupTargetKey(b)]

Cards(bs) == [i \in DOMAIN bs |-> Card(bs[i])]

LEMMA FileIsCards ==
  ASSUME NEW lines \in Seq(Lines)
  PROVE  FileOf(lines) = Cards(Parsed(lines))
<1> DEFINE hb == parseConfigHostBlocks(lines)
<1>1. Parsed(lines) = [i \in DOMAIN hb |-> hb[i].block]
  BY BlocksAgree DEF Settings
<1>2. FileOf(lines) = [i \in DOMAIN hb |-> Card(hb[i].block)]
  BY DEF FileOf, Card, BlockKind
<1> HIDE DEF hb
<1>3. /\ DOMAIN Parsed(lines) = DOMAIN hb
      /\ \A i \in DOMAIN hb : Parsed(lines)[i] = hb[i].block
  BY <1>1
<1> QED
  BY <1>2, <1>3 DEF Cards

\* To pick blocks and to forget their settings are done in any order.
LEMMA CardsOfSublist ==
  ASSUME NEW bs \in Seq(BlockType), NEW places
  PROVE  Cards(Sublist(bs, places)) = Sublist(Cards(bs), places)
<1> DEFINE AnyCard == {Card(b) : b \in BlockType}
           S == {s \in Seq(BlockType) : Cards(Sublist(s, places)) = Sublist(Cards(s), places)}
<1>1. <<>> \in S
  <2>1. Cards(<<>>) = <<>>
    BY DEF Cards
  <2> QED
    BY <2>1, SublistEmpty
<1>2. ASSUME NEW s \in Seq(BlockType), NEW x \in BlockType
      PROVE  /\ Cards(s) \in Seq(AnyCard) /\ Len(Cards(s)) = Len(s)
             /\ Cards(Append(s, x)) = Append(Cards(s), Card(x))
  <2>1. /\ DOMAIN s = 1 .. Len(s) /\ Len(s) \in Nat
        /\ DOMAIN Append(s, x) = 1 .. Len(s) + 1
        /\ \A i \in 1 .. Len(s) : Append(s, x)[i] = s[i] /\ s[i] \in BlockType
        /\ Append(s, x)[Len(s) + 1] = x
    OBVIOUS
  <2>2. Cards(s) = [i \in 1 .. Len(s) |-> Card(s[i])]
    BY <2>1 DEF Cards
  <2>3. Cards(s) \in Seq(AnyCard) /\ Len(Cards(s)) = Len(s)
    BY <2>1, <2>2
  <2>4. Cards(Append(s, x)) = [i \in 1 .. Len(s) + 1 |-> Card(Append(s, x)[i])]
    BY <2>1 DEF Cards
  <2>5. Card(x) \in AnyCard
    OBVIOUS
  <2> HIDE DEF AnyCard
  <2>6. /\ Append(Cards(s), Card(x)) \in Seq(AnyCard)
        /\ Len(Append(Cards(s), Card(x))) = Len(s) + 1
        /\ \A i \in 1 .. Len(s) : Append(Cards(s), Card(x))[i] = Cards(s)[i]
        /\ Append(Cards(s), Card(x))[Len(s) + 1] = Card(x)
    BY <2>3, <2>5, AppendProperties
  <2>7. /\ \A i \in 1 .. Len(s) + 1 : Card(Append(s, x)[i]) \in AnyCard
        /\ \A i \in 1 .. Len(s) : Card(Append(s, x)[i]) = Cards(s)[i]
        /\ Card(Append(s, x)[Len(s) + 1]) = Card(x)
    BY <2>1, <2>2 DEF AnyCard
  <2>8. Cards(Append(s, x)) \in Seq(AnyCard) /\ Len(Cards(Append(s, x))) = Len(s) + 1
    BY <2>1, <2>4, <2>7
  <2>9. \A i \in 1 .. Len(s) + 1 : Cards(Append(s, x))[i] = Append(Cards(s), Card(x))[i]
    <3>1. \A i \in 1 .. Len(s) + 1 : i \in 1 .. Len(s) \/ i = Len(s) + 1
      BY <2>1
    <3> QED
      BY <2>4, <2>6, <2>7, <3>1
  <2>10. Cards(Append(s, x)) = Append(Cards(s), Card(x))
    BY <2>6, <2>8, <2>9, SeqEqual
  <2> QED
    BY <2>3, <2>10 DEF AnyCard
<1>3. ASSUME NEW s \in Seq(BlockType), NEW x \in BlockType, s \in S
      PROVE  Append(s, x) \in S
  <2> DEFINE sub == Sublist(s, places)
             next == Len(s) + 1 \in places
  <2> SUFFICES Cards(Sublist(Append(s, x), places)) = Sublist(Cards(Append(s, x)), places)
    OBVIOUS
  <2>1. Sublist(Append(s, x), places) = IF next THEN Append(sub, x) ELSE sub
    BY SublistNext
  <2>2. sub \in Seq(BlockType) /\ Cards(sub) = Sublist(Cards(s), places)
    BY <1>3, SublistType
  <2>3. Card(x) \in AnyCard
    OBVIOUS
  <2>4. Cards(Append(sub, x)) = Append(Cards(sub), Card(x))
    BY <1>2, <2>2
  <2> HIDE DEF S, AnyCard
  <2>5. Sublist(Append(Cards(s), Card(x)), places) =
            IF next THEN Append(Sublist(Cards(s), places), Card(x))
                    ELSE Sublist(Cards(s), places)
    BY <1>2, <2>3, SublistNext
  <2>6. Cards(Append(s, x)) = Append(Cards(s), Card(x))
    BY <1>2
  <2> HIDE DEF sub, next
  <2> QED
    BY <2>1, <2>2, <2>4, <2>5, <2>6
<1> HIDE DEF S
<1>4. Seq(BlockType) \subseteq S
  BY <1>1, <1>3, Grows
<1> QED
  BY <1>4 DEF S

LEMMA CandidatesAreSpareBlocks ==
  ASSUME NEW bs \in Seq(BlockType)
  PROVE  Blocks!Candidates(Cards(bs)) = Spare(bs)
<1> DEFINE file == Cards(bs)
<1>1. /\ DOMAIN file = DOMAIN bs /\ DOMAIN bs = 1 .. Len(bs) /\ Len(bs) \in Nat
      /\ \A i \in DOMAIN bs : /\ bs[i] \in BlockType
                              /\ file[i].alias = bs[i].alias
                              /\ file[i].kind = BlockKind(bs[i])
                              /\ file[i].target = cleanupTargetKey(bs[i])
  BY DEF Cards, Card
<1> HIDE DEF file
<1>2. ASSUME NEW i \in DOMAIN bs
      PROVE  i \in Blocks!Machines(file) <=> IsMachine(bs[i])
  <2>1. bs[i].forwards \in BOOLEAN
    BY <1>1 DEF BlockType
  <2>2. BlockKind(bs[i]) = "machine" <=> ~isSCMIdentity(bs[i]) /\ ~bs[i].forwards
    BY <2>1 DEF BlockKind
  <2> QED
    BY <1>1, <2>2 DEF Blocks!Machines, IsMachine, Concrete
<1>3. Blocks!Machines(file) \subseteq DOMAIN bs
  BY <1>1 DEF Blocks!Machines
<1>4. \A i, j \in DOMAIN bs : file[i].target = file[j].target <=> Target(bs[i]) = Target(bs[j])
  BY <1>1, KeyIsTarget
<1>5. ASSUME NEW i \in DOMAIN bs
      PROVE  (\E q \in Blocks!Machines(file) : q < i /\ file[q].target = file[i].target)
                 <=> ~FirstOfTarget(bs, i)
  <2>1. \A q \in DOMAIN bs : q < i <=> q \in 1 .. i - 1
    BY <1>1
  <2>2. \A q \in 1 .. i - 1 : q \in DOMAIN bs
    BY <1>1
  <2> QED
    BY <1>2, <1>3, <1>4, <2>1, <2>2 DEF FirstOfTarget
<1>6. Blocks!Candidates(file) = Spare(bs)
  BY <1>2, <1>3, <1>5 DEF Blocks!Candidates, Spare
<1> QED
  BY <1>6 DEF file

LEMMA EveryPlanGoesByBlocks ==
  ASSUME NEW lines \in Seq(Lines)
  PROVE  PlansByBlocks(lines)
<1> DEFINE bs == Parsed(lines)
<1>1. bs \in Seq(BlockType) /\ FileOf(lines) = Cards(bs)
  BY ParsedType, FileIsCards
<1>2. Deletable(lines) = {bs[i].alias : i \in Spare(bs)}
  BY DeletableIsSpare
<1> HIDE DEF bs
<1>3. Blocks!Candidates(Cards(bs)) = Spare(bs)
  BY <1>1, CandidatesAreSpareBlocks
<1>4. \A i \in Spare(bs) : Cards(bs)[i].alias = bs[i].alias
  BY DEF Cards, Card, Spare
<1>5. {Cards(bs)[i].alias : i \in Spare(bs)} = {bs[i].alias : i \in Spare(bs)}
  BY <1>4
<1> QED
  BY <1>1, <1>2, <1>3, <1>5 DEF PlansByBlocks

LEMMA EveryRemovalGoesByBlocks ==
  ASSUME NEW lines \in Seq(Lines), NEW hosts
  PROVE  RemovesByBlocks(lines, hosts)
<1> DEFINE hb == parseConfigHostBlocks(lines)
           bs == Parsed(lines)
           file == FileOf(lines)
           after == ApplyCleanup(lines, hosts)
           gone == LastBlocks(hb, hosts)
<1>1. bs \in Seq(BlockType) /\ file = Cards(bs)
  BY ParsedType, FileIsCards
<1>2. after \in Seq(Lines) /\ Parsed(after) = Sublist(bs, Nat \ gone)
  BY ParsedOfApplied
<1>3. FileOf(after) = Cards(Parsed(after))
  BY <1>2, FileIsCards
<1>4. FileOf(after) = Sublist(Cards(bs), Nat \ gone)
  BY <1>1, <1>2, <1>3, CardsOfSublist
<1>5. DOMAIN hb = DOMAIN bs /\ \A i \in DOMAIN bs : bs[i] = hb[i].block
  BY BlocksAgree DEF Settings
<1> HIDE DEF hb, bs, file, after
<1>6. DOMAIN file = DOMAIN bs /\ \A i \in DOMAIN bs : file[i].alias = bs[i].alias
  BY <1>1 DEF Cards, Card
<1>7. Blocks!Found(file, hosts) = gone
  BY <1>5, <1>6 DEF Blocks!Found, LastBlocks
<1> HIDE DEF gone
<1>8. DOMAIN Blocks!Remaining(file, hosts) = DOMAIN file \cap (Nat \ gone)
  BY <1>7 DEF Blocks!Remaining, Blocks!Part
<1>9. \A i \in DOMAIN file : i \in Nat \ gone <=> i \in DOMAIN file \cap (Nat \ gone)
  OBVIOUS
<1>10. file \in Seq({Card(b) : b \in BlockType})
  <2>1. DOMAIN bs = 1 .. Len(bs) /\ Len(bs) \in Nat /\ \A i \in 1 .. Len(bs) : bs[i] \in BlockType
    BY <1>1
  <2>2. file = [i \in 1 .. Len(bs) |-> Card(bs[i])]
    BY <1>1, <2>1 DEF Cards
  <2> QED
    BY <2>1, <2>2
<1>11. Sublist(file, Nat \ gone) = Sublist(file, DOMAIN file \cap (Nat \ gone))
  BY <1>9, <1>10, SublistSame
<1> QED
  BY <1>1, <1>4, <1>8, <1>11 DEF RemovesByBlocks, file, after

----------------------------------------------------------------------------
(* The config: every one that the operator writes is a sequence of lines.  *)

\* A config holds only lines an operator may write, whatever is written.
THEOREM ConfigType == ConfigSpec => [](config \in Seq(Lines))
<1>1. ConfigInit => config \in Seq(Lines)
  BY ConfigsAssumption DEF ConfigInit
<1>2. config \in Seq(Lines) /\ [ConfigNext]_config => (config \in Seq(Lines))'
  BY DEF ConfigNext, WriteLine
<1> QED
  BY <1>1, <1>2, PTL DEF ConfigSpec

\* The inventory's parser and the cleanup's, two separate pieces of code, read
\* the same blocks of every config: neither cleanup.go nor sshconfig.go sees a
\* host, or a setting of one, that the other does not.
THEOREM ParsersAlwaysAgree == ConfigSpec => []ParsersAgree
<1>1. config \in Seq(Lines) => ParsersAgree
  BY EveryConfigAgrees DEF ParsersAgree
<1> QED
  BY <1>1, ConfigType, PTL

\* ApplyCleanup removes the last blocks of the hosts it is given and nothing
\* else: every other block reads as before, and so do the lines ahead of them.
THEOREM RemovalIsAlwaysExact == ConfigSpec => []RemovalIsExact
<1>1. config \in Seq(Lines) => RemovalIsExact
  BY EveryRemovalIsExact DEF RemovalIsExact
<1> QED
  BY <1>1, ConfigType, PTL

\* Deleting all that PlanCleanup offers leaves the inventory able to reach
\* every target it reached before, and each of them by one machine.
THEOREM TargetsAreAlwaysSpared == ConfigSpec => []TargetsAreSpared
<1>1. config \in Seq(Lines) => TargetsAreSpared
  BY EveryPlanSpares DEF TargetsAreSpared
<1> QED
  BY <1>1, ConfigType, PTL

\* What PlanCleanup offers and ApplyCleanup removes by the lines of a config is
\* what Cleanup plans and removes by its Host blocks.
THEOREM CleanupAlwaysGoesByBlocks == ConfigSpec => []CleanupGoesByBlocks
<1>1. config \in Seq(Lines) => CleanupGoesByBlocks
  BY EveryPlanGoesByBlocks, EveryRemovalGoesByBlocks DEF CleanupGoesByBlocks
<1> QED
  BY <1>1, ConfigType, PTL

----------------------------------------------------------------------------
(* Filter expressions *)

\* The fields of a filter that are words of the code, and what a token says
\* of its field.
Fields == {"name", "method", "health", "hidden"}

Says(t) == IF Kind(t) = "name" THEN t.value ELSE Meaning[Kind(t)][t.value]

LEMMA KindIs ==
  ASSUME NEW t
  PROVE  Kind(t) \in Fields \cup {"word", "tag"}
<1>1. DOMAIN Meaning = {"method", "health", "hidden"}
  BY DEF Meaning
<1> QED
  BY <1>1 DEF Kind, Fields

\* A value that is not refused has a meaning, and no meaning is empty.
LEMMA MeaningIsNotEmpty ==
  ASSUME NEW t, Kind(t) \in Fields, Kind(t) # "name", ~Refused(t)
  PROVE  Says(t) # ""
<1>1. DOMAIN Meaning = {"method", "health", "hidden"}
  BY DEF Meaning
<1>2. \A v \in DOMAIN Meaning["method"] : Meaning["method"][v] # ""
  <2> DEFINE r == Meaning["method"]
  <2>1. r = [ssh |-> "ssh", ssm |-> "ssm", aws |-> "ssm"]
    BY DEF Meaning
  <2>2. DOMAIN r = {"ssh", "ssm", "aws"}
    BY <2>1
  <2>3. r["ssh"] = "ssh" /\ r["ssm"] = "ssm" /\ r["aws"] = "ssm"
    BY <2>1
  <2> HIDE DEF r
  <2>4. \A v \in DOMAIN r : r[v] # ""
    BY <2>2, <2>3
  <2> QED
    BY <2>4 DEF r
<1>3. \A v \in DOMAIN Meaning["health"] : Meaning["health"][v] # ""
  <2> DEFINE r == Meaning["health"]
  <2>1. r = [up |-> "up", down |-> "down", unknown |-> "unknown"]
    BY DEF Meaning
  <2>2. DOMAIN r = {"up", "down", "unknown"}
    BY <2>1
  <2>3. r["up"] = "up" /\ r["down"] = "down" /\ r["unknown"] = "unknown"
    BY <2>1
  <2> HIDE DEF r
  <2>4. \A v \in DOMAIN r : r[v] # ""
    BY <2>2, <2>3
  <2> QED
    BY <2>4 DEF r
<1>4. \A v \in DOMAIN Meaning["hidden"] : Meaning["hidden"][v] # ""
  <2> DEFINE r == Meaning["hidden"]
  <2>1. r = [true |-> "true", yes |-> "true", false |-> "false"]
    BY DEF Meaning
  <2>2. DOMAIN r = {"true", "yes", "false"}
    BY <2>1
  <2>3. r["true"] = "true" /\ r["yes"] = "true" /\ r["false"] = "false"
    BY <2>1
  <2> HIDE DEF r
  <2>4. \A v \in DOMAIN r : r[v] # ""
    BY <2>2, <2>3
  <2> QED
    BY <2>4 DEF r
<1>5. t.value \in DOMAIN Meaning[Kind(t)] /\ Kind(t) \in {"method", "health", "hidden"}
  BY <1>1 DEF Refused, Fields
<1>6. Says(t) = Meaning[Kind(t)][t.value]
  BY DEF Says
<1> QED
  BY <1>2, <1>3, <1>4, <1>5, <1>6

\* A filter record, whatever its fields hold.
Shape(f) == f = [x \in Fields \cup {"tags", "text"} |-> f[x]]

LEMMA NoFilterShape == Shape(NoFilter)
BY DEF Shape, NoFilter, Fields

\* What a token changes in a filter.
Reads(g, f, t) ==
    /\ Shape(g)
    /\ \A x \in Fields : g[x] = IF Kind(t) = x THEN Says(t) ELSE f[x]
    /\ g.text = IF Kind(t) = "word" THEN Append(f.text, t) ELSE f.text
    /\ g.tags = IF Kind(t) = "tag"
                THEN [k \in DOMAIN f.tags \cup {t.key} |->
                         IF k = t.key THEN t.value ELSE f.tags[k]]
                ELSE f.tags

LEMMA ReadTokenReads ==
  ASSUME NEW f, Shape(f), NEW t
  PROVE  Reads(ReadToken(f, t), f, t)
<1> DEFINE D == Fields \cup {"tags", "text"}
           g == ReadToken(f, t)
<1>1. Kind(t) \in Fields \cup {"word", "tag"} /\ DOMAIN f = D
  BY KindIs DEF Shape
<1>2. CASE Kind(t) = "word"
  <2>1. g = [f EXCEPT !.text = Append(f.text, t)]
    BY <1>2 DEF ReadToken
  <2>2. g = [x \in D |-> IF x = "text" THEN Append(f.text, t) ELSE f[x]]
    BY <1>1, <2>1
  <2> QED
    BY <1>2, <2>2 DEF Reads, Shape, Fields
<1>3. CASE Kind(t) = "name"
  <2>1. g = [f EXCEPT !.name = t.value]
    BY <1>3 DEF ReadToken
  <2>2. g = [x \in D |-> IF x = "name" THEN t.value ELSE f[x]]
    BY <1>1, <2>1
  <2> QED
    BY <1>3, <2>2 DEF Reads, Shape, Fields, Says
<1>4. CASE Kind(t) = "tag"
  <2> DEFINE tags == [k \in DOMAIN f.tags \cup {t.key} |->
                         IF k = t.key THEN t.value ELSE f.tags[k]]
  <2>1. g = [f EXCEPT !.tags = tags]
    BY <1>4 DEF ReadToken
  <2>2. Reads(g, f, t) <=>
            /\ Shape(g) /\ \A x \in Fields : g[x] = f[x]
            /\ g.text = f.text /\ g.tags = tags
    BY <1>4 DEF Reads, Fields
  <2> HIDE DEF tags
  <2>3. g = [x \in D |-> IF x = "tags" THEN tags ELSE f[x]]
    BY <1>1, <2>1
  <2> QED
    BY <2>2, <2>3 DEF Shape, Fields
<1>5. CASE Kind(t) \in {"method", "health", "hidden"}
  <2>1. g = [f EXCEPT ![Kind(t)] = Says(t)]
    BY <1>5 DEF ReadToken, Says
  <2>2. g = [x \in D |-> IF x = Kind(t) THEN Says(t) ELSE f[x]]
    BY <1>1, <2>1
  <2> QED
    BY <1>5, <2>2 DEF Reads, Shape, Fields
<1> QED
  BY <1>1, <1>2, <1>3, <1>4, <1>5 DEF Fields

\* The token of a text that counts for a field, or for a key of a tag.
LastOf(text, n, i, kind) ==
    /\ i \in 1 .. n /\ Kind(text[i]) = kind
    /\ \A j \in i + 1 .. n : Kind(text[j]) # kind

LastTag(text, n, i, key) ==
    /\ i \in 1 .. n /\ Kind(text[i]) = "tag" /\ text[i].key = key
    /\ \A j \in i + 1 .. n : Kind(text[j]) = "tag" => text[j].key # key

\* What a filter says after n tokens of a text.
Said(f, text, n) ==
    /\ Shape(f)
    /\ \A x \in Fields :
           \/ f[x] = "" /\ \A i \in 1 .. n : Kind(text[i]) # x
           \/ \E i \in 1 .. n : LastOf(text, n, i, x) /\ f[x] = Says(text[i])
    /\ \A k \in DOMAIN f.tags : \E i \in 1 .. n : LastTag(text, n, i, k)
                                                  /\ f.tags[k] = text[i].value
    /\ \A i \in 1 .. n : Kind(text[i]) = "tag" => text[i].key \in DOMAIN f.tags

LEMMA SaidNext ==
  ASSUME NEW text, NEW n \in Nat, NEW f, Said(f, text, n), NEW g,
         Reads(g, f, text[n + 1])
  PROVE  Said(g, text, n + 1)
<1> DEFINE t == text[n + 1]
<1>1. \A i \in 1 .. n + 1 : i \in 1 .. n \/ i = n + 1
  OBVIOUS
<1>2. ASSUME NEW x \in Fields
      PROVE  \/ g[x] = "" /\ \A i \in 1 .. n + 1 : Kind(text[i]) # x
             \/ \E i \in 1 .. n + 1 : LastOf(text, n + 1, i, x) /\ g[x] = Says(text[i])
  <2>1. CASE Kind(t) = x
    <3>1. LastOf(text, n + 1, n + 1, x)
      BY <2>1 DEF LastOf
    <3>2. g[x] = Says(t) /\ n + 1 \in 1 .. n + 1
      BY <2>1 DEF Reads
    <3> QED
      BY <3>1, <3>2
  <2>2. CASE Kind(t) # x
    <3>1. g[x] = f[x]
      BY <2>2 DEF Reads
    <3>2. ASSUME NEW i \in 1 .. n, LastOf(text, n, i, x) PROVE LastOf(text, n + 1, i, x)
      BY <1>1, <2>2, <3>2 DEF LastOf
    <3>3. \/ f[x] = "" /\ \A i \in 1 .. n : Kind(text[i]) # x
          \/ \E i \in 1 .. n : LastOf(text, n, i, x) /\ f[x] = Says(text[i])
      BY DEF Said
    <3>4. CASE f[x] = "" /\ \A i \in 1 .. n : Kind(text[i]) # x
      BY <1>1, <2>2, <3>1, <3>4
    <3>5. CASE \E i \in 1 .. n : LastOf(text, n, i, x) /\ f[x] = Says(text[i])
      <4>1. PICK i \in 1 .. n : LastOf(text, n, i, x) /\ f[x] = Says(text[i])
        BY <3>5
      <4>2. i \in 1 .. n + 1 /\ LastOf(text, n + 1, i, x) /\ g[x] = Says(text[i])
        BY <3>1, <3>2, <4>1
      <4> QED
        BY <4>2
    <3> QED
      BY <3>3, <3>4, <3>5
  <2> QED
    BY <2>1, <2>2
<1>3. /\ \A k \in DOMAIN f.tags : \E i \in 1 .. n : LastTag(text, n, i, k)
                                                    /\ f.tags[k] = text[i].value
      /\ \A i \in 1 .. n : Kind(text[i]) = "tag" => text[i].key \in DOMAIN f.tags
  BY DEF Said
<1>4. /\ \A k \in DOMAIN g.tags : \E i \in 1 .. n + 1 : LastTag(text, n + 1, i, k)
                                                        /\ g.tags[k] = text[i].value
      /\ \A i \in 1 .. n + 1 : Kind(text[i]) = "tag" => text[i].key \in DOMAIN g.tags
  <2>1. CASE Kind(t) = "tag"
    <3>1. g.tags = [k \in DOMAIN f.tags \cup {t.key} |->
                       IF k = t.key THEN t.value ELSE f.tags[k]]
      BY <2>1 DEF Reads
    <3>2. /\ DOMAIN g.tags = DOMAIN f.tags \cup {t.key} /\ g.tags[t.key] = t.value
          /\ \A k \in DOMAIN f.tags : k # t.key => g.tags[k] = f.tags[k]
      BY <3>1
    <3>3. LastTag(text, n + 1, n + 1, t.key)
      BY <2>1 DEF LastTag
    <3>4. ASSUME NEW k, k # t.key, NEW i \in 1 .. n, LastTag(text, n, i, k)
          PROVE  LastTag(text, n + 1, i, k)
      BY <1>1, <3>4 DEF LastTag
    <3> HIDE DEF t
    <3>5. ASSUME NEW k \in DOMAIN g.tags
          PROVE  \E i \in 1 .. n + 1 : LastTag(text, n + 1, i, k)
                                       /\ g.tags[k] = text[i].value
      <4>1. CASE k = t.key
        <5>1. n + 1 \in 1 .. n + 1
          OBVIOUS
        <5> QED
          BY <3>2, <3>3, <4>1, <5>1 DEF t
      <4>2. CASE k # t.key
        <5>1. PICK i \in 1 .. n : LastTag(text, n, i, k) /\ f.tags[k] = text[i].value
          BY <1>3, <3>2, <4>2
        <5>2. i \in 1 .. n + 1 /\ LastTag(text, n + 1, i, k) /\ g.tags[k] = text[i].value
          BY <3>2, <3>4, <4>2, <5>1
        <5> QED
          BY <5>2
      <4> QED
        BY <4>1, <4>2
    <3>6. \A i \in 1 .. n + 1 : Kind(text[i]) = "tag" => text[i].key \in DOMAIN g.tags
      BY <1>1, <1>3, <3>2 DEF t
    <3> QED
      BY <3>5, <3>6
  <2>2. CASE Kind(t) # "tag"
    <3>1. g.tags = f.tags
      BY <2>2 DEF Reads
    <3>2. ASSUME NEW k, NEW i \in 1 .. n, LastTag(text, n, i, k)
          PROVE  LastTag(text, n + 1, i, k)
      BY <1>1, <2>2, <3>2 DEF LastTag
    <3>3. \A i \in 1 .. n : i \in 1 .. n + 1
      OBVIOUS
    <3> QED
      BY <1>1, <1>3, <2>2, <3>1, <3>2, <3>3
  <2> QED
    BY <2>1, <2>2
<1>5. Shape(g)
  BY DEF Reads
<1> QED
  BY <1>2, <1>4, <1>5 DEF Said

\* The words of a text, in their order.
Words(text) == Sublist(text, {i \in DOMAIN text : Kind(text[i]) = "word"})

LEMMA ParsedFilter ==
  ASSUME NEW T, NEW text \in Seq(T)
  PROVE  /\ Said(parseFilterExpression(text), text, Len(text))
         /\ parseFilterExpression(text).text = Words(text)
<1> DEFINE m == Len(text)
           places == {i \in DOMAIN text : Kind(text[i]) = "word"}
<1>1. m \in Nat /\ DOMAIN text = 1 .. m
  OBVIOUS
<1>2. PICK f : /\ parseFilterExpression(text) = f[m]
               /\ f[0] = NoFilter
               /\ \A n \in 0 .. m - 1 : f[n + 1] = ReadToken(f[n], text[n + 1])
  BY <1>1, FilterLoop
<1>3. PICK w : /\ Sublist(text, places) = w[m]
               /\ w[0] = <<>>
               /\ \A n \in 0 .. m - 1 :
                      w[n + 1] = IF n + 1 \in places THEN Append(w[n], text[n + 1])
                                                     ELSE w[n]
  <2>1. Len(text) \in Nat
    OBVIOUS
  <2> HIDE DEF places
  <2> QED
    BY <2>1, SublistLoop
<1> DEFINE S == {n \in Nat : n <= m => Said(f[n], text, n) /\ f[n].text = w[n]}
<1> HIDE DEF m
<1>4. 0 \in S
  <2>1. /\ \A x \in Fields : NoFilter[x] = ""
        /\ NoFilter.text = <<>> /\ NoFilter.tags = <<>>
    BY DEF NoFilter, Fields
  <2>2. DOMAIN NoFilter.tags = {}
    <3>1. DOMAIN <<>> = {}
      OBVIOUS
    <3> QED
      BY <2>1, <3>1
  <2>3. Said(NoFilter, text, 0)
    <3>1. \A i \in 1 .. 0 : FALSE
      OBVIOUS
    <3>2. \A x \in Fields : NoFilter[x] = "" /\ \A i \in 1 .. 0 : Kind(text[i]) # x
      BY <2>1, <3>1
    <3>3. \A k \in DOMAIN NoFilter.tags : FALSE
      BY <2>2
    <3> QED
      BY <3>1, <3>2, <3>3, NoFilterShape DEF Said
  <2> QED
    BY <1>2, <1>3, <2>1, <2>3
<1>5. ASSUME NEW n \in Nat, n \in S PROVE n + 1 \in S
  <2>1. SUFFICES ASSUME n + 1 <= m
                 PROVE  Said(f[n + 1], text, n + 1) /\ f[n + 1].text = w[n + 1]
    OBVIOUS
  <2>2. n \in 0 .. m - 1 /\ Said(f[n], text, n) /\ f[n].text = w[n]
    BY <1>1, <1>5, <2>1
  <2>3. f[n + 1] = ReadToken(f[n], text[n + 1]) /\ Shape(f[n])
    BY <1>2, <2>2 DEF Said
  <2>4. Reads(f[n + 1], f[n], text[n + 1])
    BY <2>3, ReadTokenReads
  <2>5. Said(f[n + 1], text, n + 1)
    BY <2>2, <2>4, SaidNext
  <2>6. n + 1 \in places <=> Kind(text[n + 1]) = "word"
    BY <1>1, <2>1
  <2>7. f[n + 1].text = w[n + 1]
    BY <1>3, <2>2, <2>4, <2>6 DEF Reads
  <2> QED
    BY <2>5, <2>7
<1> HIDE DEF S
<1>6. m \in S
  BY <1>1, <1>4, <1>5, Induction
<1> QED
  BY <1>1, <1>2, <1>3, <1>6 DEF S, m, Words

\* What a filter asks of a row in one field.
Allows(row, x, value) ==
    CASE x = "name" -> value \in row.prefixes \cup {""}
      [] x = "method" -> value \in row.methods \cup {""}
      [] OTHER -> value \in {row[x], ""}

LEMMA TokenAllows ==
  ASSUME NEW t, Kind(t) \in Fields, ~Refused(t), NEW row
  PROVE  /\ Holds(t, row, TRUE) <=> Allows(row, Kind(t), Says(t))
         /\ Holds(t, row, FALSE) <=> ~Allows(row, Kind(t), Says(t))
<1>1. CASE Kind(t) = "name"
  <2>1. Says(t) = t.value
    BY <1>1 DEF Says
  <2>2. /\ Holds(t, row, TRUE) <=> t.value = "" \/ t.value \in row.prefixes
        /\ Holds(t, row, FALSE) <=> ~(t.value = "" \/ t.value \in row.prefixes)
    BY <1>1 DEF Holds
  <2> QED
    BY <1>1, <2>1, <2>2 DEF Allows
<1>2. CASE Kind(t) = "method"
  <2>1. Says(t) # "" /\ Says(t) = Meaning["method"][t.value]
    BY <1>2, MeaningIsNotEmpty DEF Says
  <2> DEFINE meant == Meaning.method[t.value]
  <2>2. /\ Holds(t, row, TRUE) <=> meant \in row.methods
        /\ Holds(t, row, FALSE) <=> meant \notin row.methods
    <3>1. /\ Holds(t, row, TRUE) = ((meant \in row.methods) = TRUE)
          /\ Holds(t, row, FALSE) = ((meant \in row.methods) = FALSE)
      BY <1>2, Zenon DEF Holds
    <3>2. \A b \in BOOLEAN : /\ (b = TRUE) = b
                            /\ (b = FALSE) = ~b
      OBVIOUS
    <3>3. (meant \in row.methods) \in BOOLEAN
      OBVIOUS
    <3> QED
      BY <3>1, <3>2, <3>3, Zenon
  <2>3. meant = Says(t)
    BY <2>1
  <2> HIDE DEF meant
  <2>4. Allows(row, Kind(t), Says(t)) <=> Says(t) \in row.methods \cup {""}
    BY <1>2 DEF Allows
  <2> QED
    BY <2>1, <2>2, <2>3, <2>4
<1>3. CASE Kind(t) \in {"health", "hidden"}
  <2>1. Says(t) # "" /\ Says(t) = Meaning[Kind(t)][t.value]
    BY <1>3, MeaningIsNotEmpty DEF Says
  <2>2. /\ Holds(t, row, TRUE) <=> Says(t) = row[Kind(t)]
        /\ Holds(t, row, FALSE) <=> Says(t) # row[Kind(t)]
    BY <1>3, <2>1 DEF Holds
  <2> QED
    BY <1>3, <2>1, <2>2 DEF Allows
<1> QED
  BY <1>1, <1>2, <1>3 DEF Fields

LEMMA TokenTags ==
  ASSUME NEW t, Kind(t) = "tag", NEW row, NEW yes
  PROVE  Holds(t, row, yes) <=> yes \in TagAnswers(row, t.key, t.value)
BY DEF Holds

LEMMA TokenWord ==
  ASSUME NEW t, Kind(t) = "word", NEW row
  PROVE  Holds(t, row, TRUE) /\ ~Holds(t, row, FALSE)
BY DEF Holds

\* A token counts for a field if it is the last of its kind, and for a tag if
\* it is the last with its key.
LEMMA CountsIs ==
  ASSUME NEW T, NEW text \in Seq(T), NEW i \in DOMAIN text
  PROVE  /\ Kind(text[i]) \in Fields =>
                (Counts(text, i) <=> LastOf(text, Len(text), i, Kind(text[i])))
         /\ Kind(text[i]) = "tag" =>
                (Counts(text, i) <=> LastTag(text, Len(text), i, text[i].key))
<1>1. i \in 1 .. Len(text)
  OBVIOUS
<1>2. "word" \notin Fields /\ "tag" \notin Fields
  BY DEF Fields
<1> QED
  BY <1>1, <1>2 DEF Counts, LastOf, LastTag

\* The tokens that count for a field say of a row what the filter says.
FieldAgrees(text, f, row, x) ==
    /\ Allows(row, x, f[x]) <=>
           \A i \in DOMAIN text : Kind(text[i]) = x /\ Counts(text, i)
                                      => Holds(text[i], row, TRUE)
    /\ ~Allows(row, x, f[x]) <=>
           \E i \in DOMAIN text : /\ Kind(text[i]) = x /\ Counts(text, i)
                                  /\ Holds(text[i], row, FALSE)

LEMMA FieldMeans ==
  ASSUME NEW T, NEW text \in Seq(T), \A i \in DOMAIN text : ~Refused(text[i]),
         NEW f, Said(f, text, Len(text)), NEW row, NEW x \in Fields
  PROVE  FieldAgrees(text, f, row, x)
<1> DEFINE n == Len(text)
<1>1. DOMAIN text = 1 .. n /\ n \in Nat
  OBVIOUS
<1>2. \/ f[x] = "" /\ \A i \in 1 .. n : Kind(text[i]) # x
      \/ \E i \in 1 .. n : LastOf(text, n, i, x) /\ f[x] = Says(text[i])
  BY DEF Said
<1>3. \A i \in 1 .. n : Kind(text[i]) = x => (Counts(text, i) <=> LastOf(text, n, i, x))
  BY <1>1, CountsIs
<1>4. \A i \in 1 .. n : Kind(text[i]) = x =>
          /\ Holds(text[i], row, TRUE) <=> Allows(row, x, Says(text[i]))
          /\ Holds(text[i], row, FALSE) <=> ~Allows(row, x, Says(text[i]))
  BY <1>1, TokenAllows
<1> HIDE DEF n
<1>5. CASE f[x] = "" /\ \A i \in 1 .. n : Kind(text[i]) # x
  <2>1. Allows(row, x, "")
    BY DEF Allows
  <2> QED
    BY <1>1, <1>5, <2>1 DEF FieldAgrees
<1>6. CASE \E i \in 1 .. n : LastOf(text, n, i, x) /\ f[x] = Says(text[i])
  <2>1. PICK i \in 1 .. n : LastOf(text, n, i, x) /\ f[x] = Says(text[i])
    BY <1>6
  <2>2. ASSUME NEW j \in 1 .. n, LastOf(text, n, j, x) PROVE j = i
    BY <1>1, <2>1, <2>2 DEF LastOf
  <2>3. Kind(text[i]) = x /\ Counts(text, i)
    BY <1>3, <2>1 DEF LastOf
  <2>4. \A j \in 1 .. n : Kind(text[j]) = x /\ Counts(text, j) => j = i
    BY <1>3, <2>2
  <2> QED
    BY <1>1, <1>4, <2>1, <2>3, <2>4 DEF FieldAgrees
<1> QED
  BY <1>2, <1>5, <1>6

\* So do those that count for a key of a tag.
LEMMA TagsMean ==
  ASSUME NEW T, NEW text \in Seq(T), NEW f, Said(f, text, Len(text)), NEW row, NEW yes
  PROVE  /\ (\A k \in DOMAIN f.tags : yes \in TagAnswers(row, k, f.tags[k])) <=>
                \A i \in DOMAIN text : Kind(text[i]) = "tag" /\ Counts(text, i)
                                           => Holds(text[i], row, yes)
         /\ (\E k \in DOMAIN f.tags : yes \in TagAnswers(row, k, f.tags[k])) <=>
                \E i \in DOMAIN text : /\ Kind(text[i]) = "tag" /\ Counts(text, i)
                                       /\ Holds(text[i], row, yes)
<1> DEFINE n == Len(text)
           Ones == {i \in DOMAIN text : Kind(text[i]) = "tag" /\ Counts(text, i)}
<1>1. DOMAIN text = 1 .. n /\ n \in Nat
  OBVIOUS
<1>2. /\ \A k \in DOMAIN f.tags : \E i \in 1 .. n : LastTag(text, n, i, k)
                                                    /\ f.tags[k] = text[i].value
      /\ \A i \in 1 .. n : Kind(text[i]) = "tag" => text[i].key \in DOMAIN f.tags
  BY DEF Said
<1>3. \A i \in 1 .. n : Kind(text[i]) = "tag" =>
          (Counts(text, i) <=> LastTag(text, n, i, text[i].key))
  BY <1>1, CountsIs
<1> HIDE DEF n
<1>4. \A k \in DOMAIN f.tags : \E i \in Ones : text[i].key = k /\ f.tags[k] = text[i].value
  <2>1. ASSUME NEW k \in DOMAIN f.tags
        PROVE  \E i \in Ones : text[i].key = k /\ f.tags[k] = text[i].value
    <3>1. PICK i \in 1 .. n : LastTag(text, n, i, k) /\ f.tags[k] = text[i].value
      BY <1>2
    <3>2. Kind(text[i]) = "tag" /\ text[i].key = k
      BY <3>1 DEF LastTag
    <3>3. i \in Ones
      BY <1>1, <1>3, <3>1, <3>2
    <3> QED
      BY <3>1, <3>2, <3>3
  <2> QED
    BY <2>1
<1>5. \A i \in Ones : text[i].key \in DOMAIN f.tags
                      /\ f.tags[text[i].key] = text[i].value
  <2>1. ASSUME NEW i \in Ones
        PROVE  text[i].key \in DOMAIN f.tags /\ f.tags[text[i].key] = text[i].value
    <3> DEFINE k == text[i].key
    <3>1. k \in DOMAIN f.tags /\ LastTag(text, n, i, k) /\ i \in 1 .. n
      BY <1>1, <1>2, <1>3
    <3>2. PICK j \in 1 .. n : LastTag(text, n, j, k) /\ f.tags[k] = text[j].value
      BY <1>2, <3>1
    <3> HIDE DEF k
    <3>3. j = i
      BY <1>1, <3>1, <3>2 DEF LastTag
    <3> QED
      BY <3>1, <3>2, <3>3 DEF k
  <2> QED
    BY <2>1
<1>6. \A i \in Ones : Holds(text[i], row, yes) <=>
                          yes \in TagAnswers(row, text[i].key, text[i].value)
  BY TokenTags
<1>7. (\A k \in DOMAIN f.tags : yes \in TagAnswers(row, k, f.tags[k])) <=>
          \A i \in Ones : Holds(text[i], row, yes)
  <2> HIDE DEF Ones
  <2> QED
    BY <1>4, <1>5, <1>6
<1>8. (\E k \in DOMAIN f.tags : yes \in TagAnswers(row, k, f.tags[k])) <=>
          \E i \in Ones : Holds(text[i], row, yes)
  <2> HIDE DEF Ones
  <2> QED
    BY <1>4, <1>5, <1>6
<1> QED
  BY <1>7, <1>8

\* What matches may say, field by field.
LEMMA MatchesIs ==
  ASSUME NEW f, NEW row
  PROVE  LET fields == \A x \in Fields : Allows(row, x, f[x])
             phrase == f.text \in SubSeqs(row.words)
         IN  /\ TRUE \in matches(f, row) <=>
                    /\ fields /\ phrase
                    /\ \A k \in DOMAIN f.tags : TRUE \in TagAnswers(row, k, f.tags[k])
             /\ FALSE \in matches(f, row) <=>
                    \/ ~fields \/ ~phrase
                    \/ \E k \in DOMAIN f.tags : FALSE \in TagAnswers(row, k, f.tags[k])
<1> DEFINE rest == /\ f.name \in row.prefixes \cup {""}
                   /\ f.method \in row.methods \cup {""}
                   /\ f.health \in {row.health, ""}
                   /\ f.hidden \in {row.hidden, ""}
                   /\ f.text \in SubSeqs(row.words)
           all == \A k \in DOMAIN f.tags : TRUE \in TagAnswers(row, k, f.tags[k])
           some == \E k \in DOMAIN f.tags : FALSE \in TagAnswers(row, k, f.tags[k])
<1>1. matches(f, row) = {yes \in BOOLEAN : IF yes THEN rest /\ all ELSE rest => some}
  BY DEF matches
<1>2. rest <=> /\ \A x \in Fields : Allows(row, x, f[x])
               /\ f.text \in SubSeqs(row.words)
  BY DEF Allows, Fields
<1> HIDE DEF rest, all, some
<1>3. TRUE \in matches(f, row) <=> rest /\ all
  BY <1>1
<1>4. FALSE \in matches(f, row) <=> (rest => some)
  BY <1>1
<1> QED
  BY <1>2, <1>3, <1>4 DEF all, some

LEMMA EveryFilterMeans ==
  ASSUME NEW T, NEW text \in Seq(T), \A i \in DOMAIN text : ~Refused(text[i]), NEW row
  PROVE  LET f == parseFilterExpression(text)
             ones == {i \in DOMAIN text : Counts(text, i)}
             yes == \A i \in ones : Holds(text[i], row, TRUE)
             no == \E i \in ones : Holds(text[i], row, FALSE)
         IN  /\ TRUE \in matches(f, row) <=> yes /\ Words(text) \in SubSeqs(row.words)
             /\ FALSE \in matches(f, row) <=> no \/ Words(text) \notin SubSeqs(row.words)
<1> DEFINE f == parseFilterExpression(text)
           ones == {i \in DOMAIN text : Counts(text, i)}
           Of(x) == {i \in ones : Kind(text[i]) = x}
           fields == \A x \in Fields : Allows(row, x, f[x])
<1>1. Said(f, text, Len(text)) /\ f.text = Words(text)
  BY ParsedFilter
<1> HIDE DEF f
<1>2. ASSUME NEW x \in Fields
      PROVE  /\ Allows(row, x, f[x]) <=> \A i \in Of(x) : Holds(text[i], row, TRUE)
             /\ ~Allows(row, x, f[x]) <=> \E i \in Of(x) : Holds(text[i], row, FALSE)
  <2>1. FieldAgrees(text, f, row, x)
    BY <1>1, FieldMeans
  <2>2. \A i : i \in Of(x) <=> i \in DOMAIN text /\ Kind(text[i]) = x /\ Counts(text, i)
    OBVIOUS
  <2> HIDE DEF Of
  <2> QED
    BY <2>1, <2>2 DEF FieldAgrees
<1>3. /\ (\A k \in DOMAIN f.tags : TRUE \in TagAnswers(row, k, f.tags[k])) <=>
             \A i \in Of("tag") : Holds(text[i], row, TRUE)
      /\ (\E k \in DOMAIN f.tags : FALSE \in TagAnswers(row, k, f.tags[k])) <=>
             \E i \in Of("tag") : Holds(text[i], row, FALSE)
  BY <1>1, TagsMean
<1>4. \A i \in Of("word") : Holds(text[i], row, TRUE) /\ ~Holds(text[i], row, FALSE)
  BY TokenWord
<1>5. \A i \in ones : \E x \in Fields \cup {"word", "tag"} : i \in Of(x)
  BY KindIs
<1>6. \A x : Of(x) \subseteq ones
  OBVIOUS
<1> HIDE DEF ones, Of
<1>7. (\A i \in ones : Holds(text[i], row, TRUE)) <=>
          fields /\ \A i \in Of("tag") : Holds(text[i], row, TRUE)
  BY <1>2, <1>4, <1>5, <1>6
<1>8. (\E i \in ones : Holds(text[i], row, FALSE)) <=>
          ~fields \/ \E i \in Of("tag") : Holds(text[i], row, FALSE)
  BY <1>2, <1>4, <1>5, <1>6
<1>9. /\ TRUE \in matches(f, row) <=>
             /\ fields /\ f.text \in SubSeqs(row.words)
             /\ \A k \in DOMAIN f.tags : TRUE \in TagAnswers(row, k, f.tags[k])
      /\ FALSE \in matches(f, row) <=>
             \/ ~fields \/ f.text \notin SubSeqs(row.words)
             \/ \E k \in DOMAIN f.tags : FALSE \in TagAnswers(row, k, f.tags[k])
  BY MatchesIs
<1> HIDE DEF fields
<1> QED
  BY <1>1, <1>3, <1>7, <1>8, <1>9 DEF f, ones

----------------------------------------------------------------------------
(* The lines *)

\* One of the lines is open or none; the filter in force is the one that its
\* text says, and no token of that text was refused.
FilterInv ==
    /\ inputKind \in {"", "search", "filter"}
    /\ filterText \in Seq(Tokens)
    /\ accepted \in Seq(Tokens)
    /\ \A i \in DOMAIN accepted : ~Refused(accepted[i])
    /\ filter = parseFilterExpression(accepted)

LEMMA FrontOfText ==
  ASSUME NEW text \in Seq(Tokens), text # <<>>
  PROVE  Front(text) \in Seq(Tokens)
BY DEF Front

\* Whatever is typed, erased, cancelled and submitted in the two lines, the
\* filter in force is what parseFilterExpression makes of the text last accepted.
THEOREM FilterIsItsText == LineSpec => []FilterInv
<1>1. LineInit => FilterInv
  <2> SUFFICES ASSUME LineInit PROVE FilterInv
    OBVIOUS
  <2>1. filterText = <<>> /\ accepted = <<>> /\ filter = NoFilter /\ inputKind = ""
    BY DEF LineInit
  <2>2. <<>> \in Seq(Tokens) /\ Len(<<>>) = 0
    OBVIOUS
  <2>3. parseFilterExpression(<<>>) = NoFilter
    BY <2>2, FilterLoop
  <2>4. \A i \in DOMAIN <<>> : FALSE
    OBVIOUS
  <2> QED
    BY <2>1, <2>2, <2>3, <2>4 DEF FilterInv
<1>2. FilterInv /\ [LineNext]_lineVars => FilterInv'
  <2> SUFFICES ASSUME FilterInv, [LineNext]_lineVars PROVE FilterInv'
    OBVIOUS
  <2>1. ASSUME accepted' = accepted, filter' = filter, filterText' \in Seq(Tokens),
               inputKind' \in {inputKind, "", "search", "filter"}
        PROVE  FilterInv'
    BY <2>1 DEF FilterInv
  <2>2. filterText \in Seq(Tokens) /\ inputKind \in {"", "search", "filter"}
    BY DEF FilterInv
  <2>3. ASSUME NEW kind \in {"search", "filter"}, OpenLine(kind) PROVE FilterInv'
    BY <2>1, <2>2, <2>3 DEF OpenLine
  <2>4. ASSUME NEW t \in Tokens, Type(t) PROVE FilterInv'
    <3>1. filterText' \in {filterText, Append(filterText, t)}
      BY <2>4 DEF Type, Becomes
    <3>2. Append(filterText, t) \in Seq(Tokens)
      <4>1. \A s \in Seq(Tokens) : Append(s, t) \in Seq(Tokens)
        OBVIOUS
      <4> QED
        BY <2>2, <4>1
    <3>3. accepted' = accepted /\ filter' = filter /\ inputKind' = inputKind
      BY <2>4 DEF Type, Becomes
    <3> QED
      BY <2>1, <2>2, <3>1, <3>2, <3>3
  <2>5. CASE Backspace
    <3>1. \/ filterText' = filterText
          \/ filterText # <<>> /\ filterText' = Front(filterText)
      BY <2>5 DEF Backspace, Becomes
    <3>2. accepted' = accepted /\ filter' = filter /\ inputKind' = inputKind
      BY <2>5 DEF Backspace, Becomes
    <3> QED
      BY <2>1, <2>2, <3>1, <3>2, FrontOfText
  <2>6. CASE EscapeLine
    BY <2>1, <2>2, <2>6 DEF EscapeLine
  <2>7. CASE EnterSearchLine
    BY <2>1, <2>2, <2>7 DEF EnterSearchLine
  <2>8. CASE Submit
    <3>1. /\ \A t \in Range(filterText) : ~Refused(t)
          /\ filter' = parseFilterExpression(filterText)
          /\ accepted' = filterText /\ filterText' = filterText /\ inputKind' = ""
      BY <2>8 DEF Submit
    <3>2. \A i \in DOMAIN filterText : ~Refused(filterText[i])
      BY <3>1 DEF Range
    <3> QED
      BY <2>2, <3>1, <3>2 DEF FilterInv
  <2>9. CASE ClearFilter
    <3>1. /\ filterText' = <<>> /\ accepted' = <<>> /\ filter' = NoFilter
          /\ inputKind' = inputKind
      BY <2>9 DEF ClearFilter
    <3>2. <<>> \in Seq(Tokens) /\ Len(<<>>) = 0
      OBVIOUS
    <3>3. parseFilterExpression(<<>>) = NoFilter
      BY <3>2, FilterLoop
    <3>4. \A i \in DOMAIN <<>> : FALSE
      OBVIOUS
    <3> QED
      BY <2>2, <3>1, <3>2, <3>3, <3>4 DEF FilterInv
  <2>10. CASE UNCHANGED lineVars
    BY <2>1, <2>2, <2>10 DEF lineVars
  <2> QED
    BY <2>3, <2>4, <2>5, <2>6, <2>7, <2>8, <2>9, <2>10 DEF LineNext
<1> QED
  BY <1>1, <1>2, PTL DEF LineSpec

\* A row passes the filter in force exactly where every condition of its text
\* that no later one overrides holds, and its words are in the row.
THEOREM FilterAlwaysMeansWhatItSays == LineSpec => []FilterMeansWhatItSays
<1>1. FilterInv => FilterMeansWhatItSays
  <2> SUFFICES ASSUME FilterInv, NEW row \in Rows
               PROVE  LET ones == {i \in DOMAIN accepted : Counts(accepted, i)}
                          yes == \A i \in ones : Holds(accepted[i], row, TRUE)
                          no == \E i \in ones : Holds(accepted[i], row, FALSE)
                      IN  /\ TRUE \in matches(filter, row)
                                 <=> yes /\ Words(accepted) \in SubSeqs(row.words)
                          /\ FALSE \in matches(filter, row)
                                 <=> no \/ Words(accepted) \notin SubSeqs(row.words)
    BY DEF FilterMeansWhatItSays, Words
  <2> QED
    BY EveryFilterMeans DEF FilterInv
<1> QED
  BY <1>1, FilterIsItsText, PTL

\* One handler serves both input lines, and the keys of the one leave the text
\* of the other alone, but for the backspace in an empty filter line.
THEOREM LinesStaySeparate == LineSpec => LinesAreSeparate
<1> DEFINE Separate == /\ search' # search =>
                              \/ inputKind \in {"search", ""}
                              \/ inputKind = "filter" /\ filterText = <<>>
                       /\ filterText' # filterText => inputKind # "search"
<1>1. FilterInv /\ [LineNext]_lineVars => [Separate]_lineVars
  <2> SUFFICES ASSUME FilterInv, LineNext PROVE Separate
    OBVIOUS
  <2> inputKind \in {"", "search", "filter"}
    BY DEF FilterInv
  <2>1. ASSUME NEW kind \in {"search", "filter"}, OpenLine(kind) PROVE Separate
    BY <2>1 DEF OpenLine
  <2>2. ASSUME NEW t \in Tokens, Type(t) PROVE Separate
    BY <2>2 DEF Type, Becomes
  <2>3. CASE Backspace
    BY <2>3 DEF Backspace, Becomes
  <2>4. CASE EscapeLine
    BY <2>4 DEF EscapeLine
  <2>5. CASE EnterSearchLine
    BY <2>5 DEF EnterSearchLine
  <2>6. CASE Submit
    BY <2>6 DEF Submit
  <2>7. CASE ClearFilter
    BY <2>7 DEF ClearFilter
  <2> QED
    BY <2>1, <2>2, <2>3, <2>4, <2>5, <2>6, <2>7 DEF LineNext
<1> QED
  BY <1>1, FilterIsItsText, PTL DEF LineSpec, LinesAreSeparate

============================================================================
