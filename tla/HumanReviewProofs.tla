------------------------- MODULE HumanReviewProofs -------------------------
(***************************************************************************)
(* What a qualified file of human reviews rests on and when the file       *)
(* holds, for every set of captures, cases and records, every threshold    *)
(* and any number of lines.                                                *)
(*                                                                         *)
(* And of the other tool that works on files, the bootstrap of the custody *)
(* topology: what its evidence and its failures say, for any number of     *)
(* runs on one root.                                                       *)
(***************************************************************************)
EXTENDS HumanReviewLedger, EmptyTopologyBootstrap, FiniteSetTheorems, SequenceTheorems,
        WellFoundedInduction, TLAPS

-----------------------------------------------------------------------------
(* The loop over the lines. *)

LEMMA Induction ==
  ASSUME NEW P, 0 \in P, \A n \in Nat : n \in P => n + 1 \in P
  PROVE  \A n \in Nat : n \in P
<1> SUFFICES ASSUME NEW k \in Nat, k \notin P PROVE FALSE
  OBVIOUS
<1> DEFINE Less == {p \in Nat \X Nat : p[1] < p[2]}
           T == Nat \ P
<1>1. OpToRel(<, Nat) = Less
  BY DEF OpToRel
<1>2. IsWellFoundedOn(Less, Nat)
  BY <1>1, NatLessThanWellFounded
<1>3. T \subseteq Nat /\ T # {}
  OBVIOUS
<1> HIDE DEF Less, T
<1>4. PICK n \in T : \A m \in T : ~ (<<m, n>> \in Less)
  BY <1>2, <1>3, WFMin
<1> USE DEF Less, T
<1>5. n \in Nat /\ n # 0 /\ n - 1 \in Nat /\ n - 1 < n
  BY <1>4
<1>6. n - 1 \in P
  BY <1>4, <1>5
<1> QED
  BY <1>4, <1>5, <1>6

\* Examination is the function its recursion describes.
LEMMA ExaminationSteps ==
  ASSUME NEW S, NEW lines \in Seq(S)
  PROVE  /\ Examination(lines)[0] = Unexamined
         /\ \A k \in 1 .. Len(lines) :
              Examination(lines)[k] = Examine(Examination(lines)[k - 1], lines[k])
<1> DEFINE top == Len(lines)
           Rec(f) == [k \in 0 .. Len(lines) |->
                        IF k = 0 THEN Unexamined ELSE Examine(f[k - 1], lines[k])]
           Up(n, g) == /\ g = [k \in 0 .. n |-> g[k]]
                       /\ g[0] = Unexamined
                       /\ \A k \in 1 .. n : g[k] = Examine(g[k - 1], lines[k])
           P == {n \in Nat : \E g : Up(n, g)}
<1>1. 0 \in P
  <2> DEFINE g == [k \in 0 .. 0 |-> Unexamined]
  <2>1. Up(0, g)
    OBVIOUS
  <2> QED
    BY <2>1
<1>2. ASSUME NEW n \in Nat, n \in P PROVE n + 1 \in P
  <2>1. PICK g : Up(n, g)
    BY <1>2
  <2> DEFINE x == Examine(g[n], lines[n + 1])
  <2> HIDE DEF x
  <2> DEFINE h == [k \in 0 .. n + 1 |-> IF k = n + 1 THEN x ELSE g[k]]
  <2>2. h = [k \in 0 .. n + 1 |-> h[k]] /\ h[0] = Unexamined
    BY <2>1
  <2>3. ASSUME NEW k \in 1 .. n + 1 PROVE h[k] = Examine(h[k - 1], lines[k])
    <3>1. CASE k = n + 1
      <4>1. k - 1 = n /\ h[n] = g[n] /\ h[n + 1] = x
        BY <3>1
      <4> QED
        BY <3>1, <4>1 DEF x
    <3>2. CASE k # n + 1
      <4>1. k \in 1 .. n /\ k - 1 \in 0 .. n + 1 /\ k - 1 # n + 1
        BY <3>2
      <4>2. h[k] = g[k] /\ h[k - 1] = g[k - 1]
        BY <3>2, <4>1
      <4> HIDE DEF h
      <4> QED
        BY <2>1, <4>1, <4>2
    <3> QED
      BY <3>1, <3>2
  <2> HIDE DEF h
  <2>4. Up(n + 1, h)
    BY <2>2, <2>3
  <2>5. n + 1 \in Nat
    OBVIOUS
  <2> HIDE DEF Up
  <2> QED
    BY <2>4, <2>5
<1>3. top \in Nat
  OBVIOUS
<1> HIDE DEF P
<1>4. top \in P
  BY <1>1, <1>2, <1>3, Induction
<1> USE DEF P
<1>5. PICK g : Up(top, g)
  BY <1>4
<1>6. g = Rec(g)
  <2>1. ASSUME NEW k \in 0 .. top
        PROVE  g[k] = IF k = 0 THEN Unexamined ELSE Examine(g[k - 1], lines[k])
    <3>1. CASE k = 0
      BY <1>5, <3>1
    <3>2. CASE k # 0
      <4>1. k \in 1 .. top
        BY <1>3, <3>2
      <4> QED
        BY <1>5, <3>2, <4>1
    <3> QED
      BY <3>1, <3>2
  <2> QED
    BY <1>5, <2>1
<1>7. Examination(lines) = CHOOSE f : f = Rec(f)
  BY DEF Examination
<1> DEFINE e == Examination(lines)
<1>8. e = Rec(e)
  BY <1>6, <1>7
<1> HIDE DEF e
<1>9. \A k \in 0 .. top : e[k] = IF k = 0 THEN Unexamined ELSE Examine(e[k - 1], lines[k])
  BY <1>8
<1> QED
  BY <1>3, <1>9 DEF e

LEMMA ExaminedEmpty == Examined(<<>>) = Unexamined
<1>1. <<>> \in Seq({}) /\ Len(<<>>) = 0
  OBVIOUS
<1> QED
  BY <1>1, ExaminationSteps DEF Examined

\* One more line is one more turn of the loop.
LEMMA ExaminedAppend ==
  ASSUME NEW S, NEW lines \in Seq(S), NEW line \in S
  PROVE  Examined(Append(lines, line)) = Examine(Examined(lines), line)
<1> DEFINE more == Append(lines, line)
           top == Len(lines)
           f == Examination(lines)
           g == Examination(more)
           P == {n \in Nat : n <= top => g[n] = f[n]}
<1>1. /\ more \in Seq(S) /\ top \in Nat /\ Len(more) = top + 1 /\ more[top + 1] = line
      /\ \A k \in 1 .. top : more[k] = lines[k]
  OBVIOUS
<1>2. /\ f[0] = Unexamined
      /\ \A k \in 1 .. top : f[k] = Examine(f[k - 1], lines[k])
  BY ExaminationSteps
<1> HIDE DEF more
<1>3. /\ g[0] = Unexamined
      /\ \A k \in 1 .. top + 1 : g[k] = Examine(g[k - 1], more[k])
  BY <1>1, ExaminationSteps
<1> HIDE DEF f, g, top
<1>4. 0 \in P
  BY <1>2, <1>3
<1>5. ASSUME NEW n \in Nat, n \in P PROVE n + 1 \in P
  <2> SUFFICES ASSUME n + 1 <= top PROVE g[n + 1] = f[n + 1]
    OBVIOUS
  <2>1. n + 1 \in 1 .. top /\ n + 1 \in 1 .. top + 1 /\ n + 1 - 1 = n /\ n <= top
    BY <1>1
  <2>2. g[n] = f[n]
    BY <1>5, <2>1
  <2>3. g[n + 1] = Examine(g[n], more[n + 1]) /\ f[n + 1] = Examine(f[n], lines[n + 1])
    BY <1>2, <1>3, <2>1
  <2> QED
    BY <1>1, <2>1, <2>2, <2>3
<1> HIDE DEF P
<1>6. g[top] = f[top]
  <2>1. top \in P
    BY <1>1, <1>4, <1>5, Induction
  <2> QED
    BY <1>1, <2>1 DEF P
<1>7. g[top + 1] = Examine(g[top], line)
  <2>1. top + 1 \in 1 .. top + 1 /\ top + 1 - 1 = top
    BY <1>1
  <2> QED
    BY <1>1, <1>3, <2>1
<1>8. Examined(lines) = f[top] /\ Examined(more) = g[top + 1]
  BY <1>1 DEF Examined, f, g, top
<1> QED
  BY <1>6, <1>7, <1>8 DEF more

-----------------------------------------------------------------------------
(* What the loop knows of the lines it has read. *)

Line == [record : Inputs, previous : Seq(Inputs)]
RecordsOf(lines) == [j \in 1 .. Len(lines) |-> lines[j].record]
LinkedAt(lines, i) == lines[i].previous = [j \in 1 .. i - 1 |-> lines[j].record]

\* What the loop knows after these lines: the ids it saw, that they are a chain
\* if it says so, and that it kept every submission, in the order of the lines,
\* if it rejected nothing.
Told(lines, st) ==
  /\ st.seen = {lines[i].record.id : i \in DOMAIN lines}
  /\ st.chain => /\ \A i \in DOMAIN lines : LinkedAt(lines, i)
                 /\ st.previous = RecordsOf(lines)
  /\ st.rejected = {} =>
       /\ \A i, j \in DOMAIN lines : lines[i].record.id = lines[j].record.id => i = j
       /\ \A i \in DOMAIN lines : Admissible(lines[i].record)
  /\ st.submissions \in Seq({r \in Inputs : IsSubmission(r)})
  /\ \A n \in DOMAIN st.submissions : \E i \in DOMAIN lines : st.submissions[n] = lines[i].record
  /\ \A a \in st.adjudications : ~IsSubmission(a) /\ \E i \in DOMAIN lines : a = lines[i].record
  /\ st.rejected = {} =>
       \A i \in DOMAIN lines : IsSubmission(lines[i].record) =>
         \E n \in DOMAIN st.submissions : st.submissions[n] = lines[i].record
  /\ st.rejected = {} =>
       \A m, n \in DOMAIN st.submissions : \A i, j \in DOMAIN lines :
         /\ st.submissions[m] = lines[i].record /\ st.submissions[n] = lines[j].record
         /\ m < n
         => i < j

LEMMA ToldEmpty == Told(<<>>, Unexamined)
<1>1. RecordsOf(<<>>) = <<>>
  BY DEF RecordsOf
<1> QED
  BY <1>1 DEF Told, Unexamined, GENESIS

LEMMA Examining ==
  ASSUME NEW st, NEW line
  PROVE  LET accepted == LinkHolds(st, line) /\ line.record.id \notin st.seen
                           /\ Admissible(line.record)
             new == Examine(st, line)
         IN  /\ new.chain = (st.chain /\ LinkHolds(st, line))
             /\ new.previous = IF LinkHolds(st, line) THEN RecordDigest(line) ELSE st.previous
             /\ new.seen = st.seen \cup {line.record.id}
             /\ new.rejected = IF accepted THEN st.rejected
                               ELSE st.rejected \cup {line.record.id}
             /\ new.submissions = IF accepted /\ IsSubmission(line.record)
                                  THEN Append(st.submissions, line.record) ELSE st.submissions
             /\ new.adjudications = IF accepted /\ ~IsSubmission(line.record)
                                    THEN st.adjudications \cup {line.record}
                                    ELSE st.adjudications
BY DEF Examine

LEMMA ToldMore ==
  ASSUME NEW lines \in Seq(Line), NEW line \in Line, NEW st, Told(lines, st)
  PROVE  Told(Append(lines, line), Examine(st, line))
<1> DEFINE more == Append(lines, line)
           last == Len(lines) + 1
           new == Examine(st, line)
           r == line.record
           accepted == LinkHolds(st, line) /\ r.id \notin st.seen /\ Admissible(r)
           submitted == accepted /\ IsSubmission(r)
<1>1. /\ Len(lines) \in Nat /\ DOMAIN lines = 1 .. Len(lines)
      /\ Len(more) = last /\ DOMAIN more = 1 .. last /\ more[last] = line
      /\ \A i \in DOMAIN lines : more[i] = lines[i]
  OBVIOUS
<1>2. /\ \A i \in DOMAIN more : i \in DOMAIN lines \/ i = last
      /\ last \in DOMAIN more /\ last \notin DOMAIN lines
      /\ DOMAIN lines \subseteq DOMAIN more
  BY <1>1
<1>3. /\ new.chain = (st.chain /\ LinkHolds(st, line))
      /\ new.previous = IF LinkHolds(st, line) THEN RecordDigest(line) ELSE st.previous
      /\ new.seen = st.seen \cup {r.id}
      /\ new.rejected = IF accepted THEN st.rejected ELSE st.rejected \cup {r.id}
      /\ new.submissions = IF submitted THEN Append(st.submissions, r) ELSE st.submissions
      /\ new.adjudications = IF accepted /\ ~IsSubmission(r)
                             THEN st.adjudications \cup {r} ELSE st.adjudications
  BY Examining
<1>4. r \in Inputs
  BY DEF Line
<1> HIDE DEF more, last, new, r
<1>5. new.seen = {more[i].record.id : i \in DOMAIN more}
  BY <1>1, <1>2, <1>3 DEF Told, r
<1>6. ASSUME new.chain
      PROVE  /\ \A i \in DOMAIN more : LinkedAt(more, i)
             /\ new.previous = RecordsOf(more)
  <2>1. st.chain /\ LinkHolds(st, line)
    BY <1>3, <1>6
  <2>2. st.previous = RecordsOf(lines) /\ \A i \in DOMAIN lines : LinkedAt(lines, i)
    BY <2>1 DEF Told
  <2>3. line.previous = RecordsOf(lines)
    BY <2>1, <2>2 DEF LinkHolds
  <2>4. ASSUME NEW i \in DOMAIN more PROVE LinkedAt(more, i)
    <3>1. [j \in 1 .. i - 1 |-> more[j].record] = [j \in 1 .. i - 1 |-> lines[j].record]
      BY <1>1, <1>2
    <3>2. CASE i \in DOMAIN lines
      BY <1>1, <2>2, <3>1, <3>2 DEF LinkedAt
    <3>3. CASE i = last
      <4>1. i - 1 = Len(lines)
        BY <1>1, <3>3 DEF last
      <4> QED
        BY <1>1, <2>3, <3>1, <3>3, <4>1 DEF LinkedAt, RecordsOf
    <3> QED
      BY <1>2, <3>2, <3>3
  <2>5. RecordDigest(line) = RecordsOf(more)
    <3> DEFINE before == RecordsOf(lines)
    <3>1. before \in Seq(Inputs) /\ Len(before) = Len(lines)
      <4>1. \A j \in 1 .. Len(lines) : lines[j].record \in Inputs
        <5>1. \A j \in 1 .. Len(lines) : lines[j] \in Line
          BY ElementOfSeq
        <5> QED
          BY <5>1 DEF Line
      <4>2. before \in [1 .. Len(lines) -> Inputs]
        BY <4>1 DEF RecordsOf
      <4> HIDE DEF before
      <4>3. before \in Seq(Inputs)
        BY <1>1, <4>2, SeqDef, Zenon
      <4> QED
        BY <1>1, <4>2, <4>3, LenProperties
    <3>2. RecordDigest(line) = Append(before, r)
      BY <2>3 DEF RecordDigest, r
    <3>3. \A j \in 1 .. Len(lines) : before[j] = lines[j].record
      BY DEF RecordsOf
    <3> HIDE DEF before
    <3>4. /\ Append(before, r) \in Seq(Inputs) /\ Len(Append(before, r)) = last
          /\ \A j \in 1 .. Len(lines) : Append(before, r)[j] = before[j]
          /\ Append(before, r)[last] = r
      BY <1>4, <3>1 DEF last
    <3>5. \A j \in 1 .. last : Append(before, r)[j] = more[j].record
      BY <1>1, <1>2, <3>3, <3>4 DEF r
    <3>6. Append(before, r) = [j \in 1 .. last |-> more[j].record]
      <4>1. Append(before, r) \in [1 .. last -> Inputs]
        BY <3>4, LenProperties
      <4> QED
        BY <3>5, <4>1
    <3> QED
      BY <1>1, <3>2, <3>6 DEF RecordsOf
  <2> QED
    BY <1>3, <2>1, <2>4, <2>5
<1>7. ASSUME new.rejected = {}
      PROVE  accepted /\ st.rejected = {}
  BY <1>3, <1>7
<1>8. ASSUME new.rejected = {}
      PROVE  /\ \A i, j \in DOMAIN more : more[i].record.id = more[j].record.id => i = j
             /\ \A i \in DOMAIN more : Admissible(more[i].record)
  <2>1. \A i \in DOMAIN lines : lines[i].record.id # r.id
    BY <1>7, <1>8 DEF Told
  <2> QED
    BY <1>1, <1>2, <1>7, <1>8, <2>1 DEF Told, r
<1>9. /\ st.submissions \in Seq({x \in Inputs : IsSubmission(x)})
      /\ \A n \in DOMAIN st.submissions : \E i \in DOMAIN lines :
           st.submissions[n] = lines[i].record
  BY DEF Told
<1>10. new.submissions \in Seq({x \in Inputs : IsSubmission(x)})
  BY <1>3, <1>4, <1>9
<1>11. /\ DOMAIN st.submissions \subseteq DOMAIN new.submissions
       /\ \A n \in DOMAIN st.submissions : new.submissions[n] = st.submissions[n]
       /\ \A n \in DOMAIN new.submissions : n \in DOMAIN st.submissions \/ new.submissions[n] = r
       /\ submitted => \E n \in DOMAIN new.submissions : new.submissions[n] = r
  <2> DEFINE s == st.submissions
             longer == Append(s, r)
  <2>1. /\ DOMAIN s \subseteq DOMAIN longer /\ \A n \in DOMAIN s : longer[n] = s[n]
        /\ \A n \in DOMAIN longer : n \in DOMAIN s \/ longer[n] = r
        /\ Len(s) + 1 \in DOMAIN longer /\ longer[Len(s) + 1] = r
    BY <1>9
  <2> HIDE DEF longer, s
  <2>2. new.submissions = IF submitted THEN longer ELSE s
    BY <1>3 DEF longer, s
  <2> QED
    BY <2>1, <2>2 DEF s
<1>12. \A n \in DOMAIN new.submissions : \E i \in DOMAIN more :
         new.submissions[n] = more[i].record
  BY <1>1, <1>2, <1>9, <1>11 DEF r
<1>13. \A a \in new.adjudications : ~IsSubmission(a) /\ \E i \in DOMAIN more : a = more[i].record
  BY <1>1, <1>2, <1>3 DEF Told, r
<1>14. ASSUME new.rejected = {}, NEW i \in DOMAIN more, IsSubmission(more[i].record)
       PROVE  \E n \in DOMAIN new.submissions : new.submissions[n] = more[i].record
  <2>1. CASE i = last
    BY <1>1, <1>7, <1>11, <1>14, <2>1 DEF r
  <2>2. CASE i \in DOMAIN lines
    <3>1. PICK n \in DOMAIN st.submissions : st.submissions[n] = lines[i].record
      BY <1>1, <1>7, <1>14, <2>2 DEF Told
    <3> QED
      BY <1>1, <1>11, <2>2, <3>1
  <2> QED
    BY <1>2, <2>1, <2>2
<1>15. ASSUME new.rejected = {},
              NEW m \in DOMAIN new.submissions, NEW n \in DOMAIN new.submissions, m < n,
              NEW i \in DOMAIN more, NEW j \in DOMAIN more,
              new.submissions[m] = more[i].record, new.submissions[n] = more[j].record
       PROVE  i < j
  <2>1. \A k, l \in DOMAIN more : more[k].record = more[l].record => k = l
    BY <1>8, <1>15
  <2>2. ASSUME NEW k \in DOMAIN more, NEW q \in DOMAIN st.submissions,
               new.submissions[q] = more[k].record
        PROVE  k \in DOMAIN lines /\ st.submissions[q] = lines[k].record
    <3>1. PICK l \in DOMAIN lines : st.submissions[q] = lines[l].record
      BY <1>9
    <3>2. more[l].record = more[k].record
      BY <1>1, <1>11, <2>2, <3>1
    <3>3. l = k
      BY <1>2, <2>1, <3>2
    <3> QED
      BY <3>1, <3>3
  <2>3. m \in DOMAIN st.submissions
    <3>1. /\ DOMAIN st.submissions = 1 .. Len(st.submissions) /\ Len(st.submissions) \in Nat
          /\ DOMAIN Append(st.submissions, r) = 1 .. Len(st.submissions) + 1
      BY <1>9
    <3>2. DOMAIN new.submissions \subseteq 1 .. Len(st.submissions) + 1
      BY <1>3, <3>1
    <3> QED
      BY <1>15, <3>1, <3>2
  <2>4. i \in DOMAIN lines /\ st.submissions[m] = lines[i].record
    BY <1>15, <2>2, <2>3
  <2>5. CASE n \in DOMAIN st.submissions
    <3>1. j \in DOMAIN lines /\ st.submissions[n] = lines[j].record
      BY <1>15, <2>2, <2>5
    <3> QED
      BY <1>7, <1>15, <2>3, <2>4, <2>5, <3>1 DEF Told
  <2>6. CASE new.submissions[n] = r
    <3>1. j = last
      BY <1>1, <1>2, <1>15, <2>1, <2>6 DEF r
    <3> QED
      BY <1>1, <2>4, <3>1 DEF last
  <2> QED
    BY <1>11, <2>5, <2>6
<1>16. Told(more, new)
  <2>1. new.rejected = {} =>
          \A m, n \in DOMAIN new.submissions : \A i, j \in DOMAIN more :
            /\ new.submissions[m] = more[i].record /\ new.submissions[n] = more[j].record
            /\ m < n
            => i < j
    BY <1>15
  <2> QED
    BY <1>5, <1>6, <1>8, <1>10, <1>12, <1>13, <1>14, <2>1 DEF Told
<1> QED
  BY <1>16 DEF more, new

-----------------------------------------------------------------------------
(* The inductive invariant. *)

\* Captures that never overlapped: at most one is running, it has read the
\* whole file, and the file holds.
Alone ==
  ~raced =>
    /\ \A p, q \in Captures : capture[p] # Idle /\ capture[q] # Idle => p = q
    /\ \A p \in Captures : capture[p] # Idle => capture[p].read = Len(ledger)
    /\ Examined(ledger).chain
    /\ Examined(ledger).rejected = {}
IInv == /\ TypeOK
        /\ Told(ledger, Examined(ledger))
        /\ Alone

LEMMA InitInvariant == Init => IInv
<1> SUFFICES ASSUME Init PROVE IInv
  OBVIOUS
<1>1. ledger = <<>> /\ capture = [p \in Captures |-> Idle] /\ torn = FALSE /\ raced = FALSE
  BY DEF Init
<1>2. TypeOK
  <2>1. Idle \in [read : Nat, record : Inputs \cup {Idle.record}]
    BY DEF Idle
  <2>2. capture \in [Captures -> [read : Nat, record : Inputs \cup {Idle.record}]]
    BY <1>1, <2>1
  <2>3. \A p \in Captures : capture[p] = Idle
    BY <1>1
  <2>4. ledger \in Seq([record : Inputs, previous : Seq(Inputs)])
    BY <1>1
  <2> QED
    BY <1>1, <2>2, <2>3, <2>4 DEF TypeOK
<1>3. Examined(ledger) = Unexamined
  BY <1>1, ExaminedEmpty
<1>4. Alone
  BY <1>1, <1>3 DEF Alone, Unexamined
<1> QED
  BY <1>1, <1>2, <1>3, <1>4, ToldEmpty DEF IInv

LEMMA BeginStep ==
  ASSUME IInv, NEW p \in Captures, NEW r \in Inputs, BeginCapture(p, r)
  PROVE  IInv'
<1> DEFINE c == [read |-> Len(ledger), record |-> r]
<1>1. /\ capture[p] = Idle /\ capture' = [capture EXCEPT ![p] = c]
      /\ raced' = (raced \/ \E q \in Captures : capture[q] # Idle)
      /\ ledger' = ledger /\ torn' = torn
  BY DEF BeginCapture
<1>2. /\ ledger \in Seq(Line) /\ Len(ledger) \in Nat /\ torn \in BOOLEAN /\ raced \in BOOLEAN
      /\ capture \in [Captures -> [read : Nat, record : Inputs \cup {Idle.record}]]
      /\ \A q \in Captures : capture[q] # Idle => /\ capture[q].record \in Inputs
                                                  /\ capture[q].read \in 0 .. Len(ledger)
  BY DEF IInv, TypeOK, Line
<1>3. /\ c \in [read : Nat, record : Inputs \cup {Idle.record}]
      /\ c.read = Len(ledger) /\ c.record = r
  BY <1>2
<1> HIDE DEF c
<1>4. capture'[p] = c /\ \A q \in Captures : q # p => capture'[q] = capture[q]
  BY <1>1, <1>2
<1>5. TypeOK'
  <2>1. capture' \in [Captures -> [read : Nat, record : Inputs \cup {Idle.record}]]
    BY <1>1, <1>2, <1>3
  <2>2. \A q \in Captures : capture'[q] # Idle => /\ capture'[q].record \in Inputs
                                                  /\ capture'[q].read \in 0 .. Len(ledger)
    BY <1>2, <1>3, <1>4
  <2>3. torn' \in BOOLEAN /\ raced' \in BOOLEAN
    BY <1>1, <1>2
  <2> QED
    BY <1>1, <1>2, <2>1, <2>2, <2>3 DEF TypeOK, Line
<1>6. Alone'
  BY <1>1, <1>3, <1>4 DEF IInv, Alone
<1> QED
  BY <1>1, <1>5, <1>6 DEF IInv

LEMMA FinishStep ==
  ASSUME IInv, NEW p \in Captures, FinishCapture(p)
  PROVE  IInv'
<1> DEFINE c == capture[p]
           read == SubSeq(ledger, 1, c.read)
           line == Seal(c.record, read)
           written == /\ Admits(Examined(Append(read, line)), c.record)
                      /\ ~torn
<1>1. /\ c # Idle /\ ledger' = IF written THEN Append(ledger, line) ELSE ledger
      /\ capture' = [capture EXCEPT ![p] = Idle] /\ torn' = torn /\ raced' = raced
  BY DEF FinishCapture
<1>2. /\ ledger \in Seq(Line) /\ Len(ledger) \in Nat /\ torn \in BOOLEAN /\ raced \in BOOLEAN
      /\ capture \in [Captures -> [read : Nat, record : Inputs \cup {Idle.record}]]
      /\ \A q \in Captures : capture[q] # Idle => /\ capture[q].record \in Inputs
                                                  /\ capture[q].read \in 0 .. Len(ledger)
  BY DEF IInv, TypeOK, Line
<1>3. c.record \in Inputs /\ c.read \in 0 .. Len(ledger)
  BY <1>1, <1>2
<1>4. read \in Seq(Line)
  <2>1. \A i \in 1 .. c.read : ledger[i] \in Line
    BY <1>2, <1>3
  <2> HIDE DEF c
  <2> QED
    BY <1>3, <2>1, SubSeqProperties
<1>5. line \in Line
  <2>1. read # <<>> => Last(read) \in Line
    BY <1>4 DEF Last
  <2> HIDE DEF read, c
  <2>2. read # <<>> => RecordDigest(Last(read)) \in Seq(Inputs)
    BY <2>1 DEF RecordDigest, Line
  <2>3. GENESIS \in Seq(Inputs)
    BY DEF GENESIS
  <2> QED
    BY <1>3, <2>2, <2>3 DEF Seal, Line
<1>6. capture'[p] = Idle /\ \A q \in Captures : q # p => capture'[q] = capture[q]
  BY <1>1, <1>2
<1>7. ~raced => read = ledger
  <2>1. ~raced => c.read = Len(ledger)
    BY <1>1 DEF IInv, Alone
  <2> QED
    BY <1>2, <2>1, SubSeqFull
<1> DEFINE longer == Append(ledger, line)
<1>8. /\ longer \in Seq(Line) /\ Len(longer) = Len(ledger) + 1
      /\ Examined(longer) = Examine(Examined(ledger), line)
      /\ Told(longer, Examined(longer))
  <2> HIDE DEF line
  <2>1. longer \in Seq(Line) /\ Len(longer) = Len(ledger) + 1
    BY <1>2, <1>5
  <2>2. Examined(longer) = Examine(Examined(ledger), line)
    BY <1>2, <1>5, ExaminedAppend
  <2>3. Told(longer, Examine(Examined(ledger), line))
    BY <1>2, <1>5, ToldMore DEF IInv
  <2> QED
    BY <2>1, <2>2, <2>3
<1>9. ~raced /\ written => Examined(longer).chain /\ Examined(longer).rejected = {}
  <2> SUFFICES ASSUME ~raced, written
               PROVE  Examined(longer).chain /\ Examined(longer).rejected = {}
    OBVIOUS
  <2>1. Examined(longer).chain /\ c.record.id \notin Examined(longer).rejected
    BY <1>7 DEF Admits
  <2>2. Examined(ledger).rejected = {}
    BY DEF IInv, Alone
  <2>3. line.record = c.record
    BY DEF Seal
  <2> HIDE DEF line, longer, c
  <2>4. Examine(Examined(ledger), line).rejected
          \in {Examined(ledger).rejected, Examined(ledger).rejected \cup {line.record.id}}
    BY Examining
  <2> QED
    BY <1>8, <2>1, <2>2, <2>3, <2>4
<1>10. \/ ledger' = longer /\ written
       \/ ledger' = ledger
  BY <1>1
<1>11. /\ ledger' \in Seq(Line) /\ Len(ledger') \in Nat /\ Len(ledger) <= Len(ledger')
       /\ Told(ledger', Examined(ledger'))
  <2>1. Told(ledger, Examined(ledger))
    BY DEF IInv
  <2> HIDE DEF longer, written
  <2> QED
    BY <1>2, <1>8, <1>10, <2>1
<1>12. TypeOK'
  <2>1. capture' \in [Captures -> [read : Nat, record : Inputs \cup {Idle.record}]]
    <3>1. Idle \in [read : Nat, record : Inputs \cup {Idle.record}]
      BY DEF Idle
    <3> QED
      BY <1>1, <1>2, <3>1
  <2>2. \A q \in Captures : capture'[q] # Idle => /\ capture'[q].record \in Inputs
                                                  /\ capture'[q].read \in 0 .. Len(ledger')
    BY <1>2, <1>6, <1>11
  <2> QED
    BY <1>1, <1>2, <1>11, <2>1, <2>2 DEF TypeOK, Line
<1>13. Alone'
  <2> SUFFICES ASSUME ~raced
               PROVE  /\ \A q, s \in Captures : capture'[q] # Idle /\ capture'[s] # Idle => q = s
                      /\ \A q \in Captures : capture'[q] # Idle => capture'[q].read = Len(ledger')
                      /\ Examined(ledger').chain
                      /\ Examined(ledger').rejected = {}
    BY <1>1 DEF Alone
  <2>1. \A q \in Captures : capture'[q] = Idle
    BY <1>1, <1>6 DEF IInv, Alone
  <2>2. Examined(ledger).chain /\ Examined(ledger).rejected = {}
    BY DEF IInv, Alone
  <2> HIDE DEF longer, written
  <2>3. Examined(ledger').chain /\ Examined(ledger').rejected = {}
    BY <1>9, <1>10, <2>2
  <2> QED
    BY <2>1, <2>3
<1> QED
  BY <1>11, <1>12, <1>13 DEF IInv

LEMMA CrashStep ==
  ASSUME IInv, NEW p \in Captures, Crash(p)
  PROVE  IInv'
<1>1. /\ capture' = [capture EXCEPT ![p] = Idle] /\ torn' \in {torn, TRUE}
      /\ ledger' = ledger /\ raced' = raced
  BY DEF Crash
<1>2. capture \in [Captures -> [read : Nat, record : Inputs \cup {Idle.record}]]
  BY DEF IInv, TypeOK
<1>3. capture'[p] = Idle /\ \A q \in Captures : q # p => capture'[q] = capture[q]
  BY <1>1, <1>2
<1>4. TypeOK'
  <2>1. Idle \in [read : Nat, record : Inputs \cup {Idle.record}]
    BY DEF Idle
  <2>2. capture' \in [Captures -> [read : Nat, record : Inputs \cup {Idle.record}]]
    BY <1>1, <1>2, <2>1
  <2> QED
    BY <1>1, <1>3, <2>2 DEF IInv, TypeOK
<1>5. Alone'
  BY <1>1, <1>3 DEF IInv, Alone
<1> QED
  BY <1>1, <1>4, <1>5 DEF IInv

LEMMA StepInvariant == IInv /\ [Next]_vars => IInv'
<1> SUFFICES ASSUME IInv, [Next]_vars PROVE IInv'
  OBVIOUS
<1>1. CASE UNCHANGED vars
  BY <1>1 DEF vars, IInv, TypeOK, Alone
<1>2. CASE Next
  BY <1>2, BeginStep, FinishStep, CrashStep DEF Next
<1> QED
  BY <1>1, <1>2

\* What is known of the file, and what holds of it while captures do not race.
THEOREM Invariance == Spec => []IInv
BY InitInvariant, StepInvariant, PTL DEF Spec

\* Lines and captures keep their shapes.
THEOREM TypeCorrect == Spec => []TypeOK
<1>1. IInv => TypeOK
  BY DEF IInv
<1> QED
  BY <1>1, Invariance, PTL

\* Captures made one at a time keep the chain whole, wherever they crash.
THEOREM ChainSafe == Spec => []OneAtATimeKeepsTheChain
<1>1. IInv => OneAtATimeKeepsTheChain
  BY DEF IInv, Alone, OneAtATimeKeepsTheChain
<1> QED
  BY <1>1, Invariance, PTL

-----------------------------------------------------------------------------
(* A qualified file. *)

\* As many reviewers as submissions: no reviewer submitted twice.
LEMMA OneEach ==
  ASSUME NEW S, NEW subs \in Seq(S),
         Len(subs) = Cardinality({s.reviewer : s \in Range(subs)})
  PROVE  \A m, n \in DOMAIN subs : subs[m].reviewer = subs[n].reviewer => m = n
<1> DEFINE places == 1 .. Len(subs)
           R == {s.reviewer : s \in Range(subs)}
           f == [n \in places |-> subs[n].reviewer]
<1>1. DOMAIN subs = places /\ Len(subs) \in Nat
  OBVIOUS
<1>2. IsFiniteSet(places) /\ Cardinality(places) = Len(subs)
  BY <1>1, FS_Interval
<1>3. f \in Surjection(places, R)
  BY <1>1 DEF Surjection, Range
<1> HIDE DEF R, places
<1>4. f \in Injection(places, R)
  <2>1. Cardinality(R) = Cardinality(places)
    BY <1>2 DEF R
  <2> HIDE DEF f
  <2> QED
    BY <1>2, <1>3, <2>1, FS_Surjection
<1>5. \A m, n \in places : subs[m].reviewer = subs[n].reviewer => m = n
  BY <1>4 DEF Injection, IsInjective
<1> QED
  BY <1>1, <1>5

\* What a file that qualifies holds, in the words of the loop.
LEMMA QualifyingFile ==
  ASSUME IInv, Qualified
  PROVE  LET st == Examined(ledger)
             subs == st.submissions
         IN  /\ \A i \in DOMAIN ledger : LinkedAt(ledger, i)
             /\ \A i, j \in DOMAIN ledger : ledger[i].record.id = ledger[j].record.id => i = j
             /\ \A i \in DOMAIN ledger : Admissible(ledger[i].record)
             /\ subs \in Seq({r \in Inputs : IsSubmission(r)})
             /\ Range(subs) = Submissions
             /\ \A m, n \in DOMAIN subs : subs[m].reviewer = subs[n].reviewer => m = n
             /\ Len(subs) >= MinimumReviewers
             /\ Cardinality({s.reviewer : s \in Submissions}) >= MinimumReviewers
<1> DEFINE st == Examined(ledger)
           subs == st.submissions
<1>1. Told(ledger, st) /\ ledger \in Seq(Line)
  BY DEF IInv, TypeOK, Line
<1>2. Qualifies(st)
  BY DEF Qualified
<1> HIDE DEF st
<1>3. st.chain /\ st.rejected = {} /\ Independent(st)
  BY <1>2 DEF Qualifies
<1>4. /\ \A i \in DOMAIN ledger : LinkedAt(ledger, i)
      /\ \A i, j \in DOMAIN ledger : ledger[i].record.id = ledger[j].record.id => i = j
      /\ \A i \in DOMAIN ledger : Admissible(ledger[i].record)
      /\ subs \in Seq({r \in Inputs : IsSubmission(r)})
      /\ \A n \in DOMAIN subs : \E i \in DOMAIN ledger : subs[n] = ledger[i].record
      /\ \A i \in DOMAIN ledger : IsSubmission(ledger[i].record) =>
           \E n \in DOMAIN subs : subs[n] = ledger[i].record
  BY <1>1, <1>3 DEF Told
<1> HIDE DEF subs
<1>5. Range(subs) = Submissions
  <2>1. \A n \in DOMAIN subs : IsSubmission(subs[n])
    BY <1>4
  <2> QED
    BY <1>4, <2>1 DEF Range, Submissions, SubmissionLines
<1>6. /\ Cardinality({s.reviewer : s \in Range(subs)}) >= MinimumReviewers
      /\ Len(subs) = Cardinality({s.reviewer : s \in Range(subs)})
  BY <1>3 DEF Independent, ReviewerIds, subs
<1>7. \A m, n \in DOMAIN subs : subs[m].reviewer = subs[n].reviewer => m = n
  BY <1>4, <1>6, OneEach
<1> QED
  BY <1>4, <1>5, <1>6, <1>7 DEF subs, st

\* The first two submission lines are the first two submissions of the loop.
LEMMA FirstTwoSubmissions ==
  ASSUME IInv, Qualified, NEW i \in SubmissionLines, NEW j \in SubmissionLines,
         FirstTwo(i, j)
  PROVE  LET subs == Examined(ledger).submissions
         IN  /\ {1, 2} \subseteq DOMAIN subs
             /\ subs[1] = ledger[i].record /\ subs[2] = ledger[j].record
<1> DEFINE st == Examined(ledger)
           subs == st.submissions
<1>1. /\ \A k, l \in DOMAIN ledger : ledger[k].record.id = ledger[l].record.id => k = l
      /\ subs \in Seq({r \in Inputs : IsSubmission(r)})
      /\ Range(subs) = Submissions
  BY QualifyingFile
<1>2. st.rejected = {} /\ Told(ledger, st)
  BY DEF IInv, Qualified, Qualifies
<1> HIDE DEF st
<1>3. \A m, n \in DOMAIN subs : \A k, l \in DOMAIN ledger :
        subs[m] = ledger[k].record /\ subs[n] = ledger[l].record /\ m < n => k < l
  BY <1>2 DEF Told
<1>4. /\ DOMAIN subs = 1 .. Len(subs) /\ Len(subs) \in Nat
      /\ \A n \in DOMAIN subs : IsSubmission(subs[n])
  BY <1>1
<1>5. /\ \A k \in SubmissionLines : \E n \in DOMAIN subs : subs[n] = ledger[k].record
      /\ \A n \in DOMAIN subs : \E k \in SubmissionLines : subs[n] = ledger[k].record
  BY <1>1 DEF Range, Submissions
<1>6. SubmissionLines \subseteq DOMAIN ledger /\ SubmissionLines \subseteq Nat
  BY DEF SubmissionLines, IInv, TypeOK
<1>7. /\ i < j /\ i \in DOMAIN ledger /\ j \in DOMAIN ledger
      /\ \A k \in SubmissionLines : k <= j => k = i \/ k = j
  BY <1>6 DEF FirstTwo
<1>8. PICK m \in DOMAIN subs : subs[m] = ledger[i].record
  BY <1>5
<1>9. PICK n \in DOMAIN subs : subs[n] = ledger[j].record
  BY <1>5
<1> HIDE DEF subs
<1>10. m \in Nat /\ n \in Nat /\ m >= 1 /\ n >= 1
  BY <1>4
<1>11. m < n
  <2>1. m # n
    BY <1>1, <1>6, <1>7, <1>8, <1>9
  <2>2. ~ (n < m)
    <3>1. n < m => j < i
      BY <1>3, <1>7, <1>8, <1>9
    <3> QED
      BY <1>6, <1>7, <3>1
  <2> QED
    BY <1>10, <2>1, <2>2
<1>12. m = 1
  <2> SUFFICES ASSUME 1 < m PROVE FALSE
    BY <1>10
  <2>1. 1 \in DOMAIN subs
    BY <1>4
  <2>2. PICK k \in SubmissionLines : subs[1] = ledger[k].record
    BY <1>5, <2>1
  <2>3. k < i
    BY <1>3, <1>6, <1>7, <1>8, <2>1, <2>2
  <2>4. k <= j /\ k # i /\ k # j
    BY <1>6, <1>7, <2>3
  <2> QED
    BY <1>7, <2>4
<1>13. n = 2
  <2> SUFFICES ASSUME 2 < n PROVE FALSE
    BY <1>10, <1>11, <1>12
  <2>1. 2 \in DOMAIN subs
    BY <1>4
  <2>2. PICK k \in SubmissionLines : subs[2] = ledger[k].record
    BY <1>5, <2>1
  <2>3. k < j
    BY <1>3, <1>6, <1>7, <1>9, <2>1, <2>2
  <2>4. i < k
    <3>1. m < 2
      BY <1>12
    <3> QED
      BY <1>3, <1>6, <1>7, <1>8, <2>1, <2>2, <3>1
  <2>5. k <= j /\ k # i /\ k # j
    BY <1>6, <1>7, <2>3, <2>4
  <2> QED
    BY <1>7, <2>5
<1>14. {1, 2} \subseteq DOMAIN subs /\ subs[1] = ledger[i].record /\ subs[2] = ledger[j].record
  BY <1>8, <1>9, <1>12, <1>13
<1> QED
  BY <1>14 DEF subs, st

\* A file that qualifies did not fork, rests on enough reviewers who each
\* worked once, ran no session and let the model authorize nothing, and an
\* outsider settled, as the key does, what the first two of them differ in.
THEOREM QualifiedSafe == Spec => []QualifiedIsIndependent
<1>1. ASSUME IInv PROVE QualifiedIsIndependent
  <2> SUFFICES ASSUME Qualified
               PROVE  /\ \A i \in DOMAIN ledger : Linked(i)
                      /\ \A i, j \in DOMAIN ledger :
                           ledger[i].record.id = ledger[j].record.id => i = j
                      /\ Cardinality({s.reviewer : s \in Submissions}) >= MinimumReviewers
                      /\ \A s, t \in Submissions : /\ s.reviewer # t.operator
                                                   /\ s.reviewer = t.reviewer => s = t
                      /\ \A s \in Submissions : \A c \in SampledCases :
                           s.responses[c].authorityBoundary # "model_may_authorize_settlement"
                      /\ \A i, j \in SubmissionLines : \A c \in SampledCases :
                           /\ FirstTwo(i, j)
                           /\ AnswerSignature(ledger[i].record.responses[c])
                                # AnswerSignature(ledger[j].record.responses[c])
                           => SettledByOutsider(c, ledger[i].record, ledger[j].record)
    BY DEF QualifiedIsIndependent
  <2> DEFINE st == Examined(ledger)
             subs == st.submissions
  <2>1. /\ \A i \in DOMAIN ledger : Linked(i)
        /\ \A i, j \in DOMAIN ledger : ledger[i].record.id = ledger[j].record.id => i = j
        /\ \A i \in DOMAIN ledger : Admissible(ledger[i].record)
        /\ subs \in Seq({r \in Inputs : IsSubmission(r)})
        /\ Range(subs) = Submissions
        /\ \A m, n \in DOMAIN subs : subs[m].reviewer = subs[n].reviewer => m = n
        /\ Len(subs) >= MinimumReviewers
        /\ Cardinality({s.reviewer : s \in Submissions}) >= MinimumReviewers
    BY <1>1, QualifyingFile DEF LinkedAt, Linked
  <2>2. Told(ledger, st)
    BY <1>1 DEF IInv
  <2>3. Qualifies(st)
    BY DEF Qualified
  <2>4. ASSUME NEW i \in SubmissionLines, NEW j \in SubmissionLines, FirstTwo(i, j)
        PROVE  subs[1] = ledger[i].record /\ subs[2] = ledger[j].record
    BY <1>1, <2>4, FirstTwoSubmissions
  <2> HIDE DEF st
  <2>5. /\ ReviewerIds(st) = {s.reviewer : s \in Submissions}
        /\ OperatorIds(st) = {s.operator : s \in Submissions}
        /\ ReviewerIds(st) \cap OperatorIds(st) = {}
    BY <2>1, <2>3 DEF ReviewerIds, OperatorIds, Qualifies, Independent
  <2>6. \A s \in Submissions : \E n \in DOMAIN subs : subs[n] = s
    BY <2>1 DEF Range
  <2>7. ASSUME NEW s \in Submissions, NEW t \in Submissions
        PROVE  s.reviewer # t.operator /\ (s.reviewer = t.reviewer => s = t)
    <3>1. PICK m \in DOMAIN subs : subs[m] = s
      BY <2>6
    <3>2. PICK n \in DOMAIN subs : subs[n] = t
      BY <2>6
    <3>3. s.reviewer = t.reviewer => s = t
      <4>1. subs[m].reviewer = subs[n].reviewer => m = n
        BY <2>1
      <4> QED
        BY ONLY <3>1, <3>2, <4>1
    <3>4. s.reviewer \in ReviewerIds(st) /\ t.operator \in OperatorIds(st)
      <4>1. s.reviewer \in {u.reviewer : u \in Submissions}
        OBVIOUS
      <4>2. t.operator \in {u.operator : u \in Submissions}
        OBVIOUS
      <4> QED
        BY <2>5, <4>1, <4>2
    <3>5. s.reviewer # t.operator
      BY ONLY <2>5, <3>4
    <3> QED
      BY <3>3, <3>5
  <2>8. ASSUME NEW s \in Submissions, NEW c \in SampledCases
        PROVE  s.responses[c].authorityBoundary # "model_may_authorize_settlement"
    <3>1. PICK n \in DOMAIN subs : subs[n] = s
      BY <2>6
    <3>2. <<n, c>> \in Scored(st)
      BY <3>1 DEF Scored
    <3>3. ScoresOf(st, <<n, c>>).authoritySafety
      BY <2>3, <3>2 DEF Qualifies
    <3>4. ScoresOf(st, <<n, c>>) = Scores(s.responses[c], Expected[c])
      BY <3>1 DEF ScoresOf
    <3>5. Scores(s.responses[c], Expected[c]).authoritySafety
            = (s.responses[c].authorityBoundary = "advisory_only_no_funds_authority")
      BY Zenon DEF Scores
    <3>6. s.responses[c].authorityBoundary = "advisory_only_no_funds_authority"
      BY <3>3, <3>4, <3>5, Zenon
    <3> QED
      BY ONLY <3>6
  <2>9. ASSUME NEW i \in SubmissionLines, NEW j \in SubmissionLines, NEW c \in SampledCases,
               FirstTwo(i, j),
               AnswerSignature(ledger[i].record.responses[c])
                 # AnswerSignature(ledger[j].record.responses[c])
        PROVE  SettledByOutsider(c, ledger[i].record, ledger[j].record)
    <3>1. subs[1] = ledger[i].record /\ subs[2] = ledger[j].record
      BY <2>4, <2>9
    <3>2. c \in Disagreed(st)
      BY <2>1, <2>9, <3>1 DEF Disagreed, Signature
    <3>3. PICK a \in st.adjudications :
            /\ a.case = c
            /\ {subs[1].id, subs[2].id} \subseteq a.submissions
            /\ a.adjudicator \notin ReviewerIds(st) \cup OperatorIds(st)
      BY <2>3, <3>2 DEF Qualifies, Adjudicated
    <3>4. PICK k \in DOMAIN ledger : a = ledger[k].record /\ ~IsSubmission(a)
      BY <2>2, <3>3 DEF Told
    <3>5. AnswerSignature(a.resolution) = Expected[c]
      BY <2>1, <3>3, <3>4 DEF Admissible
    <3>6. ledger[k] \in Range(ledger)
      BY DEF Range
    <3>7. \A u \in Submissions : a.adjudicator \notin {u.reviewer, u.operator}
      BY <2>5, <3>3
    <3> QED
      BY <3>1, <3>3, <3>4, <3>5, <3>6, <3>7 DEF SettledByOutsider
  <2> QED
    BY <2>1, <2>7, <2>8, <2>9
<1> QED
  BY <1>1, Invariance, PTL

-----------------------------------------------------------------------------
(* The rehearsal of the custody topology.  Its program first: which call is  *)
(* made at which of its thirty-eight places.                                 *)

Files == Range(Written)
Calls ==
  [op : {"root", "layout", "write", "target", "restore", "verify", "drop", "remove",
         "check", "evidence"},
   file : Files \cup Range(Archive) \cup {None}]

\* What is written and what is archived of it, file by file.
LEMMA FilesInOrder ==
  /\ Written \in [1 .. 11 -> Files] /\ Len(Written) = 11 /\ DOMAIN Written = 1 .. 11
  /\ \A i \in 1 .. 8 : Written[i] = Template(BOOTSTRAP_STORAGE_CLASSES[i])
  /\ Written[9] = LedgerFile /\ Written[10] = IncidentFile /\ Written[11] = BackupFile
  /\ Archive \in [1 .. 9 -> Range(Archive)] /\ Len(Archive) = 9 /\ DOMAIN Archive = 1 .. 9
  /\ \A i \in 1 .. 7 : Archive[i] = Template(SOURCE_CLASSES[i])
  /\ Archive[8] = LedgerFile /\ Archive[9] = IncidentFile
  /\ Written \in Seq(Files \cup Range(Archive)) /\ Archive \in Seq(Files \cup Range(Archive))
<1> DEFINE C == {"IDMAP", "RAW", "LEDGER", "CAL", "PRES", "KEYS", "BACKUP", "INC"}
           S == {Template(c) : c \in C} \cup {LedgerFile, IncidentFile, BackupFile}
           B == Templates(BOOTSTRAP_STORAGE_CLASSES)
           A == Templates(SOURCE_CLASSES)
           L == <<LedgerFile, IncidentFile, BackupFile>>
           M == <<LedgerFile, IncidentFile>>
<1>1. /\ B \in Seq(S) /\ Len(B) = 8 /\ A \in Seq(S) /\ Len(A) = 7
      /\ \A i \in 1 .. 8 : B[i] = Template(BOOTSTRAP_STORAGE_CLASSES[i])
      /\ \A i \in 1 .. 7 : A[i] = Template(SOURCE_CLASSES[i])
  <2>1. \A c \in C : Template(c) \in S
    OBVIOUS
  <2>2. /\ "IDMAP" \in C /\ "RAW" \in C /\ "LEDGER" \in C /\ "CAL" \in C
        /\ "PRES" \in C /\ "KEYS" \in C /\ "BACKUP" \in C /\ "INC" \in C
    OBVIOUS
  <2> HIDE DEF C, S
  <2>3. /\ BOOTSTRAP_STORAGE_CLASSES \in Seq(C) /\ Len(BOOTSTRAP_STORAGE_CLASSES) = 8
        /\ SOURCE_CLASSES \in Seq(C) /\ Len(SOURCE_CLASSES) = 7
    BY <2>2 DEF BOOTSTRAP_STORAGE_CLASSES, SOURCE_CLASSES
  <2>4. ASSUME NEW s \in Seq(C)
        PROVE  /\ Templates(s) \in Seq(S) /\ Len(Templates(s)) = Len(s)
               /\ \A i \in 1 .. Len(s) : Templates(s)[i] = Template(s[i])
    <3>1. \A i \in 1 .. Len(s) : Template(s[i]) \in S
      BY <2>1, <2>4
    <3>2. Templates(s) = [i \in 1 .. Len(s) |-> Template(s[i])]
      BY <2>4 DEF Templates
    <3> QED
      BY <2>4, <3>1, <3>2, IsASeq, LenProperties
  <2>5. /\ B \in Seq(S) /\ Len(B) = Len(BOOTSTRAP_STORAGE_CLASSES)
        /\ \A i \in 1 .. Len(BOOTSTRAP_STORAGE_CLASSES) : B[i] = Template(BOOTSTRAP_STORAGE_CLASSES[i])
    BY <2>3, <2>4
  <2>6. /\ A \in Seq(S) /\ Len(A) = Len(SOURCE_CLASSES)
        /\ \A i \in 1 .. Len(SOURCE_CLASSES) : A[i] = Template(SOURCE_CLASSES[i])
    BY <2>3, <2>4
  <2> QED
    BY <2>3, <2>5, <2>6
<1>2. LedgerFile \in S /\ IncidentFile \in S /\ BackupFile \in S
  OBVIOUS
<1> HIDE DEF C, S
<1>3. /\ L \in Seq(S) /\ Len(L) = 3 /\ L[1] = LedgerFile /\ L[2] = IncidentFile /\ L[3] = BackupFile
      /\ M \in Seq(S) /\ Len(M) = 2 /\ M[1] = LedgerFile /\ M[2] = IncidentFile
  BY <1>2
<1> HIDE DEF B, A, L, M
<1>4. /\ Written \in Seq(S) /\ Len(Written) = 11
      /\ \A i \in 1 .. 11 : Written[i] = IF i <= 8 THEN B[i] ELSE L[i - 8]
  <2>1. Written = B \o L
    BY DEF Written, B, L
  <2>2. B \in Seq(S) /\ L \in Seq(S)
    BY <1>1, <1>3
  <2>3. /\ Written \in Seq(S) /\ Len(Written) = Len(B) + Len(L)
        /\ \A i \in 1 .. Len(B) + Len(L) : Written[i] = IF i <= Len(B) THEN B[i] ELSE L[i - Len(B)]
    BY ONLY <2>1, <2>2, ConcatProperties
  <2>4. Len(B) = 8 /\ Len(L) = 3
    BY <1>1, <1>3
  <2> QED
    BY ONLY <2>3, <2>4
<1>5. /\ Archive \in Seq(S) /\ Len(Archive) = 9
      /\ \A i \in 1 .. 9 : Archive[i] = IF i <= 7 THEN A[i] ELSE M[i - 7]
  <2>1. Archive = A \o M
    BY DEF Archive, A, M
  <2>2. A \in Seq(S) /\ M \in Seq(S)
    BY <1>1, <1>3
  <2>3. /\ Archive \in Seq(S) /\ Len(Archive) = Len(A) + Len(M)
        /\ \A i \in 1 .. Len(A) + Len(M) : Archive[i] = IF i <= Len(A) THEN A[i] ELSE M[i - Len(A)]
    BY ONLY <2>1, <2>2, ConcatProperties
  <2>4. Len(A) = 7 /\ Len(M) = 2
    BY <1>1, <1>3
  <2> QED
    BY ONLY <2>3, <2>4
<1>6. /\ DOMAIN Written = 1 .. 11 /\ Written \in [1 .. 11 -> Files]
      /\ DOMAIN Archive = 1 .. 9 /\ Archive \in [1 .. 9 -> Range(Archive)]
  <2>1. /\ DOMAIN Written = 1 .. 11 /\ Written = [i \in DOMAIN Written |-> Written[i]]
        /\ DOMAIN Archive = 1 .. 9 /\ Archive = [i \in DOMAIN Archive |-> Archive[i]]
    BY <1>4, <1>5, LenProperties
  <2> QED
    BY <2>1 DEF Range, Files
<1>7. Written \in Seq(Files \cup Range(Archive)) /\ Archive \in Seq(Files \cup Range(Archive))
  <2> DEFINE F == Files \cup Range(Archive)
  <2>1. Written \in Seq(Range(Written)) /\ Archive \in Seq(Range(Archive))
    BY <1>4, <1>5, SeqOfRange
  <2>2. Range(Written) \subseteq F /\ Range(Archive) \subseteq F
    BY DEF Files
  <2> HIDE DEF F
  <2> QED
    BY ONLY <2>1, <2>2, SeqMonotonic DEF F
<1> QED
  BY <1>1, <1>3, <1>4, <1>5, <1>6, <1>7

\* A call for each of the files, under one name.
LEMMA EachCalls ==
  ASSUME NEW op \in {"write", "restore", "remove"}, NEW files \in Seq(Files \cup Range(Archive))
  PROVE  /\ Each(op, files) \in Seq(Calls) /\ Len(Each(op, files)) = Len(files)
         /\ \A i \in 1 .. Len(files) : Each(op, files)[i] = [op |-> op, file |-> files[i]]
<1>1. Each(op, files) = [i \in 1 .. Len(files) |-> [op |-> op, file |-> files[i]]]
  BY DEF Each
<1>2. \A i \in 1 .. Len(files) : [op |-> op, file |-> files[i]] \in Calls
  BY DEF Calls
<1> HIDE DEF Calls
<1> QED
  BY <1>1, <1>2, IsASeq, LenProperties

\* The call at each place.
LEMMA ProgramCalls ==
  /\ Program \in Seq(Calls) /\ Len(Program) = 38
  /\ \A k \in 1 .. 38 : Program[k].op =
       IF k = 1 THEN "root" ELSE IF k = 2 THEN "layout" ELSE IF k <= 13 THEN "write"
       ELSE IF k = 14 THEN "target" ELSE IF k <= 23 THEN "restore"
       ELSE IF k = 24 THEN "verify" ELSE IF k = 25 THEN "drop" ELSE IF k <= 36 THEN "remove"
       ELSE IF k = 37 THEN "check" ELSE "evidence"
  /\ \A k \in 3 .. 13 : Program[k].file = Written[k - 2]
<1> DEFINE p1 == <<Op("root"), Op("layout")>>
           p2 == Each("write", Written)
           p3 == <<Op("target")>>
           p4 == Each("restore", Archive)
           p5 == <<Op("verify"), Op("drop")>>
           p6 == Each("remove", Written)
           p7 == <<Op("check"), Op("evidence")>>
<1>1. /\ p1 \in Seq(Calls) /\ Len(p1) = 2 /\ p1[1].op = "root" /\ p1[2].op = "layout"
      /\ p3 \in Seq(Calls) /\ Len(p3) = 1 /\ p3[1].op = "target"
      /\ p5 \in Seq(Calls) /\ Len(p5) = 2 /\ p5[1].op = "verify" /\ p5[2].op = "drop"
      /\ p7 \in Seq(Calls) /\ Len(p7) = 2 /\ p7[1].op = "check" /\ p7[2].op = "evidence"
  <2>1. \A op \in {"root", "layout", "target", "verify", "drop", "check", "evidence"} :
          Op(op) \in Calls /\ Op(op).op = op
    BY DEF Op, Calls
  <2> HIDE DEF Calls
  <2> QED
    BY <2>1
<1>2. /\ Written \in Seq(Files \cup Range(Archive)) /\ Len(Written) = 11
      /\ Archive \in Seq(Files \cup Range(Archive)) /\ Len(Archive) = 9
  BY FilesInOrder
<1>3. /\ p2 \in Seq(Calls) /\ Len(p2) = 11
      /\ \A i \in 1 .. 11 : p2[i] = [op |-> "write", file |-> Written[i]]
  <2>1. /\ p2 \in Seq(Calls) /\ Len(p2) = Len(Written)
        /\ \A i \in 1 .. Len(Written) : p2[i] = [op |-> "write", file |-> Written[i]]
    BY <1>2, EachCalls
  <2> QED
    BY <1>2, <2>1
<1>4. /\ p4 \in Seq(Calls) /\ Len(p4) = 9
      /\ \A i \in 1 .. 9 : p4[i] = [op |-> "restore", file |-> Archive[i]]
  <2>1. /\ p4 \in Seq(Calls) /\ Len(p4) = Len(Archive)
        /\ \A i \in 1 .. Len(Archive) : p4[i] = [op |-> "restore", file |-> Archive[i]]
    BY <1>2, EachCalls
  <2> QED
    BY <1>2, <2>1
<1>5. /\ p6 \in Seq(Calls) /\ Len(p6) = 11
      /\ \A i \in 1 .. 11 : p6[i] = [op |-> "remove", file |-> Written[i]]
  <2>1. /\ p6 \in Seq(Calls) /\ Len(p6) = Len(Written)
        /\ \A i \in 1 .. Len(Written) : p6[i] = [op |-> "remove", file |-> Written[i]]
    BY <1>2, EachCalls
  <2> QED
    BY <1>2, <2>1
<1> DEFINE q2 == p1 \o p2
           q3 == q2 \o p3
           q4 == q3 \o p4
           q5 == q4 \o p5
           q6 == q5 \o p6
<1>6. Program = q6 \o p7
  BY DEF Program
<1> HIDE DEF p1, p2, p3, p4, p5, p6, p7, q2, q3, q4, q5, q6, Calls
<1>7. /\ q2 \in Seq(Calls) /\ Len(q2) = 13
       /\ \A i \in 1 .. 13 : q2[i] = IF i <= 2 THEN p1[i] ELSE p2[i - 2]
  <2>1. /\ q2 = p1 \o p2 /\ p1 \in Seq(Calls) /\ p2 \in Seq(Calls)
    BY <1>1, <1>3 DEF q2
  <2>3. Len(p1) = 2 /\ Len(p2) = 11
    BY <1>1, <1>3
  <2>2. /\ q2 \in Seq(Calls) /\ Len(q2) = Len(p1) + Len(p2)
        /\ \A i \in 1 .. Len(p1) + Len(p2) :
             q2[i] = IF i <= Len(p1) THEN p1[i] ELSE p2[i - Len(p1)]
    BY ONLY <2>1, ConcatProperties
  <2> QED
    BY ONLY <2>2, <2>3
<1>8. /\ q3 \in Seq(Calls) /\ Len(q3) = 14
       /\ \A i \in 1 .. 14 : q3[i] = IF i <= 13 THEN q2[i] ELSE p3[i - 13]
  <2>1. /\ q3 = q2 \o p3 /\ q2 \in Seq(Calls) /\ p3 \in Seq(Calls)
    BY <1>1, <1>7 DEF q3
  <2>3. Len(q2) = 13 /\ Len(p3) = 1
    BY <1>1, <1>7
  <2>2. /\ q3 \in Seq(Calls) /\ Len(q3) = Len(q2) + Len(p3)
        /\ \A i \in 1 .. Len(q2) + Len(p3) :
             q3[i] = IF i <= Len(q2) THEN q2[i] ELSE p3[i - Len(q2)]
    BY ONLY <2>1, ConcatProperties
  <2> QED
    BY ONLY <2>2, <2>3
<1>9. /\ q4 \in Seq(Calls) /\ Len(q4) = 23
       /\ \A i \in 1 .. 23 : q4[i] = IF i <= 14 THEN q3[i] ELSE p4[i - 14]
  <2>1. /\ q4 = q3 \o p4 /\ q3 \in Seq(Calls) /\ p4 \in Seq(Calls)
    BY <1>4, <1>8 DEF q4
  <2>3. Len(q3) = 14 /\ Len(p4) = 9
    BY <1>4, <1>8
  <2>2. /\ q4 \in Seq(Calls) /\ Len(q4) = Len(q3) + Len(p4)
        /\ \A i \in 1 .. Len(q3) + Len(p4) :
             q4[i] = IF i <= Len(q3) THEN q3[i] ELSE p4[i - Len(q3)]
    BY ONLY <2>1, ConcatProperties
  <2> QED
    BY ONLY <2>2, <2>3
<1>10. /\ q5 \in Seq(Calls) /\ Len(q5) = 25
       /\ \A i \in 1 .. 25 : q5[i] = IF i <= 23 THEN q4[i] ELSE p5[i - 23]
  <2>1. /\ q5 = q4 \o p5 /\ q4 \in Seq(Calls) /\ p5 \in Seq(Calls)
    BY <1>1, <1>9 DEF q5
  <2>3. Len(q4) = 23 /\ Len(p5) = 2
    BY <1>1, <1>9
  <2>2. /\ q5 \in Seq(Calls) /\ Len(q5) = Len(q4) + Len(p5)
        /\ \A i \in 1 .. Len(q4) + Len(p5) :
             q5[i] = IF i <= Len(q4) THEN q4[i] ELSE p5[i - Len(q4)]
    BY ONLY <2>1, ConcatProperties
  <2> QED
    BY ONLY <2>2, <2>3
<1>11. /\ q6 \in Seq(Calls) /\ Len(q6) = 36
       /\ \A i \in 1 .. 36 : q6[i] = IF i <= 25 THEN q5[i] ELSE p6[i - 25]
  <2>1. /\ q6 = q5 \o p6 /\ q5 \in Seq(Calls) /\ p6 \in Seq(Calls)
    BY <1>5, <1>10 DEF q6
  <2>3. Len(q5) = 25 /\ Len(p6) = 11
    BY <1>5, <1>10
  <2>2. /\ q6 \in Seq(Calls) /\ Len(q6) = Len(q5) + Len(p6)
        /\ \A i \in 1 .. Len(q5) + Len(p6) :
             q6[i] = IF i <= Len(q5) THEN q5[i] ELSE p6[i - Len(q5)]
    BY ONLY <2>1, ConcatProperties
  <2> QED
    BY ONLY <2>2, <2>3
<1>12. /\ Program \in Seq(Calls) /\ Len(Program) = 38
       /\ \A i \in 1 .. 38 : Program[i] = IF i <= 36 THEN q6[i] ELSE p7[i - 36]
  <2>1. /\ Program = q6 \o p7 /\ q6 \in Seq(Calls) /\ p7 \in Seq(Calls)
    BY <1>1, <1>6, <1>11
  <2>3. Len(q6) = 36 /\ Len(p7) = 2
    BY <1>1, <1>6, <1>11
  <2>2. /\ Program \in Seq(Calls) /\ Len(Program) = Len(q6) + Len(p7)
        /\ \A i \in 1 .. Len(q6) + Len(p7) :
             Program[i] = IF i <= Len(q6) THEN q6[i] ELSE p7[i - Len(q6)]
    BY ONLY <2>1, ConcatProperties
  <2> QED
    BY ONLY <2>2, <2>3
<1>13. ASSUME NEW i \in 1 .. 38
       PROVE  Program[i] = IF i <= 2 THEN p1[i] ELSE IF i <= 13 THEN p2[i - 2]
                           ELSE IF i <= 14 THEN p3[i - 13] ELSE IF i <= 23 THEN p4[i - 14]
                           ELSE IF i <= 25 THEN p5[i - 23] ELSE IF i <= 36 THEN p6[i - 25]
                           ELSE p7[i - 36]
  <2>1. /\ i <= 36 => Program[i] = q6[i]
        /\ i > 36 /\ i <= 38 => Program[i] = p7[i - 36]
    <3>1. \A j \in 1 .. 38 : Program[j] = IF j <= 36 THEN q6[j] ELSE p7[j - 36]
      BY <1>12
    <3> QED
      BY ONLY <3>1, i \in 1 .. 38
  <2>2. /\ i <= 25 => q6[i] = q5[i]
        /\ i > 25 /\ i <= 36 => q6[i] = p6[i - 25]
    <3>1. \A j \in 1 .. 36 : q6[j] = IF j <= 25 THEN q5[j] ELSE p6[j - 25]
      BY <1>11
    <3> QED
      BY ONLY <3>1, i \in 1 .. 38
  <2>3. /\ i <= 23 => q5[i] = q4[i]
        /\ i > 23 /\ i <= 25 => q5[i] = p5[i - 23]
    <3>1. \A j \in 1 .. 25 : q5[j] = IF j <= 23 THEN q4[j] ELSE p5[j - 23]
      BY <1>10
    <3> QED
      BY ONLY <3>1, i \in 1 .. 38
  <2>4. /\ i <= 14 => q4[i] = q3[i]
        /\ i > 14 /\ i <= 23 => q4[i] = p4[i - 14]
    <3>1. \A j \in 1 .. 23 : q4[j] = IF j <= 14 THEN q3[j] ELSE p4[j - 14]
      BY <1>9
    <3> QED
      BY ONLY <3>1, i \in 1 .. 38
  <2>5. /\ i <= 13 => q3[i] = q2[i]
        /\ i > 13 /\ i <= 14 => q3[i] = p3[i - 13]
    <3>1. \A j \in 1 .. 14 : q3[j] = IF j <= 13 THEN q2[j] ELSE p3[j - 13]
      BY <1>8
    <3> QED
      BY ONLY <3>1, i \in 1 .. 38
  <2>6. /\ i <= 2 => q2[i] = p1[i]
        /\ i > 2 /\ i <= 13 => q2[i] = p2[i - 2]
    <3>1. \A j \in 1 .. 13 : q2[j] = IF j <= 2 THEN p1[j] ELSE p2[j - 2]
      BY <1>7
    <3> QED
      BY ONLY <3>1, i \in 1 .. 38
  <2> QED
    BY ONLY i \in 1 .. 38, <2>1, <2>2, <2>3, <2>4, <2>5, <2>6
<1>14. ASSUME NEW k \in 1 .. 38
       PROVE  Program[k].op =
         IF k = 1 THEN "root" ELSE IF k = 2 THEN "layout" ELSE IF k <= 13 THEN "write"
         ELSE IF k = 14 THEN "target" ELSE IF k <= 23 THEN "restore"
         ELSE IF k = 24 THEN "verify" ELSE IF k = 25 THEN "drop" ELSE IF k <= 36 THEN "remove"
         ELSE IF k = 37 THEN "check" ELSE "evidence"
  <2>1. CASE k <= 2
    <3>1. Program[k] = p1[k] /\ (k = 1 \/ k = 2)
      BY <1>13, <2>1
    <3> QED
      BY <1>1, <3>1
  <2>2. CASE k \in 3 .. 13
    <3>1. Program[k] = p2[k - 2] /\ k - 2 \in 1 .. 11
      BY <1>13, <2>2
    <3>2. Program[k].op = "write"
      BY ONLY <1>3, <3>1
    <3> QED
      BY <2>2, <3>2
  <2>3. CASE k = 14
    <3>1. Program[14] = p3[1]
      BY <1>13, <2>3
    <3> QED
      BY <1>1, <2>3, <3>1
  <2>4. CASE k \in 15 .. 23
    <3>1. Program[k] = p4[k - 14] /\ k - 14 \in 1 .. 9
      BY <1>13, <2>4
    <3>2. Program[k].op = "restore"
      BY ONLY <1>4, <3>1
    <3> QED
      BY <2>4, <3>2
  <2>5. CASE k \in 24 .. 25
    <3>1. \/ k = 24 /\ Program[k] = p5[1]
          \/ k = 25 /\ Program[k] = p5[2]
      BY <1>13, <2>5
    <3> QED
      BY <1>1, <3>1
  <2>6. CASE k \in 26 .. 36
    <3>1. Program[k] = p6[k - 25] /\ k - 25 \in 1 .. 11
      BY <1>13, <2>6
    <3>2. Program[k].op = "remove"
      BY ONLY <1>5, <3>1
    <3> QED
      BY <2>6, <3>2
  <2>7. CASE k \in 37 .. 38
    <3>1. \/ k = 37 /\ Program[k] = p7[1]
          \/ k = 38 /\ Program[k] = p7[2]
      BY <1>13, <2>7
    <3> QED
      BY <1>1, <3>1
  <2> QED
    BY <2>1, <2>2, <2>3, <2>4, <2>5, <2>6, <2>7
<1>15. ASSUME NEW k \in 3 .. 13 PROVE Program[k].file = Written[k - 2]
  <2>1. Program[k] = p2[k - 2] /\ k - 2 \in 1 .. 11
    BY <1>13
  <2> QED
    BY ONLY <1>3, <2>1
<1> QED
  BY <1>12, <1>14, <1>15

\* What a statement that is under way at place k may have written without
\* having registered it.
Pending(k) ==
  IF k \notin 3 .. 13 THEN {}
  ELSE IF k \in {11, 12} THEN {LedgerFile, IncidentFile} ELSE {Written[k - 2]}

\* What is written at each place, and how it is registered.
LEMMA WrittenAt ==
  ASSUME NEW k \in 3 .. 13
  PROVE  /\ Program[k].file = Written[k - 2] /\ Written[k - 2] \in Files
         /\ k = 11 => Written[k - 2] = LedgerFile
         /\ k = 12 => Written[k - 2] = IncidentFile
         /\ k # 11 => Written[k - 2] \in Registers(Written[k - 2])
         /\ k = 12 => LedgerFile \in Registers(Written[k - 2])
         /\ Registers(Written[k - 2]) \subseteq Files
<1>1. Program[k].file = Written[k - 2]
  BY ProgramCalls
<1>2. k - 2 \in 1 .. 11 /\ Written[k - 2] \in Files
  BY FilesInOrder
<1>3. LedgerFile \in Files /\ IncidentFile \in Files
  <2>1. Written[9] \in Files /\ Written[10] \in Files
    BY FilesInOrder
  <2> QED
    BY <2>1, FilesInOrder
<1>4. /\ k - 2 \in 1 .. 8 => Written[k - 2] = Template(BOOTSTRAP_STORAGE_CLASSES[k - 2])
      /\ k = 11 => Written[k - 2] = LedgerFile
      /\ k = 12 => Written[k - 2] = IncidentFile
      /\ k = 13 => Written[k - 2] = BackupFile
  BY FilesInOrder
<1>5. /\ LedgerFile # IncidentFile /\ BackupFile # LedgerFile /\ BackupFile # IncidentFile
      /\ \A c : Template(c) # LedgerFile /\ Template(c) # IncidentFile
  BY DEF LedgerFile, IncidentFile, BackupFile, Template
<1>6. k # 11 => Written[k - 2] # LedgerFile
  BY <1>4, <1>5
<1>7. k # 12 => Written[k - 2] # IncidentFile
  BY <1>4, <1>5
<1>8. Registers(Written[k - 2]) = IF k = 11 THEN {} ELSE IF k = 12 THEN {LedgerFile, IncidentFile}
                                  ELSE {Written[k - 2]}
  BY <1>4, <1>5, <1>6, <1>7 DEF Registers
<1> QED
  BY <1>1, <1>2, <1>3, <1>4, <1>8

\* The file or files of one statement are those a failure may leave.
LEMMA PendingIsOneStatement ==
  ASSUME NEW k \in 1 .. 38
  PROVE  \E files \in OneStatement : Pending(k) \subseteq files
<1>1. {BackupFile} \in OneStatement /\ {LedgerFile, IncidentFile} \in OneStatement
  BY DEF OneStatement
<1>2. CASE k \notin 3 .. 13 \/ k \in {11, 12}
  BY <1>1, <1>2 DEF Pending
<1>3. CASE k = 13
  BY <1>1, <1>3, FilesInOrder DEF Pending
<1>4. CASE k \in 3 .. 10
  <2>1. Pending(k) = {Template(BOOTSTRAP_STORAGE_CLASSES[k - 2])}
    BY <1>4, FilesInOrder DEF Pending
  <2>2. k - 2 \in DOMAIN BOOTSTRAP_STORAGE_CLASSES
    BY <1>4 DEF BOOTSTRAP_STORAGE_CLASSES
  <2>3. BOOTSTRAP_STORAGE_CLASSES[k - 2] \in Classes
    BY <2>2 DEF Classes, Range
  <2> QED
    BY <2>1, <2>3 DEF OneStatement
<1> QED
  BY <1>2, <1>3, <1>4

\* What the evidence says was restored is what the other compartments were given.
LEMMA RestoredClasses == {f[1] : f \in Range(Archive)} = Range(SOURCE_CLASSES)
<1>1. /\ SOURCE_CLASSES[3] = "LEDGER" /\ SOURCE_CLASSES[7] = "INC"
      /\ DOMAIN SOURCE_CLASSES = 1 .. 7
  BY DEF SOURCE_CLASSES
<1>2. LedgerFile[1] = "LEDGER" /\ IncidentFile[1] = "INC" /\ \A c : Template(c)[1] = c
  BY DEF LedgerFile, IncidentFile, Template
<1>3. \A i \in 1 .. 7 : Archive[i][1] = SOURCE_CLASSES[i]
  BY <1>2, FilesInOrder
<1>4. Archive[8][1] = SOURCE_CLASSES[3] /\ Archive[9][1] = SOURCE_CLASSES[7]
  BY <1>1, <1>2, FilesInOrder
<1>5. ASSUME NEW i \in 1 .. 9 PROVE Archive[i][1] \in Range(SOURCE_CLASSES)
  <2>1. i \in 1 .. 7 \/ i = 8 \/ i = 9
    OBVIOUS
  <2>2. \E j \in 1 .. 7 : Archive[i][1] = SOURCE_CLASSES[j]
    BY <1>3, <1>4, <2>1
  <2> QED
    BY <1>1, <2>2 DEF Range
<1>6. DOMAIN Archive = 1 .. 9
  BY FilesInOrder
<1>7. ASSUME NEW c \in Range(SOURCE_CLASSES) PROVE c \in {f[1] : f \in Range(Archive)}
  <2>1. PICK j \in 1 .. 7 : c = SOURCE_CLASSES[j]
    BY <1>1 DEF Range
  <2>2. Archive[j] \in Range(Archive) /\ Archive[j][1] = c
    BY <1>3, <1>6, <2>1 DEF Range
  <2> QED
    BY <2>2
<1>8. ASSUME NEW f \in Range(Archive) PROVE f[1] \in Range(SOURCE_CLASSES)
  BY <1>5, <1>6 DEF Range
<1> QED
  BY <1>7, <1>8

-----------------------------------------------------------------------------
(* Two runs on one root.  Only the run that made the root is past its first  *)
(* call, so what is in the directories follows from its place alone,         *)
(* whatever the others' clean-up removed.                                    *)

BootstrapTypes ==
  /\ phase \in [Runs -> {"waiting", "running", "refused", "failing", "failed", "crashed",
                         "returning", "returned", "published", "unpublished"}]
  /\ step \in [Runs -> 1 .. 38]
  /\ ephemeral \in [Runs -> SUBSET Files]
  /\ unremoved \in [Runs -> SUBSET (Files \cup {RestoreTarget})]
  /\ compartments \subseteq Files

\* The root is the first run's that gets there, and nobody else goes on.
OwnerHolds ==
  /\ owner \in Runs \cup {None}
  /\ root = "absent" <=> owner = None
  /\ owner = None => compartments = {} /\ target = None
  /\ \A r \in Runs :
       /\ owner # r => step[r] = 1 /\ ephemeral[r] = {}
       /\ owner = r => phase[r] # "waiting" /\ (Running(r) => step[r] > 1)
       /\ step[r] > 2 => root = "laid out"

Alive(r) == phase[r] \in {"running", "failing", "returning"}

\* While its run lives, a file is registered, or it could not be removed, or it
\* is the work of one statement.
FilesHold ==
  \A r \in Runs : owner = r =>
    /\ Alive(r) => compartments \subseteq ephemeral[r] \cup unremoved[r] \cup Pending(step[r])
    /\ phase[r] = "failed" => /\ compartments \subseteq unremoved[r] \cup Pending(step[r])
                              /\ target # None => RestoreTarget \in unremoved[r]
    /\ step[r] > 25 => target = None
    /\ step[r] = 38 => compartments = {}

EvidenceHolds ==
  /\ \A e \in evidence : \E r \in Runs :
       owner = r /\ step[r] = 38 /\ e = EmptyBootstrapEvidence(r)
  /\ published \subseteq evidence
  /\ \A r \in Runs : phase[r] \in {"returning", "returned", "published", "unpublished"} =>
       step[r] = 38 /\ EmptyBootstrapEvidence(r) \in evidence

BootstrapInv == BootstrapTypes /\ OwnerHolds /\ FilesHold /\ EvidenceHolds

LEMMA BootstrapInitInv == BootstrapInit => BootstrapInv
BY RunsAssumption DEF BootstrapInit, BootstrapInv, BootstrapTypes, OwnerHolds, FilesHold,
   EvidenceHolds, Running, Alive

\* What the call of a run does, by its place: the first makes the root, and
\* after that the run is the owner.
LEMMA EffectAt ==
  ASSUME BootstrapInv, NEW r \in Runs, Running(r), Possible(r), Effect(r), NEW k, k = step[r]
  PROVE  /\ k \in 1 .. 38
         /\ k = 1 => /\ root = "absent" /\ root' = "made" /\ owner = None /\ owner' = r
                     /\ UNCHANGED <<compartments, target, evidence>>
         /\ k # 1 => owner = r /\ owner' = r
         /\ k = 2 => root' = "laid out" /\ UNCHANGED <<compartments, target, evidence>>
         /\ k > 2 => UNCHANGED root
         /\ k \in 3 .. 13 => /\ compartments' = compartments \cup {Written[k - 2]}
                             /\ UNCHANGED <<target, evidence>>
         /\ k \in 14 .. 24 => UNCHANGED <<compartments, evidence>>
         /\ k = 25 => target' = None /\ UNCHANGED <<compartments, evidence>>
         /\ k \in 26 .. 36 => /\ compartments' \subseteq compartments
                              /\ UNCHANGED <<target, evidence>>
         /\ k = 37 => compartments = {} /\ UNCHANGED <<compartments, target, evidence>>
         /\ k = 38 => /\ UNCHANGED <<compartments, target>>
                      /\ evidence' = evidence \cup {EmptyBootstrapEvidence(r)}
<1>1. k \in 1 .. 38 /\ step[r] \in 1 .. 38
  BY DEF BootstrapInv, BootstrapTypes
<1> DEFINE op == Program[k].op
<1>2. Now(r) = Program[k]
  BY DEF Now
<1>3. op = IF k = 1 THEN "root" ELSE IF k = 2 THEN "layout" ELSE IF k <= 13 THEN "write"
           ELSE IF k = 14 THEN "target" ELSE IF k <= 23 THEN "restore"
           ELSE IF k = 24 THEN "verify" ELSE IF k = 25 THEN "drop" ELSE IF k <= 36 THEN "remove"
           ELSE IF k = 37 THEN "check" ELSE "evidence"
  BY <1>1, ProgramCalls
<1>4. /\ op = "root" => root = "absent"
      /\ op = "check" => compartments = {}
  BY <1>2, <1>3 DEF Possible
<1> DEFINE f == Program[k].file
<1>5. /\ root' = IF op = "root" THEN "made" ELSE IF op = "layout" THEN "laid out" ELSE root
      /\ owner' = IF op = "root" THEN r ELSE owner
      /\ op = "write" => compartments' = compartments \cup {f}
      /\ op = "remove" => compartments' \subseteq compartments
      /\ op \notin {"write", "remove"} => compartments' = compartments
      /\ op \notin {"target", "restore", "drop"} => target' = target
      /\ op = "drop" => target' = None
      /\ evidence' = IF op = "evidence"
                     THEN evidence \cup {EmptyBootstrapEvidence(r)} ELSE evidence
  BY <1>2, <1>3 DEF Effect
<1>6. k \in 3 .. 13 => f = Written[k - 2]
  BY WrittenAt
<1> HIDE DEF op, f
<1>7. k # 1 => owner = r
  BY DEF BootstrapInv, OwnerHolds
<1>8. k = 1 => root = "absent" /\ owner = None
  BY <1>3, <1>4 DEF BootstrapInv, OwnerHolds
<1>9. k = 1 => /\ root' = "made" /\ owner' = r
               /\ UNCHANGED <<compartments, target, evidence>>
  <2>1. k = 1 => op = "root"
    BY ONLY <1>3
  <2> QED
    BY ONLY <2>1, <1>5
<1>10. k = 2 => root' = "laid out" /\ owner' = owner /\ UNCHANGED <<compartments, target, evidence>>
  <2>1. k = 2 => op = "layout"
    BY ONLY <1>3
  <2> QED
    BY ONLY <2>1, <1>5
<1>11. k \in 3 .. 13 => /\ compartments' = compartments \cup {f}
                        /\ UNCHANGED <<root, owner, target, evidence>>
  <2>1. k \in 3 .. 13 => op = "write"
    BY ONLY <1>3
  <2> QED
    BY ONLY <2>1, <1>5
<1>12. k \in 14 .. 24 => UNCHANGED <<root, owner, compartments, evidence>>
  <2>1. k \in 14 .. 24 => op \in {"target", "restore", "verify"}
    BY ONLY <1>3
  <2> QED
    BY ONLY <2>1, <1>5
<1>13. k = 25 => target' = None /\ UNCHANGED <<root, owner, compartments, evidence>>
  <2>1. k = 25 => op = "drop"
    BY ONLY <1>3
  <2> QED
    BY ONLY <2>1, <1>5
<1>14. k \in 26 .. 36 => /\ compartments' \subseteq compartments
                         /\ UNCHANGED <<root, owner, target, evidence>>
  <2>1. k \in 26 .. 36 => op = "remove"
    BY ONLY <1>3
  <2> QED
    BY ONLY <2>1, <1>5
<1>15. k = 37 => compartments = {} /\ UNCHANGED <<root, owner, compartments, target, evidence>>
  <2>1. k = 37 => op = "check"
    BY ONLY <1>3
  <2> QED
    BY ONLY <2>1, <1>4, <1>5
<1>16. k = 38 => /\ UNCHANGED <<root, owner, compartments, target>>
                 /\ evidence' = evidence \cup {EmptyBootstrapEvidence(r)}
  <2>1. k = 38 => op = "evidence"
    BY ONLY <1>1, <1>3
  <2> QED
    BY ONLY <2>1, <1>5
<1>17. k # 1 => owner' = owner
  <2>1. k # 1 => op # "root"
    BY ONLY <1>1, <1>3
  <2> QED
    BY ONLY <2>1, <1>5
<1>18. k > 2 => UNCHANGED root
  BY ONLY <1>1, <1>11, <1>12, <1>13, <1>14, <1>15, <1>16
<1>19. k # 1 => owner = r /\ owner' = r
  BY ONLY <1>7, <1>17
<1> QED
  BY ONLY <1>1, <1>6, <1>8, <1>9, <1>10, <1>11, <1>12, <1>13, <1>14, <1>15, <1>16, <1>18, <1>19

\* A call that works, whatever its run knows of it afterwards: the root has
\* its owner and the evidence is what it was or the owner's own.
LEMMA EffectHolds ==
  ASSUME BootstrapInv, NEW r \in Runs, Running(r), Possible(r), Effect(r)
  PROVE  /\ owner' = r /\ root' # "absent"
         /\ compartments' \subseteq Files
         /\ compartments' \subseteq ephemeral[r] \cup unremoved[r] \cup Pending(step[r])
         /\ step[r] > 1 => root' = "laid out"
         /\ step[r] >= 25 => target' = None
         /\ step[r] >= 37 => compartments' = {}
         /\ evidence' = IF step[r] = 38 THEN evidence \cup {EmptyBootstrapEvidence(r)} ELSE evidence
<1>1. PICK k : k = step[r]
  OBVIOUS
<1>2. k \in 1 .. 38 /\ compartments \subseteq Files
  BY <1>1 DEF BootstrapInv, BootstrapTypes
<1>3. k \in 3 .. 13 => Written[k - 2] \in Files /\ Written[k - 2] \in Pending(k)
  <2>1. CASE k \in {11, 12}
    <3>1. Written[9] \in Files /\ Written[10] \in Files /\ Written[9] = LedgerFile /\ Written[10] = IncidentFile
      BY FilesInOrder
    <3> QED
      BY <2>1, <3>1 DEF Pending
  <2>2. CASE k \in 3 .. 13 /\ k \notin {11, 12}
    BY <2>2, WrittenAt DEF Pending
  <2> QED
    BY <2>1, <2>2
<1>4. k # 1 => owner = r
  BY <1>1 DEF BootstrapInv, OwnerHolds
<1>5. compartments \subseteq ephemeral[r] \cup unremoved[r] \cup Pending(k)
  <2>1. owner = None => compartments = {}
    BY DEF BootstrapInv, OwnerHolds
  <2>2. owner = r => compartments \subseteq ephemeral[r] \cup unremoved[r] \cup Pending(k)
    BY <1>1 DEF BootstrapInv, FilesHold, Alive, Running
  <2>3. k = 1 => owner = None
    BY <1>1, EffectAt
  <2> QED
    BY ONLY <1>4, <2>1, <2>2, <2>3
<1>6. owner = r => (k > 25 => target = None) /\ (k = 38 => compartments = {})
  BY <1>1 DEF BootstrapInv, FilesHold
<1>7. k > 2 => root = "laid out"
  BY <1>1 DEF BootstrapInv, OwnerHolds
<1>8. owner' = r
  BY <1>1, EffectAt
<1>9. root' # "absent" /\ (k > 1 => root' = "laid out")
  <2>1. (k = 1 => root' = "made") /\ (k = 2 => root' = "laid out") /\ (k > 2 => root' = root)
    BY <1>1, EffectAt
  <2>2. k = 1 \/ k = 2 \/ k > 2
    BY ONLY <1>2
  <2>3. CASE k = 1
    BY ONLY <2>1, <2>3
  <2>4. CASE k = 2
    BY ONLY <2>1, <2>4
  <2>5. CASE k > 2
    BY ONLY <1>7, <2>1, <2>5
  <2> QED
    BY ONLY <2>2, <2>3, <2>4, <2>5
<1>10. /\ k \in 3 .. 13 => compartments' = compartments \cup {Written[k - 2]}
       /\ k \notin 3 .. 13 => compartments' \subseteq compartments
  <2>1. k \in 3 .. 13 => compartments' = compartments \cup {Written[k - 2]}
    BY <1>1, EffectAt
  <2>2. (k = 1 => compartments' = compartments) /\ (k = 2 => compartments' = compartments)
    BY <1>1, EffectAt
  <2>3. (k \in 14 .. 24 => compartments' = compartments) /\ (k = 25 => compartments' = compartments)
    BY <1>1, EffectAt
  <2>4. k \in 26 .. 36 => compartments' \subseteq compartments
    BY <1>1, EffectAt
  <2>5. (k = 37 => compartments' = compartments) /\ (k = 38 => compartments' = compartments)
    BY <1>1, EffectAt
  <2> QED
    BY ONLY <1>2, <2>1, <2>2, <2>3, <2>4, <2>5
<1>11. /\ compartments' \subseteq Files
       /\ compartments' \subseteq ephemeral[r] \cup unremoved[r] \cup Pending(k)
  BY ONLY <1>2, <1>3, <1>5, <1>10
<1>12. k >= 25 => target' = None
  <2>1. k = 25 => target' = None
    BY <1>1, EffectAt
  <2>2. k \in 26 .. 36 => target' = target
    BY <1>1, EffectAt
  <2>3. (k = 37 => target' = target) /\ (k = 38 => target' = target)
    BY <1>1, EffectAt
  <2>4. k > 25 => target = None
    BY ONLY <1>2, <1>4, <1>6
  <2> QED
    BY ONLY <1>2, <2>1, <2>2, <2>3, <2>4
<1>13. k >= 37 => compartments' = {}
  <2>1. k = 37 => compartments' = {}
    BY <1>1, EffectAt
  <2>2. k = 38 => compartments' = compartments
    BY <1>1, EffectAt
  <2> QED
    BY ONLY <1>2, <1>4, <1>6, <2>1, <2>2
<1>14. /\ k = 38 => evidence' = evidence \cup {EmptyBootstrapEvidence(r)}
       /\ k # 38 => evidence' = evidence
  <2>1. k = 38 => evidence' = evidence \cup {EmptyBootstrapEvidence(r)}
    BY <1>1, EffectAt
  <2>2. (k = 1 => evidence' = evidence) /\ (k = 2 => evidence' = evidence)
    BY <1>1, EffectAt
  <2>3. (k \in 3 .. 13 => evidence' = evidence) /\ (k \in 14 .. 24 => evidence' = evidence)
    BY <1>1, EffectAt
  <2>4. (k = 25 => evidence' = evidence) /\ (k \in 26 .. 36 => evidence' = evidence)
    BY <1>1, EffectAt
  <2>5. k = 37 => evidence' = evidence
    BY <1>1, EffectAt
  <2> QED
    BY ONLY <1>2, <2>1, <2>2, <2>3, <2>4, <2>5
<1> QED
  BY ONLY <1>1, <1>8, <1>9, <1>11, <1>12, <1>13, <1>14

\* A call was made, whatever its run knows of it: it goes on, has come to the
\* end, fails or is gone.
LEMMA CallMade ==
  ASSUME BootstrapInv, NEW r \in Runs, Running(r), Possible(r), Effect(r),
         UNCHANGED published, UNCHANGED unremoved,
         NEW p \in {"running", "returning", "failing", "crashed"}, NEW n \in 1 .. 38,
         NEW x \in SUBSET Files,
         n = step[r] \/ n = step[r] + 1,
         p = "running" => n = step[r] + 1,
         p = "returning" => step[r] = 38,
         p # "crashed" => compartments' \subseteq x \cup unremoved[r] \cup Pending(n),
         phase' = [phase EXCEPT ![r] = p], step' = [step EXCEPT ![r] = n],
         ephemeral' = [ephemeral EXCEPT ![r] = x]
  PROVE  BootstrapInv'
<1>1. PICK k : k = step[r]
  OBVIOUS
<1>2. /\ k \in 1 .. 38
      /\ n = k \/ n = k + 1
      /\ p = "running" => n = k + 1
      /\ p = "returning" => k = 38
  BY <1>1 DEF BootstrapInv, BootstrapTypes
<1>3. /\ owner' = r /\ root' # "absent"
      /\ compartments' \subseteq Files
      /\ k > 1 => root' = "laid out"
      /\ k >= 25 => target' = None
      /\ k >= 37 => compartments' = {}
      /\ evidence' = IF k = 38 THEN evidence \cup {EmptyBootstrapEvidence(r)} ELSE evidence
  BY <1>1, EffectHolds
<1>4. owner = r \/ owner = None
  BY <1>1, EffectAt
<1>5. \A s \in Runs \ {r} : step[s] = 1 /\ ephemeral[s] = {}
  <2>1. ASSUME NEW s \in Runs, s # r PROVE step[s] = 1 /\ ephemeral[s] = {}
    <3>1. owner # s
      BY <1>4, <2>1, RunsAssumption
    <3> QED
      BY <3>1 DEF BootstrapInv, OwnerHolds
  <2> QED
    BY <2>1
<1>6. /\ phase \in [Runs -> {"waiting", "running", "refused", "failing", "failed", "crashed",
                             "returning", "returned", "published", "unpublished"}]
      /\ step \in [Runs -> 1 .. 38] /\ ephemeral \in [Runs -> SUBSET Files]
      /\ unremoved \in [Runs -> SUBSET (Files \cup {RestoreTarget})]
  BY DEF BootstrapInv, BootstrapTypes
<1>7. BootstrapTypes'
  BY <1>3, <1>6 DEF BootstrapTypes
<1>8. /\ phase'[r] = p /\ step'[r] = n /\ ephemeral'[r] = x
      /\ \A s \in Runs \ {r} :
           phase'[s] = phase[s] /\ step'[s] = step[s] /\ ephemeral'[s] = ephemeral[s]
  BY <1>6
<1>9. n > 2 => k > 1
  BY ONLY <1>2
<1>10. OwnerHolds'
  <2>1. owner' \in Runs \cup {None} /\ owner' # None
    BY <1>3, RunsAssumption
  <2>2. ASSUME NEW s \in Runs, s # r
        PROVE  step'[s] = 1 /\ ephemeral'[s] = {}
    BY <1>5, <1>8, <2>2
  <2>3. p # "waiting" /\ (p = "running" => n > 1) /\ (n > 2 => root' = "laid out")
    <3>1. p = "running" => n > 1
      BY ONLY <1>2
    <3> QED
      BY <1>3, <1>9, <3>1
  <2>4. ASSUME NEW s \in Runs
        PROVE  /\ owner' # s => step'[s] = 1 /\ ephemeral'[s] = {}
               /\ owner' = s => phase'[s] # "waiting" /\ (Running(s)' => step'[s] > 1)
               /\ step'[s] > 2 => root' = "laid out"
    <3>1. CASE s = r
      BY <1>3, <1>8, <2>3, <3>1 DEF Running
    <3>2. CASE s # r
      <4>1. step'[s] = 1 /\ ephemeral'[s] = {} /\ owner' # s
        BY <1>3, <2>2, <3>2
      <4>2. ~ (step'[s] > 2)
        BY ONLY <4>1
      <4> QED
        BY ONLY <4>1, <4>2
    <3> QED
      BY <3>1, <3>2
  <2> QED
    BY <1>3, <2>1, <2>4 DEF OwnerHolds
<1>11. FilesHold'
  <2>1. /\ n > 25 => target' = None
        /\ n = 38 => compartments' = {}
    <3>1. (n > 25 => k >= 25) /\ (n = 38 => k >= 37)
      BY ONLY <1>2
    <3> QED
      BY <1>3, <3>1
  <2>2. /\ Alive(r)' =>
             compartments' \subseteq ephemeral'[r] \cup unremoved'[r] \cup Pending(step'[r])
        /\ phase'[r] # "failed"
    BY <1>8 DEF Alive
  <2> QED
    BY <1>3, <1>8, <2>1, <2>2 DEF FilesHold
<1>12. EvidenceHolds'
  <2>1. \A e \in evidence' : \E s \in Runs :
          owner' = s /\ step'[s] = 38 /\ e = EmptyBootstrapEvidence(s)
    <3>1. ASSUME NEW e \in evidence
          PROVE  n = 38 /\ e = EmptyBootstrapEvidence(r)
      <4>1. PICK s \in Runs : owner = s /\ step[s] = 38 /\ e = EmptyBootstrapEvidence(s)
        BY <3>1 DEF BootstrapInv, EvidenceHolds
      <4>2. s = r
        BY <1>4, <4>1, RunsAssumption
      <4>3. k = 38
        BY <1>1, <4>1, <4>2
      <4> QED
        BY <1>2, <4>1, <4>2, <4>3
    <3>2. k = 38 => n = 38
      BY ONLY <1>2, n \in 1 .. 38
    <3>3. ASSUME NEW e \in evidence'
          PROVE  n = 38 /\ e = EmptyBootstrapEvidence(r)
      BY <1>3, <3>1, <3>2, <3>3
    <3> QED
      BY <1>3, <1>8, <3>3
  <2>2. published' \subseteq evidence' /\ evidence \subseteq evidence'
    BY <1>3 DEF BootstrapInv, EvidenceHolds
  <2>3. ASSUME NEW s \in Runs, phase'[s] \in {"returning", "returned", "published", "unpublished"}
        PROVE  step'[s] = 38 /\ EmptyBootstrapEvidence(s) \in evidence'
    <3>1. CASE s = r
      <4>1. p = "returning"
        BY <1>8, <2>3, <3>1
      <4>2. k = 38 /\ n = 38
        BY <1>2, <4>1
      <4> QED
        BY <1>3, <1>8, <3>1, <4>2
    <3>2. CASE s # r
      <4>1. phase[s] \in {"returning", "returned", "published", "unpublished"}
        BY <1>8, <2>3, <3>2
      <4>2. step[s] = 38 /\ EmptyBootstrapEvidence(s) \in evidence
        BY <4>1 DEF BootstrapInv, EvidenceHolds
      <4> QED
        BY <1>8, <2>2, <3>2, <4>2
    <3> QED
      BY <3>1, <3>2
  <2> QED
    BY <2>1, <2>2, <2>3 DEF EvidenceHolds
<1> QED
  BY <1>7, <1>10, <1>11, <1>12 DEF BootstrapInv

\* A run moves on without a call: the restore target may go, or stays because
\* its removal failed.
LEMMA PhaseMoves ==
  ASSUME BootstrapInv, NEW r \in Runs,
         NEW p \in {"running", "refused", "failing", "failed", "crashed", "returned",
                    "published", "unpublished"},
         NEW u \in SUBSET (Files \cup {RestoreTarget}), unremoved[r] \subseteq u,
         unremoved' = [unremoved EXCEPT ![r] = u],
         phase' = [phase EXCEPT ![r] = p],
         step' = step, ephemeral' = ephemeral, root' = root, owner' = owner,
         evidence' = evidence, compartments' = compartments,
         target = None => target' = None,
         published' \subseteq evidence,
         p = "running" => phase[r] = "waiting",
         p = "failing" => Running(r),
         p = "failed" => /\ Alive(r) /\ ephemeral[r] = {}
                         /\ target' # None => RestoreTarget \in u,
         p \in {"returned", "published", "unpublished"} => phase[r] \in {"returning", "returned"}
  PROVE  BootstrapInv'
<1>1. /\ phase \in [Runs -> {"waiting", "running", "refused", "failing", "failed", "crashed",
                             "returning", "returned", "published", "unpublished"}]
      /\ compartments \subseteq Files
      /\ unremoved \in [Runs -> SUBSET (Files \cup {RestoreTarget})]
  BY DEF BootstrapInv, BootstrapTypes
<1>2. /\ phase'[r] = p /\ \A s \in Runs \ {r} : phase'[s] = phase[s]
      /\ unremoved'[r] = u /\ \A s \in Runs : unremoved[s] \subseteq unremoved'[s]
  BY <1>1
<1>3. BootstrapTypes'
  BY <1>1 DEF BootstrapInv, BootstrapTypes
<1>4. OwnerHolds'
  <2>1. ASSUME NEW s \in Runs
        PROVE  owner = s => phase'[s] # "waiting" /\ (Running(s)' => step[s] > 1)
    <3>1. owner = s => phase[s] # "waiting" /\ (Running(s) => step[s] > 1)
      BY DEF BootstrapInv, OwnerHolds
    <3> QED
      BY <1>2, <3>1 DEF Running
  <2>2. owner = None => compartments' = {} /\ target' = None
    BY DEF BootstrapInv, OwnerHolds
  <2>3. /\ owner \in Runs \cup {None} /\ (root = "absent" <=> owner = None)
        /\ \A s \in Runs : /\ owner # s => step[s] = 1 /\ ephemeral[s] = {}
                           /\ step[s] > 2 => root = "laid out"
    BY DEF BootstrapInv, OwnerHolds
  <2> QED
    BY <2>1, <2>2, <2>3 DEF OwnerHolds
<1>5. FilesHold'
  <2>1. ASSUME NEW s \in Runs, owner = s
        PROVE  /\ Alive(s)' =>
                    compartments' \subseteq ephemeral[s] \cup unremoved'[s] \cup Pending(step[s])
               /\ phase'[s] = "failed" =>
                    /\ compartments' \subseteq unremoved'[s] \cup Pending(step[s])
                    /\ target' # None => RestoreTarget \in unremoved'[s]
               /\ step[s] > 25 => target' = None
               /\ step[s] = 38 => compartments' = {}
    <3>1. /\ Alive(s) =>
               compartments \subseteq ephemeral[s] \cup unremoved[s] \cup Pending(step[s])
          /\ phase[s] = "failed" => /\ compartments \subseteq unremoved[s] \cup Pending(step[s])
                                    /\ target # None => RestoreTarget \in unremoved[s]
          /\ step[s] > 25 => target = None
          /\ step[s] = 38 => compartments = {}
      BY <2>1 DEF BootstrapInv, FilesHold
    <3>2. phase[s] # "waiting"
      BY <2>1 DEF BootstrapInv, OwnerHolds
    <3>3. Alive(s)' => Alive(s)
      BY <1>2, <3>2 DEF Alive, Running
    <3>4. unremoved[s] \subseteq unremoved'[s]
      BY <1>2
    <3>5. ASSUME phase'[s] = "failed"
          PROVE  /\ compartments' \subseteq unremoved'[s] \cup Pending(step[s])
                 /\ target' # None => RestoreTarget \in unremoved'[s]
      <4>1. CASE s = r
        <5>1. p = "failed"
          BY <1>2, <3>5, <4>1
        <5>2. Alive(s) /\ ephemeral[s] = {} /\ (target' # None => RestoreTarget \in unremoved'[s])
          BY <1>2, <4>1, <5>1
        <5> QED
          BY <3>1, <3>4, <5>2
      <4>2. CASE s # r
        <5>1. phase[s] = "failed"
          BY <1>2, <3>5, <4>2
        <5> QED
          BY <3>1, <3>4, <5>1
      <4> QED
        BY <4>1, <4>2
    <3> QED
      BY <3>1, <3>3, <3>4, <3>5
  <2> QED
    BY <2>1 DEF FilesHold
<1>6. EvidenceHolds'
  <2>1. ASSUME NEW s \in Runs, phase'[s] \in {"returning", "returned", "published", "unpublished"}
        PROVE  step[s] = 38 /\ EmptyBootstrapEvidence(s) \in evidence
    <3>1. phase[s] \in {"returning", "returned", "published", "unpublished"}
      BY <1>2, <2>1
    <3> QED
      BY <3>1 DEF BootstrapInv, EvidenceHolds
  <2>2. \A e \in evidence : \E s \in Runs :
          owner = s /\ step[s] = 38 /\ e = EmptyBootstrapEvidence(s)
    BY DEF BootstrapInv, EvidenceHolds
  <2> QED
    BY <2>1, <2>2 DEF EvidenceHolds
<1> QED
  BY <1>3, <1>4, <1>5, <1>6 DEF BootstrapInv

LEMMA StartHolds ==
  ASSUME BootstrapInv, NEW r \in Runs, Start(r)
  PROVE  BootstrapInv'
<1>1. PICK p \in {"running", "refused"} : phase' = [phase EXCEPT ![r] = p]
  BY DEF Start
<1>2. /\ phase[r] = "waiting" /\ published \subseteq evidence
      /\ UNCHANGED <<root, compartments, target, evidence, published, step, ephemeral,
                     unremoved, owner>>
  BY DEF Start, BootstrapInv, EvidenceHolds
<1>3. /\ unremoved' = [unremoved EXCEPT ![r] = unremoved[r]]
      /\ unremoved[r] \in SUBSET (Files \cup {RestoreTarget})
  BY <1>2 DEF BootstrapInv, BootstrapTypes
<1> QED
  BY <1>1, <1>2, <1>3, PhaseMoves

\* A call that works takes its run on, and what it wrote is registered, but
\* for the ledger file while its statement is under way.
LEMMA StepHolds ==
  ASSUME BootstrapInv, NEW r \in Runs, Step(r)
  PROVE  BootstrapInv'
<1>1. PICK k : k = step[r]
  OBVIOUS
<1>2. /\ k \in 1 .. 38 /\ ephemeral[r] \subseteq Files
      /\ phase \in [Runs -> {"waiting", "running", "refused", "failing", "failed", "crashed",
                             "returning", "returned", "published", "unpublished"}]
      /\ step \in [Runs -> 1 .. 38] /\ ephemeral \in [Runs -> SUBSET Files]
  BY <1>1 DEF BootstrapInv, BootstrapTypes
<1>3. Running(r) /\ published \subseteq evidence
  BY DEF Step, BootstrapInv, EvidenceHolds
<1>4. ASSUME Possible(r) PROVE BootstrapInv'
  <2>1. /\ Effect(r) /\ Advance(r) /\ published' = published /\ unremoved' = unremoved
        /\ ephemeral' = [ephemeral EXCEPT ![r] =
             CASE Now(r).op = "write" -> ephemeral[r] \cup Registers(Now(r).file)
               [] Now(r).op = "check" -> {}
               [] OTHER -> ephemeral[r]]
    BY <1>4 DEF Step
  <2>2. Now(r) = Program[k] /\ Len(Program) = 38
    BY <1>1, ProgramCalls DEF Now
  <2>3. /\ Now(r).op = "write" <=> k \in 3 .. 13
        /\ Now(r).op = "check" <=> k = 37
    <3>1. k \in 1 .. 38
      BY <1>2
    <3>2. Program[k].op =
            IF k = 1 THEN "root" ELSE IF k = 2 THEN "layout" ELSE IF k <= 13 THEN "write"
            ELSE IF k = 14 THEN "target" ELSE IF k <= 23 THEN "restore"
            ELSE IF k = 24 THEN "verify" ELSE IF k = 25 THEN "drop" ELSE IF k <= 36 THEN "remove"
            ELSE IF k = 37 THEN "check" ELSE "evidence"
      BY ONLY <3>1, ProgramCalls
    <3>3. /\ Program[k].op = "write" <=> k \in 3 .. 13
          /\ Program[k].op = "check" <=> k = 37
      BY ONLY <3>1, <3>2
    <3> QED
      BY <2>2, <3>3
  <2>4. k \in 3 .. 13 => Now(r).file = Written[k - 2]
    BY <2>2, WrittenAt
  <2> DEFINE x == IF k \in 3 .. 13 THEN ephemeral[r] \cup Registers(Written[k - 2])
                  ELSE IF k = 37 THEN {} ELSE ephemeral[r]
  <2>5. ephemeral' = [ephemeral EXCEPT ![r] = x]
    BY <2>1, <2>3, <2>4
  <2>6. x \in SUBSET Files
    BY <1>2, WrittenAt
  <2>7. /\ compartments' \subseteq ephemeral[r] \cup unremoved[r] \cup Pending(k)
        /\ k >= 37 => compartments' = {}
    BY <1>1, <1>3, <1>4, <2>1, EffectHolds
  <2> DEFINE n == IF k = 38 THEN 38 ELSE k + 1
             p == IF k = 38 THEN "returning" ELSE "running"
  <2>8. phase' = [phase EXCEPT ![r] = p] /\ step' = [step EXCEPT ![r] = n]
    BY <1>1, <1>2, <1>3, <2>1, <2>2 DEF Advance, Running
  <2>9. compartments' \subseteq x \cup unremoved[r] \cup Pending(n)
    <3>1. CASE k \in 3 .. 13 /\ k # 11
      <4>1. Pending(k) \subseteq Registers(Written[k - 2])
        BY <3>1, WrittenAt DEF Pending
      <4> QED
        BY <2>7, <3>1, <4>1
    <3>2. CASE k = 11
      <4>1. Pending(k) = Pending(n)
        BY <3>2 DEF Pending
      <4> QED
        BY <2>7, <3>2, <4>1
    <3>3. CASE k \notin 3 .. 13
      <4>1. Pending(k) = {}
        BY <3>3 DEF Pending
      <4> QED
        BY <2>7, <3>3, <4>1
    <3> QED
      BY <3>1, <3>2, <3>3
  <2>10. n \in 1 .. 38 /\ (n = k \/ n = k + 1)
    BY <1>2
  <2>11. p \in {"running", "returning"} /\ (p = "running" => n = k + 1) /\ (p = "returning" => k = 38)
    OBVIOUS
  <2> HIDE DEF x, n, p
  <2> QED
    BY <1>1, <1>3, <1>4, <2>1, <2>5, <2>6, <2>8, <2>9, <2>10, <2>11, CallMade
<1>5. ASSUME ~ Possible(r) PROVE BootstrapInv'
  <2>1. /\ phase' = [phase EXCEPT ![r] = "failing"]
        /\ UNCHANGED <<root, compartments, target, evidence, published, ephemeral,
                       unremoved, owner, step>>
    BY <1>5 DEF Step, Raise
  <2>2. /\ unremoved' = [unremoved EXCEPT ![r] = unremoved[r]]
        /\ unremoved[r] \in SUBSET (Files \cup {RestoreTarget})
    BY <2>1 DEF BootstrapInv, BootstrapTypes
  <2> QED
    BY <1>3, <2>1, <2>2, PhaseMoves
<1> QED
  BY <1>4, <1>5

\* A call that was made by a run that never learns of it.
LEMMA BrokenHolds ==
  ASSUME BootstrapInv, NEW r \in Runs, Running(r), Possible(r), Broken(r),
         NEW p \in {"failing", "crashed"}, phase' = [phase EXCEPT ![r] = p],
         UNCHANGED <<published, step, ephemeral, unremoved>>
  PROVE  BootstrapInv'
<1>1. /\ step \in [Runs -> 1 .. 38] /\ ephemeral \in [Runs -> SUBSET Files]
      /\ unremoved \in [Runs -> SUBSET (Files \cup {RestoreTarget})]
      /\ published \subseteq evidence
  BY DEF BootstrapInv, BootstrapTypes, EvidenceHolds
<1>2. ASSUME Effect(r) PROVE BootstrapInv'
  <2>1. compartments' \subseteq ephemeral[r] \cup unremoved[r] \cup Pending(step[r])
    BY <1>2, EffectHolds
  <2>2. /\ step' = [step EXCEPT ![r] = step[r]] /\ step[r] \in 1 .. 38
        /\ ephemeral' = [ephemeral EXCEPT ![r] = ephemeral[r]] /\ ephemeral[r] \in SUBSET Files
    BY <1>1
  <2> QED
    BY <1>2, <2>1, <2>2, CallMade
<1>3. ASSUME UNCHANGED <<root, compartments, target, evidence, owner>> PROVE BootstrapInv'
  <2>1. /\ unremoved' = [unremoved EXCEPT ![r] = unremoved[r]]
        /\ unremoved[r] \in SUBSET (Files \cup {RestoreTarget})
    BY <1>1
  <2> QED
    BY <1>1, <1>3, <2>1, PhaseMoves
<1> QED
  BY <1>2, <1>3 DEF Broken

LEMMA FaultHolds ==
  ASSUME BootstrapInv, NEW r \in Runs, Fault(r)
  PROVE  BootstrapInv'
BY BrokenHolds DEF Fault, Raise

LEMMA DieHolds ==
  ASSUME BootstrapInv, NEW r \in Runs, Die(r)
  PROVE  BootstrapInv'
<1>1. /\ phase' = [phase EXCEPT ![r] = "crashed"]
      /\ UNCHANGED <<published, step, ephemeral, unremoved>>
      /\ published \subseteq evidence
  BY DEF Die, BootstrapInv, EvidenceHolds
<1>2. CASE Running(r) /\ Possible(r)
  <2>1. Broken(r)
    BY <1>2 DEF Die
  <2> QED
    BY <1>1, <1>2, <2>1, BrokenHolds
<1>3. CASE ~ (Running(r) /\ Possible(r))
  <2>1. UNCHANGED <<root, compartments, target, evidence, owner>>
    BY <1>3 DEF Die
  <2>2. /\ unremoved' = [unremoved EXCEPT ![r] = unremoved[r]]
        /\ unremoved[r] \in SUBSET (Files \cup {RestoreTarget})
    BY <1>1 DEF BootstrapInv, BootstrapTypes
  <2> QED
    BY <1>1, <2>1, <2>2, PhaseMoves
<1> QED
  BY <1>2, <1>3

\* A file the clean-up comes to is removed or could not be.
LEMMA RemoveFileHolds ==
  ASSUME BootstrapInv, NEW r \in Runs, RemoveFile(r)
  PROVE  BootstrapInv'
<1>1. PICK f \in ephemeral[r] :
        /\ Cleaning(r) /\ phase' = phase
        /\ ephemeral' = [ephemeral EXCEPT ![r] = ephemeral[r] \ {f}]
        /\ \/ compartments' = compartments \ {f} /\ unremoved' = unremoved
           \/ /\ unremoved' = [unremoved EXCEPT ![r] = unremoved[r] \cup {f}]
              /\ compartments' = compartments
        /\ UNCHANGED <<root, target, evidence, published, step, owner>>
  BY DEF RemoveFile, GoesOn
<1>2. /\ ephemeral \in [Runs -> SUBSET Files] /\ compartments \subseteq Files
      /\ unremoved \in [Runs -> SUBSET (Files \cup {RestoreTarget})]
      /\ phase \in [Runs -> {"waiting", "running", "refused", "failing", "failed", "crashed",
                             "returning", "returned", "published", "unpublished"}]
      /\ step \in [Runs -> 1 .. 38]
  BY DEF BootstrapInv, BootstrapTypes
<1>3. /\ ephemeral'[r] = ephemeral[r] \ {f}
      /\ \A s \in Runs \ {r} : ephemeral'[s] = ephemeral[s]
      /\ \A s \in Runs : unremoved[s] \subseteq unremoved'[s]
      /\ compartments' \subseteq compartments
      /\ f \in compartments' => f \in unremoved'[r]
  BY <1>1, <1>2
<1>4. owner = r
  BY <1>1 DEF BootstrapInv, OwnerHolds
<1>5. BootstrapTypes'
  <2>1. ephemeral' \in [Runs -> SUBSET Files]
    BY <1>1, <1>2
  <2>2. unremoved' \in [Runs -> SUBSET (Files \cup {RestoreTarget})]
    BY <1>1, <1>2
  <2> QED
    BY <1>1, <1>2, <1>3, <2>1, <2>2 DEF BootstrapTypes
<1>6. OwnerHolds'
  <2>1. ASSUME NEW s \in Runs
        PROVE  /\ owner # s => step[s] = 1 /\ ephemeral'[s] = {}
               /\ owner = s => phase[s] # "waiting" /\ (Running(s) => step[s] > 1)
               /\ step[s] > 2 => root = "laid out"
    BY <1>3, <1>4 DEF BootstrapInv, OwnerHolds
  <2>2. owner \in Runs \cup {None} /\ (root = "absent" <=> owner = None) /\ owner # None
    BY <1>4, RunsAssumption DEF BootstrapInv, OwnerHolds
  <2> QED
    BY <1>1, <2>1, <2>2 DEF OwnerHolds, Running
<1>7. FilesHold'
  <2>1. Alive(r)
    BY <1>1 DEF Cleaning, Alive
  <2>2. /\ compartments \subseteq ephemeral[r] \cup unremoved[r] \cup Pending(step[r])
        /\ step[r] > 25 => target = None
        /\ step[r] = 38 => compartments = {}
    BY <1>4, <2>1 DEF BootstrapInv, FilesHold
  <2>3. compartments' \subseteq ephemeral'[r] \cup unremoved'[r] \cup Pending(step[r])
    BY <1>3, <2>2
  <2>4. phase[r] # "failed"
    BY <1>1 DEF Cleaning
  <2>5. step[r] = 38 => compartments' = {}
    BY <1>3, <2>2
  <2> QED
    BY <1>1, <1>4, <2>2, <2>3, <2>4, <2>5 DEF FilesHold
<1>8. EvidenceHolds'
  BY <1>1 DEF BootstrapInv, EvidenceHolds
<1> QED
  BY <1>5, <1>6, <1>7, <1>8 DEF BootstrapInv

\* Every file has been come to when the restore target's turn is.
LEMMA RemoveTargetHolds ==
  ASSUME BootstrapInv, NEW r \in Runs, RemoveTarget(r)
  PROVE  BootstrapInv'
<1>1. /\ Cleaning(r) /\ ephemeral[r] = {}
      /\ UNCHANGED <<root, compartments, evidence, published, step, ephemeral, owner>>
      /\ published \subseteq evidence
  BY DEF RemoveTarget, BootstrapInv, EvidenceHolds
<1>2. unremoved \in [Runs -> SUBSET (Files \cup {RestoreTarget})]
  BY DEF BootstrapInv, BootstrapTypes
<1>3. PICK u \in SUBSET (Files \cup {RestoreTarget}) :
        /\ unremoved[r] \subseteq u /\ unremoved' = [unremoved EXCEPT ![r] = u]
        /\ target' # None => RestoreTarget \in u
        /\ target = None => target' = None
  <2>1. CASE target' = None /\ unremoved' = unremoved
    <3>1. unremoved' = [unremoved EXCEPT ![r] = unremoved[r]]
      BY <1>2, <2>1
    <3> QED
      BY <1>2, <2>1, <3>1
  <2>2. CASE target # None /\ unremoved' = [unremoved EXCEPT ![r] = unremoved[r] \cup {RestoreTarget}]
    <3>1. unremoved[r] \cup {RestoreTarget} \in SUBSET (Files \cup {RestoreTarget})
      BY <1>2
    <3> QED
      BY <2>2, <3>1
  <2> QED
    BY <2>1, <2>2 DEF RemoveTarget
<1>4. PICK p \in {"failed", "returned"} :
        /\ phase' = [phase EXCEPT ![r] = p]
        /\ p = "returned" => phase[r] = "returning"
  <2>1. phase' = [phase EXCEPT ![r] = IF phase[r] = "failing" THEN "failed" ELSE "returned"]
    BY DEF RemoveTarget
  <2>2. CASE phase[r] = "failing"
    BY <2>1, <2>2
  <2>3. CASE phase[r] # "failing"
    BY <1>1, <2>1, <2>3 DEF Cleaning
  <2> QED
    BY <2>2, <2>3
<1>5. Alive(r)
  BY <1>1 DEF Cleaning, Alive
<1> QED
  BY <1>1, <1>3, <1>4, <1>5, PhaseMoves

LEMMA PublishHolds ==
  ASSUME BootstrapInv, NEW r \in Runs, Publish(r)
  PROVE  BootstrapInv'
<1>1. /\ phase[r] = "returned"
      /\ UNCHANGED <<root, compartments, target, evidence, step, ephemeral, unremoved, owner>>
  BY DEF Publish
<1>2. published \subseteq evidence /\ EmptyBootstrapEvidence(r) \in evidence
  BY <1>1 DEF BootstrapInv, EvidenceHolds
<1>3. PICK p \in {"published", "unpublished"} : phase' = [phase EXCEPT ![r] = p]
  BY DEF Publish
<1>4. published' \subseteq evidence
  BY <1>2 DEF Publish
<1>5. /\ unremoved' = [unremoved EXCEPT ![r] = unremoved[r]]
      /\ unremoved[r] \in SUBSET (Files \cup {RestoreTarget})
  BY <1>1 DEF BootstrapInv, BootstrapTypes
<1> QED
  BY <1>1, <1>3, <1>4, <1>5, PhaseMoves

LEMMA BootstrapStepInv == BootstrapInv /\ [BootstrapNext]_bootstrapVars => BootstrapInv'
<1> SUFFICES ASSUME BootstrapInv, [BootstrapNext]_bootstrapVars PROVE BootstrapInv'
  OBVIOUS
<1>1. CASE BootstrapNext
  <2>1. PICK r \in Runs : \/ Start(r) \/ Step(r) \/ Fault(r) \/ Die(r)
                         \/ RemoveFile(r) \/ RemoveTarget(r) \/ Publish(r)
    BY <1>1 DEF BootstrapNext
  <2> QED
    BY <2>1, StartHolds, StepHolds, FaultHolds, DieHolds, RemoveFileHolds, RemoveTargetHolds,
       PublishHolds
<1>2. CASE UNCHANGED bootstrapVars
  <2> USE <1>2 DEF bootstrapVars, BootstrapInv
  <2>1. BootstrapTypes'
    BY DEF BootstrapTypes
  <2>2. OwnerHolds'
    BY DEF OwnerHolds, Running
  <2>3. FilesHold'
    BY DEF FilesHold, Alive
  <2>4. EvidenceHolds'
    BY DEF EvidenceHolds
  <2> QED
    BY <2>1, <2>2, <2>3, <2>4
<1> QED
  BY <1>1, <1>2

LEMMA BootstrapInvariance == BootstrapSpec => []BootstrapInv
<1> QED
  BY BootstrapInitInv, BootstrapStepInv, PTL DEF BootstrapSpec

\* What the evidence says is so, then and ever after, however many runs are
\* started on the root, whichever of their calls fail and whoever dies
\* (writeBoundedEvidence after the last listing; the registration of every file
\* before the next statement; mkdir of the root without recursion).
THEOREM EarnedSafe == BootstrapSpec => []EvidenceIsEarned
<1>1. ASSUME BootstrapInv PROVE EvidenceIsEarned
  <2> SUFFICES ASSUME NEW e \in evidence \cup published
               PROVE  /\ e \in evidence
                      /\ root = "laid out" /\ owner = e.bootstrapRunId
                      /\ \A class \in Classes :
                           e.compartments[class] = "EMPTY" => ~ \E f \in compartments : f[1] = class
                      /\ e.cleanupVerified => target = None
                      /\ {f[1] : f \in Range(e.restoredManifest)} = e.coveredClasses
    BY DEF EvidenceIsEarned
  <2>1. e \in evidence
    BY <1>1 DEF BootstrapInv, EvidenceHolds
  <2>2. PICK r \in Runs : owner = r /\ step[r] = 38 /\ e = EmptyBootstrapEvidence(r)
    BY <1>1, <2>1 DEF BootstrapInv, EvidenceHolds
  <2>3. root = "laid out"
    <3>1. step[r] > 2 => root = "laid out"
      BY <1>1 DEF BootstrapInv, OwnerHolds
    <3>2. step[r] = 38
      BY <2>2
    <3>3. step[r] > 2
      BY ONLY <3>2
    <3> QED
      BY ONLY <3>1, <3>3
  <2>4. compartments = {} /\ target = None
    BY <1>1, <2>2 DEF BootstrapInv, FilesHold
  <2>5. /\ e.bootstrapRunId = r /\ e.coveredClasses = Range(SOURCE_CLASSES)
        /\ e.restoredManifest = Archive
    BY <2>2 DEF EmptyBootstrapEvidence
  <2> QED
    BY <2>1, <2>2, <2>3, <2>4, <2>5, RestoredClasses
<1> QED
  BY <1>1, BootstrapInvariance, PTL

\* Of what a run that failed had written, at most the files of one statement
\* and those whose own removal failed are left, and the restore target only if
\* its removal failed (the finally of runOperationalEmptyBootstrap, after the
\* fault at whichever call, with whichever of its own calls failing).
THEOREM FailureSafe == BootstrapSpec => []FailureLeavesOneStep
<1>1. ASSUME BootstrapInv PROVE FailureLeavesOneStep
  <2> SUFFICES ASSUME NEW r \in Runs, phase[r] = "failed", owner = r
               PROVE  /\ \E files \in OneStatement : compartments \ unremoved[r] \subseteq files
                      /\ target # None => RestoreTarget \in unremoved[r]
    BY DEF FailureLeavesOneStep
  <2>1. /\ compartments \subseteq unremoved[r] \cup Pending(step[r])
        /\ target # None => RestoreTarget \in unremoved[r]
        /\ step[r] \in 1 .. 38
    BY <1>1 DEF BootstrapInv, FilesHold, BootstrapTypes
  <2>2. PICK files \in OneStatement : Pending(step[r]) \subseteq files
    BY <2>1, PendingIsOneStatement
  <2> QED
    BY <2>1, <2>2
<1> QED
  BY <1>1, BootstrapInvariance, PTL
=============================================================================
