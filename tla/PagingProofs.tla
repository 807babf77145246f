----------------------------- MODULE PagingProofs -----------------------------
(***************************************************************************)
(* Paging is well typed and implements PagedRead: proved for every number  *)
(* of rows and every limit of pages.                                       *)
(***************************************************************************)
EXTENDS Paging, SequenceTheorems, TLAPS

Prefix(n) == [i \in 1 .. n |-> i]

\* A page is a sequence of rows of the tenant.
LEMMA PageTyping ==
  ASSUME NEW start \in Nat, NEW n \in Nat, NEW m \in Nat, start + n <= m
  PROVE  /\ RowsFrom(start, n) \in Seq(1 .. m)
         /\ Len(RowsFrom(start, n)) = n
         /\ \A i \in 1 .. n : RowsFrom(start, n)[i] = start + i
<1>1. RowsFrom(start, n) \in [1 .. n -> 1 .. m]
  BY DEF RowsFrom
<1>2. RowsFrom(start, n) \in Seq(1 .. m)
  BY <1>1
<1>3. Len(RowsFrom(start, n)) = n
  BY <1>1
<1>4. QED
  BY <1>2, <1>3 DEF RowsFrom

LEMMA PrefixTyping ==
  ASSUME NEW n \in Nat, NEW m \in Nat, n <= m
  PROVE  /\ Prefix(n) \in Seq(1 .. m)
         /\ Len(Prefix(n)) = n
         /\ \A i \in 1 .. n : Prefix(n)[i] = i
<1>1. Prefix(n) \in [1 .. n -> 1 .. m]
  BY DEF Prefix
<1>2. Prefix(n) \in Seq(1 .. m)
  BY <1>1
<1>3. Len(Prefix(n)) = n
  BY <1>1
<1>4. QED
  BY <1>2, <1>3 DEF Prefix

LEMMA PrefixEmpty == Prefix(0) = << >>
<1>1. Prefix(0) \in Seq(1 .. 0) /\ Len(Prefix(0)) = 0
  BY PrefixTyping
<1>2. QED
  BY <1>1, EmptySeq

\* What --limit leaves are the first rows.
LEMMA PrefixCut ==
  ASSUME NEW k \in Nat, NEW n \in Nat, n <= k
  PROVE  SubSeq(Prefix(k), 1, n) = Prefix(n)
<1> DEFINE S == 1 .. k
           cut == SubSeq(Prefix(k), 1, n)
<1>1. \A i \in 1 .. n : Prefix(k)[i] \in S /\ Prefix(k)[i] = i
  BY DEF Prefix
<1>2. /\ cut \in Seq(S)
      /\ Len(cut) = IF 1 <= n THEN n - 1 + 1 ELSE 0
      /\ \A i \in 1 .. n - 1 + 1 : cut[i] = Prefix(k)[1 + i - 1]
  BY <1>1, SubSeqProperties
<1>3. Len(cut) = n /\ \A i \in 1 .. n : cut[i] = i
  BY <1>1, <1>2
<1>4. /\ Prefix(n) \in Seq(S) /\ Len(Prefix(n)) = n
      /\ \A i \in 1 .. n : Prefix(n)[i] = i
  BY PrefixTyping
<1>5. QED
  BY <1>2, <1>3, <1>4, SeqEqual

-----------------------------------------------------------------------------

\* Rows in order, with a locator that leads on from the last of them: behind
\* it, or round the circle to the first.
Ordered(s) == \A i \in 1 .. Len(s) : s[i] \in 1 .. total /\ s[i] = Promise!Nth(s, i)
Linked(s, k) ==
  /\ Ordered(s)
  /\ ~ loops => Len(s) = k
  /\ loops => IF Len(s) = 0 THEN k = 0
              ELSE s[Len(s)] = k \/ (k = 0 /\ s[Len(s)] = total)

\* A page that starts at the locator leaves neither gap nor double, and leads
\* on from its own last row.
LEMMA PageInOrder ==
  ASSUME total \in Nat, NEW m \in Nat, total <= m, NEW k \in Nat, NEW n \in Nat, k + n <= total,
         NEW s \in Seq(0 .. m), Linked(s, k)
  PROVE  Linked(s \o RowsFrom(k, n), k + n)
<1> DEFINE long == s \o RowsFrom(k, n)
<1>1. /\ RowsFrom(k, n) \in Seq(0 .. m) /\ Len(RowsFrom(k, n)) = n
      /\ \A j \in 1 .. n : RowsFrom(k, n)[j] = k + j
  <2>1. RowsFrom(k, n) \in Seq(1 .. m)
    BY PageTyping
  <2>2. RowsFrom(k, n) \in Seq(0 .. m)
    BY <2>1
  <2>3. QED
    BY <2>2, PageTyping
<1>2. /\ Len(s) \in Nat /\ Len(long) = Len(s) + n
      /\ \A i \in 1 .. Len(s) : long[i] = s[i]
      /\ \A j \in 1 .. n : long[Len(s) + j] = k + j
  <2>1. /\ Len(long) = Len(s) + Len(RowsFrom(k, n))
        /\ \A i \in 1 .. Len(s) + Len(RowsFrom(k, n)) :
             long[i] = IF i <= Len(s) THEN s[i] ELSE RowsFrom(k, n)[i - Len(s)]
    BY <1>1, ConcatProperties, Zenon
  <2>2. Len(s) \in Nat
    OBVIOUS
  <2> HIDE DEF long
  <2>3. \A i \in 1 .. Len(s) : long[i] = s[i]
    BY <1>1, <2>1, <2>2
  <2>4. ASSUME NEW j \in 1 .. n PROVE long[Len(s) + j] = k + j
    <3>1. long[Len(s) + j] = RowsFrom(k, n)[Len(s) + j - Len(s)]
      <4>1. /\ Len(s) + j \in 1 .. Len(s) + Len(RowsFrom(k, n))
            /\ ~ (Len(s) + j <= Len(s))
        BY <1>1, <2>2
      <4>2. ASSUME NEW i \in 1 .. Len(s) + Len(RowsFrom(k, n)), ~ (i <= Len(s))
            PROVE  long[i] = RowsFrom(k, n)[i - Len(s)]
        BY <2>1, <4>2
      <4>3. QED
        BY <4>1, <4>2
    <3>2. Len(s) + j - Len(s) = j
      BY <2>2
    <3>3. QED
      BY <1>1, <3>1, <3>2
  <2>5. QED
    BY <1>1, <2>1, <2>2, <2>3, <2>4
<1> HIDE DEF long
<1>3. ASSUME NEW i \in 1 .. Len(s) PROVE long[i] \in 1 .. total /\ long[i] = Promise!Nth(long, i)
  <2>1. s[i] \in 1 .. total /\ s[i] = Promise!Nth(s, i)
    BY DEF Linked, Ordered
  <2>2. i # 1 => i - 1 \in 1 .. Len(s)
    BY <1>2
  <2>3. QED
    BY <1>2, <2>1, <2>2 DEF Promise!Nth
<1>4. ASSUME NEW j \in 1 .. n PROVE k + j \in 1 .. total /\ k + j = Promise!Nth(long, Len(s) + j)
  <2>1. CASE ~ loops
    BY <1>2, <2>1 DEF Promise!Nth, Linked
  <2>2. CASE loops /\ j = 1
    <3>1. Len(s) # 0 => long[Len(s)] = s[Len(s)] /\ s[Len(s)] \in 1 .. total
      BY <1>2 DEF Linked, Ordered
    <3>2. Len(s) + j = 1 <=> Len(s) = 0
      BY <1>2, <2>2
    <3>3. QED
      BY <1>2, <2>2, <3>1, <3>2 DEF Promise!Nth, Linked
  <2>3. CASE loops /\ j # 1
    <3>1. j - 1 \in 1 .. n /\ Len(s) + j - 1 = Len(s) + (j - 1) /\ Len(s) + j # 1
      BY <1>2, <2>3
    <3>2. long[Len(s) + j - 1] = k + (j - 1)
      BY <1>2, <3>1
    <3>3. QED
      BY <2>3, <3>1, <3>2 DEF Promise!Nth
  <2>4. QED
    BY <2>1, <2>2, <2>3
<1>5. Ordered(long)
  <2>1. ASSUME NEW i \in 1 .. Len(long), i \notin 1 .. Len(s)
        PROVE  \E j \in 1 .. n : i = Len(s) + j
    <3>1. i - Len(s) \in 1 .. n /\ i = Len(s) + (i - Len(s))
      BY <1>2, <2>1
    <3>2. QED
      BY <3>1
  <2>2. ASSUME NEW i \in 1 .. Len(long), i \notin 1 .. Len(s)
        PROVE  long[i] \in 1 .. total /\ long[i] = Promise!Nth(long, i)
    <3>1. PICK j \in 1 .. n : i = Len(s) + j
      BY <2>1, <2>2
    <3>2. /\ long[Len(s) + j] \in 1 .. total
          /\ long[Len(s) + j] = Promise!Nth(long, Len(s) + j)
      BY <1>2, <1>4
    <3>3. QED
      BY <3>1, <3>2
  <2>3. QED
    BY <1>3, <2>2 DEF Ordered
<1>6. Len(long) # 0 => IF n = 0 THEN long[Len(long)] = s[Len(s)] ELSE long[Len(long)] = k + n
  BY <1>2
<1>7. Linked(long, k + n)
  BY <1>2, <1>5, <1>6 DEF Linked
<1>8. QED
  BY <1>7 DEF long

\* Without a circle, that is the first rows.
LEMMA InOrderIsPrefix ==
  ASSUME total \in Nat, ~ loops, NEW m \in Nat, NEW s \in Seq(0 .. m), NEW k \in Nat, k <= m, Linked(s, k)
  PROVE  s = Prefix(k)
<1>1. Len(s) = k /\ \A i \in 1 .. k : s[i] = i
  BY DEF Linked, Ordered, Promise!Nth
<1>2. Prefix(k) \in Seq(1 .. m) /\ Len(Prefix(k)) = k /\ \A i \in 1 .. k : Prefix(k)[i] = i
  BY PrefixTyping
<1>3. Prefix(k) \in Seq(0 .. m)
  BY <1>2
<1>4. QED
  BY <1>1, <1>2, <1>3, SeqEqual

\* The answer that ends a reading may be no page: its body comes last.
LEMMA OddComesLast ==
  ASSUME NEW m \in Nat, NEW s \in Seq(0 .. m), Ordered(s)
  PROVE  Promise!InOrder(s) /\ Promise!InOrder(Append(s, Odd))
<1> DEFINE long == Append(s, Odd)
<1>1. /\ Len(s) \in Nat /\ Len(long) = Len(s) + 1
      /\ \A i \in 1 .. Len(s) : long[i] = s[i]
      /\ long[Len(s) + 1] = Odd
  BY AppendProperties DEF Odd
<1> HIDE DEF long
<1>2. ASSUME NEW i \in 1 .. Len(s) PROVE long[i] \in 1 .. total /\ long[i] = Promise!Nth(long, i)
  <2>1. s[i] \in 1 .. total /\ s[i] = Promise!Nth(s, i)
    BY DEF Ordered
  <2>2. i # 1 => i - 1 \in 1 .. Len(s)
    BY <1>1
  <2>3. QED
    BY <1>1, <2>1, <2>2 DEF Promise!Nth
<1>3. \A i \in 1 .. Len(long) : i \in 1 .. Len(s) \/ i = Len(s) + 1
  BY <1>1
<1>4. Promise!InOrder(long)
  BY <1>1, <1>2, <1>3 DEF Promise!InOrder, Odd, Promise!Odd
<1>5. QED
  BY <1>4 DEF Promise!InOrder, Ordered, long

-----------------------------------------------------------------------------

\* What `zr api` hands on after an answer that is no page: what was read.
Handed ==
  /\ command = "paginate" /\ ~ more /\ ~ done /\ ~ trimmed
  /\ Promise!InOrder(rows)

\* The rows lead up to the locator, or are what --limit leaves of those; where
\* the tenant leads in circles, only an answer that is no page ends the
\* reading.
Gapless ==
  /\ at <= total
  /\ loops => command = "paginate"
  /\ pc # "done" =>
       /\ outcome = "running" /\ claim = "none"
       /\ shown = Prefix(0) /\ resume = 0
  /\ pc = "ask" => Linked(rows, at) /\ ~ trimmed
  /\ pc = "decide" => ~ trimmed /\ (Handed \/ (Linked(rows, at) /\ (loops => more)))
  /\ pc \in {"write", "close"} =>
       Handed \/ (~ loops /\ rows = Prefix(IF trimmed THEN opts.limit ELSE at))
  /\ ~ loops /\ done => at = total
  /\ trimmed => opts.limit \in Nat /\ opts.limit <= at

IInv == TypeOK /\ Gapless

LEMMA InitHolds == Init => IInv
<1> SUFFICES ASSUME Init PROVE IInv
  OBVIOUS
<1>1. << >> \in Seq(0 .. MaxTotal) /\ Len(<< >>) = 0
  BY EmptySeq
<1>2. Prefix(0) = << >>
  BY PrefixEmpty
<1>3. TypeOK
  <2>1. 0 \in 0 .. MaxTotal /\ 0 \in 0 .. MaxPages - 1
    BY BoundsAssumption
  <2>2. rows \in Seq(0 .. MaxTotal) /\ shown \in Seq(0 .. MaxTotal)
    BY <1>1 DEF Init
  <2>3. loops \in BOOLEAN
    BY DEF Init
  <2>4. QED
    BY <2>1, <2>2, <2>3 DEF Init, TypeOK, PCs
<1>4. Gapless
  <2>1. loops => command = "paginate"
    BY DEF Init
  <2>2. 0 <= total
    BY BoundsAssumption DEF Init
  <2>3. Linked(rows, at)
    BY <1>1 DEF Init, Linked, Ordered
  <2>4. QED
    BY <1>2, <2>1, <2>2, <2>3 DEF Init, Gapless
<1>5. QED
  BY <1>3, <1>4 DEF IInv

\* What is asked for and what is claimed of it are settled apart from the rows.
LEMMA StepHolds == IInv /\ [Next]_vars => IInv'
<1> SUFFICES ASSUME IInv, [Next]_vars PROVE IInv'
  OBVIOUS
<1> USE BoundsAssumption DEF IInv, TypeOK, PCs, request, answer, output, Goto
<1>1. CASE Fail
  BY <1>1 DEF Fail, Gapless
<1>2. CASE Answer
  <2>1. PICK n \in 0 .. total - at :
          rows' = rows \o RowsFrom(at, n) /\ Follows(at + n)
    BY <1>2 DEF Answer
  <2>2. /\ at \in Nat /\ n \in Nat /\ total \in Nat
        /\ at + n <= total /\ total <= MaxTotal
    BY <2>1 DEF Gapless
  <2>3. RowsFrom(at, n) \in Seq(0 .. MaxTotal)
    <3>1. RowsFrom(at, n) \in Seq(1 .. MaxTotal)
      BY <2>2, PageTyping
    <3>2. QED
      BY <3>1
  <2>4. rows' \in Seq(0 .. MaxTotal)
    BY <2>1, <2>3, ConcatProperties
  <2>5. /\ done' \in BOOLEAN /\ more' \in BOOLEAN
        /\ at' = at + n \/ (loops /\ at + n = total /\ at' = 0)
        /\ ~ loops /\ done' => at' = total
        /\ loops => more'
    <3>1. CASE /\ at + n = total
               /\ done' = ~ loops /\ more' = loops
               /\ at' = IF loops THEN 0 ELSE at + n
      BY <2>2, <3>1
    <3>2. CASE done' = FALSE /\ more' = TRUE /\ at' = at + n
      <4>1. done' \in BOOLEAN /\ more' \in BOOLEAN /\ more' /\ ~ done'
        BY <3>2, Zenon
      <4>2. QED
        BY <3>2, <4>1
    <3>3. QED
      BY <2>1, <3>1, <3>2 DEF Follows
  <2>6. /\ pc = "ask" /\ pc' = "decide" /\ Linked(rows, at) /\ ~ trimmed
        /\ UNCHANGED <<command, opts, total, loops, page, trimmed, shown, claim, resume, outcome>>
    BY <1>2 DEF Answer, Gapless
  <2>7. Linked(rows', at')
    <3>1. Linked(rows', at + n)
      BY <2>1, <2>2, <2>6, PageInOrder
    <3>2. CASE at' = at + n
      BY <3>1, <3>2
    <3>3. CASE loops /\ at + n = total /\ at' = 0
      BY <2>2, <3>1, <3>3 DEF Linked
    <3>4. QED
      BY <2>5, <3>2, <3>3
  <2>8. (Linked(rows, at))'
    BY <2>6, <2>7 DEF Linked, Ordered, Promise!Nth
  <2>9. at' \in 0 .. total
    BY <2>2, <2>5
  <2>10. TypeOK'
    BY <2>2, <2>4, <2>5, <2>6, <2>9
  <2>11. Gapless'
    BY <2>5, <2>6, <2>8, <2>9 DEF Gapless
  <2>12. QED
    BY <2>10, <2>11
<1>3. CASE OddAnswer
  <2>1. /\ pc = "ask" /\ pc' = "decide" /\ Linked(rows, at) /\ ~ trimmed
        /\ rows' = rows \/ (command = "paginate" /\ rows' = Append(rows, Odd))
        /\ ~ done' /\ ~ more' /\ done' \in BOOLEAN /\ more' \in BOOLEAN
        /\ UNCHANGED <<command, opts, total, loops, page, at, trimmed, shown, claim, resume, outcome>>
    BY <1>3 DEF OddAnswer, Gapless
  <2>2. rows' \in Seq(0 .. MaxTotal)
    <3>1. Odd \in 0 .. MaxTotal
      BY DEF Odd
    <3>2. Append(rows, Odd) \in Seq(0 .. MaxTotal)
      BY <3>1, AppendProperties
    <3>3. QED
      BY <2>1, <3>2
  <2>3. TypeOK'
    BY <2>1, <2>2
  <2>4. (Handed \/ (Linked(rows, at) /\ ~ loops))'
    <3>1. CASE command = "paginate"
      <4>1. Promise!InOrder(rows')
        BY <2>1, OddComesLast DEF Linked
      <4>2. (Promise!InOrder(rows))'
        BY <2>1, <4>1 DEF Promise!InOrder, Promise!Nth
      <4>3. QED
        BY <2>1, <3>1, <4>2 DEF Handed
    <3>2. CASE command = "query"
      BY <2>1, <3>2 DEF Gapless, Linked, Ordered, Promise!Nth
    <3>3. QED
      BY <3>1, <3>2
  <2>5. Gapless'
    BY <2>1, <2>4 DEF Gapless
  <2>6. QED
    BY <2>3, <2>5
<1>4. CASE AskMore
  <2>1. /\ pc = "decide" /\ pc' = "ask" /\ more
        /\ UNCHANGED <<command, opts, total, loops, rows, done, more, at, trimmed, shown, claim, resume, outcome>>
    BY <1>4 DEF AskMore, GoesOn
  <2>2. TypeOK'
    BY <1>4 DEF AskMore, UnderLimit
  <2>3. Linked(rows, at) /\ ~ trimmed
    BY <2>1 DEF Gapless, Handed
  <2>4. (Linked(rows, at))'
    BY <2>1, <2>3 DEF Linked, Ordered, Promise!Nth
  <2>5. Gapless'
    BY <2>1, <2>3, <2>4 DEF Gapless
  <2>6. QED
    BY <2>2, <2>5
<1>5. CASE Collected
  <2>1. /\ pc = "decide" /\ pc' = "write" /\ ~ trimmed
        /\ UNCHANGED <<command, opts, total, loops, page, done, more, at, shown, claim, resume, outcome>>
    BY <1>5 DEF Collected, Gapless
  <2>2. /\ opts.limit \in Nat /\ opts.limit <= MaxTotal + 1
        /\ command = "paginate" => opts.limit = 0
    <3>1. CASE command = "query"
      BY <3>1 DEF Options
    <3>2. CASE command = "paginate"
      BY <3>2 DEF Options
    <3>3. QED
      BY <3>1, <3>2
  <2>3. CASE Handed
    <3>1. command = "paginate" /\ rows' = rows /\ trimmed' = FALSE
      BY <1>5, <2>2, <2>3 DEF Collected, Handed
    <3>2. TypeOK'
      BY <2>1, <3>1
    <3>3. (Promise!InOrder(rows))'
      BY <2>1, <2>3, <3>1 DEF Handed, Promise!InOrder, Promise!Nth
    <3>4. Handed'
      BY <2>1, <2>3, <3>1, <3>3 DEF Handed
    <3>5. Gapless'
      BY <2>1, <3>1, <3>4 DEF Gapless
    <3>6. QED
      BY <3>2, <3>5
  <2>4. CASE ~ Handed
    <3>1. ~ loops /\ Linked(rows, at)
      BY <1>5, <2>1, <2>4 DEF Collected, GoesOn, Gapless
    <3>2. rows = Prefix(at) /\ Len(rows) = at /\ at \in Nat /\ at <= total /\ total <= MaxTotal
      BY <3>1, InOrderIsPrefix DEF Linked, Gapless
    <3>3. CASE trimmed'
      <4>1. /\ Len(rows) > opts.limit
            /\ rows' = SubSeq(rows, 1, opts.limit)
        BY <1>5, <3>3, Zenon DEF Collected
      <4>2. opts.limit <= at
        BY <2>2, <3>2, <4>1
      <4>3. SubSeq(Prefix(at), 1, opts.limit) = Prefix(opts.limit)
        BY <2>2, <3>2, <4>2, PrefixCut
      <4>4. rows' = Prefix(opts.limit)
        BY <3>2, <4>1, <4>3
      <4>5. rows' \in Seq(1 .. MaxTotal)
        BY <2>2, <3>2, <4>2, <4>4, PrefixTyping
      <4>6. rows' \in Seq(0 .. MaxTotal)
        BY <4>5
      <4>7. TypeOK'
        BY <1>5, <2>1, <4>6 DEF Collected
      <4>8. Gapless'
        BY <2>1, <2>2, <3>1, <3>2, <3>3, <4>2, <4>4 DEF Gapless
      <4>9. QED
        BY <4>7, <4>8
    <3>4. CASE ~ trimmed'
      <4>1. rows' = rows
        BY <1>5, <3>4 DEF Collected
      <4>2. TypeOK'
        BY <1>5, <2>1, <4>1 DEF Collected
      <4>3. Gapless'
        BY <2>1, <3>1, <3>2, <3>4, <4>1 DEF Gapless
      <4>4. QED
        BY <4>2, <4>3
    <3>5. QED
      BY <3>3, <3>4
  <2>5. QED
    BY <2>3, <2>4
<1>6. CASE Write
  <2>1. CASE opts.export
    <3>1. /\ pc = "write" /\ pc' = "close"
          /\ UNCHANGED <<command, opts, total, loops, page, rows, done, more, at, trimmed, shown, claim, resume, outcome>>
      BY <1>6, <2>1 DEF Write
    <3>2. Handed => Handed'
      BY <3>1 DEF Handed, Promise!InOrder, Promise!Nth
    <3>3. QED
      BY <3>1, <3>2 DEF Gapless
  <2>2. CASE ~ opts.export
    BY <1>6, <2>2 DEF Write, Show, Gapless
  <2>3. QED
    BY <2>1, <2>2
<1>7. CASE Export
  BY <1>7 DEF Export, Show, Gapless
<1>8. CASE Kill
  BY <1>8 DEF Kill, Gapless
<1>9. CASE UNCHANGED vars
  <2>1. Handed' <=> Handed
    BY <1>9 DEF vars, Handed, Promise!InOrder, Promise!Nth
  <2>2. (Linked(rows, at))' <=> Linked(rows, at)
    BY <1>9 DEF vars, Linked, Ordered, Promise!Nth
  <2>3. QED
    BY <1>9, <2>1, <2>2 DEF vars, Gapless
<1>10. QED
  BY <1>1, <1>2, <1>3, <1>4, <1>5, <1>6, <1>7, <1>8, <1>9 DEF Next

LEMMA Inductive == Spec => []IInv
<1>1. QED
  BY InitHolds, StepHolds, PTL DEF Spec

\* The state of the two commands is well typed; the count of pages stays under
\* the limit of DoPaginated, whatever that is.
THEOREM Typing == Spec => []TypeOK
<1>1. IInv => TypeOK
  BY DEF IInv
<1>2. QED
  BY <1>1, Inductive, PTL

-----------------------------------------------------------------------------

\* What is shown is what the promise allows: the first rows, and of them only
\* what is so, or what was read and no claim at all.
LEMMA ShowIsPromised ==
  ASSUME IInv, pc \in {"write", "close"}, Show, UNCHANGED <<command, total, loops>>
  PROVE  Promise!Show
<1> USE DEF IInv, TypeOK
<1>1. outcome = "running" /\ outcome' = "ok" /\ shown' = rows
  BY DEF Gapless, Show
<1>2. CASE Handed
  <2>1. ~ opts.claims
    <3>1. opts \in [limit : {0}, export : {FALSE}, claims : {FALSE}]
      BY <1>2 DEF Handed, Options
    <3>2. QED
      BY <3>1
  <2>2. claim' = "none" /\ resume' = 0
    BY <2>1 DEF Show
  <2>3. Promise!InOrder(shown')
    BY <1>1, <1>2 DEF Handed
  <2>4. QED
    BY <1>1, <1>2, <2>2, <2>3 DEF Promise!Show, Promise!HandOn, Handed
<1>3. CASE ~ Handed
  <2> DEFINE n == IF trimmed THEN opts.limit ELSE at
  <2>1. ~ loops /\ rows = Prefix(n)
    BY <1>3 DEF Gapless
  <2>2. n \in 0 .. total
    BY DEF Gapless
  <2>3. shown' = Promise!Prefix(n)
    BY <1>1, <2>1 DEF Prefix, Promise!Prefix
  <2>4. \/ claim' = "all" /\ n = total /\ resume' = 0
        \/ claim' = "more" /\ resume' = n
        \/ claim' = "none" /\ resume' = 0
    BY <2>1 DEF Show, IsDone, HasLocator, Gapless
  <2>5. Promise!ShowRows
    BY <2>1, <2>2, <2>3, <2>4 DEF Promise!ShowRows
  <2>6. QED
    BY <1>1, <2>5 DEF Promise!Show
<1>4. QED
  BY <1>2, <1>3

\* Getting the pages, choosing the rows, opening the file of --export and being
\* killed show nothing: to PagedRead they are no steps at all.
Quiet ==
  \/ Answer \/ OddAnswer \/ AskMore \/ Collected \/ Kill
  \/ Write /\ opts.export

LEMMA QuietIsUnseen ==
  ASSUME Quiet
  PROVE  UNCHANGED Promise!vars
BY DEF Quiet, Answer, OddAnswer, AskMore, Collected, Write, Kill,
       request, output, Promise!vars

\* A failure, and the one step that shows the rows, are steps of PagedRead.
LEMMA LoudIsPromised ==
  ASSUME IInv, Fail \/ Export \/ (Write /\ ~ opts.export)
  PROVE  Promise!Next
<1>1. Fail => Promise!Fail
  BY DEF Fail, Promise!Fail, IInv, Gapless, request, Goto
<1>2. Export \/ (Write /\ ~ opts.export) => Promise!Show
  BY ShowIsPromised DEF Export, Write, request
<1>3. QED
  BY <1>1, <1>2 DEF Promise!Next

\* Paging implements PagedRead: whatever the pages, the limit and the answers
\* that are no page, `query` gives the first rows, in one piece or not at all,
\* and no claim that is not so; `zr api --paginate` gives the rows in their
\* order, an answer that is no page last, and claims nothing.
THEOREM PromiseKept == Spec => KeepsPromise
<1>1. Init => Promise!Init
  <2>1. Promise!Prefix(0) = << >>
    BY PrefixEmpty DEF Prefix, Promise!Prefix
  <2>2. (command = "paginate") \in BOOLEAN
    OBVIOUS
  <2>3. Init => total \in Nat /\ loops \in BOOLEAN
    <3>1. Init => total \in 0 .. MaxTotal /\ loops \in {FALSE} \cup {command = "paginate"}
      BY DEF Init
    <3>2. {FALSE} \cup {command = "paginate"} \subseteq BOOLEAN
      BY <2>2, Zenon
    <3>3. Init => loops \in BOOLEAN
      BY <3>1, <3>2, Zenon
    <3>4. Init => total \in Nat
      BY <3>1, BoundsAssumption
    <3>5. QED
      BY <3>3, <3>4
  <2>4. Init => /\ shown = Promise!Prefix(0)
                /\ claim = "none" /\ resume = 0 /\ outcome = "running"
    BY <2>1 DEF Init
  <2>5. QED
    BY <2>2, <2>3, <2>4 DEF Promise!Init
<1>2. ASSUME IInv, Next
      PROVE  Promise!Next \/ UNCHANGED Promise!vars
  <2>1. Quiet \/ Fail \/ Export \/ (Write /\ ~ opts.export)
    BY <1>2 DEF Next, Quiet
  <2>2. QED
    BY <1>2, <2>1, QuietIsUnseen, LoudIsPromised
<1>3. UNCHANGED vars => UNCHANGED Promise!vars
  BY DEF vars, Promise!vars
<1>4. IInv /\ [Next]_vars => [Promise!Next]_Promise!vars
  BY <1>2, <1>3
<1>5. QED
  BY <1>1, <1>4, Inductive, PTL DEF Spec, KeepsPromise, Promise!Spec
===============================================================================
