------------------------- MODULE AsyncStreamProofs -------------------------
(***************************************************************************)
(* Proofs about AsyncStream, for any number of commands, any tags and any  *)
(* answers: it implements AsyncProtocol, what it cuts out of the stream    *)
(* are responses, whole, and raw output is kept.                           *)
(*                                                                         *)
(* Until the connection turns raw, what is received and what is under way  *)
(* make one sequence of symbols in which every response lies in one piece  *)
(* (WellFormed), wherever the end of the buffer is.  The loop looks for    *)
(* the first response in the buffer alone: what it finds is the first of   *)
(* those that end there (Found), and where it finds none there is none.    *)
(* Output comes behind the response to the lock: when the task that        *)
(* awaited that response runs, there is nothing else left (OutputLast).    *)
(***************************************************************************)
EXTENDS AsyncStream, AsyncProtocolProofs, SequenceTheorems

Parts == {"+", "ok", "err", "ff", "len", "nl", "semi"}
Symbol == [of : 0..(MaxCommands + MaxOutput), part : Parts]
ReplyKinds == {"text", "binary", "error"}
Size(kind) == IF kind = "binary" THEN 7 ELSE 3
Last(i, kind) == i + Size(kind) - 1

\* The one reply to n in the stream S begins at i.
Placed(S, n, kind, i) ==
    /\ Last(i, kind) <= Len(S)
    /\ \A m \in 1..Size(kind) :
         S[i + m - 1] = [of |-> n, part |-> ReplyParts[kind][m]]
    /\ \A k \in 1..Len(S) : S[k].of = n => k \in i..Last(i, kind)

IsHead(S, k) == S[k].part \in {"ok", "err"}

\* From any place on, there is a first reply if there is one.
Ordered(S) ==
    \A q \in 0..Len(S) : (\E k \in (q + 1)..Len(S) : IsHead(S, k)) =>
        \E k \in (q + 1)..Len(S) :
            IsHead(S, k) /\ \A l \in (q + 1)..(k - 1) : ~IsHead(S, l)

WellFormed(S) ==
    /\ S \in Seq(Symbol)
    /\ \A k \in 1..Len(S) :
         IF S[k].of \in Commands
         THEN \E i \in 1..Len(S), kind \in ReplyKinds : Placed(S, S[k].of, kind, i)
         ELSE ~IsHead(S, k)
    /\ Ordered(S)

\* b is what was received of S.
Prefix(b, S) ==
    /\ b \in Seq(Symbol) /\ Len(b) <= Len(S)
    /\ \A k \in 1..Len(b) : b[k] = S[k]

---------------------------------------------------------------------------
(* Replies in a stream.                                                    *)

\* The symbols of each kind of reply: one that begins it, ";" at its end.
LEMMA ReplyShape ==
    ASSUME NEW kind \in ReplyKinds
    PROVE  /\ kind \in DOMAIN ReplyParts
           /\ ReplyParts[kind] \in Seq(Parts) /\ Len(ReplyParts[kind]) = Size(kind)
           /\ \A m \in 1..Size(kind) :
                ReplyParts[kind][m] \in {"ok", "err"} <=> m = 1
           /\ ReplyParts[kind][Size(kind)] = "semi"
           /\ ReplyParts[kind][1] = (IF kind = "error" THEN "err" ELSE "ok")
           /\ ReplyParts[kind][2] = (IF kind = "binary" THEN "ff" ELSE "nl")
           /\ kind # "binary" => ReplyParts[kind][3] = "semi"
<1>1. CASE kind = "text"
  <2>1. ReplyParts[kind] = <<"ok", "nl", "semi">>
    BY <1>1 DEF ReplyParts
  <2> QED
    BY <1>1, <2>1 DEF ReplyParts, Parts, Size
<1>2. CASE kind = "error"
  <2>1. ReplyParts[kind] = <<"err", "nl", "semi">>
    BY <1>2 DEF ReplyParts
  <2> QED
    BY <1>2, <2>1 DEF ReplyParts, Parts, Size
<1>3. CASE kind = "binary"
  <2>1. ReplyParts[kind] = <<"ok", "ff", "len", "nl", "semi", "nl", "semi">>
    BY <1>3 DEF ReplyParts
  <2>2. \A m \in 1..7 : m = 1 \/ m = 2 \/ m = 3 \/ m = 4 \/ m = 5 \/ m = 6 \/ m = 7
    OBVIOUS
  <2> QED
    BY <1>3, <2>1, <2>2 DEF ReplyParts, Parts, Size
<1> QED
  BY <1>1, <1>2, <1>3 DEF ReplyKinds

\* The symbols of a reply.
LEMMA Within ==
    ASSUME NEW S, NEW n, NEW kind \in ReplyKinds, NEW i \in Nat, Placed(S, n, kind, i),
           NEW x \in i..Last(i, kind)
    PROVE  /\ x - i + 1 \in 1..Size(kind)
           /\ S[x].of = n /\ S[x].part = ReplyParts[kind][x - i + 1]
<1> DEFINE m == x - i + 1
<1>1. m \in 1..Size(kind) /\ i + m - 1 = x
  BY DEF Last, Size
<1>2. S[i + m - 1] = [of |-> n, part |-> ReplyParts[kind][m]]
  BY <1>1 DEF Placed
<1>3. S[x] = [of |-> n, part |-> ReplyParts[kind][m]]
  BY <1>1, <1>2
<1> QED
  BY <1>1, <1>3

\* Replies to two commands do not overlap.
LEMMA Apart ==
    ASSUME NEW S, NEW n, NEW m, n # m, NEW k \in ReplyKinds, NEW l \in ReplyKinds,
           NEW i \in Nat, NEW j \in Nat, Placed(S, n, k, i), Placed(S, m, l, j)
    PROVE  Last(i, k) < j \/ Last(j, l) < i
<1>1. \A x \in i..Last(i, k) : S[x].of = n
  BY Within
<1>2. \A x \in j..Last(j, l) : S[x].of = m
  BY Within
<1> QED
  BY <1>1, <1>2 DEF Last, Size

\* Where something begins, the reply to a command begins.
LEMMA Beginning ==
    ASSUME NEW S, WellFormed(S), NEW i \in 1..Len(S), IsHead(S, i)
    PROVE  /\ S[i].of \in Commands
           /\ \E kind \in ReplyKinds : Placed(S, S[i].of, kind, i)
<1> USE DEF IsHead
<1>1. S[i].of \in Commands
  BY DEF WellFormed
<1>2. PICK j \in 1..Len(S), kind \in ReplyKinds : Placed(S, S[i].of, kind, j)
  BY <1>1 DEF WellFormed
<1>3. i \in j..Last(j, kind)
  BY <1>2 DEF Placed
<1>4. /\ i - j + 1 \in 1..Size(kind)
      /\ S[i].part = ReplyParts[kind][i - j + 1]
  BY <1>2, <1>3, Within
<1>5. i - j + 1 = 1
  BY <1>4, ReplyShape
<1>6. i = j
  BY <1>5
<1> QED
  BY <1>1, <1>2, <1>6

---------------------------------------------------------------------------
(* What the loop finds.                                                    *)

\* The least of a set of natural numbers.
LEMMA LeastIs ==
    ASSUME NEW T \in SUBSET Nat, NEW x \in T, \A y \in T : x <= y
    PROVE  Min(T) = x
<1>1. Min(T) \in T /\ \A y \in T : Min(T) <= y
  BY DEF Min
<1>2. PICK m : m = Min(T)
  OBVIOUS
<1>3. m \in Nat /\ x \in Nat /\ m <= x /\ x <= m
  BY <1>1, <1>2
<1> QED
  BY <1>2, <1>3

\* NCRP_BEGIN and the search for the end, on a reply that is there in part or as
\* a whole: its end is known from the length, or once it is there.
LEMMA ReplySeen ==
    ASSUME NEW S, WellFormed(S), NEW b, Prefix(b, S), NEW n, NEW kind \in ReplyKinds,
           NEW i \in 1..Len(b), Placed(S, n, kind, i)
    PROVE  /\ IsBinary(b, i) <=> kind = "binary" /\ i < Len(b)
           /\ Last(i, kind) <= Len(b) => Begins(b, i) /\ LastChar(b, i) = Last(i, kind)
           /\ Last(i, kind) > Len(b) =>
                LastChar(b, i) = IF IsBinary(b, i) THEN Last(i, kind) ELSE 0
<1>1. Len(b) \in Nat /\ Len(S) \in Nat /\ Len(b) <= Len(S) /\ i \in 1..Len(S)
  BY LenProperties DEF WellFormed, Prefix
<1>2. \A x \in i..Last(i, kind) :
        x <= Len(b) => b[x].part = ReplyParts[kind][x - i + 1]
  <2> SUFFICES ASSUME NEW x \in i..Last(i, kind), x <= Len(b)
               PROVE  b[x].part = ReplyParts[kind][x - i + 1]
    OBVIOUS
  <2>1. b[x] = S[x]
    BY <1>1 DEF Prefix
  <2> QED
    BY <1>1, <2>1, Within
<1>3. b[i].part = IF kind = "error" THEN "err" ELSE "ok"
  BY <1>1, <1>2, ReplyShape DEF Last, Size
<1>4. i < Len(b) => b[i + 1].part = IF kind = "binary" THEN "ff" ELSE "nl"
  <2> SUFFICES ASSUME i < Len(b) PROVE b[i + 1].part = ReplyParts[kind][2]
    BY ReplyShape
  <2>1. i + 1 \in i..Last(i, kind) /\ i + 1 <= Len(b) /\ (i + 1) - i + 1 = 2
    BY <1>1 DEF Last, Size
  <2> QED
    BY <1>2, <2>1
<1>5. IsBinary(b, i) <=> kind = "binary" /\ i < Len(b)
  BY <1>3, <1>4 DEF IsBinary, ReplyKinds
<1>6. CASE kind = "binary"
  <2>1. Last(i, kind) = i + 6
    BY <1>6 DEF Last, Size
  <2>2. IsBinary(b, i) => LastChar(b, i) = i + 6
    BY <1>1 DEF LastChar, DataLength
  <2>3. ~IsBinary(b, i) => LastChar(b, i) = 0
    <3> SUFFICES ASSUME ~IsBinary(b, i) PROVE LastChar(b, i) = 0
      OBVIOUS
    <3>1. (i + 1)..(Len(b) - 1) = {}
      BY <1>1, <1>5, <1>6
    <3> QED
      BY <3>1 DEF LastChar, EndOf
  <2>4. i + 6 <= Len(b) => Begins(b, i)
    BY <1>1, <1>3, <1>6 DEF Begins
  <2> QED
    BY <1>1, <1>5, <1>6, <2>1, <2>2, <2>3, <2>4
<1>7. CASE kind # "binary"
  <2> DEFINE ends == {j \in (i + 1)..(Len(b) - 1) :
                        b[j].part = "nl" /\ b[j + 1].part = "semi"}
  <2>1. Last(i, kind) = i + 2 /\ ~IsBinary(b, i)
    BY <1>1, <1>5, <1>7 DEF Last, Size
  <2>2. LastChar(b, i) = IF ends = {} THEN 0 ELSE Min(ends) + 1
    BY <2>1 DEF LastChar, EndOf
  <2>3. CASE i + 2 <= Len(b)
    <3>1. b[i + 1].part = "nl"
      BY <1>1, <1>4, <1>7, <2>3
    <3>2. b[i + 2].part = "semi"
      <4>1. i + 2 \in i..Last(i, kind) /\ (i + 2) - i + 1 = 3
        BY <1>1, <2>1
      <4>2. b[i + 2].part = ReplyParts[kind][(i + 2) - i + 1]
        BY <1>2, <2>3, <4>1
      <4> QED
        BY <1>7, <4>1, <4>2, ReplyShape
    <3>3. i + 1 \in ends /\ ends \in SUBSET Nat /\ \A y \in ends : i + 1 <= y
      <4>1. i + 1 \in (i + 1)..(Len(b) - 1) /\ (i + 1) + 1 = i + 2
        BY <1>1, <2>3
      <4>2. b[(i + 1) + 1].part = "semi"
        BY <3>2, <4>1
      <4>3. i + 1 \in ends
        BY <3>1, <4>1, <4>2
      <4>4. ends \subseteq (i + 1)..(Len(b) - 1)
        OBVIOUS
      <4>5. \A y \in (i + 1)..(Len(b) - 1) : y \in Nat /\ i + 1 <= y
        BY <1>1
      <4>6. \A y \in ends : y \in Nat /\ i + 1 <= y
        BY <4>4, <4>5
      <4> QED
        BY <4>3, <4>6
    <3>4. LastChar(b, i) = i + 2
      <4> HIDE DEF ends
      <4>1. Min(ends) = i + 1 /\ ends # {}
        BY <3>3, LeastIs
      <4>2. LastChar(b, i) = (i + 1) + 1
        BY <2>2, <4>1
      <4> QED
        BY <1>1, <4>2
    <3> QED
      BY <1>1, <1>3, <1>5, <2>1, <2>3, <3>4 DEF Begins
  <2>4. CASE i + 2 > Len(b)
    <3>1. (i + 1)..(Len(b) - 1) = {}
      BY <1>1, <2>4
    <3>2. LastChar(b, i) = 0
      BY <2>2, <3>1
    <3> QED
      BY <1>1, <1>5, <2>1, <2>4, <3>2
  <2> QED
    BY <1>1, <2>3, <2>4
<1> QED
  BY <1>6, <1>7

\* A reply has a head, and no other within it.
LEMMA OneHead ==
    ASSUME NEW S, NEW n, NEW kind \in ReplyKinds, NEW i \in Nat, Placed(S, n, kind, i)
    PROVE  /\ IsHead(S, i)
           /\ \A l \in (i + 1)..Last(i, kind) : ~IsHead(S, l)
           /\ i <= Last(i, kind) /\ Last(i, kind) \in Nat
<1>1. i <= Last(i, kind) /\ Last(i, kind) \in Nat
  BY DEF Last, Size
<1>2. \A x \in i..Last(i, kind) : IsHead(S, x) <=> x = i
  <2> SUFFICES ASSUME NEW x \in i..Last(i, kind)
               PROVE  IsHead(S, x) <=> x = i
    OBVIOUS
  <2>1. /\ x - i + 1 \in 1..Size(kind)
        /\ S[x].part = ReplyParts[kind][x - i + 1]
    BY Within
  <2>2. IsHead(S, x) <=> x - i + 1 = 1
    BY <2>1, ReplyShape DEF IsHead
  <2> QED
    BY <2>2
<1> QED
  BY <1>1, <1>2

\* The replies to one command are one.
LEMMA Unique ==
    ASSUME NEW S, NEW n, NEW k \in ReplyKinds, NEW l \in ReplyKinds,
           NEW i \in Nat \ {0}, NEW j \in Nat \ {0}, Len(S) \in Nat,
           Placed(S, n, k, i), Placed(S, n, l, j)
    PROVE  i = j /\ Last(i, k) = Last(j, l)
<1>1. /\ i <= Last(i, k) /\ Last(i, k) \in Nat /\ Last(i, k) <= Len(S)
      /\ j <= Last(j, l) /\ Last(j, l) \in Nat /\ Last(j, l) <= Len(S)
  BY OneHead DEF Placed
<1>2. S[i].of = n /\ S[Last(i, k)].of = n /\ S[j].of = n /\ S[Last(j, l)].of = n
  <2>1. i \in i..Last(i, k) /\ Last(i, k) \in i..Last(i, k)
    BY <1>1
  <2>2. j \in j..Last(j, l) /\ Last(j, l) \in j..Last(j, l)
    BY <1>1
  <2>3. S[i].of = n /\ S[Last(i, k)].of = n
    BY <2>1, Within
  <2>4. S[j].of = n /\ S[Last(j, l)].of = n
    BY <2>2, Within
  <2> QED
    BY <2>3, <2>4
<1>3. i \in j..Last(j, l) /\ Last(i, k) \in j..Last(j, l)
  BY <1>1, <1>2 DEF Placed
<1>4. j \in i..Last(i, k) /\ Last(j, l) \in i..Last(i, k)
  BY <1>1, <1>2 DEF Placed
<1> QED
  BY <1>1, <1>3, <1>4

\* Some reply is there to its end.
Ends(S, p) ==
    \E n \in Commands, kind \in ReplyKinds, i \in 1..Len(S) :
        Placed(S, n, kind, i) /\ Last(i, kind) <= p

\* r is the first reply of S, and ends within its first p symbols.
FirstReply(S, p, r) ==
    /\ r.from \in 1..p /\ r.upto <= p /\ r.wait = 0
    /\ \E n \in Commands, kind \in ReplyKinds :
         Placed(S, n, kind, r.from) /\ r.upto = Last(r.from, kind)
    /\ \A k \in 1..(r.from - 1) : ~IsHead(S, k)

\* The binary reply that lacks so many symbols behind the first p.
Lacking(S, p, wait) ==
    /\ wait \in 1..(DataLength + 2)
    /\ \E n \in Commands, i \in 1..p : Placed(S, n, "binary", i) /\ i + 6 = p + wait

\* The first reply is found once it is there, and if none is there none is found.
LEMMA Found ==
    ASSUME NEW S, WellFormed(S), NEW b, Prefix(b, S)
    PROVE  \/ FirstReply(S, Len(b), Extract(b)) /\ Extract(b).upto > 0
           \/ /\ ~Ends(S, Len(b)) /\ Extract(b).upto = 0
              /\ Extract(b).wait = 0 \/ Lacking(S, Len(b), Extract(b).wait)
<1> DEFINE starts == {i \in DOMAIN b : Begins(b, i)}
           p == Len(b)
<1>1. p \in Nat /\ Len(S) \in Nat /\ p <= Len(S) /\ DOMAIN b = 1..p
  BY LenProperties DEF WellFormed, Prefix
<1>2. \A i \in starts : i \in 1..p /\ IsHead(S, i)
  BY <1>1 DEF Prefix, Begins, IsHead
<1>3. ASSUME NEW m \in Commands, NEW l \in ReplyKinds, NEW j \in 1..Len(S),
             Placed(S, m, l, j), Last(j, l) <= p
      PROVE  j \in 1..p /\ IsHead(S, j)
  <2>1. j \in Nat /\ 1 <= j
    BY <1>1
  <2>2. IsHead(S, j) /\ j <= Last(j, l) /\ Last(j, l) \in Nat
    BY <1>3, <2>1, OneHead
  <2> QED
    BY <1>1, <1>3, <2>1, <2>2
<1>4. CASE \A k \in 1..p : ~IsHead(S, k)
  <2>1. starts = {}
    BY <1>2, <1>4
  <2>2. Extract(b) = [from |-> 0, upto |-> 0, wait |-> 0]
    BY <2>1 DEF Extract
  <2>3. ~Ends(S, p)
    BY <1>3, <1>4 DEF Ends
  <2> QED
    BY <2>2, <2>3
<1>5. CASE \E k \in 1..p : IsHead(S, k)
  <2>1. PICK h \in 1..Len(S) : IsHead(S, h) /\ \A l \in 1..(h - 1) : ~IsHead(S, l)
    <3>1. \E k \in (0 + 1)..Len(S) : IsHead(S, k)
      BY <1>1, <1>5
    <3>2. 0 \in 0..Len(S)
      BY <1>1
    <3> QED
      BY <3>1, <3>2 DEF WellFormed, Ordered
  <2>2. h \in 1..p
    BY <1>1, <1>5, <2>1
  <2>3. PICK kind \in ReplyKinds : Placed(S, S[h].of, kind, h)
    BY <2>1, Beginning
  <2>4. S[h].of \in Commands
    BY <2>1, Beginning
  <2>5. \A i \in starts : h <= i
    BY <1>2, <2>1, <2>2
  <2>6. starts \in SUBSET Nat
    BY <1>2
  <2>7. h \in Nat /\ h <= Last(h, kind) /\ Last(h, kind) \in Nat
    BY <2>2, <2>3, OneHead
  <2>8. CASE Last(h, kind) <= p
    <3>1. Begins(b, h) /\ LastChar(b, h) = Last(h, kind)
      BY <2>2, <2>3, <2>8, ReplySeen
    <3>2. h \in starts
      BY <1>1, <2>2, <3>1
    <3>3. Min(starts) = h
      BY <2>5, <2>6, <3>2, LeastIs
    <3>4. Extract(b) = [from |-> h, upto |-> Last(h, kind), wait |-> 0]
      BY <2>8, <3>1, <3>2, <3>3 DEF Extract
    <3> QED
      BY <2>1, <2>2, <2>3, <2>4, <2>7, <2>8, <3>4 DEF FirstReply
  <2>9. CASE ~(Last(h, kind) <= p)
    <3>1. \A l \in (h + 1)..p : ~IsHead(S, l)
      <4>1. \A l \in (h + 1)..Last(h, kind) : ~IsHead(S, l)
        BY <2>3, <2>7, OneHead
      <4> QED
        BY <1>1, <2>7, <2>9, <4>1
    <3>2. ~Ends(S, p)
      <4> SUFFICES ASSUME NEW m \in Commands, NEW l \in ReplyKinds, NEW j \in 1..Len(S),
                          Placed(S, m, l, j), Last(j, l) <= p
                   PROVE  FALSE
        BY DEF Ends
      <4>1. j \in 1..p /\ IsHead(S, j)
        BY <1>3
      <4>2. j = h
        BY <1>1, <2>1, <2>2, <3>1, <4>1
      <4>3. S[h].of = m
        <5>1. j \in Nat /\ j \in j..Last(j, l)
          BY <4>1, OneHead
        <5> QED
          BY <4>2, <5>1, Within
      <4>4. Last(j, l) = Last(h, kind)
        BY <1>1, <2>2, <2>3, <4>1, <4>3, Unique
      <4> QED
        BY <2>9, <4>4
    <3>3. CASE starts = {}
      <4>1. Extract(b) = [from |-> 0, upto |-> 0, wait |-> 0]
        BY <3>3 DEF Extract
      <4> QED
        BY <3>2, <4>1
    <3>4. CASE starts # {}
      <4>1. h \in starts
        BY <1>2, <2>5, <2>7, <3>1, <3>4, <1>1
      <4>2. Min(starts) = h
        BY <2>5, <2>6, <4>1, LeastIs
      <4>3. LastChar(b, h) = IF IsBinary(b, h) THEN Last(h, kind) ELSE 0
        BY <1>1, <2>2, <2>3, <2>7, <2>9, ReplySeen
      <4>4. CASE IsBinary(b, h)
        <5>1. kind = "binary"
          BY <2>2, <2>3, <4>4, ReplySeen
        <5>2. Extract(b) = [from |-> h, upto |-> 0, wait |-> Last(h, kind) - p]
          BY <2>9, <4>1, <4>2, <4>3, <4>4 DEF Extract
        <5>3. h + 2 <= p
          BY <4>1, <4>4 DEF Begins, IsBinary
        <5>4. Last(h, kind) = h + 6
          BY <5>1 DEF Last, Size
        <5>5. Last(h, kind) - p \in 1..(DataLength + 2)
          BY <1>1, <2>7, <2>9, <5>3, <5>4 DEF DataLength
        <5>6. h + 6 = p + (Last(h, kind) - p)
          BY <1>1, <2>7, <5>4
        <5>7. Lacking(S, p, Last(h, kind) - p)
          BY <2>2, <2>3, <2>4, <5>1, <5>5, <5>6 DEF Lacking
        <5> QED
          BY <3>2, <5>2, <5>7
      <4>5. CASE ~IsBinary(b, h)
        <5>1. Extract(b) = [from |-> h, upto |-> 0, wait |-> 0]
          BY <1>1, <4>1, <4>2, <4>3, <4>5 DEF Extract
        <5> QED
          BY <3>2, <5>1
      <4> QED
        BY <4>4, <4>5
    <3> QED
      BY <3>3, <3>4
  <2> QED
    BY <2>8, <2>9
<1> QED
  BY <1>4, <1>5

---------------------------------------------------------------------------
(* What is received, and what is not.                                      *)

\* The commands that have symbols in a sequence.
LEMMA InFrom ==
    ASSUME NEW q \in Seq(Symbol), NEW n
    PROVE  n \in From(q) <=> n \in Commands /\ \E k \in 1..Len(q) : q[k].of = n
BY LenProperties DEF From

\* The two parts of a stream.
LEMMA Parted ==
    ASSUME NEW b \in Seq(Symbol), NEW w \in Seq(Symbol)
    PROVE  /\ b \o w \in Seq(Symbol) /\ Prefix(b, b \o w)
           /\ Len(b) \in Nat /\ Len(w) \in Nat /\ Len(b \o w) = Len(b) + Len(w)
           /\ \A k \in 1..Len(b) : (b \o w)[k] = b[k]
           /\ \A k \in 1..Len(w) : (b \o w)[Len(b) + k] = w[k]
           /\ \A n : n \in From(b \o w) <=> n \in From(b) \/ n \in From(w)
<1> DEFINE S == b \o w
<1>1. /\ S \in Seq(Symbol) /\ Len(S) = Len(b) + Len(w)
      /\ \A i \in 1..(Len(b) + Len(w)) :
           S[i] = IF i <= Len(b) THEN b[i] ELSE w[i - Len(b)]
  BY ConcatProperties
<1>2. Len(b) \in Nat /\ Len(w) \in Nat
  BY LenProperties
<1> HIDE DEF S
<1>3. \A k \in 1..Len(b) : S[k] = b[k]
  BY <1>1, <1>2
<1>4. \A k \in 1..Len(w) : S[Len(b) + k] = w[k]
  <2> SUFFICES ASSUME NEW k \in 1..Len(w) PROVE S[Len(b) + k] = w[k]
    OBVIOUS
  <2>1. Len(b) + k \in 1..(Len(b) + Len(w)) /\ ~(Len(b) + k <= Len(b))
        /\ (Len(b) + k) - Len(b) = k
    BY <1>2
  <2>2. S[Len(b) + k] = w[(Len(b) + k) - Len(b)]
    BY <1>1, <2>1
  <2> QED
    BY <2>1, <2>2
<1>5. ASSUME NEW n PROVE n \in From(S) <=> n \in From(b) \/ n \in From(w)
  <2>1. ASSUME NEW k \in 1..Len(S), S[k].of = n
        PROVE  (\E i \in 1..Len(b) : b[i].of = n) \/ (\E i \in 1..Len(w) : w[i].of = n)
    <3>1. CASE k <= Len(b)
      BY <1>1, <1>2, <1>3, <2>1, <3>1
    <3>2. CASE ~(k <= Len(b))
      <4>1. k - Len(b) \in 1..Len(w) /\ S[k] = w[k - Len(b)]
        BY <1>1, <1>2, <3>2
      <4> QED
        BY <2>1, <4>1
    <3> QED
      BY <3>1, <3>2
  <2>2. ASSUME NEW k \in 1..Len(b) PROVE k \in 1..Len(S) /\ S[k] = b[k]
    BY <1>1, <1>2, <1>3
  <2>3. ASSUME NEW k \in 1..Len(w) PROVE Len(b) + k \in 1..Len(S) /\ S[Len(b) + k] = w[k]
    BY <1>1, <1>2, <1>4
  <2> QED
    BY <1>1, <2>1, <2>2, <2>3, InFrom
<1>6. Prefix(b, S)
  BY <1>1, <1>2, <1>3 DEF Prefix
<1> QED
  BY <1>1, <1>2, <1>3, <1>4, <1>5, <1>6 DEF S

\* Symbols of a reply were received if its first was, and are to be received if
\* its last is; so a reply is in AsyncProtocol's buffer once its last symbol is.
LEMMA Received ==
    ASSUME NEW b \in Seq(Symbol), NEW w \in Seq(Symbol), WellFormed(b \o w),
           NEW n \in Commands, NEW kind \in ReplyKinds, NEW i \in 1..Len(b \o w),
           Placed(b \o w, n, kind, i)
    PROVE  /\ n \in From(b) <=> i <= Len(b)
           /\ n \in From(w) <=> Last(i, kind) > Len(b)
           /\ n \in From(b) \ From(w) <=> Last(i, kind) <= Len(b)
<1> DEFINE S == b \o w
<1>1. /\ S \in Seq(Symbol) /\ Len(b) \in Nat /\ Len(w) \in Nat
      /\ Len(S) = Len(b) + Len(w)
      /\ \A k \in 1..Len(b) : S[k] = b[k]
      /\ \A k \in 1..Len(w) : S[Len(b) + k] = w[k]
  BY Parted
<1>0. Placed(S, n, kind, i)
  OBVIOUS
<1> HIDE DEF S
<1>2. /\ i \in Nat \ {0} /\ i <= Last(i, kind) /\ Last(i, kind) \in Nat
      /\ Last(i, kind) <= Len(S)
  <2>1. i \in Nat \ {0}
    BY <1>1 DEF S
  <2> QED
    BY <1>0, <2>1, OneHead DEF Placed
<1>3. S[i].of = n /\ S[Last(i, kind)].of = n
  <2>1. i \in Nat /\ i \in i..Last(i, kind) /\ Last(i, kind) \in i..Last(i, kind)
    BY <1>2
  <2>2. S[i].of = n
    BY <1>0, <2>1, Within
  <2>3. S[Last(i, kind)].of = n
    BY <1>0, <2>1, Within
  <2> QED
    BY <2>2, <2>3
<1>4. \A k \in 1..Len(S) : S[k].of = n => i <= k /\ k <= Last(i, kind)
  <2>1. \A k \in 1..Len(S) : S[k].of = n => k \in i..Last(i, kind)
    BY <1>0 DEF Placed
  <2> QED
    BY <1>2, <2>1
<1>5. n \in From(b) <=> i <= Len(b)
  <2>1. ASSUME n \in From(b) PROVE i <= Len(b)
    <3>1. PICK k \in 1..Len(b) : b[k].of = n
      BY <2>1, InFrom
    <3>2. k \in 1..Len(S) /\ S[k].of = n
      BY <1>1, <3>1
    <3> QED
      BY <1>1, <1>2, <1>4, <3>1, <3>2
  <2>2. ASSUME i <= Len(b) PROVE n \in From(b)
    BY <1>1, <1>2, <1>3, <2>2, InFrom
  <2> QED
    BY <2>1, <2>2
<1>6. n \in From(w) <=> Last(i, kind) > Len(b)
  <2>1. ASSUME n \in From(w) PROVE Last(i, kind) > Len(b)
    <3>1. PICK k \in 1..Len(w) : w[k].of = n
      BY <2>1, InFrom
    <3>2. Len(b) + k \in 1..Len(S) /\ S[Len(b) + k].of = n
      BY <1>1, <3>1
    <3>3. Len(b) + k <= Last(i, kind)
      BY <1>4, <3>2
    <3> QED
      BY <1>1, <1>2, <3>1, <3>3
  <2>2. ASSUME Last(i, kind) > Len(b) PROVE n \in From(w)
    <3> DEFINE k == Last(i, kind) - Len(b)
    <3>1. k \in 1..Len(w) /\ Len(b) + k = Last(i, kind)
      BY <1>1, <1>2, <2>2
    <3>2. S[Len(b) + k] = w[k]
      BY <1>1, <3>1
    <3>3. w[k].of = n
      BY <1>3, <3>1, <3>2
    <3> QED
      BY <3>1, <3>3, InFrom
  <2> QED
    BY <2>1, <2>2
<1> QED
  BY <1>1, <1>2, <1>5, <1>6

\* Whether the loop has a response to work on, and what it is.
LEMMA Parsed ==
    ASSUME NEW b \in Seq(Symbol), NEW w \in Seq(Symbol), WellFormed(b \o w)
    PROVE  /\ Extract(b).upto \in Nat /\ Extract(b).wait \in 0..(DataLength + 2)
           /\ Extract(b).upto > 0 =>
                /\ FirstReply(b \o w, Len(b), Extract(b))
                /\ From(b) \ From(w) # {}
           /\ Extract(b).upto = 0 =>
                /\ From(b) \ From(w) = {}
                /\ Extract(b).wait = 0 \/ Lacking(b \o w, Len(b), Extract(b).wait)
<1> DEFINE S == b \o w
           r == Extract(b)
<1>1. /\ S \in Seq(Symbol) /\ Prefix(b, S) /\ Len(b) \in Nat /\ Len(w) \in Nat
      /\ Len(S) = Len(b) + Len(w)
  BY Parted
<1>2. \/ FirstReply(S, Len(b), r) /\ r.upto > 0
      \/ /\ ~Ends(S, Len(b)) /\ r.upto = 0
         /\ r.wait = 0 \/ Lacking(S, Len(b), r.wait)
  BY <1>1, Found
<1>3. Ends(S, Len(b)) <=> From(b) \ From(w) # {}
  <2>1. ASSUME NEW n \in From(b) \ From(w) PROVE Ends(S, Len(b))
    <3>1. n \in Commands /\ n \in From(S)
      BY <2>1, InFrom, Parted
    <3>2. PICK k \in 1..Len(S) : S[k].of = n
      BY <1>1, <3>1, InFrom
    <3>3. PICK i \in 1..Len(S), kind \in ReplyKinds : Placed(S, n, kind, i)
      BY <3>1, <3>2 DEF WellFormed
    <3>4. Last(i, kind) <= Len(b)
      BY <2>1, <3>1, <3>3, Received
    <3> QED
      BY <3>1, <3>3, <3>4 DEF Ends
  <2>2. ASSUME Ends(S, Len(b)) PROVE From(b) \ From(w) # {}
    <3>1. PICK n \in Commands, kind \in ReplyKinds, i \in 1..Len(S) :
            Placed(S, n, kind, i) /\ Last(i, kind) <= Len(b)
      BY <2>2 DEF Ends
    <3>2. n \in From(b) \ From(w)
      BY <3>1, Received
    <3> QED
      BY <3>2
  <2> QED
    BY <2>1, <2>2
<1> HIDE DEF S, r
<1>4. CASE FirstReply(S, Len(b), r) /\ r.upto > 0
  <2>1. r.from \in 1..Len(b) /\ r.upto <= Len(b) /\ r.wait = 0
    BY <1>4 DEF FirstReply
  <2>2. PICK n \in Commands, kind \in ReplyKinds :
          Placed(S, n, kind, r.from) /\ r.upto = Last(r.from, kind)
    BY <1>4 DEF FirstReply
  <2>3. r.from \in Nat /\ r.from \in 1..Len(S) /\ r.wait \in 0..(DataLength + 2)
    BY <1>1, <2>1 DEF DataLength
  <2>4. r.upto \in Nat
    BY <2>2, <2>3, OneHead
  <2>5. Ends(S, Len(b))
    BY <2>1, <2>2, <2>3 DEF Ends
  <2> QED
    BY <1>3, <1>4, <2>3, <2>4, <2>5 DEF S, r
<1>5. CASE /\ ~Ends(S, Len(b)) /\ r.upto = 0
           /\ r.wait = 0 \/ Lacking(S, Len(b), r.wait)
  <2>1. r.wait \in 0..(DataLength + 2)
    BY <1>5 DEF Lacking, DataLength
  <2> QED
    BY <1>3, <1>5, <2>1 DEF S, r
<1> QED
  BY <1>2, <1>4, <1>5 DEF S, r

---------------------------------------------------------------------------
(* How a stream changes.                                                   *)

\* T is S without its first q symbols.
Rest(S, q, T) ==
    /\ S \in Seq(Symbol) /\ T \in Seq(Symbol) /\ q \in 0..Len(S)
    /\ Len(T) = Len(S) - q
    /\ \A k \in 1..Len(T) : T[k] = S[q + k]

\* Symbols are cut off at the front.
LEMMA CutOff ==
    ASSUME NEW S \in Seq(Symbol), NEW q \in 0..Len(S)
    PROVE  Rest(S, q, SubSeq(S, q + 1, Len(S)))
<1>1. Len(S) \in Nat /\ q \in Int /\ q + 1 \in Int /\ Len(S) \in Int
  BY LenProperties
<1>2. \A k \in (q + 1)..Len(S) : S[k] \in Symbol
  BY <1>1, ElementOfSeq
<1>3. /\ SubSeq(S, q + 1, Len(S)) \in Seq(Symbol)
      /\ Len(SubSeq(S, q + 1, Len(S)))
           = IF q + 1 <= Len(S) THEN Len(S) - (q + 1) + 1 ELSE 0
      /\ \A k \in 1..(Len(S) - (q + 1) + 1) :
           SubSeq(S, q + 1, Len(S))[k] = S[(q + 1) + k - 1]
  BY <1>1, <1>2, SubSeqProperties
<1>4. Len(S) - (q + 1) + 1 = Len(S) - q
  BY <1>1
<1>5. \A k \in 1..(Len(S) - q) : (q + 1) + k - 1 = q + k
  BY <1>1
<1> QED
  BY <1>1, <1>3, <1>4, <1>5 DEF Rest

\* A reply that was not cut is as it was.
LEMMA StillPlaced ==
    ASSUME NEW S, NEW q, NEW T, Rest(S, q, T), NEW n, NEW kind \in ReplyKinds,
           NEW i \in 1..Len(S), i > q, Placed(S, n, kind, i)
    PROVE  /\ i - q \in 1..Len(T) /\ Last(i - q, kind) = Last(i, kind) - q
           /\ Placed(T, n, kind, i - q)
<1>1. /\ Len(S) \in Nat /\ Len(T) = Len(S) - q /\ q \in 0..Len(S)
      /\ \A k \in 1..Len(T) : T[k] = S[q + k]
  BY LenProperties DEF Rest
<1>2. i - q \in 1..Len(T) /\ Last(i - q, kind) = Last(i, kind) - q
  BY <1>1 DEF Last, Size
<1>3. Last(i, kind) <= Len(S) /\ Last(i, kind) = i + Size(kind) - 1 /\ Size(kind) \in 1..7
  BY DEF Placed, Last, Size
<1>4. ASSUME NEW m \in 1..Size(kind)
      PROVE  T[(i - q) + m - 1] = [of |-> n, part |-> ReplyParts[kind][m]]
  <2>0. /\ i \in Nat /\ q \in Nat /\ m \in Nat /\ 1 <= m /\ m <= Size(kind)
        /\ Size(kind) \in Nat /\ i + Size(kind) - 1 <= Len(S) /\ q + 1 <= i
    BY <1>1, <1>3
  <2>1. (i - q) + m - 1 \in 1..Len(T) /\ q + ((i - q) + m - 1) = i + m - 1
    BY <1>1, <2>0
  <2>2. T[(i - q) + m - 1] = S[q + ((i - q) + m - 1)]
    BY <1>1, <2>1
  <2>3. S[i + m - 1] = [of |-> n, part |-> ReplyParts[kind][m]]
    BY DEF Placed
  <2> QED
    BY <2>1, <2>2, <2>3
<1>5. ASSUME NEW k \in 1..Len(T), T[k].of = n
      PROVE  k \in (i - q)..Last(i - q, kind)
  <2>1. q + k \in 1..Len(S) /\ S[q + k].of = n
    BY <1>1, <1>5
  <2>2. q + k \in i..Last(i, kind)
    BY <2>1 DEF Placed
  <2>3. i \in Nat /\ q \in Nat /\ k \in Nat /\ Last(i, kind) \in Nat
    BY <1>1, <1>3
  <2>4. i <= q + k /\ q + k <= Last(i, kind)
    BY <2>2, <2>3
  <2>5. i - q <= k /\ k <= Last(i, kind) - q
    BY <2>3, <2>4
  <2> QED
    BY <1>2, <2>3, <2>5
<1>6. Last(i - q, kind) <= Len(T)
  BY <1>1, <1>2, <1>3
<1> QED
  BY <1>2, <1>4, <1>5, <1>6 DEF Placed

\* What is left of a stream, once it is cut between two responses.
LEMMA CutKeeps ==
    ASSUME NEW S, WellFormed(S), NEW q, NEW T, Rest(S, q, T),
           \A n \in Commands, kind \in ReplyKinds, i \in 1..Len(S) :
               Placed(S, n, kind, i) => Last(i, kind) <= q \/ i > q
    PROVE  WellFormed(T)
<1>1. /\ Len(S) \in Nat /\ Len(T) \in Nat /\ Len(T) = Len(S) - q /\ q \in 0..Len(S)
      /\ T \in Seq(Symbol)
      /\ \A k \in 1..Len(T) : T[k] = S[q + k]
  BY LenProperties DEF Rest
<1>2. \A k \in 1..Len(T) : q + k \in 1..Len(S) /\ (IsHead(T, k) <=> IsHead(S, q + k))
  BY <1>1 DEF IsHead
<1>3. ASSUME NEW k \in 1..Len(T), T[k].of \in Commands
      PROVE  \E i \in 1..Len(T), kind \in ReplyKinds : Placed(T, T[k].of, kind, i)
  <2>1. q + k \in 1..Len(S) /\ T[k] = S[q + k]
    BY <1>1, <1>2
  <2>2. PICK i \in 1..Len(S), kind \in ReplyKinds : Placed(S, T[k].of, kind, i)
    BY <1>3, <2>1 DEF WellFormed
  <2>3. q + k \in i..Last(i, kind)
    BY <2>1, <2>2 DEF Placed
  <2>4. i > q
    <3>1. Last(i, kind) <= q \/ i > q
      BY <1>3, <2>2
    <3>2. Last(i, kind) \in Int /\ Last(i, kind) >= q + k
      BY <1>1, <2>3 DEF Last, Size
    <3> QED
      BY <1>1, <3>1, <3>2
  <2>5. i - q \in 1..Len(T) /\ Placed(T, T[k].of, kind, i - q)
    BY <2>2, <2>4, StillPlaced
  <2> QED
    BY <2>5
<1>4. ASSUME NEW k \in 1..Len(T), T[k].of \notin Commands PROVE ~IsHead(T, k)
  BY <1>1, <1>2, <1>4 DEF WellFormed
<1>5. ASSUME NEW p \in 0..Len(T), NEW h \in (p + 1)..Len(T), IsHead(T, h)
      PROVE  \E k \in (p + 1)..Len(T) :
                 IsHead(T, k) /\ \A l \in (p + 1)..(k - 1) : ~IsHead(T, l)
  <2>1. /\ q + p \in 0..Len(S) /\ q + h \in ((q + p) + 1)..Len(S)
        /\ IsHead(S, q + h)
    BY <1>1, <1>2, <1>5
  <2>2. PICK k \in ((q + p) + 1)..Len(S) :
          IsHead(S, k) /\ \A l \in ((q + p) + 1)..(k - 1) : ~IsHead(S, l)
    BY <2>1 DEF WellFormed, Ordered
  <2>3. k - q \in (p + 1)..Len(T) /\ k - q \in 1..Len(T) /\ q + (k - q) = k
    BY <1>1
  <2>4. IsHead(T, k - q)
    BY <1>2, <2>2, <2>3
  <2>5. ASSUME NEW l \in (p + 1)..((k - q) - 1) PROVE ~IsHead(T, l)
    <3>1. l \in 1..Len(T) /\ q + l \in ((q + p) + 1)..(k - 1)
      BY <1>1, <2>3
    <3> QED
      BY <1>2, <2>2, <3>1
  <2> QED
    BY <2>3, <2>4, <2>5
<1> QED
  BY <1>1, <1>3, <1>4, <1>5 DEF WellFormed, Ordered

\* S with more behind it.
Longer(S, more, T) ==
    /\ S \in Seq(Symbol) /\ more \in Seq(Symbol) /\ T \in Seq(Symbol)
    /\ Len(T) = Len(S) + Len(more)
    /\ \A k \in 1..Len(S) : T[k] = S[k]
    /\ \A k \in 1..Len(more) : T[Len(S) + k] = more[k]

\* A reply stays where it is when other symbols are added.
LEMMA PlacedLonger ==
    ASSUME NEW S, NEW more, NEW T, Longer(S, more, T), NEW n, n \notin From(more),
           n \in Commands, NEW kind \in ReplyKinds, NEW i \in 1..Len(S),
           Placed(S, n, kind, i)
    PROVE  Placed(T, n, kind, i)
<1>1. /\ Len(S) \in Nat /\ Len(more) \in Nat /\ Len(T) = Len(S) + Len(more)
      /\ \A k \in 1..Len(S) : T[k] = S[k]
      /\ \A k \in 1..Len(more) : T[Len(S) + k] = more[k]
  BY LenProperties DEF Longer
<1>2. Last(i, kind) <= Len(S) /\ Last(i, kind) = i + Size(kind) - 1 /\ Size(kind) \in 1..7
  BY DEF Placed, Last, Size
<1>3. ASSUME NEW m \in 1..Size(kind)
      PROVE  T[i + m - 1] = [of |-> n, part |-> ReplyParts[kind][m]]
  <2>1. i + m - 1 \in 1..Len(S)
    BY <1>1, <1>2
  <2>2. T[i + m - 1] = S[i + m - 1]
    BY <1>1, <2>1
  <2> QED
    BY <2>2 DEF Placed
<1>4. ASSUME NEW k \in 1..Len(T), T[k].of = n PROVE k \in i..Last(i, kind)
  <2>1. CASE k <= Len(S)
    <3>1. k \in 1..Len(S) /\ S[k].of = n
      BY <1>1, <1>4, <2>1
    <3> QED
      BY <3>1 DEF Placed
  <2>2. CASE k > Len(S)
    <3>1. k - Len(S) \in 1..Len(more) /\ Len(S) + (k - Len(S)) = k
      BY <1>1, <2>2
    <3>2. more[k - Len(S)].of = n
      BY <1>1, <1>4, <3>1
    <3>3. n \in From(more)
      BY <3>1, <3>2, InFrom DEF Longer
    <3> QED
      BY <3>3
  <2> QED
    BY <1>1, <2>1, <2>2
<1>5. Last(i, kind) <= Len(T)
  BY <1>1, <1>2
<1> QED
  BY <1>3, <1>4, <1>5 DEF Placed

\* A command with a reply in a stream has symbols there.
LEMMA Present ==
    ASSUME NEW S \in Seq(Symbol), NEW n \in Commands, NEW kind \in ReplyKinds,
           NEW i \in 1..Len(S), Placed(S, n, kind, i)
    PROVE  n \in From(S)
<1>1. i \in Nat /\ i \in i..Last(i, kind)
  BY DEF Last, Size
<1>2. S[i].of = n
  BY <1>1, Within
<1> QED
  BY <1>2, InFrom

\* What a reply lacks is the same when other symbols come behind it.
LEMMA LackingLonger ==
    ASSUME NEW S, NEW more, NEW T, Longer(S, more, T), NEW p \in 0..Len(S), NEW wait,
           Lacking(S, p, wait), \A n \in From(S) : n \notin From(more)
    PROVE  Lacking(T, p, wait)
<1>1. S \in Seq(Symbol) /\ Len(S) \in Nat
  BY LenProperties DEF Longer
<1>2. PICK n \in Commands, i \in 1..p :
        Placed(S, n, "binary", i) /\ i + 6 = p + wait
  BY DEF Lacking
<1>3. i \in 1..Len(S) /\ "binary" \in ReplyKinds
  BY <1>1 DEF ReplyKinds
<1>4. n \notin From(more)
  BY <1>1, <1>2, <1>3, Present
<1>5. Placed(T, n, "binary", i)
  BY <1>2, <1>3, <1>4, PlacedLonger
<1> QED
  BY <1>2, <1>5 DEF Lacking

\* Two sequences in a row.
LEMMA Joined ==
    ASSUME NEW S \in Seq(Symbol), NEW more \in Seq(Symbol)
    PROVE  Longer(S, more, S \o more)
BY Parted DEF Longer

\* The symbols of the gateway's reply to a command.
LEMMA ReplySymbols ==
    ASSUME NEW n \in Commands, NEW kind \in ReplyKinds
    PROVE  /\ Reply(n, kind) \in Seq(Symbol) /\ Len(Reply(n, kind)) = Size(kind)
           /\ Reply(n, kind) # <<>>
           /\ \A m \in 1..Size(kind) :
                Reply(n, kind)[m] = [of |-> n, part |-> ReplyParts[kind][m]]
           /\ From(Reply(n, kind)) = {n}
<1> DEFINE parts == ReplyParts[kind]
           seq == Reply(n, kind)
<1>1. /\ parts \in Seq(Parts) /\ Len(parts) = Size(kind) /\ Size(kind) \in 1..7
  BY ReplyShape DEF Size
<1>2. DOMAIN parts = 1..Size(kind) /\ \A m \in 1..Size(kind) : parts[m] \in Parts
  BY <1>1
<1>3. seq = [m \in 1..Size(kind) |-> [of |-> n, part |-> parts[m]]]
  BY <1>2 DEF Reply, Symbols
<1>4. n \in 0..(MaxCommands + MaxOutput)
  BY BoundsAssumption, MaxOutputAssumption DEF Commands
<1>5. seq \in [1..Size(kind) -> Symbol]
  BY <1>2, <1>3, <1>4 DEF Symbol
<1>6. seq \in Seq(Symbol) /\ Len(seq) = Size(kind)
  <2> HIDE DEF seq
  <2>1. Size(kind) \in Nat
    BY <1>1
  <2>2. seq \in Seq(Symbol)
    BY <1>5, <2>1
  <2>3. DOMAIN seq = 1..Size(kind) /\ DOMAIN seq = 1..Len(seq) /\ Len(seq) \in Nat
    BY <1>5, <2>2, LenProperties
  <2> QED
    BY <2>1, <2>2, <2>3
<1>7. \A m \in 1..Size(kind) : seq[m] = [of |-> n, part |-> parts[m]]
  BY <1>3
<1> HIDE DEF seq
<1>8. \A m \in From(seq) : m = n
  <2> SUFFICES ASSUME NEW m \in From(seq) PROVE m = n
    OBVIOUS
  <2>1. PICK k \in 1..Len(seq) : seq[k].of = m
    BY <1>6, InFrom
  <2> QED
    BY <1>6, <1>7, <2>1
<1>9. n \in From(seq)
  <2>1. 1 \in 1..Len(seq) /\ seq[1].of = n
    BY <1>1, <1>6, <1>7
  <2> QED
    BY <1>6, <2>1, InFrom
<1>10. seq # <<>>
  BY <1>1, <1>6
<1> QED
  BY <1>6, <1>7, <1>8, <1>9, <1>10 DEF seq

\* The gateway's next reply joins the stream.
LEMMA ReplyKeeps ==
    ASSUME NEW S, WellFormed(S), NEW n \in Commands, n \notin From(S),
           NEW kind \in ReplyKinds, NEW T, Longer(S, Reply(n, kind), T)
    PROVE  WellFormed(T)
<1> DEFINE more == Reply(n, kind)
<1>1. /\ more \in Seq(Symbol) /\ Len(more) = Size(kind) /\ From(more) = {n}
      /\ \A m \in 1..Size(kind) : more[m] = [of |-> n, part |-> ReplyParts[kind][m]]
  BY ReplySymbols
<1>2. Longer(S, more, T)
  OBVIOUS
<1> HIDE DEF more
<1>3. /\ S \in Seq(Symbol) /\ T \in Seq(Symbol)
      /\ Len(S) \in Nat /\ Len(T) \in Nat /\ Len(T) = Len(S) + Size(kind)
      /\ Size(kind) \in 1..7
      /\ \A k \in 1..Len(S) : T[k] = S[k]
      /\ \A m \in 1..Size(kind) :
           T[Len(S) + m] = [of |-> n, part |-> ReplyParts[kind][m]]
  BY <1>1, <1>2, LenProperties DEF Longer, Size
<1>4. \A k \in 1..Len(S) : S[k].of # n
  BY <1>3, InFrom
<1>5. Placed(T, n, kind, Len(S) + 1)
  <2>1. Last(Len(S) + 1, kind) = Len(T)
    BY <1>3 DEF Last
  <2>2. ASSUME NEW m \in 1..Size(kind)
        PROVE  T[(Len(S) + 1) + m - 1] = [of |-> n, part |-> ReplyParts[kind][m]]
    <3>1. (Len(S) + 1) + m - 1 = Len(S) + m
      BY <1>3
    <3> QED
      BY <1>3, <3>1
  <2>3. ASSUME NEW k \in 1..Len(T), T[k].of = n PROVE k \in (Len(S) + 1)..Len(T)
    BY <1>3, <1>4, <2>3
  <2>4. Last(Len(S) + 1, kind) <= Len(T)
    BY <1>3, <2>1
  <2> QED
    BY <2>1, <2>2, <2>3, <2>4 DEF Placed
<1>6. \A k \in 1..Len(T) :
         \/ k \in 1..Len(S)
         \/ \E m \in 1..Size(kind) : k = Len(S) + m
  <2> SUFFICES ASSUME NEW k \in 1..Len(T), k \notin 1..Len(S)
               PROVE  \E m \in 1..Size(kind) : k = Len(S) + m
    OBVIOUS
  <2>1. k - Len(S) \in 1..Size(kind) /\ k = Len(S) + (k - Len(S))
    BY <1>3
  <2> QED
    BY <2>1
<1>7. ASSUME NEW k \in 1..Len(T)
      PROVE  IF T[k].of \in Commands
             THEN \E i \in 1..Len(T), l \in ReplyKinds : Placed(T, T[k].of, l, i)
             ELSE ~IsHead(T, k)
  <2>1. CASE k \in 1..Len(S)
    <3>1. T[k] = S[k] /\ S[k].of # n
      BY <1>3, <1>4, <2>1
    <3>2. CASE S[k].of \in Commands
      <4>1. PICK i \in 1..Len(S), l \in ReplyKinds : Placed(S, S[k].of, l, i)
        BY <2>1, <3>2 DEF WellFormed
      <4>2. Placed(T, S[k].of, l, i)
        BY <1>1, <1>2, <3>1, <3>2, <4>1, PlacedLonger
      <4>3. i \in 1..Len(T)
        BY <1>3
      <4>4. Placed(T, T[k].of, l, i)
        BY <3>1, <4>2
      <4> QED
        BY <3>1, <3>2, <4>3, <4>4
    <3>3. CASE S[k].of \notin Commands
      BY <2>1, <3>1, <3>3 DEF WellFormed, IsHead
    <3> QED
      BY <3>2, <3>3
  <2>2. CASE \E m \in 1..Size(kind) : k = Len(S) + m
    <3>1. PICK m \in 1..Size(kind) : k = Len(S) + m
      BY <2>2
    <3>2. T[Len(S) + m] = [of |-> n, part |-> ReplyParts[kind][m]]
      BY <1>3
    <3>3. T[k].of = n
      BY <3>1, <3>2
    <3>4. Len(S) + 1 \in 1..Len(T)
      BY <1>3
    <3> QED
      BY <1>5, <3>3, <3>4
  <2> QED
    BY <1>6, <2>1, <2>2
<1>8. /\ \A k \in 1..Len(S) : IsHead(T, k) <=> IsHead(S, k)
      /\ \A m \in 1..Size(kind) : IsHead(T, Len(S) + m) <=> m = 1
  <2>1. ASSUME NEW k \in 1..Len(S) PROVE IsHead(T, k) <=> IsHead(S, k)
    BY <1>3 DEF IsHead
  <2>2. ASSUME NEW m \in 1..Size(kind) PROVE IsHead(T, Len(S) + m) <=> m = 1
    <3>1. T[Len(S) + m] = [of |-> n, part |-> ReplyParts[kind][m]]
      BY <1>3
    <3>2. T[Len(S) + m].part = ReplyParts[kind][m]
      BY <3>1
    <3>3. ReplyParts[kind][m] \in {"ok", "err"} <=> m = 1
      BY ReplyShape
    <3> QED
      BY <3>2, <3>3 DEF IsHead
  <2> QED
    BY <2>1, <2>2
<1>9. ASSUME NEW p \in 0..Len(T), NEW h \in (p + 1)..Len(T), IsHead(T, h)
      PROVE  \E k \in (p + 1)..Len(T) :
                 IsHead(T, k) /\ \A l \in (p + 1)..(k - 1) : ~IsHead(T, l)
  <2>1. CASE \E k \in (p + 1)..Len(S) : IsHead(S, k)
    <3>1. p \in 0..Len(S)
      BY <1>3, <2>1
    <3>2. PICK k \in (p + 1)..Len(S) :
            IsHead(S, k) /\ \A l \in (p + 1)..(k - 1) : ~IsHead(S, l)
      BY <2>1, <3>1 DEF WellFormed, Ordered
    <3>3. k \in (p + 1)..Len(T) /\ k \in 1..Len(S)
      BY <1>3, <3>1
    <3>4. \A l \in (p + 1)..(k - 1) : l \in 1..Len(S)
      BY <1>3, <3>1, <3>3
    <3> QED
      BY <1>8, <3>2, <3>3, <3>4
  <2>2. CASE ~\E k \in (p + 1)..Len(S) : IsHead(S, k)
    <3>1. h \notin 1..Len(S) /\ h \in 1..Len(T)
      BY <1>3, <1>8, <1>9, <2>2
    <3>2. h = Len(S) + 1
      BY <1>6, <1>8, <1>9, <3>1
    <3>3. ASSUME NEW l \in (p + 1)..(h - 1) PROVE ~IsHead(T, l)
      <4>1. l \in (p + 1)..Len(S) /\ l \in 1..Len(S)
        BY <1>3, <3>2
      <4> QED
        BY <1>8, <2>2, <4>1
    <3> QED
      BY <1>9, <3>3
  <2> QED
    BY <2>1, <2>2
<1> QED
  BY <1>3, <1>7, <1>9 DEF WellFormed, Ordered

\* A symbol of output joins the stream.
LEMMA OutputKeeps ==
    ASSUME NEW S, WellFormed(S), NEW x \in Symbol, x.of \notin Commands,
           x.part = "semi", NEW T, Longer(S, <<x>>, T)
    PROVE  WellFormed(T)
<1>1. /\ S \in Seq(Symbol) /\ T \in Seq(Symbol)
      /\ Len(S) \in Nat /\ Len(T) \in Nat /\ Len(T) = Len(S) + 1
      /\ \A k \in 1..Len(S) : T[k] = S[k]
      /\ T[Len(S) + 1] = x
  BY LenProperties DEF Longer
<1>2. From(<<x>>) = {}
  BY DEF From
<1>3. /\ \A k \in 1..Len(S) : IsHead(T, k) <=> IsHead(S, k)
      /\ ~IsHead(T, Len(S) + 1)
  BY <1>1 DEF IsHead
<1>4. ASSUME NEW k \in 1..Len(T)
      PROVE  IF T[k].of \in Commands
             THEN \E i \in 1..Len(T), l \in ReplyKinds : Placed(T, T[k].of, l, i)
             ELSE ~IsHead(T, k)
  <2>1. CASE k \in 1..Len(S)
    <3>1. T[k] = S[k]
      BY <1>1, <2>1
    <3>2. CASE S[k].of \in Commands
      <4>1. PICK i \in 1..Len(S), l \in ReplyKinds : Placed(S, S[k].of, l, i)
        BY <2>1, <3>2 DEF WellFormed
      <4>2. Placed(T, S[k].of, l, i)
        BY <1>2, <3>2, <4>1, PlacedLonger
      <4>3. i \in 1..Len(T)
        BY <1>1
      <4>4. Placed(T, T[k].of, l, i)
        BY <3>1, <4>2
      <4> QED
        BY <3>1, <3>2, <4>3, <4>4
    <3>3. CASE S[k].of \notin Commands
      BY <2>1, <3>1, <3>3 DEF WellFormed, IsHead
    <3> QED
      BY <3>2, <3>3
  <2>2. CASE k = Len(S) + 1
    BY <1>1, <1>3, <2>2
  <2> QED
    BY <1>1, <2>1, <2>2
<1>5. ASSUME NEW p \in 0..Len(T), NEW h \in (p + 1)..Len(T), IsHead(T, h)
      PROVE  \E k \in (p + 1)..Len(T) :
                 IsHead(T, k) /\ \A l \in (p + 1)..(k - 1) : ~IsHead(T, l)
  <2>1. h \in (p + 1)..Len(S) /\ p \in 0..Len(S) /\ IsHead(S, h)
    <3>1. h # Len(S) + 1
      BY <1>3, <1>5
    <3>2. h \in 1..Len(S) /\ h \in (p + 1)..Len(S) /\ p \in 0..Len(S)
      BY <1>1, <3>1
    <3> QED
      BY <1>3, <1>5, <3>2
  <2>2. PICK k \in (p + 1)..Len(S) :
          IsHead(S, k) /\ \A l \in (p + 1)..(k - 1) : ~IsHead(S, l)
    BY <2>1 DEF WellFormed, Ordered
  <2>3. k \in (p + 1)..Len(T) /\ k \in 1..Len(S)
    BY <1>1, <2>1
  <2>4. \A l \in (p + 1)..(k - 1) : l \in 1..Len(S)
    BY <1>1, <2>1, <2>3
  <2> QED
    BY <1>3, <2>2, <2>3, <2>4
<1> QED
  BY <1>1, <1>4, <1>5 DEF WellFormed, Ordered

---------------------------------------------------------------------------
(* The invariant.                                                          *)

Scalars ==
    /\ wait_n \in 0..(DataLength + 2)
    /\ rterm \in Commands \cup {NoFuture}
    /\ gw_raw \in BOOLEAN /\ mixed \in BOOLEAN
    /\ output \in 0..MaxOutput

\* The sequences and AsyncProtocol's sets; a command is on its way to the
\* gateway, or symbols of its response are on their way back.
Streams ==
    /\ bytes \in Seq(Symbol) /\ wire \in Seq(Symbol) /\ raw_stream \in Seq(Symbol)
    /\ in_flight = From(wire)
    /\ buffer = From(bytes) \ From(wire)
    /\ \A n \in requests : n \notin From(bytes) /\ n \notin From(wire)
    /\ \A n \in Commands :
         n \in requests \/ n \in From(bytes) \/ n \in From(wire) => n <= tag_counter

\* Before the handshake, until the connection turns raw, and then.  While more
\* of a response is awaited none is there.
Phases ==
    /\ ~handshake_made => bytes = <<>> /\ wire # <<>> /\ wire[1] = Plus
    /\ raw_mode => bytes = <<>> /\ handshake_made /\ ~parsing
    /\ parsing => handshake_made /\ buffer # {} /\ wait_n = 0
    /\ ~raw_mode => WellFormed(bytes \o wire)
    /\ ~raw_mode /\ wait_n > 0 =>
         buffer = {} /\ Lacking(bytes \o wire, Len(bytes), wait_n)

Told ==
    /\ \A n \in Commands : call[n] = "answered" <=> response[n] # NoFuture
    /\ \A n \in Commands : response[n] = NoFuture <=> received[n] = <<>>
    /\ \A n \in Commands : call[n] = "answered" => handshake_made
    /\ ResponsesAreIntact

Shape == Scalars /\ Streams /\ Phases /\ Told
SInv == IInv /\ Shape

\* A new connection: only the gateway's "+" is due.
LEMMA StreamInitHolds == StreamInit => Init /\ SInv
<1> SUFFICES ASSUME StreamInit PROVE SInv
  BY DEF StreamInit
<1>1. Init
  BY DEF StreamInit
<1>2. IInv
  BY <1>1, InitHolds
<1>3. /\ wire = <<Plus>> /\ bytes = <<>> /\ raw_stream = <<>> /\ wait_n = 0
      /\ rterm = NoFuture /\ gw_raw = FALSE /\ output = 0 /\ mixed = FALSE
      /\ received = [n \in Commands |-> <<>>]
  BY DEF StreamInit
<1>4. Plus \in Symbol /\ Plus.of \notin Commands /\ Plus.part = "+"
  BY BoundsAssumption, MaxOutputAssumption DEF Plus, Symbol, Gateway, Parts, Commands
<1>5. wire \in Seq(Symbol) /\ bytes \in Seq(Symbol) /\ Len(wire) = 1 /\ wire[1] = Plus
  BY <1>3, <1>4
<1>6. From(wire) = {} /\ From(bytes) = {}
  BY <1>3, <1>4 DEF From
<1>7. bytes \o wire = wire
  BY <1>3, <1>5, ConcatEmptySeq
<1>8. WellFormed(wire)
  <2>1. \A k \in 1..Len(wire) : wire[k].of \notin Commands /\ ~IsHead(wire, k)
    BY <1>4, <1>5 DEF IsHead
  <2>2. \A q \in 0..Len(wire) : \A k \in (q + 1)..Len(wire) : k \in 1..Len(wire)
    BY <1>5
  <2> QED
    BY <1>5, <2>1, <2>2 DEF WellFormed, Ordered
<1>9. Scalars
  <2>1. wait_n \in 0..(DataLength + 2) /\ output \in 0..MaxOutput
    BY <1>3, MaxOutputAssumption DEF DataLength
  <2>2. rterm \in Commands \cup {NoFuture} /\ gw_raw \in BOOLEAN /\ mixed \in BOOLEAN
    BY <1>3
  <2> QED
    BY <2>1, <2>2 DEF Scalars
<1>10. Streams
  <2>1. raw_stream = bytes /\ requests = {} /\ in_flight = {} /\ buffer = {}
    BY <1>1, <1>3 DEF Init
  <2>2. raw_stream \in Seq(Symbol)
    BY <1>5, <2>1
  <2> QED
    BY <1>5, <1>6, <2>1, <2>2 DEF Streams
<1>11. Phases
  BY <1>1, <1>3, <1>5, <1>7, <1>8 DEF Phases, Init
<1>12. Told
  BY <1>1, <1>3 DEF Told, Init, ResponsesAreIntact
<1> QED
  BY <1>2, <1>9, <1>10, <1>11, <1>12 DEF SInv, Shape

\* What happens elsewhere leaves the streams alone: at most a new command is
\* written, and a task that waits no longer does.
LEMMA ElsewhereKeeps ==
    /\ SInv
    /\ UNCHANGED <<wire, bytes, wait_n, received, raw_stream, gw_raw, output, mixed>>
    /\ UNCHANGED <<handshake_made, raw_mode, parsing, response, in_flight, buffer>>
    /\ rterm' \in Commands \cup {NoFuture}
    /\ tag_counter' \in Nat /\ tag_counter' >= tag_counter
    /\ \A n \in requests' : n \in requests \/ (n = tag_counter' /\ n > tag_counter)
    /\ \A n \in Commands : call'[n] = "answered" <=> call[n] = "answered"
    => Shape'
<1> SUFFICES ASSUME
      SInv,
      UNCHANGED <<wire, bytes, wait_n, received, raw_stream, gw_raw, output, mixed>>,
      UNCHANGED <<handshake_made, raw_mode, parsing, response, in_flight, buffer>>,
      rterm' \in Commands \cup {NoFuture},
      tag_counter' \in Nat, tag_counter' >= tag_counter,
      \A n \in requests' : n \in requests \/ (n = tag_counter' /\ n > tag_counter),
      \A n \in Commands : call'[n] = "answered" <=> call[n] = "answered"
    PROVE Shape'
  OBVIOUS
<1>1. tag_counter \in Nat
  BY BoundsAssumption DEF SInv, IInv, TypeOK
<1>2. Scalars'
  BY DEF SInv, Shape, Scalars
<1>3. Streams'
  BY <1>1 DEF SInv, Shape, Streams, From, Commands
<1>4. Phases'
  BY DEF SInv, Shape, Phases
<1>5. Told'
  BY DEF SInv, Shape, Told, ResponsesAreIntact
<1> QED
  BY <1>2, <1>3, <1>4, <1>5 DEF Shape

\* Commands, timeouts, a refused handshake and the end of the connection are
\* AsyncProtocol's.
LEMMA ElsewhereRefines ==
    SInv /\ (Elsewhere \/ EnableRterm) => Next /\ Shape'
<1> SUFFICES ASSUME SInv, Elsewhere \/ EnableRterm PROVE Next /\ Shape'
  OBVIOUS
<1>1. /\ tag_counter \in 0..MaxCommands /\ MaxCommands \in Nat
      /\ call \in [Commands -> Outcomes \cup {"unused", "waiting"}]
      /\ requests \in SUBSET Commands
      /\ \A n \in Commands : n > tag_counter => call[n] = "unused"
      /\ rterm \in Commands \cup {NoFuture}
  BY BoundsAssumption DEF SInv, IInv, TypeOK, Shape, Scalars
<1>2. ASSUME Send,
             UNCHANGED <<wire, bytes, wait_n, received, raw_stream, gw_raw, output,
                         mixed>>,
             rterm' = rterm \/ rterm' = tag_counter + 1
      PROVE  Shape'
  <2>1. /\ tag_counter' = tag_counter + 1 /\ tag_counter + 1 \in Commands
        /\ requests' = requests \/ requests' = requests \cup {tag_counter + 1}
        /\ \/ call' = [call EXCEPT ![tag_counter + 1] = "waiting"]
           \/ call' = [call EXCEPT ![tag_counter + 1] = "refused"]
        /\ UNCHANGED <<handshake_made, raw_mode, parsing, response, in_flight, buffer>>
    BY <1>2 DEF Send
  <2>2. \A n \in Commands : call'[n] = "answered" <=> call[n] = "answered"
    <3>1. call[tag_counter + 1] = "unused"
      BY <1>1, <2>1
    <3> QED
      BY <1>1, <2>1, <3>1
  <2>3. rterm' \in Commands \cup {NoFuture}
    BY <1>1, <1>2, <2>1
  <2>4. \A n \in requests' : n \in requests \/ (n = tag_counter' /\ n > tag_counter)
    BY <1>1, <2>1
  <2>5. tag_counter' \in Nat /\ tag_counter' >= tag_counter
    BY <1>1, <2>1
  <2> QED
    BY <1>2, <2>1, <2>2, <2>3, <2>4, <2>5, ElsewhereKeeps
<1>3. CASE EnableRterm
  BY <1>2, <1>3 DEF EnableRterm, Next
<1>4. CASE Send /\ UNCHANGED streamVars
  BY <1>2, <1>4 DEF streamVars, termVars, Next
<1>5. ASSUME \/ \E n \in Commands : TimeOut(n)
             \/ RefuseHandshake
             \/ CloseTransport
             \/ ConnectionLost,
             UNCHANGED streamVars
      PROVE  Next /\ Shape'
  <2>1. Next
    BY <1>5 DEF Next
  <2>2. UNCHANGED <<tag_counter, requests, handshake_made, raw_mode, parsing, response,
                    in_flight, buffer>>
    BY <1>5 DEF TimeOut, RefuseHandshake, CloseTransport, ConnectionLost
  <2>3. \A n \in Commands : call'[n] = "answered" <=> call[n] = "answered"
    BY <1>1, <1>5 DEF TimeOut, RefuseHandshake, CloseTransport, ConnectionLost
  <2>4. /\ UNCHANGED <<wire, bytes, wait_n, received, raw_stream, gw_raw, output, mixed>>
        /\ rterm' \in Commands \cup {NoFuture}
        /\ tag_counter' \in Nat /\ tag_counter' >= tag_counter
        /\ \A n \in requests' : n \in requests
    BY <1>1, <1>5, <2>2 DEF streamVars, termVars
  <2> QED
    BY <2>1, <2>2, <2>3, <2>4, ElsewhereKeeps
<1> QED
  BY <1>3, <1>4, <1>5 DEF Elsewhere

\* What the parts of a stream have becomes what the whole has.
LEMMA FromJoined ==
    ASSUME NEW b \in Seq(Symbol), NEW w \in Seq(Symbol)
    PROVE  From(b \o w) = From(b) \cup From(w)
BY Parted DEF From

\* An answer joins what is under way.
LEMMA AnswerRefines ==
    ASSUME NEW n \in Commands, NEW kind \in ReplyKinds
    PROVE  SInv /\ StreamAnswer(n, kind) => Next /\ Shape'
<1> SUFFICES ASSUME SInv, StreamAnswer(n, kind) PROVE Next /\ Shape'
  OBVIOUS
<1> DEFINE reply == Reply(n, kind)
           S == bytes \o wire
<1>1. /\ bytes \in Seq(Symbol) /\ wire \in Seq(Symbol) /\ reply \in Seq(Symbol)
      /\ From(reply) = {n}
  BY ReplySymbols DEF SInv, Shape, Streams
<1>2. /\ ~parsing /\ n \in requests /\ requests' = requests \ {n}
      /\ wire' = wire \o reply
      /\ in_flight' = From(wire') /\ buffer' = From(bytes') \ From(wire')
      /\ mixed' = (mixed \/ gw_raw)
      /\ gw_raw' = (gw_raw \/ (n = rterm /\ kind = "text"))
      /\ UNCHANGED <<connVars, taskVars, flagVars, bytes, wait_n, received, rterm,
                     raw_stream, output>>
  BY DEF StreamAnswer, Image
<1>3. n \notin From(bytes) /\ n \notin From(wire)
  BY <1>2 DEF SInv, Shape, Streams
<1> HIDE DEF reply
<1>4. From(wire') = From(wire) \cup {n} /\ wire' \in Seq(Symbol)
  BY <1>1, <1>2, FromJoined, ConcatProperties
<1>5. in_flight' = in_flight \cup {n} /\ buffer' = buffer
  BY <1>2, <1>3, <1>4 DEF SInv, Shape, Streams
<1>6. Answer(n)
  BY <1>2, <1>5 DEF Answer, connVars, taskVars, flagVars
<1>7. bytes' \o wire' = S \o reply
  BY <1>1, <1>2, ConcatAssociative
<1>8. S \in Seq(Symbol) /\ Longer(S, reply, S \o reply) /\ n \notin From(S)
  BY <1>1, <1>3, FromJoined, Parted, Joined
<1>9. ASSUME ~raw_mode PROVE WellFormed(bytes' \o wire')
  <2>1. WellFormed(S)
    BY <1>9 DEF SInv, Shape, Phases
  <2> QED
    BY <1>7, <1>8, <2>1, ReplyKeeps DEF reply
<1>10. ASSUME ~raw_mode, wait_n > 0
       PROVE  Lacking(bytes' \o wire', Len(bytes'), wait_n)
  <2>1. Lacking(S, Len(bytes), wait_n) /\ Len(bytes) \in 0..Len(S)
    BY <1>1, <1>10, Parted DEF SInv, Shape, Phases
  <2>2. \A m \in From(S) : m \notin From(reply)
    BY <1>1, <1>8
  <2> QED
    BY <1>2, <1>7, <1>8, <2>1, <2>2, LackingLonger
<1>11. Scalars'
  BY <1>2 DEF SInv, Shape, Scalars
<1>12. Streams'
  BY <1>1, <1>2, <1>3, <1>4, <1>5 DEF SInv, Shape, Streams, taskVars
<1>13. Phases'
  <2>1. /\ ~handshake_made' => bytes' = <<>> /\ wire' # <<>> /\ wire'[1] = Plus
    <3> SUFFICES ASSUME ~handshake_made
                 PROVE  bytes' = <<>> /\ wire' # <<>> /\ wire'[1] = Plus
      BY <1>2 DEF connVars
    <3>1. bytes = <<>> /\ wire # <<>> /\ wire[1] = Plus
      BY DEF SInv, Shape, Phases
    <3>2. Len(wire) \in Nat \ {0} /\ Len(reply) \in Nat
      BY <1>1, <3>1, EmptySeq, LenProperties
    <3>3. wire'[1] = wire[1] /\ Len(wire') > 0
      BY <1>1, <1>2, <3>2, ConcatProperties
    <3> QED
      BY <1>2, <3>1, <3>3, EmptySeq
  <2> QED
    BY <1>2, <1>5, <1>9, <1>10, <2>1 DEF SInv, Shape, Phases, connVars, flagVars
<1>14. Told'
  BY <1>2 DEF SInv, Shape, Told, ResponsesAreIntact, connVars, taskVars
<1>15. Shape'
  BY <1>11, <1>12, <1>13, <1>14 DEF Shape
<1> QED
  BY <1>6, <1>15 DEF Next

\* Output joins it too.
LEMMA OutputRefines == SInv /\ SendOutput => UNCHANGED vars /\ Shape'
<1> SUFFICES ASSUME SInv, SendOutput PROVE UNCHANGED vars /\ Shape'
  OBVIOUS
<1> DEFINE x == [of |-> MaxCommands + output + 1, part |-> "semi"]
           S == bytes \o wire
           more == <<x>>
<1>1. /\ bytes \in Seq(Symbol) /\ wire \in Seq(Symbol)
      /\ ~parsing /\ output < MaxOutput /\ output' = output + 1
      /\ wire' = Append(wire, x)
      /\ UNCHANGED <<vars, bytes, wait_n, received, rterm, raw_stream, gw_raw, mixed>>
  BY DEF SendOutput, SInv, Shape, Streams
<1>2. output \in Nat /\ MaxOutput \in Nat /\ MaxCommands \in Nat
  BY MaxOutputAssumption, BoundsAssumption DEF SInv, Shape, Scalars
<1>3. x \in Symbol /\ x.of \notin Commands /\ x.part = "semi"
  BY <1>1, <1>2 DEF Symbol, Parts, Commands
<1> HIDE DEF x
<1>4. /\ more \in Seq(Symbol) /\ Len(more) = 1 /\ From(more) = {}
      /\ wire' = wire \o more
  BY <1>1, <1>3, AppendIsConcat DEF From
<1> HIDE DEF more
<1>5. wire' \in Seq(Symbol) /\ From(wire') = From(wire)
  <2>1. wire' \in Seq(Symbol)
    BY <1>1, <1>4, ConcatProperties
  <2>2. From(wire \o more) = From(wire) \cup From(more)
    BY <1>1, <1>4, FromJoined
  <2> QED
    BY <1>4, <2>1, <2>2
<1>6. bytes' \o wire' = S \o more
  <2>1. (bytes \o wire) \o more = bytes \o (wire \o more)
    BY <1>1, <1>4, ConcatAssociative
  <2>2. bytes' = bytes
    BY <1>1
  <2> QED
    BY <1>4, <2>1, <2>2
<1>7. S \in Seq(Symbol) /\ Longer(S, more, S \o more) /\ Len(bytes) \in 0..Len(S)
  <2>1. /\ S \in Seq(Symbol) /\ Len(bytes) \in Nat /\ Len(wire) \in Nat
        /\ Len(S) = Len(bytes) + Len(wire)
    BY <1>1, Parted
  <2>2. Longer(S, more, S \o more)
    BY <1>4, <2>1, Joined
  <2> QED
    BY <2>1, <2>2
<1>8. ASSUME ~raw_mode PROVE WellFormed(bytes' \o wire')
  <2>1. WellFormed(S)
    BY <1>8 DEF SInv, Shape, Phases
  <2> QED
    BY <1>3, <1>6, <1>7, <2>1, OutputKeeps DEF more
<1>9. ASSUME ~raw_mode, wait_n > 0
      PROVE  Lacking(bytes' \o wire', Len(bytes'), wait_n)
  <2>1. Lacking(S, Len(bytes), wait_n)
    BY <1>9 DEF SInv, Shape, Phases
  <2>2. \A m \in From(S) : m \notin From(more)
    BY <1>4
  <2> QED
    BY <1>1, <1>6, <1>7, <2>1, <2>2, LackingLonger
<1>10. Scalars'
  <2>1. output' \in 0..MaxOutput
    BY <1>1, <1>2
  <2>2. UNCHANGED <<wait_n, rterm, gw_raw, mixed>>
    BY <1>1
  <2> QED
    BY <2>1, <2>2 DEF SInv, Shape, Scalars
<1>11. Streams'
  <2>1. UNCHANGED <<bytes, raw_stream, in_flight, buffer, requests, tag_counter>>
    BY <1>1 DEF vars
  <2> QED
    BY <1>5, <2>1 DEF SInv, Shape, Streams
<1>12. Phases'
  <2>1. wire # <<>> /\ wire[1] = Plus => wire' # <<>> /\ wire'[1] = Plus
    <3> SUFFICES ASSUME wire # <<>>, wire[1] = Plus
                 PROVE  wire' # <<>> /\ wire'[1] = Plus
      OBVIOUS
    <3>1. Len(wire) \in Nat \ {0}
      BY <1>1, EmptySeq
    <3> QED
      BY <1>1, <1>3, <3>1, AppendProperties
  <2> QED
    BY <1>1, <1>8, <1>9, <2>1 DEF SInv, Shape, Phases, vars
<1>13. Told'
  BY <1>1 DEF SInv, Shape, Told, ResponsesAreIntact, vars
<1> QED
  BY <1>1, <1>10, <1>11, <1>12, <1>13 DEF Shape

---------------------------------------------------------------------------
(* data_received.                                                          *)

\* What is received and what is left.
LEMMA Taken ==
    ASSUME NEW w \in Seq(Symbol), NEW k \in 1..Len(w)
    PROVE  /\ SubSeq(w, 1, k) \in Seq(Symbol) /\ Len(SubSeq(w, 1, k)) = k
           /\ SubSeq(w, k + 1, Len(w)) \in Seq(Symbol)
           /\ SubSeq(w, 1, k) \o SubSeq(w, k + 1, Len(w)) = w
           /\ From(w) = From(SubSeq(w, 1, k)) \cup From(SubSeq(w, k + 1, Len(w)))
<1>1. Len(w) \in Nat /\ k \in Nat /\ 1 \in 1..(Len(w) + 1) /\ k \in (1 - 1)..Len(w)
      /\ Len(w) \in k..Len(w)
  BY LenProperties
<1>2. SubSeq(w, 1, k) \in Seq(Symbol) /\ Len(SubSeq(w, 1, k)) = k
  <2>1. \A i \in 1..k : w[i] \in Symbol
    BY <1>1, ElementOfSeq
  <2>2. 1 \in Int /\ k \in Int /\ 1 <= k /\ k - 1 + 1 = k
    BY <1>1
  <2> QED
    BY <2>1, <2>2, SubSeqProperties
<1>3. SubSeq(w, k + 1, Len(w)) \in Seq(Symbol)
  <2>1. k \in 0..Len(w)
    BY <1>1
  <2> QED
    BY <2>1, CutOff DEF Rest
<1>4. SubSeq(w, 1, k) \o SubSeq(w, k + 1, Len(w)) = w
  BY <1>1, ConcatAdjacentSubSeq, SubSeqFull
<1> QED
  BY <1>2, <1>3, <1>4, FromJoined

\* The commands in what is left, when a part without any of them was cut off.
LEMMA FromRest ==
    ASSUME NEW S, NEW q, NEW T, Rest(S, q, T)
    PROVE  /\ From(T) \subseteq From(S)
           /\ \A n \in From(S) : (\A k \in 1..q : S[k].of # n) => n \in From(T)
<1>1. /\ S \in Seq(Symbol) /\ T \in Seq(Symbol) /\ q \in 0..Len(S)
      /\ Len(S) \in Nat /\ Len(T) = Len(S) - q
      /\ \A k \in 1..Len(T) : T[k] = S[q + k]
  BY LenProperties DEF Rest
<1>2. ASSUME NEW n \in From(T) PROVE n \in From(S)
  <2>1. PICK k \in 1..Len(T) : T[k].of = n
    BY <1>1, InFrom
  <2>2. q + k \in 1..Len(S) /\ S[q + k].of = n
    BY <1>1, <2>1
  <2>3. n \in Commands
    BY <1>1, InFrom
  <2> QED
    BY <1>1, <2>2, <2>3, InFrom
<1>3. ASSUME NEW n \in From(S), \A k \in 1..q : S[k].of # n PROVE n \in From(T)
  <2>1. PICK k \in 1..Len(S) : S[k].of = n
    BY <1>1, InFrom
  <2>2. k \notin 1..q
    BY <1>3, <2>1
  <2>3. k - q \in 1..Len(T) /\ q + (k - q) = k
    BY <1>1, <2>2
  <2>4. T[k - q].of = n
    BY <1>1, <2>1, <2>3
  <2>5. n \in Commands
    BY <1>1, InFrom
  <2> QED
    BY <1>1, <2>3, <2>4, <2>5, InFrom
<1> QED
  BY <1>2, <1>3

\* The first chunk, without the gateway's "+", is the beginning of the buffer.
LEMMA FirstChunkRefines ==
    ASSUME NEW k \in 1..Len(wire)
    PROVE  SInv /\ FirstChunk(k) => Next /\ Shape'
<1> SUFFICES ASSUME SInv, FirstChunk(k) PROVE Next /\ Shape'
  OBVIOUS
<1> DEFINE S == bytes \o wire
           T == bytes' \o wire'
<1>1. /\ transport = "open" /\ ~handshake_made /\ handshake_made' = TRUE
      /\ bytes' = SubSeq(wire, 2, k) /\ wire' = SubSeq(wire, k + 1, Len(wire))
      /\ in_flight' = From(wire') /\ buffer' = From(bytes') \ From(wire')
      /\ UNCHANGED <<transport, raw_mode, taskVars, requests, flagVars, wait_n,
                     received, termVars>>
  BY DEF FirstChunk, Image
<1>2. /\ bytes = <<>> /\ wire \in Seq(Symbol) /\ wire # <<>> /\ wire[1] = Plus
      /\ ~raw_mode /\ ~parsing /\ WellFormed(S) /\ raw_stream \in Seq(Symbol)
  BY <1>1 DEF SInv, Shape, Phases, Streams
<1>3. S = wire /\ Len(wire) \in Nat
  BY <1>2, ConcatEmptySeq, LenProperties
<1>4. wait_n = 0
  <2>1. ~(wait_n > 0)
    BY <1>2, EmptySeq DEF SInv, Shape, Phases, Lacking
  <2> QED
    BY <2>1 DEF SInv, Shape, Scalars, DataLength
<1>5. wire' \in Seq(Symbol)
  BY <1>1, <1>2, Taken
<1>6. bytes' \in Seq(Symbol)
  <2>1. 2 \in Int /\ k \in Int /\ \A i \in 2..k : i \in 1..Len(wire)
    BY <1>3
  <2>2. \A i \in 2..k : wire[i] \in Symbol
    BY <1>2, <2>1, ElementOfSeq
  <2> QED
    BY <1>1, <2>1, <2>2, SubSeqProperties
<1>7. T = SubSeq(wire, 2, Len(wire))
  <2>1. /\ 2 \in 1..(Len(wire) + 1) /\ k \in (2 - 1)..Len(wire)
        /\ Len(wire) \in k..Len(wire)
    BY <1>3
  <2> QED
    BY <1>1, <1>2, <2>1, ConcatAdjacentSubSeq
<1>8. Rest(wire, 1, T)
  <2>1. 1 \in 0..Len(wire) /\ 1 + 1 = 2
    BY <1>3
  <2> QED
    BY <1>2, <1>7, <2>1, CutOff
<1>9. Plus.of \notin Commands
  BY DEF Plus, Gateway, Commands
<1>10. WellFormed(T)
  <2>1. ASSUME NEW n \in Commands, NEW kind \in ReplyKinds, NEW i \in 1..Len(wire),
               Placed(wire, n, kind, i)
        PROVE  i > 1
    <3>1. i \in Nat /\ i \in i..Last(i, kind)
      BY <1>3 DEF Last, Size
    <3>2. wire[i].of = n
      BY <2>1, <3>1, Within
    <3>3. i # 1
      BY <1>2, <1>9, <3>2
    <3> QED
      BY <1>3, <3>3
  <2> QED
    BY <1>2, <1>3, <1>8, <2>1, CutKeeps
<1>11. From(wire) = From(bytes') \cup From(wire')
  <2>1. From(T) = From(bytes') \cup From(wire')
    BY <1>5, <1>6, FromJoined
  <2>2. \A n \in From(wire) : n \in Commands
    BY <1>2, InFrom
  <2>3. \A i \in 1..1 : wire[i].of = Plus.of
    BY <1>2
  <2>4. From(T) \subseteq From(wire)
    BY <1>8, FromRest
  <2>5. ASSUME NEW n \in From(wire) PROVE n \in From(T)
    <3>1. \A i \in 1..1 : wire[i].of # n
      BY <1>9, <2>2, <2>3
    <3> QED
      BY <1>8, <3>1, FromRest
  <2> QED
    BY <2>1, <2>4, <2>5
<1> DEFINE chunk == From(bytes') \ From(wire')
<1>12. /\ chunk \in SUBSET in_flight /\ in_flight' = in_flight \ chunk
       /\ buffer' = chunk
  BY <1>1, <1>11 DEF SInv, Shape, Streams
<1>13. ReceiveHandshake(chunk)
  BY <1>1, <1>12 DEF ReceiveHandshake, taskVars, flagVars
<1>14. Scalars'
  BY <1>1 DEF SInv, Shape, Scalars, termVars
<1>15. Streams'
  BY <1>1, <1>2, <1>5, <1>6, <1>11 DEF SInv, Shape, Streams, taskVars, termVars
<1>16. Phases'
  BY <1>1, <1>2, <1>4, <1>10 DEF Phases, flagVars
<1>17. Told'
  BY <1>1 DEF SInv, Shape, Told, ResponsesAreIntact, taskVars
<1>18. Next
  BY <1>12, <1>13 DEF Next
<1> QED
  BY <1>14, <1>15, <1>16, <1>17, <1>18 DEF Shape

\* Later on, in raw mode: the StreamReader has it.
LEMMA RawChunkRefines ==
    ASSUME NEW k \in 1..Len(wire)
    PROVE  SInv /\ RawChunk(k) => Next /\ Shape'
<1> SUFFICES ASSUME SInv, RawChunk(k) PROVE Next /\ Shape'
  OBVIOUS
<1>1. /\ transport = "open" /\ ~parsing /\ raw_mode
      /\ raw_stream' = raw_stream \o bytes \o SubSeq(wire, 1, k)
      /\ bytes' = <<>> /\ wire' = SubSeq(wire, k + 1, Len(wire))
      /\ in_flight' = From(wire') /\ buffer' = From(bytes') \ From(wire')
      /\ UNCHANGED <<connVars, taskVars, requests, flagVars, wait_n, received,
                     rterm, gw_raw, output, mixed>>
  BY DEF RawChunk, Image
<1>2. /\ bytes = <<>> /\ wire \in Seq(Symbol) /\ raw_stream \in Seq(Symbol)
      /\ bytes \in Seq(Symbol) /\ handshake_made
  BY <1>1 DEF SInv, Shape, Phases, Streams
<1>3. /\ wire' \in Seq(Symbol) /\ SubSeq(wire, 1, k) \in Seq(Symbol)
      /\ From(wire') \subseteq From(wire)
  BY <1>1, <1>2, Taken
<1>4. raw_stream' \in Seq(Symbol)
  BY <1>1, <1>2, <1>3, ConcatProperties
<1>5. From(<<>>) = {}
  BY DEF From
<1>6. bytes' = bytes /\ From(bytes') = {} /\ From(bytes) = {}
  BY <1>1, <1>2, <1>5
<1> DEFINE chunk == From(wire) \ From(wire')
<1>7. /\ chunk \in SUBSET in_flight /\ in_flight' = in_flight \ chunk
      /\ buffer' = buffer
  BY <1>1, <1>3, <1>6 DEF SInv, Shape, Streams
<1>8. ReceiveRaw(chunk)
  BY <1>1, <1>7 DEF ReceiveRaw, connVars, taskVars, flagVars
<1>9. Scalars'
  BY <1>1 DEF SInv, Shape, Scalars
<1>10. Streams'
  BY <1>1, <1>2, <1>3, <1>4, <1>6 DEF SInv, Shape, Streams, taskVars
<1>11. Phases'
  BY <1>1, <1>2 DEF SInv, Shape, Phases, connVars, flagVars
<1>12. Told'
  BY <1>1 DEF SInv, Shape, Told, ResponsesAreIntact, connVars, taskVars
<1>13. Next
  BY <1>7, <1>8 DEF Next
<1> QED
  BY <1>9, <1>10, <1>11, <1>12, <1>13 DEF Shape

\* The task that awaited the lock flushes the buffer to it.
LEMMA LockRefines == SInv /\ LockAnswered => Next /\ Shape'
<1> SUFFICES ASSUME SInv, LockAnswered PROVE Next /\ Shape'
  OBVIOUS
<1>1. /\ ~parsing /\ ~raw_mode /\ rterm # NoFuture /\ call[rterm] = "answered"
      /\ raw_mode' = TRUE /\ raw_stream' = raw_stream \o bytes /\ bytes' = <<>>
      /\ in_flight' = From(wire') /\ buffer' = From(bytes') \ From(wire')
      /\ UNCHANGED <<transport, handshake_made, taskVars, requests, flagVars,
                     wire, wait_n, received, rterm, gw_raw, output, mixed>>
  BY DEF LockAnswered, Image
<1>2. /\ bytes \in Seq(Symbol) /\ wire \in Seq(Symbol) /\ raw_stream \in Seq(Symbol)
      /\ rterm \in Commands
  BY <1>1 DEF SInv, Shape, Streams, Scalars
<1>3. From(bytes') = {} /\ bytes' \in Seq(Symbol)
  BY <1>1, <1>2, EmptySeq DEF From
<1>4. raw_stream' \in Seq(Symbol)
  BY <1>1, <1>2, ConcatProperties
<1>5. handshake_made
  BY <1>1, <1>2 DEF SInv, Shape, Told
<1>6. in_flight' = in_flight /\ buffer' = {}
  BY <1>1, <1>3 DEF SInv, Shape, Streams
<1>7. BecomeRaw
  BY <1>1, <1>2, <1>6 DEF BecomeRaw, taskVars, flagVars
<1>8. Scalars'
  BY <1>1 DEF SInv, Shape, Scalars
<1>9. Streams'
  BY <1>1, <1>2, <1>3, <1>4 DEF SInv, Shape, Streams, taskVars
<1>10. Phases'
  BY <1>1, <1>5 DEF Phases, flagVars
<1>11. Told'
  BY <1>1 DEF SInv, Shape, Told, ResponsesAreIntact, taskVars
<1>12. Next
  BY <1>7 DEF Next
<1> QED
  BY <1>8, <1>9, <1>10, <1>11, <1>12 DEF Shape

\* Responses that a payload completes end in it.
LEMMA Completed ==
    ASSUME NEW b \in Seq(Symbol), NEW p \in Seq(Symbol), NEW w \in Seq(Symbol),
           WellFormed(b \o (p \o w)), NEW n \in From(p \o w), n \notin From(w)
    PROVE  \E kind \in ReplyKinds, i \in 1..Len(b \o (p \o w)) :
               /\ Placed(b \o (p \o w), n, kind, i)
               /\ Last(i, kind) > Len(b) /\ Last(i, kind) <= Len(b) + Len(p)
<1> DEFINE S == b \o (p \o w)
<1>1. /\ p \o w \in Seq(Symbol) /\ b \o p \in Seq(Symbol) /\ S \in Seq(Symbol)
      /\ S = (b \o p) \o w /\ Len(b \o p) = Len(b) + Len(p)
      /\ n \in Commands /\ n \in From(S)
  <2>1. p \o w \in Seq(Symbol) /\ b \o p \in Seq(Symbol) /\ S \in Seq(Symbol)
    BY ConcatProperties
  <2>2. S = (b \o p) \o w
    BY ConcatAssociative
  <2>3. n \in Commands
    BY <2>1, InFrom
  <2>4. n \in From(S)
    <3>1. From(b \o (p \o w)) = From(b) \cup From(p \o w)
      BY <2>1, FromJoined
    <3> QED
      BY <3>1
  <2> QED
    BY <2>1, <2>2, <2>3, <2>4, ConcatProperties
<1>2. PICK k \in 1..Len(S) : S[k].of = n
  BY <1>1, InFrom
<1>3. PICK i \in 1..Len(S), kind \in ReplyKinds : Placed(S, n, kind, i)
  BY <1>1, <1>2 DEF WellFormed
<1>4. Last(i, kind) > Len(b)
  BY <1>1, <1>3, Received
<1>5. ~(Last(i, kind) > Len(b \o p))
  <2> DEFINE q == b \o p
  <2>1. q \in Seq(Symbol) /\ S = q \o w /\ WellFormed(q \o w)
    BY <1>1
  <2>2. i \in 1..Len(q \o w) /\ Placed(q \o w, n, kind, i)
    BY <1>3, <2>1
  <2> HIDE DEF q, S
  <2>3. n \in From(w) <=> Last(i, kind) > Len(q)
    BY <1>1, <2>1, <2>2, Received
  <2> QED
    BY <2>3 DEF q
<1>6. Last(i, kind) \in Int /\ Len(b \o p) \in Int
  BY <1>1, LenProperties DEF Last, Size
<1> QED
  BY <1>1, <1>3, <1>4, <1>5, <1>6

\* A payload without ";" completes no response.
LEMMA NoEnd ==
    ASSUME NEW b \in Seq(Symbol), NEW p \in Seq(Symbol), NEW w \in Seq(Symbol),
           WellFormed(b \o (p \o w)), ~MayEnd(p), NEW n \in From(p \o w)
    PROVE  n \in From(w)
<1> SUFFICES ASSUME n \notin From(w) PROVE FALSE
  OBVIOUS
<1> DEFINE S == b \o (p \o w)
<1>1. PICK kind \in ReplyKinds, i \in 1..Len(S) :
        /\ Placed(S, n, kind, i)
        /\ Last(i, kind) > Len(b) /\ Last(i, kind) <= Len(b) + Len(p)
  BY Completed
<1>2. /\ p \o w \in Seq(Symbol) /\ Len(b) \in Nat /\ Len(p) \in Nat /\ Len(S) \in Nat
      /\ \A k \in 1..Len(p \o w) : S[Len(b) + k] = (p \o w)[k]
      /\ \A k \in 1..Len(p) : (p \o w)[k] = p[k]
      /\ Len(p) <= Len(p \o w) /\ Len(p \o w) \in Nat
  <2>1. /\ p \o w \in Seq(Symbol) /\ Len(p) \in Nat /\ Len(w) \in Nat
        /\ Len(p \o w) = Len(p) + Len(w)
        /\ \A k \in 1..Len(p) : (p \o w)[k] = p[k]
    BY Parted
  <2>2. /\ Len(b) \in Nat /\ S \in Seq(Symbol)
        /\ \A k \in 1..Len(p \o w) : S[Len(b) + k] = (p \o w)[k]
    BY <2>1, Parted
  <2> QED
    BY <2>1, <2>2, LenProperties
<1> HIDE DEF S
<1>3. i \in Nat /\ i <= Last(i, kind) /\ Last(i, kind) \in Nat
  BY <1>2 DEF Last, Size
<1>4. S[Last(i, kind)].part = ReplyParts[kind][Last(i, kind) - i + 1]
  <2>1. Last(i, kind) \in i..Last(i, kind)
    BY <1>3
  <2> QED
    BY <1>1, <1>3, <2>1, Within
<1>5. Last(i, kind) - i + 1 = Size(kind)
  BY <1>3 DEF Last, Size
<1>6. S[Last(i, kind)].part = "semi"
  BY <1>4, <1>5, ReplyShape
<1> DEFINE k == Last(i, kind) - Len(b)
<1>7. k \in 1..Len(p) /\ k \in 1..Len(p \o w) /\ Len(b) + k = Last(i, kind)
  BY <1>1, <1>2, <1>3
<1>8. p[k].part = "semi"
  BY <1>2, <1>6, <1>7
<1>9. k \in DOMAIN p
  BY <1>7, LenProperties
<1> QED
  BY <1>8, <1>9 DEF MayEnd, Has

\* Nor does one that is all part of a response that lacks still more.
LEMMA StillLacking ==
    ASSUME NEW b \in Seq(Symbol), NEW p \in Seq(Symbol), NEW w \in Seq(Symbol),
           WellFormed(b \o (p \o w)), NEW wait \in Nat, wait > Len(p),
           Lacking(b \o (p \o w), Len(b), wait)
    PROVE  /\ \A n \in From(p \o w) : n \in From(w)
           /\ Lacking(b \o (p \o w), Len(b) + Len(p), wait - Len(p))
<1> DEFINE S == b \o (p \o w)
<1>1. /\ S \in Seq(Symbol) /\ Len(S) \in Nat /\ Len(b) \in Nat /\ Len(p) \in Nat
      /\ Len(b) + Len(p) <= Len(S)
  <2>1. p \o w \in Seq(Symbol) /\ Len(p \o w) = Len(p) + Len(w)
    BY ConcatProperties
  <2>2. S \in Seq(Symbol) /\ Len(S) = Len(b) + Len(p \o w)
    BY <2>1, ConcatProperties
  <2> QED
    BY <2>1, <2>2, LenProperties
<1>2. PICK m \in Commands, j \in 1..Len(b) :
        Placed(S, m, "binary", j) /\ j + 6 = Len(b) + wait
  BY DEF Lacking
<1>3. wait \in 1..(DataLength + 2)
  BY DEF Lacking
<1>4. Last(j, "binary") = j + 6 /\ "binary" \in ReplyKinds
  BY <1>1 DEF Last, Size, ReplyKinds
<1>5. ASSUME NEW n \in From(p \o w), n \notin From(w) PROVE FALSE
  <2>1. PICK kind \in ReplyKinds, i \in 1..Len(S) :
          /\ Placed(S, n, kind, i)
          /\ Last(i, kind) > Len(b) /\ Last(i, kind) <= Len(b) + Len(p)
    BY <1>5, Completed
  <2> HIDE DEF S
  <2>2. /\ i \in Nat \ {0} /\ j \in Nat \ {0}
        /\ Last(i, kind) \in i..Last(i, kind) /\ Last(i, kind) \in Nat
        /\ Last(i, kind) \in j..Last(j, "binary")
        /\ Last(i, kind) # Last(j, "binary")
    BY <1>1, <1>2, <1>3, <1>4, <2>1 DEF Last, Size
  <2>3. S[Last(i, kind)].of = n
    BY <2>1, <2>2, Within
  <2>4. S[Last(i, kind)].of = m
    BY <1>2, <1>4, <2>2, Within
  <2>5. n = m
    BY <2>3, <2>4
  <2>6. Last(i, kind) = Last(j, "binary")
    BY <1>1, <1>2, <1>4, <2>1, <2>2, <2>5, Unique
  <2> QED
    BY <2>2, <2>6
<1>6. Lacking(S, Len(b) + Len(p), wait - Len(p))
  <2>1. wait - Len(p) \in 1..(DataLength + 2)
    BY <1>1, <1>3 DEF DataLength
  <2>2. j \in 1..(Len(b) + Len(p))
    BY <1>1
  <2>3. (Len(b) + Len(p)) + (wait - Len(p)) = Len(b) + wait
    BY <1>1
  <2> QED
    BY <1>2, <2>1, <2>2, <2>3 DEF Lacking
<1> QED
  BY <1>5, <1>6

\* The count of what is missing.
LEMMA Missing ==
    ASSUME NEW a \in Int
    PROVE  Max({a, 0}) = IF a > 0 THEN a ELSE 0
<1> DEFINE m == IF a > 0 THEN a ELSE 0
<1>1. m \in {a, 0} /\ m \in Int /\ \A y \in {a, 0} : m >= y
  OBVIOUS
<1> HIDE DEF m
<1>2. Max({a, 0}) \in {a, 0} /\ \A y \in {a, 0} : Max({a, 0}) >= y
  BY <1>1 DEF Max
<1>3. PICK x : x = Max({a, 0})
  OBVIOUS
<1>4. x \in Int /\ x >= m /\ m >= x
  BY <1>1, <1>2, <1>3
<1>5. x = m
  BY <1>1, <1>4
<1> QED
  BY <1>3, <1>5 DEF m

\* A chunk joins the buffer: it starts the loop if there is a response, else
\* there is none.
LEMMA ChunkRefines ==
    ASSUME NEW k \in 1..Len(wire)
    PROVE  SInv /\ Chunk(k) => [Next]_vars /\ Shape'
<1> SUFFICES ASSUME SInv, Chunk(k) PROVE [Next]_vars /\ Shape'
  OBVIOUS
<1> DEFINE p == SubSeq(wire, 1, k)
           missing == StillMissing(k)
           next == Extract(bytes')
           S == bytes \o wire
           chunk == From(wire) \ From(wire')
<1>1. /\ transport = "open" /\ ~parsing /\ handshake_made /\ ~raw_mode
      /\ bytes' = bytes \o p /\ wire' = SubSeq(wire, k + 1, Len(wire))
      /\ \/ (missing > 0 \/ ~MayEnd(p)) /\ wait_n' = missing /\ UNCHANGED parsing
         \/ /\ ~(missing > 0 \/ ~MayEnd(p))
            /\ parsing' = (next.upto > 0)
            /\ wait_n' = IF next.wait > 0 THEN next.wait ELSE missing
      /\ UNCHANGED <<connVars, taskVars, requests, unknown_tag, tag_reused,
                     received, termVars>>
      /\ in_flight' = From(wire') /\ buffer' = From(bytes') \ From(wire')
  BY DEF Chunk, Image
<1>2. /\ bytes \in Seq(Symbol) /\ wire \in Seq(Symbol) /\ WellFormed(S)
      /\ in_flight = From(wire) /\ buffer = From(bytes) \ From(wire)
      /\ wait_n \in 0..(DataLength + 2)
      /\ wait_n > 0 => buffer = {} /\ Lacking(S, Len(bytes), wait_n)
  BY <1>1 DEF SInv, Shape, Phases, Streams, Scalars
<1>3. /\ p \in Seq(Symbol) /\ Len(p) = k /\ wire' \in Seq(Symbol)
      /\ p \o wire' = wire /\ From(wire) = From(p) \cup From(wire')
  BY <1>1, <1>2, Taken
<1>4. k \in Nat /\ k > 0
  BY <1>2, LenProperties
<1>5. missing = IF wait_n > k THEN wait_n - k ELSE 0
  <2>1. wait_n - k \in Int /\ wait_n \in Nat
    BY <1>2, <1>4 DEF DataLength
  <2>2. missing = IF wait_n - k > 0 THEN wait_n - k ELSE 0
    BY <2>1, Missing DEF StillMissing
  <2> QED
    BY <1>4, <2>1, <2>2
<1> HIDE DEF p, missing, next
<1>6. /\ bytes' \in Seq(Symbol) /\ Len(bytes') = Len(bytes) + k
      /\ Len(bytes) \in Nat
  BY <1>1, <1>2, <1>3, ConcatProperties, LenProperties
<1>7. S = bytes \o (p \o wire') /\ S = bytes' \o wire'
  <2>1. S = bytes \o (p \o wire')
    BY <1>3
  <2>2. (bytes \o p) \o wire' = bytes \o (p \o wire')
    <3> DEFINE w == wire'
    <3>1. bytes \in Seq(Symbol) /\ p \in Seq(Symbol) /\ w \in Seq(Symbol)
      BY <1>2, <1>3
    <3> HIDE DEF w
    <3>2. (bytes \o p) \o w = bytes \o (p \o w)
      BY <3>1, ConcatAssociative
    <3> QED
      BY <3>2 DEF w
  <2>3. bytes' \o wire' = (bytes \o p) \o wire'
    BY <1>1
  <2> QED
    BY <2>1, <2>2, <2>3
<1>8. From(bytes') = From(bytes) \cup From(p)
  BY <1>1, <1>2, <1>3, FromJoined
<1>9. /\ chunk \in SUBSET in_flight /\ in_flight' = in_flight \ chunk
      /\ buffer' = buffer \cup chunk
  BY <1>1, <1>2, <1>3, <1>8
<1>10. Streams'
  BY <1>1, <1>2, <1>3, <1>6, <1>8 DEF SInv, Shape, Streams, taskVars, termVars
<1>11. Told'
  BY <1>1 DEF SInv, Shape, Told, ResponsesAreIntact, connVars, taskVars
<1>12. ASSUME wait_n' \in 0..(DataLength + 2) PROVE Scalars'
  BY <1>1, <1>12 DEF SInv, Shape, Scalars, termVars
<1>13. ASSUME parsing' => buffer' # {} /\ wait_n' = 0,
              wait_n' > 0 => buffer' = {} /\ Lacking(S, Len(bytes'), wait_n')
       PROVE  Phases'
  BY <1>1, <1>2, <1>7, <1>13 DEF Phases, connVars
<1>14. ASSUME chunk = {}, UNCHANGED parsing PROVE UNCHANGED vars
  <2>1. in_flight' = in_flight /\ buffer' = buffer
    BY <1>9, <1>14
  <2> QED
    BY <1>1, <1>14, <2>1 DEF vars, connVars, taskVars
<1>15. CASE missing > 0
  <2>1. wait_n > k /\ missing = wait_n - k /\ wait_n' = missing /\ UNCHANGED parsing
    BY <1>1, <1>5, <1>15
  <2>2. wait_n \in Nat /\ wait_n > 0 /\ missing \in 0..(DataLength + 2)
    BY <1>2, <1>4, <2>1 DEF DataLength
  <2>3. Lacking(bytes \o (p \o wire'), Len(bytes), wait_n)
        /\ WellFormed(bytes \o (p \o wire'))
    BY <1>2, <1>7, <2>2
  <2>4. /\ \A n \in From(p \o wire') : n \in From(wire')
        /\ Lacking(S, Len(bytes'), wait_n')
    <3> DEFINE w == wire'
    <3>1. w \in Seq(Symbol) /\ wait_n > Len(p) /\ Lacking(bytes \o (p \o w), Len(bytes), wait_n)
          /\ WellFormed(bytes \o (p \o w))
      BY <1>3, <2>1, <2>3
    <3> HIDE DEF w
    <3>2. /\ \A n \in From(p \o w) : n \in From(w)
          /\ Lacking(bytes \o (p \o w), Len(bytes) + Len(p), wait_n - Len(p))
      BY <1>2, <1>3, <2>2, <3>1, StillLacking
    <3> QED
      BY <1>3, <1>6, <1>7, <2>1, <3>2 DEF w
  <2>5. chunk = {} /\ buffer' = {}
    BY <1>2, <1>3, <1>9, <2>2, <2>4
  <2>6. UNCHANGED vars
    BY <1>14, <2>1, <2>5
  <2>7. Scalars' /\ Phases'
    BY <1>1, <1>12, <1>13, <2>1, <2>2, <2>4, <2>5
  <2> QED
    BY <1>10, <1>11, <2>6, <2>7 DEF Shape
<1>16. CASE ~(missing > 0) /\ ~MayEnd(p)
  <2>1. missing = 0 /\ wait_n' = 0 /\ UNCHANGED parsing
    BY <1>1, <1>2, <1>4, <1>5, <1>16
  <2>2. chunk = {}
    <3> DEFINE w == wire'
    <3>1. w \in Seq(Symbol) /\ WellFormed(bytes \o (p \o w))
      BY <1>2, <1>3, <1>7
    <3> HIDE DEF w
    <3>2. \A n \in From(p \o w) : n \in From(w)
      BY <1>2, <1>3, <1>16, <3>1, NoEnd
    <3> QED
      BY <1>3, <3>2 DEF w
  <2>3. UNCHANGED vars
    BY <1>14, <2>1, <2>2
  <2>4. Scalars' /\ Phases'
    BY <1>1, <1>12, <1>13, <2>1 DEF DataLength
  <2> QED
    BY <1>10, <1>11, <2>3, <2>4 DEF Shape
<1>17. CASE ~(missing > 0) /\ MayEnd(p)
  <2>1. /\ missing = 0 /\ parsing' = (next.upto > 0)
        /\ wait_n' = IF next.wait > 0 THEN next.wait ELSE 0
    BY <1>1, <1>2, <1>4, <1>5, <1>17
  <2>2. /\ next.upto \in Nat /\ next.wait \in 0..(DataLength + 2)
        /\ next.upto > 0 => FirstReply(S, Len(bytes'), next) /\ buffer' # {}
        /\ next.upto = 0 =>
             buffer' = {} /\ (next.wait = 0 \/ Lacking(S, Len(bytes'), next.wait))
    <3> DEFINE b == bytes'
               w == wire'
    <3>1. b \in Seq(Symbol) /\ w \in Seq(Symbol) /\ WellFormed(b \o w)
      BY <1>2, <1>3, <1>6, <1>7
    <3>2. next = Extract(b) /\ buffer' = From(b) \ From(w) /\ S = b \o w
      BY <1>1, <1>7 DEF next
    <3> HIDE DEF b, w
    <3>3. next = Extract(b) /\ buffer' = From(b) \ From(w) /\ S = b \o w /\ Len(b) = Len(bytes')
      BY <3>2 DEF b
    <3> QED
      BY <3>1, <3>3, Parsed
  <2>3. wait_n' \in 0..(DataLength + 2)
    BY <2>1, <2>2 DEF DataLength
  <2>4. CASE next.upto > 0
    <3>1. parsing' = TRUE /\ buffer' # {} /\ wait_n' = 0
      BY <2>1, <2>2, <2>4 DEF FirstReply
    <3>2. chunk # {} \/ buffer # {}
      BY <1>9, <3>1
    <3>3. ReceiveResponses(chunk)
      BY <1>1, <1>9, <3>1, <3>2 DEF ReceiveResponses, connVars, taskVars
    <3>4. Next
      BY <1>9, <3>3 DEF Next
    <3>5. Scalars' /\ Phases'
      BY <1>12, <1>13, <2>3, <3>1
    <3> QED
      BY <1>10, <1>11, <3>4, <3>5 DEF Shape
  <2>5. CASE next.upto = 0
    <3>1. parsing' = FALSE /\ buffer' = {}
      <4>1. ~(next.upto > 0)
        BY <2>5
      <4>2. parsing' = (next.upto > 0)
        BY <2>1
      <4>3. buffer' = {}
        BY <2>2, <2>5
      <4>4. (next.upto > 0) = FALSE
        BY <4>1
      <4> QED
        BY <4>2, <4>3, <4>4
    <3>2. chunk = {} /\ UNCHANGED parsing
      <4>1. parsing = FALSE
        BY <1>1 DEF SInv, IInv, TypeOK
      <4> QED
        BY <1>9, <3>1, <4>1
    <3>3. UNCHANGED vars
      BY <1>14, <3>2
    <3>4. wait_n' > 0 => Lacking(S, Len(bytes'), wait_n')
      BY <2>1, <2>2, <2>5
    <3>5. Scalars' /\ Phases'
      BY <1>12, <1>13, <2>3, <3>1, <3>4
    <3> QED
      BY <1>10, <1>11, <3>3, <3>5 DEF Shape
  <2> QED
    BY <2>2, <2>4, <2>5
<1> QED
  BY <1>15, <1>16, <1>17

\* A sequence goes on behind what was cut.
LEMMA RestJoined ==
    ASSUME NEW b, NEW q, NEW c, Rest(b, q, c), NEW w \in Seq(Symbol)
    PROVE  Rest(b \o w, q, c \o w)
<1> DEFINE S == b \o w
           T == c \o w
<1>1. /\ b \in Seq(Symbol) /\ c \in Seq(Symbol) /\ q \in 0..Len(b)
      /\ Len(b) \in Nat /\ Len(c) \in Nat /\ Len(c) = Len(b) - q /\ Len(w) \in Nat
      /\ \A k \in 1..Len(c) : c[k] = b[q + k]
  BY LenProperties DEF Rest
<1>2. /\ S \in Seq(Symbol) /\ Len(S) = Len(b) + Len(w)
      /\ \A k \in 1..Len(b) : S[k] = b[k]
      /\ \A k \in 1..Len(w) : S[Len(b) + k] = w[k]
  BY <1>1, Parted
<1>3. /\ T \in Seq(Symbol) /\ Len(T) = Len(c) + Len(w)
      /\ \A k \in 1..Len(c) : T[k] = c[k]
      /\ \A k \in 1..Len(w) : T[Len(c) + k] = w[k]
  BY <1>1, Parted
<1> HIDE DEF S, T
<1>4. ASSUME NEW k \in 1..Len(T) PROVE T[k] = S[q + k]
  <2>1. CASE k <= Len(c)
    <3>1. k \in 1..Len(c) /\ q + k \in 1..Len(b)
      BY <1>1, <2>1
    <3> QED
      BY <1>1, <1>2, <1>3, <3>1
  <2>2. CASE k > Len(c)
    <3>1. /\ k - Len(c) \in 1..Len(w) /\ Len(c) + (k - Len(c)) = k
          /\ Len(b) + (k - Len(c)) = q + k
      BY <1>1, <1>3, <2>2
    <3>2. T[k] = w[k - Len(c)] /\ S[q + k] = w[k - Len(c)]
      BY <1>2, <1>3, <3>1
    <3> QED
      BY <3>2
  <2> QED
    BY <1>1, <1>3, <2>1, <2>2
<1>5. q \in 0..Len(S) /\ Len(T) = Len(S) - q
  BY <1>1, <1>2, <1>3
<1> QED
  BY <1>2, <1>3, <1>4, <1>5 DEF Rest, S, T

\* What the loop takes out of the buffer is the reply to a command whose response
\* is there, as the gateway sent it, and the others stay.
LEMMA TakenOut ==
    ASSUME NEW b \in Seq(Symbol), NEW w \in Seq(Symbol), WellFormed(b \o w),
           From(b) \ From(w) # {}, NEW r, r = Extract(b), NEW c,
           Rest(b, r.upto, c), NEW n, n = b[r.from].of
    PROVE  /\ n \in From(b) \ From(w)
           /\ \E kind \in ReplyKinds : SubSeq(b, r.from, r.upto) = Reply(n, kind)
           /\ c \in Seq(Symbol) /\ WellFormed(c \o w) /\ From(c) \subseteq From(b)
           /\ From(c) \ From(w) = (From(b) \ From(w)) \ {n}
<1> DEFINE S == b \o w
           T == c \o w
           from == r.from
           upto == r.upto
<1>1. /\ S \in Seq(Symbol) /\ Len(b) \in Nat /\ Len(w) \in Nat /\ Len(S) \in Nat
      /\ Len(S) = Len(b) + Len(w)
      /\ \A k \in 1..Len(b) : S[k] = b[k]
  BY Parted, LenProperties
<1>2. FirstReply(S, Len(b), r)
  BY Parsed
<1>3. WellFormed(S)
  OBVIOUS
<1>4. /\ from \in 1..Len(b) /\ upto <= Len(b)
      /\ \A k \in 1..(from - 1) : ~IsHead(S, k)
  BY <1>2 DEF FirstReply
<1>5. PICK m \in Commands, kind \in ReplyKinds :
        Placed(S, m, kind, from) /\ upto = Last(from, kind)
  BY <1>2 DEF FirstReply
<1>6. /\ from \in Nat \ {0} /\ from \in 1..Len(S) /\ upto \in Nat /\ from <= upto
      /\ from \in from..Last(from, kind) /\ upto = from + Size(kind) - 1
      /\ Size(kind) \in 1..7
  BY <1>1, <1>4, <1>5 DEF Last, Size
<1>7. n = m
  <2> HIDE DEF S, from
  <2>1. S[from].of = m
    <3>1. Placed(S, m, kind, from) /\ from \in Nat /\ from \in from..Last(from, kind)
      BY <1>5, <1>6
    <3> QED
      BY <3>1, Within
  <2> QED
    BY <1>1, <1>4, <2>1 DEF from
<1>8. n \in From(b) \ From(w)
  <2> HIDE DEF from, upto
  <2>1. Placed(b \o w, m, kind, from) /\ from \in 1..Len(b \o w)
    BY <1>5, <1>6
  <2>2. m \in From(b) \ From(w) <=> Last(from, kind) <= Len(b)
    BY <2>1, Received
  <2> QED
    BY <1>4, <1>5, <1>7, <2>2
<1>9. Rest(b, upto, c) /\ Rest(S, upto, T)
  BY RestJoined
<1> HIDE DEF S, T, from, upto
<1>10. /\ c \in Seq(Symbol) /\ Len(c) \in Nat /\ Len(c) = Len(b) - upto
       /\ \A k \in 1..Len(c) : c[k] = b[upto + k]
  <2>1. Rest(b, upto, c)
    BY <1>9
  <2> QED
    BY <2>1, LenProperties DEF Rest
<1>11. ASSUME NEW o \in Commands, o # n, NEW l \in ReplyKinds, NEW i \in 1..Len(S),
              Placed(S, o, l, i)
       PROVE  i > upto \/ Last(i, l) < from
  <2>1. i \in Nat /\ from \in Nat
    BY <1>1, <1>6
  <2>2. Last(from, kind) < i \/ Last(i, l) < from
    BY <1>5, <1>7, <1>11, <2>1, Apart
  <2> QED
    BY <1>1, <1>5, <1>6, <2>1, <2>2
<1>12. WellFormed(T)
  <2>1. ASSUME NEW o \in Commands, NEW l \in ReplyKinds, NEW i \in 1..Len(S),
               Placed(S, o, l, i)
        PROVE  Last(i, l) <= upto \/ i > upto
    <3>1. Last(i, l) \in Int
      BY <1>1 DEF Last, Size
    <3>2. CASE o = n
      <4>1. i \in Nat \ {0}
        BY <1>1
      <4>2. Placed(S, m, kind, from) /\ Placed(S, m, l, i) /\ from \in Nat \ {0}
        BY <1>5, <1>6, <1>7, <2>1, <3>2
      <4>3. Last(i, l) = Last(from, kind)
        BY <1>1, <4>1, <4>2, Unique
      <4>4. Last(i, l) = upto
        BY <1>5, <4>3
      <4> QED
        BY <1>6, <4>4
    <3>3. CASE o # n
      BY <1>6, <1>11, <2>1, <3>1, <3>3
    <3> QED
      BY <3>2, <3>3
  <2> QED
    BY <1>3, <1>9, <2>1, CutKeeps DEF S
<1>13. c \in Seq(Symbol) /\ From(c) \subseteq From(b)
  <2>1. c \in Seq(Symbol)
    BY <1>10
  <2>2. From(c) \subseteq From(b)
    BY <1>9, FromRest
  <2> QED
    BY <2>1, <2>2
<1>14. n \notin From(c)
  <2> SUFFICES ASSUME n \in From(c) PROVE FALSE
    OBVIOUS
  <2>1. PICK k \in 1..Len(c) : c[k].of = n
    BY <1>10, InFrom
  <2>2. upto + k \in 1..Len(b) /\ b[upto + k].of = n
    <3>1. upto + k \in 1..Len(b)
      BY <1>1, <1>6, <1>10
    <3>2. b[upto + k] = c[k]
      BY <1>10
    <3> QED
      BY <2>1, <3>1, <3>2
  <2>3. upto + k \in 1..Len(S) /\ S[upto + k].of = n
    BY <1>1, <2>2
  <2>4. upto + k \in from..Last(from, kind)
    BY <1>5, <1>7, <2>3 DEF Placed
  <2> QED
    BY <1>5, <1>6, <2>4
<1>15. ASSUME NEW o \in From(b) \ From(w), o # n PROVE o \in From(c)
  <2>1. ASSUME NEW k \in 1..upto, b[k].of = o PROVE FALSE
    <3>1. k \in 1..Len(b) /\ k \in 1..Len(S) /\ S[k].of = o /\ o \in Commands
      BY <1>1, <1>4, <1>6, <2>1, InFrom
    <3>2. PICK i \in 1..Len(S), l \in ReplyKinds : Placed(S, o, l, i)
      BY <1>3, <3>1 DEF WellFormed, S
    <3>3. k \in i..Last(i, l) /\ i \in Nat /\ Last(i, l) \in Int
      BY <1>1, <3>1, <3>2 DEF Placed, Last, Size
    <3>4. IsHead(S, i)
      BY <3>2, <3>3, OneHead
    <3>5. i >= from
      BY <1>1, <1>4, <1>6, <3>4
    <3>6. i > upto \/ Last(i, l) < from
      BY <1>11, <1>15, <3>1, <3>2
    <3>7. i <= Last(i, l) /\ i <= upto
      BY <1>6, <3>3
    <3> QED
      BY <1>6, <3>3, <3>5, <3>6, <3>7
  <2> QED
    BY <1>9, <2>1, FromRest
<1>16. SubSeq(b, from, upto) = Reply(n, kind)
  <2> DEFINE cut == SubSeq(b, from, upto)
             reply == Reply(n, kind)
  <2>1. /\ reply \in Seq(Symbol) /\ Len(reply) = Size(kind)
        /\ \A i \in 1..Size(kind) : reply[i] = [of |-> n, part |-> ReplyParts[kind][i]]
    BY <1>7, ReplySymbols
  <2>2. \A i \in from..upto : b[i] \in Symbol
    BY <1>1, <1>4, <1>6, ElementOfSeq
  <2>3. from \in Int /\ upto \in Int /\ upto - from + 1 = Size(kind)
    BY <1>6
  <2>4. /\ cut \in Seq(Symbol)
        /\ Len(cut) = IF from <= upto THEN upto - from + 1 ELSE 0
        /\ \A i \in 1..(upto - from + 1) : cut[i] = b[from + i - 1]
    BY <2>2, <2>3, SubSeqProperties
  <2>5. Len(cut) = Size(kind) /\ \A i \in 1..Size(kind) : cut[i] = b[from + i - 1]
    BY <1>6, <2>3, <2>4
  <2> HIDE DEF cut, reply
  <2>6. ASSUME NEW i \in 1..Size(kind) PROVE cut[i] = reply[i]
    <3>1. from + i - 1 \in 1..Len(b)
      BY <1>1, <1>4, <1>6
    <3>2. S[from + i - 1] = [of |-> n, part |-> ReplyParts[kind][i]]
      BY <1>5, <1>7 DEF Placed
    <3>3. S[from + i - 1] = b[from + i - 1]
      BY <1>1, <3>1
    <3>4. cut[i] = b[from + i - 1]
      BY <2>5
    <3> QED
      BY <2>1, <3>2, <3>3, <3>4
  <2>7. cut = reply
    BY <2>1, <2>4, <2>5, <2>6, SeqEqual
  <2> QED
    BY <2>7 DEF cut, reply
<1>17. From(c) \ From(w) = (From(b) \ From(w)) \ {n}
  BY <1>13, <1>14, <1>15
<1> QED
  BY <1>8, <1>12, <1>13, <1>16, <1>17 DEF T, from, upto

\* A turn of the loop.
LEMMA ResolveRefines == SInv /\ ResolveNext => Next /\ Shape'
<1> SUFFICES ASSUME SInv, ResolveNext PROVE Next /\ Shape'
  OBVIOUS
<1> DEFINE r == Extract(bytes)
           n == bytes[r.from].of
           next == Extract(bytes')
           cut == SubSeq(bytes, r.from, r.upto)
           S == bytes \o wire
<1>1. /\ parsing /\ bytes' = SubSeq(bytes, r.upto + 1, Len(bytes))
      /\ \/ /\ SetResult(n)
            /\ received' = [m \in Commands |->
                  IF response'[m] = response[m] THEN received[m] ELSE cut]
            /\ parsing' = (next.upto > 0)
            /\ wait_n' = IF next.wait > 0 THEN next.wait ELSE wait_n
            /\ UNCHANGED <<transport, unknown_tag>>
         \/ /\ TagUnknown(n)
            /\ parsing' = FALSE
            /\ UNCHANGED <<commands, call, response, received, wait_n>>
      /\ UNCHANGED <<handshake_made, raw_mode, tag_counter, requests, tag_reused,
                     wire, termVars>>
      /\ in_flight' = From(wire') /\ buffer' = From(bytes') \ From(wire')
  BY DEF ResolveNext, Image
<1>2. /\ bytes \in Seq(Symbol) /\ wire \in Seq(Symbol) /\ WellFormed(S)
      /\ in_flight = From(wire) /\ buffer = From(bytes) \ From(wire)
      /\ buffer # {} /\ wait_n = 0 /\ handshake_made /\ ~raw_mode
  BY <1>1 DEF SInv, Shape, Phases, Streams
<1> HIDE DEF r, next, cut
<1>3. Rest(bytes, r.upto, bytes')
  <2>1. /\ r.upto \in Nat
        /\ r.upto > 0 => FirstReply(S, Len(bytes), r)
        /\ r.upto = 0 => buffer = {}
    BY <1>2, Parsed DEF r
  <2>2. FirstReply(S, Len(bytes), r)
    BY <1>2, <2>1
  <2>3. r.upto <= Len(bytes)
    BY <2>2 DEF FirstReply
  <2>4. r.upto \in 0..Len(bytes)
    BY <1>2, <2>1, <2>3, LenProperties
  <2> QED
    BY <1>1, <1>2, <2>4, CutOff
<1> HIDE DEF n
<1>4. /\ n \in buffer
      /\ \E kind \in ReplyKinds : cut = Reply(n, kind)
      /\ bytes' \in Seq(Symbol) /\ WellFormed(bytes' \o wire)
      /\ From(bytes') \subseteq From(bytes)
      /\ From(bytes') \ From(wire) = buffer \ {n}
  BY <1>2, <1>3, TakenOut DEF r, n, cut
<1>5. /\ wire' = wire /\ in_flight' = in_flight /\ buffer' = buffer \ {n}
      /\ WellFormed(bytes' \o wire')
  BY <1>1, <1>2, <1>4
<1>6. n \in Commands /\ Tag(n) \in Tags
  BY <1>4, TagType DEF SInv, IInv, TypeOK
<1>7. Streams'
  BY <1>1, <1>2, <1>4, <1>5 DEF SInv, Shape, Streams, termVars
<1>8. ASSUME wait_n' \in 0..(DataLength + 2) PROVE Scalars'
  BY <1>1, <1>8 DEF SInv, Shape, Scalars, termVars
<1>9. ASSUME parsing' => buffer' # {} /\ wait_n' = 0,
             wait_n' > 0 =>
               buffer' = {} /\ Lacking(bytes' \o wire', Len(bytes'), wait_n')
      PROVE  Phases'
  BY <1>1, <1>2, <1>5, <1>9 DEF Phases
<1>10. CASE /\ TagUnknown(n)
            /\ parsing' = FALSE
            /\ UNCHANGED <<commands, call, response, received, wait_n>>
  <2>1. ResolveUnknown(n)
    BY <1>1, <1>4, <1>5, <1>10 DEF ResolveUnknown
  <2>2. Scalars' /\ Phases'
    BY <1>2, <1>8, <1>9, <1>10 DEF DataLength
  <2>3. Told'
    BY <1>1, <1>10 DEF SInv, Shape, Told, ResponsesAreIntact
  <2>4. Next
    BY <1>6, <2>1 DEF Next
  <2> QED
    BY <1>7, <2>2, <2>3, <2>4 DEF Shape
<1>11. CASE /\ SetResult(n)
            /\ received' = [m \in Commands |->
                  IF response'[m] = response[m] THEN received[m] ELSE cut]
            /\ parsing' = (next.upto > 0)
            /\ wait_n' = IF next.wait > 0 THEN next.wait ELSE wait_n
            /\ UNCHANGED <<transport, unknown_tag>>
  <2>1. /\ next.upto \in Nat /\ next.wait \in 0..(DataLength + 2)
        /\ next.upto > 0 =>
             FirstReply(bytes' \o wire, Len(bytes'), next) /\ buffer' # {}
        /\ next.upto = 0 =>
             /\ buffer' = {}
             /\ next.wait = 0 \/ Lacking(bytes' \o wire, Len(bytes'), next.wait)
    <3> DEFINE b == bytes'
    <3>1. /\ b \in Seq(Symbol) /\ WellFormed(b \o wire) /\ next = Extract(b)
          /\ buffer' = From(b) \ From(wire)
      BY <1>1, <1>4, <1>5 DEF next
    <3> HIDE DEF b
    <3>2. /\ next.upto \in Nat /\ next.wait \in 0..(DataLength + 2)
          /\ next.upto > 0 =>
               FirstReply(b \o wire, Len(b), next) /\ buffer' # {}
          /\ next.upto = 0 =>
               /\ buffer' = {}
               /\ next.wait = 0 \/ Lacking(b \o wire, Len(b), next.wait)
      BY <1>2, <3>1, Parsed
    <3> QED
      BY <3>2 DEF b
  <2>2. parsing' = (buffer # {n})
    <3>1. buffer' # {} <=> buffer # {n}
      BY <1>4, <1>5
    <3>2. (next.upto > 0) = (buffer # {n})
      BY <2>1, <3>1
    <3>3. parsing' = (next.upto > 0)
      BY <1>11
    <3> QED
      BY <3>2, <3>3
  <2>3. Resolve(n)
    BY <1>1, <1>4, <1>5, <1>11, <2>2 DEF Resolve
  <2>4. wait_n' = next.wait
    BY <1>2, <1>11, <2>1 DEF DataLength
  <2>5. Scalars'
    BY <1>8, <2>1, <2>4
  <2>6. Phases'
    <3>1. parsing' => buffer' # {} /\ wait_n' = 0
      <4>1. CASE next.upto > 0
        <5>1. next.wait = 0
          BY <2>1, <4>1 DEF FirstReply
        <5> QED
          BY <2>1, <2>4, <4>1, <5>1
      <4>2. CASE ~(next.upto > 0)
        <5>1. parsing' = (next.upto > 0) /\ (next.upto > 0) = FALSE
          BY <1>11, <4>2
        <5> QED
          BY <5>1
      <4> QED
        BY <4>1, <4>2
    <3>2. wait_n' > 0 =>
            buffer' = {} /\ Lacking(bytes' \o wire', Len(bytes'), wait_n')
      <4> SUFFICES ASSUME wait_n' > 0
                   PROVE  /\ buffer' = {}
                          /\ Lacking(bytes' \o wire', Len(bytes'), wait_n')
        OBVIOUS
      <4>1. ~(next.upto > 0)
        BY <2>1, <2>4 DEF FirstReply
      <4>2. next.upto = 0 /\ next.wait # 0
        BY <2>1, <2>4, <4>1
      <4>3. buffer' = {} /\ Lacking(bytes' \o wire, Len(bytes'), next.wait)
        BY <2>1, <4>2
      <4> QED
        BY <1>5, <2>4, <4>3
    <3> QED
      BY <1>9, <3>1, <3>2
  <2>7. Told'
    <3> DEFINE m == commands[Tag(n)]
    <3>1. /\ m \in Commands
          /\ call \in [Commands -> Outcomes \cup {"unused", "waiting"}]
          /\ response \in [Commands -> Commands \cup {NoFuture}]
      BY <1>6, <1>11 DEF SInv, IInv, TypeOK, SetResult
    <3>2. n # NoFuture
      BY <1>6 DEF Commands, NoFuture
    <3>3. /\ \A o \in Commands : call[o] = "answered" <=> response[o] # NoFuture
          /\ \A o \in Commands : response[o] = NoFuture <=> received[o] = <<>>
          /\ \A o \in Commands : call[o] = "answered" =>
               \E kind \in DOMAIN ReplyParts : received[o] = Reply(response[o], kind)
      BY DEF SInv, Shape, Told, ResponsesAreIntact
    <3>4. CASE call[m] = "waiting"
      <4>1. /\ call' = [call EXCEPT ![m] = "answered"]
            /\ response' = [response EXCEPT ![m] = n]
        BY <1>11, <3>4 DEF SetResult
      <4> HIDE DEF m
      <4>2. response[m] = NoFuture
        BY <3>1, <3>3, <3>4
      <4>3. call'[m] = "answered" /\ response'[m] = n /\ received'[m] = cut
        BY <1>11, <3>1, <3>2, <4>1, <4>2
      <4>4. \A o \in Commands : o # m =>
              call'[o] = call[o] /\ response'[o] = response[o] /\ received'[o] = received[o]
        BY <1>11, <3>1, <4>1
      <4>5. PICK kind \in ReplyKinds : cut = Reply(n, kind)
        BY <1>4
      <4>6. cut # <<>> /\ kind \in DOMAIN ReplyParts
        BY <1>6, <4>5, ReplySymbols, ReplyShape
      <4>7. \A o \in Commands :
              /\ call'[o] = "answered" <=> response'[o] # NoFuture
              /\ response'[o] = NoFuture <=> received'[o] = <<>>
              /\ call'[o] = "answered" =>
                   \E l \in DOMAIN ReplyParts : received'[o] = Reply(response'[o], l)
        BY <3>2, <3>3, <4>3, <4>4, <4>5, <4>6
      <4> QED
        BY <1>1, <1>2, <4>7 DEF Told, ResponsesAreIntact
    <3>5. CASE call[m] # "waiting"
      <4>1. UNCHANGED <<call, response>>
        BY <1>11, <3>5 DEF SetResult
      <4>2. \A o \in Commands : received'[o] = received[o]
        BY <1>11, <4>1
      <4> QED
        BY <1>1, <1>2, <3>3, <4>1, <4>2 DEF Told, ResponsesAreIntact
    <3> QED
      BY <3>4, <3>5
  <2>8. Next
    BY <1>6, <2>3 DEF Next
  <2> QED
    BY <1>7, <2>5, <2>6, <2>7, <2>8 DEF Shape
<1> QED
  BY <1>1, <1>10, <1>11

---------------------------------------------------------------------------
(* The results.                                                            *)

\* A step of the stream is one of AsyncProtocol's, or nothing there.
LEMMA StreamStepHolds ==
    SInv /\ [StreamNext]_asyncVars => [Next]_vars /\ SInv'
<1> SUFFICES ASSUME SInv, [StreamNext]_asyncVars PROVE [Next]_vars /\ Shape'
  BY StepHolds DEF SInv
<1>1. CASE Elsewhere \/ EnableRterm
  BY <1>1, ElsewhereRefines
<1>2. ASSUME NEW n \in Commands, NEW kind \in DOMAIN ReplyParts, StreamAnswer(n, kind)
      PROVE  [Next]_vars /\ Shape'
  <2>1. kind \in ReplyKinds
    BY DEF ReplyParts, ReplyKinds
  <2> QED
    BY <1>2, <2>1, AnswerRefines
<1>3. CASE SendOutput
  BY <1>3, OutputRefines
<1>4. ASSUME NEW k \in 1..Len(wire), FirstChunk(k) \/ Chunk(k) \/ RawChunk(k)
      PROVE  [Next]_vars /\ Shape'
  BY <1>4, FirstChunkRefines, ChunkRefines, RawChunkRefines
<1>5. CASE ResolveNext
  BY <1>5, ResolveRefines
<1>6. CASE LockAnswered
  BY <1>6, LockRefines
<1>7. CASE UNCHANGED asyncVars
  <2>1. /\ UNCHANGED vars
        /\ UNCHANGED <<wire, bytes, wait_n, received, rterm, raw_stream, gw_raw,
                       output, mixed>>
    BY <1>7 DEF asyncVars, streamVars, termVars
  <2> QED
    BY <2>1 DEF SInv, Shape, Scalars, Streams, Phases, Told, ResponsesAreIntact, vars
<1> QED
  BY <1>1, <1>2, <1>3, <1>4, <1>5, <1>6, <1>7 DEF StreamNext

\* The streams are in order at all times.
LEMMA StreamInvariant == StreamSpec => []SInv
<1>1. StreamInit => SInv
  BY StreamInitHolds
<1>2. SInv /\ [StreamNext]_asyncVars => SInv'
  BY StreamStepHolds
<1> QED
  BY <1>1, <1>2, PTL DEF StreamSpec

\* The values the stream's variables can take (lines 56-66 of async_fgc.py).
THEOREM StreamTypeCorrect == StreamSpec => []StreamTypeOK
<1>1. SInv => StreamTypeOK
  <2> SUFFICES ASSUME SInv PROVE StreamTypeOK
    OBVIOUS
  <2>1. \A seq \in {wire, bytes, raw_stream} : seq \in Seq(Symbol)
    BY DEF SInv, Shape, Streams
  <2>2. ASSUME NEW seq \in Seq(Symbol), NEW i \in DOMAIN seq
        PROVE  seq[i].of \in 0..(MaxCommands + MaxOutput)
    <3>1. seq[i] \in Symbol
      BY <2>2, LenProperties, ElementOfSeq
    <3> QED
      BY <3>1 DEF Symbol
  <2>3. \A n \in Commands : received[n] = <<>> <=> response[n] = NoFuture
    BY DEF SInv, Shape, Told
  <2> QED
    BY <2>1, <2>2, <2>3 DEF StreamTypeOK, SInv, Shape, Scalars
<1> QED
  BY <1>1, StreamInvariant, PTL

\* Whatever the pieces, what a command is answered with is a response as the
\* gateway sent it (lines 137-200).
THEOREM ResponsesIntact == StreamSpec => []ResponsesAreIntact
<1>1. SInv => ResponsesAreIntact
  BY DEF SInv, Shape, Told
<1> QED
  BY <1>1, StreamInvariant, PTL

\* Received in pieces and searched for responses, the stream does what
\* AsyncProtocol does with whole ones (lines 102-220).
THEOREM StreamImplementsProtocol == StreamSpec => ImplementsProtocol
<1>1. StreamInit => Init
  BY StreamInitHolds
<1>2. SInv /\ [StreamNext]_asyncVars => [Next]_vars
  BY StreamStepHolds
<1> QED
  BY <1>1, <1>2, StreamInvariant, PTL DEF StreamSpec, ImplementsProtocol, Spec

---------------------------------------------------------------------------
(* Raw output.  Until the gateway answers another command into it, output  *)
(* comes behind everything else of the stream; the response to the lock is *)
(* the last thing before it.  So once the task that awaited that response  *)
(* runs, there is nothing but output left, and nothing was cut out of it.  *)

All == bytes \o wire
Whole == raw_stream \o bytes \o wire

\* The first m symbols of output are there, in the order they were sent.
InOrder(S, m) ==
    /\ \A k \in 1..m : \E i \in 1..Len(S) : S[i].of = MaxCommands + k
    /\ \A i \in 1..Len(S) : IsOutput(S[i]) => S[i].of <= MaxCommands + m
    /\ \A i, j \in 1..Len(S) :
         i < j /\ IsOutput(S[i]) /\ IsOutput(S[j]) => S[i].of < S[j].of

\* Output is behind the rest, and the response to n behind the other ones.
AtTheEnd(S, n) ==
    \A i, j \in 1..Len(S) : i < j =>
        /\ IsOutput(S[i]) => IsOutput(S[j])
        /\ S[i].of = n => S[j].of = n \/ IsOutput(S[j])

Only(S) == \A i \in 1..Len(S) : IsOutput(S[i])

\* What is left of a stream.
LEMMA OutputInRest ==
    ASSUME NEW S, NEW q, NEW T, Rest(S, q, T)
    PROVE  /\ Only(S) => Only(T)
           /\ \A n : AtTheEnd(S, n) => AtTheEnd(T, n)
           /\ \A m \in Nat : InOrder(S, m) /\ (\A k \in 1..q : ~IsOutput(S[k]))
                => InOrder(T, m)
<1>1. /\ Len(S) \in Nat /\ q \in 0..Len(S) /\ Len(T) = Len(S) - q
      /\ \A k \in 1..Len(T) : T[k] = S[q + k]
  BY LenProperties DEF Rest
<1>2. \A k \in 1..Len(T) : q + k \in 1..Len(S)
  BY <1>1
<1>3. Only(S) => Only(T)
  BY <1>1, <1>2 DEF Only
<1>4. ASSUME NEW n, AtTheEnd(S, n) PROVE AtTheEnd(T, n)
  <2> SUFFICES ASSUME NEW i \in 1..Len(T), NEW j \in 1..Len(T), i < j
               PROVE  /\ IsOutput(T[i]) => IsOutput(T[j])
                      /\ T[i].of = n => T[j].of = n \/ IsOutput(T[j])
    BY DEF AtTheEnd
  <2>1. /\ q + i \in 1..Len(S) /\ q + j \in 1..Len(S) /\ q + i < q + j
        /\ T[i] = S[q + i] /\ T[j] = S[q + j]
    BY <1>1, <1>2
  <2> QED
    BY <1>4, <2>1 DEF AtTheEnd
<1>5. ASSUME NEW m \in Nat, InOrder(S, m), \A k \in 1..q : ~IsOutput(S[k])
      PROVE  InOrder(T, m)
  <2>1. ASSUME NEW k \in 1..m PROVE \E i \in 1..Len(T) : T[i].of = MaxCommands + k
    <3>1. PICK i \in 1..Len(S) : S[i].of = MaxCommands + k
      BY <1>5 DEF InOrder
    <3>2. IsOutput(S[i])
      BY <3>1, BoundsAssumption DEF IsOutput
    <3>3. i \notin 1..q
      BY <1>5, <3>2
    <3>4. i - q \in 1..Len(T) /\ q + (i - q) = i
      BY <1>1, <3>3
    <3>5. T[i - q] = S[i]
      BY <1>1, <3>4
    <3> QED
      BY <3>1, <3>4, <3>5
  <2>2. ASSUME NEW i \in 1..Len(T), IsOutput(T[i]) PROVE T[i].of <= MaxCommands + m
    BY <1>1, <1>2, <1>5, <2>2 DEF InOrder
  <2>3. ASSUME NEW i \in 1..Len(T), NEW j \in 1..Len(T), i < j, IsOutput(T[i]),
               IsOutput(T[j])
        PROVE  T[i].of < T[j].of
    <3>1. /\ q + i \in 1..Len(S) /\ q + j \in 1..Len(S) /\ q + i < q + j
          /\ T[i] = S[q + i] /\ T[j] = S[q + j]
      BY <1>1, <1>2, <2>3
    <3> QED
      BY <1>5, <2>3, <3>1 DEF InOrder
  <2> QED
    BY <2>1, <2>2, <2>3 DEF InOrder
<1> QED
  BY <1>3, <1>4, <1>5

\* The next symbol of output.
LEMMA OutputAdded ==
    ASSUME NEW S \in Seq(Symbol), NEW x \in Symbol, NEW m \in Nat,
           x.of = MaxCommands + m + 1
    PROVE  /\ Only(S) => Only(Append(S, x))
           /\ \A n : AtTheEnd(S, n) => AtTheEnd(Append(S, x), n)
           /\ InOrder(S, m) => InOrder(Append(S, x), m + 1)
<1> DEFINE T == Append(S, x)
<1>1. /\ Len(S) \in Nat /\ Len(T) = Len(S) + 1 /\ T[Len(T)] = x
      /\ \A k \in 1..Len(S) : T[k] = S[k]
  BY LenProperties, AppendProperties
<1>2. IsOutput(x) /\ MaxCommands \in Nat
  BY BoundsAssumption DEF IsOutput
<1> HIDE DEF T
<1>3. \A k \in 1..Len(T) : k \in 1..Len(S) \/ k = Len(T)
  BY <1>1
<1>4. Only(S) => Only(T)
  BY <1>1, <1>2, <1>3 DEF Only
<1>5. ASSUME NEW n, AtTheEnd(S, n) PROVE AtTheEnd(T, n)
  <2> SUFFICES ASSUME NEW i \in 1..Len(T), NEW j \in 1..Len(T), i < j
               PROVE  /\ IsOutput(T[i]) => IsOutput(T[j])
                      /\ T[i].of = n => T[j].of = n \/ IsOutput(T[j])
    BY DEF AtTheEnd
  <2>1. CASE j = Len(T)
    BY <1>1, <1>2, <2>1
  <2>2. CASE j # Len(T)
    <3>1. i \in 1..Len(S) /\ j \in 1..Len(S) /\ T[i] = S[i] /\ T[j] = S[j]
      BY <1>1, <2>2
    <3> QED
      BY <1>5, <3>1 DEF AtTheEnd
  <2> QED
    BY <2>1, <2>2
<1>6. ASSUME InOrder(S, m) PROVE InOrder(T, m + 1)
  <2>1. ASSUME NEW k \in 1..(m + 1)
        PROVE  \E i \in 1..Len(T) : T[i].of = MaxCommands + k
    <3>1. CASE k = m + 1
      <4>1. Len(T) \in 1..Len(T) /\ T[Len(T)].of = MaxCommands + k
        BY <1>1, <1>2, <3>1
      <4> QED
        BY <4>1
    <3>2. CASE k # m + 1
      <4>1. PICK i \in 1..Len(S) : S[i].of = MaxCommands + k
        BY <1>6, <3>2 DEF InOrder
      <4>2. i \in 1..Len(T) /\ T[i] = S[i]
        BY <1>1
      <4> QED
        BY <4>1, <4>2
    <3> QED
      BY <3>1, <3>2
  <2>2. \A i \in 1..Len(S) : S[i].of \in Nat
    <3>1. \A i \in 1..Len(S) : S[i] \in Symbol
      BY ElementOfSeq
    <3> QED
      BY <3>1, BoundsAssumption, MaxOutputAssumption DEF Symbol
  <2>3. ASSUME NEW i \in 1..Len(T), IsOutput(T[i])
        PROVE  T[i].of <= MaxCommands + (m + 1)
    <3>1. CASE i = Len(T)
      BY <1>1, <1>2, <3>1
    <3>2. CASE i # Len(T)
      <4>1. i \in 1..Len(S) /\ T[i] = S[i]
        BY <1>1, <3>2
      <4>2. S[i].of <= MaxCommands + m
        BY <1>6, <2>3, <4>1 DEF InOrder
      <4> QED
        BY <1>2, <2>2, <4>1, <4>2
    <3> QED
      BY <3>1, <3>2
  <2>4. ASSUME NEW i \in 1..Len(T), NEW j \in 1..Len(T), i < j, IsOutput(T[i]),
               IsOutput(T[j])
        PROVE  T[i].of < T[j].of
    <3>1. i \in 1..Len(S) /\ T[i] = S[i]
      BY <1>1, <2>4
    <3>2. S[i].of <= MaxCommands + m
      BY <1>6, <2>4, <3>1 DEF InOrder
    <3>3. CASE j = Len(T)
      BY <1>1, <1>2, <2>2, <3>1, <3>2, <3>3
    <3>4. CASE j # Len(T)
      <4>1. j \in 1..Len(S) /\ T[j] = S[j]
        BY <1>1, <3>4
      <4> QED
        BY <1>6, <2>4, <3>1, <4>1 DEF InOrder
    <3> QED
      BY <3>3, <3>4
  <2> QED
    BY <2>1, <2>3, <2>4 DEF InOrder
<1> QED
  BY <1>4, <1>5, <1>6 DEF T

\* A response, as long as there is no output.
LEMMA ReplyAdded ==
    ASSUME NEW S \in Seq(Symbol), InOrder(S, 0), NEW n \in Commands,
           NEW kind \in ReplyKinds
    PROVE  /\ InOrder(S \o Reply(n, kind), 0)
           /\ n \notin From(S) => AtTheEnd(S \o Reply(n, kind), n)
<1> DEFINE R == Reply(n, kind)
           T == S \o R
<1>1. /\ R \in Seq(Symbol) /\ Len(R) = Size(kind)
      /\ \A i \in 1..Len(R) : R[i] = [of |-> n, part |-> ReplyParts[kind][i]]
  BY ReplySymbols
<1>2. \A i \in 1..Len(R) : R[i].of = n
  BY <1>1
<1>3. MaxCommands \in Nat /\ n \in Nat /\ n <= MaxCommands
  BY BoundsAssumption DEF Commands
<1> HIDE DEF R
<1>4. /\ T \in Seq(Symbol) /\ Len(S) \in Nat /\ Len(R) \in Nat
      /\ Len(T) = Len(S) + Len(R)
      /\ \A k \in 1..Len(S) : T[k] = S[k]
      /\ \A k \in 1..Len(R) : T[Len(S) + k] = R[k]
  BY <1>1, Parted
<1> HIDE DEF T
<1>5. ASSUME NEW k \in 1..Len(T)
      PROVE  \/ k \in 1..Len(S) /\ T[k] = S[k]
             \/ k > Len(S) /\ T[k].of = n
  <2>1. CASE k <= Len(S)
    BY <1>4, <2>1
  <2>2. CASE k > Len(S)
    <3>1. k - Len(S) \in 1..Len(R) /\ Len(S) + (k - Len(S)) = k
      BY <1>4, <2>2
    <3>2. T[k] = R[k - Len(S)]
      BY <1>4, <3>1
    <3> QED
      BY <1>2, <2>2, <3>1, <3>2
  <2> QED
    BY <1>4, <2>1, <2>2
<1>6. \A k \in 1..Len(S) : ~IsOutput(S[k])
  <2> SUFFICES ASSUME NEW k \in 1..Len(S), IsOutput(S[k]) PROVE FALSE
    OBVIOUS
  <2>1. S[k] \in Symbol
    BY ElementOfSeq
  <2>2. S[k].of \in Nat
    BY <2>1, BoundsAssumption, MaxOutputAssumption DEF Symbol
  <2>3. S[k].of <= MaxCommands + 0 /\ S[k].of > MaxCommands
    BY DEF InOrder, IsOutput
  <2> QED
    BY <1>3, <2>2, <2>3
<1>7. \A k \in 1..Len(T) : ~IsOutput(T[k])
  BY <1>3, <1>5, <1>6 DEF IsOutput
<1>8. InOrder(T, 0)
  BY <1>7 DEF InOrder
<1>9. ASSUME n \notin From(S) PROVE AtTheEnd(T, n)
  <2> SUFFICES ASSUME NEW i \in 1..Len(T), NEW j \in 1..Len(T), i < j, T[i].of = n
               PROVE  T[j].of = n
    BY <1>7 DEF AtTheEnd
  <2>1. i > Len(S)
    <3>1. \A k \in 1..Len(S) : S[k].of # n
      BY <1>9, InFrom
    <3> QED
      BY <1>5, <3>1
  <2> QED
    BY <1>4, <1>5, <2>1
<1> QED
  BY <1>8, <1>9 DEF R, T

\* Output in two parts of a stream.
LEMMA OnlyJoined ==
    ASSUME NEW S \in Seq(Symbol), NEW T \in Seq(Symbol)
    PROVE  Only(S \o T) <=> Only(S) /\ Only(T)
<1> DEFINE W == S \o T
<1>1. /\ Len(S) \in Nat /\ Len(T) \in Nat /\ Len(W) = Len(S) + Len(T)
      /\ \A k \in 1..Len(S) : W[k] = S[k]
      /\ \A k \in 1..Len(T) : W[Len(S) + k] = T[k]
  BY Parted
<1> HIDE DEF W
<1>2. ASSUME Only(W) PROVE Only(S) /\ Only(T)
  <2>1. \A k \in 1..Len(S) : k \in 1..Len(W)
    BY <1>1
  <2>2. \A k \in 1..Len(T) : Len(S) + k \in 1..Len(W)
    BY <1>1
  <2> QED
    BY <1>1, <1>2, <2>1, <2>2 DEF Only
<1>3. ASSUME Only(S), Only(T) PROVE Only(W)
  <2> SUFFICES ASSUME NEW k \in 1..Len(W) PROVE IsOutput(W[k])
    BY DEF Only
  <2>1. CASE k <= Len(S)
    BY <1>1, <1>3, <2>1 DEF Only
  <2>2. CASE k > Len(S)
    <3>1. k - Len(S) \in 1..Len(T) /\ Len(S) + (k - Len(S)) = k
      BY <1>1, <2>2
    <3>2. W[k] = T[k - Len(S)]
      BY <1>1, <3>1
    <3> QED
      BY <1>3, <3>1, <3>2 DEF Only
  <2> QED
    BY <1>1, <2>1, <2>2
<1> QED
  BY <1>2, <1>3 DEF W

\* What the loop found, by its first and last symbols.
LEMMA FoundEnds ==
    ASSUME NEW b \in Seq(Symbol), NEW w \in Seq(Symbol), WellFormed(b \o w),
           NEW r, r = Extract(b), r.upto > 0
    PROVE  /\ r.from \in 1..Len(b) /\ r.upto \in r.from..Len(b)
           /\ b[r.upto].of = b[r.from].of /\ b[r.from].of \in Commands
           /\ b[r.from].of \in From(b) \ From(w)
<1> DEFINE S == b \o w
<1>1. /\ S \in Seq(Symbol) /\ Len(b) \in Nat
      /\ \A k \in 1..Len(b) : S[k] = b[k]
  BY Parted
<1>2. FirstReply(S, Len(b), r)
  BY Parsed
<1> HIDE DEF S
<1>3. PICK n \in Commands, kind \in ReplyKinds :
        Placed(S, n, kind, r.from) /\ r.upto = Last(r.from, kind)
  BY <1>2 DEF FirstReply
<1>4. r.from \in 1..Len(b) /\ r.from \in Nat /\ r.upto <= Len(b)
  BY <1>1, <1>2 DEF FirstReply
<1>5. r.from <= r.upto /\ r.upto \in Nat
  BY <1>3, <1>4 DEF Last, Size
<1>6. /\ r.from \in r.from..Last(r.from, kind)
      /\ r.upto \in r.from..Last(r.from, kind)
  BY <1>3, <1>4, <1>5
<1>7. S[r.from].of = n /\ S[r.upto].of = n
  BY <1>3, <1>4, <1>6, Within
<1>8. n \in From(b) \ From(w)
  <2>1. Placed(b \o w, n, kind, r.from)
    BY <1>3 DEF S
  <2>2. Len(b \o w) = Len(b) + Len(w) /\ Len(w) \in Nat
    BY Parted
  <2>3. r.from \in 1..Len(b \o w)
    BY <1>1, <1>4, <2>2
  <2>4. Last(r.from, kind) <= Len(b)
    BY <1>3, <1>4
  <2> QED
    BY <2>1, <2>3, <2>4, Received
<1> QED
  BY <1>1, <1>4, <1>5, <1>7, <1>8

\* The terminal's lock, and where its response is.
Terminal ==
    /\ gw_raw => rterm \in Commands
    /\ ~gw_raw => output = 0 /\ ~mixed
    /\ ~raw_mode => raw_stream = <<>>
    /\ rterm <= tag_counter
    /\ \A i \in 1..Len(All) : All[i].of = rterm /\ All[i].part = "ok" => gw_raw

\* A command that was answered is not registered any more.
Locks ==
    ~tag_reused =>
        /\ \A n \in Commands : call[n] = "answered" => commands[Tag(n)] # n
        /\ /\ rterm # NoFuture
           /\ call[rterm] = "answered"
           /\ received[rterm][1].part = "ok"
           => gw_raw
        /\ raw_mode => gw_raw

OutputThere == ~tag_reused /\ ~mixed => InOrder(Whole, output)

\* Once the response to the lock is gone from the stream there is only output.
OutputLast ==
    ~tag_reused /\ ~mixed /\ gw_raw =>
        /\ AtTheEnd(All, rterm)
        /\ rterm \notin requests \cup From(All) => Only(All)
        /\ raw_mode => rterm \notin requests \cup From(All) /\ Only(raw_stream)

RawInv == Terminal /\ Locks /\ OutputThere /\ OutputLast

\* A new connection.
LEMMA RawInitHolds == StreamInit => RawInv
<1> SUFFICES ASSUME StreamInit PROVE RawInv
  OBVIOUS
<1>1. /\ wire = <<Plus>> /\ bytes = <<>> /\ raw_stream = <<>> /\ rterm = NoFuture
      /\ gw_raw = FALSE /\ output = 0 /\ mixed = FALSE /\ Init
  BY DEF StreamInit
<1>2. Plus \in Symbol /\ Plus.of = 0 /\ Plus.part = "+"
  BY BoundsAssumption, MaxOutputAssumption DEF Plus, Symbol, Gateway, Parts
<1>3. wire \in Seq(Symbol) /\ Len(wire) = 1 /\ wire[1] = Plus
  BY <1>1, <1>2
<1>4. All = wire /\ Whole = wire
  BY <1>1, <1>3, ConcatEmptySeq DEF All, Whole
<1>5. Terminal
  BY <1>1, <1>2, <1>3, <1>4 DEF Terminal, Init, NoFuture
<1>6. Locks
  BY <1>1 DEF Locks, Init
<1>7. ~IsOutput(Plus)
  BY <1>2, BoundsAssumption DEF IsOutput
<1>8. InOrder(Whole, output)
  BY <1>1, <1>3, <1>4, <1>7 DEF InOrder
<1> QED
  BY <1>1, <1>5, <1>6, <1>8 DEF RawInv, OutputThere, OutputLast

\* What All and Whole are made of.
LEMMA Streamed ==
    SInv => /\ bytes \in Seq(Symbol) /\ wire \in Seq(Symbol) /\ raw_stream \in Seq(Symbol)
            /\ All \in Seq(Symbol) /\ Whole \in Seq(Symbol)
            /\ Whole = raw_stream \o All
            /\ From(All) = From(bytes) \cup From(wire)
            /\ raw_stream = <<>> => Whole = All
<1> SUFFICES ASSUME SInv
             PROVE  /\ bytes \in Seq(Symbol) /\ wire \in Seq(Symbol)
                    /\ raw_stream \in Seq(Symbol)
                    /\ All \in Seq(Symbol) /\ Whole \in Seq(Symbol)
                    /\ Whole = raw_stream \o All
                    /\ From(All) = From(bytes) \cup From(wire)
                    /\ raw_stream = <<>> => Whole = All
  OBVIOUS
<1>1. bytes \in Seq(Symbol) /\ wire \in Seq(Symbol) /\ raw_stream \in Seq(Symbol)
  BY DEF SInv, Shape, Streams
<1>2. All \in Seq(Symbol) /\ From(All) = From(bytes) \cup From(wire)
  BY <1>1, Parted, FromJoined DEF All
<1>3. Whole = raw_stream \o All
  BY <1>1, ConcatAssociative DEF All, Whole
<1>4. Whole \in Seq(Symbol)
  BY <1>1, <1>2, <1>3, ConcatProperties
<1>5. raw_stream = <<>> => Whole = All
  BY <1>2, <1>3, ConcatEmptySeq
<1> QED
  BY <1>1, <1>2, <1>3, <1>4, <1>5

\* Commands, timeouts and the end of the connection.
LEMMA ElsewhereRaw == SInv /\ RawInv /\ (Elsewhere \/ EnableRterm) => RawInv'
<1> SUFFICES ASSUME SInv, RawInv, Elsewhere \/ EnableRterm PROVE RawInv'
  OBVIOUS
<1>1. /\ UNCHANGED <<wire, bytes, received, raw_stream, gw_raw, output, mixed>>
      /\ rterm' = rterm \/ (EnableRterm /\ rterm' = tag_counter + 1)
  BY DEF Elsewhere, EnableRterm, streamVars, termVars
<1>2. /\ tag_counter \in 0..MaxCommands /\ MaxCommands \in Nat
      /\ call \in [Commands -> Outcomes \cup {"unused", "waiting"}]
      /\ commands \in [Tags -> Commands \cup {NoFuture}]
      /\ \A n \in Commands : n > tag_counter => call[n] = "unused"
      /\ rterm \in Commands \cup {NoFuture} /\ rterm <= tag_counter
  BY BoundsAssumption DEF SInv, IInv, TypeOK, Shape, Scalars, RawInv, Terminal
<1>3. All' = All /\ Whole' = Whole
  BY <1>1 DEF All, Whole
<1>4. CASE Send
  <2> DEFINE n == tag_counter + 1
  <2>1. /\ n \in Commands /\ tag_counter' = n
        /\ commands' = [commands EXCEPT ![Tag(n)] = n]
        /\ \/ call' = [call EXCEPT ![n] = "waiting"] /\ requests' = requests \cup {n}
           \/ call' = [call EXCEPT ![n] = "refused"] /\ requests' = requests
        /\ tag_reused' = (tag_reused \/ commands[Tag(n)] # NoFuture)
        /\ raw_mode' = raw_mode
    BY <1>4 DEF Send
  <2>2. /\ Tag(n) \in Tags /\ n > tag_counter /\ n \in Nat \ {0}
        /\ call[n] = "unused" /\ n \notin From(All) /\ n # rterm
    <3>1. Tag(n) \in Tags /\ n > tag_counter /\ n \in Nat \ {0}
      BY <1>2, <2>1, TagType
    <3>2. call[n] = "unused" /\ n # rterm
      BY <1>2, <2>1, <3>1
    <3>3. \A m \in From(All) : m <= tag_counter
      <4>1. \A m \in Commands : m \in From(bytes) \/ m \in From(wire) => m <= tag_counter
        BY DEF SInv, Shape, Streams
      <4> QED
        BY <4>1, Streamed DEF From
    <3> QED
      BY <1>2, <3>1, <3>2, <3>3
  <2>3. \A m \in Commands : call'[m] = "answered" <=> call[m] = "answered"
    BY <1>2, <2>1, <2>2
  <2>4. ASSUME EnableRterm
        PROVE  /\ ~gw_raw /\ rterm' = n /\ ~(n \in Commands /\ call'[n] = "answered")
    BY <1>2, <2>1, <2>2, <2>3, <2>4 DEF EnableRterm, RawInv, Terminal, NoFuture, Commands
  <2>5. Terminal'
    <3>1. rterm' <= tag_counter'
      <4>1. rterm \in Nat /\ tag_counter \in Nat /\ tag_counter' = tag_counter + 1
        BY <1>2, <2>1 DEF Commands, NoFuture
      <4>2. rterm' = rterm \/ rterm' = tag_counter + 1
        BY <1>1
      <4> QED
        BY <1>2, <4>1, <4>2
    <3>2. gw_raw' => rterm' \in Commands
      BY <1>1, <2>4 DEF RawInv, Terminal
    <3>3. ASSUME NEW i \in 1..Len(All), All[i].of = rterm', All[i].part = "ok"
          PROVE  gw_raw
      <4>1. CASE rterm' = rterm
        BY <3>3, <4>1 DEF RawInv, Terminal
      <4>2. CASE rterm' = n
        BY <2>1, <2>2, <3>3, <4>2, Streamed, InFrom
      <4> QED
        BY <1>1, <4>1, <4>2
    <3> QED
      BY <1>1, <1>3, <2>1, <3>1, <3>2, <3>3 DEF RawInv, Terminal
  <2>6. Locks'
    <3> SUFFICES ASSUME ~tag_reused'
                 PROVE  /\ \A m \in Commands :
                             call'[m] = "answered" => commands'[Tag(m)] # m
                        /\ /\ rterm' # NoFuture
                           /\ call'[rterm'] = "answered"
                           /\ received'[rterm'][1].part = "ok"
                           => gw_raw'
                        /\ raw_mode' => gw_raw'
      BY DEF Locks
    <3>1. ~tag_reused
      BY <2>1
    <3>2. ASSUME NEW m \in Commands, call'[m] = "answered" PROVE commands'[Tag(m)] # m
      <4>1. call[m] = "answered" /\ m # n
        BY <2>2, <2>3, <3>2
      <4>2. commands[Tag(m)] # m /\ Tag(m) \in Tags
        BY <3>1, <4>1, TagType DEF RawInv, Locks
      <4> QED
        BY <1>2, <2>1, <4>1, <4>2
    <3>3. /\ rterm' # NoFuture /\ call'[rterm'] = "answered"
          /\ received'[rterm'][1].part = "ok"
          => gw_raw'
      <4>1. CASE rterm' = rterm
        BY <1>1, <1>2, <2>3, <3>1, <4>1 DEF RawInv, Locks
      <4>2. CASE EnableRterm
        BY <2>1, <2>4, <4>2
      <4> QED
        BY <1>1, <4>1, <4>2
    <3>4. raw_mode' => gw_raw'
      BY <1>1, <2>1, <3>1 DEF RawInv, Locks
    <3> QED
      BY <3>2, <3>3, <3>4
  <2>7. OutputThere'
    BY <1>1, <1>3, <2>1 DEF RawInv, OutputThere
  <2>8. OutputLast'
    <3> SUFFICES ASSUME ~tag_reused, ~mixed, gw_raw
                 PROVE  /\ AtTheEnd(All, rterm')
                        /\ rterm' \notin requests' \cup From(All) => Only(All)
                        /\ raw_mode => /\ rterm' \notin requests' \cup From(All)
                                       /\ Only(raw_stream)
      BY <1>1, <1>3, <2>1 DEF OutputLast
    <3>1. rterm' = rterm
      BY <1>1, <2>4
    <3>2. rterm \in requests' <=> rterm \in requests
      BY <2>1, <2>2
    <3> QED
      BY <3>1, <3>2 DEF RawInv, OutputLast
  <2> QED
    BY <2>5, <2>6, <2>7, <2>8 DEF RawInv
<1>5. CASE /\ \/ \E n \in Commands : TimeOut(n)
              \/ RefuseHandshake
              \/ CloseTransport
              \/ ConnectionLost
           /\ UNCHANGED streamVars
  <2>1. /\ UNCHANGED <<tag_counter, requests, raw_mode, commands, tag_reused>>
        /\ rterm' = rterm
    BY <1>5 DEF TimeOut, RefuseHandshake, CloseTransport, ConnectionLost, streamVars,
                termVars
  <2>2. \A m \in Commands : call'[m] = "answered" <=> call[m] = "answered"
    BY <1>2, <1>5 DEF TimeOut, RefuseHandshake, CloseTransport, ConnectionLost
  <2>3. Terminal'
    BY <1>1, <1>3, <2>1 DEF RawInv, Terminal
  <2>4. Locks'
    BY <1>1, <1>2, <2>1, <2>2 DEF RawInv, Locks
  <2>5. OutputThere' /\ OutputLast'
    BY <1>1, <1>3, <2>1 DEF RawInv, OutputThere, OutputLast
  <2> QED
    BY <2>3, <2>4, <2>5 DEF RawInv
<1> QED
  BY <1>4, <1>5 DEF Elsewhere, EnableRterm

\* An answer: from the one to the lock on there may be output, until the next.
LEMMA AnswerRaw ==
    ASSUME NEW n \in Commands, NEW kind \in ReplyKinds
    PROVE  SInv /\ RawInv /\ StreamAnswer(n, kind) => RawInv'
<1> SUFFICES ASSUME SInv, RawInv, StreamAnswer(n, kind) PROVE RawInv'
  OBVIOUS
<1> DEFINE reply == Reply(n, kind)
<1>1. /\ n \in requests
      /\ n = rterm => kind # "binary"
      /\ wire' = wire \o reply
      /\ gw_raw' = (gw_raw \/ (n = rterm /\ kind = "text"))
      /\ mixed' = (mixed \/ gw_raw)
      /\ UNCHANGED <<raw_mode, tag_counter, commands, call, tag_reused, bytes, received,
                     rterm, raw_stream, output>>
  BY DEF StreamAnswer, connVars, taskVars, flagVars
<1>2. /\ reply \in Seq(Symbol) /\ Len(reply) = Size(kind) /\ From(reply) = {n}
      /\ \A i \in 1..Len(reply) : reply[i] = [of |-> n, part |-> ReplyParts[kind][i]]
  BY ReplySymbols
<1>3. bytes \in Seq(Symbol) /\ wire \in Seq(Symbol) /\ raw_stream \in Seq(Symbol)
  BY Streamed
<1>4. All' = All \o reply
  <2> HIDE DEF reply
  <2>1. (bytes \o wire) \o reply = bytes \o (wire \o reply)
    BY <1>2, <1>3, ConcatAssociative
  <2> QED
    BY <1>1, <2>1 DEF All
<1>5. gw_raw \in BOOLEAN /\ mixed \in BOOLEAN /\ ReplyParts["error"][1] # "ok"
  BY ReplyShape DEF SInv, Shape, Scalars, ReplyKinds
<1>6. Terminal'
  <2>1. gw_raw' => rterm' \in Commands
    BY <1>1 DEF RawInv, Terminal
  <2>2. ~gw_raw' => output' = 0 /\ ~mixed'
    BY <1>1, <1>5 DEF RawInv, Terminal
  <2>3. ASSUME NEW i \in 1..Len(All'), All'[i].of = rterm, All'[i].part = "ok"
        PROVE  gw_raw'
    <3> HIDE DEF reply
    <3>1. /\ Len(All) \in Nat /\ Len(reply) \in Nat /\ Len(All') = Len(All) + Len(reply)
          /\ \A k \in 1..Len(All) : All'[k] = All[k]
          /\ \A k \in 1..Len(reply) : All'[Len(All) + k] = reply[k]
      <4> DEFINE T == All'
      <4>1. All \in Seq(Symbol) /\ T = All \o reply
        BY <1>4, Streamed
      <4> HIDE DEF T
      <4>2. /\ Len(All) \in Nat /\ Len(reply) \in Nat /\ Len(T) = Len(All) + Len(reply)
            /\ \A k \in 1..Len(All) : T[k] = All[k]
            /\ \A k \in 1..Len(reply) : T[Len(All) + k] = reply[k]
        BY <1>2, <4>1, Parted
      <4> QED
        BY <4>2 DEF T
    <3>2. CASE i <= Len(All)
      <4>1. i \in 1..Len(All) /\ All'[i] = All[i]
        BY <3>1, <3>2
      <4>2. gw_raw
        BY <2>3, <4>1 DEF RawInv, Terminal
      <4> QED
        BY <1>1, <4>2
    <3>3. CASE i > Len(All)
      <4>1. i - Len(All) \in 1..Len(reply) /\ Len(All) + (i - Len(All)) = i
        BY <3>1, <3>3
      <4>2. All'[i] = [of |-> n, part |-> ReplyParts[kind][i - Len(All)]]
        BY <1>2, <3>1, <4>1
      <4>3. n = rterm /\ ReplyParts[kind][i - Len(All)] = "ok"
        BY <2>3, <4>2
      <4>4. i - Len(All) = 1
        BY <1>2, <4>1, <4>3, ReplyShape
      <4>5. kind = "text"
        <5>1. ReplyParts[kind][1] = "ok"
          BY <4>3, <4>4
        <5>2. kind # "error"
          <6>1. ReplyParts[kind][1] = (IF kind = "error" THEN "err" ELSE "ok")
            BY ReplyShape
          <6> QED
            BY <5>1, <6>1
        <5>3. kind # "binary"
          BY <1>1, <4>3
        <5>4. kind \in {"text", "binary", "error"}
          BY DEF ReplyKinds
        <5> QED
          BY <5>2, <5>3, <5>4
      <4> QED
        BY <1>1, <4>3, <4>5
    <3> QED
      BY <3>1, <3>2, <3>3
  <2> QED
    BY <1>1, <2>1, <2>2, <2>3 DEF RawInv, Terminal
<1>7. Locks'
  BY <1>1 DEF RawInv, Locks
<1>8. ASSUME ~tag_reused', ~mixed'
      PROVE  /\ ~tag_reused /\ ~mixed /\ ~gw_raw /\ output = 0 /\ ~raw_mode
             /\ raw_stream = <<>> /\ InOrder(All, 0)
  <2>1. ~tag_reused /\ ~mixed /\ ~gw_raw
    BY <1>1, <1>8
  <2>2. output = 0 /\ ~raw_mode /\ raw_stream = <<>>
    BY <2>1 DEF RawInv, Terminal, Locks
  <2>3. InOrder(Whole, 0)
    BY <2>1, <2>2 DEF RawInv, OutputThere
  <2> QED
    BY <2>1, <2>2, <2>3, Streamed
<1>9. OutputThere'
  <2> SUFFICES ASSUME ~tag_reused', ~mixed' PROVE InOrder(Whole', output')
    BY DEF OutputThere
  <2>1. InOrder(All', 0)
    BY <1>4, <1>8, ReplyAdded, Streamed
  <2>2. Whole' = All'
    <3>1. raw_stream' = <<>> /\ bytes' \in Seq(Symbol)
      BY <1>1, <1>3, <1>8
    <3>2. <<>> \o bytes' = bytes'
      BY <3>1, ConcatEmptySeq
    <3> QED
      BY <3>1, <3>2 DEF All, Whole
  <2> QED
    BY <1>1, <1>8, <2>1, <2>2
<1>10. OutputLast'
  <2> SUFFICES ASSUME ~tag_reused', ~mixed', gw_raw'
               PROVE  /\ AtTheEnd(All', rterm)
                      /\ rterm \in From(All')
                      /\ ~raw_mode'
    BY <1>1 DEF OutputLast
  <2>1. n = rterm
    BY <1>1, <1>8
  <2>2. n \notin From(All)
    <3>1. \A m \in requests : m \notin From(bytes) /\ m \notin From(wire)
      BY DEF SInv, Shape, Streams
    <3> QED
      BY <1>1, <3>1, Streamed
  <2>3. AtTheEnd(All', n)
    BY <1>4, <1>8, <2>2, ReplyAdded, Streamed
  <2>4. n \in From(All')
    <3> HIDE DEF reply
    <3>1. From(All \o reply) = From(All) \cup From(reply)
      BY <1>2, Streamed, FromJoined
    <3>2. n \in From(All \o reply)
      BY <1>2, <3>1
    <3>3. From(All') = From(All \o reply)
      BY <1>4
    <3> QED
      BY <3>2, <3>3
  <2> QED
    BY <1>1, <1>8, <2>1, <2>3, <2>4
<1> QED
  BY <1>6, <1>7, <1>9, <1>10 DEF RawInv

\* Output joins the stream.
LEMMA OutputRaw == SInv /\ RawInv /\ SendOutput => RawInv'
<1> SUFFICES ASSUME SInv, RawInv, SendOutput PROVE RawInv'
  OBVIOUS
<1> DEFINE x == [of |-> MaxCommands + output + 1, part |-> "semi"]
<1>1. /\ gw_raw /\ output < MaxOutput /\ output' = output + 1
      /\ wire' = Append(wire, x)
      /\ UNCHANGED <<vars, bytes, received, rterm, raw_stream, gw_raw, mixed>>
  BY DEF SendOutput
<1>2. output \in Nat /\ MaxOutput \in Nat /\ MaxCommands \in Nat
  BY MaxOutputAssumption, BoundsAssumption DEF SInv, Shape, Scalars
<1>3. x \in Symbol /\ x.of = MaxCommands + output + 1 /\ x.of \notin Commands
  BY <1>1, <1>2 DEF Symbol, Parts, Commands
<1> HIDE DEF x
<1>4. /\ bytes \in Seq(Symbol) /\ wire \in Seq(Symbol) /\ raw_stream \in Seq(Symbol)
      /\ All \in Seq(Symbol) /\ Whole \in Seq(Symbol) /\ Whole = raw_stream \o All
  BY Streamed
<1>5. <<x>> \in Seq(Symbol) /\ \A q \in Seq(Symbol) : Append(q, x) = q \o <<x>>
  BY <1>3, AppendIsConcat
<1>6. All' = Append(All, x)
  <2>1. (bytes \o wire) \o <<x>> = bytes \o (wire \o <<x>>)
    BY <1>4, <1>5, ConcatAssociative
  <2>2. bytes' = bytes /\ wire' = wire \o <<x>> /\ Append(All, x) = All \o <<x>>
    BY <1>1, <1>4, <1>5
  <2> QED
    BY <2>1, <2>2 DEF All
<1>7. Whole' = Append(Whole, x)
  <2>1. ((raw_stream \o bytes) \o wire) \o <<x>> = (raw_stream \o bytes) \o (wire \o <<x>>)
    BY <1>4, <1>5, ConcatAssociative, ConcatProperties
  <2>2. /\ bytes' = bytes /\ raw_stream' = raw_stream /\ wire' = wire \o <<x>>
        /\ Append(Whole, x) = Whole \o <<x>>
    BY <1>1, <1>4, <1>5
  <2> QED
    BY <2>1, <2>2 DEF Whole
<1>8. From(All') = From(All)
  <2>1. From(<<x>>) = {}
    BY <1>3 DEF From
  <2>2. From(All \o <<x>>) = From(All) \cup From(<<x>>)
    BY <1>4, <1>5, FromJoined
  <2> QED
    BY <1>4, <1>5, <1>6, <2>1, <2>2
<1>9. UNCHANGED <<raw_mode, tag_counter, commands, call, tag_reused, requests>>
  BY <1>1 DEF vars
<1>10. Terminal'
  BY <1>1, <1>9 DEF RawInv, Terminal
<1>11. Locks'
  BY <1>1, <1>9 DEF RawInv, Locks
<1>12. OutputThere'
  BY <1>1, <1>2, <1>3, <1>4, <1>7, <1>9, OutputAdded DEF RawInv, OutputThere
<1>13. OutputLast'
  BY <1>1, <1>2, <1>3, <1>4, <1>6, <1>8, <1>9, OutputAdded DEF RawInv, OutputLast
<1> QED
  BY <1>10, <1>11, <1>12, <1>13 DEF RawInv

\* What takes nothing from the stream but symbols in front of the output.
LEMMA CutRaw ==
    ASSUME NEW q, SInv, RawInv, Rest(All, q, All'), ~raw_mode, raw_mode' = raw_mode,
           wire' \in Seq(Symbol), bytes' \in Seq(Symbol), requests' = requests,
           UNCHANGED <<tag_reused, termVars>>,
           \/ \A k \in 1..q : All[k].of \notin Commands /\ ~IsOutput(All[k])
           \/ q > 0 /\ ~IsOutput(All[q])
    PROVE  OutputThere' /\ OutputLast'
<1>1. /\ UNCHANGED <<rterm, raw_stream, gw_raw, output, mixed>>
      /\ gw_raw \in BOOLEAN /\ output \in Nat /\ MaxCommands \in Nat
      /\ raw_stream = <<>> /\ Whole = All /\ All \in Seq(Symbol)
      /\ Len(All) \in Nat /\ q \in 0..Len(All)
  BY BoundsAssumption, MaxOutputAssumption, Streamed, LenProperties
     DEF termVars, SInv, Shape, Scalars, RawInv, Terminal, Rest
<1>2. Whole' = All'
  <2>1. <<>> \o bytes' = bytes'
    BY ConcatEmptySeq
  <2> QED
    BY <1>1, <2>1 DEF All, Whole
<1> SUFFICES ASSUME ~tag_reused, ~mixed
             PROVE  /\ InOrder(All', output)
                    /\ gw_raw =>
                         /\ AtTheEnd(All', rterm)
                         /\ rterm \notin requests \cup From(All') => Only(All')
  BY <1>1, <1>2 DEF OutputThere, OutputLast
<1>3. InOrder(All, output)
  BY <1>1 DEF RawInv, OutputThere
<1> DEFINE T == All'
<1>4. Rest(All, q, T)
  OBVIOUS
<1> HIDE DEF T
<1>5. \A k \in 1..q : ~IsOutput(All[k])
  <2> SUFFICES ASSUME NEW k \in 1..q, IsOutput(All[k]), q > 0, ~IsOutput(All[q])
               PROVE  FALSE
    OBVIOUS
  <2>1. k \in 1..Len(All) /\ q \in 1..Len(All) /\ k < q
    BY <1>1
  <2>2. CASE gw_raw
    BY <2>1, <2>2 DEF RawInv, OutputLast, AtTheEnd
  <2>3. CASE ~gw_raw
    <3>1. output = 0
      BY <2>3 DEF RawInv, Terminal
    <3>2. All[k].of <= MaxCommands + 0 /\ All[k].of > MaxCommands
      BY <1>3, <2>1, <3>1 DEF InOrder, IsOutput
    <3>3. All[k] \in Symbol
      BY <1>1, <2>1, ElementOfSeq
    <3>4. All[k].of \in Nat
      BY <3>3, BoundsAssumption, MaxOutputAssumption DEF Symbol
    <3> QED
      BY <1>1, <3>2, <3>4
  <2> QED
    BY <2>2, <2>3
<1>6. InOrder(T, output)
  BY <1>1, <1>3, <1>4, <1>5, OutputInRest
<1>7. ASSUME gw_raw PROVE AtTheEnd(T, rterm)
  BY <1>4, <1>7, OutputInRest DEF RawInv, OutputLast
<1>8. ASSUME gw_raw, rterm \notin requests, rterm \notin From(T) PROVE Only(T)
  <2>1. CASE rterm \notin From(All)
    <3>1. Only(All)
      BY <1>8, <2>1 DEF RawInv, OutputLast
    <3> QED
      BY <1>4, <3>1, OutputInRest
  <2>2. CASE rterm \in From(All)
    <3>1. PICK k \in 1..q : All[k].of = rterm
      BY <1>4, <1>8, <2>2, FromRest
    <3>2. /\ T \in Seq(Symbol) /\ Len(T) \in Nat /\ Len(T) = Len(All) - q
          /\ \A j \in 1..Len(T) : T[j] = All[q + j]
      BY <1>4, LenProperties DEF Rest
    <3>3. AtTheEnd(All, rterm)
      BY <1>8 DEF RawInv, OutputLast
    <3>4. rterm \in Commands
      BY <1>1, <2>2, InFrom
    <3>5. ASSUME NEW j \in 1..Len(T) PROVE IsOutput(T[j])
      <4>1. q + j \in 1..Len(All) /\ k \in 1..Len(All) /\ k < q + j
        BY <1>1, <3>2
      <4>2. All[q + j].of = rterm \/ IsOutput(All[q + j])
        BY <3>1, <3>3, <4>1 DEF AtTheEnd
      <4>3. T[j].of # rterm
        BY <1>8, <3>2, <3>4, InFrom
      <4> QED
        BY <3>2, <4>2, <4>3
    <3> QED
      BY <3>5 DEF Only
  <2> QED
    BY <2>1, <2>2
<1> QED
  BY <1>6, <1>7, <1>8 DEF T

\* The first chunk: the handshake is taken from it.
LEMMA FirstChunkRaw ==
    ASSUME NEW k \in 1..Len(wire)
    PROVE  SInv /\ RawInv /\ FirstChunk(k) => RawInv'
<1> SUFFICES ASSUME SInv, RawInv, FirstChunk(k) PROVE RawInv'
  OBVIOUS
<1>1. /\ ~handshake_made
      /\ bytes' = SubSeq(wire, 2, k) /\ wire' = SubSeq(wire, k + 1, Len(wire))
      /\ UNCHANGED <<raw_mode, tag_counter, commands, call, requests, tag_reused,
                     received, termVars>>
  BY DEF FirstChunk, taskVars, flagVars
<1>2. /\ bytes = <<>> /\ wire \in Seq(Symbol) /\ wire[1] = Plus /\ ~raw_mode
      /\ Len(wire) \in Nat
  BY <1>1, LenProperties DEF SInv, Shape, Phases, Streams
<1>3. All = wire
  BY <1>2, ConcatEmptySeq DEF All
<1>4. wire' \in Seq(Symbol) /\ bytes' \in Seq(Symbol)
  <2>1. 2 \in Int /\ k \in Int /\ \A i \in 2..k : i \in 1..Len(wire)
    BY <1>2
  <2>2. \A i \in 2..k : wire[i] \in Symbol
    BY <1>2, <2>1, ElementOfSeq
  <2> QED
    BY <1>1, <1>2, <2>1, <2>2, SubSeqProperties, Taken
<1>5. Rest(All, 1, All')
  <2>1. /\ 2 \in 1..(Len(wire) + 1) /\ k \in (2 - 1)..Len(wire)
        /\ Len(wire) \in k..Len(wire) /\ 1 \in 0..Len(wire) /\ 1 + 1 = 2
    BY <1>2
  <2>2. All' = SubSeq(wire, 2, Len(wire))
    BY <1>1, <1>2, <2>1, ConcatAdjacentSubSeq DEF All
  <2> QED
    BY <1>2, <1>3, <2>1, <2>2, CutOff
<1>6. \A i \in 1..1 : All[i].of \notin Commands /\ ~IsOutput(All[i])
  BY <1>2, <1>3, BoundsAssumption DEF Plus, Gateway, Commands, IsOutput
<1>7. OutputThere' /\ OutputLast'
  BY <1>1, <1>2, <1>4, <1>5, <1>6, CutRaw
<1>8. UNCHANGED <<rterm, raw_stream, gw_raw, output, mixed>>
  BY <1>1 DEF termVars
<1>9. Terminal'
  <2>1. \A i \in 1..Len(All') : 1 + i \in 1..Len(All) /\ All'[i] = All[1 + i]
    BY <1>2, <1>3, <1>5 DEF Rest
  <2> QED
    BY <1>1, <1>8, <2>1 DEF RawInv, Terminal
<1>10. Locks'
  BY <1>1, <1>8 DEF RawInv, Locks
<1> QED
  BY <1>7, <1>9, <1>10 DEF RawInv

\* Chunks join the buffer.
LEMMA ChunkRaw ==
    ASSUME NEW k \in 1..Len(wire)
    PROVE  SInv /\ RawInv /\ Chunk(k) => RawInv'
<1> SUFFICES ASSUME SInv, RawInv, Chunk(k) PROVE RawInv'
  OBVIOUS
<1> DEFINE head == SubSeq(wire, 1, k)
           tail == SubSeq(wire, k + 1, Len(wire))
<1>1. /\ bytes' = bytes \o head /\ wire' = tail
      /\ UNCHANGED <<raw_mode, tag_counter, commands, call, requests, tag_reused,
                     received, termVars>>
  BY DEF Chunk, connVars, taskVars
<1>2. /\ bytes \in Seq(Symbol) /\ wire \in Seq(Symbol) /\ raw_stream \in Seq(Symbol)
      /\ head \in Seq(Symbol) /\ tail \in Seq(Symbol) /\ head \o tail = wire
      /\ Whole = raw_stream \o All
  BY Streamed, Taken
<1> HIDE DEF head, tail
<1>3. All' = All
  <2>0. bytes \in Seq(Symbol) /\ head \in Seq(Symbol) /\ tail \in Seq(Symbol)
    BY <1>2
  <2>1. (bytes \o head) \o tail = bytes \o (head \o tail)
    BY <2>0, ConcatAssociative
  <2> QED
    BY <1>1, <1>2, <2>1 DEF All
<1>4. UNCHANGED <<rterm, raw_stream, gw_raw, output, mixed>>
  BY <1>1 DEF termVars
<1>5. Whole' = Whole
  <2> DEFINE b == bytes \o head
  <2>1. b \in Seq(Symbol) /\ tail \in Seq(Symbol) /\ raw_stream \in Seq(Symbol)
    BY <1>2, ConcatProperties
  <2> HIDE DEF b
  <2>2. (raw_stream \o b) \o tail = raw_stream \o (b \o tail)
    BY <2>1, ConcatAssociative
  <2> USE DEF b
  <2>3. Whole' = (raw_stream \o (bytes \o head)) \o tail
    BY <1>1, <1>4 DEF Whole
  <2>4. All' = (bytes \o head) \o tail
    BY <1>1 DEF All
  <2> QED
    BY <1>2, <1>3, <2>2, <2>3, <2>4
<1>6. Terminal' /\ Locks'
  BY <1>1, <1>3, <1>4 DEF RawInv, Terminal, Locks
<1>7. OutputThere' /\ OutputLast'
  BY <1>1, <1>3, <1>4, <1>5 DEF RawInv, OutputThere, OutputLast
<1> QED
  BY <1>6, <1>7 DEF RawInv

\* In raw mode what is received is output, and joins the raw stream.
LEMMA RawChunkRaw ==
    ASSUME NEW k \in 1..Len(wire)
    PROVE  SInv /\ RawInv /\ RawChunk(k) => RawInv'
<1> SUFFICES ASSUME SInv, RawInv, RawChunk(k) PROVE RawInv'
  OBVIOUS
<1> DEFINE head == SubSeq(wire, 1, k)
           tail == SubSeq(wire, k + 1, Len(wire))
<1>1. /\ raw_mode /\ raw_stream' = raw_stream \o bytes \o head
      /\ bytes' = <<>> /\ wire' = tail
      /\ UNCHANGED <<raw_mode, tag_counter, commands, call, requests, tag_reused,
                     received, rterm, gw_raw, output, mixed>>
  BY DEF RawChunk, connVars, taskVars, flagVars
<1>2. /\ bytes = <<>> /\ wire \in Seq(Symbol) /\ raw_stream \in Seq(Symbol)
      /\ head \in Seq(Symbol) /\ tail \in Seq(Symbol) /\ Len(wire) \in Nat
  BY <1>1, Taken, LenProperties DEF SInv, Shape, Phases, Streams
<1>3. head \o tail = wire
  BY <1>2, Taken
<1>4. Rest(wire, k, tail)
  <2>1. k \in 0..Len(wire)
    BY <1>2
  <2> QED
    BY <1>2, <2>1, CutOff
<1> HIDE DEF head, tail
<1>5. raw_stream \o <<>> = raw_stream /\ All = wire /\ All' = tail
  BY <1>1, <1>2, ConcatEmptySeq DEF All
<1>6. raw_stream' = raw_stream \o head
  BY <1>1, <1>2, <1>5
<1>7. Whole' = Whole
  <2>1. raw_stream' \in Seq(Symbol)
    BY <1>2, <1>6, ConcatProperties
  <2>2. raw_stream' \o <<>> = raw_stream'
    BY <2>1, ConcatEmptySeq
  <2>3. (raw_stream \o head) \o tail = raw_stream \o (head \o tail)
    <3>1. raw_stream \in Seq(Symbol) /\ head \in Seq(Symbol) /\ tail \in Seq(Symbol)
      BY <1>2
    <3> QED
      BY <3>1, ConcatAssociative
  <2>4. Whole' = raw_stream' \o tail
    BY <1>1, <2>2 DEF Whole
  <2>5. Whole = raw_stream \o wire
    BY <1>2, <1>5 DEF Whole
  <2> QED
    BY <1>3, <1>6, <2>3, <2>4, <2>5
<1>8. Rest(All, k, All')
  BY <1>4, <1>5
<1>9. Terminal'
  <2>1. \A i \in 1..Len(All') : k + i \in 1..Len(All) /\ All'[i] = All[k + i]
    BY <1>2, <1>5, <1>8 DEF Rest
  <2> QED
    BY <1>1, <2>1 DEF RawInv, Terminal
<1>10. Locks'
  BY <1>1 DEF RawInv, Locks
<1>11. OutputThere'
  BY <1>1, <1>7 DEF RawInv, OutputThere
<1>12. OutputLast'
  <2> SUFFICES ASSUME ~tag_reused, ~mixed, gw_raw
               PROVE  /\ AtTheEnd(All', rterm) /\ Only(All')
                      /\ rterm \notin requests \cup From(All') /\ Only(raw_stream')
    BY <1>1 DEF OutputLast
  <2>1. /\ rterm \notin requests \cup From(All) /\ Only(raw_stream) /\ Only(All)
        /\ AtTheEnd(All, rterm)
    BY <1>1 DEF RawInv, OutputLast
  <2>2. AtTheEnd(tail, rterm) /\ Only(tail) /\ From(tail) \subseteq From(All)
    BY <1>4, <1>5, <2>1, OutputInRest, FromRest
  <2>3. Only(head)
    BY <1>2, <1>3, <1>5, <2>1, OnlyJoined
  <2>4. Only(raw_stream \o head)
    BY <1>2, <2>1, <2>3, OnlyJoined
  <2> QED
    BY <1>5, <1>6, <2>1, <2>2, <2>4
<1> QED
  BY <1>9, <1>10, <1>11, <1>12 DEF RawInv

\* The task that awaited the response to the lock runs: there is only output
\* left, and what is in the buffer is the first of the raw stream.
LEMMA LockRaw == SInv /\ RawInv /\ LockAnswered => RawInv'
<1> SUFFICES ASSUME SInv, RawInv, LockAnswered PROVE RawInv'
  OBVIOUS
<1>1. /\ ~raw_mode /\ rterm # NoFuture /\ call[rterm] = "answered"
      /\ received[rterm][1].part = "ok"
      /\ raw_mode' = TRUE /\ raw_stream' = raw_stream \o bytes /\ bytes' = <<>>
      /\ UNCHANGED <<tag_counter, commands, call, requests, tag_reused, wire,
                     received, rterm, gw_raw, output, mixed>>
  BY DEF LockAnswered, taskVars, flagVars
<1>2. /\ bytes \in Seq(Symbol) /\ wire \in Seq(Symbol) /\ raw_stream = <<>>
      /\ rterm \in Commands /\ All \in Seq(Symbol)
  BY <1>1, Streamed DEF SInv, Shape, Streams, Scalars, RawInv, Terminal
<1>3. raw_stream' = bytes
  BY <1>1, <1>2, ConcatEmptySeq
<1>4. All' = wire
  BY <1>1, <1>2, ConcatEmptySeq DEF All
<1>5. Whole' = Whole
  <2>1. bytes \o <<>> = bytes /\ <<>> \o bytes = bytes
    BY <1>2, ConcatEmptySeq
  <2>2. Whole' = bytes \o wire
    BY <1>1, <1>3, <2>1 DEF Whole
  <2>3. Whole = bytes \o wire
    BY <1>2, <2>1 DEF Whole
  <2> QED
    BY <2>2, <2>3
<1>6. /\ Len(bytes) \in Nat /\ Len(wire) \in Nat /\ Len(All) = Len(bytes) + Len(wire)
      /\ \A i \in 1..Len(wire) : All[Len(bytes) + i] = wire[i]
  BY <1>2, Parted DEF All
<1>7. Rest(All, Len(bytes), wire)
  BY <1>2, <1>6 DEF Rest
<1>8. Terminal'
  <2>1. \A i \in 1..Len(wire) : Len(bytes) + i \in 1..Len(All)
    BY <1>6
  <2> QED
    BY <1>1, <1>4, <1>6, <2>1 DEF RawInv, Terminal
<1>9. Locks'
  BY <1>1 DEF RawInv, Locks
<1>10. OutputThere'
  BY <1>1, <1>5 DEF RawInv, OutputThere
<1>11. OutputLast'
  <2> SUFFICES ASSUME ~tag_reused, ~mixed, gw_raw
               PROVE  /\ AtTheEnd(wire, rterm) /\ rterm \notin requests
                      /\ rterm \notin From(wire) /\ Only(wire) /\ Only(bytes)
    BY <1>1, <1>3, <1>4 DEF OutputLast
  <2>1. rterm \notin requests /\ rterm \notin in_flight /\ rterm \notin buffer
    <3>1. commands[Tag(rterm)] # rterm
      BY <1>1, <1>2 DEF RawInv, Locks
    <3>2. \A n \in InTransit : commands[Tag(n)] = n
      BY DEF SInv, IInv, Pairing
    <3> QED
      BY <3>1, <3>2 DEF InTransit
  <2>2. rterm \notin From(All) /\ rterm \notin From(wire)
    <3>1. in_flight = From(wire) /\ buffer = From(bytes) \ From(wire)
      BY DEF SInv, Shape, Streams
    <3> QED
      BY <2>1, <3>1, Streamed
  <2>3. Only(All) /\ AtTheEnd(All, rterm)
    BY <2>1, <2>2 DEF RawInv, OutputLast
  <2>4. Only(bytes) /\ Only(wire)
    BY <1>2, <2>3, OnlyJoined DEF All
  <2>5. AtTheEnd(wire, rterm)
    BY <1>7, <2>3, OutputInRest
  <2> QED
    BY <2>1, <2>2, <2>4, <2>5
<1> QED
  BY <1>8, <1>9, <1>10, <1>11 DEF RawInv

\* A turn of the loop: the last symbol it takes out is a response's, so no output
\* goes with it.
LEMMA ResolveRaw == SInv /\ RawInv /\ ResolveNext => RawInv'
<1> SUFFICES ASSUME SInv, RawInv, ResolveNext PROVE RawInv'
  OBVIOUS
<1> DEFINE r == Extract(bytes)
           n == bytes[r.from].of
           cut == SubSeq(bytes, r.from, r.upto)
<1>1. /\ parsing /\ bytes' = SubSeq(bytes, r.upto + 1, Len(bytes))
      /\ \/ /\ SetResult(n)
            /\ received' = [m \in Commands |->
                  IF response'[m] = response[m] THEN received[m] ELSE cut]
         \/ TagUnknown(n) /\ UNCHANGED <<commands, call, response, received>>
      /\ UNCHANGED <<raw_mode, tag_counter, requests, tag_reused, wire, termVars>>
  BY DEF ResolveNext
<1>2. /\ bytes \in Seq(Symbol) /\ wire \in Seq(Symbol) /\ WellFormed(bytes \o wire)
      /\ in_flight = From(wire) /\ buffer = From(bytes) \ From(wire)
      /\ buffer # {} /\ ~raw_mode /\ Len(bytes) \in Nat
  BY <1>1, LenProperties DEF SInv, Shape, Phases, Streams
<1>3. r.upto \in Nat /\ r.upto > 0
  <2>1. r.upto \in Nat /\ (r.upto = 0 => From(bytes) \ From(wire) = {})
    BY <1>2, Parsed
  <2> QED
    BY <1>2, <2>1
<1> HIDE DEF r
<1>4. /\ r.from \in 1..Len(bytes) /\ r.upto \in r.from..Len(bytes)
      /\ bytes[r.upto].of = n /\ n \in Commands /\ n \in From(bytes) \ From(wire)
  BY <1>2, <1>3, FoundEnds DEF r
<1>5. Rest(bytes, r.upto, bytes')
  <2>1. r.upto \in 0..Len(bytes)
    BY <1>2, <1>3, <1>4
  <2> QED
    BY <1>1, <1>2, <2>1, CutOff
<1>6. n \in buffer
  BY <1>2, <1>4
<1>7. Rest(All, r.upto, All')
  BY <1>1, <1>2, <1>5, RestJoined DEF All
<1>8. /\ \A k \in 1..Len(bytes) : All[k] = bytes[k]
      /\ Len(bytes) <= Len(All) /\ Len(All) \in Nat
  <2>1. Len(wire) \in Nat /\ Len(All) = Len(bytes) + Len(wire)
    BY <1>2, Parted DEF All
  <2> QED
    BY <1>2, <2>1, Parted DEF All
<1>9. ~IsOutput(All[r.upto])
  <2>1. r.upto \in 1..Len(bytes)
    BY <1>2, <1>3, <1>4
  <2>2. All[r.upto].of = n
    BY <1>4, <1>8, <2>1
  <2> QED
    BY <1>4, <2>2, BoundsAssumption DEF Commands, IsOutput
<1>10. bytes' \in Seq(Symbol) /\ wire' \in Seq(Symbol)
  BY <1>1, <1>2, <1>5 DEF Rest
<1>11. OutputThere' /\ OutputLast'
  BY <1>1, <1>2, <1>3, <1>7, <1>9, <1>10, CutRaw
<1>12. UNCHANGED <<rterm, raw_stream, gw_raw, output, mixed>>
  BY <1>1 DEF termVars
<1>13. Terminal'
  <2>1. /\ \A i \in 1..Len(All') : r.upto + i \in 1..Len(All)
        /\ \A i \in 1..Len(All') : All'[i] = All[r.upto + i]
    BY <1>3, <1>7, <1>8 DEF Rest
  <2> QED
    BY <1>1, <1>12, <2>1 DEF RawInv, Terminal
<1>14. Locks'
  <2> SUFFICES ASSUME ~tag_reused
               PROVE  /\ \A m \in Commands :
                           call'[m] = "answered" => commands'[Tag(m)] # m
                      /\ /\ rterm # NoFuture
                         /\ call'[rterm] = "answered"
                         /\ received'[rterm][1].part = "ok"
                         => gw_raw
    BY <1>1, <1>2, <1>12 DEF Locks
  <2>1. /\ \A m \in Commands : call[m] = "answered" => commands[Tag(m)] # m
        /\ /\ rterm # NoFuture
           /\ call[rterm] = "answered"
           /\ received[rterm][1].part = "ok"
           => gw_raw
    BY DEF RawInv, Locks
  <2>2. commands[Tag(n)] = n
    BY <1>6 DEF SInv, IInv, Pairing, InTransit
  <2>3. /\ call \in [Commands -> Outcomes \cup {"unused", "waiting"}]
        /\ commands \in [Tags -> Commands \cup {NoFuture}]
        /\ response \in [Commands -> Commands \cup {NoFuture}]
        /\ rterm \in Commands \cup {NoFuture} /\ Tag(n) \in Tags
        /\ \A m \in Commands : Tag(m) \in Tags
    BY <1>4, TagType DEF SInv, IInv, TypeOK, Shape, Scalars
  <2>4. CASE UNCHANGED <<commands, call, response, received>>
    BY <2>1, <2>4
  <2>5. CASE /\ SetResult(n)
             /\ received' = [m \in Commands |->
                   IF response'[m] = response[m] THEN received[m] ELSE cut]
    <3> HIDE DEF n, cut
    <3>1. /\ commands' = [commands EXCEPT ![Tag(n)] = NoFuture]
          /\ \/ /\ call[n] = "waiting"
                /\ call' = [call EXCEPT ![n] = "answered"]
                /\ response' = [response EXCEPT ![n] = n]
             \/ UNCHANGED <<call, response>>
      BY <2>2, <2>5 DEF SetResult
    <3>2. \A m \in Commands :
            commands'[Tag(m)] = commands[Tag(m)] \/ commands'[Tag(m)] = NoFuture
      BY <2>3, <3>1
    <3>3. \A m \in Commands : m # NoFuture
      BY DEF Commands, NoFuture
    <3>4. \A m \in Commands : m # n => call'[m] = call[m] /\ received'[m] = received[m]
      BY <2>3, <2>5, <3>1
    <3>5. commands'[Tag(n)] = NoFuture
      BY <2>3, <3>1
    <3>6. \A m \in Commands : call'[m] = "answered" => commands'[Tag(m)] # m
      BY <2>1, <3>2, <3>3, <3>4, <3>5
    <3>7. ASSUME rterm # NoFuture, call'[rterm] = "answered",
                 received'[rterm][1].part = "ok"
          PROVE  gw_raw
      <4>1. CASE rterm = n /\ response'[n] # response[n]
        <5>1. received'[n] = cut
          BY <1>4, <2>5, <4>1 DEF n
        <5>2. cut[1] = bytes[r.from]
          <6>1. /\ r.from \in Int /\ r.upto \in Int
                /\ 1 \in 1..(r.upto - r.from + 1) /\ r.from + 1 - 1 = r.from
                /\ \A i \in r.from..r.upto : i \in 1..Len(bytes)
            BY <1>2, <1>4
          <6>2. \A i \in r.from..r.upto : bytes[i] \in Symbol
            BY <1>2, <6>1, ElementOfSeq
          <6>3. \A i \in 1..(r.upto - r.from + 1) : cut[i] = bytes[r.from + i - 1]
            BY <6>1, <6>2, SubSeqProperties DEF cut
          <6> QED
            BY <6>1, <6>3
        <5>3. r.from \in 1..Len(All) /\ All[r.from] = bytes[r.from]
          BY <1>2, <1>4, <1>8
        <5>4. All[r.from].of = rterm /\ All[r.from].part = "ok"
          BY <3>7, <4>1, <5>1, <5>2, <5>3 DEF n
        <5> QED
          BY <5>3, <5>4 DEF RawInv, Terminal
      <4>2. CASE rterm # n
        BY <2>1, <2>3, <3>4, <3>7, <4>2
      <4>3. CASE rterm = n /\ response'[n] = response[n]
        <5>1. received'[n] = received[n]
          BY <1>4, <2>5, <4>3 DEF n
        <5>2. call[n] = "answered"
          <6>1. response[n] # n => ~(response' = [response EXCEPT ![n] = n])
            BY <1>4, <2>3, <4>3 DEF n
          <6>2. call[n] = "waiting" => response[n] = NoFuture
            BY <1>4 DEF SInv, Shape, Told, n
          <6>3. n # NoFuture
            BY <3>7, <4>3
          <6> QED
            BY <3>1, <3>7, <4>3, <6>1, <6>2, <6>3
        <5> QED
          BY <2>1, <3>7, <4>3, <5>1, <5>2
      <4> QED
        BY <4>1, <4>2, <4>3
    <3> QED
      BY <3>6, <3>7
  <2> QED
    BY <1>1, <2>4, <2>5
<1> QED
  BY <1>11, <1>13, <1>14 DEF RawInv

\* Where the output is, at all times.
LEMMA RawInvariant == StreamSpec => []RawInv
<1>1. ASSUME SInv, RawInv, [StreamNext]_asyncVars PROVE RawInv'
  <2>1. ASSUME NEW n \in Commands, NEW kind \in DOMAIN ReplyParts, StreamAnswer(n, kind)
        PROVE  RawInv'
    <3>1. kind \in ReplyKinds
      BY DEF ReplyParts, ReplyKinds
    <3> QED
      BY <1>1, <2>1, <3>1, AnswerRaw
  <2>2. ASSUME NEW k \in 1..Len(wire), FirstChunk(k) \/ Chunk(k) \/ RawChunk(k)
        PROVE  RawInv'
    BY <1>1, <2>2, FirstChunkRaw, ChunkRaw, RawChunkRaw
  <2>3. CASE UNCHANGED asyncVars
    <3>1. /\ UNCHANGED <<raw_mode, tag_counter, commands, call, requests, tag_reused>>
          /\ UNCHANGED <<wire, bytes, received, rterm, raw_stream, gw_raw, output, mixed>>
      BY <2>3 DEF asyncVars, vars, streamVars, termVars
    <3>2. All' = All /\ Whole' = Whole
      BY <3>1 DEF All, Whole
    <3> QED
      BY <1>1, <3>1, <3>2 DEF RawInv, Terminal, Locks, OutputThere, OutputLast
  <2> QED
    BY <1>1, <2>1, <2>2, <2>3, ElsewhereRaw, OutputRaw, ResolveRaw, LockRaw
       DEF StreamNext
<1> QED
  BY <1>1, RawInitHolds, StreamInvariant, PTL DEF StreamSpec

\* Raw output is neither lost nor swallowed while the task that awaited the lock
\* has yet to run (lines 102-111, 132-135).
THEOREM RawOutputKept == StreamSpec => []RawOutputIsKept
<1>1. ASSUME SInv, RawInv PROVE RawOutputIsKept
  <2> SUFFICES ASSUME ~mixed, ~tag_reused
               PROVE  /\ \A i \in DOMAIN raw_stream : IsOutput(raw_stream[i])
                      /\ \A m \in 1..output :
                           \E i \in DOMAIN Whole : Whole[i].of = MaxCommands + m
                      /\ \A i, j \in DOMAIN Whole :
                           i < j /\ IsOutput(Whole[i]) /\ IsOutput(Whole[j])
                           => Whole[i].of < Whole[j].of
    BY DEF RawOutputIsKept, Whole
  <2>1. /\ Whole \in Seq(Symbol) /\ raw_stream \in Seq(Symbol)
        /\ DOMAIN Whole = 1..Len(Whole) /\ DOMAIN raw_stream = 1..Len(raw_stream)
    BY <1>1, Streamed, LenProperties
  <2>2. InOrder(Whole, output)
    BY <1>1 DEF RawInv, OutputThere
  <2>3. Only(raw_stream)
    <3>1. CASE raw_mode
      BY <1>1, <3>1 DEF RawInv, Locks, OutputLast
    <3>2. CASE ~raw_mode
      <4>1. Len(raw_stream) = 0
        BY <1>1, <2>1, <3>2, EmptySeq DEF RawInv, Terminal
      <4> QED
        BY <4>1 DEF Only
    <3> QED
      BY <3>1, <3>2
  <2> QED
    BY <2>1, <2>2, <2>3 DEF InOrder, Only
<1> QED
  BY <1>1, StreamInvariant, RawInvariant, PTL

---------------------------------------------------------------------------
(* End to end: what AsyncProtocol guarantees of whole responses holds of   *)
(* the streams, and what is found in them ends the loop and the waits.     *)

\* Until a tag is reused, whoever is answered has the response the gateway sent to
\* its own command, symbol by symbol.
AnswersAreOwn ==
    ~tag_reused => \A n \in Commands :
        call[n] = "answered" =>
            \E kind \in DOMAIN ReplyParts : received[n] = Reply(n, kind)

\* So it is for all streams, cut into pieces and answered in any order.
THEOREM EachHasItsOwn == StreamSpec => []AnswersAreOwn
<1>1. OwnResponse /\ ResponsesAreIntact => AnswersAreOwn
  <2> SUFFICES ASSUME OwnResponse, ResponsesAreIntact, ~tag_reused,
                      NEW n \in Commands, call[n] = "answered"
               PROVE  \E kind \in DOMAIN ReplyParts : received[n] = Reply(n, kind)
    BY DEF AnswersAreOwn
  <2>1. response[n] = n
    BY DEF OwnResponse
  <2>2. \E kind \in DOMAIN ReplyParts : received[n] = Reply(response[n], kind)
    BY DEF ResponsesAreIntact
  <2> QED
    BY <2>1, <2>2
<1>2. StreamSpec => Spec
  BY StreamImplementsProtocol DEF ImplementsProtocol
<1>3. StreamSpec => []OwnResponse /\ []ResponsesAreIntact
  BY <1>2, ResponsesArePaired, ResponsesIntact, PTL
<1> QED
  BY <1>1, <1>3, PTL

\* With fewer commands than eight digits can number there is no exception to it.
THEOREM EachHasItsOwnAlways ==
    ASSUME MaxCommands < TagLimit
    PROVE  StreamSpec =>
             [](\A n \in Commands :
                   call[n] = "answered" =>
                       \E kind \in DOMAIN ReplyParts : received[n] = Reply(n, kind))
<1>1. Spec => []~tag_reused
  BY TagsSuffice
<1>2. StreamSpec => Spec
  BY StreamImplementsProtocol DEF ImplementsProtocol
<1>3. AnswersAreOwn /\ ~tag_reused =>
        \A n \in Commands :
            call[n] = "answered" =>
                \E kind \in DOMAIN ReplyParts : received[n] = Reply(n, kind)
  BY DEF AnswersAreOwn
<1> QED
  BY <1>1, <1>2, <1>3, EachHasItsOwn, PTL

\* ConnectionLostIsCalled, of the stream: the fairness of connection_lost in
\* StreamFairness, with the guard written out.
StreamLossIsCalled ==
    \/ []<>~(transport = "closing" /\ ~parsing)
    \/ []<><<transport = "closing" /\ ConnectionLost /\ UNCHANGED streamVars>>_asyncVars

\* Whatever is still in the stream, when the connection goes down each call ends.
THEOREM StreamLossIsReported == StreamSpec /\ StreamLossIsCalled => LossEndsCalls
<1>1. <<transport = "closing" /\ ConnectionLost /\ UNCHANGED streamVars>>_asyncVars =>
        <<transport = "closing" /\ ConnectionLost>>_vars
  <2> SUFFICES ASSUME transport = "closing", ConnectionLost PROVE ~UNCHANGED vars
    BY DEF ConnectionLost
  <2> QED
    BY DEF ConnectionLost, vars
<1>2. StreamLossIsCalled => ConnectionLostIsCalled
  BY <1>1, PTL DEF StreamLossIsCalled, ConnectionLostIsCalled
<1>3. StreamSpec => Spec
  BY StreamImplementsProtocol DEF ImplementsProtocol
<1> QED
  BY <1>2, <1>3, LossIsReported, PTL

\* The loop has a response to take out whenever it runs, so bytes[r.from] of
\* ResolveNext is there, and what a turn leaves of the buffer is shorter.
LoopFindsResponse ==
    parsing =>
        LET r == Extract(bytes)
        IN  /\ r.from \in 1..Len(bytes) /\ r.upto \in r.from..Len(bytes)
            /\ bytes[r.from].of = bytes[r.upto].of /\ bytes[r.from].of \in Commands
EachTurnIsShorter == [][parsing => Len(bytes') < Len(bytes)]_asyncVars

\* What the loop takes out, of a stream with a reply in it.
LEMMA LoopTakes ==
    ASSUME SInv, parsing
    PROVE  LoopFindsResponse /\ Extract(bytes).upto > 0 /\ Extract(bytes).upto \in Nat
<1>1. /\ bytes \in Seq(Symbol) /\ wire \in Seq(Symbol) /\ WellFormed(bytes \o wire)
      /\ buffer = From(bytes) \ From(wire) /\ buffer # {}
  BY DEF SInv, Shape, Phases, Streams
<1> DEFINE r == Extract(bytes)
<1>2. r.upto \in Nat /\ (r.upto = 0 => From(bytes) \ From(wire) = {})
  BY <1>1, Parsed
<1>3. r.upto \in Nat /\ r.upto > 0
  BY <1>1, <1>2
<1> HIDE DEF r
<1>4. /\ r.from \in 1..Len(bytes) /\ r.upto \in r.from..Len(bytes)
      /\ bytes[r.upto].of = bytes[r.from].of /\ bytes[r.from].of \in Commands
  BY <1>1, <1>3, FoundEnds DEF r
<1> QED
  BY <1>3, <1>4 DEF LoopFindsResponse, r

\* The loop never runs on a buffer without a response and, as its buffer is cut
\* down by each turn, ends (lines 204-220).
THEOREM LoopEnds == StreamSpec => []LoopFindsResponse /\ EachTurnIsShorter
<1>1. SInv => LoopFindsResponse
  BY LoopTakes DEF LoopFindsResponse
<1>2. SInv /\ [StreamNext]_asyncVars => [parsing => Len(bytes') < Len(bytes)]_asyncVars
  <2> SUFFICES ASSUME SInv, StreamNext, parsing PROVE Len(bytes') < Len(bytes)
    OBVIOUS
  <2>1. bytes \in Seq(Symbol) /\ Len(bytes) \in Nat /\ handshake_made /\ ~raw_mode
    BY LenProperties DEF SInv, Shape, Phases, Streams
  <2>3. CASE ResolveNext
    <3> DEFINE u == Extract(bytes).upto
    <3>1. bytes' = SubSeq(bytes, u + 1, Len(bytes))
      BY <2>3 DEF ResolveNext
    <3>2. u \in Nat /\ u > 0 /\ u <= Len(bytes)
      BY <2>1, LoopTakes DEF LoopFindsResponse
    <3> HIDE DEF u
    <3>3. u \in 0..Len(bytes)
      BY <2>1, <3>2
    <3>4. Rest(bytes, u, bytes')
      BY <2>1, <3>1, <3>3, CutOff
    <3> QED
      BY <2>1, <3>2, <3>4 DEF Rest
  <2> QED
    BY <2>1, <2>3 DEF StreamNext, Elsewhere, EnableRterm, Send, TimeOut, RefuseHandshake,
       CloseTransport, ConnectionLost, StreamAnswer, SendOutput, FirstChunk, Chunk,
       RawChunk, LockAnswered
<1> QED
  BY <1>1, <1>2, StreamInvariant, PTL DEF StreamSpec, EachTurnIsShorter
=============================================================================
