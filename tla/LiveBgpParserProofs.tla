------------------------ MODULE LiveBgpParserProofs ------------------------
(***************************************************************************)
(* Proofs about LiveBgpParser, for any stream, any malformed lines and any *)
(* size of the channel: what an error is due to, that no stream outlives   *)
(* the parser, and that the feed implements LossyFifo.                     *)
(***************************************************************************)
EXTENDS LiveBgpParser, FiniteSetTheorems, TLAPS

(* The pieces that have arrived and are not used up.                       *)
Pending == Elements(buffer) \cup Elements(bytes)

(* Pieces are kept in the order of the stream.                             *)
Increasing(s) == \A i, j \in 1 .. Len(s) : i < j => s[i] < s[j]
Ordered ==
  /\ Increasing(buffer) /\ Increasing(bytes)
  /\ \A x \in Elements(buffer), y \in Elements(bytes) : x < y
  /\ \A x \in Pending : x <= source

(* What is parsed is in order, and comes before what is pending.           *)
ParsedBefore ==
  /\ Increasing(advertisements)
  /\ \A n \in Elements(advertisements) :
       2 * n <= source /\ \A x \in Pending : 2 * n < x

(* A tail comes with its head.  A head without its tail is the last piece  *)
(* of the stream, or was left by one that ended.                           *)
Whole ==
  /\ \A x \in Pending : IsTail(x) => x - 1 \in Pending
  /\ \A x \in Pending : ~ IsTail(x) =>
       x + 1 \in Pending \/ x = source \/ LineOf(x) \in cuts
  /\ task = "running" /\ ~ IsTail(source) => source \in Pending
  /\ task = "none" => Pending = {}
  /\ \A n \in cuts : n <= LineOf(source)

(* Each error has used up a malformed line or one of those left.           *)
PendingLines == { LineOf(x) : x \in Pending }
Bad == Malformed \cap 1 .. LineOf(source)
ErrorsUsedUp ==
  errors <= Cardinality(Bad \ PendingLines) + Cardinality(cuts \ PendingLines)

Inv ==
  /\ TypeOK /\ StreamIsConsistent
  /\ Ordered /\ ParsedBefore /\ Whole /\ ErrorsUsedUp

-----------------------------------------------------------------------------
(* Pieces and lines.                                                       *)

LEMMA PieceLemma ==
  ASSUME NEW x \in Nat
  PROVE  /\ LineOf(x) \in Nat /\ LineOf(x) <= LineOf(x + 1) /\ LineOf(x + 1) <= LineOf(x) + 1
         /\ IsTail(x) => /\ x = 2 * LineOf(x) /\ LineOf(x + 1) = LineOf(x) + 1
                         /\ ~ IsTail(x + 1) /\ x + (x % 2) = x
         /\ ~ IsTail(x) => /\ x = 2 * LineOf(x) - 1 /\ LineOf(x + 1) = LineOf(x)
                           /\ IsTail(x + 1) /\ x + (x % 2) = x + 1
BY DEF LineOf, IsTail

LEMMA LineRange ==
  ASSUME NEW x \in 1 .. 2 * MaxLines
  PROVE  LineOf(x) \in 1 .. MaxLines
BY ParserAssumption DEF LineOf

LEMMA LineOrder ==
  ASSUME NEW x \in Nat, NEW y \in Nat, x <= y
  PROVE  LineOf(x) <= LineOf(y)
BY DEF LineOf

LEMMA ElementsOfAppend ==
  ASSUME NEW S, NEW s \in Seq(S), NEW x \in S
  PROVE  Elements(Append(s, x)) = Elements(s) \cup {x}
<1>1. \A i \in 1 .. Len(s) : Append(s, x)[i] = s[i]
  OBVIOUS
<1>2. Append(s, x)[Len(s) + 1] = x /\ DOMAIN Append(s, x) = 1 .. Len(s) + 1
  OBVIOUS
<1>3. Len(s) \in Nat /\ DOMAIN s = 1 .. Len(s)
  OBVIOUS
<1>4. 1 .. Len(s) + 1 = (1 .. Len(s)) \cup {Len(s) + 1}
  BY <1>3
<1> QED BY <1>1, <1>2, <1>3, <1>4 DEF Elements

LEMMA ElementsOfTail ==
  ASSUME NEW S, NEW s \in Seq(S), s # <<>>
  PROVE  Elements(s) = Elements(Tail(s)) \cup {Head(s)}
<1>1. Len(s) \in Nat \ {0} /\ DOMAIN s = 1 .. Len(s) /\ Head(s) = s[1]
  OBVIOUS
<1>2. DOMAIN Tail(s) = 1 .. Len(s) - 1 /\ \A i \in 1 .. Len(s) - 1 : Tail(s)[i] = s[i + 1]
  OBVIOUS
<1>3. \A i \in 2 .. Len(s) : i - 1 \in 1 .. Len(s) - 1 /\ Tail(s)[i - 1] = s[i]
  BY <1>1, <1>2
<1>4. \A i \in 1 .. Len(s) - 1 : i + 1 \in 1 .. Len(s)
  BY <1>1
<1>5. \A i \in 1 .. Len(s) : i = 1 \/ i \in 2 .. Len(s)
  BY <1>1
<1>6. 1 \in 1 .. Len(s)
  BY <1>1
<1>7. ASSUME NEW i \in DOMAIN s PROVE s[i] \in Elements(Tail(s)) \cup {Head(s)}
  BY <1>1, <1>2, <1>3, <1>5 DEF Elements
<1>8. ASSUME NEW i \in DOMAIN Tail(s) PROVE Tail(s)[i] \in Elements(s)
  BY <1>1, <1>2, <1>4 DEF Elements
<1>9. Head(s) \in Elements(s)
  BY <1>1, <1>6 DEF Elements
<1> QED BY <1>7, <1>8, <1>9 DEF Elements

LEMMA HeadAndTail ==
  ASSUME NEW S, NEW s \in Seq(S), s # <<>>
  PROVE  /\ Head(s) \in S /\ Tail(s) \in Seq(S)
         /\ Len(s) \in Nat \ {0} /\ Len(Tail(s)) = Len(s) - 1
         /\ Head(s) = s[1] /\ \A i \in 1 .. Len(s) - 1 : Tail(s)[i] = s[i + 1]
OBVIOUS

LEMMA ElementsIn ==
  ASSUME NEW S, NEW s \in Seq(S)
  PROVE  Elements(s) \subseteq S
BY DEF Elements

LEMMA SeqOfSubset ==
  ASSUME NEW T, NEW S \in SUBSET T, NEW s \in Seq(S)
  PROVE  s \in Seq(T)
OBVIOUS

LEMMA EmptyElements == Elements(<<>>) = {} /\ Increasing(<<>>)
BY DEF Elements, Increasing

LEMMA IncreasingAppend ==
  ASSUME NEW s \in Seq(Nat), NEW x \in Nat, Increasing(s),
         \A y \in Elements(s) : y < x
  PROVE  Increasing(Append(s, x))
<1> DEFINE t == Append(s, x)
<1>1. Len(s) \in Nat /\ Len(t) = Len(s) + 1 /\ t[Len(s) + 1] = x
      /\ \A i \in 1 .. Len(s) : t[i] = s[i]
  OBVIOUS
<1>2. \A i \in 1 .. Len(s) : s[i] < x
  BY DEF Elements
<1> HIDE DEF t
<1>3. ASSUME NEW i \in 1 .. Len(t), NEW j \in 1 .. Len(t), i < j
      PROVE  t[i] < t[j]
  <2>1. i \in 1 .. Len(s)
    BY <1>1, <1>3
  <2>2. CASE j = Len(s) + 1
    BY <1>1, <1>2, <2>1, <2>2
  <2>3. CASE j # Len(s) + 1
    <3>1. j \in 1 .. Len(s)
      BY <1>1, <1>3, <2>3
    <3> QED BY <1>1, <1>3, <2>1, <3>1 DEF Increasing
  <2> QED BY <2>2, <2>3
<1>4. Increasing(t)
  BY <1>3 DEF Increasing
<1> QED BY <1>4 DEF t

(* What is appended to a sequence is its end.                              *)
LEMMA Appended ==
  ASSUME NEW S, NEW s \in Seq(S), NEW t \in Seq(S)
  PROVE  SubSeq(s \o t, Len(s) + 1, Len(s \o t)) = t
<1> DEFINE u == s \o t
<1>1. u \in Seq(S) /\ Len(u) = Len(s) + Len(t) /\ Len(s) \in Nat /\ Len(t) \in Nat
      /\ \A i \in 1 .. Len(t) : u[Len(s) + i] = t[i]
  OBVIOUS
<1> HIDE DEF u
<1> DEFINE v == SubSeq(u, Len(s) + 1, Len(u))
<1>2. v \in Seq(S) /\ Len(v) = Len(t) /\ \A i \in 1 .. Len(t) : v[i] = u[Len(s) + i]
  BY <1>1
<1> HIDE DEF v
<1>3. v = t
  BY <1>1, <1>2
<1> QED BY <1>3 DEF u, v

(* The first two elements of a sequence, and the rest.                     *)
LEMMA RestOf ==
  ASSUME NEW S, NEW s \in Seq(S), 2 \in DOMAIN s
  PROVE  /\ SubSeq(s, 3, Len(s)) \in Seq(S)
         /\ Len(SubSeq(s, 3, Len(s))) = Len(s) - 2
         /\ DOMAIN SubSeq(s, 3, Len(s)) = 1 .. Len(s) - 2
         /\ \A i \in 1 .. Len(s) - 2 : SubSeq(s, 3, Len(s))[i] = s[i + 2]
         /\ Elements(s) = Elements(SubSeq(s, 3, Len(s))) \cup {s[1], s[2]}
<1> DEFINE t == SubSeq(s, 3, Len(s))
<1>1. Len(s) \in Nat /\ 2 <= Len(s) /\ DOMAIN s = 1 .. Len(s)
  OBVIOUS
<1>2. t \in Seq(S) /\ Len(t) = Len(s) - 2 /\ DOMAIN t = 1 .. Len(s) - 2
      /\ \A i \in 1 .. Len(s) - 2 : t[i] = s[i + 2]
  BY <1>1
<1> HIDE DEF t
<1>3. \A i \in 1 .. Len(s) : i = 1 \/ i = 2 \/ (i - 2 \in 1 .. Len(s) - 2 /\ t[i - 2] = s[i])
  BY <1>1, <1>2
<1>4. \A i \in 1 .. Len(s) - 2 : i + 2 \in 1 .. Len(s)
  BY <1>1
<1>5. 1 \in 1 .. Len(s) /\ 2 \in 1 .. Len(s)
  BY <1>1
<1>6. ASSUME NEW i \in DOMAIN s PROVE s[i] \in Elements(t) \cup {s[1], s[2]}
  BY <1>1, <1>2, <1>3 DEF Elements
<1>7. ASSUME NEW i \in DOMAIN t PROVE t[i] \in Elements(s)
  BY <1>1, <1>2, <1>4 DEF Elements
<1>8. s[1] \in Elements(s) /\ s[2] \in Elements(s)
  BY <1>1, <1>5 DEF Elements
<1>9. Elements(s) = Elements(t) \cup {s[1], s[2]}
  BY <1>6, <1>7, <1>8 DEF Elements
<1> QED BY <1>2, <1>9 DEF t

-----------------------------------------------------------------------------
(* The account of errors.                                                  *)

LEMMA AccountsAreFinite ==
  ASSUME NEW n \in Nat, NEW c \in SUBSET (1 .. MaxLines), NEW p
  PROVE  IsFiniteSet((Malformed \cap 1 .. LineOf(n)) \ p) /\ IsFiniteSet(c \ p)
<1>1. LineOf(n) \in Int /\ MaxLines \in Int
  BY ParserAssumption, PieceLemma
<1>2. IsFiniteSet(1 .. LineOf(n)) /\ IsFiniteSet(1 .. MaxLines)
  BY <1>1, FS_Interval
<1> QED BY <1>2, FS_Subset

(* A step without an error, after which no more lines are pending of those *)
(* in the account.                                                         *)
LEMMA StillUsedUp ==
  ASSUME TypeOK, TypeOK', ErrorsUsedUp, errors' = errors,
         Bad \ PendingLines \subseteq (Bad \ PendingLines)',
         cuts \ PendingLines \subseteq (cuts \ PendingLines)'
  PROVE  ErrorsUsedUp'
<1>0. /\ source \in Nat /\ source' \in Nat
      /\ cuts \in SUBSET (1 .. MaxLines) /\ cuts' \in SUBSET (1 .. MaxLines)
  BY ParserAssumption DEF TypeOK
<1>1. IsFiniteSet((Bad \ PendingLines)') /\ IsFiniteSet((cuts \ PendingLines)')
  <2>1. IsFiniteSet((Malformed \cap 1 .. LineOf(source')) \ PendingLines')
    BY <1>0, AccountsAreFinite
  <2>2. IsFiniteSet(cuts' \ PendingLines')
    BY <1>0, AccountsAreFinite
  <2> QED BY <2>1, <2>2 DEF Bad, LineOf
<1> DEFINE b == Bad \ PendingLines
           c == cuts \ PendingLines
<1>2. IsFiniteSet(b) /\ IsFiniteSet(c)
  BY <1>0, AccountsAreFinite DEF Bad
<1>3. Cardinality(b) <= Cardinality(b') /\ Cardinality(b) \in Nat /\ Cardinality(b') \in Nat
  BY <1>1, <1>2, FS_Subset, FS_CardinalityType
<1>4. Cardinality(c) <= Cardinality(c') /\ Cardinality(c) \in Nat /\ Cardinality(c') \in Nat
  BY <1>1, <1>2, FS_Subset, FS_CardinalityType
<1>5. errors \in Nat /\ errors <= Cardinality(b) + Cardinality(c)
  BY DEF TypeOK, ErrorsUsedUp
<1> HIDE DEF b, c
<1>6. errors' <= Cardinality(b') + Cardinality(c')
  BY <1>3, <1>4, <1>5
<1> QED BY <1>6 DEF ErrorsUsedUp, b, c

-----------------------------------------------------------------------------
(* Each action keeps the invariant.                                        *)

LEMMA Numbers ==
  ASSUME TypeOK
  PROVE  /\ source \in Nat /\ MaxLines \in Nat
         /\ \A x \in Pending : x \in Nat /\ x > 0
         /\ buffer \in Seq(Nat) /\ bytes \in Seq(Nat)
         /\ advertisements \in Seq(Nat) /\ sent \in Seq(Nat)
         /\ Elements(advertisements) \subseteq Nat
<1>1. Elements(buffer) \subseteq 1 .. 2 * MaxLines /\ Elements(bytes) \subseteq 1 .. 2 * MaxLines
  BY ElementsIn DEF TypeOK
<1>2. \A x \in 1 .. 2 * MaxLines : x \in Nat /\ x > 0
  BY ParserAssumption
<1>3. buffer \in Seq(Nat) /\ bytes \in Seq(Nat)
  BY <1>2, SeqOfSubset DEF TypeOK
<1>4. \A x \in 1 .. MaxLines : x \in Nat
  BY ParserAssumption
<1>5. advertisements \in Seq(Nat) /\ sent \in Seq(Nat)
  BY <1>4, SeqOfSubset DEF TypeOK
<1>6. Elements(advertisements) \subseteq Nat
  BY <1>5, ElementsIn
<1> QED BY <1>1, <1>2, <1>3, <1>5, <1>6, ParserAssumption DEF TypeOK, Pending

LEMMA StreamKeepsInv ==
  ASSUME Inv, Stream
  PROVE  Inv'
<1> DEFINE new == source + 1
<1>0. /\ task = "running" /\ source < 2 * MaxLines /\ Len(bytes) < Capacity
      /\ source' = new /\ bytes' = Append(bytes, new)
      /\ UNCHANGED <<task, receiver, buffer, advertisements, policy, pc, errors, cuts, sent>>
  BY DEF Stream
<1>1. source \in Nat /\ new \in Nat /\ MaxLines \in Nat /\ new \in 1 .. 2 * MaxLines
  BY <1>0, Numbers DEF Inv
<1>2. TypeOK'
  <2>1. bytes' \in Seq(1 .. 2 * MaxLines) /\ Len(bytes') <= Capacity
    BY <1>0, <1>1, ParserAssumption DEF Inv, TypeOK
  <2>2. source' \in 0 .. 2 * MaxLines
    BY <1>0, <1>1
  <2> QED BY <1>0, <2>1, <2>2 DEF Inv, TypeOK
<1>3. Elements(bytes') = Elements(bytes) \cup {new}
  <2>1. bytes \in Seq(Nat)
    BY Numbers DEF Inv
  <2> HIDE DEF new
  <2> QED BY <1>0, <1>1, <2>1, ElementsOfAppend
<1>4. Pending' = Pending \cup {new} /\ Elements(buffer') = Elements(buffer)
  BY <1>0, <1>3 DEF Pending, Elements
<1>5. StreamIsConsistent'
  BY <1>0 DEF Inv, StreamIsConsistent
<1>6. \A x \in Pending : x \in Nat /\ x <= source /\ x < new
  BY <1>1, Numbers DEF Inv, Ordered
<1>7. Ordered'
  <2>1. Increasing(bytes')
    <3>1. \A y \in Elements(bytes) : y < new
      BY <1>6 DEF Pending
    <3>2. Increasing(bytes) /\ bytes \in Seq(Nat)
      BY Numbers DEF Inv, Ordered
    <3> HIDE DEF new
    <3> QED BY <1>0, <1>1, <3>1, <3>2, IncreasingAppend
  <2>2. Increasing(buffer')
    BY <1>0 DEF Inv, Ordered, Increasing
  <2>3. \A x \in Elements(buffer'), y \in Elements(bytes') : x < y
    BY <1>3, <1>4, <1>6 DEF Inv, Ordered, Pending
  <2>4. \A x \in Pending' : x <= source'
    BY <1>0, <1>1, <1>4, <1>6
  <2> QED BY <2>1, <2>2, <2>3, <2>4 DEF Ordered
<1>8. ParsedBefore'
  <2>1. \A n \in Elements(advertisements) : n \in Nat
    BY Numbers DEF Inv
  <2>2. Increasing(advertisements') /\ Elements(advertisements') = Elements(advertisements)
    BY <1>0 DEF Inv, ParsedBefore, Increasing, Elements
  <2> QED BY <1>0, <1>1, <1>4, <2>1, <2>2 DEF Inv, ParsedBefore
<1>9. Whole'
  <2>1. IsTail(new) => new - 1 \in Pending
    BY <1>0, <1>1, PieceLemma DEF Inv, Whole
  <2>2. IsTail(new) => source + 1 \in Pending'
    BY <1>4
  <2>3. ~ IsTail(source) => IsTail(new)
    BY <1>1, PieceLemma
  <2>4. ASSUME NEW x \in Pending', IsTail(x) PROVE x - 1 \in Pending'
    BY <1>4, <2>1, <2>4 DEF Inv, Whole
  <2>5. ASSUME NEW x \in Pending', ~ IsTail(x)
        PROVE  x + 1 \in Pending' \/ x = source' \/ LineOf(x) \in cuts'
    <3>1. CASE x \in Pending
      <4>1. x + 1 \in Pending \/ x = source \/ LineOf(x) \in cuts
        BY <2>5, <3>1 DEF Inv, Whole
      <4> QED BY <1>0, <1>4, <4>1
    <3> QED BY <1>0, <1>4, <3>1
  <2>6. /\ LineOf(source) \in Nat /\ LineOf(source') \in Nat
        /\ LineOf(source) <= LineOf(source')
    BY <1>0, <1>1, PieceLemma
  <2>7. \A n \in cuts' : n <= LineOf(source')
    <3>1. \A n \in cuts : n \in Nat /\ n <= LineOf(source)
      BY <1>1 DEF Inv, TypeOK, Whole
    <3> HIDE DEF new
    <3> QED BY <1>0, <2>6, <3>1
  <2> QED BY <1>0, <1>4, <2>4, <2>5, <2>7 DEF Whole
<1>10. ErrorsUsedUp'
  <2> DEFINE L == LineOf(new)
  <2>1. PendingLines' = PendingLines \cup {L}
    BY <1>4 DEF PendingLines, LineOf
  <2>2. LineOf(source) \in Nat /\ L \in Nat /\ LineOf(source) <= L /\ LineOf(source') = L
    BY <1>0, <1>1, PieceLemma DEF LineOf
  <2>3. CASE IsTail(source)
    <3>1. L = LineOf(source) + 1
      BY <1>1, <2>3, PieceLemma
    <3>2. L \notin Bad /\ L \notin cuts
      BY <2>2, <3>1 DEF Bad, Inv, Whole
    <3> HIDE DEF L, new
    <3>3. Bad \subseteq Bad'
      BY <2>2 DEF Bad
    <3> QED BY <1>0, <1>2, <2>1, <3>2, <3>3, StillUsedUp DEF Inv
  <2>4. CASE ~ IsTail(source)
    <3>1. L \in PendingLines
      BY <1>0, <1>1, <2>4, PieceLemma DEF Inv, Whole, PendingLines
    <3> HIDE DEF L, new
    <3>3. Bad \subseteq Bad'
      BY <2>2 DEF Bad
    <3> QED BY <1>0, <1>2, <2>1, <3>1, <3>3, StillUsedUp DEF Inv
  <2> QED BY <2>3, <2>4
<1> QED BY <1>2, <1>5, <1>7, <1>8, <1>9, <1>10 DEF Inv

(* Without a new piece the lines in the account stay there.                *)
LEMMA FewerPending ==
  ASSUME TypeOK, TypeOK', ErrorsUsedUp, errors' = errors,
         Pending' \subseteq Pending, cuts \subseteq cuts', LineOf(source') = LineOf(source)
  PROVE  ErrorsUsedUp'
<1>1. PendingLines' \subseteq PendingLines
  BY DEF PendingLines, LineOf
<1>2. Bad' = Bad
  BY DEF Bad, LineOf
<1> QED BY <1>1, <1>2, StillUsedUp

LEMMA BeginKeepsInv ==
  ASSUME Inv, Begin
  PROVE  Inv'
<1>0. /\ pc = "idle" /\ pc' = "receiving"
      /\ UNCHANGED <<buffer, advertisements, policy, errors, sent>>
  BY DEF Begin
<1>1. CASE task = "running"
  <2>1. UNCHANGED <<task, source, bytes, receiver, buffer, advertisements, errors, cuts>>
    BY <1>0, <1>1 DEF Begin, streamVars
  <2>2. TypeOK' /\ StreamIsConsistent'
    BY <1>0, <1>1, <2>1 DEF Inv, TypeOK, StreamIsConsistent
  <2>3. Ordered' /\ ParsedBefore' /\ Whole' /\ ErrorsUsedUp'
    <3>1. Pending' = Pending
      BY <2>1 DEF Pending, Elements
    <3>2. Ordered' /\ ParsedBefore'
      BY <2>1, <3>1 DEF Inv, Ordered, ParsedBefore, Increasing, Elements
    <3>3. Whole'
      BY <2>1, <3>1 DEF Inv, Whole, IsTail, LineOf
    <3>4. ErrorsUsedUp'
      BY <2>1, <3>1 DEF Inv, ErrorsUsedUp, LineOf, Bad, PendingLines
    <3> QED BY <3>2, <3>3, <3>4
  <2> QED BY <2>2, <2>3 DEF Inv
<1>2. CASE task # "running"
  <2>0. /\ task' = "running" /\ receiver' = TRUE /\ bytes' = <<>>
        /\ source' = source + (source % 2)
        /\ cuts' = IF task = "finished" THEN cuts \cup { LineOf(x) : x \in Elements(buffer) }
                                        ELSE cuts
    BY <1>2 DEF Begin, StartStream
  <2>1. /\ source \in Nat /\ source' \in 0 .. 2 * MaxLines /\ source <= source'
        /\ IsTail(source') /\ LineOf(source') = LineOf(source) /\ LineOf(source) \in Nat
    <3>1. source \in 0 .. 2 * MaxLines /\ source \in Nat /\ MaxLines \in Nat
      BY Numbers DEF Inv, TypeOK
    <3> QED BY <2>0, <3>1, PieceLemma DEF LineOf
  <2>2. Pending' = Elements(buffer) /\ Elements(buffer') = Elements(buffer)
        /\ Elements(bytes') = {}
    BY <1>0, <2>0, EmptyElements DEF Pending, Elements
  <2>3. Pending' \subseteq Pending
    BY <2>2 DEF Pending
  <2>4. \A x \in Pending : x \in Nat /\ x > 0 /\ x <= source /\ LineOf(x) <= LineOf(source)
    BY <2>1, Numbers, LineOrder DEF Inv, Ordered
  <2>5. cuts \subseteq cuts' /\ \A n \in cuts' : n \in cuts \/ \E x \in Pending : n = LineOf(x)
    BY <2>0 DEF Pending
  <2>6. TypeOK'
    <3>2. \A x \in Pending : LineOf(x) \in 1 .. MaxLines
      BY LineRange, ElementsIn DEF Inv, TypeOK, Pending
    <3>3. cuts' \in SUBSET (1 .. MaxLines)
      BY <2>5, <3>2 DEF Inv, TypeOK
    <3>4. bytes' \in Seq(1 .. 2 * MaxLines) /\ Len(bytes') <= Capacity
      BY <2>0, ParserAssumption
    <3> QED BY <1>0, <2>0, <2>1, <3>3, <3>4 DEF Inv, TypeOK
  <2>7. StreamIsConsistent'
    BY <1>0, <2>0 DEF StreamIsConsistent
  <2>8. Ordered'
    <3>1. Increasing(buffer') /\ Increasing(bytes')
      BY <1>0, <2>0, EmptyElements DEF Inv, Ordered, Increasing
    <3> HIDE DEF Pending
    <3>2. \A x \in Pending' : x <= source'
      <4>1. source' \in Nat
        BY <2>1, Numbers DEF Inv
      <4> QED BY <2>1, <2>3, <2>4, <4>1
    <3> QED BY <2>2, <3>1, <3>2 DEF Ordered
  <2>9. ParsedBefore'
    <3>1. source' \in Nat /\ \A n \in Elements(advertisements) : n \in Nat
      BY <2>1, Numbers DEF Inv
    <3>2. Increasing(advertisements') /\ Elements(advertisements') = Elements(advertisements)
      BY <1>0 DEF Inv, ParsedBefore, Increasing, Elements
    <3> QED BY <2>1, <2>3, <3>1, <3>2 DEF Inv, ParsedBefore
  <2>10. Whole'
    <3>1. ASSUME NEW x \in Pending', IsTail(x) PROVE x - 1 \in Pending'
      <4>1. x \in Elements(buffer) /\ x - 1 \in Pending /\ x \in Nat
        BY <2>2, <2>3, <2>4, <3>1 DEF Inv, Whole
      <4>2. x - 1 \notin Elements(bytes)
        BY <2>4, <4>1 DEF Inv, Ordered, Pending
      <4> QED BY <2>2, <4>1, <4>2 DEF Pending
    <3>2. task = "finished" \/ Pending' = {}
      BY <1>2, <2>3 DEF Inv, TypeOK, Whole
    <3>3. \A x \in Pending' : LineOf(x) \in cuts'
      BY <2>0, <2>2, <3>2
    <3>4. \A n \in cuts' : n <= LineOf(source')
      BY <2>1, <2>4, <2>5 DEF Inv, Whole
    <3> QED BY <2>0, <2>1, <3>1, <3>3, <3>4 DEF Whole
  <2>11. ErrorsUsedUp'
    BY <1>0, <2>1, <2>3, <2>5, <2>6, FewerPending DEF Inv
  <2> QED BY <2>6, <2>7, <2>8, <2>9, <2>10, <2>11 DEF Inv
<1> QED BY <1>1, <1>2

LEMMA ReceiveKeepsInv ==
  ASSUME Inv, ReceiveNext
  PROVE  Inv'
<1>0. /\ pc = "receiving" /\ bytes # <<>>
      /\ buffer' = Append(buffer, Head(bytes)) /\ bytes' = Tail(bytes)
      /\ UNCHANGED <<task, source, receiver, advertisements, policy, pc, errors, cuts, sent>>
  BY DEF ReceiveNext
<1> DEFINE h == Head(bytes)
           S == 1 .. 2 * MaxLines
<1>1. /\ buffer \in Seq(S) /\ bytes \in Seq(S) /\ h \in S /\ Tail(bytes) \in Seq(S)
      /\ Len(bytes) \in Nat \ {0} /\ Len(Tail(bytes)) = Len(bytes) - 1
      /\ h = bytes[1] /\ \A i \in 1 .. Len(bytes) - 1 : Tail(bytes)[i] = bytes[i + 1]
  BY <1>0, HeadAndTail DEF Inv, TypeOK
<1>2. /\ Elements(buffer') = Elements(buffer) \cup {h}
      /\ Elements(bytes) = Elements(bytes') \cup {h}
  BY <1>0, <1>1, ElementsOfAppend, ElementsOfTail
<1>3. Pending' = Pending
  BY <1>2 DEF Pending
<1>4. TypeOK'
  BY <1>0, <1>1, ParserAssumption DEF Inv, TypeOK
<1>5. StreamIsConsistent'
  BY <1>0 DEF Inv, StreamIsConsistent
<1>6. Ordered'
  <2>1. \A x \in Elements(buffer) : x < h
    BY <1>2 DEF Inv, Ordered
  <2>2. Increasing(buffer')
    <3>1. Increasing(buffer) /\ buffer \in Seq(Nat) /\ h \in Nat
      BY <1>1, ParserAssumption, Numbers DEF Inv, Ordered
    <3> HIDE DEF h, S
    <3> QED BY <1>0, <2>1, <3>1, IncreasingAppend DEF h
  <2>3. Increasing(bytes')
    BY <1>0, <1>1 DEF Inv, Ordered, Increasing
  <2>4. \A y \in Elements(bytes') : h < y
    <3>1. \A i \in 1 .. Len(bytes) - 1 : i + 1 \in 1 .. Len(bytes) /\ 1 < i + 1 /\ 1 \in 1 .. Len(bytes)
      BY <1>1
    <3>2. \A i \in 1 .. Len(bytes) - 1 : h < Tail(bytes)[i]
      BY <1>1, <3>1 DEF Inv, Ordered, Increasing
    <3> QED BY <1>0, <1>1, <3>2 DEF Elements
  <2>5. \A x \in Elements(buffer'), y \in Elements(bytes') : x < y
    BY <1>2, <2>4 DEF Inv, Ordered
  <2> QED BY <1>0, <1>3, <2>2, <2>3, <2>5 DEF Inv, Ordered
<1>7. ParsedBefore'
  BY <1>0, <1>3 DEF Inv, ParsedBefore, Increasing, Elements
<1>8. Whole'
  BY <1>0, <1>3 DEF Inv, Whole, LineOf, IsTail
<1>9. ErrorsUsedUp'
  BY <1>0, <1>3 DEF Inv, ErrorsUsedUp, Bad, PendingLines, LineOf
<1> QED BY <1>4, <1>5, <1>6, <1>7, <1>8, <1>9 DEF Inv

LEMMA ParseKeepsInv ==
  ASSUME Inv, NEW i \in DOMAIN buffer, ParseLine(i)
  PROVE  Inv'
<1> DEFINE n == LineOf(buffer[2])
           S == 1 .. 2 * MaxLines
<1>0. /\ pc = "parsing" /\ i = 2 /\ IsTail(buffer[2]) /\ LineOf(buffer[1]) = n
      /\ ~ IsTail(buffer[1])
      /\ buffer' = SubSeq(buffer, 3, Len(buffer))
      /\ advertisements' = IF n \in Other THEN advertisements
                           ELSE Append(advertisements, n)
      /\ UNCHANGED <<task, source, bytes, receiver, policy, pc, errors, cuts, sent>>
  BY DEF ParseLine, Parses, Newline, streamVars
<1>1. /\ buffer \in Seq(S) /\ Len(buffer) \in Nat /\ Len(buffer) >= 2
      /\ buffer[1] \in S /\ buffer[2] \in S /\ MaxLines \in Nat
  <2>1. buffer \in Seq(S) /\ MaxLines \in Nat /\ 2 \in DOMAIN buffer
    BY <1>0, ParserAssumption DEF Inv, TypeOK
  <2> HIDE DEF S
  <2>2. Len(buffer) \in Nat /\ DOMAIN buffer = 1 .. Len(buffer)
    BY <2>1
  <2> QED BY <2>1, <2>2
<1>2. /\ buffer' \in Seq(S) /\ Elements(buffer) = Elements(buffer') \cup {buffer[1], buffer[2]}
      /\ Len(buffer') = Len(buffer) - 2 /\ DOMAIN buffer' = 1 .. Len(buffer) - 2
      /\ \A k \in 1 .. Len(buffer) - 2 : buffer'[k] = buffer[k + 2]
  <2>1. 2 \in DOMAIN buffer
    BY <1>0
  <2> QED BY <1>0, <1>1, <2>1, RestOf
<1>3. n \in Nat /\ buffer[2] = 2 * n /\ buffer[1] = 2 * n - 1 /\ n \in 1 .. MaxLines
  <2>1. buffer[1] \in Nat /\ buffer[2] \in Nat
    BY <1>1
  <2>2. n \in Nat /\ buffer[2] = 2 * n /\ buffer[1] = 2 * n - 1
    BY <1>0, <2>1, PieceLemma
  <2>3. n \in 1 .. MaxLines
    BY <1>1, LineRange
  <2> QED BY <2>2, <2>3
<1>4. Pending = Pending' \cup {buffer[1], buffer[2]}
  <2>1. Elements(bytes') = Elements(bytes)
    BY <1>0 DEF Elements
  <2> QED BY <1>2, <2>1 DEF Pending
<1> HIDE DEF n
<1>5. \A x \in Pending' : x \in Nat /\ 2 * n < x /\ x \in Pending
  <2>1. \A k \in 1 .. Len(buffer) - 2 : buffer[2] < buffer[k + 2]
    <3>1. \A k \in 1 .. Len(buffer) - 2 : k + 2 \in 1 .. Len(buffer) /\ 2 < k + 2 /\ 2 \in 1 .. Len(buffer)
      BY <1>1
    <3> QED BY <3>1 DEF Inv, Ordered, Increasing
  <2>2. \A x \in Elements(buffer') : buffer[2] < x
    BY <1>1, <1>2, <2>1 DEF Elements
  <2>3. \A x \in Elements(bytes') : buffer[2] < x
    BY <1>0, <1>2 DEF Inv, Ordered, Elements
  <2> QED BY <1>3, <1>4, <2>2, <2>3, Numbers DEF Pending, Inv
<1>6. TypeOK'
  <2>1. advertisements' \in Seq(1 .. MaxLines)
    <3>1. advertisements \in Seq(1 .. MaxLines)
      BY DEF Inv, TypeOK
    <3>2. Append(advertisements, n) \in Seq(1 .. MaxLines)
      BY <1>3, <3>1
    <3> QED BY <1>0, <3>1, <3>2
  <2> QED BY <1>0, <1>1, <1>2, <2>1 DEF Inv, TypeOK
<1>7. StreamIsConsistent'
  BY <1>0 DEF Inv, StreamIsConsistent
<1>8. Ordered'
  <2>1. Increasing(buffer')
    <3>1. ASSUME NEW j \in 1 .. Len(buffer'), NEW k \in 1 .. Len(buffer'), j < k
          PROVE  buffer'[j] < buffer'[k]
      <4>1. j + 2 \in 1 .. Len(buffer) /\ k + 2 \in 1 .. Len(buffer) /\ j + 2 < k + 2
        BY <1>1, <1>2, <3>1
      <4>2. buffer'[j] = buffer[j + 2] /\ buffer'[k] = buffer[k + 2]
        BY <1>1, <1>2, <3>1
      <4> QED BY <4>1, <4>2 DEF Inv, Ordered, Increasing
    <3> QED BY <3>1 DEF Increasing
  <2>2. Increasing(bytes') /\ Elements(bytes') = Elements(bytes)
    BY <1>0 DEF Inv, Ordered, Increasing, Elements
  <2> QED BY <1>0, <1>2, <1>5, <2>1, <2>2 DEF Inv, Ordered
<1>9. ParsedBefore'
  <2>1. buffer[2] \in Pending
    BY <1>4
  <2>2. 2 * n <= source
    BY <1>3, <2>1 DEF Inv, Ordered
  <2>3. Increasing(advertisements) /\ advertisements \in Seq(Nat)
    BY Numbers DEF Inv, ParsedBefore
  <2>4. \A y \in Elements(advertisements) : y \in Nat /\ y < n
    <3>1. \A y \in Elements(advertisements) : y \in Nat /\ 2 * y < 2 * n
      BY <1>3, <2>1, Numbers DEF Inv, ParsedBefore
    <3> QED BY <1>3, <3>1
  <2>5. /\ Increasing(advertisements')
        /\ Elements(advertisements') \subseteq Elements(advertisements) \cup {n}
    <3>1. CASE n \in Other
      BY <1>0, <2>3, <3>1
    <3>2. CASE n \notin Other
      BY <1>0, <1>3, <2>3, <2>4, <3>2, IncreasingAppend, ElementsOfAppend
    <3> QED BY <3>1, <3>2
  <2>6. \A y \in Elements(advertisements) :
          2 * y <= source' /\ \A x \in Pending' : 2 * y < x
    BY <1>0, <1>5 DEF Inv, ParsedBefore
  <2> QED BY <1>0, <1>5, <2>2, <2>5, <2>6 DEF ParsedBefore
<1>10. Whole'
  <2>1. ASSUME NEW x \in Pending', IsTail(x) PROVE x - 1 \in Pending'
    <3>1. x \in Nat /\ x = 2 * LineOf(x) /\ LineOf(x) \in Nat /\ 2 * n < x
      BY <1>5, <2>1, PieceLemma
    <3>2. x - 1 # 2 * n /\ x - 1 # 2 * n - 1
      BY <1>3, <3>1
    <3> QED BY <1>3, <1>4, <1>5, <2>1, <3>2 DEF Inv, Whole
  <2>2. ASSUME NEW x \in Pending', ~ IsTail(x)
        PROVE  x + 1 \in Pending' \/ x = source' \/ LineOf(x) \in cuts'
    <3>1. x \in Nat /\ 2 * n < x /\ x \in Pending
      BY <1>5
    <3>2. x + 1 # 2 * n /\ x + 1 # 2 * n - 1
      BY <1>3, <3>1
    <3> QED BY <1>0, <1>3, <1>4, <2>2, <3>1, <3>2 DEF Inv, Whole
  <2>3. task' = "running" /\ ~ IsTail(source') => source' \in Pending'
    <3>1. source \in Nat /\ buffer[2] <= source
      BY <1>4, Numbers DEF Inv, Ordered
    <3>2. ~ IsTail(source) => source # 2 * n /\ source # 2 * n - 1
      BY <1>0, <1>3, <3>1
    <3> QED BY <1>0, <1>3, <1>4, <3>2 DEF Inv, Whole, IsTail
  <2>4. task' = "none" => Pending' = {}
    BY <1>0, <1>4 DEF Inv, Whole
  <2> QED BY <1>0, <2>1, <2>2, <2>3, <2>4 DEF Inv, Whole, LineOf
<1>11. ErrorsUsedUp'
  <2>1. LineOf(source') = LineOf(source) /\ cuts \subseteq cuts' /\ Pending' \subseteq Pending
    BY <1>0, <1>5 DEF LineOf
  <2> QED BY <1>0, <1>6, <2>1, FewerPending DEF Inv
<1> QED BY <1>6, <1>7, <1>8, <1>9, <1>10, <1>11 DEF Inv

(* What stop_stream leaves.                                                *)
LEMMA StoppedStream ==
  ASSUME Inv, StopStream, cuts' = cuts,
         advertisements' = advertisements
  PROVE  Ordered' /\ ParsedBefore' /\ Whole' /\ Pending' = {}
<1>1. task' = "none" /\ bytes' = <<>> /\ buffer' = <<>> /\ source' = source
  BY DEF StopStream
<1>2. Elements(bytes') = {} /\ Elements(buffer') = {} /\ Increasing(bytes') /\ Increasing(buffer')
  BY <1>1, EmptyElements
<1>3. Pending' = {}
  BY <1>2 DEF Pending
<1>4. Ordered' /\ Whole'
  BY <1>1, <1>2, <1>3 DEF Inv, Ordered, Whole, LineOf, IsTail
<1>5. ParsedBefore'
  BY <1>1, <1>3 DEF Inv, ParsedBefore, Increasing, Elements
<1> QED BY <1>3, <1>4, <1>5

LEMMA CleanupKeepsInv ==
  ASSUME Inv, Cleanup
  PROVE  Inv'
<1>1. /\ task' = "none" /\ receiver' = FALSE /\ bytes' = <<>> /\ buffer' = <<>>
      /\ pc' = "ended"
      /\ UNCHANGED <<source, advertisements, policy, errors, cuts, sent>>
  BY DEF Cleanup, StopStream
<1>2. TypeOK' /\ StreamIsConsistent'
  <2>1. <<>> \in Seq(1 .. 2 * MaxLines) /\ Len(<<>>) <= Capacity
    BY ParserAssumption
  <2>2. TypeOK'
    BY <1>1, <2>1 DEF Inv, TypeOK
  <2> QED BY <1>1, <2>2 DEF StreamIsConsistent
<1>3. Ordered' /\ ParsedBefore' /\ Whole' /\ Pending' = {}
  BY <1>1, StoppedStream DEF Cleanup
<1>4. ErrorsUsedUp'
  BY <1>1, <1>2, <1>3, FewerPending DEF Inv, LineOf
<1> QED BY <1>2, <1>3, <1>4 DEF Inv

(* A step that leaves the stream and the buffer alone.                     *)
LEMMA QuietKeepsInv ==
  ASSUME Inv, TypeOK', StreamIsConsistent',
         UNCHANGED <<source, bytes, buffer, errors, cuts>>,
         advertisements' \in {advertisements, <<>>},
         task' # "none", task' = "running" => task = "running"
  PROVE  Inv'
<1>1. Pending' = Pending /\ Elements(bytes') = Elements(bytes) /\ Elements(buffer') = Elements(buffer)
  BY DEF Pending, Elements
<1>2. Ordered' /\ ParsedBefore'
  <2>1. Increasing(advertisements') /\ Elements(advertisements') \subseteq Elements(advertisements)
    <3>1. CASE advertisements' = advertisements
      BY <3>1 DEF Inv, ParsedBefore, Increasing, Elements
    <3>2. CASE advertisements' = <<>>
      BY <3>2, EmptyElements
    <3> QED BY <3>1, <3>2
  <2>2. Ordered'
    BY <1>1 DEF Inv, Ordered, Increasing
  <2> QED BY <1>1, <2>1, <2>2 DEF Inv, ParsedBefore
<1>3. Whole'
  BY <1>1 DEF Inv, Whole, IsTail, LineOf
<1>4. ErrorsUsedUp'
  BY <1>1 DEF Inv, ErrorsUsedUp, Bad, PendingLines, LineOf
<1> QED BY <1>2, <1>3, <1>4 DEF Inv

(* A line that fails is malformed, or begins with a head that was left: in *)
(* either case it was pending, and in the account.                         *)
LEMMA FailIsCaused ==
  ASSUME Inv, NEW i \in DOMAIN buffer, Fail(i)
  PROVE  \E n \in PendingLines : n \in Bad \/ n \in cuts
<1> DEFINE S == 1 .. 2 * MaxLines
<1>0. /\ Newline(i) /\ ~ Parses(i)
  BY DEF Fail
<1>1. /\ buffer \in Seq(S) /\ Len(buffer) \in Nat /\ DOMAIN buffer = 1 .. Len(buffer)
      /\ i \in 1 .. Len(buffer) /\ \A j \in 1 .. Len(buffer) : buffer[j] \in S
  <2>1. buffer \in Seq(S)
    BY DEF Inv, TypeOK
  <2> HIDE DEF S
  <2>2. Len(buffer) \in Nat /\ DOMAIN buffer = 1 .. Len(buffer)
    BY <2>1
  <2>3. \A j \in 1 .. Len(buffer) : buffer[j] \in S
    BY <2>1, <2>2
  <2> QED BY <2>1, <2>2, <2>3
<1>2. /\ \A j \in 1 .. Len(buffer) : buffer[j] \in Pending /\ buffer[j] \in Elements(buffer)
      /\ \A j \in 1 .. Len(buffer) : buffer[j] \in Nat /\ buffer[j] <= source
      /\ source \in Nat
  BY <1>1, Numbers DEF Pending, Elements, Inv, Ordered
<1>3. \A j, k \in 1 .. Len(buffer) : j < k => buffer[j] < buffer[k]
  BY DEF Inv, Ordered, Increasing
(* Whatever is pending before an element of the buffer is in the buffer.   *)
<1>4. ASSUME NEW x \in Pending, NEW j \in 1 .. Len(buffer), x <= buffer[j]
      PROVE  \E k \in 1 .. j : buffer[k] = x
  <2>1. x \in Nat
    BY Numbers DEF Inv
  <2>2. x \in Elements(buffer)
    <3>1. x \in Elements(bytes) => buffer[j] < x
      BY <1>2, <1>4 DEF Inv, Ordered
    <3> QED BY <1>2, <1>4, <2>1, <3>1 DEF Pending
  <2>3. PICK k \in 1 .. Len(buffer) : buffer[k] = x
    BY <1>1, <2>2 DEF Elements
  <2>4. k <= j
    BY <1>1, <1>2, <1>3, <1>4, <2>3
  <2> QED BY <1>1, <2>3, <2>4
<1>5. i # 1
  <2>1. SUFFICES ASSUME i = 1 PROVE FALSE
    OBVIOUS
  <2>2. buffer[1] - 1 \in Pending
    BY <1>0, <1>1, <1>2, <2>1 DEF Newline, Inv, Whole
  <2>3. \E k \in 1 .. 1 : buffer[k] = buffer[1] - 1
    BY <1>1, <1>2, <1>4, <2>1, <2>2
  <2> QED BY <1>1, <1>2, <2>1, <2>3
<1>6. 1 \in 1 .. i - 1 /\ 1 \in 1 .. Len(buffer) /\ 2 \in 1 .. Len(buffer) /\ ~ IsTail(buffer[1])
  <2>1. 1 \in 1 .. i - 1 /\ 1 \in 1 .. Len(buffer) /\ 2 \in 1 .. Len(buffer)
    BY <1>1, <1>5
  <2> QED BY <1>0, <2>1 DEF Newline
<1>7. buffer[1] < buffer[2] /\ buffer[1] # source
  BY <1>2, <1>3, <1>6
<1>8. CASE LineOf(buffer[1]) \in cuts
  BY <1>2, <1>6, <1>8 DEF PendingLines
<1>9. CASE LineOf(buffer[1]) \notin cuts
  <2>1. buffer[1] + 1 \in Pending
    BY <1>2, <1>6, <1>7, <1>9 DEF Inv, Whole
  <2>2. buffer[1] + 1 <= buffer[2]
    BY <1>2, <1>6, <1>7
  <2>3. PICK k \in 1 .. 2 : buffer[k] = buffer[1] + 1
    BY <1>4, <1>6, <2>1, <2>2
  <2>4. buffer[2] = buffer[1] + 1
    BY <1>2, <1>6, <2>3
  <2>5. IsTail(buffer[2]) /\ LineOf(buffer[1]) = LineOf(buffer[2])
    BY <1>2, <1>6, <2>4, PieceLemma
  <2>6. i = 2
    <3>1. i > 2 => 2 \in 1 .. i - 1
      BY <1>1
    <3> QED BY <1>0, <1>1, <1>5, <2>5, <3>1 DEF Newline
  <2>7. LineOf(buffer[2]) \in Malformed
    BY <1>0, <2>5, <2>6 DEF Parses
  <2>8. LineOf(buffer[2]) \in 1 .. LineOf(source)
    <3>1. /\ LineOf(buffer[2]) \in Nat /\ LineOf(source) \in Nat
          /\ LineOf(buffer[2]) <= LineOf(source)
      BY <1>2, <1>6, PieceLemma, LineOrder
    <3>2. LineOf(buffer[2]) \in 1 .. MaxLines
      BY <1>1, <1>6, LineRange
    <3> QED BY <3>1, <3>2
  <2> QED BY <1>2, <1>6, <2>7, <2>8 DEF Bad, PendingLines
<1> QED BY <1>8, <1>9

LEMMA FailKeepsInv ==
  ASSUME Inv, NEW i \in DOMAIN buffer, Fail(i)
  PROVE  Inv'
<1>1. /\ errors' = errors + 1 /\ StopStream
      /\ task' = "none" /\ receiver' = FALSE /\ bytes' = <<>> /\ buffer' = <<>>
      /\ pc' = (IF policy = "StopOnError" THEN "ended" ELSE "idle")
      /\ UNCHANGED <<source, advertisements, policy, cuts, sent>>
  BY DEF Fail, StopStream
<1>2. TypeOK' /\ StreamIsConsistent'
  <2>1. <<>> \in Seq(1 .. 2 * MaxLines) /\ Len(<<>>) <= Capacity
    BY ParserAssumption
  <2>2. pc' \in {"idle", "receiving", "parsing", "ended"} /\ errors' \in Nat
    BY <1>1 DEF Inv, TypeOK
  <2>3. TypeOK'
    BY <1>1, <2>1, <2>2 DEF Inv, TypeOK
  <2> QED BY <1>1, <2>3 DEF StreamIsConsistent
<1>3. Ordered' /\ ParsedBefore' /\ Whole' /\ Pending' = {}
  BY <1>1, StoppedStream
<1>4. ErrorsUsedUp'
  <2> DEFINE b == Bad \ PendingLines
             c == cuts \ PendingLines
  <2>1. PICK n \in PendingLines : n \in Bad \/ n \in cuts
    BY FailIsCaused
  <2>2. PendingLines' = {} /\ Bad' = Bad /\ cuts' = cuts
    BY <1>1, <1>3 DEF PendingLines, Bad, LineOf
  <2>3. IsFiniteSet(Bad) /\ IsFiniteSet(cuts) /\ IsFiniteSet(b) /\ IsFiniteSet(c)
    <3>1. source \in Nat /\ cuts \in SUBSET (1 .. MaxLines)
      BY Numbers DEF Inv, TypeOK
    <3>2. Bad \ {} = Bad /\ cuts \ {} = cuts
      OBVIOUS
    <3> QED BY <3>1, <3>2, AccountsAreFinite DEF Bad
  <2>4. /\ Cardinality(b) \in Nat /\ Cardinality(c) \in Nat
        /\ Cardinality(Bad) \in Nat /\ Cardinality(cuts) \in Nat
        /\ Cardinality(b) <= Cardinality(Bad) /\ Cardinality(c) <= Cardinality(cuts)
    BY <2>3, FS_Subset, FS_CardinalityType
  <2>5. n \in Bad => Cardinality(b) < Cardinality(Bad)
    BY <2>1, <2>3, <2>4, FS_Subset
  <2>6. n \in cuts => Cardinality(c) < Cardinality(cuts)
    BY <2>1, <2>3, <2>4, FS_Subset
  <2>7. errors \in Nat /\ errors <= Cardinality(b) + Cardinality(c)
    BY DEF Inv, TypeOK, ErrorsUsedUp
  <2> HIDE DEF b, c
  <2>8. errors + 1 <= Cardinality(Bad) + Cardinality(cuts)
    BY <2>1, <2>4, <2>5, <2>6, <2>7
  <2>9. (Bad \ PendingLines)' = Bad /\ (cuts \ PendingLines)' = cuts
    BY <2>2
  <2> QED BY <1>1, <2>8, <2>9 DEF ErrorsUsedUp
<1> QED BY <1>2, <1>3, <1>4 DEF Inv

LEMMA StepKeepsInv ==
  ASSUME Inv, [Next]_vars
  PROVE  Inv'
<1>1. CASE Stream
  BY <1>1, StreamKeepsInv
<1>2. CASE EndStream
  <2>1. TypeOK' /\ StreamIsConsistent'
    BY <1>2 DEF EndStream, Inv, TypeOK, StreamIsConsistent
  <2> QED BY <1>2, <2>1, QuietKeepsInv DEF EndStream
<1>3. CASE Begin
  BY <1>3, BeginKeepsInv
<1>4. CASE ReceiveNext
  BY <1>4, ReceiveKeepsInv
<1>5. CASE EndReceive \/ Send
  <2>1. TypeOK' /\ StreamIsConsistent' /\ task # "none"
    <3>1. sent \o advertisements \in Seq(1 .. MaxLines) /\ <<>> \in Seq(1 .. MaxLines)
      BY DEF Inv, TypeOK
    <3> QED BY <1>5, <3>1 DEF EndReceive, Send, streamVars, Inv, TypeOK, StreamIsConsistent
  <2> QED BY <1>5, <2>1, QuietKeepsInv DEF EndReceive, Send, streamVars
<1>6. ASSUME NEW i \in DOMAIN buffer, ParseLine(i) PROVE Inv'
  BY <1>6, ParseKeepsInv
<1>7. ASSUME NEW i \in DOMAIN buffer, Fail(i) PROVE Inv'
  BY <1>7, FailKeepsInv
<1>8. CASE Cleanup
  BY <1>8, CleanupKeepsInv
<1>9. CASE UNCHANGED vars
  <2>1. UNCHANGED <<task, source, bytes, receiver, buffer, advertisements, policy, pc, errors, cuts, sent>>
    BY <1>9 DEF vars, streamVars
  <2>2. Pending' = Pending
    BY <2>1 DEF Pending, Elements
  <2>3. TypeOK' /\ StreamIsConsistent'
    BY <2>1 DEF Inv, TypeOK, StreamIsConsistent
  <2>4. Ordered' /\ ParsedBefore'
    BY <2>1, <2>2 DEF Inv, Ordered, ParsedBefore, Increasing, Elements
  <2>5. Whole'
    BY <2>1, <2>2 DEF Inv, Whole, IsTail, LineOf
  <2>6. ErrorsUsedUp'
    BY <2>1, <2>2 DEF Inv, ErrorsUsedUp, Bad, PendingLines, LineOf
  <2> QED BY <2>3, <2>4, <2>5, <2>6 DEF Inv
<1> QED
  BY <1>1, <1>2, <1>3, <1>4, <1>5, <1>6, <1>7, <1>8, <1>9 DEF Next, Work, Ended

LEMMA InitHasInv == Init => Inv
<1> SUFFICES ASSUME Init PROVE Inv
  OBVIOUS
<1>1. Elements(bytes) = {} /\ Elements(buffer) = {} /\ Increasing(bytes) /\ Increasing(buffer)
  BY EmptyElements DEF Init
<1>2. Pending = {}
  BY <1>1 DEF Pending
<1>3. TypeOK
  <2>1. <<>> \in Seq(1 .. 2 * MaxLines) /\ <<>> \in Seq(1 .. MaxLines)
        /\ Len(<<>>) <= Capacity
    BY ParserAssumption
  <2>2. /\ task = "none" /\ source = 0 /\ bytes = <<>> /\ receiver = FALSE
        /\ buffer = <<>> /\ advertisements = <<>> /\ pc = "idle" /\ errors = 0
        /\ cuts = {} /\ sent = <<>> /\ policy \in {"StopOnError", "RestartOnError"}
    BY DEF Init
  <2>3. source \in 0 .. 2 * MaxLines /\ errors \in Nat
    BY <2>2, ParserAssumption
  <2> QED BY <2>1, <2>2, <2>3 DEF TypeOK
<1>4. StreamIsConsistent
  BY DEF Init, StreamIsConsistent
<1>5. Ordered /\ ParsedBefore
  BY <1>1, <1>2, EmptyElements DEF Init, Ordered, ParsedBefore
<1>6. Whole
  BY <1>2 DEF Init, Whole
<1>7. ErrorsUsedUp
  <2>1. IsFiniteSet(Bad \ PendingLines) /\ IsFiniteSet(cuts \ PendingLines)
    BY <1>3, Numbers, AccountsAreFinite DEF Bad, TypeOK
  <2> QED BY <2>1, FS_CardinalityType DEF Init, ErrorsUsedUp
<1> QED BY <1>3, <1>4, <1>5, <1>6, <1>7 DEF Inv

(* The state of a parser: every piece in its order, no head without its    *)
(* tail but those accounted for.                                           *)
THEOREM ParserSafety == Spec => []Inv
<1>1. Inv /\ [Next]_vars => Inv'
  BY StepKeepsInv
<1> QED BY <1>1, InitHasInv, PTL DEF Spec

(* The channel is never overfull, and every variable keeps its type.       *)
THEOREM ParserTypes == Spec => []TypeOK
BY ParserSafety, PTL DEF Inv

(* The handle and the receiver come and go together, and a parser that has *)
(* ended, by an error or by a stop, has none of them.                      *)
THEOREM NoStreamOutlivesParser == Spec => []StreamIsConsistent
BY ParserSafety, PTL DEF Inv

(* However bytes arrive, an error is due to a malformed line or to a       *)
(* stream that ended.                                                      *)
THEOREM ErrorsHaveCauses == Spec => []ErrorsAreCaused
<1>1. Inv => ErrorsAreCaused
  <2> SUFFICES ASSUME Inv PROVE ErrorsAreCaused
    OBVIOUS
  <2>1. source \in Nat /\ cuts \in SUBSET (1 .. MaxLines)
    BY Numbers DEF Inv, TypeOK
  <2>2. Bad \ {} = Bad /\ cuts \ {} = cuts
    OBVIOUS
  <2>3. IsFiniteSet(Bad) /\ IsFiniteSet(cuts)
    BY <2>1, <2>2, AccountsAreFinite DEF Bad
  <2>4. /\ Cardinality(Bad \ PendingLines) <= Cardinality(Bad)
        /\ Cardinality(cuts \ PendingLines) <= Cardinality(cuts)
        /\ Cardinality(Bad) \in Nat /\ Cardinality(cuts) \in Nat
        /\ Cardinality(Bad \ PendingLines) \in Nat /\ Cardinality(cuts \ PendingLines) \in Nat
    BY <2>3, FS_Subset, FS_CardinalityType
  <2>5. errors \in Nat /\ errors <= Cardinality(Bad \ PendingLines) + Cardinality(cuts \ PendingLines)
    BY DEF Inv, TypeOK, ErrorsUsedUp
  <2>6. errors <= Cardinality(Bad) + Cardinality(cuts)
    BY <2>4, <2>5
  <2> QED BY <2>6 DEF ErrorsAreCaused, Bad
<1> QED BY <1>1, ParserSafety, PTL

-----------------------------------------------------------------------------
(* The feed implements the lossy fifo.                                     *)

Flight == PendingLines \cup Elements(advertisements)
Issued == LineOf(source)

LEMMA LosesLines ==
  ASSUME UNCHANGED <<Issued, sent>>, Flight' \subseteq Flight
  PROVE  Feed!Next
BY DEF Feed!Next, Feed!Lose, Flight, Issued, PendingLines, Pending

LEMMA StepRefines ==
  ASSUME Inv, [Next]_vars
  PROVE  [Feed!Next]_<<Issued, Flight, sent>>
<1>0. source \in Nat /\ Issued \in Nat
  BY Numbers, PieceLemma DEF Inv, Issued
<1>1. CASE Stream
  <2>0. source' = source + 1 /\ bytes' = Append(bytes, source + 1)
        /\ UNCHANGED <<task, buffer, advertisements, sent>> /\ task = "running"
    BY <1>1 DEF Stream
  <2>1. Pending' = Pending \cup {source + 1}
    <3>1. Elements(bytes') = Elements(bytes) \cup {source + 1}
      <4>1. bytes \in Seq(Nat) /\ source + 1 \in Nat
        BY <1>0, Numbers DEF Inv
      <4> QED BY <2>0, <4>1, ElementsOfAppend
    <3> QED BY <2>0, <3>1 DEF Pending, Elements
  <2>2. PendingLines' = PendingLines \cup {LineOf(source + 1)} /\ Issued' = LineOf(source + 1)
    BY <2>0, <2>1 DEF PendingLines, Issued, LineOf
  <2>3. Flight' = Flight \cup {Issued'}
    BY <2>0, <2>2 DEF Flight, Elements
  <2>4. CASE IsTail(source)
    <3>1. Issued' = Issued + 1
      BY <1>0, <2>2, <2>4, PieceLemma DEF Issued
    <3>2. {Issued'} \in SUBSET (Issued + 1 .. Issued') /\ Issued' \in Nat /\ Issued' >= Issued
      BY <1>0, <3>1
    <3>3. Feed!Issue
      BY <2>0, <2>3, <3>2 DEF Feed!Issue, Flight, Issued, PendingLines, Pending
    <3> QED BY <3>3 DEF Feed!Next
  <2>5. CASE ~ IsTail(source)
    <3>1. Issued' = Issued
      BY <1>0, <2>2, <2>5, PieceLemma DEF Issued
    <3>2. Issued \in PendingLines
      BY <2>0, <2>5 DEF Inv, Whole, PendingLines, Issued
    <3> QED BY <2>0, <2>3, <3>1, <3>2 DEF Flight
  <2> QED BY <2>4, <2>5
<1>2. CASE Begin
  <2>1. Pending' \subseteq Pending /\ Issued' = Issued /\ UNCHANGED <<advertisements, sent>>
    <3>1. CASE task = "running"
      BY <1>2, <3>1 DEF Begin, streamVars, Pending, Elements, Issued, LineOf
    <3>2. CASE task # "running"
      <4>1. bytes' = <<>> /\ source' = source + (source % 2)
            /\ UNCHANGED <<buffer, advertisements, sent>>
        BY <1>2, <3>2 DEF Begin, StartStream
      <4>2. Issued' = Issued
        BY <1>0, <4>1, PieceLemma DEF Issued, LineOf
      <4>3. Elements(bytes') = {} /\ Elements(buffer') = Elements(buffer)
        BY <4>1, EmptyElements DEF Elements
      <4> QED BY <4>1, <4>2, <4>3 DEF Pending
    <3> QED BY <3>1, <3>2
  <2>2. Flight' \subseteq Flight
    BY <2>1 DEF Flight, PendingLines, LineOf, Elements
  <2> QED BY <2>1, <2>2, LosesLines
<1>3. CASE ReceiveNext
  <2>1. bytes # <<>> /\ buffer' = Append(buffer, Head(bytes)) /\ bytes' = Tail(bytes)
        /\ UNCHANGED <<source, advertisements, sent>>
    BY <1>3 DEF ReceiveNext
  <2>2. Elements(buffer') = Elements(buffer) \cup {Head(bytes)}
        /\ Elements(bytes) = Elements(bytes') \cup {Head(bytes)}
    BY <2>1, Numbers, HeadAndTail, ElementsOfAppend, ElementsOfTail DEF Inv
  <2>3. Pending' = Pending
    BY <2>2 DEF Pending
  <2> QED BY <2>1, <2>3 DEF Issued, Flight, PendingLines, LineOf, Elements
<1>4. ASSUME NEW i \in DOMAIN buffer, ParseLine(i)
      PROVE  [Feed!Next]_<<Issued, Flight, sent>>
  <2>0. /\ i = 2 /\ buffer' = SubSeq(buffer, 3, Len(buffer))
        /\ advertisements' \in {advertisements, Append(advertisements, LineOf(buffer[2]))}
        /\ UNCHANGED <<source, bytes, sent>>
    BY <1>4 DEF ParseLine, Parses, streamVars
  <2>1. Elements(buffer) = Elements(buffer') \cup {buffer[1], buffer[2]}
    BY <2>0, Numbers, RestOf DEF Inv
  <2>2. Pending' \subseteq Pending /\ buffer[2] \in Pending
    BY <2>0, <2>1 DEF Pending, Elements
  <2>3. LineOf(buffer[2]) \in PendingLines /\ PendingLines' \subseteq PendingLines
        /\ Issued' = Issued
    BY <2>0, <2>2 DEF PendingLines, Issued, LineOf
  <2>4. Elements(advertisements') \subseteq Elements(advertisements) \cup {LineOf(buffer[2])}
    <3>1. LineOf(buffer[2]) \in Nat /\ advertisements \in Seq(Nat)
      BY <2>2, Numbers, PieceLemma DEF Inv
    <3> QED BY <2>0, <3>1, ElementsOfAppend
  <2>5. Flight' \subseteq Flight
    BY <2>3, <2>4 DEF Flight
  <2> QED BY <2>0, <2>3, <2>5, LosesLines
<1>5. ASSUME Cleanup \/ \E i \in DOMAIN buffer : Fail(i)
      PROVE  [Feed!Next]_<<Issued, Flight, sent>>
  <2>1. bytes' = <<>> /\ buffer' = <<>> /\ UNCHANGED <<source, advertisements, sent>>
    BY <1>5 DEF Cleanup, Fail, StopStream
  <2>2. Pending' = {}
    BY <2>1, EmptyElements DEF Pending
  <2>3. Flight' \subseteq Flight /\ Issued' = Issued
    BY <2>1, <2>2 DEF Flight, PendingLines, Issued, LineOf, Elements
  <2> QED BY <2>1, <2>3, LosesLines
<1>6. CASE Send
  <2> DEFINE out == Elements(advertisements)
  <2>0. /\ sent' = sent \o advertisements /\ advertisements' = <<>>
        /\ UNCHANGED <<source, bytes, buffer>>
    BY <1>6 DEF Send, streamVars
  <2>1. PendingLines' = PendingLines /\ Issued' = Issued
    BY <2>0 DEF PendingLines, Pending, Elements, Issued, LineOf
  <2>2. out \subseteq Nat /\ sent \in Seq(Nat) /\ advertisements \in Seq(Nat)
    BY Numbers DEF Inv
  <2>3. \A m \in out, n \in PendingLines : m < n
    <3>1. ASSUME NEW m \in out, NEW x \in Pending PROVE m < LineOf(x)
      <4>1. m \in Nat /\ x \in Nat /\ 2 * m < x
        BY <2>2, Numbers DEF Inv, ParsedBefore
      <4> QED BY <4>1 DEF LineOf
    <3> QED BY <3>1 DEF PendingLines
  <2>4. \A m \in out : m \notin PendingLines
    BY <2>2, <2>3
  <2>5. Flight' = Flight \ out /\ Flight \ out = PendingLines /\ out \in SUBSET Flight
    <3>1. Elements(advertisements') = {}
      BY <2>0, EmptyElements
    <3> QED BY <2>1, <2>4, <3>1 DEF Flight
  <2>6. Feed!Batch = advertisements
    BY <2>0, <2>2, Appended DEF Feed!Batch
  <2>7. Feed!First = out
    <3>1. DOMAIN advertisements = 1 .. Len(advertisements)
      BY <2>2
    <3> QED BY <2>6, <3>1 DEF Feed!First, Elements
  <2>8. \A i, j \in 1 .. Len(advertisements) : i < j => advertisements[i] < advertisements[j]
    BY DEF Inv, ParsedBefore, Increasing
  <2>9. \A m \in out, n \in Flight \ out : m < n
    BY <2>3, <2>5
  <2> HIDE DEF out
  <2>10. Feed!Deliver
    BY <2>0, <2>1, <2>5, <2>6, <2>7, <2>8, <2>9, Zenon
       DEF Feed!Deliver, Flight, Issued, PendingLines, Pending
  <2> QED BY <2>10 DEF Feed!Next
<1>7. CASE EndStream \/ EndReceive \/ UNCHANGED vars
  <2>1. UNCHANGED <<source, bytes, buffer, advertisements, sent>>
    BY <1>7 DEF EndStream, EndReceive, vars, streamVars
  <2> QED BY <2>1 DEF Issued, Flight, PendingLines, Pending, Elements, LineOf
<1> QED
  BY <1>1, <1>2, <1>3, <1>4, <1>5, <1>6, <1>7 DEF Next, Work, Ended

(* Whatever errors and restarts lose, each line is sent at most once, in   *)
(* its turn, and as it was streamed.                                       *)
THEOREM FeedImplementsLossyFifo == Spec => FeedIsLossyFifo
<1>1. Init => Feed!Init
  <2> SUFFICES ASSUME Init PROVE Feed!Init
    OBVIOUS
  <2>1. LineOf(source) = 0 /\ Elements(buffer) = {} /\ Elements(bytes) = {}
        /\ Elements(advertisements) = {} /\ sent = <<>>
    BY EmptyElements DEF Init, LineOf
  <2> QED BY <2>1 DEF Feed!Init
<1>2. Inv /\ [Next]_vars => [Feed!Next]_<<Issued, Flight, sent>>
  BY StepRefines
<1> QED BY <1>1, <1>2, ParserSafety, PTL
        DEF Spec, FeedIsLossyFifo, Feed!Spec, Issued, Flight, PendingLines, Pending
=============================================================================
