-------------------------- MODULE InterfaceProofs --------------------------
(***************************************************************************)
(* Proofs about Interface, for any size of the channel and of the buffers, *)
(* any filters and any number of messages: the order of the messages, and  *)
(* that a link implements LossyFifo.                                       *)
(***************************************************************************)
EXTENDS Interface, TLAPS

-----------------------------------------------------------------------------
(* What the operations on sequences do to order and to contents.           *)

LEMMA EmptyOrder ==
  ASSUME NEW t \in Seq(Nat)
  PROVE  /\ Increasing(<<>>) /\ Precedes(<<>>, t) /\ Precedes(t, <<>>)
         /\ In(<<>>) = {}
BY DEF Increasing, Precedes, In

LEMMA HeadTail ==
  ASSUME NEW S, NEW s \in Seq(S), s # <<>>
  PROVE  /\ Tail(s) \in Seq(S) /\ Head(s) \in S
         /\ Len(s) \in Nat \ {0} /\ Len(Tail(s)) = Len(s) - 1
         /\ s[1] = Head(s)
         /\ \A i \in 1 .. Len(s) - 1 : Tail(s)[i] = s[i + 1]
OBVIOUS

LEMMA TailOrder ==
  ASSUME NEW s \in Seq(Nat), s # <<>>, Increasing(s)
  PROVE  /\ Increasing(Tail(s))
         /\ Precedes(<<Head(s)>>, Tail(s))
         /\ In(s) = {Head(s)} \cup In(Tail(s))
         /\ \A m \in In(Tail(s)) : Head(s) < m
<1>1. Increasing(Tail(s))
  BY HeadTail DEF Increasing
<1>2. \A i \in 1 .. Len(Tail(s)) : Head(s) < Tail(s)[i]
  BY HeadTail DEF Increasing
<1>3. In(s) \subseteq {Head(s)} \cup In(Tail(s))
  <2>1. ASSUME NEW i \in 1 .. Len(s), i # 1 PROVE s[i] \in In(Tail(s))
    <3>1. i - 1 \in 1 .. Len(Tail(s)) /\ Tail(s)[i - 1] = s[i]
      BY <2>1, HeadTail
    <3> QED BY <3>1 DEF In
  <2> QED BY <2>1, HeadTail DEF In
<1>4. {Head(s)} \cup In(Tail(s)) \subseteq In(s)
  <2>1. Head(s) \in In(s)
    BY HeadTail DEF In
  <2>2. ASSUME NEW i \in 1 .. Len(Tail(s)) PROVE Tail(s)[i] \in In(s)
    <3>1. i + 1 \in 1 .. Len(s) /\ Tail(s)[i] = s[i + 1]
      BY HeadTail
    <3> QED BY <3>1 DEF In
  <2> QED BY <2>1, <2>2 DEF In
<1> QED BY <1>1, <1>2, <1>3, <1>4 DEF Precedes, In

LEMMA TailPrecedes ==
  ASSUME NEW s \in Seq(Nat), s # <<>>, NEW t \in Seq(Nat)
  PROVE  /\ Precedes(s, t) => Precedes(Tail(s), t) /\ Precedes(<<Head(s)>>, t)
         /\ Precedes(t, s) => Precedes(t, Tail(s)) /\ Precedes(t, <<Head(s)>>)
<1>1. \A i \in 1 .. Len(Tail(s)) : i + 1 \in 1 .. Len(s) /\ Tail(s)[i] = s[i + 1]
  BY HeadTail
<1>2. 1 \in 1 .. Len(s) /\ Head(s) = s[1]
  BY HeadTail
<1>3. Len(<<Head(s)>>) = 1 /\ <<Head(s)>>[1] = Head(s)
  OBVIOUS
<1>4. Precedes(s, t) => Precedes(Tail(s), t) /\ Precedes(<<Head(s)>>, t)
  BY <1>1, <1>2, <1>3 DEF Precedes
<1>5. Precedes(t, s) => Precedes(t, Tail(s)) /\ Precedes(t, <<Head(s)>>)
  BY <1>1, <1>2, <1>3 DEF Precedes
<1> QED BY <1>4, <1>5

LEMMA AppendElements ==
  ASSUME NEW S, NEW s \in Seq(S), NEW x \in S
  PROVE  /\ Append(s, x) \in Seq(S)
         /\ Len(s) \in Nat /\ Len(Append(s, x)) = Len(s) + 1
         /\ Append(s, x)[Len(s) + 1] = x
         /\ \A i \in 1 .. Len(s) : Append(s, x)[i] = s[i]
OBVIOUS

LEMMA AppendOrder ==
  ASSUME NEW s \in Seq(Nat), NEW x \in Nat
  PROVE  /\ Increasing(s) /\ Precedes(s, <<x>>) => Increasing(Append(s, x))
         /\ In(Append(s, x)) = In(s) \cup {x}
<1>1. Increasing(s) /\ Precedes(s, <<x>>) => Increasing(Append(s, x))
  BY AppendElements DEF Increasing, Precedes
<1>2. \A i \in 1 .. Len(s) + 1 : i \in 1 .. Len(s) \/ i = Len(s) + 1
  BY AppendElements
<1>3. In(Append(s, x)) = In(s) \cup {x}
  BY <1>2, AppendElements DEF In
<1> QED BY <1>1, <1>3

LEMMA AppendPrecedes ==
  ASSUME NEW s \in Seq(Nat), NEW x \in Nat, NEW t \in Seq(Nat)
  PROVE  /\ Precedes(s, t) /\ Precedes(<<x>>, t) => Precedes(Append(s, x), t)
         /\ Precedes(t, s) /\ Precedes(t, <<x>>) => Precedes(t, Append(s, x))
<1>1. \A i \in 1 .. Len(Append(s, x)) :
        \/ i \in 1 .. Len(s) /\ Append(s, x)[i] = s[i]
        \/ Append(s, x)[i] = x
  BY AppendElements
<1>2. Len(<<x>>) = 1 /\ <<x>>[1] = x
  OBVIOUS
<1>3. Precedes(s, t) /\ Precedes(<<x>>, t) => Precedes(Append(s, x), t)
  BY <1>1, <1>2 DEF Precedes
<1>4. Precedes(t, s) /\ Precedes(t, <<x>>) => Precedes(t, Append(s, x))
  BY <1>1, <1>2 DEF Precedes
<1> QED BY <1>3, <1>4

LEMMA ConcatElements ==
  ASSUME NEW S, NEW s \in Seq(S), NEW t \in Seq(S)
  PROVE  /\ s \o t \in Seq(S)
         /\ Len(s) \in Nat /\ Len(t) \in Nat /\ Len(s \o t) = Len(s) + Len(t)
         /\ \A i \in 1 .. Len(s) : (s \o t)[i] = s[i]
         /\ \A i \in 1 .. Len(t) : (s \o t)[Len(s) + i] = t[i]
         /\ \A i \in 1 .. Len(s \o t) :
              \/ i \in 1 .. Len(s) /\ (s \o t)[i] = s[i]
              \/ i - Len(s) \in 1 .. Len(t) /\ (s \o t)[i] = t[i - Len(s)]
OBVIOUS

LEMMA ConcatOrder ==
  ASSUME NEW s \in Seq(Nat), NEW t \in Seq(Nat)
  PROVE  /\ Increasing(s) /\ Increasing(t) /\ Precedes(s, t) => Increasing(s \o t)
         /\ In(s \o t) = In(s) \cup In(t)
<1>1. ASSUME Increasing(s), Increasing(t), Precedes(s, t),
             NEW i \in 1 .. Len(s \o t), NEW j \in 1 .. Len(s \o t), i < j
      PROVE  (s \o t)[i] < (s \o t)[j]
  <2>1. i \in Nat /\ j \in Nat /\ Len(s) \in Nat
    OBVIOUS
  <2>2. CASE j \in 1 .. Len(s) /\ (s \o t)[j] = s[j]
    <3>1. i \in 1 .. Len(s) /\ (s \o t)[i] = s[i]
      BY <1>1, <2>1, <2>2, ConcatElements
    <3> QED BY <1>1, <2>2, <3>1 DEF Increasing
  <2>3. CASE j - Len(s) \in 1 .. Len(t) /\ (s \o t)[j] = t[j - Len(s)]
    <3>1. CASE i \in 1 .. Len(s) /\ (s \o t)[i] = s[i]
      BY <1>1, <2>3, <3>1 DEF Precedes
    <3>2. CASE i - Len(s) \in 1 .. Len(t) /\ (s \o t)[i] = t[i - Len(s)]
      <4> DEFINE a == i - Len(s)
                 b == j - Len(s)
      <4>1. a \in 1 .. Len(t) /\ b \in 1 .. Len(t) /\ a < b
        BY <1>1, <2>1, <2>3, <3>2
      <4>2. t[a] < t[b]
        BY <1>1, <4>1 DEF Increasing
      <4> QED BY <2>3, <3>2, <4>2
    <3> QED BY <3>1, <3>2, ConcatElements
  <2> QED BY <2>2, <2>3, ConcatElements
<1>2. ASSUME NEW i \in 1 .. Len(s \o t) PROVE (s \o t)[i] \in In(s) \cup In(t)
  <2>1. CASE i \in 1 .. Len(s) /\ (s \o t)[i] = s[i]
    BY <2>1 DEF In
  <2>2. CASE i - Len(s) \in 1 .. Len(t) /\ (s \o t)[i] = t[i - Len(s)]
    BY <2>2 DEF In
  <2> QED BY <2>1, <2>2, ConcatElements
<1>3. ASSUME NEW i \in 1 .. Len(t) PROVE t[i] \in In(s \o t)
  <2>1. Len(s) + i \in 1 .. Len(s \o t) /\ (s \o t)[Len(s) + i] = t[i]
    BY ConcatElements
  <2> QED BY <2>1 DEF In
<1>4. ASSUME NEW i \in 1 .. Len(s) PROVE s[i] \in In(s \o t)
  <2>1. i \in 1 .. Len(s \o t) /\ (s \o t)[i] = s[i]
    BY ConcatElements
  <2> QED BY <2>1 DEF In
<1>5. In(s) \cup In(t) \subseteq In(s \o t)
  BY <1>3, <1>4 DEF In
<1>6. In(s \o t) = In(s) \cup In(t)
  BY <1>2, <1>5 DEF In
<1> QED BY <1>1, <1>6 DEF Increasing

LEMMA ConcatPrecedes ==
  ASSUME NEW s \in Seq(Nat), NEW t \in Seq(Nat), NEW u \in Seq(Nat)
  PROVE  /\ Precedes(s, u) /\ Precedes(t, u) => Precedes(s \o t, u)
         /\ Precedes(u, s) /\ Precedes(u, t) => Precedes(u, s \o t)
<1>1. \A i \in 1 .. Len(s \o t) :
        \/ i \in 1 .. Len(s) /\ (s \o t)[i] = s[i]
        \/ i - Len(s) \in 1 .. Len(t) /\ (s \o t)[i] = t[i - Len(s)]
  BY ConcatElements
<1>2. Precedes(s, u) /\ Precedes(t, u) => Precedes(s \o t, u)
  BY <1>1 DEF Precedes
<1>3. Precedes(u, s) /\ Precedes(u, t) => Precedes(u, s \o t)
  BY <1>1 DEF Precedes
<1> QED BY <1>2, <1>3

(* The messages of a push: they are numbered after all others.             *)
LEMMA FreshMessages ==
  ASSUME NEW n \in Nat, NEW k \in Nat
  PROVE  LET f == Numbered(n, k) IN
         /\ f \in Seq(n + 1 .. n + k) /\ f \in Seq(Nat)
         /\ Len(f) = k
         /\ Increasing(f)
         /\ In(f) \subseteq n + 1 .. n + k
         /\ \A s \in Seq(1 .. n) : Precedes(s, f)
<1> DEFINE f == Numbered(n, k)
<1> USE DEF Numbered
<1>1. \A i \in 1 .. k : f[i] = n + i /\ f[i] \in n + 1 .. n + k /\ f[i] \in Nat
  OBVIOUS
<1>2. f \in Seq(n + 1 .. n + k) /\ f \in Seq(Nat) /\ Len(f) = k
  BY <1>1
<1>3. Increasing(f) /\ In(f) \subseteq n + 1 .. n + k
  BY <1>1, <1>2 DEF Increasing, In
<1>4. ASSUME NEW s \in Seq(1 .. n) PROVE Precedes(s, f)
  <2>1. \A i \in 1 .. Len(s) : s[i] \in 1 .. n
    OBVIOUS
  <2> QED BY <1>1, <1>2, <2>1 DEF Precedes
<1> QED BY <1>2, <1>3, <1>4

LEMMA WiderSeq ==
  ASSUME NEW n \in Nat, NEW m \in Nat, n <= m, NEW s \in Seq(1 .. n)
  PROVE  s \in Seq(1 .. m) /\ s \in Seq(Nat)
OBVIOUS

-----------------------------------------------------------------------------
(* The invariant.                                                          *)

LEMMA NatSeqs ==
  ASSUME TypeOK
  PROVE  /\ issued \in Nat
         /\ outgoing \in Seq(Nat) /\ batch \in Seq(Nat) /\ channel \in Seq(Nat)
         /\ incoming \in Seq(Nat) /\ delivered \in Seq(Nat)
BY WiderSeq DEF TypeOK, Message

LEMMA PushKeepsInv ==
  ASSUME Inv, NEW k \in 1 .. MaxBatch, Push(k)
  PROVE  Inv'
<1> DEFINE taken == Smaller(k, outCap - Len(outgoing))
           fresh == Numbered(issued, taken)
<1>1. /\ taken \in Nat /\ taken <= k /\ Len(outgoing) + taken <= outCap
      /\ k \in Nat /\ issued \in Nat
  BY InterfaceAssumption DEF Smaller, Inv, TypeOK, WithinCapacity
<1>2. /\ outgoing' = outgoing \o fresh /\ issued' = issued + k
      /\ UNCHANGED <<outCap, outSize, batch, sending, channel, open, receiving,
                     incoming, inCap, inSize, delivered>>
  BY DEF Push, receiverVars
<1> HIDE DEF taken
<1>3. /\ fresh \in Seq(issued + 1 .. issued + taken) /\ fresh \in Seq(Nat)
      /\ Len(fresh) = taken
      /\ Increasing(fresh) /\ \A s \in Seq(Message) : Precedes(s, fresh)
  BY <1>1, FreshMessages DEF Message
<1> HIDE DEF fresh
<1>5. TypeOK'
  <2>1. \A s \in Seq(Message) : s \in Seq(Message')
    BY <1>1, <1>2, WiderSeq DEF Message
  <2>2. fresh \in Seq(Message')
    <3>1. \A i \in 1 .. Len(fresh) : fresh[i] \in Message'
      BY <1>1, <1>2, <1>3 DEF Message
    <3> QED BY <1>3, <3>1
  <2>3. outgoing' \in Seq(Message')
    BY <1>2, <2>1, <2>2, ConcatElements DEF Inv, TypeOK
  <2> QED BY <1>1, <1>2, <2>1, <2>3 DEF Inv, TypeOK
<1>6. WithinCapacity'
  BY <1>1, <1>2, <1>3, NatSeqs, ConcatElements DEF Inv, WithinCapacity
<1>7. InOrder'
  <2>1. \A s \in Seq(Message) : s \in Seq(Nat)
    BY <1>1, WiderSeq DEF Message
  <2>2. Increasing(outgoing')
    BY <1>2, <1>3, <2>1, ConcatOrder DEF Inv, InOrder, TypeOK
  <2>3. ASSUME NEW s \in Seq(Message), Precedes(s, outgoing)
        PROVE  Precedes(s, outgoing')
    BY <1>2, <1>3, <2>1, <2>3, ConcatPrecedes DEF Inv, TypeOK
  <2> QED BY <1>2, <2>2, <2>3 DEF Inv, InOrder, TypeOK
<1>8. IdleIsEmpty' /\ Filtered'
  BY <1>2 DEF Inv, IdleIsEmpty, Filtered
<1> QED BY <1>5, <1>6, <1>7, <1>8 DEF Inv

(* Steps that move no message: they change no more than the capacity of an *)
(* empty buffer, and the state of a loop.                                  *)
LEMMA BeginSendKeepsInv ==
  ASSUME Inv, BeginSend
  PROVE  Inv'
<1>1. /\ batch = <<>> /\ batch' = outgoing /\ outgoing' = <<>>
      /\ outCap' = outSize /\ sending' = TRUE
      /\ UNCHANGED <<issued, outSize, channel, open, receiving, incoming, inCap,
                     inSize, delivered>>
  BY DEF BeginSend, Inv, IdleIsEmpty, receiverVars
<1>2. TypeOK' /\ WithinCapacity' /\ IdleIsEmpty' /\ Filtered'
  BY <1>1 DEF Inv, TypeOK, Message, WithinCapacity, IdleIsEmpty, Filtered
<1>3. InOrder'
  BY <1>1, NatSeqs, EmptyOrder DEF Inv, InOrder
<1> QED BY <1>2, <1>3 DEF Inv

LEMMA ResizeOutKeepsInv ==
  ASSUME Inv, ResizeOut
  PROVE  Inv'
<1>1. /\ outgoing' = <<>> /\ outCap' = outSize
      /\ UNCHANGED <<issued, outSize, batch, sending, channel, open, receiving,
                     incoming, inCap, inSize, delivered>>
  BY DEF ResizeOut, receiverVars
<1>2. TypeOK' /\ WithinCapacity' /\ IdleIsEmpty' /\ Filtered'
  BY <1>1 DEF Inv, TypeOK, Message, WithinCapacity, IdleIsEmpty, Filtered
<1>3. InOrder'
  BY <1>1, NatSeqs, EmptyOrder DEF Inv, InOrder
<1> QED BY <1>2, <1>3 DEF Inv

(* The head of the batch moves behind the channel, or is lost.             *)
LEMMA SendNextKeepsInv ==
  ASSUME Inv, SendNext
  PROVE  Inv'
<1> DEFINE m == Head(batch)
<1>1. /\ batch # <<>> /\ sending
      /\ UNCHANGED <<issued, outgoing, outCap, outSize, open, receiving, incoming,
                     inCap, inSize, delivered>>
  BY DEF SendNext, receiverVars
<1>2. /\ batch \in Seq(Message) /\ channel \in Seq(Message)
      /\ batch \in Seq(Nat) /\ channel \in Seq(Nat) /\ outgoing \in Seq(Nat)
      /\ incoming \in Seq(Nat) /\ delivered \in Seq(Nat)
      /\ m \in Message /\ m \in Nat /\ Tail(batch) \in Seq(Message)
      /\ Tail(batch) \in Seq(Nat)
  BY <1>1, NatSeqs, HeadTail DEF Inv, TypeOK
<1>3. CASE batch' = Tail(batch) /\ UNCHANGED <<channel, sending>>
  <2>1. TypeOK' /\ WithinCapacity' /\ IdleIsEmpty' /\ Filtered'
    BY <1>1, <1>2, <1>3 DEF Inv, TypeOK, Message, WithinCapacity, IdleIsEmpty, Filtered
  <2>2. InOrder'
    BY <1>1, <1>2, <1>3, TailOrder, TailPrecedes DEF Inv, InOrder
  <2> QED BY <2>1, <2>2 DEF Inv
<1>4. CASE /\ m \in OutPass /\ HasRoom
           /\ channel' = Append(channel, m) /\ batch' = Tail(batch)
           /\ UNCHANGED sending
  <2>1. TypeOK'
    <3>1. channel' \in Seq(Message)
      BY <1>2, <1>4, AppendElements
    <3> QED BY <1>1, <1>2, <1>4, <3>1 DEF Inv, TypeOK, Message
  <2>2. WithinCapacity'
    BY <1>1, <1>2, <1>4, AppendElements, InterfaceAssumption
       DEF Inv, WithinCapacity, HasRoom
  <2>3. Filtered'
    <3>1. In(channel') = In(channel) \cup {m}
      BY <1>2, <1>4, AppendOrder
    <3> QED BY <1>1, <1>4, <3>1 DEF Inv, Filtered
  <2>4. IdleIsEmpty'
    BY <1>1, <1>4 DEF IdleIsEmpty, HasRoom
  <2>5. InOrder'
    <3>1. /\ Increasing(batch') /\ Precedes(<<m>>, batch')
      BY <1>1, <1>2, <1>4, TailOrder DEF Inv, InOrder
    <3>2. Increasing(channel')
      BY <1>1, <1>2, <1>4, AppendOrder, TailPrecedes DEF Inv, InOrder
    <3>3. Precedes(channel', batch')
      BY <1>1, <1>2, <1>4, <3>1, TailPrecedes, AppendPrecedes DEF Inv, InOrder
    <3>4. Precedes(batch', outgoing) /\ Precedes(channel', outgoing)
      BY <1>1, <1>2, <1>4, TailPrecedes, AppendPrecedes DEF Inv, InOrder
    <3>5. ASSUME NEW s \in Seq(Nat), Precedes(s, channel), Precedes(s, batch)
          PROVE  Precedes(s, channel') /\ Precedes(s, batch')
      BY <1>1, <1>2, <1>4, <3>5, TailPrecedes, AppendPrecedes
    <3> QED BY <1>1, <1>2, <3>1, <3>2, <3>3, <3>4, <3>5 DEF Inv, InOrder
  <2> QED BY <2>1, <2>2, <2>3, <2>4, <2>5 DEF Inv
<1>5. CASE batch' = <<>> /\ sending' = FALSE /\ UNCHANGED channel
  <2>0. TypeOK'
    <3>1. batch' \in Seq(Message)
      BY <1>5
    <3>2. sending' \in BOOLEAN
      BY <1>5
    <3> QED BY <1>1, <1>5, <3>1, <3>2 DEF Inv, TypeOK, Message
  <2>1. TypeOK' /\ WithinCapacity' /\ IdleIsEmpty' /\ Filtered'
    BY <1>1, <1>5, <2>0 DEF Inv, WithinCapacity, IdleIsEmpty, Filtered
  <2>2. InOrder'
    BY <1>1, <1>2, <1>5, EmptyOrder DEF Inv, InOrder
  <2> QED BY <2>1, <2>2 DEF Inv
<1> QED BY <1>3, <1>4, <1>5 DEF SendNext

(* The head of the channel moves behind the buffer, or is lost.            *)
LEMMA ReceiveNextKeepsInv ==
  ASSUME Inv, ReceiveNext
  PROVE  Inv'
<1> DEFINE m == Head(channel)
<1>1. /\ channel # <<>> /\ channel' = Tail(channel) /\ receiving
      /\ UNCHANGED <<issued, outgoing, outCap, outSize, batch, sending, open, inCap,
                     inSize, delivered>>
  BY DEF ReceiveNext, senderVars
<1>2. /\ channel \in Seq(Message) /\ incoming \in Seq(Message)
      /\ batch \in Seq(Nat) /\ channel \in Seq(Nat) /\ outgoing \in Seq(Nat)
      /\ incoming \in Seq(Nat) /\ delivered \in Seq(Nat)
      /\ m \in Message /\ m \in Nat
      /\ Tail(channel) \in Seq(Message) /\ Tail(channel) \in Seq(Nat)
      /\ Len(channel') = Len(channel) - 1 /\ Len(channel) \in Nat
  BY <1>1, NatSeqs, HeadTail DEF Inv, TypeOK
<1>3. m \in OutPass /\ In(channel') \subseteq OutPass
  <2>1. In(channel) = {m} \cup In(channel')
    BY <1>1, <1>2, TailOrder DEF Inv, InOrder
  <2> QED BY <2>1 DEF Inv, Filtered
<1>4. open
  BY <1>1 DEF Inv, IdleIsEmpty
<1>5. CASE UNCHANGED incoming /\ receiving' \in BOOLEAN
  <2>1. TypeOK' /\ WithinCapacity' /\ IdleIsEmpty' /\ Filtered'
    BY <1>1, <1>2, <1>3, <1>4, <1>5, InterfaceAssumption
       DEF Inv, TypeOK, Message, WithinCapacity, IdleIsEmpty, Filtered
  <2>2. InOrder'
    BY <1>1, <1>2, <1>5, TailOrder, TailPrecedes DEF Inv, InOrder
  <2> QED BY <2>1, <2>2 DEF Inv
<1>6. CASE /\ m \in InPass /\ Len(incoming) < inCap
           /\ incoming' = Append(incoming, m) /\ UNCHANGED receiving
  <2>1. TypeOK'
    <3>1. incoming' \in Seq(Message)
      BY <1>2, <1>6, AppendElements
    <3> QED BY <1>1, <1>2, <1>6, <3>1 DEF Inv, TypeOK, Message
  <2>2. WithinCapacity'
    BY <1>1, <1>2, <1>6, AppendElements, InterfaceAssumption
       DEF Inv, WithinCapacity, TypeOK
  <2>3. Filtered'
    <3>1. In(incoming') = In(incoming) \cup {m}
      BY <1>2, <1>6, AppendOrder
    <3> QED BY <1>1, <1>3, <1>6, <3>1 DEF Inv, Filtered
  <2>4. IdleIsEmpty'
    BY <1>1, <1>4 DEF Inv, IdleIsEmpty
  <2>5. InOrder'
    <3>1. /\ Increasing(channel') /\ Precedes(<<m>>, channel')
      BY <1>1, <1>2, TailOrder DEF Inv, InOrder
    <3>2. Increasing(incoming')
      BY <1>1, <1>2, <1>6, AppendOrder, TailPrecedes DEF Inv, InOrder
    <3>3. Precedes(incoming', channel')
      BY <1>1, <1>2, <1>6, <3>1, TailPrecedes, AppendPrecedes DEF Inv, InOrder
    <3>4. ASSUME NEW s \in Seq(Nat), Precedes(channel, s), Precedes(incoming, s)
          PROVE  Precedes(channel', s) /\ Precedes(incoming', s)
      BY <1>1, <1>2, <1>6, <3>4, TailPrecedes, AppendPrecedes
    <3>5. Precedes(delivered, channel') /\ Precedes(delivered, incoming')
      BY <1>1, <1>2, <1>6, TailPrecedes, AppendPrecedes DEF Inv, InOrder
    <3> QED BY <1>1, <1>2, <3>1, <3>2, <3>3, <3>4, <3>5 DEF Inv, InOrder
  <2> QED BY <2>1, <2>2, <2>3, <2>4, <2>5 DEF Inv
<1> QED BY <1>5, <1>6 DEF ReceiveNext, Inv, TypeOK

(* get_incoming_advertisements moves the buffer behind what was delivered. *)
LEMMA GetIncomingKeepsInv ==
  ASSUME Inv, GetIncoming
  PROVE  Inv'
<1>1. /\ delivered' = delivered \o incoming /\ incoming' = <<>> /\ inCap' = inSize
      /\ UNCHANGED <<issued, outgoing, outCap, outSize, batch, sending, channel, open,
                     receiving, inSize>>
  BY DEF GetIncoming, senderVars
<1>2. /\ delivered \in Seq(Message) /\ incoming \in Seq(Message)
      /\ batch \in Seq(Nat) /\ channel \in Seq(Nat) /\ outgoing \in Seq(Nat)
      /\ incoming \in Seq(Nat) /\ delivered \in Seq(Nat)
  BY NatSeqs DEF Inv, TypeOK
<1>3. TypeOK'
  <2>1. delivered' \in Seq(Message)
    BY <1>1, <1>2, ConcatElements
  <2>2. incoming' \in Seq(Message)
    BY <1>1
  <2> QED BY <1>1, <2>1, <2>2 DEF Inv, TypeOK, Message
<1>4. WithinCapacity' /\ IdleIsEmpty'
  BY <1>1 DEF Inv, TypeOK, WithinCapacity, IdleIsEmpty
<1>5. Filtered'
  <2>1. In(delivered') = In(delivered) \cup In(incoming)
    BY <1>1, <1>2, ConcatOrder
  <2>2. In(incoming') = {}
    BY <1>1, <1>2, EmptyOrder
  <2> QED BY <1>1, <2>1, <2>2 DEF Inv, Filtered
<1>6. InOrder'
  <2>1. Increasing(delivered')
    BY <1>1, <1>2, ConcatOrder DEF Inv, InOrder
  <2>2. ASSUME NEW s \in Seq(Nat), Precedes(delivered, s), Precedes(incoming, s)
        PROVE  Precedes(delivered', s)
    BY <1>1, <1>2, <2>2, ConcatPrecedes
  <2>3. Increasing(incoming')
    BY <1>1, <1>2, EmptyOrder
  <2>4. ASSUME NEW s \in Seq(Nat)
        PROVE  Precedes(incoming', s) /\ Precedes(s, incoming')
    BY <1>1, EmptyOrder
  <2>5. delivered' \in Seq(Nat)
    BY <1>1, <1>2, ConcatElements
  <2> QED BY <1>1, <1>2, <2>1, <2>2, <2>3, <2>4, <2>5 DEF Inv, InOrder
<1> QED BY <1>3, <1>4, <1>5, <1>6 DEF Inv

(* Buffers and channels that are dropped.                                  *)
LEMMA DropKeepsInv ==
  ASSUME Inv, ResizeIn \/ DropReceiver
  PROVE  Inv'
<1>1. /\ incoming' = <<>> /\ inCap' \in {inCap, inSize}
      /\ \/ channel' = channel /\ open'
         \/ channel' = <<>> /\ ~ open'
      /\ open' \in BOOLEAN
      /\ UNCHANGED <<issued, outgoing, outCap, outSize, batch, sending, receiving,
                     inSize, delivered>>
      /\ ~ receiving
  <2>1. CASE ResizeIn
    BY <2>1 DEF ResizeIn, senderVars
  <2>2. CASE DropReceiver
    BY <2>2 DEF DropReceiver, senderVars
  <2> QED BY <2>1, <2>2
<1>2. /\ batch \in Seq(Nat) /\ channel \in Seq(Nat) /\ outgoing \in Seq(Nat)
      /\ incoming \in Seq(Nat) /\ delivered \in Seq(Nat)
  BY NatSeqs DEF Inv
<1>3. TypeOK'
  <2>1. incoming' \in Seq(Message) /\ channel' \in Seq(Message)
    <3>1. incoming' = <<>> /\ channel' \in {channel, <<>>}
      BY <1>1
    <3>2. channel \in Seq(Message)
      BY DEF Inv, TypeOK
    <3>3. <<>> \in Seq(Message)
      OBVIOUS
    <3> QED BY <3>1, <3>2, <3>3
  <2>2. inCap' \in Nat
    BY <1>1 DEF Inv, TypeOK
  <2>3. open' \in BOOLEAN
    BY <1>1 DEF Inv, TypeOK
  <2> QED BY <1>1, <2>1, <2>2, <2>3 DEF Inv, TypeOK, Message
<1>4. WithinCapacity'
  BY <1>1, InterfaceAssumption DEF Inv, TypeOK, WithinCapacity
<1>5. IdleIsEmpty'
  BY <1>1 DEF Inv, IdleIsEmpty
<1>6. Filtered' /\ InOrder'
  <2>1. In(incoming') = {} /\ Increasing(incoming')
    BY <1>1, <1>2, EmptyOrder
  <2>2. \A s \in Seq(Nat) : Precedes(incoming', s) /\ Precedes(s, incoming')
    BY <1>1, EmptyOrder
  <2>3. \/ channel' = channel
        \/ /\ In(channel') = {} /\ Increasing(channel') /\ channel' \in Seq(Nat)
           /\ \A s \in Seq(Nat) : Precedes(channel', s) /\ Precedes(s, channel')
    <3>1. CASE channel' = channel
      BY <3>1
    <3>2. CASE channel' = <<>>
      BY <1>2, <3>2, EmptyOrder
    <3> QED BY <1>1, <3>1, <3>2
  <2>4. channel' \in Seq(Nat) /\ incoming' \in Seq(Nat)
    BY <1>1, <1>2, <2>3
  <2>5. Filtered'
    BY <1>1, <2>1, <2>3 DEF Inv, Filtered
  <2>6. InOrder'
    BY <1>1, <1>2, <2>1, <2>2, <2>3, <2>4 DEF Inv, InOrder
  <2> QED BY <2>5, <2>6
<1> QED BY <1>3, <1>4, <1>5, <1>6 DEF Inv

(* Steps that move no message.                                             *)
LEMMA IdleKeepsInv ==
  ASSUME Inv,
         UNCHANGED <<issued, outgoing, outCap, batch, channel, open, incoming, inCap,
                     delivered>>,
         outSize' \in Nat, inSize' \in Nat,
         sending' \in BOOLEAN, receiving' \in BOOLEAN,
         sending' = sending \/ batch = <<>>
  PROVE  Inv'
<1>1. TypeOK'
  BY DEF Inv, TypeOK, Message
<1>2. WithinCapacity' /\ InOrder' /\ Filtered'
  BY DEF Inv, WithinCapacity, InOrder, Filtered
<1>3. IdleIsEmpty'
  BY DEF Inv, IdleIsEmpty
<1> QED BY <1>1, <1>2, <1>3 DEF Inv

LEMMA StepKeepsInv ==
  ASSUME Inv, [Next]_vars
  PROVE  Inv'
<1>1. CASE Sender
  <2>1. ASSUME NEW k \in 1 .. MaxBatch, Push(k) PROVE Inv'
    BY <2>1, PushKeepsInv
  <2>2. ASSUME NEW n \in Sizes, SetOutSize(n) PROVE Inv'
    BY <2>2, IdleKeepsInv, InterfaceAssumption
       DEF SetOutSize, receiverVars, Inv, TypeOK
  <2>3. CASE EndSend
    BY <2>3, IdleKeepsInv DEF EndSend, receiverVars, Inv, TypeOK
  <2> QED BY <1>1, <2>1, <2>2, <2>3, ResizeOutKeepsInv, BeginSendKeepsInv,
             SendNextKeepsInv DEF Sender
<1>2. CASE Receiver
  <2>1. CASE BeginReceive
    BY <2>1, IdleKeepsInv DEF BeginReceive, senderVars, Inv, TypeOK
  <2>2. CASE EndReceive
    BY <2>2, IdleKeepsInv DEF EndReceive, senderVars, Inv, TypeOK
  <2>3. ASSUME NEW n \in Sizes, SetInSize(n) PROVE Inv'
    BY <2>3, IdleKeepsInv, InterfaceAssumption DEF SetInSize, senderVars, Inv, TypeOK
  <2> QED BY <1>2, <2>1, <2>2, <2>3, ReceiveNextKeepsInv, GetIncomingKeepsInv,
             DropKeepsInv DEF Receiver
<1>3. CASE UNCHANGED vars
  BY <1>3, IdleKeepsInv DEF vars, senderVars, receiverVars, Inv, TypeOK
<1> QED BY <1>1, <1>2, <1>3 DEF Next

LEMMA InitHasInv == Init => Inv
<1> SUFFICES ASSUME Init PROVE Inv
  OBVIOUS
<1>1. TypeOK
  <2>1. /\ issued = 0 /\ outgoing = <<>> /\ batch = <<>> /\ channel = <<>>
        /\ incoming = <<>> /\ delivered = <<>>
    BY DEF Init
  <2>2. /\ outgoing \in Seq(Message) /\ batch \in Seq(Message)
        /\ channel \in Seq(Message) /\ incoming \in Seq(Message)
        /\ delivered \in Seq(Message)
    <3>1. <<>> \in Seq(Message)
      OBVIOUS
    <3> QED BY <2>1, <3>1
  <2>3. issued \in Nat
    BY <2>1
  <2>4. outCap \in Nat /\ outSize \in Nat /\ inCap \in Nat /\ inSize \in Nat
    BY InterfaceAssumption DEF Init
  <2>5. sending \in BOOLEAN /\ open \in BOOLEAN /\ receiving \in BOOLEAN
    BY Zenon DEF Init
  <2> QED BY <2>2, <2>3, <2>4, <2>5, Zenon DEF TypeOK
<1>2. WithinCapacity /\ IdleIsEmpty
  BY InterfaceAssumption DEF Init, WithinCapacity, IdleIsEmpty
<1>3. InOrder /\ Filtered
  <2>1. <<>> \in Seq(Nat)
    OBVIOUS
  <2> QED BY <2>1, EmptyOrder DEF Init, InOrder, Filtered
<1> QED BY <1>1, <1>2, <1>3 DEF Inv

(* The state of a link: no buffer over its capacity, the messages in order *)
(* and each at one place only, and past each filter only what it accepts.  *)
THEOREM InterfaceSafety == Spec => []Inv
<1>1. Inv /\ [Next]_vars => Inv'
  BY StepKeepsInv
<1> QED BY <1>1, InitHasInv, PTL DEF Spec

(* Messages are never reordered or duplicated on the way.                  *)
THEOREM MessagesStayInOrder == Spec => []InOrder
BY InterfaceSafety, PTL DEF Inv

(* Numbers are where numbers should be, and what a filter rejects goes no  *)
(* further, whatever is resized, swapped or dropped meanwhile.             *)
THEOREM LinkTypes == Spec => []TypeOK
BY InterfaceSafety, PTL DEF Inv

THEOREM FiltersHold == Spec => []Filtered
BY InterfaceSafety, PTL DEF Inv

-----------------------------------------------------------------------------
(* A link implements the lossy fifo.                                       *)

LEMMA InSeq ==
  ASSUME NEW S, NEW s \in Seq(S)
  PROVE  In(s) \subseteq S
BY DEF In

LEMMA PrecedesIn ==
  ASSUME NEW s \in Seq(Nat), NEW t \in Seq(Nat), Precedes(s, t)
  PROVE  \A m \in In(s), n \in In(t) : m < n
BY DEF Precedes, In

LEMMA EmptyIn == In(<<>>) = {}
BY DEF In

(* What is appended to a sequence is its end.                              *)
LEMMA Appended ==
  ASSUME NEW S, NEW s \in Seq(S), NEW t \in Seq(S)
  PROVE  SubSeq(s \o t, Len(s) + 1, Len(s \o t)) = t
<1> DEFINE u == s \o t
<1>1. u \in Seq(S) /\ Len(u) = Len(s) + Len(t) /\ Len(s) \in Nat /\ Len(t) \in Nat
      /\ \A i \in 1 .. Len(t) : u[Len(s) + i] = t[i]
  OBVIOUS
<1> HIDE DEF u
<1> DEFINE v == SubSeq(u, Len(s) + 1, Len(u))
<1>2. v \in Seq(S) /\ Len(v) = Len(t) /\ \A i \in 1 .. Len(t) : v[i] = u[Len(s) + i]
  BY <1>1
<1> HIDE DEF v
<1>3. v = t
  BY <1>1, <1>2
<1> QED BY <1>3 DEF u, v

(* A step that leaves the numbering and the deliveries alone and adds no   *)
(* message loses some at most.                                             *)
LEMMA LoseRefines ==
  ASSUME UNCHANGED <<issued, delivered>>, Flight' \subseteq Flight
  PROVE  Fifo!Next
BY DEF Fifo!Next, Fifo!Lose

LEMMA StepRefines ==
  ASSUME Inv, [Next]_vars
  PROVE  [Fifo!Next]_<<issued, Flight, delivered>>
<1> DEFINE goal == [Fifo!Next]_<<issued, Flight, delivered>>
<1>0. /\ issued \in Nat
      /\ outgoing \in Seq(Nat) /\ batch \in Seq(Nat) /\ channel \in Seq(Nat)
      /\ incoming \in Seq(Nat) /\ delivered \in Seq(Nat)
  BY NatSeqs DEF Inv
<1>1. ASSUME NEW k \in 1 .. MaxBatch, Push(k) PROVE goal
  <2> DEFINE taken == Smaller(k, outCap - Len(outgoing))
             fresh == Numbered(issued, taken)
  <2>1. /\ taken \in Nat /\ taken <= k /\ k \in Nat
        /\ issued' = issued + k /\ outgoing' = outgoing \o fresh
        /\ UNCHANGED <<batch, channel, incoming, delivered>>
    BY <1>1, InterfaceAssumption
       DEF Smaller, Inv, TypeOK, WithinCapacity, Push, receiverVars
  <2> HIDE DEF taken
  <2>2. fresh \in Seq(Nat) /\ In(fresh) \subseteq issued + 1 .. issued + taken
    BY <1>0, <2>1, FreshMessages
  <2>3. In(outgoing') = In(outgoing) \cup In(fresh)
    BY <1>0, <2>1, <2>2, ConcatOrder
  <2> HIDE DEF fresh
  <2>4. In(fresh) \in SUBSET (issued + 1 .. issued')
    BY <1>0, <2>1, <2>2
  <2>5. Flight' = Flight \cup In(fresh)
    BY <2>1, <2>3 DEF Flight
  <2>6. issued' \in Nat /\ issued' >= issued
    BY <1>0, <2>1
  <2>7. UNCHANGED delivered
    BY <2>1
  <2>8. Fifo!Issue
    BY <2>4, <2>5, <2>6, <2>7, Zenon DEF Fifo!Issue
  <2> QED BY <2>8 DEF Fifo!Next
<1>2. CASE BeginSend
  BY <1>2, LoseRefines, EmptyIn DEF BeginSend, receiverVars, Flight
<1>3. CASE ResizeOut
  BY <1>3, LoseRefines, EmptyIn DEF ResizeOut, receiverVars, Flight
<1>4. CASE SendNext
  <2>1. /\ batch # <<>> /\ UNCHANGED <<issued, outgoing, incoming, delivered>>
    BY <1>4 DEF SendNext, receiverVars
  <2>2. /\ In(batch) = {Head(batch)} \cup In(Tail(batch))
        /\ In(Append(channel, Head(batch))) = In(channel) \cup {Head(batch)}
    BY <1>0, <2>1, HeadTail, TailOrder, AppendOrder DEF Inv, InOrder
  <2>3. In(batch') \cup In(channel') \subseteq In(batch) \cup In(channel)
    BY <1>4, <2>2, EmptyIn DEF SendNext
  <2> QED BY <2>1, <2>3, LoseRefines DEF Flight
<1>5. CASE ReceiveNext
  <2>1. /\ channel # <<>> /\ channel' = Tail(channel)
        /\ UNCHANGED <<issued, outgoing, batch, delivered>>
    BY <1>5 DEF ReceiveNext, senderVars
  <2>2. /\ In(channel) = {Head(channel)} \cup In(Tail(channel))
        /\ In(Append(incoming, Head(channel))) = In(incoming) \cup {Head(channel)}
    BY <1>0, <2>1, HeadTail, TailOrder, AppendOrder DEF Inv, InOrder
  <2>3. In(channel') \cup In(incoming') \subseteq In(channel) \cup In(incoming)
    BY <1>5, <2>1, <2>2 DEF ReceiveNext
  <2> QED BY <2>1, <2>3, LoseRefines DEF Flight
<1>6. CASE GetIncoming
  <2>1. /\ delivered' = delivered \o incoming /\ incoming' = <<>>
        /\ UNCHANGED <<issued, outgoing, batch, channel>>
    BY <1>6 DEF GetIncoming, senderVars
  <2>2. In(delivered') = In(delivered) \cup In(incoming) /\ In(incoming') = {}
    BY <1>0, <2>1, ConcatOrder, EmptyIn
  <2>3. \A m \in In(incoming), n \in In(channel) \cup In(batch) \cup In(outgoing) :
          m < n
    BY <1>0, PrecedesIn DEF Inv, InOrder
  <2>4. \A m \in In(incoming), n \in Flight \ In(incoming) : m < n
    BY <2>3 DEF Flight
  <2>5. Flight' = Flight \ In(incoming)
    <3>1. \A m \in In(incoming) : m \notin In(channel) \cup In(batch) \cup In(outgoing)
      <4>1. \A m \in In(incoming) : m \in Nat
        BY <1>0, InSeq
      <4> QED BY <2>3, <4>1
    <3> QED BY <2>1, <2>2, <3>1 DEF Flight
  <2>6. Fifo!Batch = incoming
    BY <1>0, <2>1, Appended DEF Fifo!Batch
  <2>7. Fifo!First = In(incoming)
    BY <2>6 DEF Fifo!First, In
  <2>8. \A i, j \in 1 .. Len(incoming) : i < j => incoming[i] < incoming[j]
    BY DEF Inv, InOrder, Increasing
  <2>9. In(incoming) \in SUBSET Flight
    BY DEF Flight
  <2>10. Fifo!Deliver
    BY <2>1, <2>4, <2>5, <2>6, <2>7, <2>8, <2>9, Zenon DEF Fifo!Deliver
  <2> QED BY <2>10 DEF Fifo!Next
<1>7. CASE ResizeIn \/ DropReceiver
  BY <1>7, LoseRefines, EmptyIn DEF ResizeIn, DropReceiver, senderVars, Flight
<1>8. CASE \/ \E n \in Sizes : SetOutSize(n) \/ SetInSize(n)
           \/ EndSend \/ BeginReceive \/ EndReceive \/ UNCHANGED vars
  <2>1. UNCHANGED <<issued, outgoing, batch, channel, incoming, delivered>>
    BY <1>8 DEF SetOutSize, SetInSize, EndSend, BeginReceive, EndReceive, vars,
                senderVars, receiverVars
  <2> QED BY <2>1 DEF Flight
<1> QED
  BY <1>1, <1>2, <1>3, <1>4, <1>5, <1>6, <1>7, <1>8 DEF Next, Sender, Receiver

(* Whatever is lost on a link, and however the threads at its ends         *)
(* interleave, each message is delivered at most once and in its turn.     *)
THEOREM LinkImplementsLossyFifo == Spec => LinkIsLossyFifo
<1>1. Init => Fifo!Init
  BY EmptyIn DEF Init, Fifo!Init, Flight
<1>2. Inv /\ [Next]_vars => [Fifo!Next]_<<issued, Flight, delivered>>
  BY StepRefines
<1> QED BY <1>1, <1>2, InterfaceSafety, PTL DEF Spec, LinkIsLossyFifo, Fifo!Spec

-----------------------------------------------------------------------------
(* What is lost.                                                           *)

(* A push takes all of its messages, or fills the buffer.                  *)
LEMMA PushLosesForCause ==
  ASSUME Inv, NEW k \in 1 .. MaxBatch, Push(k), NEW m \in Lost
  PROVE  HasCause(m)
<1> DEFINE taken == Smaller(k, outCap - Len(outgoing))
           fresh == Numbered(issued, taken)
<1>1. /\ issued \in Nat /\ k \in Nat /\ outCap \in Nat /\ Len(outgoing) \in Nat
      /\ Len(outgoing) <= outCap /\ outgoing \in Seq(Nat)
  BY NatSeqs, InterfaceAssumption DEF Inv, TypeOK, WithinCapacity
<1>2. /\ outgoing' = outgoing \o fresh /\ issued' = issued + k /\ outCap' = outCap
      /\ UNCHANGED <<batch, channel, incoming, delivered>>
  BY DEF Push, receiverVars
<1>3. taken \in Nat /\ (taken = k \/ taken = outCap - Len(outgoing))
  BY <1>1 DEF Smaller
<1> HIDE DEF taken
<1>4. /\ fresh \in Seq(Nat) /\ Len(fresh) = taken
      /\ \A i \in 1 .. taken : fresh[i] = issued + i
  <2>1. fresh \in Seq(Nat) /\ Len(fresh) = taken
    BY <1>1, <1>3, FreshMessages
  <2> QED BY <2>1 DEF Numbered
<1> HIDE DEF fresh
<1>5. In(outgoing') = In(outgoing) \cup In(fresh)
  BY <1>1, <1>2, <1>4, ConcatOrder
<1>6. Flight' = Flight \cup In(fresh)
  BY <1>2, <1>5 DEF Flight
<1>7. m \in issued + 1 .. issued' /\ m \notin In(fresh)
  BY <1>6 DEF Lost
<1>8. taken # k
  <2>1. ASSUME taken = k PROVE FALSE
    <3>1. m - issued \in 1 .. taken /\ m = issued + (m - issued)
      BY <1>1, <1>2, <1>7, <2>1
    <3>2. m \in In(fresh)
      BY <1>4, <3>1 DEF In
    <3> QED BY <1>7, <3>2
  <2> QED BY <2>1
<1>9. Len(outgoing') = Len(outgoing) + taken
  BY <1>1, <1>2, <1>4, ConcatElements
<1>10. Len(outgoing') = outCap' /\ m > issued
  BY <1>1, <1>2, <1>3, <1>7, <1>8, <1>9
<1> QED BY <1>10 DEF HasCause

LEMMA StepLosesForCause ==
  ASSUME Inv, [Next]_vars, NEW m \in Lost
  PROVE  HasCause(m)
<1>0. /\ issued \in Nat
      /\ outgoing \in Seq(Nat) /\ batch \in Seq(Nat) /\ channel \in Seq(Nat)
      /\ incoming \in Seq(Nat) /\ delivered \in Seq(Nat)
  BY NatSeqs DEF Inv
<1>1. ASSUME UNCHANGED issued
      PROVE  /\ m \in Flight /\ m \notin Flight' /\ m \notin In(delivered')
  BY <1>0, <1>1 DEF Lost
<1>2. ASSUME NEW k \in 1 .. MaxBatch, Push(k) PROVE HasCause(m)
  BY <1>2, PushLosesForCause
<1>3. CASE BeginSend
  <2>1. /\ In(batch') = In(outgoing) /\ In(batch) = {}
        /\ UNCHANGED <<issued, channel, incoming, delivered>>
    BY <1>3, EmptyIn DEF BeginSend, receiverVars, Inv, IdleIsEmpty
  <2> QED BY <1>1, <2>1 DEF Flight
<1>4. CASE ResizeOut
  <2>1. UNCHANGED <<issued, batch, channel, incoming, delivered>>
    BY <1>4 DEF ResizeOut, receiverVars
  <2> QED BY <1>1, <1>4, <2>1 DEF Flight, HasCause
<1>5. CASE SendNext
  <2>1. batch # <<>> /\ UNCHANGED <<issued, outgoing, incoming, delivered>>
    BY <1>5 DEF SendNext, receiverVars
  <2>2. /\ In(batch) = {Head(batch)} \cup In(Tail(batch))
        /\ In(Append(channel, Head(batch))) = In(channel) \cup {Head(batch)}
    BY <1>0, <2>1, HeadTail, TailOrder, AppendOrder DEF Inv, InOrder
  <2>3. \/ m \in In(batch) /\ m \notin In(batch') \cup In(channel')
        \/ m \in In(channel) /\ m \notin In(channel')
    BY <1>1, <2>1 DEF Flight
  <2>4. In(channel) \subseteq In(channel')
    BY <1>5, <2>2 DEF SendNext
  <2>5. m \in In(batch) /\ m \notin In(batch') \cup In(channel')
    BY <2>3, <2>4
  <2>6. m \notin OutPass \/ ~ HasRoom
    <3>1. CASE Head(batch) \notin OutPass /\ batch' = Tail(batch)
      BY <2>2, <2>5, <3>1
    <3>2. CASE channel' = Append(channel, Head(batch)) /\ batch' = Tail(batch)
      BY <2>2, <2>5, <3>2
    <3>3. CASE ~ HasRoom
      BY <3>3
    <3> QED BY <1>5, <3>1, <3>2, <3>3 DEF SendNext
  <2> QED BY <2>5, <2>6 DEF HasCause
<1>6. CASE ReceiveNext
  <2>1. /\ channel # <<>> /\ channel' = Tail(channel)
        /\ UNCHANGED <<issued, outgoing, batch, delivered>>
    BY <1>6 DEF ReceiveNext, senderVars
  <2>2. /\ In(channel) = {Head(channel)} \cup In(Tail(channel))
        /\ In(Append(incoming, Head(channel))) = In(incoming) \cup {Head(channel)}
    BY <1>0, <2>1, HeadTail, TailOrder, AppendOrder DEF Inv, InOrder
  <2>3. In(incoming) \subseteq In(incoming')
    BY <1>6, <2>2 DEF ReceiveNext
  <2>4. m \in In(channel) /\ m = Head(channel) /\ m \notin In(incoming')
    BY <1>1, <2>1, <2>2, <2>3 DEF Flight
  <2>5. m \notin InPass \/ Len(incoming) >= inCap
    BY <1>6, <2>2, <2>4 DEF ReceiveNext
  <2> QED BY <2>4, <2>5 DEF HasCause
<1>7. CASE GetIncoming
  <2>1. /\ delivered' = delivered \o incoming
        /\ UNCHANGED <<issued, outgoing, batch, channel>>
    BY <1>7 DEF GetIncoming, senderVars
  <2>2. In(incoming) \subseteq In(delivered')
    BY <1>0, <2>1, ConcatOrder
  <2> QED BY <1>1, <2>1, <2>2 DEF Flight
<1>8. CASE ResizeIn
  <2>1. UNCHANGED <<issued, outgoing, batch, channel, delivered>>
    BY <1>8 DEF ResizeIn, senderVars
  <2> QED BY <1>1, <1>8, <2>1 DEF Flight, HasCause
<1>9. CASE DropReceiver
  <2>1. UNCHANGED <<issued, outgoing, batch, delivered>>
    BY <1>9 DEF DropReceiver, senderVars
  <2> QED BY <1>1, <1>9, <2>1 DEF Flight, HasCause
<1>10. CASE \/ \E n \in Sizes : SetOutSize(n) \/ SetInSize(n)
            \/ EndSend \/ BeginReceive \/ EndReceive \/ UNCHANGED vars
  <2>1. UNCHANGED <<issued, outgoing, batch, channel, incoming, delivered>>
    BY <1>10 DEF SetOutSize, SetInSize, EndSend, BeginReceive, EndReceive, vars,
                 senderVars, receiverVars
  <2> QED BY <1>1, <2>1 DEF Flight
<1> QED
  BY <1>2, <1>3, <1>4, <1>5, <1>6, <1>7, <1>8, <1>9, <1>10 DEF Next, Sender, Receiver

(* A link loses nothing by itself: a message that does not arrive met a    *)
(* filter, a full buffer or channel, or an end that was resized or dropped.*)
THEOREM LinkLosesForCause == Spec => LossesHaveCauses
<1>1. Inv /\ [Next]_vars => [\A m \in Lost : HasCause(m)]_vars
  BY StepLosesForCause
<1> QED BY <1>1, InterfaceSafety, PTL DEF Spec, LossesHaveCauses
=============================================================================
